----------------------------- MODULE Interchange -----------------------------
(***************************************************************************)
(* Documents (src/src/interchange.cpp, intent.cpp, observation.cpp): how   *)
(* observation snapshots, intent generations and source descriptors become *)
(* values and come back, what is validated on the way, and what their      *)
(* content digests cover.  Baselines of the ledger file                    *)
(* (persistence.cpp) are coded in the same way.                            *)
(*                                                                         *)
(* Identities and field paths are texts; a path has one segment.  The      *)
(* SHA-256 of a content is that content.                                   *)
(***************************************************************************)
EXTENDS Json, Calendar

Improper == Word("..")             \* neither an identity nor a path
IsValidIdentityText(text) == text \notin {Word(""), Improper, NotUtf8}
IsPath(text) == text \notin {Improper, NotUtf8}

Evidence == {"unknown", "real", "synthetic", "unsupported"}
Authorities == {"unknown", "intent-fabric", "configuration-fabric", "local-policy", "imported-document"}
Comparabilities == {"managed", "observe-only", "unmanaged", "unobservable", "unsupported"}
Existences == {"required", "forbidden"}
Presences == {"absent", "present", "unknown"}
Coverages == {"unknown", "partial", "complete"}

-----------------------------------------------------------------------------
(* Members of an object (json_help.hpp). *)

Has(map, name) == Word(name) \in DOMAIN map
Member(map, name) == map[Word(name)]

CheckMembers(map, names) == DOMAIN map \subseteq {Word(n) : n \in names}

MemberHasKind(v, kind) ==
    v.kind \in CASE kind = "Integer"  -> {"Int", "Uint"}
                 [] kind = "Boolean"  -> {"Bool"}
                 [] kind = "Text"     -> {"String"}
                 [] kind = "Sequence" -> {"List"}
                 [] kind = "Object"   -> {"Map"}

\* Mutant: the kinds are not checked before the members are extracted.
CheckMemberKindsNot(map, kinds) == TRUE

CheckMemberKinds(map, kinds) ==
    \A n \in DOMAIN kinds : Has(map, n) => MemberHasKind(Member(map, n), kinds[n])

HasText(map, name) == Has(map, name) /\ Member(map, name).kind = "String"
TextOf(map, name) == Member(map, name).text
RequireIdentity(map, name) == HasText(map, name) /\ IsValidIdentityText(TextOf(map, name))
RequireTime(map, name) == HasText(map, name) /\ TryParseTime(TextOf(map, name))
RequireList(map, name) == Has(map, name) /\ Member(map, name).kind = "List"
RequireUint(map, name) ==
    /\ Has(map, name)
    /\ \/ Member(map, name).kind = "Uint"
       \/ Member(map, name).kind = "Int" /\ Member(map, name).int >= 0
UintOf(map, name) ==
    IF Member(map, name).kind = "Uint" THEN Member(map, name).uint ELSE Member(map, name).int
OptionalInt(map, name, default) ==
    IF Has(map, name) /\ Member(map, name).kind = "Int" THEN Member(map, name).int ELSE default
OptionalBool(map, name) ==
    Has(map, name) /\ Member(map, name).kind = "Bool" /\ Member(map, name).bool

\* An optional name of an enumeration has to be one, and has a default.
Named(map, name, names) == HasText(map, name) => TextOf(map, name) \in {Word(n) : n \in names}
NameOf(map, name, default) == IF HasText(map, name) THEN TextOf(map, name).word ELSE default

Name(w) == MakeString(Word(w))
Members(f) == MakeMap([k \in {Word(n) : n \in DOMAIN f} |-> f[k.word]])

RECURSIVE Listed(_, _)
Listed(f, keys) ==
    IF keys = {} THEN <<>>
    ELSE LET k == CHOOSE k \in keys : TRUE IN <<f[k]>> \o Listed(f, keys \ {k})
ListOf(f) == MakeList(Listed(f, DOMAIN f))

\* std::map::emplace for the elements of a list: of several with one key the
\* first is kept.
ByKey(list, name) ==
    LET Key(i) == TextOf(list[i].map, name)
    IN  [k \in {Key(i) : i \in DOMAIN list} |->
            list[CHOOSE i \in DOMAIN list :
                     Key(i) = k /\ \A j \in DOMAIN list : Key(j) = k => i <= j].map]

-----------------------------------------------------------------------------
(* Intent generations. *)

EncodeIntentFields(fields) ==
    ListOf([p \in DOMAIN fields |->
        Members([path |-> MakeString(p), value |-> fields[p].value,
                 comparability |-> Name(fields[p].comparability)])])

EncodeIntentObjects(objects) ==
    ListOf([id \in DOMAIN objects |->
        Members([id |-> MakeString(id), existence |-> Name(objects[id].existence),
                 fields |-> EncodeIntentFields(objects[id].fields)])])

EncodeIntentDocument(d) ==
    Members([schema |-> Name("ndo/intent-generation/1"), target |-> MakeString(d.target),
             generation |-> MakeUint(d.generation), epoch |-> MakeUint(d.epoch),
             authority |-> Name(d.authority), policy |-> MakeString(d.policy),
             authored_at |-> MakeString(FormatTime(d.authored_at)),
             evidence |-> Name(d.evidence), objects |-> EncodeIntentObjects(d.objects)])

IntentFieldOk(v, strict) ==
    /\ v.kind = "Map"
    /\ CheckMembers(v.map, {"path", "value", "comparability"})
    /\ strict => CheckMemberKinds(v.map, [path |-> "Text", comparability |-> "Text"])
    /\ HasText(v.map, "path") /\ IsPath(TextOf(v.map, "path"))
    /\ Has(v.map, "value")
    /\ Named(v.map, "comparability", Comparabilities)

IntentObjectOk(v, limits, strict) ==
    /\ v.kind = "Map"
    /\ CheckMembers(v.map, {"id", "existence", "fields"})
    /\ strict => CheckMemberKinds(v.map, [id |-> "Text", existence |-> "Text", fields |-> "Sequence"])
    /\ RequireIdentity(v.map, "id")
    /\ Named(v.map, "existence", Existences)
    /\ RequireList(v.map, "fields")
    /\ LET fields == Member(v.map, "fields").list
       IN  Len(fields) <= limits.fields /\ \A i \in DOMAIN fields : IntentFieldOk(fields[i], strict)

IntentObjectsOk(map, limits, strict) ==
    /\ RequireList(map, "objects")
    /\ LET objects == Member(map, "objects").list
       IN  /\ Len(objects) <= limits.objects
           /\ \A i \in DOMAIN objects : IntentObjectOk(objects[i], limits, strict)

IntentObjects(map) ==
    LET Field(m)  == [value |-> Member(m, "value"),
                      comparability |-> NameOf(m, "comparability", "managed")]
        Object(m) == LET fields == ByKey(Member(m, "fields").list, "path")
                     IN  [existence |-> NameOf(m, "existence", "required"),
                          fields |-> [p \in DOMAIN fields |-> Field(fields[p])]]
        objects   == ByKey(Member(map, "objects").list, "id")
    IN  [o \in DOMAIN objects |-> Object(objects[o])]

\* IntentGenerationDocument::ComputeContentDigest: every member is hashed.
IntentDigest(d) == d

\* IntentGenerationDocument::Validate.  Nothing is asked of authored_at.
ValidateIntent(d, limits) ==
    /\ IsValidIdentityText(d.target) /\ IsValidIdentityText(d.policy)
    /\ d.generation # 0 /\ d.epoch # 0
    /\ d.authority # "unknown"
    /\ Cardinality(DOMAIN d.objects) <= limits.objects
    /\ \A id \in DOMAIN d.objects :
           /\ IsValidIdentityText(id)
           /\ Cardinality(DOMAIN d.objects[id].fields) <= limits.fields
           /\ \A p \in DOMAIN d.objects[id].fields : Validate(d.objects[id].fields[p].value, limits)

IntentKinds ==
    [target |-> "Text", generation |-> "Integer", epoch |-> "Integer", authority |-> "Text",
     policy |-> "Text", authored_at |-> "Text", evidence |-> "Text", objects |-> "Sequence"]

DecodeIntentDocument(v, limits) ==
    LET map == v.map
        document == [type |-> "intent", target |-> TextOf(map, "target"),
                     generation |-> UintOf(map, "generation"), epoch |-> UintOf(map, "epoch"),
                     authority |-> NameOf(map, "authority", "unknown"),
                     policy |-> TextOf(map, "policy"),
                     authored_at |-> ParsedTime(TextOf(map, "authored_at")),
                     evidence |-> NameOf(map, "evidence", "unknown"), objects |-> IntentObjects(map)]
    IN  IF /\ v.kind = "Map"
           /\ CheckMembers(map, DOMAIN IntentKinds \cup {"schema"})
           /\ CheckMemberKinds(map, IntentKinds)
           /\ HasText(map, "schema") /\ TextOf(map, "schema") = Word("ndo/intent-generation/1")
           /\ RequireIdentity(map, "target") /\ RequireIdentity(map, "policy")
           /\ RequireUint(map, "generation") /\ RequireUint(map, "epoch")
           /\ HasText(map, "authority") /\ Named(map, "authority", Authorities)
           /\ RequireTime(map, "authored_at")
           /\ Named(map, "evidence", Evidence)
           /\ IntentObjectsOk(map, limits, TRUE)
           /\ ValidateIntent(document, limits)
        THEN document ELSE Refused

-----------------------------------------------------------------------------
(* Observation snapshots and source descriptors. *)

EncodeCapabilities(c) ==
    Members([asserts_absence |-> MakeBool(c.asserts_absence),
             complete_coverage |-> MakeBool(c.complete_coverage),
             reports_nested_paths |-> MakeBool(c.reports_nested_paths),
             evidence |-> Name(c.evidence)])

EncodeObservationDocument(s) ==
    Members([schema |-> Name("ndo/observation/1"), source |-> MakeString(s.source),
             epoch |-> MakeUint(s.epoch), incarnation |-> MakeUint(s.incarnation),
             sequence |-> MakeUint(s.sequence), target |-> MakeString(s.target),
             collected_at |-> MakeString(FormatTime(s.collected_at)),
             ttl_nanos |-> MakeInt(s.ttl_nanos), coverage |-> Name(s.coverage),
             evidence |-> Name(s.evidence), capabilities |-> EncodeCapabilities(s.capabilities),
             unobserved |-> MakeList([i \in DOMAIN s.unobserved |-> MakeString(s.unobserved[i])]),
             objects |-> ListOf([id \in DOMAIN s.objects |->
                 Members([id |-> MakeString(id), presence |-> Name(s.objects[id].presence),
                          fields |-> ListOf([p \in DOMAIN s.objects[id].fields |->
                              Members([path |-> MakeString(p),
                                       value |-> s.objects[id].fields[p]])])])])])

CapabilityKinds ==
    [asserts_absence |-> "Boolean", complete_coverage |-> "Boolean",
     reports_nested_paths |-> "Boolean", evidence |-> "Text"]

CapabilitiesOk(map) ==
    Has(map, "capabilities") =>
        LET c == Member(map, "capabilities") IN
        /\ c.kind = "Map"
        /\ CheckMembers(c.map, DOMAIN CapabilityKinds)
        /\ CheckMemberKinds(c.map, CapabilityKinds)
        /\ Named(c.map, "evidence", Evidence)

Capabilities(map) ==
    LET c == IF Has(map, "capabilities") THEN Member(map, "capabilities").map ELSE <<>>
    IN  [asserts_absence |-> OptionalBool(c, "asserts_absence"),
         complete_coverage |-> OptionalBool(c, "complete_coverage"),
         reports_nested_paths |-> OptionalBool(c, "reports_nested_paths"),
         evidence |-> NameOf(c, "evidence", "unknown")]

ObservedFieldOk(v) ==
    /\ v.kind = "Map"
    /\ CheckMembers(v.map, {"path", "value"})
    /\ CheckMemberKinds(v.map, [path |-> "Text"])
    /\ HasText(v.map, "path") /\ IsPath(TextOf(v.map, "path"))
    /\ Has(v.map, "value")

ObservedObjectOk(v, limits) ==
    /\ v.kind = "Map"
    /\ CheckMembers(v.map, {"id", "presence", "fields"})
    /\ CheckMemberKinds(v.map, [id |-> "Text", presence |-> "Text", fields |-> "Sequence"])
    /\ RequireIdentity(v.map, "id")
    /\ Named(v.map, "presence", Presences)
    /\ RequireList(v.map, "fields")
    /\ LET fields == Member(v.map, "fields").list
       IN  Len(fields) <= limits.fields /\ \A i \in DOMAIN fields : ObservedFieldOk(fields[i])

ObservedObjects(map) ==
    LET Object(m) == LET fields == ByKey(Member(m, "fields").list, "path")
                     IN  [presence |-> NameOf(m, "presence", "unknown"),
                          fields |-> [p \in DOMAIN fields |-> Member(fields[p], "value")]]
        objects   == ByKey(Member(map, "objects").list, "id")
    IN  [o \in DOMAIN objects |-> Object(objects[o])]

\* Mutant: the digest leaves the lifetime out.
ContentDigestNoTtl(s) == [s EXCEPT !.unobserved = {@[i] : i \in DOMAIN @}, !.ttl_nanos = 0]

\* ObservationSnapshot::ComputeContentDigest: the unobserved objects are a set.
ContentDigest(s) == [s EXCEPT !.unobserved = {@[i] : i \in DOMAIN @}]
DigestText(digest) == [digest |-> digest, bytes |-> 1]          \* Digest::ToHex

\* ObservationSnapshot::Validate; its last check, of the snapshot's identity, is
\* DeclaredIdentityOk where a document is decoded, and is true where the client
\* has just computed it.
ValidateSnapshot(s, limits) ==
    /\ IsValidIdentityText(s.source) /\ IsValidIdentityText(s.target)
    /\ s.epoch # 0 /\ s.incarnation # 0 /\ s.sequence # 0 /\ s.collected_at # 0
    /\ s.ttl_nanos >= 0
    /\ Len(s.unobserved) <= limits.objects
    /\ \A i \in DOMAIN s.unobserved : IsValidIdentityText(s.unobserved[i])
    /\ Cardinality(DOMAIN s.objects) <= limits.objects
    /\ \A id \in DOMAIN s.objects :
           LET object == s.objects[id] IN
           /\ IsValidIdentityText(id)
           /\ object.presence = "absent" => s.capabilities.asserts_absence /\ object.fields = <<>>
           /\ Cardinality(DOMAIN object.fields) <= limits.fields
           /\ \A p \in DOMAIN object.fields : Validate(object.fields[p], limits)

ObservationKinds ==
    [source |-> "Text", epoch |-> "Integer", incarnation |-> "Integer", sequence |-> "Integer",
     target |-> "Text", collected_at |-> "Text", ttl_nanos |-> "Integer", coverage |-> "Text",
     evidence |-> "Text", unobserved |-> "Sequence", capabilities |-> "Object",
     objects |-> "Sequence", snapshot_id |-> "Text"]

UnobservedOk(map) ==
    Has(map, "unobserved") =>
        /\ RequireList(map, "unobserved")
        /\ \A i \in DOMAIN Member(map, "unobserved").list :
               LET v == Member(map, "unobserved").list[i]
               IN  v.kind = "String" /\ IsValidIdentityText(v.text)

Unobserved(map) ==
    IF Has(map, "unobserved")
    THEN [i \in DOMAIN Member(map, "unobserved").list |-> Member(map, "unobserved").list[i].text]
    ELSE <<>>

DeclaredIdentityOk(map, s) ==
    HasText(map, "snapshot_id") => TextOf(map, "snapshot_id") = DigestText(ContentDigest(s))

DecodeObservationDocument(v, limits) ==
    LET map == v.map
        snapshot == [type |-> "observation", source |-> TextOf(map, "source"),
                     epoch |-> UintOf(map, "epoch"), incarnation |-> UintOf(map, "incarnation"),
                     sequence |-> UintOf(map, "sequence"), target |-> TextOf(map, "target"),
                     collected_at |-> ParsedTime(TextOf(map, "collected_at")),
                     ttl_nanos |-> OptionalInt(map, "ttl_nanos", 0),
                     coverage |-> NameOf(map, "coverage", "unknown"),
                     evidence |-> NameOf(map, "evidence", "unknown"),
                     unobserved |-> Unobserved(map), capabilities |-> Capabilities(map),
                     objects |-> ObservedObjects(map)]
    IN  IF /\ v.kind = "Map"
           /\ CheckMembers(map, DOMAIN ObservationKinds \cup {"schema"})
           /\ CheckMemberKinds(map, ObservationKinds)
           /\ HasText(map, "schema") /\ TextOf(map, "schema") = Word("ndo/observation/1")
           /\ RequireIdentity(map, "source") /\ RequireIdentity(map, "target")
           /\ RequireUint(map, "epoch") /\ RequireUint(map, "incarnation")
           /\ RequireUint(map, "sequence")
           /\ RequireTime(map, "collected_at")
           /\ OptionalInt(map, "ttl_nanos", 0) >= 0
           /\ Named(map, "coverage", Coverages) /\ Named(map, "evidence", Evidence)
           /\ UnobservedOk(map)
           /\ CapabilitiesOk(map)
           /\ RequireList(map, "objects")
           /\ Len(Member(map, "objects").list) <= limits.objects
           /\ \A i \in DOMAIN Member(map, "objects").list :
                  ObservedObjectOk(Member(map, "objects").list[i], limits)
           /\ DeclaredIdentityOk(map, snapshot)
           /\ ValidateSnapshot(snapshot, limits)
        THEN snapshot ELSE Refused

EncodeSourceDescriptor(d) ==
    Members([schema |-> Name("ndo/source/1"), id |-> MakeString(d.id),
             epoch |-> MakeUint(d.epoch), incarnation |-> MakeUint(d.incarnation),
             registered_at |-> MakeString(FormatTime(d.registered_at)),
             provenance |-> MakeString(d.provenance), evidence |-> Name(d.evidence),
             capabilities |-> EncodeCapabilities(d.capabilities)])

SourceKinds ==
    [id |-> "Text", epoch |-> "Integer", incarnation |-> "Integer", registered_at |-> "Text",
     provenance |-> "Text", evidence |-> "Text", capabilities |-> "Object"]

DecodeSourceDescriptor(v, limits) ==
    LET map == v.map IN
    IF /\ v.kind = "Map"
       /\ CheckMembers(map, DOMAIN SourceKinds \cup {"schema"})
       /\ CheckMemberKinds(map, SourceKinds)
       /\ HasText(map, "schema") /\ TextOf(map, "schema") = Word("ndo/source/1")
       /\ RequireIdentity(map, "id")
       /\ RequireUint(map, "epoch") /\ RequireUint(map, "incarnation")
       /\ HasText(map, "registered_at") => TryParseTime(TextOf(map, "registered_at"))
       /\ HasText(map, "provenance") => TextOf(map, "provenance").bytes <= limits.leaf
       /\ Named(map, "evidence", Evidence)
       /\ CapabilitiesOk(map)
       /\ UintOf(map, "epoch") # 0 /\ UintOf(map, "incarnation") # 0
    THEN [type |-> "source", id |-> TextOf(map, "id"), epoch |-> UintOf(map, "epoch"),
          incarnation |-> UintOf(map, "incarnation"),
          registered_at |-> IF HasText(map, "registered_at")
                            THEN ParsedTime(TextOf(map, "registered_at")) ELSE 0,
          provenance |-> IF HasText(map, "provenance") THEN TextOf(map, "provenance") ELSE Word(""),
          evidence |-> NameOf(map, "evidence", "unknown"), capabilities |-> Capabilities(map)]
    ELSE Refused

-----------------------------------------------------------------------------
(* Baselines of the ledger file (persistence.cpp). *)

EncodeBaseline(b) ==
    Members([target |-> MakeString(b.target), generation |-> MakeUint(b.generation),
             epoch |-> MakeUint(b.epoch), authority |-> Name(b.authority),
             policy |-> MakeString(b.policy),
             committed_at |-> MakeString(FormatTime(b.committed_at)),
             content_digest |-> MakeString(DigestText(b.content_digest)),
             evidence |-> Name(b.evidence), objects |-> EncodeIntentObjects(b.objects)])

DecodeBaseline(v, limits) ==
    LET map == v.map IN
    IF /\ v.kind = "Map"
       /\ CheckMembers(map, {"target", "generation", "epoch", "authority", "policy",
                             "committed_at", "content_digest", "evidence", "objects"})
       /\ RequireIdentity(map, "target")
       /\ RequireUint(map, "generation") /\ RequireUint(map, "epoch")
       /\ Named(map, "authority", Authorities) /\ Named(map, "evidence", Evidence)
       /\ HasText(map, "policy") => IsValidIdentityText(TextOf(map, "policy"))
       /\ HasText(map, "committed_at") => TryParseTime(TextOf(map, "committed_at"))
       /\ HasText(map, "content_digest") => "digest" \in DOMAIN TextOf(map, "content_digest")
       /\ IntentObjectsOk(map, limits, FALSE)
    THEN [type |-> "baseline", target |-> TextOf(map, "target"),
          generation |-> UintOf(map, "generation"), epoch |-> UintOf(map, "epoch"),
          authority |-> NameOf(map, "authority", "unknown"),
          policy |-> IF HasText(map, "policy") THEN TextOf(map, "policy") ELSE Word(""),
          committed_at |-> IF HasText(map, "committed_at")
                           THEN ParsedTime(TextOf(map, "committed_at")) ELSE 0,
          content_digest |-> TextOf(map, "content_digest").digest,
          evidence |-> NameOf(map, "evidence", "unknown"), objects |-> IntentObjects(map)]
    ELSE Refused
=============================================================================
