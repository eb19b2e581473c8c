------------------------------ MODULE Documents ------------------------------
(***************************************************************************)
(* The way of one document.  A publisher validates and writes it, or a     *)
(* program hands it to the library; the text may be changed on its way, or *)
(* its author may declare the identity of its content; the server (or the  *)
(* observatory, for text given to it) parses and decodes it; what the      *)
(* ledger retains of it is saved with the ledger and read by a restarted   *)
(* process.  The codecs are those of Interchange, Json and Calendar.       *)
(*                                                                         *)
(* Authority, fences and the rest of the ledger are in other modules.      *)
(***************************************************************************)
EXTENDS Interchange

CONSTANTS
    Drafts,          \* the documents a publisher may start from
    Edited,          \* bound: those of them whose text may be changed
    Limits,          \* RuntimeLimits
    BaseNodes,       \* the nodes LedgerPayloadLimits grants any ledger file (4096)
    RecordNodes,     \* and grants for each finding, entry and target (128)
    ManyNodes,       \* and grants if that number overflows (100000000)
    SizeMax,         \* SIZE_MAX
    ManyFields,      \* the members it grants an object at least (256)
    OtherNodes,      \* the nodes that the other records of a ledger file may have
    CommittedAt,     \* the clock when intent is committed
    EditTokens,      \* what a change of a text may put into it
    MaxEdits         \* bound on the changes

VARIABLES
    stage,      \* drafted, sent, received, saved, restarted; or refused
    draft,      \* the document as its author has it
    declared,   \* the text declares the identity of the draft's content
    edits,      \* the number of changes made to the text
    text,       \* the tokens on the wire, later those of the ledger file
    value,      \* what the text was parsed to
    received,   \* the document as decoded, or as handed over
    retained,   \* what the ledger has of it
    elsewhere   \* the nodes of the ledger file's other records

vars == <<stage, draft, declared, edits, text, value, received, retained, elsewhere>>

Encode(d) ==
    CASE d.type = "intent"      -> EncodeIntentDocument(d)
      [] d.type = "observation" -> EncodeObservationDocument(d)
      [] d.type = "source"      -> EncodeSourceDescriptor(d)
      [] d.type = "baseline"    -> EncodeBaseline(d)

Decode(type, v, limits) ==
    CASE type = "intent"      -> DecodeIntentDocument(v, limits)
      [] type = "observation" -> DecodeObservationDocument(v, limits)
      [] type = "source"      -> DecodeSourceDescriptor(v, limits)
      [] type = "baseline"    -> DecodeBaseline(v, limits)

\* What is asked of a document before it is written or recorded.
Valid(d) ==
    CASE d.type = "intent"      -> ValidateIntent(d, Limits)
      [] d.type = "observation" -> ValidateSnapshot(d, Limits)
      [] d.type = "source"      -> TRUE

\* FindingLedger::CommitIntent and RecordObservation, for a new target and source.
Retained(d) ==
    IF d.type # "intent" THEN d
    ELSE [type |-> "baseline", target |-> d.target, generation |-> d.generation,
          epoch |-> d.epoch, authority |-> d.authority, policy |-> d.policy,
          committed_at |-> CommittedAt, content_digest |-> IntentDigest(d), evidence |-> d.evidence,
          objects |-> d.objects]

\* Mutant: the ledger file is read with the limits of one document.
LedgerPayloadLimitsAsGiven(limits) == limits

\* One budget of nodes for the whole file.  Observations, groups, suppressions and
\* sources are not counted, and the bound on leaves stays as it is.
LedgerPayloadLimits(limits) ==
    LET budget == BaseNodes + RecordNodes * (limits.findings + limits.timeline + limits.targets)
    IN  [limits EXCEPT !.nodes = IF budget > SizeMax THEN ManyNodes ELSE budget,
                       !.depth = @ + 8, !.fields = IF @ > ManyFields THEN @ ELSE ManyFields,
                       !.document = limits.ledger]

\* How deep the record of a document is within the ledger file.
RecordDepth(type) == IF type = "observation" THEN 3 ELSE 2

-----------------------------------------------------------------------------

Init ==
    /\ stage = "drafted" /\ draft \in Drafts
    /\ declared = FALSE /\ edits = 0 /\ text = <<>>
    /\ value = Refused /\ received = Refused /\ retained = Refused
    /\ elsewhere = 0

\* ObservationPublisher::Publish and PublishIntent.
Publish ==
    /\ stage = "drafted"
    /\ IF Valid(draft) THEN stage' = "sent" /\ text' = Write(Encode(draft))
                       ELSE stage' = "refused" /\ UNCHANGED text
    /\ UNCHANGED <<draft, declared, edits, value, received, retained, elsewhere>>

\* Observatory::PublishIntent and IngestObservation, called with the document.
Submit ==
    /\ stage = "drafted" /\ draft.type # "source"
    /\ IF Valid(draft) THEN /\ stage' = "received" /\ received' = draft
                            /\ retained' = Retained(draft)
                       ELSE stage' = "refused" /\ UNCHANGED <<received, retained>>
    /\ UNCHANGED <<draft, declared, edits, text, value, elsewhere>>

\* An observation document with the member snapshot_id.
Identified(d) ==
    LET id == Word("snapshot_id")
        map == Encode(d).map
    IN  MakeMap([k \in DOMAIN map \cup {id} |->
            IF k = id THEN MakeString(DigestText(ContentDigest(d))) ELSE map[k]])

\* The author of an observation document may add its identity.
Declare ==
    /\ stage = "sent" /\ draft.type = "observation" /\ ~declared /\ edits = 0
    /\ declared' = TRUE
    /\ text' = Write(Identified(draft))
    /\ UNCHANGED <<stage, draft, edits, value, received, retained, elsewhere>>

Spliced(i, j, tokens) == SubSeq(text, 1, i - 1) \o tokens \o SubSeq(text, j, Len(text))

\* The text is changed: a token is replaced, lost or added, or an object of a
\* list is there twice.
Edit ==
    /\ stage = "sent" /\ draft \in Edited /\ edits < MaxEdits
    /\ edits' = edits + 1
    /\ \E i \in DOMAIN text :
           \/ \E t \in EditTokens : text' = Spliced(i, i + 1, <<t>>)
           \/ text' = Spliced(i, i + 1, <<>>)
           \/ \E t \in EditTokens : text' = Spliced(i, i, <<t>>)
           \/ \E j \in i + 1 .. Len(text) :
                  /\ text[i] = Mark("{") /\ text[j] = Mark("}")
                  /\ text' = Spliced(i, i, SubSeq(text, i, j) \o <<Mark(",")>>)
    /\ UNCHANGED <<stage, draft, declared, value, received, retained, elsewhere>>

\* HandleSnapshot and HandleIntent, and ParseIntentJson and ParseObservationJson.
Receive ==
    /\ stage = "sent"
    /\ \E v \in {ParseJson(text, Limits, 0, 0)} :
       \E d \in {IF v = Refused THEN Refused ELSE Decode(draft.type, v, Limits)} :
           /\ value' = v /\ received' = d
           /\ stage' = IF d = Refused THEN "refused" ELSE "received"
           /\ retained' = IF d = Refused THEN Refused ELSE Retained(d)
    /\ text' = <<>>
    /\ UNCHANGED <<draft, declared, edits, elsewhere>>

\* EncodeLedger, of this record, among others.
Save ==
    /\ stage = "received" /\ retained.type # "source"
    /\ stage' = "saved" /\ text' = Write(Encode(retained))
    /\ elsewhere' \in OtherNodes
    /\ UNCHANGED <<draft, declared, edits, value, received, retained>>

\* DecodeLedger, of this record, in a new process.
Load ==
    /\ stage = "saved"
    /\ \E v \in {ParseJson(text, LedgerPayloadLimits(Limits), RecordDepth(retained.type), elsewhere)} :
       \E d \in {IF v = Refused THEN Refused
                 ELSE Decode(retained.type, v, LedgerPayloadLimits(Limits))} :
           /\ retained' = d
           /\ stage' = IF d = Refused THEN "refused" ELSE "restarted"
    /\ text' = <<>> /\ value' = Refused
    /\ UNCHANGED <<draft, declared, edits, received, elsewhere>>

Next == Publish \/ Submit \/ Declare \/ Edit \/ Receive \/ Save \/ Load

Spec == Init /\ [][Next]_vars

-----------------------------------------------------------------------------

\* The value that the text of v spells: a byte string is an object.
RECURSIVE AsWritten(_)
AsWritten(v) ==
    CASE v.kind = "Bytes" -> MakeMap([k \in {kBytesMember} |-> MakeString(HexText(v.raw, v.size))])
      [] v.kind = "List"  -> MakeList([i \in DOMAIN v.list |-> AsWritten(v.list[i])])
      [] v.kind = "Map"   -> MakeMap([k \in DOMAIN v.map |-> AsWritten(v.map[k])])
      [] OTHER            -> v

\* The value at the given depth, and everything below it.
RECURSIVE PartsAt(_, _)
PartsAt(v, depth) ==
    {[part |-> v, depth |-> depth]} \cup UNION {PartsAt(c, depth + 1) : c \in Children(v)}

LongBytes(v, leaf) ==
    \E p \in PartsAt(v, 0) : p.part.kind = "Bytes" /\ 2 * p.part.size > leaf
WideMap(v, fields) ==
    \E p \in PartsAt(v, 0) : p.part.kind = "Map" /\ Cardinality(DOMAIN p.part.map) > fields
TooDeep(v, depth) == \E p \in PartsAt(AsWritten(v), 0) : p.depth > depth
BytesAt(v, depth) == \E p \in PartsAt(v, 0) : p.part.kind = "Bytes" /\ p.depth = depth
TooManyNodes(v, nodes) == CountNodes(AsWritten(v)) > nodes
TooLong(v, length) == Len(Write(v)) > length

\* A map that is written as a byte string would be.
LooksLikeBytes(v) ==
    \E p \in PartsAt(v, 0) : p.part.kind = "Map" /\ DOMAIN p.part.map = {kBytesMember}

\* The time that is read where t was written: before 1970, and past the first second
\* of the day, it is a day late (time.cpp:81-88).
TimeRead(t) ==
    LET day == NanosPerSecond * SecondsPerDay
    IN  IF t < 0 /\ t % day >= NanosPerSecond THEN t + day ELSE t

WithTimeRead(d) ==
    CASE d.type = "intent"      -> [d EXCEPT !.authored_at = TimeRead(@)]
      [] d.type = "observation" -> [d EXCEPT !.collected_at = TimeRead(@)]
      [] d.type = "source"      -> [d EXCEPT !.registered_at = TimeRead(@)]
      [] d.type = "baseline"    -> [d EXCEPT !.committed_at = TimeRead(@)]

\* A document that was valid where it was written, and was not changed on its
\* way, is accepted as it was, or refused as a whole, and refused only for its
\* size.  Validate lets more through than ParseJson accepts: it counts the depth
\* and the nodes of each value and not of the document (json.cpp:243-248), counts
\* no members, and counts the bytes of a byte string and not its hex digits
\* (json.cpp:472, 548).  Two more things are not as README.md:264-266 has them: a
\* map whose only member is $bytes, of which nothing is said here, and a time
\* before 1970, which makes a document with a declared identity be refused.
ArrivesUnchanged ==
    [][Receive /\ edits = 0 =>
        LET v    == IF declared THEN Identified(draft) ELSE Encode(draft)
            read == WithTimeRead(draft)
        IN  IF \/ LongBytes(v, Limits.leaf) \/ WideMap(v, Limits.fields)
               \/ TooDeep(v, Limits.depth) \/ TooManyNodes(v, Limits.nodes)
               \/ TooLong(v, Limits.document)
            THEN received' = Refused
            ELSE ~LooksLikeBytes(v) =>
                     received' = IF declared /\ read # draft THEN Refused ELSE read]_vars

\* What the ledger retains is what a restarted process has, or the ledger is
\* refused.  It is refused only for a byte string with more hex digits than a leaf
\* may have, for one at the last depth a value may have, for a map with more
\* members than an object may have, and for more nodes in all than findings,
\* entries and targets account for: persistence.cpp:1028-1030 has it that no ledger
\* of the runtime's own is.
SurvivesRestart ==
    [][Load =>
        LET v      == Encode(retained)
            limits == LedgerPayloadLimits(Limits)
        IN  IF \/ LongBytes(v, Limits.leaf)
               \/ BytesAt(v, Limits.depth + 8 - RecordDepth(retained.type))
               \/ WideMap(v, limits.fields)
               \/ TooManyNodes(v, limits.nodes - elsewhere)
            THEN retained' = Refused
            ELSE ~LooksLikeBytes(v) => retained' = WithTimeRead(retained)]_vars

\* What README.md:264-266 and json.cpp:380-383 say of the codec, and
\* persistence.cpp:1028-1030 of the ledger file, without the exceptions above.
\* Neither holds.
InversePair == [][Receive /\ edits = 0 => received' = draft]_vars
OwnRecordLoads == [][Load => retained' = retained]_vars

Unordered(s) == [s EXCEPT !.unobserved = {@[i] : i \in DOMAIN @}]

\* A document that declares its identity and is accepted has the content that the
\* identity was computed from, in every part of it, whatever happened to the
\* text.
IdentityCoversContent ==
    declared /\ received # Refused => Unordered(received) = Unordered(draft)

\* An earlier element of the list has the same id, or the same path.
Repeats(list, i) ==
    \E n \in {"id", "path"}, j \in 1 .. i - 1 :
        /\ list[i].kind = "Map" /\ list[j].kind = "Map"
        /\ Has(list[i].map, n) /\ Has(list[j].map, n)
        /\ Member(list[i].map, n) = Member(list[j].map, n)

\* A text that names a day the calendar does not have, a second after the last of
\* the day, or a time before 1970.
NotAsFormatted(t) ==
    /\ "date" \in DOMAIN t
    /\ \/ CivilFromDays(DaysFromCivil(t.date[1], t.date[2], t.date[3])) # t.date
       \/ t.second = SecondsPerDay
       \/ ParsedTime(t) < 0

RECURSIVE SaidBy(_, _)
SaidBy(v, w) ==
    CASE v.kind = "Map"  -> w.kind = "Map" /\ \A k \in DOMAIN v.map :
                                k \in DOMAIN w.map /\ SaidBy(v.map[k], w.map[k])
      [] v.kind = "List" -> w.kind = "List" /\ \A i \in DOMAIN v.list :
                                \/ Repeats(v.list, i)
                                \/ \E j \in DOMAIN w.list : SaidBy(v.list[i], w.list[j])
      [] v.kind = "String" -> \/ v = w
                              \/ /\ NotAsFormatted(v.text)
                                 /\ w = MakeString(FormatTime(ParsedTime(v.text)))
      [] OTHER           -> v = w

\* What the text says apart from the identity, and from a lifetime that only the
\* unsigned type holds.
Content(v) ==
    LET ttl == Word("ttl_nanos")
        left == {k \in {ttl} \cap DOMAIN v.map : v.map[k].kind = "Uint"}
    IN  MakeMap([k \in DOMAIN v.map \ (left \cup {Word("snapshot_id")}) |-> v.map[k]])

\* Nothing an accepted text says is dropped or replaced by a default
\* (json_help.hpp:5-8): the document it was read as, written again, says it too.
\* There are four exceptions.  The first three are defaults or repairs, which
\* README.md:261-264 says there are none of: of several objects, or fields, of one
\* name the first alone counts; a lifetime above INT64_MAX is read as zero; a time
\* that names no second of the calendar, as the 31st of February, is read as a
\* later one that does (time.cpp:122).  And a time before 1970 is written a day
\* late.
NothingSaidIsDropped ==
    value # Refused /\ received # Refused => SaidBy(Content(value), Encode(received))

\* The meaning of a value: numbers are equal across their representations.
RECURSIVE Meaning(_)
Meaning(v) ==
    CASE IsNumeric(v)    -> [number |-> InHalves(v)]
      [] v.kind = "List" -> MakeList([i \in DOMAIN v.list |-> Meaning(v.list[i])])
      [] v.kind = "Map"  -> MakeMap([k \in DOMAIN v.map |-> Meaning(v.map[k])])
      [] OTHER           -> v

FieldValues(d) == UNION {{d.objects[id].fields[p] : p \in DOMAIN d.objects[id].fields} :
                         id \in DOMAIN d.objects}

\* An intended and an observed value are found equal exactly when they mean the
\* same, in either order, however each of them was written; two finite values are
\* never equal because one of them was rounded (value.cpp:546-600).
RelationIsMeaning ==
    (received # Refused /\ draft.type = "observation") =>
        \A a \in FieldValues(draft), b \in FieldValues(received) :
            /\ RelateValues(a, b, FALSE) = "Equal" <=> Meaning(a) = Meaning(b)
            /\ RelateValues(a, b, FALSE) = RelateValues(b, a, FALSE)
=============================================================================
