----------------------------- MODULE Comparison -----------------------------
(***************************************************************************)
(* The comparison of one target's committed intent with its retained       *)
(* observations (src/src/comparison.cpp), under the freshness verdicts the *)
(* engine attaches to them (Observatory::BuildEvaluationInput).            *)
(*                                                                         *)
(* CompareTarget is a pure function.  The state of this module is its      *)
(* input as the engine holds it: the committed baseline, the retained      *)
(* observations of the target, the policy and the clock; the actions are   *)
(* the operations that change them, each abstracted to its effect here     *)
(* (FindingLedger and EvidenceWindow have them in full).                   *)
(*                                                                         *)
(* Abstractions.  Values are integers of one kind, or Null, which only     *)
(* compares with itself.  Reasons, rationales and traces are left out.  A  *)
(* draft's qualifier digest is the record of what is digested.             *)
(***************************************************************************)
EXTENDS Freshness, Policy

CONSTANTS
    Target,               \* the target being compared
    LiveEpoch,            \* the epoch the observatory runs under
    Baselines,            \* intent baselines that may be committed
    Snapshots,            \* validated snapshots that may be recorded
    PolicyChoices,        \* policies that may be in force
    Combines(_, _),       \* bound: whether a snapshot is recorded under a policy
    MaxRetained,          \* observations retained at a time
    MaxNow,               \* clock readings are 1..MaxNow
    MaxConflictSources,   \* kMaxConflictSources
    NoBaseline,           \* no intent is committed
    Null                  \* ValueKind::Null

\* What the types of the program say of a snapshot and of a policy, and
\* ObservatoryPolicy::Validate of the skew (policy.cpp:227).
IsSnapshot(s) ==
    /\ {"source", "epoch", "incarnation", "sequence", "collected", "received", "ttl", "complete",
        "asserts", "nested", "unobserved", "objects"} \subseteq DOMAIN s
    /\ s.source \in Nat /\ s.epoch \in Nat /\ s.incarnation \in Nat /\ s.sequence \in Nat
    /\ s.collected \in Int /\ s.ttl \in Int /\ s.complete \in BOOLEAN
    /\ \A o \in DOMAIN s.objects : s.objects[o].presence \in {"Present", "Absent", "Unknown"}

IsOptional(set) == IsFiniteSet(set) /\ Cardinality(set) <= 1
IsSelector(s) == IsOptional(s.target) /\ IsOptional(s.object) /\ IsOptional(s.prefix)

IsPolicy(p) ==
    /\ {"ttl", "aging", "skew", "receive"} \subseteq DOMAIN p
    /\ p.skew \in Nat /\ p.ttl \in Int
    /\ p.priority \in Seq(Nat)
    /\ \A rules \in {p.freshnessRules, p.severityRules, p.fieldRules} :
          /\ rules \in Seq(Range(rules))
          /\ \A i \in DOMAIN rules : IsSelector(rules[i].selector)
    /\ \A i \in DOMAIN p.freshnessRules : p.freshnessRules[i].ttl \in Int
    /\ \A i \in DOMAIN p.severityRules :
          IsOptional(p.severityRules[i].klass) /\ IsOptional(p.severityRules[i].minSeverity)
    /\ \A i \in DOMAIN p.fieldRules : p.fieldRules[i].comparability \in Range(Comparability)

ASSUME ComparisonAssumption ==
    /\ LiveEpoch \in Nat \ {0}
    /\ MaxRetained \in Nat /\ MaxNow \in Nat /\ MaxConflictSources \in Nat
    /\ NoBaseline \notin Baselines
    /\ \A s \in Snapshots : IsSnapshot(s)
    /\ \A p \in PolicyChoices : IsPolicy(p)

VARIABLES
    baseline,   \* the committed baseline of the target
    retained,   \* its retained observations: snapshot and recovered flag
    policy,     \* config_.policy
    now         \* the clock

vars == <<baseline, retained, policy, now>>

AppliedGenerationPath == <<"@applied-generation">>
ReservedKeys == {"@applied-generation", "@note"}
ReservedObjects == {"@target"}
IsReservedPath(path) == path # <<>> /\ path[1] \in ReservedKeys

-----------------------------------------------------------------------------
(* The views: the newest claim of every source, judged and put in order.   *)

Newer(s, r) ==
    \/ s.epoch > r.epoch
    \/ s.epoch = r.epoch /\ s.incarnation > r.incarnation
    \/ s.epoch = r.epoch /\ s.incarnation = r.incarnation /\ s.sequence > r.sequence

\* The verdict BuildEvaluationInput attaches to a retained observation.
Verdict(o, p, at) ==
    EvaluateFreshness(o.snap, [p EXCEPT !.ttl = TtlFor(p, Target, "@target", <<>>)],
                      at, LiveEpoch, o.recovered)

\* Mutant: the newest usable observation of a source stands for it.
ClaimsUsable(R, p, at) ==
    LET usable == {x \in R : MaySupportCompliance(Verdict(x, p, at))}
    IN  {o \in usable : \A x \in usable : x.snap.source = o.snap.source => ~Newer(x.snap, o.snap)}

\* A source states one claim, its newest observation, usable or not.
Claims(R, p, at) ==
    {o \in R : \A x \in R : x.snap.source = o.snap.source => ~Newer(x.snap, o.snap)}

PriorityOf(p, source) ==
    IF \E i \in DOMAIN p.priority : p.priority[i] = source
      THEN CHOOSE i \in DOMAIN p.priority :
              p.priority[i] = source /\ \A j \in 1..(i - 1) : p.priority[j] # source
      ELSE Len(p.priority) + 1

View(o, p, at) ==
    [snap |-> o.snap, usable |-> MaySupportCompliance(Verdict(o, p, at)),
     priority |-> PriorityOf(p, o.snap.source)]

Views(R, p, at) == {View(o, p, at) : o \in Claims(R, p, at)}

\* ViewLess compares these in turn.
ViewKey(v) ==
    <<IF v.usable THEN 0 ELSE 1, v.priority, IF v.snap.complete THEN 0 ELSE 1,
      -v.snap.epoch, -v.snap.incarnation, -v.snap.sequence, v.snap.source>>

ViewLess(v, w) ==
    LET a == ViewKey(v) b == ViewKey(w)
    IN  \E i \in DOMAIN a : a[i] < b[i] /\ \A j \in 1..(i - 1) : a[j] = b[j]

Primary(V) == CHOOSE v \in V : \A w \in V \ {v} : ViewLess(v, w)

-----------------------------------------------------------------------------
(* Drafts.                                                                 *)

NoQualifier == [kind |-> "none", over |-> {}]

MakeDraft(p, object, path, klass, qualifier) ==
    [object |-> object, path |-> path, klass |-> klass, raw |-> klass, qual |-> qualifier,
     severity |-> SeverityFor(p, Target, object, path, klass)]

Relate(a, b) ==
    IF a = b THEN "Equal" ELSE IF Null \in {a, b} THEN "Incomparable" ELSE "Different"

\* Presence and field conflicts between two usable views, over what both report.
DisputedObjects(a, b) ==
    {o \in DOMAIN a.objects \cap DOMAIN b.objects :
        /\ a.objects[o].presence # b.objects[o].presence
        /\ "Unknown" \notin {a.objects[o].presence, b.objects[o].presence}}

DisputedFields(a, b) ==
    UNION {{<<o, path>> : path \in
              {q \in DOMAIN a.objects[o].fields \cap DOMAIN b.objects[o].fields :
                  Relate(a.objects[o].fields[q], b.objects[o].fields[q]) = "Different"}} :
           o \in {x \in DOMAIN a.objects \cap DOMAIN b.objects :
                     a.objects[x].presence = b.objects[x].presence}}

\* The views the bounded scan reaches.
Scanned(V) ==
    {v \in V : v.usable /\ Cardinality({w \in V : ViewLess(w, v)}) < MaxConflictSources}

ConflictQualifier(a, b) == [kind |-> "conflict", over |-> {a.source, b.source}]

SourceConflicts(p, V) ==
    UNION {{MakeDraft(p, o, <<>>, "SourceConflict", ConflictQualifier(v.snap, w.snap)) :
               o \in DisputedObjects(v.snap, w.snap)}
           \cup {MakeDraft(p, at[1], at[2], "SourceConflict", ConflictQualifier(v.snap, w.snap)) :
                    at \in DisputedFields(v.snap, w.snap)} :
           v, w \in Scanned(V)}

-----------------------------------------------------------------------------
(* Objects and fields of the intent against the primary snapshot s.        *)

\* Mutant: what a complete source declares unobserved counts as visible.
ObjectFullyVisibleAnyway(s, object) == s.complete

ObjectFullyVisible(s, object) == s.complete /\ object \notin s.unobserved

FieldVisible(s, object, path) ==
    ObjectFullyVisible(s, object) /\ (Len(path) > 1 => s.nested)

Presence(s, object) ==
    IF object \in DOMAIN s.objects THEN s.objects[object].presence
    ELSE IF ObjectFullyVisible(s, object) THEN "Absent" ELSE "Unknown"

MayAssertAbsence(p, s) == p.requireAuthority => s.asserts

\* The class of the draft about an intended object itself, if any.
ObjectClass(p, s, object, required) ==
    LET presence == Presence(s, object)
    IN  CASE required /\ presence = "Absent" -> IF MayAssertAbsence(p, s) THEN "Missing" ELSE "Unknown"
          [] required /\ presence = "Unknown" -> "Unknown"
          [] ~required /\ presence = "Present" -> "Unexpected"
          [] OTHER -> "None"

\* The class of the draft about an intended field of a present object.
FieldClass(p, s, object, path, field) ==
    LET comparability == ClassifyField(p, Target, object, path, field.comparability)
        fields == s.objects[object].fields
    IN  CASE comparability \in {"Unmanaged", "ObserveOnly"} -> "None"
          [] comparability = "Unobservable" -> "Unknown"
          [] comparability = "Unsupported" -> "Unsupported"
          [] comparability = "Managed" /\ path \notin DOMAIN fields ->
               IF FieldVisible(s, object, path) THEN "FieldMissing" ELSE "Unknown"
          [] OTHER -> CASE Relate(field.intended, fields[path]) = "Equal" -> "None"
                        [] Relate(field.intended, fields[path]) = "Incomparable" -> "Unsupported"
                        [] OTHER -> "ValueMismatch"

\* Objects whose fields are compared.
Compared(s, b) ==
    {o \in DOMAIN b.objects \cap DOMAIN s.objects :
        b.objects[o].required /\ s.objects[o].presence = "Present"}

ObjectDrafts(p, s, b) ==
    {d \in {MakeDraft(p, o, <<>>, ObjectClass(p, s, o, b.objects[o].required), NoQualifier) :
               o \in DOMAIN b.objects} : d.klass # "None"}

FieldDrafts(p, s, b) ==
    {d \in UNION {{MakeDraft(p, o, path, FieldClass(p, s, o, path, b.objects[o].fields[path]), NoQualifier) :
                      path \in {q \in DOMAIN b.objects[o].fields : ~IsReservedPath(q)}} :
                  o \in Compared(s, b)} : d.klass # "None"}

\* What the intent does not declare; the policy's field rules are not asked.
UndeclaredDrafts(p, s, b) ==
    {MakeDraft(p, o, <<>>, "Unexpected", NoQualifier) :
        o \in {x \in DOMAIN s.objects \ (DOMAIN b.objects \cup ReservedObjects) :
                  s.objects[x].presence = "Present"}}
    \cup UNION {{MakeDraft(p, o, path, "FieldUnexpected", NoQualifier) :
                    path \in {q \in DOMAIN s.objects[o].fields :
                                 ~IsReservedPath(q) /\ q \notin DOMAIN b.objects[o].fields}} :
                o \in Compared(s, b)}

-----------------------------------------------------------------------------
(* Regrouping by the generations the objects report as applied.            *)

\* TryReadAppliedGeneration fails on anything but a non-negative integer.
AppliedGenerations(s, b) ==
    {s.objects[o].fields[AppliedGenerationPath] :
        o \in {x \in DOMAIN b.objects \cap DOMAIN s.objects :
                  /\ s.objects[x].presence = "Present"
                  /\ AppliedGenerationPath \in DOMAIN s.objects[x].fields
                  /\ s.objects[x].fields[AppliedGenerationPath] \in Nat}}

Deviations == {"ValueMismatch", "FieldMissing", "Missing"}

Reclassed(p, d, klass, qualifier) ==
    [d EXCEPT !.klass = klass, !.qual = qualifier,
              !.severity = SeverityFor(p, Target, d.object, d.path, klass)]

\* Mutant: only value mismatches are regrouped.
RegroupValues(p, s, b, drafts) ==
    LET applied == AppliedGenerations(s, b)
        partial == b.gen \in applied
    IN  IF applied = {} THEN drafts
        ELSE {IF d.klass = "ValueMismatch"
                THEN Reclassed(p, d, IF partial THEN "PartialApplication" ELSE "GenerationMismatch",
                               [kind |-> IF partial THEN "partial" ELSE "not-applied", over |-> applied])
                ELSE d : d \in drafts}

\* Some object reports the committed generation, or all report another one.
Regroup(p, s, b, drafts) ==
    LET applied == AppliedGenerations(s, b)
        partial == b.gen \in applied
    IN  IF applied = {} THEN drafts
        ELSE {IF d.klass \in Deviations
                THEN Reclassed(p, d, IF partial THEN "PartialApplication" ELSE "GenerationMismatch",
                               [kind |-> IF partial THEN "partial" ELSE "not-applied", over |-> applied])
                ELSE d : d \in drafts}

-----------------------------------------------------------------------------
IsIndeterminateDrift(klass) == klass \in {"StaleObservation", "Unknown", "EvidenceInvalid"}

IsActionableDrift(klass) ==
    klass \in {"Missing", "Unexpected", "ValueMismatch", "FieldMissing", "FieldUnexpected",
               "GenerationMismatch", "PartialApplication", "SourceConflict"}

CoverageOk(p, s) == p.requireComplete => s.complete

Evaluated(b, drafts, decidable) ==
    [hasBaseline |-> b # NoBaseline, gen |-> IF b = NoBaseline THEN 0 ELSE b.gen, drafts |-> drafts,
     decidable |-> decidable,
     compliant |-> decidable /\ \A d \in drafts : ~IsActionableDrift(d.klass)]

\* With a baseline and usable evidence.
Compare(p, V, b) ==
    LET s      == Primary(V).snap
        drafts == Regroup(p, s, b, SourceConflicts(p, V) \cup ObjectDrafts(p, s, b)
                                     \cup FieldDrafts(p, s, b) \cup UndeclaredDrafts(p, s, b))
    IN  Evaluated(b, drafts, /\ CoverageOk(p, s)
                             /\ \A d \in drafts : ~IsIndeterminateDrift(d.klass) /\ d.klass # "Unsupported")

CompareTarget(b, R, p, at) ==
    LET V == Views(R, p, at)
        Scope(klass) == MakeDraft(p, "@target", <<>>, klass, NoQualifier)
    IN  IF b = NoBaseline
          THEN Evaluated(b, IF p.required THEN {Scope("IntentMissing")} ELSE {}, FALSE)
        ELSE IF \A v \in V : ~v.usable
          THEN Evaluated(b, {Scope("StaleObservation")}, FALSE)
        ELSE Compare(p, V, b)

Outcome == CompareTarget(baseline, retained, policy, now)

-----------------------------------------------------------------------------
Init ==
    /\ baseline = NoBaseline
    /\ retained = {}
    /\ policy \in PolicyChoices
    /\ now = 1

CommitIntent(b) ==
    /\ baseline # NoBaseline => b.gen > baseline.gen
    /\ baseline' = b
    /\ UNCHANGED <<retained, policy, now>>

\* What the ledger admits after the newest observation of the source.
Admissible(s) ==
    \A o \in Claims(retained, policy, now) : o.snap.source = s.source =>
        /\ s.incarnation >= o.snap.incarnation
        /\ s.epoch >= o.snap.epoch
        /\ s.incarnation = o.snap.incarnation => s.sequence # o.snap.sequence

\* The engine stamps the receive time.
RecordObservation(s) ==
    /\ Cardinality(retained) < MaxRetained
    /\ Combines(policy, s)
    /\ Admissible(s)
    /\ retained' = retained \cup {[snap |-> [s EXCEPT !.received = now], recovered |-> FALSE]}
    /\ UNCHANGED <<baseline, policy, now>>

\* A restart, or a rotation of the incarnation.
InvalidateRetainedEvidence ==
    /\ retained # {}
    /\ retained' = {[o EXCEPT !.recovered = TRUE] : o \in retained}
    /\ UNCHANGED <<baseline, policy, now>>

Tick ==
    /\ now < MaxNow
    /\ now' = now + 1
    /\ UNCHANGED <<baseline, retained, policy>>

Next ==
    \/ \E b \in Baselines : CommitIntent(b)
    \/ \E s \in Snapshots : RecordObservation(s)
    \/ InvalidateRetainedEvidence
    \/ Tick

Spec == Init /\ [][Next]_vars

-----------------------------------------------------------------------------
(***************************************************************************)
(* Properties.                                                             *)
(***************************************************************************)

\* The claim c shows, by itself, every required object and every managed field
\* of the target as intended.
ShowsRequired(c, p, b) ==
    /\ p.requireComplete => c.complete
    /\ \A o \in DOMAIN b.objects :
         b.objects[o].required =>
              /\ o \in DOMAIN c.objects /\ c.objects[o].presence = "Present"
              /\ \A path \in DOMAIN b.objects[o].fields :
                   (/\ ~IsReservedPath(path) /\ b.objects[o].fields[path].comparability = "Managed"
                    /\ \A i \in DOMAIN p.fieldRules :
                          Matches(p.fieldRules[i].selector, Target, o, path)
                            => p.fieldRules[i].comparability = "Managed")
                     => /\ path \in DOMAIN c.objects[o].fields
                        /\ c.objects[o].fields[path] = b.objects[o].fields[path].intended

\* The claim c says that the object is not there, or cannot say: it reports it
\* as unknown, declares it unobserved or does not cover it.
ShowsAbsent(c, o) == Presence(c, o) = "Absent"
CannotSay(c, o) == Presence(c, o) = "Unknown"
Forbidden(b) == {o \in DOMAIN b.objects : ~b.objects[o].required}

\* Two claims contradict each other about something both report.
Contradict(c, d) ==
    \E o \in DOMAIN c.objects \cap DOMAIN d.objects :
        LET x == c.objects[o] y == d.objects[o]
        IN  \/ {x.presence, y.presence} = {"Present", "Absent"}
            \/ /\ x.presence = "Present" /\ y.presence = "Present"
               /\ \E path \in DOMAIN x.fields \cap DOMAIN y.fields :
                     x.fields[path] # y.fields[path] /\ Null \notin {x.fields[path], y.fields[path]}

\* Evidence that was collected in the live epoch, after the last restart, and
\* neither collected nor received longer ago than the lifetime in force.
Current(o, p, at) ==
    LET ttl == TtlFor(p, Target, "@target", <<>>)
    IN  /\ ~o.recovered /\ o.snap.epoch = LiveEpoch
        /\ at - o.snap.collected <= ttl
        /\ o.snap.ttl > 0 => at - o.snap.collected <= o.snap.ttl
        /\ p.receive => at - o.snap.received <= ttl

\* "The absence of fresh evidence is never compliance" (README.md:176): a target
\* is reported compliant only when the newest claim of some source is current,
\* shows everything required as intended, and contradicts no other current
\* claim, whatever arrived, aged, was superseded, recovered or disputed before
\* (CompareTarget and EvaluateFreshness together).  What the intent forbids the
\* claim need not show absent: compliant is also said where the claim cannot say
\* whether the forbidden object exists (comparison.cpp:553-570), the one case
\* in which a presence "Never read as Absent" (observation.hpp:38) has the
\* effect of an absence; ForbiddenShownAbsent is what that line would ask for.
CompliantOnlyIfShown ==
    Outcome.compliant =>
        /\ baseline # NoBaseline
        /\ \E o \in retained :
              /\ \A x \in retained : x.snap.source = o.snap.source => ~Newer(x.snap, o.snap)
              /\ Current(o, policy, now)
              /\ ShowsRequired(o.snap, policy, baseline)
              /\ \A f \in Forbidden(baseline) : ShowsAbsent(o.snap, f) \/ CannotSay(o.snap, f)
              /\ \A x \in Claims(retained, policy, now) :
                    MaySupportCompliance(Verdict(x, policy, now)) => ~Contradict(x.snap, o.snap)

\* An object whose presence is unknown is "Never read as Absent"
\* (observation.hpp:38): a target is reported compliant only when every
\* forbidden object is shown absent by some current claim.  The code does not
\* keep this (comparison.cpp:553-570).
ForbiddenShownAbsent ==
    Outcome.compliant =>
        \A f \in Forbidden(baseline) : \E o \in Claims(retained, policy, now) :
            Current(o, policy, now) /\ ShowsAbsent(o.snap, f)

\* An object or field is called missing only on evidence of absence: the
\* highest ranked current source reports it absent, or covers the target
\* without having excluded the object, and for an object may assert absence if
\* the policy asks for that; a field below another only when the source
\* reports nested paths.
AbsenceNeedsEvidence ==
    \A d \in Outcome.drafts : d.raw \in {"Missing", "FieldMissing"} =>
        \E v \in Views(retained, policy, now) :
            /\ v.usable
            /\ \A w \in Views(retained, policy, now) : w.usable => v.priority <= w.priority
            /\ d.raw = "Missing" =>
                 /\ \/ d.object \in DOMAIN v.snap.objects /\ v.snap.objects[d.object].presence = "Absent"
                    \/ v.snap.complete /\ d.object \notin DOMAIN v.snap.objects \cup v.snap.unobserved
                 /\ policy.requireAuthority => v.snap.asserts
            /\ d.raw = "FieldMissing" =>
                 /\ v.snap.complete /\ d.object \notin v.snap.unobserved
                 /\ d.path \notin DOMAIN v.snap.objects[d.object].fields
                 /\ Len(d.path) > 1 => v.snap.nested

\* What the ledger may be handed (FindingLedger's Evaluations): one finding per
\* location besides source conflicts, deviations regrouped all or not at all,
\* no decision with an indeterminate draft, and only undeclared or disputed
\* locations outside the intent.
L == INSTANCE FindingLedger WITH
        NumTargets <- 1, Locations <- {}, Classes <- {}, Qualifiers <- {}, MaxGeneration <- 2,
        MaxEpoch <- 1, MaxTime <- 1, Policies <- {}, Confirmations <- {1}, Material <- {TRUE},
        OperatorScope <- {}, MaxTargets <- 1, MaxFindings <- 1, MaxGroups <- 1, MaxSuppressions <- 1,
        MaxHistory <- 1, MaxTimeline <- 1, Recovery <- FALSE, NoGroup <- 0,
        baselines <- <<>>, findings <- <<>>, groups <- <<>>, suppressions <- 0, history <- <<>>,
        timeline <- 0, revision <- FALSE, status <- "Ok", file <- <<>>

OutcomeFitsLedger ==
    LET drafts == {[loc |-> <<d.object, d.path>>, klass |-> d.klass, qual |-> d.qual] : d \in Outcome.drafts}
    IN  /\ L!Comparable(drafts)
        /\ Outcome.decidable => {d.klass : d \in drafts} \cap L!Indeterminate = {}
        /\ \A d \in Outcome.drafts :
             /\ (d.qual # NoQualifier) = (d.klass \in L!Regrouped \cup {"SourceConflict"})
             /\ d.object # "@target" /\ d.klass \notin L!Unmanaged =>
                  /\ d.object \in DOMAIN baseline.objects
                  /\ d.path = <<>> \/ d.path \in DOMAIN baseline.objects[d.object].fields

\* Of the rules that match a location the most specific one decides, and of
\* equally specific ones the last declared (rules without a severity floor).
MostSpecificRuleDecides ==
    LET Deciding(rules, specificity(_), matches(_)) ==
            CHOOSE i \in DOMAIN rules :
                /\ matches(rules[i])
                /\ \A j \in DOMAIN rules : matches(rules[j]) =>
                      \/ specificity(rules[j]) < specificity(rules[i])
                      \/ specificity(rules[j]) = specificity(rules[i]) /\ j <= i
        Applies(rule) == Matches(rule.selector, Target, "@target", <<>>)
        Weight(rule) == SelectorSpecificity(rule.selector)
    IN  /\ (\E i \in DOMAIN policy.freshnessRules : Applies(policy.freshnessRules[i])) =>
             TtlFor(policy, Target, "@target", <<>>)
               = policy.freshnessRules[Deciding(policy.freshnessRules, Weight, Applies)].ttl
        /\ \A d \in Outcome.drafts :
             LET Hits(rule) == /\ Matches(rule.selector, Target, d.object, d.path)
                               /\ rule.klass \subseteq {d.klass}
                 Score(rule) == 4 * Weight(rule) + Cardinality(rule.klass)
             IN  ((\E i \in DOMAIN policy.severityRules : Hits(policy.severityRules[i]))
                  /\ \A i \in DOMAIN policy.severityRules : policy.severityRules[i].minSeverity = {}) =>
                    d.severity = policy.severityRules[Deciding(policy.severityRules, Score, Hits)].severity

\* Evidence that has stopped being usable does not become usable again by
\* waiting, also where the clock arithmetic leaves its width; only evidence
\* collected in the future of the observatory's clock does.
StaleStaysStale ==
    [][\A o \in retained :
         (/\ o \in retained' /\ o.snap.collected <= now
          /\ ~MaySupportCompliance(Verdict(o, policy, now)))
            => ~MaySupportCompliance(Verdict(o, policy, now)')]_vars

=============================================================================
