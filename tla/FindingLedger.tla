--------------------------- MODULE FindingLedger ---------------------------
(***************************************************************************)
(* The finding ledger (src/src/ledger.cpp): committed intent baselines,    *)
(* drift findings and their lifecycle, root-cause groups, suppressions and *)
(* the event timelines.  Retained observations are the subject of          *)
(* EvidenceWindow.                                                         *)
(*                                                                         *)
(* Every operation runs under the observatory's mutex and is one action.   *)
(* The clock is read before that mutex is taken, so each operation is      *)
(* given its own time `now' and the times of successive operations are not *)
(* ordered.                                                                *)
(*                                                                         *)
(* Abstractions.  An object and field path is a Location; a finding's      *)
(* identity (FindingIdentity, whose SHA-256 is the FindingId) is a record. *)
(* Values, evidence, severities and texts are left out: of the comparison  *)
(* `a draft differs materially from the stored finding' the model keeps    *)
(* the answer, chosen by the environment.  A timeline is its length,       *)
(* counted up to one past its bound.                                       *)
(***************************************************************************)
EXTENDS Naturals, FiniteSets

CONSTANTS
    NumTargets,       \* targets are 1..NumTargets, the order outcomes list them in
    Locations,        \* object/path locations other than the target scope
    Classes,          \* DriftClass values drafts are made with
    Qualifiers,       \* divergence qualifiers: applied generations, source pairs
    MaxGeneration,    \* intent generations are 1..MaxGeneration
    MaxEpoch,         \* epochs are 1..MaxEpoch
    MaxTime,          \* the times operations may run at are 0..MaxTime
    Policies,         \* policies: functions from suppressed locations to expiry
    Confirmations,    \* values of resolution_confirmations, 0 meaning 1
    Material,         \* may a redrafted finding differ materially: a subset of BOOLEAN
    OperatorScope,    \* locations whose findings operators act on
    MaxTargets,       \* RuntimeLimits::max_targets
    MaxFindings,      \* RuntimeLimits::max_findings
    MaxGroups,        \* RuntimeLimits::max_groups
    MaxSuppressions,  \* RuntimeLimits::max_suppressions
    MaxHistory,       \* RuntimeLimits::max_timeline_entries_per_finding
    MaxTimeline,      \* RuntimeLimits::max_global_timeline_entries
    Recovery,         \* whether the ledger is saved and loaded
    NoGroup           \* GroupId{}: the finding belongs to no group

ASSUME LedgerAssumption ==
    /\ NumTargets \in Nat \ {0}
    /\ MaxGeneration \in Nat /\ MaxEpoch \in Nat /\ MaxTime \in Nat
    /\ Confirmations \subseteq Nat /\ MaxHistory \in Nat \ {0}
    /\ Material \subseteq BOOLEAN /\ Recovery \in BOOLEAN
    /\ "@target" \notin Locations /\ "none" \notin Qualifiers

VARIABLES
    baselines,    \* committed intent per target (baselines_)
    findings,     \* findings by identity (findings_, resolution_streak_)
    groups,       \* members of every root-cause group (groups_)
    suppressions, \* suppressions_active_
    history,      \* length of each finding's own timeline
    timeline,     \* length of the global timeline
    revision,     \* whether the last operation advanced revision_
    status,       \* the Status the last operation returned
    file          \* the ledger file

vars == <<baselines, findings, groups, suppressions, history, timeline, revision, status, file>>

Targets == 1..NumTargets
Times == 0..MaxTime
Never == MaxTime + 1            \* an absent expiry
TargetScope == "@target"
NoQualifier == "none"

FindingIds == [target : Targets, loc : Locations \cup {TargetScope}, klass : Classes,
               gen : 0..MaxGeneration, qual : Qualifiers \cup {NoQualifier}]

States == {"Open", "Acknowledged", "Suppressed", "Resolved", "Superseded", "Retired"}
LiveStates == {"Open", "Acknowledged", "Suppressed"}

IsLive(f) == f.state \in LiveStates
Suppression(f) == f.origin # "None"

Min2(a, b) == IF a < b THEN a ELSE b
Longer(n, k, bound) == Min2(n + k, bound + 1)
Monus(a, b) == IF a > b THEN a - b ELSE 0

\* Histories H after each of ids got an entry and was trimmed.
Noted(H, ids) == [id \in DOMAIN H |-> IF id \in ids THEN Min2(H[id] + 1, MaxHistory) ELSE H[id]]

\* f itself; the comparison makes TLC evaluate f once instead of at each use.
Tabulated(f) == CASE f = f -> f

\* A finding nobody suppressed, or the state an ended suppression returns to.
Unsuppressed(f) == IF f.acked THEN "Acknowledged" ELSE "Open"

\* Mutant: the suppression is removed but the state left as it was.
UnsuppressStateKept(f) == [f EXCEPT !.origin = "None", !.expires = Never]

Unsuppress(f) ==
    [f EXCEPT !.origin = "None", !.expires = Never,
              !.state = IF @ = "Suppressed" THEN Unsuppressed(f) ELSE @]

\* What EncodeLedger writes: not the resolution streaks, and not the counter.
Encoded ==
    [baselines |-> baselines, findings |-> [id \in DOMAIN findings |-> [findings[id] EXCEPT !.streak = 0]],
     groups |-> groups, history |-> history, timeline |-> timeline]

\* The file initially holds an empty ledger.
Init ==
    /\ baselines = [t \in {} |-> {}]
    /\ findings = [id \in {} |-> {}]
    /\ groups = [g \in {} |-> {}]
    /\ suppressions = 0
    /\ history = [id \in {} |-> 0]
    /\ timeline = 0
    /\ revision = FALSE
    /\ status = "Ok"
    /\ file = Encoded

Refuse(code) ==
    /\ status' = code
    /\ revision' = FALSE
    /\ UNCHANGED <<baselines, findings, groups, suppressions, history, timeline>>

-----------------------------------------------------------------------------
(***************************************************************************)
(* CommitIntent.  The first commit for a target installs a baseline; later *)
(* ones must not regress and, when they advance the generation, rebase the *)
(* live findings of the target.                                            *)
(***************************************************************************)

\* A live finding compared against another generation than the new one.
Outdated(t, gen, id) == id.target = t /\ IsLive(findings[id]) /\ id.gen # gen

\* The state the new baseline leaves such a finding in.
Rebased(id, managed) ==
    [findings[id] EXCEPT
        !.state = IF id.loc \in managed \cup {TargetScope} THEN "Superseded" ELSE "Retired",
        !.group = NoGroup]

RebaseFindingsForTarget(t, gen, managed) ==
    LET outdated == {id \in DOMAIN findings : Outdated(t, gen, id)}
        dropped  == {findings[id].group : id \in outdated}
    IN  /\ findings' = [id \in DOMAIN findings |->
                           IF id \in outdated THEN Rebased(id, managed) ELSE findings[id]]
        /\ groups' = [g \in DOMAIN groups \ dropped |-> groups[g]]
        /\ history' = Noted(history, outdated)
        /\ timeline' = Longer(timeline, Cardinality(outdated) + 1, MaxTimeline)

Commit(t, doc) ==
    /\ baselines' = [u \in DOMAIN baselines \cup {t} |-> IF u = t THEN doc ELSE baselines[u]]
    /\ status' = "Ok"
    /\ revision' = TRUE
    /\ UNCHANGED suppressions

Advances(t, doc) == doc.gen > baselines[t].gen

CommitIntent(t, doc) ==
    \/ /\ t \notin DOMAIN baselines
       /\ Cardinality(DOMAIN baselines) >= MaxTargets
       /\ Refuse("Limit")
    \/ /\ t \notin DOMAIN baselines
       /\ Cardinality(DOMAIN baselines) < MaxTargets
       /\ Commit(t, doc)
       /\ timeline' = Longer(timeline, 1, MaxTimeline)
       /\ UNCHANGED <<findings, groups, history>>
    \/ /\ t \in DOMAIN baselines
       /\ doc.epoch < baselines[t].epoch
       /\ Refuse("Stale")
    \/ /\ t \in DOMAIN baselines
       /\ doc.epoch >= baselines[t].epoch
       /\ ~Advances(t, doc)
       /\ Refuse(IF doc = baselines[t] THEN "Ok" ELSE "Conflict")
    \/ /\ t \in DOMAIN baselines
       /\ doc.epoch >= baselines[t].epoch
       /\ Advances(t, doc)
       /\ Commit(t, doc)
       /\ RebaseFindingsForTarget(t, doc.gen, doc.managed)

-----------------------------------------------------------------------------
(***************************************************************************)
(* ApplyEvaluation.  An outcome is a function from the targets it covers   *)
(* to what CompareTarget found there.  The parts below give the ledger     *)
(* after each stage of the code, for the targets S whose fence held; the   *)
(* code works through the targets one at a time, but what it does to one   *)
(* of them depends on the others only through the two envelope checks.     *)
(***************************************************************************)
IdOf(t, gen, d) == [target |-> t, loc |-> d.loc, klass |-> d.klass, gen |-> gen, qual |-> d.qual]
DraftIds(o, t) == {IdOf(t, o[t].gen, d) : d \in o[t].drafts}
AllDrafted(o, S) == UNION {DraftIds(o, t) : t \in S}
NewIds(o, S) == AllDrafted(o, S) \ DOMAIN findings

\* Phase one: the targets whose committed generation is still the one the
\* outcome was computed against.
Accepted(o) ==
    {t \in DOMAIN o : IF o[t].hasBaseline
                        THEN t \in DOMAIN baselines /\ baselines[t].gen = o[t].gen
                        ELSE t \notin DOMAIN baselines}

\* ObservatoryPolicy::FindSuppression.
PolicySuppresses(policy, id, now) == id.loc \in DOMAIN policy /\ now < policy[id.loc]

\* A finding drafted for the first time.
Created(policy, id, now) ==
    LET hit == PolicySuppresses(policy, id, now)
    IN  [state   |-> IF hit THEN "Suppressed" ELSE "Open",
         origin  |-> IF hit THEN "Policy" ELSE "None",
         expires |-> IF hit THEN policy[id.loc] ELSE Never,
         acked |-> FALSE, group |-> NoGroup, streak |-> 0]

\* Mutant: operator suppressions lapse like policy suppressions.
LapsedAnyOrigin(policy, id, now) ==
    Suppression(findings[id]) /\ ~PolicySuppresses(policy, id, now)

\* Its policy suppression no longer matches.
Lapsed(policy, id, now) ==
    findings[id].origin = "Policy" /\ ~PolicySuppresses(policy, id, now)

\* Mutant: confirmations given before the drift was seen again still count.
RedraftedConfirmed(policy, id, now) ==
    LET f == [findings[id] EXCEPT !.state = IF @ \in LiveStates THEN @ ELSE "Open"]
    IN  IF Lapsed(policy, id, now) THEN Unsuppress(f) ELSE f

\* Mutant: a reopened finding is still acknowledged.
RedraftedAcknowledged(policy, id, now) ==
    LET f == [findings[id] EXCEPT !.streak = 0,
                                  !.state = IF @ \in LiveStates THEN @ ELSE Unsuppressed(findings[id])]
    IN  IF Lapsed(policy, id, now) THEN Unsuppress(f) ELSE f

\* A finding drafted again: reopened when it was not live.
Redrafted(policy, id, now) ==
    LET f == [findings[id] EXCEPT !.streak = 0,
                                  !.state = IF @ \in LiveStates THEN @ ELSE "Open"]
    IN  IF Lapsed(policy, id, now) THEN Unsuppress(f) ELSE f

\* A live finding the evaluation did not draft.
Reclassified(o, id) ==
    \E d \in DraftIds(o, id.target) : d.loc = id.loc /\ d.gen = id.gen

\* Mutant: a resolved finding keeps its group.
UndraftedGroupKept(o, required, id) ==
    IF o[id.target].decidable THEN [findings[id] EXCEPT !.state = "Resolved"] ELSE findings[id]

Undrafted(o, required, id) ==
    LET f == findings[id]
    IN  IF ~o[id.target].decidable THEN f
        ELSE IF Reclassified(o, id)
          THEN [f EXCEPT !.state = "Superseded", !.group = NoGroup]
        ELSE IF f.streak + 1 >= (IF required = 0 THEN 1 ELSE required)
          THEN [f EXCEPT !.streak = @ + 1, !.state = "Resolved", !.group = NoGroup]
        ELSE [f EXCEPT !.streak = @ + 1]

\* The findings after drafts and resolutions were applied to the targets S.
Evolved(o, S, policy, required, now) ==
    [id \in DOMAIN findings \cup NewIds(o, S) |->
        CASE id \notin DOMAIN findings -> Created(policy, id, now)
          [] id \in DOMAIN findings /\ id.target \notin S -> findings[id]
          [] id \in DOMAIN findings /\ id.target \in S /\ id \in DraftIds(o, id.target)
               -> Redrafted(policy, id, now)
          [] OTHER -> IF IsLive(findings[id]) THEN Undrafted(o, required, id) ELSE findings[id]]

-----------------------------------------------------------------------------
(***************************************************************************)
(* RefreshGroups: the live findings of a target fall into buckets by       *)
(* generation and cause; a bucket that forms a group is stored under an    *)
(* identity made of both and of its members' qualifiers.                   *)
(***************************************************************************)
CauseFor(klass) ==
    CASE klass = "GenerationMismatch" -> "GenerationNotApplied"
      [] klass = "PartialApplication" -> "PartialApplication"
      [] klass = "SourceConflict"     -> "SourceConflict"
      [] klass = "StaleObservation"   -> "StaleEvidence"
      [] klass = "Unknown"            -> "InsufficientCoverage"
      [] klass = "Unsupported"        -> "UnsupportedField"
      [] klass = "IntentMissing"      -> "MissingIntent"
      [] OTHER                        -> "SingleField"

\* The order of the enumeration RootCauseKind, which orders the buckets.
CauseRank(cause) ==
    CASE cause = "SingleField" -> 1 [] cause = "GenerationNotApplied" -> 2
      [] cause = "PartialApplication" -> 3 [] cause = "SourceConflict" -> 4
      [] cause = "StaleEvidence" -> 5 [] cause = "InsufficientCoverage" -> 6
      [] cause = "MissingIntent" -> 7 [] OTHER -> 8

\* A bucket is the set of its members.
CauseFormsGroup(members) ==
    \/ Cardinality(members) >= 2
    \/ \E id \in members :
          CauseFor(id.klass) \in {"GenerationNotApplied", "PartialApplication"}

SameBucket(i, j) ==
    i.target = j.target /\ i.gen = j.gen /\ CauseFor(i.klass) = CauseFor(j.klass)

\* The buckets of the targets S that form a group.
Formed(F, S) ==
    LET live == {id \in DOMAIN F : id.target \in S /\ IsLive(F[id])}
    IN  {m \in {{j \in live : SameBucket(i, j)} : i \in live} : CauseFormsGroup(m)}

\* What a member contributes to the discriminator: its qualifier if it has
\* one, its identity otherwise.
Discriminant(id) ==
    IF id.qual # NoQualifier
      THEN [loc |-> TargetScope, klass |-> NoQualifier, qual |-> id.qual]
      ELSE [loc |-> id.loc, klass |-> id.klass, qual |-> id.qual]

GroupIdentity(members) ==
    LET id == CHOOSE i \in members : TRUE
    IN  [target |-> id.target, gen |-> id.gen, cause |-> CauseFor(id.klass),
         discriminator |-> {Discriminant(i) : i \in members}]

Produced(formed) == {GroupIdentity(m) : m \in formed}
MembersOf(formed, g) == CHOOSE m \in formed : GroupIdentity(m) = g

\* The order buckets are visited in.
Precedes(g, h) ==
    g.gen < h.gen \/ (g.gen = h.gen /\ CauseRank(g.cause) < CauseRank(h.cause))

\* groups_to_drop: the groups findings of the targets S left by being resolved
\* or reclassified.  The code erases them after the refresh of each target.
Dropped(F, S) ==
    {findings[id].group : id \in {i \in DOMAIN findings :
        i.target \in S /\ IsLive(findings[i]) /\ ~IsLive(F[i])}}

\* The groups of t whose creation finds the table full.  The targets of S
\* before t have been refreshed by then, the ones after it have not.
Blocked(F, formed, S, t) ==
    LET done  == {u \in S : u < t}
        table == {g \in DOMAIN groups : g.target \notin done}
                   \cup ({g \in Produced(formed) : g.target \in done} \ Dropped(F, done))
        fresh == {g \in Produced(formed) : g.target = t} \ DOMAIN groups
    IN  {g \in fresh :
            Cardinality(table) + Cardinality({h \in fresh : Precedes(h, g)}) >= MaxGroups}

\* The groups of t written before the first blocked one.
Touched(formed, blocked, t) ==
    {g \in Produced(formed) :
        g.target = t /\ ~\E h \in blocked : h.target = t /\ (h = g \/ Precedes(h, g))}

\* Live findings take the group of their bucket.
Assigned(F, S, formed) ==
    [id \in DOMAIN F |->
        IF id.target \in S /\ IsLive(F[id])
          THEN [F[id] EXCEPT !.group = IF id \in UNION formed
                                         THEN GroupIdentity(CHOOSE m \in formed : id \in m)
                                         ELSE NoGroup]
          ELSE F[id]]

-----------------------------------------------------------------------------
(***************************************************************************)
(* ExpireSuppressions: end every suppression whose time has come.          *)
(***************************************************************************)
Expired(F, now) == {id \in DOMAIN F : Suppression(F[id]) /\ now >= F[id].expires}

WithoutExpired(F, now) ==
    [id \in DOMAIN F |-> IF id \in Expired(F, now) THEN Unsuppress(F[id]) ELSE F[id]]

ExpireSuppressions(now) ==
    LET expired == Expired(findings, now) IN
    /\ findings' = WithoutExpired(findings, now)
    /\ suppressions' = Monus(suppressions, Cardinality(expired))
    /\ history' = Noted(history, expired)
    /\ timeline' = Longer(timeline, Cardinality(expired), MaxTimeline)
    /\ revision' = (expired # {})
    /\ status' = "Ok"
    /\ UNCHANGED <<baselines, groups>>

-----------------------------------------------------------------------------
(***************************************************************************)
(* The events one evaluation records, as pairs of a finding and a kind.    *)
(* material tells whether the drafts differ materially from the stored     *)
(* findings.  A finding's own history is trimmed by RecomputeSummary, which *)
(* runs after the events of a draft, before the event of a resolution, and *)
(* not at all after a reclassification or a change of group.               *)
(***************************************************************************)
DraftEvents(o, S, material, policy, now) ==
    LET again == AllDrafted(o, S) \cap DOMAIN findings
    IN  {<<id, "Created">> : id \in NewIds(o, S)}
        \cup {<<id, "Reopened">> : id \in {i \in again : ~IsLive(findings[i])}}
        \cup {<<id, "Updated">> : id \in {i \in again : material /\ IsLive(findings[i])}}
        \cup {<<id, "SuppressionExpired">> : id \in {i \in again : Lapsed(policy, i, now)}}

ClosingEvents(F) ==
    {<<id, F[id].state>> : id \in {i \in DOMAIN findings : IsLive(findings[i]) /\ ~IsLive(F[i])}}

GroupEvents(F, A) ==
    {<<id, "Grouped">> : id \in {i \in DOMAIN F : A[i].group \notin {F[i].group, NoGroup}}}

CountOf(events, id) == Cardinality({e \in events : e[1] = id})

HistoryAfter(F, ids, drafted, closing, grouped) ==
    [id \in DOMAIN F |->
        LET old == IF id \in DOMAIN history THEN history[id] ELSE 0
            new == IF id \in ids THEN Min2(old + CountOf(drafted, id), MaxHistory)
                   ELSE IF <<id, "Resolved">> \in closing THEN Min2(old, MaxHistory) + 1
                   ELSE Longer(old, CountOf(closing, id), MaxHistory)
        IN  Longer(new, CountOf(grouped, id), MaxHistory)]

\* Phase two over the targets S, of which the targets done are refreshed and
\* the others are left where the group table overflowed.
Pass(o, S, done, material, policy, required, now) ==
    LET F == Tabulated(Evolved(o, S, policy, required, now))
        formed == Formed(F, S)
        A == Tabulated(Assigned(F, done, formed))
        blocked == UNION {Blocked(F, formed, S, t) : t \in S}
        drafted == DraftEvents(o, S, material, policy, now)
        closing == ClosingEvents(F)
        grouped == GroupEvents(F, A)
        kept == {g \in DOMAIN groups : g.target \notin done}
        written == ({g \in Produced(formed) : g.target \in done} \ Dropped(F, done))
                      \cup UNION {Touched(formed, blocked, t) : t \in S \ done}
    IN  [findings |-> A,
         groups   |-> [g \in kept \cup written |->
                          IF g \in written THEN MembersOf(formed, g) ELSE groups[g]],
         history  |-> HistoryAfter(F, AllDrafted(o, S), drafted, closing, grouped),
         events   |-> Cardinality(drafted) + Cardinality(closing) + Cardinality(grouped),
         overflow |-> {g.target : g \in blocked}]

\* Every accepted target fits: the pass ends with the expiry of suppressions
\* and the trimming of the timeline.
ApplyAll(o, material, policy, required, now) ==
    \E p \in {Pass(o, Accepted(o), Accepted(o), material, policy, required, now)} :
        LET expired == Expired(p.findings, now) IN
        /\ p.overflow = {}
        /\ findings' = WithoutExpired(p.findings, now)
        /\ groups' = p.groups
        /\ suppressions' = Monus(suppressions, Cardinality(expired))
        /\ history' = Noted(p.history, expired)
        /\ timeline' = Min2(timeline + p.events + Cardinality(expired), MaxTimeline)
        /\ revision' = TRUE
        /\ status' = "Ok"

\* The group table overflows at target t: the targets before t are complete,
\* the findings of t are already updated and some of its groups written, and
\* the rest of the pass is abandoned.
ApplyPart(o, t, material, policy, required, now) ==
    LET done == {u \in Accepted(o) : u < t} IN
    \E p \in {Pass(o, done \cup {t}, done, material, policy, required, now)} :
        /\ p.overflow = {t}
        /\ findings' = p.findings
        /\ groups' = p.groups
        /\ history' = p.history
        /\ timeline' = Longer(timeline, p.events, MaxTimeline)
        /\ revision' = FALSE
        /\ status' = "Limit"
        /\ UNCHANGED suppressions

\* new_findings counts the new drafts of the accepted targets only.
FitsEnvelope(o) == Cardinality(DOMAIN findings \cup NewIds(o, Accepted(o))) <= MaxFindings

\* Mutant: the finding envelope is looked at after the findings were updated.
ApplyEvaluationEager(o, material, policy, required, now) ==
    \E p \in {Pass(o, Accepted(o), Accepted(o), material, policy, required, now)} :
        /\ findings' = p.findings
        /\ groups' = p.groups
        /\ history' = p.history
        /\ status' = IF FitsEnvelope(o) THEN "Ok" ELSE "Limit"
        /\ revision' = FitsEnvelope(o)
        /\ UNCHANGED <<baselines, suppressions, timeline>>

ApplyEvaluation(o, material, policy, required, now) ==
    \/ ~FitsEnvelope(o) /\ Refuse("Limit")
    \/ /\ FitsEnvelope(o)
       /\ \/ ApplyAll(o, material, policy, required, now)
          \/ \E t \in Accepted(o) : ApplyPart(o, t, material, policy, required, now)
       /\ UNCHANGED baselines

-----------------------------------------------------------------------------
(***************************************************************************)
(* Operator actions.  Each finds one finding, changes it, and records one  *)
(* event; none of them trims the global timeline.                          *)
(***************************************************************************)
Touch(id, f) ==
    /\ findings' = [findings EXCEPT ![id] = f]
    /\ history' = [history EXCEPT ![id] = Min2(@ + 1, MaxHistory)]
    /\ timeline' = Longer(timeline, 1, MaxTimeline)
    /\ revision' = TRUE
    /\ status' = "Ok"
    /\ UNCHANGED <<baselines, groups>>

Suppress(id, expires) ==
    LET f == findings[id] IN
    \/ /\ suppressions >= MaxSuppressions /\ ~Suppression(f)
       /\ Refuse("Limit")
    \/ /\ suppressions < MaxSuppressions \/ Suppression(f)
       /\ Touch(id, [f EXCEPT !.origin = "Operator", !.expires = expires,
                              !.state = IF IsLive(f) THEN "Suppressed" ELSE @])
       /\ suppressions' = IF Suppression(f) THEN suppressions ELSE suppressions + 1

ClearSuppression(id) ==
    IF Suppression(findings[id])
      THEN /\ Touch(id, Unsuppress(findings[id]))
           /\ suppressions' = Monus(suppressions, 1)
      ELSE Refuse("NotFound")

Acknowledge(id) ==
    /\ Touch(id, [findings[id] EXCEPT !.acked = TRUE,
                                      !.state = IF @ = "Open" THEN "Acknowledged" ELSE @])
    /\ UNCHANGED suppressions

ClearAcknowledgement(id) ==
    IF findings[id].acked
      THEN /\ Touch(id, [findings[id] EXCEPT !.acked = FALSE,
                                             !.state = IF @ = "Acknowledged" THEN "Open" ELSE @])
           /\ UNCHANGED suppressions
      ELSE Refuse("NotFound")

\* RecordEvent: a policy change is put on the global timeline.
RecordEvent ==
    /\ timeline' = Min2(timeline + 1, MaxTimeline)
    /\ revision' = TRUE
    /\ status' = "Ok"
    /\ UNCHANGED <<baselines, findings, groups, suppressions, history>>

-----------------------------------------------------------------------------
(***************************************************************************)
(* The ledger file.  Save replaces it (SaveLedgerFile writes a temporary   *)
(* file and renames it).  Load decodes it into a fresh ledger, entry by    *)
(* entry through Restore..., and then replaces the live one; a file with a *)
(* timeline beyond its bound is refused.  What runs between decoding and   *)
(* replacing is Observatory's subject.                                     *)
(***************************************************************************)
Save ==
    /\ file' = Encoded
    /\ status' = "Ok"
    /\ revision' = FALSE
    /\ UNCHANGED <<baselines, findings, groups, suppressions, history, timeline>>

Decodable ==
    /\ file.timeline <= MaxTimeline
    /\ \A id \in DOMAIN file.history : file.history[id] <= MaxHistory

\* Mutant: the committed intent is not restored.
RestoreBaselineSkipped == baselines' = [t \in {} |-> {}]

RestoreBaseline == baselines' = file.baselines

\* A live finding gets an EvidenceRecovered entry in its own history, unless
\* its evidence was recovered already; every suppression counts as active.
RestoreFinding(again) ==
    /\ findings' = file.findings
    /\ history' = IF again THEN file.history
                  ELSE Noted(file.history, {id \in DOMAIN file.findings : IsLive(file.findings[id])})
    /\ suppressions' = Cardinality({id \in DOMAIN file.findings : Suppression(file.findings[id])})

Load(again) ==
    /\ UNCHANGED file
    /\ \/ ~Decodable /\ Refuse("Limit")
       \/ /\ Decodable
          /\ RestoreBaseline
          /\ RestoreFinding(again)
          /\ groups' = file.groups
          /\ timeline' = file.timeline
          /\ revision' = FALSE
          /\ status' = "Ok"

-----------------------------------------------------------------------------
(***************************************************************************)
(* What CompareTarget can report about a target (src/src/comparison.cpp):  *)
(* no committed intent; no usable evidence; or a comparison, which drafts  *)
(* at most one finding per location besides source conflicts, regroups its *)
(* value and absence drafts all or not at all, and decides compliance only *)
(* without indeterminate drafts.  Qualified drafts of one comparison share *)
(* a qualifier here.                                                       *)
(***************************************************************************)
Regrouped == {"GenerationMismatch", "PartialApplication"}
Regroupable == {"ValueMismatch", "FieldMissing", "Missing"}
Indeterminate == {"StaleObservation", "Unknown", "Unsupported"}

Evaluation(hasBaseline, gen, drafts, decidable) ==
    [hasBaseline |-> hasBaseline, gen |-> gen, drafts |-> drafts, decidable |-> decidable]

ScopeDraft(klass) == [loc |-> TargetScope, klass |-> klass, qual |-> NoQualifier]

LeafDrafts(q) ==
    {d \in [loc : Locations, klass : Classes \ {"StaleObservation", "IntentMissing"},
            qual : {q, NoQualifier}] :
        d.qual = (IF d.klass \in Regrouped \cup {"SourceConflict"} THEN q ELSE NoQualifier)}

Comparable(drafts) ==
    LET klasses == {d.klass : d \in drafts}
    IN  /\ \A d, e \in drafts : (d.loc = e.loc /\ d # e) => "SourceConflict" \in {d.klass, e.klass}
        /\ Cardinality(klasses \cap Regrouped) <= 1
        /\ klasses \cap Regrouped = {} \/ klasses \cap Regroupable = {}

Evaluations ==
    {e \in {Evaluation(FALSE, 0, {}, FALSE),
             Evaluation(FALSE, 0, {ScopeDraft("IntentMissing")}, FALSE)}
           \cup {Evaluation(TRUE, g, {ScopeDraft("StaleObservation")}, FALSE) : g \in 1..MaxGeneration}
           \cup [hasBaseline : {TRUE}, gen : 1..MaxGeneration, decidable : BOOLEAN,
                  drafts : UNION {{x \in SUBSET LeafDrafts(q) : Comparable(x)} : q \in Qualifiers}] :
        LET klasses == {d.klass : d \in e.drafts}
        IN  klasses \subseteq Classes /\ (e.decidable => klasses \cap Indeterminate = {})}

Outcomes == UNION {[T -> Evaluations] : T \in SUBSET Targets \ {{}}}
Documents == [gen : 1..MaxGeneration, epoch : 1..MaxEpoch, managed : SUBSET Locations]

\* Only what intent does not declare, or sources disagree about, is drafted
\* outside the locations the document manages.
Unmanaged == {"Unexpected", "FieldUnexpected", "SourceConflict"}

AgreesWithDocument(o) ==
    \A t \in Accepted(o) \cap DOMAIN baselines : \A d \in o[t].drafts :
        d.loc \in baselines[t].managed \cup {TargetScope} \/ d.klass \in Unmanaged

Evaluate ==
    \E o \in Outcomes, material \in Material, policy \in Policies,
       required \in Confirmations, now \in Times :
        /\ AgreesWithDocument(o)
        /\ ApplyEvaluation(o, material, policy, required, now)

Operate ==
    \E id \in {i \in DOMAIN findings : i.loc \in OperatorScope} :
        \/ \E expires \in Times \cup {Never} : Suppress(id, expires)
        \/ ClearSuppression(id)
        \/ Acknowledge(id)
        \/ ClearAcknowledgement(id)

Mutate ==
    \/ \E t \in Targets, doc \in Documents : CommitIntent(t, doc)
    \/ Evaluate
    \/ Operate
    \/ \E now \in Times : ExpireSuppressions(now)
    \/ RecordEvent

\* again: whether evidence of the live findings was recovered before.
Recover == Save \/ \E again \in BOOLEAN : Load(again)

Next ==
    \/ Mutate /\ UNCHANGED file
    \/ Recovery /\ Recover

Spec == Init /\ [][Next]_vars

-----------------------------------------------------------------------------
GroupIds == [target : Targets, gen : 0..MaxGeneration, cause : STRING,
             discriminator : SUBSET [loc : Locations \cup {TargetScope}, klass : STRING,
                                     qual : Qualifiers \cup {NoQualifier}]]

\* Type of the state.
TypeOK ==
    /\ DOMAIN baselines \subseteq Targets
    /\ \A t \in DOMAIN baselines : baselines[t] \in Documents
    /\ DOMAIN findings \subseteq FindingIds
    /\ \A id \in DOMAIN findings :
         /\ findings[id].state \in States
         /\ findings[id].origin \in {"None", "Policy", "Operator"}
         /\ findings[id].expires \in Times \cup {Never}
         /\ findings[id].acked \in BOOLEAN
         /\ findings[id].group = NoGroup \/ findings[id].group \in GroupIds
         /\ findings[id].streak \in Nat
    /\ \A g \in DOMAIN groups : g \in GroupIds /\ groups[g] \subseteq DOMAIN findings
    /\ suppressions \in Nat
    /\ DOMAIN history = DOMAIN findings
    /\ \A id \in DOMAIN history : history[id] \in 0..(MaxHistory + 1)
    /\ timeline \in 0..(MaxTimeline + 1)
    /\ revision \in BOOLEAN
    /\ status \in {"Ok", "Limit", "Stale", "Conflict", "NotFound"}
    /\ DOMAIN file.history = DOMAIN file.findings
    /\ \A g \in DOMAIN file.groups : file.groups[g] \subseteq DOMAIN file.findings

\* The generation findings of target t are derived against.
CurrentGeneration(t) == IF t \in DOMAIN baselines THEN baselines[t].gen ELSE 0

\* No live finding speaks about a superseded baseline: whatever order commits
\* and (possibly stale) evaluation outcomes arrive in, a live finding was
\* derived against the committed generation of its target, or before any
\* intent was committed.  CommitIntent's rebase and ApplyEvaluation's fence
\* have to agree for this.
LiveFindingsTrackBaseline ==
    \A id \in DOMAIN findings :
        IsLive(findings[id]) => id.gen \in {0, CurrentGeneration(id.target)}

\* A finding is in state Suppressed exactly when it is hidden for a recorded
\* reason: the state never outlives the suppression that put it there, through
\* clearing, expiry, policy change, resolution and reopening.
SuppressedHasReason ==
    \A id \in DOMAIN findings :
        findings[id].state = "Suppressed" => Suppression(findings[id])

\* An operator suppressed the finding until further notice.
Held(f) == f.origin = "Operator" /\ f.expires = Never

\* What is left of that: the record and, while the finding is live, the state.
StaysHeld(f, g) == Held(g) /\ (f.state = "Suppressed" /\ IsLive(g) => g.state = "Suppressed")

\* "An operator suppression ends only when it is cleared or expires.  An evaluation
\* never silently revokes an operator suppression" (README.md:209-211), as far as
\* the code goes: no policy change, evaluation,
\* expiry pass or acknowledgement ends or shortens a suppression an operator set
\* without expiry, and the finding stays Suppressed for as long as it stays live.
\* Only the operator's own ClearSuppression or Suppress does, and a Load, which
\* brings back what was saved.  It is not in force beyond the closing of the
\* finding: one that drifts again is Open (ledger.cpp:607, ClosedReopensCurrent),
\* with the suppression still recorded.
OperatorSuppressionKept ==
    [][\A id \in DOMAIN findings : Held(findings[id]) =>
         \/ \E again \in BOOLEAN : Load(again)
         \/ ClearSuppression(id)
         \/ \E expires \in Times : Suppress(id, expires)
         \/ StaysHeld(findings[id], findings'[id])]_vars

\* A finding that is no longer live belongs to no group, and every group
\* consists of live findings that name it as theirs.  (The converse, that the
\* group a finding names exists, is GroupOfFindingExists.)
GroupsConsistent ==
    /\ \A id \in DOMAIN findings : ~IsLive(findings[id]) => findings[id].group = NoGroup
    /\ \A g \in DOMAIN groups : \A id \in groups[g] :
          /\ id \in DOMAIN findings
          /\ IsLive(findings[id]) /\ findings[id].group = g

\* Findings are never forgotten, and one that was closed comes back only as
\* Open, whatever suppression or acknowledgement is recorded with it, and derived
\* against the generation committed now; only a Load, which brings back what was
\* saved, may do otherwise.
ClosedReopensCurrent ==
    [][\/ \E again \in BOOLEAN : Load(again)
       \/ \A id \in DOMAIN findings :
            /\ id \in DOMAIN findings'
            /\ (~IsLive(findings[id]) /\ IsLive(findings'[id])) =>
                 /\ findings'[id].state = "Open"
                 /\ id.gen = CurrentGeneration(id.target)]_vars

\* "An evaluation that would exceed the finding or group envelope is refused
\* as a whole: nothing is applied" (README.md:424-425).  The code breaks this at
\* the limit of the group table (ledger.cpp:837).
RefusedAsAWhole ==
    [][status' = "Limit" => UNCHANGED <<baselines, findings, groups, suppressions>>]_vars

\* What remains true of it: an operation refused for a limit has changed nothing,
\* whichever of its targets are fenced, unless it is an evaluation that met a full
\* group table.  That one has been applied in part, within the finding table, and
\* neither intent nor the suppressions have changed.
RefusedUnlessGroupsFull ==
    [][status' = "Limit" =>
         \/ UNCHANGED <<baselines, findings, groups, suppressions>>
         \/ /\ Cardinality(DOMAIN groups') >= MaxGroups
            /\ Cardinality(DOMAIN findings') <= MaxFindings
            /\ UNCHANGED <<baselines, suppressions>>]_vars

\* A finding "additionally records the group it belongs to" (README.md:220-222):
\* the group a live finding names is in the ledger.
GroupOfFindingExists ==
    \A id \in DOMAIN findings :
        findings[id].group # NoGroup => findings[id].group \in DOMAIN groups

\* "The runtime never refuses a ledger it wrote itself" (persistence.cpp:1029-1030):
\* no sequence of operations and a Save leaves a file DecodeLedger refuses, that
\* is, every path that appends to a timeline also trims it before the next Save.
OwnFileLoads == Decodable

-----------------------------------------------------------------------------
(***************************************************************************)
(* The lifecycle this ledger implements: a finding is live or closed in    *)
(* one of three ways, and the confirmations given are its streak.          *)
(***************************************************************************)
CommittedIn(B) == [t \in Targets |-> IF t \in DOMAIN B THEN B[t].gen ELSE 0]
StandingIn(F) == [id \in DOMAIN F |-> IF IsLive(F[id]) THEN "live" ELSE F[id].state]
ConfirmedIn(F) == [id \in DOMAIN F |-> F[id].streak]

Lifecycle == INSTANCE FindingLifecycle
    WITH Ids       <- FindingIds,
         Required  <- {IF c = 0 THEN 1 ELSE c : c \in Confirmations},
         committed <- CommittedIn(baselines),
         standing  <- StandingIn(findings),
         confirmed <- ConfirmedIn(findings),
         saved     <- <<CommittedIn(file.baselines), StandingIn(file.findings),
                        ConfirmedIn(file.findings)>>

\* Whatever commits, evaluations (stale, undecidable or abandoned half way
\* ones included), operators, expiry, saves and loads do, it is a step of the
\* lifecycle or none: a finding is resolved only after the required number of
\* agreeing evaluations since it was last seen, however its streak was carried
\* through reopening, rebasing and a restart (README.md:187-190).
ImplementsLifecycle == Lifecycle!Spec

=============================================================================
