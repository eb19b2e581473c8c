-------------------------------- MODULE Query -------------------------------
(***************************************************************************)
(* Reading findings and the timeline page by page while the ledger         *)
(* changes: ExecuteQuery and ExecuteTimelineQuery (src/src/query.cpp) as a *)
(* reader uses them, who advances the offset by what came back, and the    *)
(* findings of a report (src/src/report.cpp, src/src/engine.cpp). Every    *)
(* page and every report is computed from one copy of the ledger taken     *)
(* under the lock of the observatory, and the lock is free between pages.  *)
(*                                                                         *)
(* Of the filters of a query there are the target, the least severity, the *)
(* least age and the included states; the others test one more field each, *)
(* as those of a timeline query do. A timeline entry is its sequence.      *)
(* Identities, targets and objects are numbers, in their order. The clock  *)
(* is read anew for every page and need not advance. A file that is loaded *)
(* between pages is any of the saved ledgers in Saved.                     *)
(***************************************************************************)
EXTENDS Integers, Sequences, FiniteSets, SequencesExt

CONSTANTS Ids,           \* finding identities
          TargetOf,      \* the target of each identity
          ObjectOf,      \* the object of each identity
          Actionable,    \* identities whose class has a reconciliation action
          Severities,    \* severity ranks
          Times,         \* clock readings
          Specs,         \* the query specifications a reader may use
          Limits,        \* page limits a reader may use
          SizeMax,       \* largest std::size_t
          Budget,        \* min(max_findings, max_report_findings)
          MaxTimeline,   \* max_global_timeline_entries
          Saved,         \* the ledgers a file to load may hold
          MaxChanges     \* bound: changes of the ledger

Orders == {"severity-descending", "first-seen-ascending", "last-seen-descending",
           "target-ascending", "identity-ascending"}

Closing == {"resolved", "superseded", "retired"}
States  == {"open", "suppressed"} \cup Closing

QuerySpec == [targets : SUBSET {TargetOf[f] : f \in Ids}, minSeverity : Severities,
              minAge : Int, states : SUBSET States, order : Orders]

Finding == [severity : Severities, first : Times, last : Times, state : States]

\* A timeline: entries in the order of their sequence numbers, none of them
\* beyond the last number given out.
InSequence(entries, last) ==
    /\ \A i \in 1..Len(entries) : entries[i] <= last
    /\ \A i, j \in 1..Len(entries) : i < j => entries[i] < entries[j]

ASSUME QueryAssumption ==
    /\ Ids \subseteq Nat /\ Severities \subseteq Nat /\ Times \subseteq Nat
    /\ TargetOf \in [Ids -> Nat] /\ ObjectOf \in [Ids -> Nat]
    /\ Actionable \subseteq Ids
    /\ SizeMax \in Nat /\ Limits \subseteq 1..SizeMax
    /\ Budget \in Nat /\ MaxTimeline \in Nat /\ MaxChanges \in Nat
    /\ \A s \in Specs : s \in QuerySpec
    /\ \A s \in Saved :
          /\ IsFiniteSet(DOMAIN s.findings) /\ DOMAIN s.findings \subseteq Ids
          /\ \A f \in DOMAIN s.findings : s.findings[f] \in Finding
          /\ s.sequence \in Nat /\ s.timeline \in Seq(Nat) /\ InSequence(s.timeline, s.sequence)

VARIABLES
    findings,   \* the findings of the ledger, by identity
    timeline,   \* the global timeline: its entries, oldest first
    sequence,   \* timeline_sequence_: the last sequence number given out
    changes,    \* bound: changes of the ledger
    walk        \* the reader: what it asks for and what came back so far

ledger == <<findings, timeline, sequence, changes>>
vars == <<findings, timeline, sequence, changes, walk>>

Present == DOMAIN findings

NoSpec == [order |-> "sequence"]
NoWalk == [phase |-> "idle"]

\* What a file must not exceed to be decoded, and the last sequence numbers
\* the decoded ledger may have given out: any of the live findings may be
\* noted in its own timeline to have been recovered.
Loadable(saved) == Len(saved.timeline) <= MaxTimeline

Continued(saved) ==
    {saved.sequence + n :
        n \in 0..Cardinality({f \in DOMAIN saved.findings : saved.findings[f].state \notin Closing})}

\* An observatory starts on an empty ledger or loads one before it answers.
Init ==
    /\ \/ findings = [f \in {} |-> 0] /\ timeline = <<>> /\ sequence = 0
       \/ \E saved \in Saved : /\ Loadable(saved)
                               /\ findings = saved.findings
                               /\ timeline = saved.timeline
                               /\ sequence \in Continued(saved)
    /\ changes = 0
    /\ walk = NoWalk

-----------------------------------------------------------------------------
(* Filters and orders *)

\* A finding in a closed or suppressed state needs its include flag.
Matches(f, spec, now) ==
    /\ TargetOf[f] \in spec.targets
    /\ findings[f].severity >= spec.minSeverity
    /\ now - findings[f].first >= spec.minAge
    /\ findings[f].state \in spec.states

Matched(spec, now) == {f \in Present : Matches(f, spec, now)}

\* The fields an order compares before it turns to identities, as numbers that
\* ascend along the result. An object stands for the object and its path.
Keys(f, order) ==
    CASE order = "severity-descending"  -> <<-findings[f].severity, -findings[f].last>>
      [] order = "first-seen-ascending" -> <<findings[f].first, 0>>
      [] order = "last-seen-descending" -> <<-findings[f].last, 0>>
      [] order = "target-ascending"     -> <<TargetOf[f], ObjectOf[f]>>
      [] order = "identity-ascending"   -> <<0, 0>>

Precedes(k, l) == k[1] < l[1] \/ (k[1] = l[1] /\ k[2] < l[2])

\* Variant: ties are left as the sort finds them.
OrderBeforeTies(f, g, order) == Precedes(Keys(f, order), Keys(g, order))

OrderBefore(f, g, order) ==
    \/ Precedes(Keys(f, order), Keys(g, order))
    \/ Keys(f, order) = Keys(g, order) /\ f < g

\* What std::sort may leave behind: any arrangement without an inversion.
Sorted(set, order) ==
    {s \in SetToSeqs(set) :
        \A i, j \in 1..Len(s) : i < j => ~OrderBefore(s[j], s[i], order)}

-----------------------------------------------------------------------------
(* Pages *)

AtMost(a, b) == IF a < b THEN a ELSE b

\* Sums of std::size_t wrap around.
Plus(a, b) == (a + b) % (SizeMax + 1)

\* Variant: the first entry of a page repeats the last of the previous one.
PageOverlapping(all, offset, limit) ==
    LET begin == AtMost(IF offset > 0 THEN offset - 1 ELSE 0, Len(all))
        end   == AtMost(Plus(begin, limit), Len(all))
    IN  SubSeq(all, begin + 1, end)

\* The entries of `all` from offset on, at most limit of them: none when the
\* end of the page wraps around.
Page(all, offset, limit) ==
    LET begin == AtMost(offset, Len(all))
        end   == AtMost(Plus(begin, limit), Len(all))
    IN  SubSeq(all, begin + 1, end)

Wraps(total, offset, limit) == AtMost(offset, total) + limit > SizeMax

-----------------------------------------------------------------------------
(* Reports *)

\* Variant: superseded findings are not left out.
WantedSuperseded(targets, omitted) ==
    {f \in Present : /\ TargetOf[f] \in targets
                     /\ findings[f].state \notin omitted \ {"superseded"}}

\* CollectReportInputs: findings in the order of their identities, without
\* the states the request leaves out, up to the budget. Retired findings have
\* no flag.
Wanted(targets, omitted) ==
    {f \in Present : TargetOf[f] \in targets /\ findings[f].state \notin omitted}

Reported(targets, omitted) ==
    {f \in Wanted(targets, omitted) :
        Cardinality({g \in Wanted(targets, omitted) : g < f}) < Budget}

Truncated(targets, omitted) == Cardinality(Wanted(targets, omitted)) > Budget

\* BuildReportValue: a live finding whose class calls for an action.
Requests(targets, omitted) ==
    {f \in Reported(targets, omitted) \cap Actionable : findings[f].state \notin Closing}

-----------------------------------------------------------------------------
(* Changes of the ledger between pages. Every one of them appends entries to *)
(* the timeline; the oldest give way at the bound only where the code trims.  *)

Trimmed(entries) ==
    IF Len(entries) <= MaxTimeline THEN entries
    ELSE SubSeq(entries, Len(entries) - MaxTimeline + 1, Len(entries))

\* AppendTimeline: n more entries, each with the next sequence number.
Appended(n) == timeline \o [i \in 1..n |-> sequence + i]

\* A change between two pages of a reader that is reading; one that is done
\* goes away.
Interrupted(trims, reloads) ==
    walk' = IF walk.phase = "reading"
            THEN [walk EXCEPT !.changed = TRUE, !.trimmed = @ \/ trims,
                              !.reloaded = @ \/ reloads]
            ELSE NoWalk

\* n entries, and the trimming where the operation ends with it.
Record(n, trims) ==
    /\ changes < MaxChanges
    /\ changes' = changes + 1
    /\ sequence' = sequence + n
    /\ timeline' = IF trims THEN Trimmed(Appended(n)) ELSE Appended(n)
    /\ Interrupted(trims /\ Len(Appended(n)) > MaxTimeline, FALSE)

Change(f, finding, n, trims) ==
    /\ Record(n, trims)
    /\ findings' = [g \in Present \cup {f} |-> IF g = f THEN finding ELSE findings[g]]

(* ApplyEvaluation: what it does to one finding. It trims at its end; the      *)
(* entries of the findings before the last, and those of an evaluation that is *)
(* refused half way, stay untrimmed. A finding in another group than before    *)
(* has an entry as one with other evidence has.                                *)

\* A finding a policy rule covers is suppressed from the start.
Create(f, severity, now, state, trims) ==
    /\ f \notin Present
    /\ Change(f, [severity |-> severity, first |-> now, last |-> now, state |-> state], 1, trims)

\* An entry when the finding opens again, when its severity or its evidence
\* changed, and one more when the policy rule that suppressed it has lapsed.
Noted(f, severity, evidence, lapses) ==
    (IF findings[f].state \in Closing \/ severity # findings[f].severity \/ evidence THEN 1 ELSE 0)
        + (IF lapses THEN 1 ELSE 0)

\* Variant: a finding that opens again is new.
RedraftedAnew(f, severity, now, lapses) ==
    [findings[f] EXCEPT !.severity = severity, !.last = now,
                        !.first = IF findings[f].state \in Closing THEN now ELSE @,
                        !.state = IF @ \in Closing \/ (lapses /\ @ = "suppressed") THEN "open" ELSE @]

\* first_seen is kept.
Redrafted(f, severity, now, lapses) ==
    [findings[f] EXCEPT !.severity = severity, !.last = now,
                        !.state = IF @ \in Closing \/ (lapses /\ @ = "suppressed") THEN "open" ELSE @]

\* A draft refreshes a finding; a closed one opens again and keeps first_seen.
Redraft(f, severity, now, evidence, lapses, trims) ==
    /\ f \in Present
    /\ Change(f, Redrafted(f, severity, now, lapses), Noted(f, severity, evidence, lapses), trims)

\* A live finding that was not drafted: the location agrees with intent, or
\* another finding explains it.
Close(f, state, trims) ==
    /\ f \in Present
    /\ findings[f].state \notin Closing
    /\ Change(f, [findings[f] EXCEPT !.state = state], 1, trims)

(* The other operations; of these only RecordEvent trims. *)

CommitIntent ==
    /\ Record(1, FALSE)
    /\ UNCHANGED findings

\* CommitIntent again, and what it does to one finding: that of an earlier
\* generation is closed, and the new generation has an entry of its own.
RebaseFindingsForTarget(f, state) ==
    /\ f \in Present
    /\ findings[f].state \notin Closing
    /\ Change(f, [findings[f] EXCEPT !.state = state], 2, FALSE)

Suppress(f) ==
    /\ f \in Present
    /\ Change(f, [findings[f] EXCEPT !.state = IF @ \in Closing THEN @ ELSE "suppressed"], 1, FALSE)

\* ClearSuppression, or the suppression expired. Which findings have one on
\* record is not kept here.
ClearSuppression(f) ==
    /\ f \in Present
    /\ Change(f, [findings[f] EXCEPT !.state = IF @ = "suppressed" THEN "open" ELSE @], 1, FALSE)

\* Acknowledge and ClearAcknowledgement: a query tells open and acknowledged
\* findings apart only where it asks for one of the two.
Acknowledge(f) ==
    /\ f \in Present
    /\ Change(f, findings[f], 1, FALSE)

\* A change of the policy.
RecordEvent ==
    /\ Record(1, TRUE)
    /\ UNCHANGED findings

\* Load, DecodeState: the ledger in the file replaces the one there is.
Load(saved) ==
    /\ changes < MaxChanges
    /\ Loadable(saved)
    /\ changes' = changes + 1
    /\ findings' = saved.findings
    /\ timeline' = saved.timeline
    /\ sequence' \in Continued(saved)
    /\ Interrupted(FALSE, TRUE)

-----------------------------------------------------------------------------
(* The reader *)

BeginWalk(kind, spec) ==
    /\ walk.phase = "idle"
    /\ walk' = [phase |-> "reading", kind |-> kind, spec |-> spec,
                offset |-> 0, seen |-> <<>>, wrapped |-> FALSE, changed |-> FALSE,
                trimmed |-> FALSE, reloaded |-> FALSE,
                start |-> IF kind = "findings" THEN Present ELSE ToSet(timeline)]
    /\ UNCHANGED ledger

\* One more page of `all`, of whatever limit: the reader is done when nothing
\* came back or when what came back reaches the total.
Receive(all, limit) ==
    LET page   == Page(all, walk.offset, limit)
        offset == walk.offset + Len(page)
    IN  walk' = [walk EXCEPT
                    !.seen = @ \o page,
                    !.offset = offset,
                    !.wrapped = @ \/ Wraps(Len(all), walk.offset, limit),
                    !.phase = IF page = <<>> \/ offset >= Len(all) THEN "done" ELSE @]

ExecuteQuery(now) ==
    /\ walk.phase = "reading" /\ walk.kind = "findings"
    /\ \E all \in Sorted(Matched(walk.spec, now), walk.spec.order), limit \in Limits :
          Receive(all, limit)
    /\ UNCHANGED ledger

\* The timeline is in the order of its sequence numbers already.
ExecuteTimelineQuery ==
    /\ walk.phase = "reading" /\ walk.kind = "timeline"
    /\ \E limit \in Limits : Receive(timeline, limit)
    /\ UNCHANGED ledger

Evaluate(f, trims) ==
    \/ \E severity \in Severities, now \in Times, state \in {"open", "suppressed"} :
          Create(f, severity, now, state, trims)
    \/ \E severity \in Severities, now \in Times, evidence \in BOOLEAN, lapses \in BOOLEAN :
          Redraft(f, severity, now, evidence, lapses, trims)
    \/ \E state \in {"resolved", "superseded"} : Close(f, state, trims)

Next ==
    \/ \E f \in Ids, trims \in BOOLEAN : Evaluate(f, trims)
    \/ \E f \in Ids, state \in {"superseded", "retired"} : RebaseFindingsForTarget(f, state)
    \/ \E f \in Ids : Suppress(f) \/ ClearSuppression(f) \/ Acknowledge(f)
    \/ RecordEvent \/ CommitIntent
    \/ \E saved \in Saved : Load(saved)
    \/ \E spec \in Specs : BeginWalk("findings", spec)
    \/ BeginWalk("timeline", NoSpec)
    \/ \E now \in Times : ExecuteQuery(now)
    \/ ExecuteTimelineQuery

Spec == Init /\ [][Next]_vars

-----------------------------------------------------------------------------
(* Properties *)

Done(kind) == walk.phase = "done" /\ walk.kind = kind /\ ~walk.wrapped

\* Over a ledger that does not change and without an age filter, the pages of
\* a query are parts of its result, no finding twice, and put together they are
\* the whole of it: the order of every page agrees with that of the page before
\* (query.cpp: "Every order is total: identity breaks the remaining ties").  A
\* page whose end wraps around (query.cpp:221) may end the reading too early but
\* repeats nothing and shows nothing that does not match.
PagesAddUp ==
    /\ walk.phase # "idle" /\ walk.kind = "findings"
    /\ ~walk.changed
    /\ \A s \in Times, t \in Times : s - t >= walk.spec.minAge
    => \A now \in Times :
          /\ ToSet(walk.seen) \subseteq Matched(walk.spec, now)
          /\ IsInjective(walk.seen)
          /\ Done("findings") => ToSet(walk.seen) = Matched(walk.spec, now)

\* A reader that filters nothing out and orders by something that never
\* changes (identity, target, first sighting) is given every finding that was
\* there when it began, whatever evaluations, commits and operators do to the
\* ledger between pages: none of them erases a finding, and first_seen is kept
\* when one opens again. Only a file loaded between two pages, which replaces
\* the ledger as a whole (engine.cpp:609-642), may hide findings from it.
NothingMissed ==
    /\ Done("findings")
    /\ ~walk.reloaded
    /\ walk.spec.states = States
    /\ walk.spec.order \in {"identity-ascending", "target-ascending", "first-seen-ascending"}
    /\ walk.spec.minSeverity = 0
    /\ \A f \in Ids : TargetOf[f] \in walk.spec.targets
    /\ \A s \in Times, t \in Times : s - t >= walk.spec.minAge
    => walk.start \subseteq ToSet(walk.seen)

\* Unless old entries gave way while it was reading (ledger.cpp:1401-1408) or
\* a file was loaded (engine.cpp:609-642), a reader of the timeline is given
\* entries in the order in which they happened and once each, and at the end
\* every entry there was when it began, also where the timeline has grown
\* beyond its bound or a recovery left gaps in its numbers; again a page whose
\* end wraps around only stops it early.
TimelineComplete ==
    walk.phase # "idle" /\ walk.kind = "timeline" /\ ~walk.trimmed /\ ~walk.reloaded =>
        /\ ToSet(walk.seen) \subseteq ToSet(timeline)
        /\ \A i, j \in 1..Len(walk.seen) : i < j => walk.seen[i] < walk.seen[j]
        /\ Done("timeline") => walk.start \subseteq ToSet(walk.seen)

\* A report that is not truncated names the findings a query with the same
\* target and flags would, retired ones added, and asks for a reconciliation
\* of just the live ones among them (CollectReportInputs against Matches).
ReportAgreesWithQuery ==
    \A spec \in Specs, now \in Times :
        LET omitted == States \ (spec.states \cup {"retired"})
        IN  (/\ spec.minSeverity = 0
             /\ \A s \in Times, t \in Times : s - t >= spec.minAge
             /\ ~Truncated(spec.targets, omitted))
            => /\ Reported(spec.targets, omitted)
                     = Matched([spec EXCEPT !.states = @ \cup {"retired"}], now)
               /\ Requests(spec.targets, omitted)
                     \subseteq Matched([spec EXCEPT !.states = {"open", "suppressed"}], now)
=============================================================================
