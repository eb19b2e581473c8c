--------------------------- MODULE EvidenceWindow ---------------------------
(***************************************************************************)
(* The retained-observation window the ledger keeps for one                *)
(* (target, source) pair: FindingLedger::windows_ in src/src/ledger.cpp.   *)
(*                                                                         *)
(* A snapshot is abstracted to what admission looks at: the epoch and the  *)
(* incarnation it was collected under, the source's sequence number, and   *)
(* a model value for the rest.  Its content digest covers all of these, so *)
(* equal digests are equal snapshots.  The freshness verdict stored beside *)
(* it is abstracted to the flag `recovered', which is what makes a verdict *)
(* RecoveredNotFresh.  Windows of different pairs never touch each other,  *)
(* so one window stands for all of them.                                   *)
(***************************************************************************)
EXTENDS Naturals, SequencesExt

CONSTANTS
    MaxEpoch,        \* epochs are 1..MaxEpoch
    MaxIncarnation,  \* incarnations are 1..MaxIncarnation
    MaxSequence,     \* source sequence numbers are 1..MaxSequence
    Contents,        \* what else a source may report
    MaxRetained      \* RuntimeLimits::max_retained_snapshots_per_source

ASSUME BoundsAssumption ==
    /\ MaxEpoch \in Nat \ {0}
    /\ MaxIncarnation \in Nat \ {0}
    /\ MaxSequence \in Nat \ {0}
    /\ MaxRetained \in Nat \ {0}

VARIABLES
    window,     \* retained observations, oldest first
    stored,     \* the window as the last Save wrote it to the ledger file
    admission   \* the Status and ObservationAdmission of the last operation

vars == <<window, stored, admission>>

Snapshots == [epoch       : 1..MaxEpoch,
              incarnation : 1..MaxIncarnation,
              sequence    : 1..MaxSequence,
              content     : Contents]

Observations == [snapshot : Snapshots, recovered : BOOLEAN]

Statuses == {"Ok", "Duplicate", "StaleIncarnation", "StaleEpoch", "Conflict"}

Report(status, superseded) == [status |-> status, superseded |-> superseded]

(***************************************************************************)
(* The order of the window: (epoch, incarnation, sequence).                *)
(***************************************************************************)
Before(a, b) ==
    \/ a.epoch < b.epoch
    \/ a.epoch = b.epoch /\ a.incarnation < b.incarnation
    \/ a.epoch = b.epoch /\ a.incarnation = b.incarnation /\ a.sequence < b.sequence

\* Mutant: appends instead of searching for the insertion point.
IsLowerBoundAppend(w, s, p) == p = Len(w) + 1

\* std::lower_bound: p is the first position that does not sort before s.
IsLowerBound(w, s, p) ==
    /\ \A i \in 1..(p - 1) : Before(w[i].snapshot, s)
    /\ p <= Len(w) => ~Before(w[p].snapshot, s)

\* Mutant: an eviction that takes the newest record.
IsVictimNewest(w, v) == v = Len(w)

\* Mutant: an eviction that ignores which records are recovered.
IsVictimFront(w, v) == v = 1

\* The eviction victim: the oldest recovered record that is not the newest
\* record, and the front of the window when there is none.
IsVictim(w, v) ==
    LET recovered == {i \in 1..(Len(w) - 1) : w[i].recovered}
    IN  IF recovered = {}
          THEN v = 1
          ELSE v \in recovered /\ \A i \in recovered : v <= i

\* The file initially holds an empty ledger: a window of no records.
Init ==
    /\ window = <<>>
    /\ stored = <<>>
    /\ admission = Report("Ok", FALSE)

-----------------------------------------------------------------------------
\* Mutant: a sequence number seen again is refused only as an exact
\* duplicate, so a conflicting reading under it is admitted.
AdmissionConflicting(s) ==
    IF window = <<>> THEN Report("Ok", FALSE)
    ELSE LET newest == Last(window).snapshot IN
         CASE s.incarnation < newest.incarnation -> Report("StaleIncarnation", FALSE)
           [] s.incarnation >= newest.incarnation /\ s.epoch < newest.epoch
                -> Report("StaleEpoch", FALSE)
           [] s = newest -> Report("Duplicate", FALSE)
           [] OTHER -> Report("Ok", s.sequence < newest.sequence)

(***************************************************************************)
(* RecordObservation.  A refusal and an exact duplicate of the newest      *)
(* record leave the window alone; anything else is inserted in order, and  *)
(* an overfull window then loses one record.                               *)
(***************************************************************************)
Admission(s) ==
    IF window = <<>> THEN Report("Ok", FALSE)
    ELSE LET newest == Last(window).snapshot IN
         CASE s.incarnation < newest.incarnation -> Report("StaleIncarnation", FALSE)
           [] s.incarnation >= newest.incarnation /\ s.epoch < newest.epoch
                -> Report("StaleEpoch", FALSE)
           [] /\ s.incarnation = newest.incarnation /\ s.epoch >= newest.epoch
              /\ s.sequence = newest.sequence
                -> Report(IF s = newest THEN "Duplicate" ELSE "Conflict", FALSE)
           [] OTHER -> Report("Ok", s.sequence < newest.sequence)

Evict(w) ==
    IF Len(w) <= MaxRetained
      THEN window' = w
      ELSE \E v \in 1..Len(w) : IsVictim(w, v) /\ window' = RemoveAt(w, v)

Insert(s) ==
    \E p \in 1..(Len(window) + 1) :
        /\ IsLowerBound(window, s, p)
        /\ Evict(InsertAt(window, p, [snapshot |-> s, recovered |-> FALSE]))

RecordObservation(s) ==
    /\ admission' = Admission(s)
    /\ IF admission'.status = "Ok" THEN Insert(s) ELSE window' = window
    /\ UNCHANGED stored

(***************************************************************************)
(* InvalidateRetainedEvidence: every retained record stops being current   *)
(* (the observatory rotates its incarnation, or has just recovered).       *)
(***************************************************************************)
Recovered(w) == [i \in 1..Len(w) |-> [w[i] EXCEPT !.recovered = TRUE]]

InvalidateRetainedEvidence ==
    /\ window' = Recovered(window)
    /\ UNCHANGED <<stored, admission>>

(***************************************************************************)
(* The ledger file: Save writes the window in order.  Load decodes the     *)
(* whole file into a fresh ledger, record by record through                *)
(* RestoreObservation, and then replaces the live one, so the window a     *)
(* restart comes back with may be older than the one it lost.  A decoded   *)
(* window never exceeds MaxRetained, so RestoreObservation drops nothing.  *)
(***************************************************************************)
Save ==
    /\ stored' = window
    /\ UNCHANGED <<window, admission>>

Load ==
    /\ window' = Recovered(stored)
    /\ UNCHANGED <<stored, admission>>

Next ==
    \/ \E s \in Snapshots : RecordObservation(s)
    \/ InvalidateRetainedEvidence
    \/ Save
    \/ Load

Spec == Init /\ [][Next]_vars

-----------------------------------------------------------------------------
\* Type of the state; the window never exceeds the envelope's bound for one
\* source (RuntimeLimits::max_retained_snapshots_per_source).
TypeOK ==
    /\ window \in Seq(Observations) /\ Len(window) <= MaxRetained
    /\ stored \in Seq(Observations) /\ Len(stored) <= MaxRetained
    /\ admission \in [status : Statuses, superseded : BOOLEAN]

Ordered(w) ==
    \A i, j \in 1..Len(w) : i < j =>
        /\ ~Before(w[j].snapshot, w[i].snapshot)
        /\ w[i].snapshot.epoch <= w[j].snapshot.epoch
        /\ w[i].snapshot.incarnation <= w[j].snapshot.incarnation

NewestUnique(w) ==
    \A i \in 1..Len(w) : i < Len(w) => Before(w[i].snapshot, w[Len(w)].snapshot)

\* Whatever arrives in whatever order, across evictions and restarts, the
\* window stays sorted and neither epoch nor incarnation ever runs backwards
\* along it: the fence in RecordObservation looks only at the newest record,
\* and the binary search in it needs the order.
WindowOrdered == Ordered(window)

\* The newest record is newest strictly: no retained record shares its
\* (epoch, incarnation, sequence).  CompareTarget picks the claim of a source
\* with an unstable sort on that key, so a tie would make the claim a source
\* is compared by depend on the sort.
NewestIsUnique == NewestUnique(window)

\* The source's current claim only moves forward until a Load, even when an
\* admission evicts, and what arrives late or twice is kept as evidence at most:
\* a delivery that changes the newest record in any way sorts after it.  In
\* particular a repeat of a recovered record does not make it live ("never
\* supersedes the newest observation for its source", ledger.cpp:352-353; a
\* repeat of an older record is stored again).
NewestNeverRegresses ==
    [][ window # <<>> =>
          /\ window' # Recovered(stored) =>
               window' # <<>> /\ ~Before(Last(window').snapshot, Last(window).snapshot)
          /\ (window' = <<>> \/ Last(window') # Last(window)) =>
               \A s \in Snapshots : RecordObservation(s) => Before(Last(window).snapshot, s) ]_vars

Snaps(w) == {w[i].snapshot : i \in 1..Len(w)}
Live(w) == {w[i].snapshot : i \in {j \in 1..Len(w) : ~w[j].recovered}}

\* Evidence that survived a restart is the first to go: admitting an
\* observation drops a live record only when no recovered record other than
\* the newest one is retained.
LiveOutlastsRecovered ==
    [][ (window' # Recovered(stored) /\ Live(window) \ Snaps(window') # {}) =>
          \A i \in 1..(Len(window') - 1) : ~window'[i].recovered ]_vars
=============================================================================
