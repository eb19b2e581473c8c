--------------------------- MODULE MCFindingLedger ---------------------------
(***************************************************************************)
(* FindingLedger for TLC.  Nothing but the timelines depends on the        *)
(* timeline lengths, and nothing at all on the status and the revision     *)
(* flag, so runs about the other properties identify states that differ    *)
(* only in these (LedgerView).                                             *)
(***************************************************************************)
EXTENDS FindingLedger, TLC

LedgerView == <<baselines, findings, groups, suppressions, file>>

Symmetry == Permutations(Locations) \cup Permutations(Qualifiers)

NoPolicy == {[l \in {} |-> 0]}

\* Either nothing is suppressed by policy, or every location is, until time 1.
SuppressUntilOne == NoPolicy \cup {[l \in Locations |-> 1]}
=============================================================================
