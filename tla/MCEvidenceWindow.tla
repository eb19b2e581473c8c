-------------------------- MODULE MCEvidenceWindow --------------------------
(***************************************************************************)
(* EvidenceWindow for TLC.  Two epochs, two incarnations and three         *)
(* sequence numbers give every combination of older, equal and newer keys; *)
(* a window of two records is overfull at three, so an eviction can choose *)
(* between the front and a recovered record behind it.                     *)
(***************************************************************************)
EXTENDS EvidenceWindow, TLC

Symmetry == Permutations(Contents)
=============================================================================
