-------------------------- MODULE FindingLifecycle --------------------------
(***************************************************************************)
(* What the finding ledger promises about the lifecycle of findings,       *)
(* without groups, suppressions, acknowledgements, envelopes and           *)
(* timelines.  FindingLedger implements it (ImplementsLifecycle).          *)
(*                                                                         *)
(* A finding is derived against one generation of its target's intent. It  *)
(* is live while drift is known there; it is closed by evidence that       *)
(* agrees with intent often enough, by another finding that explains its   *)
(* place, or by newer intent; and it comes back only when an evaluation    *)
(* against the committed generation sees it again.  A restart goes back to *)
(* the last saved state, with all confirmations still to be given.         *)
(***************************************************************************)
EXTENDS Naturals

CONSTANTS Targets,        \* targets
          Ids,            \* findings: records with a target, a loc and a gen
          Required        \* numbers of confirmations policies may require

VARIABLES
    committed,   \* the committed generation of every target, 0 for none
    standing,    \* known findings: live, or how they were closed
    confirmed,   \* evaluations that agreed with intent since the finding was seen
    saved        \* what a restart goes back to

state == <<committed, standing, confirmed>>
vars  == <<committed, standing, confirmed, saved>>

Known == DOMAIN standing

Init ==
    /\ committed = [t \in Targets |-> 0]
    /\ standing = [id \in {} |-> "live"]
    /\ confirmed = [id \in {} |-> 0]
    /\ saved = state

\* Newer intent closes what was derived against another generation; the first
\* intent of a target leaves what was found without any.
Commit(t) ==
    /\ committed'[t] \in Nat
    /\ committed'[t] > committed[t]
    /\ committed' = [committed EXCEPT ![t] = committed'[t]]
    /\ DOMAIN standing' = Known
    /\ \A id \in Known :
          IF /\ committed[t] # 0 /\ id.target = t /\ id.gen # committed'[t]
             /\ standing[id] = "live"
            THEN standing'[id] \in {"Superseded", "Retired"}
            ELSE standing'[id] = standing[id]
    /\ UNCHANGED <<confirmed, saved>>

-----------------------------------------------------------------------------
(* One evaluation, as it affects one finding *)

\* Drift is there: the finding is live, and no confirmation counts any more.
Seen(id) ==
    /\ id.gen = committed[id.target]
    /\ standing'[id] = "live"
    /\ confirmed'[id] = 0

Untouched(id) ==
    /\ id \in Known
    /\ standing'[id] = standing[id]
    /\ confirmed'[id] = confirmed[id]

\* Evidence agrees with intent once more, which is enough or not yet.
Confirmed(id, required) ==
    /\ id \in Known /\ standing[id] = "live"
    /\ confirmed'[id] = confirmed[id] + 1
    /\ standing'[id] = IF confirmed'[id] >= required THEN "Resolved" ELSE "live"

\* Another finding at the same place is seen instead.
Explained(id) ==
    /\ id \in Known /\ standing[id] = "live"
    /\ standing'[id] = "Superseded"
    /\ confirmed'[id] = confirmed[id]
    /\ \E other \in DOMAIN standing' \ {id} :
          other.target = id.target /\ other.loc = id.loc /\ other.gen = id.gen /\ Seen(other)

Evaluate(required) ==
    /\ Known \subseteq DOMAIN standing'
    /\ DOMAIN standing' \subseteq Ids
    /\ DOMAIN confirmed' = DOMAIN standing'
    /\ \A id \in DOMAIN standing' :
          Seen(id) \/ Untouched(id) \/ Confirmed(id, required) \/ Explained(id)
    /\ UNCHANGED <<committed, saved>>

-----------------------------------------------------------------------------

Save ==
    /\ saved' = <<committed, standing, [id \in Known |-> 0]>>
    /\ UNCHANGED state

Restart ==
    /\ state' = saved
    /\ UNCHANGED saved

Next ==
    \/ \E t \in Targets : Commit(t)
    \/ \E required \in Required : Evaluate(required)
    \/ Save
    \/ Restart

Spec == Init /\ [][Next]_vars

-----------------------------------------------------------------------------
\* What the lifecycle is for: a live finding is about the committed intent of
\* its target, or was found before there was any.
LiveIsCurrent ==
    \A id \in Known : standing[id] = "live" => id.gen \in {0, committed[id.target]}

=============================================================================
