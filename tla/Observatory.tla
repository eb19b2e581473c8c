---------------------------- MODULE Observatory ----------------------------
(***************************************************************************)
(* The runtime around the ledger (src/src/engine.cpp): lifecycle flags,    *)
(* authority, policy, and evaluations, which copy their input under the    *)
(* mutex, compare the targets without it on a pool of workers, and take it *)
(* again to decide whether the outcome may be published.                   *)
(*                                                                         *)
(* One action is one critical section, or one look of a worker at the      *)
(* atomic flags.  Of the ledger this module keeps the committed intent per *)
(* target, which is what ApplyEvaluation fences on; what an accepted       *)
(* outcome then does to the findings is FindingLedger, and what a rotation *)
(* or a recovery does to retained evidence is EvidenceWindow.              *)
(***************************************************************************)
EXTENDS Naturals, FiniteSets

CONSTANTS
    Threads,         \* threads that call EvaluateAt
    Targets,         \* targets of the ledger
    Policies,        \* installable policies; the digest of a policy is the policy
    Contents,        \* contents of intent documents
    MaxGeneration,   \* intent generations are 1..MaxGeneration
    MaxIncarnation,  \* incarnations are 1..MaxIncarnation
    MaxEpoch,        \* epochs are 1..MaxEpoch
    Recovery,        \* whether ledgers are saved and loaded at run time
    NoContent        \* content of the absent document

ASSUME ObservatoryAssumption ==
    /\ MaxGeneration \in Nat /\ MaxIncarnation \in Nat \ {0} /\ MaxEpoch \in Nat \ {0}
    /\ IsFiniteSet(Threads) /\ Recovery \in BOOLEAN /\ NoContent \notin Contents
    /\ Policies # {}

VARIABLES
    started, stopping, cancelled,  \* started_, stopping_, cancelled_
    authority,   \* config_.epoch and config_.incarnation
    policy,      \* config_.policy
    baselines,   \* the committed intent of every target of ledger_
    stored,      \* the ledger file
    decoded,     \* the ledgers Load decoded and has not yet installed: one or none
    active,      \* active_evaluations_
    evals,       \* the evaluation each thread is in
    stopper,     \* whether a call of Stop is waiting on idle_cv_
    outcome      \* what the last evaluation to finish returned and wrote

flags == <<started, stopping, cancelled>>
vars == <<started, stopping, cancelled, authority, policy, baselines, stored,
          decoded, active, evals, stopper, outcome>>

NoIntent == [gen |-> 0, content |-> NoContent]
Documents == [gen : 1..MaxGeneration, content : Contents]
Authorities == [epoch : 1..MaxEpoch, incarnation : 1..MaxIncarnation]

(***************************************************************************)
(* An evaluation in flight: the copied input, the targets still to be      *)
(* compared and the ones a worker skipped.  seen is a history variable:    *)
(* what happened to the observatory since the input was copied.            *)
(***************************************************************************)
Events == {"Stop", "Cancel", "Rotate", "Rearm", "Load"}

Idle(p) == [pc |-> "idle", apply |-> FALSE, authority |-> [epoch |-> 1, incarnation |-> 1],
            digest |-> p, policy |-> p, against |-> [t \in Targets |-> NoIntent],
            pending |-> {}, skipped |-> {}, seen |-> {}]

NoEvaluation == Idle(CHOOSE p \in Policies : TRUE)

Running(th) == evals[th].pc # "idle"

\* evals after an event every evaluation in flight has seen.
Witnessed(event) ==
    [th \in Threads |-> IF Running(th) THEN [evals[th] EXCEPT !.seen = @ \cup {event}]
                                       ELSE evals[th]]

\* The file initially holds an empty ledger.
Init ==
    /\ started = FALSE /\ stopping = FALSE /\ cancelled = FALSE
    /\ authority = [epoch |-> 1, incarnation |-> 1]
    /\ policy \in Policies
    /\ baselines = [t \in Targets |-> NoIntent]
    /\ stored = [t \in Targets |-> NoIntent]
    /\ decoded = {}
    /\ active = 0
    /\ evals = [th \in Threads |-> NoEvaluation]
    /\ stopper = "idle"
    /\ outcome = [status |-> "Ok", written |-> {}]

-----------------------------------------------------------------------------
(***************************************************************************)
(* Lifecycle.                                                              *)
(***************************************************************************)
Start ==
    /\ ~started
    /\ started' = TRUE /\ stopping' = FALSE /\ cancelled' = FALSE
    /\ evals' = Witnessed("Rearm")
    /\ UNCHANGED <<authority, policy, baselines, stored, decoded, active, stopper, outcome>>

\* Stop up to the wait, which releases the mutex.
Stop ==
    /\ stopper = "idle"
    /\ started' = FALSE /\ stopping' = TRUE
    /\ stopper' = "waiting"
    /\ evals' = Witnessed("Stop")
    /\ UNCHANGED <<cancelled, authority, policy, baselines, stored, decoded, active, outcome>>

\* The wait ends with the mutex held and no evaluation active.
StopReturn ==
    /\ stopper = "waiting"
    /\ active = 0
    /\ stopper' = "idle"
    /\ UNCHANGED <<flags, authority, policy, baselines, stored, decoded, active, evals, outcome>>

\* Mutant: a rotation to the current incarnation is let through.
MayRotateWeak(next) ==
    next.incarnation >= authority.incarnation /\ next.epoch >= authority.epoch

MayRotate(next) ==
    next.incarnation > authority.incarnation /\ next.epoch >= authority.epoch

RotateIncarnation(next) ==
    /\ MayRotate(next)
    /\ authority' = next
    /\ evals' = Witnessed("Rotate")
    /\ UNCHANGED <<flags, policy, baselines, stored, decoded, active, stopper, outcome>>

RequestCancellation ==
    /\ cancelled' = TRUE
    /\ evals' = Witnessed("Cancel")
    /\ UNCHANGED <<started, stopping, authority, policy, baselines, stored, decoded, active, stopper, outcome>>

ClearCancellation ==
    /\ cancelled' = FALSE
    /\ evals' = Witnessed("Rearm")
    /\ UNCHANGED <<started, stopping, authority, policy, baselines, stored, decoded, active, stopper, outcome>>

SetPolicy(p) ==
    /\ policy' = p
    /\ UNCHANGED <<flags, authority, baselines, stored, decoded, active, evals, stopper, outcome>>

(***************************************************************************)
(* PublishIntent: refused unless started and authored under the current    *)
(* epoch; CommitIntent then accepts only an advance of the generation.     *)
(***************************************************************************)
PublishIntent(t, doc) ==
    /\ started
    /\ doc.gen > baselines[t].gen
    /\ baselines' = [baselines EXCEPT ![t] = doc]
    /\ UNCHANGED <<flags, authority, policy, stored, decoded, active, evals, stopper, outcome>>

\* Save writes the ledger to the file.
Save ==
    /\ Recovery
    /\ stored' = baselines
    /\ UNCHANGED <<flags, authority, policy, baselines, decoded, active, evals, stopper, outcome>>

\* Load decodes the file before it takes the mutex ...
LoadLedgerFile ==
    /\ Recovery
    /\ decoded = {}
    /\ decoded' = {stored}
    /\ UNCHANGED <<flags, authority, policy, baselines, stored, active, evals, stopper, outcome>>

\* ... and then replaces the ledger, whatever evaluations are in flight.
Load ==
    /\ \E l \in decoded : baselines' = l
    /\ decoded' = {}
    /\ evals' = Witnessed("Load")
    /\ UNCHANGED <<flags, authority, policy, stored, active, stopper, outcome>>

-----------------------------------------------------------------------------
(***************************************************************************)
(* Evaluation.                                                             *)
(***************************************************************************)

\* Mutant: the evaluation is not counted as active.
AdmitUncounted == active' = active

Admit == active' = active + 1

\* EvaluateAt up to the end of its critical section.
EvaluateAt(th, apply) ==
    /\ ~Running(th)
    /\ started /\ ~cancelled
    /\ Admit
    /\ evals' = [evals EXCEPT ![th] =
                    [pc |-> "captured", apply |-> apply, authority |-> authority,
                     digest |-> policy, policy |-> policy, against |-> baselines,
                     pending |-> Targets, skipped |-> {}, seen |-> {}]]
    /\ UNCHANGED <<flags, authority, policy, baselines, stored, decoded, stopper, outcome>>

\* EvaluateInternal copies the policy in a critical section of its own.
ReadPolicy(th) ==
    /\ evals[th].pc = "captured"
    /\ evals' = [evals EXCEPT ![th].pc = "comparing", ![th].policy = policy]
    /\ UNCHANGED <<flags, authority, policy, baselines, stored, decoded, active, stopper, outcome>>

\* A worker reaches target t: it looks at the flags and compares or gives up.
EvaluateTarget(th, t) ==
    /\ evals[th].pc = "comparing"
    /\ t \in evals[th].pending
    /\ evals' = [evals EXCEPT ![th].pending = @ \ {t},
                              ![th].skipped = IF cancelled \/ stopping THEN @ \cup {t} ELSE @]
    /\ UNCHANGED <<flags, authority, policy, baselines, stored, decoded, active, stopper, outcome>>

\* Mutant: only cancellation is looked at again before publication.
VerdictUnstopped(e) ==
    IF cancelled THEN "Cancelled"
    ELSE IF e.authority # authority THEN "Stale"
    ELSE "Ok"

\* Whether the outcome of evaluation e may be published.
Verdict(e) ==
    IF cancelled \/ stopping \/ ~started THEN "Cancelled"
    ELSE IF e.authority # authority THEN "Stale"
    ELSE "Ok"

\* Mutant: a target without a fence.
AcceptedUnfenced(e) == Targets \ e.skipped

\* The targets ApplyEvaluation accepts.  A target that was skipped has an empty
\* evaluation in the outcome, which names no target and changes nothing.
Accepted(e) == {t \in Targets \ e.skipped : e.against[t].gen = baselines[t].gen}

\* Mutant: a refused evaluation is not counted down.
RetireUnlessRefused(e) == active' = IF Verdict(e) = "Ok" THEN active - 1 ELSE active

Retire(e) == active' = active - 1

\* EvaluateInternal once every worker was joined.
Publish(th) ==
    LET e == evals[th] IN
    /\ e.pc = "comparing" /\ e.pending = {}
    /\ Retire(e)
    /\ outcome' = [status  |-> Verdict(e),
                   written |-> IF Verdict(e) = "Ok" /\ e.apply THEN Accepted(e) ELSE {}]
    /\ evals' = [evals EXCEPT ![th] = NoEvaluation]
    /\ UNCHANGED <<flags, authority, policy, baselines, stored, decoded, stopper>>

Evaluating(th) ==
    \/ ReadPolicy(th)
    \/ \E t \in Targets : EvaluateTarget(th, t)
    \/ Publish(th)

Next ==
    \/ Start \/ Stop \/ StopReturn
    \/ \E next \in Authorities : RotateIncarnation(next)
    \/ RequestCancellation \/ ClearCancellation
    \/ \E p \in Policies : SetPolicy(p)
    \/ \E t \in Targets, doc \in Documents : PublishIntent(t, doc)
    \/ Save \/ LoadLedgerFile \/ Load
    \/ \E th \in Threads, apply \in BOOLEAN : EvaluateAt(th, apply)
    \/ \E th \in Threads : Evaluating(th)

\* A thread inside EvaluateAt runs on (its workers take no lock, and the mutex
\* is never held across a wait), and a waiting Stop is woken by notify_all.
Fairness == WF_vars(StopReturn) /\ \A th \in Threads : WF_vars(Evaluating(th))

Spec == Init /\ [][Next]_vars /\ Fairness

-----------------------------------------------------------------------------
Evaluations ==
    [pc : {"idle", "captured", "comparing"}, apply : BOOLEAN, authority : Authorities,
     digest : Policies, policy : Policies, against : [Targets -> Documents \cup {NoIntent}],
     pending : SUBSET Targets, skipped : SUBSET Targets, seen : SUBSET Events]

\* Type of the state.
TypeOK ==
    /\ started \in BOOLEAN /\ stopping \in BOOLEAN /\ cancelled \in BOOLEAN
    /\ authority \in Authorities
    /\ policy \in Policies
    /\ baselines \in [Targets -> Documents \cup {NoIntent}]
    /\ stored \in [Targets -> Documents \cup {NoIntent}]
    /\ decoded \subseteq [Targets -> Documents \cup {NoIntent}]
    /\ active \in Nat
    /\ evals \in [Threads -> Evaluations]
    /\ stopper \in {"idle", "waiting"}
    /\ outcome \in [status : {"Ok", "Cancelled", "Stale"}, written : SUBSET Targets]

\* active_evaluations_ counts the evaluations in flight: every way out of an
\* evaluation, refused ones included, counts it down exactly once.
ActiveCountsRunning == active = Cardinality({th \in Threads : Running(th)})

Finishes(th) == Running(th) /\ evals'[th].pc = "idle"

\* When Stop returns, no evaluation it overtook is still running, even if the
\* observatory was started again meanwhile: the caller may destroy what an
\* evaluation uses.
StopDrains ==
    [][(stopper = "waiting" /\ stopper' = "idle") =>
          \A th \in Threads : "Stop" \notin evals[th].seen]_vars

\* An evaluation during which the incarnation was rotated writes nothing: its
\* freshness verdicts were given under an authority that is gone.  Comparing
\* the captured authority with the current one suffices because a rotation
\* never comes back to an authority that was current before.
RotatedWritesNothing ==
    [][\A th \in Threads :
         (Finishes(th) /\ outcome'.written # {}) => "Rotate" \notin evals[th].seen]_vars

\* An outcome from which a worker left out targets is reported as a success
\* only if cancellation was cleared or the observatory started again before
\* publication: the workers and the publisher look at the flags at different
\* times.
PartialNotPublished ==
    [][\A th \in Threads :
         (Finishes(th) /\ outcome'.status = "Ok" /\ evals[th].skipped # {})
             => "Rearm" \in evals[th].seen]_vars

\* Unless a ledger was loaded while it ran, what an evaluation writes was
\* compared with the very document that is committed at that moment, although
\* ApplyEvaluation compares only generations.
StaleOnlyAfterLoad ==
    [][\A th \in Threads : (Finishes(th) /\ "Load" \notin evals[th].seen) =>
         \A t \in outcome'.written : evals[th].against[t] = baselines[t]]_vars

\* A call of Stop returns, unless somebody starts the observatory again while
\* it waits: the evaluations in flight finish and no new one is admitted.
StopReturns == (stopper = "waiting") ~> (stopper = "idle" \/ started)

\* An evaluation after SetPolicy "uses the new policy and records its digest"
\* (engine.hpp:169-170): the digest findings record is the digest of the policy
\* they were classified by.
DigestNamesPolicy ==
    [][\A th \in Threads :
         (Finishes(th) /\ outcome'.written # {}) => evals[th].digest = evals[th].policy]_vars
=============================================================================
