------------------------- MODULE Observatory_proofs -------------------------
(***************************************************************************)
(* The safety properties of the runtime, for any number of threads,        *)
(* targets, policies, documents, generations and incarnations.             *)
(*                                                                         *)
(* The properties speak about the step that ends an evaluation.  What they *)
(* need to know at that step is an invariant of the evaluations in flight: *)
(* how the captured authority and baselines relate to the current ones,    *)
(* and what a skipped target says about the flags.                         *)
(***************************************************************************)
EXTENDS Observatory, FiniteSetTheorems, TLAPS

\* A thread outside EvaluateAt carries nothing over.
IdleIsEmpty == \A th \in Threads : ~Running(th) => evals[th] = NoEvaluation

\* A rotation an evaluation has seen is a later incarnation than its own.
RotationShows ==
    \A th \in Threads : Running(th) =>
        /\ evals[th].authority.incarnation <= authority.incarnation
        /\ "Rotate" \in evals[th].seen =>
              evals[th].authority.incarnation < authority.incarnation

\* Without a Load, an unchanged generation is an unchanged document.
GenerationNamesDocument ==
    \A th \in Threads : (Running(th) /\ "Load" \notin evals[th].seen) =>
        \A t \in Targets : \/ evals[th].against[t].gen < baselines[t].gen
                           \/ evals[th].against[t] = baselines[t]

\* The flag that made a worker skip a target is still up until somebody resets
\* it.
SkipShows ==
    \A th \in Threads :
        (Running(th) /\ evals[th].skipped # {} /\ "Rearm" \notin evals[th].seen)
            => cancelled \/ stopping

IInv == TypeOK /\ IdleIsEmpty /\ ActiveCountsRunning
            /\ RotationShows /\ GenerationNamesDocument /\ SkipShows

-----------------------------------------------------------------------------
\* The thread that is not evaluating holds a well-typed empty record.
LEMMA NoEvaluationType == NoEvaluation \in Evaluations /\ NoEvaluation.pc = "idle"
<1>1. PICK p \in Policies : NoEvaluation = Idle(p)
  BY ObservatoryAssumption DEF NoEvaluation
<1>2. [epoch |-> 1, incarnation |-> 1] \in Authorities
  BY ObservatoryAssumption DEF Authorities
<1>3. [t \in Targets |-> NoIntent] \in [Targets -> Documents \cup {NoIntent}]
  OBVIOUS
<1> QED
  BY <1>1, <1>2, <1>3 DEF Idle, Evaluations

\* What an event changes about the evaluations in flight.
WitnessedFacts(event) ==
    /\ evals' \in [Threads -> Evaluations]
    /\ \A th \in Threads :
         /\ Running(th)' <=> Running(th)
         /\ ~Running(th) => evals'[th] = evals[th]
         /\ Running(th) =>
              /\ evals'[th].seen = evals[th].seen \cup {event}
              /\ evals'[th].authority = evals[th].authority
              /\ evals'[th].against = evals[th].against
              /\ evals'[th].skipped = evals[th].skipped

\* An event only adds to what the evaluations in flight have seen.
LEMMA WitnessedEvals ==
    ASSUME NEW event \in Events, evals \in [Threads -> Evaluations],
           evals' = Witnessed(event)
    PROVE  WitnessedFacts(event)
<1>1. ASSUME NEW th \in Threads, Running(th)
      PROVE  /\ evals'[th] \in Evaluations
             /\ evals'[th].pc = evals[th].pc
             /\ evals'[th].seen = evals[th].seen \cup {event}
             /\ evals'[th].authority = evals[th].authority
             /\ evals'[th].against = evals[th].against
             /\ evals'[th].skipped = evals[th].skipped
  <2>1. evals[th] \in Evaluations
    OBVIOUS
  <2>2. evals'[th] = [evals[th] EXCEPT !.seen = @ \cup {event}]
    BY <1>1 DEF Witnessed
  <2> QED
    BY <2>1, <2>2 DEF Evaluations
<1>2. ASSUME NEW th \in Threads, ~Running(th)
      PROVE  evals'[th] = evals[th]
  BY <1>2 DEF Witnessed
<1>3. evals' \in [Threads -> Evaluations]
  BY <1>1, <1>2 DEF Witnessed
<1> QED
  BY <1>1, <1>2, <1>3 DEF Running, WitnessedFacts

\* The number of evaluations in flight follows one thread entering or leaving.
LEMMA RunningCount ==
    ASSUME NEW R, NEW th \in Threads, R \subseteq Threads
    PROVE  /\ Cardinality(R) \in Nat
           /\ th \notin R => Cardinality(R \cup {th}) = Cardinality(R) + 1
           /\ th \in R => Cardinality(R \ {th}) = Cardinality(R) - 1
<1>1. IsFiniteSet(R)
  BY ObservatoryAssumption, FS_Subset
<1> QED
  BY <1>1, FS_CardinalityType, FS_AddElement, FS_RemoveElement

-----------------------------------------------------------------------------
\* Every step of the runtime keeps the invariant of the evaluations in flight.
LEMMA InductiveStep == IInv /\ [Next]_vars => IInv'
<1> SUFFICES ASSUME IInv, [Next]_vars
             PROVE  IInv'
  OBVIOUS
<1> USE DEF IInv
<1>1. CASE Start
  <2> USE <1>1 DEF Start
  <2>1. evals' = Witnessed("Rearm") /\ "Rearm" \in Events
    BY DEF Events
  <2>2. WitnessedFacts("Rearm")
    BY <2>1, WitnessedEvals DEF TypeOK
  <2>3. TypeOK'
    BY <2>2, ObservatoryAssumption DEF TypeOK, WitnessedFacts, flags
  <2>4. IdleIsEmpty' /\ ActiveCountsRunning'
    BY <2>2 DEF IdleIsEmpty, ActiveCountsRunning, WitnessedFacts
  <2>5. RotationShows'
    BY <2>2 DEF TypeOK, RotationShows, WitnessedFacts, Authorities, Evaluations
  <2>6. GenerationNamesDocument'
    BY <2>2 DEF GenerationNamesDocument, WitnessedFacts
  <2>7. SkipShows'
    BY <2>2 DEF SkipShows, WitnessedFacts, flags
  <2> QED
    BY <2>3, <2>4, <2>5, <2>6, <2>7
<1>2. CASE Stop
  <2> USE <1>2 DEF Stop
  <2>1. evals' = Witnessed("Stop") /\ "Stop" \in Events
    BY DEF Events
  <2>2. WitnessedFacts("Stop")
    BY <2>1, WitnessedEvals DEF TypeOK
  <2>3. TypeOK'
    BY <2>2, ObservatoryAssumption DEF TypeOK, WitnessedFacts, flags
  <2>4. IdleIsEmpty' /\ ActiveCountsRunning'
    BY <2>2 DEF IdleIsEmpty, ActiveCountsRunning, WitnessedFacts
  <2>5. RotationShows'
    BY <2>2 DEF TypeOK, RotationShows, WitnessedFacts, Authorities, Evaluations
  <2>6. GenerationNamesDocument'
    BY <2>2 DEF GenerationNamesDocument, WitnessedFacts
  <2>7. SkipShows'
    BY <2>2 DEF SkipShows, WitnessedFacts, flags
  <2> QED
    BY <2>3, <2>4, <2>5, <2>6, <2>7
<1>3. CASE \E next \in Authorities : RotateIncarnation(next)
  <2> USE <1>3 DEF RotateIncarnation
  <2>1. evals' = Witnessed("Rotate") /\ "Rotate" \in Events
    BY DEF Events
  <2>2. WitnessedFacts("Rotate")
    BY <2>1, WitnessedEvals DEF TypeOK
  <2>3. TypeOK'
    BY <2>2, ObservatoryAssumption DEF TypeOK, WitnessedFacts, flags
  <2>4. IdleIsEmpty' /\ ActiveCountsRunning'
    BY <2>2 DEF IdleIsEmpty, ActiveCountsRunning, WitnessedFacts
  <2>5. RotationShows'
    BY <2>2 DEF TypeOK, RotationShows, WitnessedFacts, Authorities, Evaluations, MayRotate
  <2>6. GenerationNamesDocument'
    BY <2>2 DEF GenerationNamesDocument, WitnessedFacts
  <2>7. SkipShows'
    BY <2>2 DEF SkipShows, WitnessedFacts, flags
  <2> QED
    BY <2>3, <2>4, <2>5, <2>6, <2>7
<1>4. CASE RequestCancellation
  <2> USE <1>4 DEF RequestCancellation
  <2>1. evals' = Witnessed("Cancel") /\ "Cancel" \in Events
    BY DEF Events
  <2>2. WitnessedFacts("Cancel")
    BY <2>1, WitnessedEvals DEF TypeOK
  <2>3. TypeOK'
    BY <2>2, ObservatoryAssumption DEF TypeOK, WitnessedFacts, flags
  <2>4. IdleIsEmpty' /\ ActiveCountsRunning'
    BY <2>2 DEF IdleIsEmpty, ActiveCountsRunning, WitnessedFacts
  <2>5. RotationShows'
    BY <2>2 DEF TypeOK, RotationShows, WitnessedFacts, Authorities, Evaluations
  <2>6. GenerationNamesDocument'
    BY <2>2 DEF GenerationNamesDocument, WitnessedFacts
  <2>7. SkipShows'
    BY <2>2 DEF SkipShows, WitnessedFacts, flags
  <2> QED
    BY <2>3, <2>4, <2>5, <2>6, <2>7
<1>5. CASE ClearCancellation
  <2> USE <1>5 DEF ClearCancellation
  <2>1. evals' = Witnessed("Rearm") /\ "Rearm" \in Events
    BY DEF Events
  <2>2. WitnessedFacts("Rearm")
    BY <2>1, WitnessedEvals DEF TypeOK
  <2>3. TypeOK'
    BY <2>2, ObservatoryAssumption DEF TypeOK, WitnessedFacts, flags
  <2>4. IdleIsEmpty' /\ ActiveCountsRunning'
    BY <2>2 DEF IdleIsEmpty, ActiveCountsRunning, WitnessedFacts
  <2>5. RotationShows'
    BY <2>2 DEF TypeOK, RotationShows, WitnessedFacts, Authorities, Evaluations
  <2>6. GenerationNamesDocument'
    BY <2>2 DEF GenerationNamesDocument, WitnessedFacts
  <2>7. SkipShows'
    BY <2>2 DEF SkipShows, WitnessedFacts, flags
  <2> QED
    BY <2>3, <2>4, <2>5, <2>6, <2>7
<1>6. CASE Load
  <2> USE <1>6 DEF Load
  <2>1. evals' = Witnessed("Load") /\ "Load" \in Events
    BY DEF Events
  <2>2. WitnessedFacts("Load")
    BY <2>1, WitnessedEvals DEF TypeOK
  <2>3. TypeOK'
    BY <2>2, ObservatoryAssumption DEF TypeOK, WitnessedFacts, flags
  <2>4. IdleIsEmpty' /\ ActiveCountsRunning'
    BY <2>2 DEF IdleIsEmpty, ActiveCountsRunning, WitnessedFacts
  <2>5. RotationShows'
    BY <2>2 DEF TypeOK, RotationShows, WitnessedFacts, Authorities, Evaluations
  <2>6. GenerationNamesDocument'
    BY <2>2 DEF GenerationNamesDocument, WitnessedFacts
  <2>7. SkipShows'
    BY <2>2 DEF SkipShows, WitnessedFacts, flags
  <2> QED
    BY <2>3, <2>4, <2>5, <2>6, <2>7
<1>7. CASE StopReturn
  <2> USE <1>7 DEF StopReturn, flags
  <2>1. TypeOK'
    BY ObservatoryAssumption DEF TypeOK
  <2>2. UNCHANGED evals /\ (\A th \in Threads : Running(th)' <=> Running(th))
    BY DEF Running
  <2>3. IdleIsEmpty' /\ ActiveCountsRunning'
    BY <2>2 DEF IdleIsEmpty, ActiveCountsRunning
  <2>4. RotationShows' /\ SkipShows'
    BY <2>2 DEF RotationShows, SkipShows
  <2>5. GenerationNamesDocument'
    BY <2>2 DEF GenerationNamesDocument
  <2> QED
    BY <2>1, <2>3, <2>4, <2>5
<1>8. CASE \E p \in Policies : SetPolicy(p)
  <2> USE <1>8 DEF SetPolicy, flags
  <2>1. TypeOK'
    BY ObservatoryAssumption DEF TypeOK
  <2>2. UNCHANGED evals /\ (\A th \in Threads : Running(th)' <=> Running(th))
    BY DEF Running
  <2>3. IdleIsEmpty' /\ ActiveCountsRunning'
    BY <2>2 DEF IdleIsEmpty, ActiveCountsRunning
  <2>4. RotationShows' /\ SkipShows'
    BY <2>2 DEF RotationShows, SkipShows
  <2>5. GenerationNamesDocument'
    BY <2>2 DEF GenerationNamesDocument
  <2> QED
    BY <2>1, <2>3, <2>4, <2>5
<1>9. CASE \E t \in Targets, doc \in Documents : PublishIntent(t, doc)
  <2> USE <1>9 DEF PublishIntent, flags
  <2>1. TypeOK'
    BY ObservatoryAssumption DEF TypeOK
  <2>2. UNCHANGED evals /\ (\A th \in Threads : Running(th)' <=> Running(th))
    BY DEF Running
  <2>3. IdleIsEmpty' /\ ActiveCountsRunning'
    BY <2>2 DEF IdleIsEmpty, ActiveCountsRunning
  <2>4. RotationShows' /\ SkipShows'
    BY <2>2 DEF RotationShows, SkipShows
  <2>5. GenerationNamesDocument'
    BY <2>2 DEF GenerationNamesDocument, TypeOK, Evaluations, Documents, NoIntent
  <2> QED
    BY <2>1, <2>3, <2>4, <2>5
<1>10. CASE Save
  <2> USE <1>10 DEF Save, flags
  <2>1. TypeOK'
    BY ObservatoryAssumption DEF TypeOK
  <2>2. UNCHANGED evals /\ (\A th \in Threads : Running(th)' <=> Running(th))
    BY DEF Running
  <2>3. IdleIsEmpty' /\ ActiveCountsRunning'
    BY <2>2 DEF IdleIsEmpty, ActiveCountsRunning
  <2>4. RotationShows' /\ SkipShows'
    BY <2>2 DEF RotationShows, SkipShows
  <2>5. GenerationNamesDocument'
    BY <2>2 DEF GenerationNamesDocument
  <2> QED
    BY <2>1, <2>3, <2>4, <2>5
<1>11. CASE LoadLedgerFile
  <2> USE <1>11 DEF LoadLedgerFile, flags
  <2>1. TypeOK'
    BY ObservatoryAssumption DEF TypeOK
  <2>2. UNCHANGED evals /\ (\A th \in Threads : Running(th)' <=> Running(th))
    BY DEF Running
  <2>3. IdleIsEmpty' /\ ActiveCountsRunning'
    BY <2>2 DEF IdleIsEmpty, ActiveCountsRunning
  <2>4. RotationShows' /\ SkipShows'
    BY <2>2 DEF RotationShows, SkipShows
  <2>5. GenerationNamesDocument'
    BY <2>2 DEF GenerationNamesDocument
  <2> QED
    BY <2>1, <2>3, <2>4, <2>5
<1>12. CASE UNCHANGED vars
  <2> USE <1>12 DEF vars, flags
  <2>1. TypeOK'
    BY ObservatoryAssumption DEF TypeOK
  <2>2. UNCHANGED evals /\ (\A th \in Threads : Running(th)' <=> Running(th))
    BY DEF Running
  <2>3. IdleIsEmpty' /\ ActiveCountsRunning'
    BY <2>2 DEF IdleIsEmpty, ActiveCountsRunning
  <2>4. RotationShows' /\ SkipShows'
    BY <2>2 DEF RotationShows, SkipShows
  <2>5. GenerationNamesDocument'
    BY <2>2 DEF GenerationNamesDocument
  <2> QED
    BY <2>1, <2>3, <2>4, <2>5
<1>13. ASSUME NEW th \in Threads, NEW apply \in BOOLEAN, EvaluateAt(th, apply)
       PROVE  IInv'
  <2> USE <1>13 DEF EvaluateAt, flags
  <2> DEFINE e == [pc |-> "captured", apply |-> apply, authority |-> authority,
                   digest |-> policy, policy |-> policy, against |-> baselines,
                   pending |-> Targets, skipped |-> {}, seen |-> {}]
             R == {u \in Threads : Running(u)}
  <2>1. e \in Evaluations
    BY DEF TypeOK, Evaluations
  <2>2. evals' = [evals EXCEPT ![th] = e]
    OBVIOUS
  <2> HIDE DEF e
  <2>3. evals' \in [Threads -> Evaluations]
    BY <2>1, <2>2 DEF TypeOK
  <2>4. /\ evals'[th] = e
        /\ \A u \in Threads \ {th} : evals'[u] = evals[u] /\ (Running(u)' <=> Running(u))
    BY <2>2 DEF TypeOK, Running
  <2>5. Running(th)'
    BY <2>4 DEF Running, e
  <2>6. TypeOK'
    BY <2>3 DEF TypeOK, Admit
  <2>7. IdleIsEmpty'
    BY <2>4, <2>5 DEF IdleIsEmpty
  <2>8. ActiveCountsRunning'
    <3>1. R' = R \cup {th} /\ th \notin R
      BY <2>4, <2>5
    <3>2. Cardinality(R \cup {th}) = Cardinality(R) + 1
      BY <3>1, RunningCount
    <3> QED
      BY <3>1, <3>2 DEF ActiveCountsRunning, Admit
  <2>9. RotationShows'
    BY <2>4 DEF RotationShows, e, TypeOK, Authorities
  <2>10. GenerationNamesDocument'
    BY <2>4 DEF GenerationNamesDocument, e
  <2>11. SkipShows'
    BY <2>4 DEF SkipShows, e
  <2> QED
    BY <2>6, <2>7, <2>8, <2>9, <2>10, <2>11
<1>14. ASSUME NEW th \in Threads, ReadPolicy(th)
       PROVE  IInv'
  <2> USE <1>14 DEF ReadPolicy, flags
  <2>1. /\ evals' \in [Threads -> Evaluations]
        /\ \A u \in Threads :
             /\ u # th => evals'[u] = evals[u]
             /\ Running(u)' <=> Running(u)
             /\ evals'[u].authority = evals[u].authority
             /\ evals'[u].against = evals[u].against
             /\ evals'[u].skipped = evals[u].skipped
             /\ evals'[u].seen = evals[u].seen
    <3> DEFINE r == [evals[th] EXCEPT !.pc = "comparing", !.policy = policy]
    <3>1. evals[th] \in Evaluations /\ policy \in Policies
      BY DEF TypeOK
    <3>2. /\ r \in Evaluations /\ r.pc = "comparing"
          /\ r.authority = evals[th].authority /\ r.against = evals[th].against
          /\ r.skipped = evals[th].skipped /\ r.seen = evals[th].seen
      BY <3>1 DEF Evaluations
    <3>3. evals' = [evals EXCEPT ![th] = r]
      BY DEF TypeOK
    <3> HIDE DEF r
    <3>4. /\ evals' \in [Threads -> Evaluations]
          /\ evals'[th] = r
          /\ \A u \in Threads : u # th => evals'[u] = evals[u]
      BY <3>2, <3>3 DEF TypeOK
    <3> QED
      BY <3>2, <3>4 DEF Running
  <2>2. TypeOK'
    BY <2>1 DEF TypeOK
  <2>3. IdleIsEmpty' /\ ActiveCountsRunning'
    BY <2>1 DEF IdleIsEmpty, ActiveCountsRunning, Running
  <2>4. RotationShows' /\ GenerationNamesDocument' /\ SkipShows'
    BY <2>1 DEF RotationShows, GenerationNamesDocument, SkipShows
  <2> QED
    BY <2>2, <2>3, <2>4
<1>15. ASSUME NEW th \in Threads, NEW t \in Targets, EvaluateTarget(th, t)
       PROVE  IInv'
  <2> USE <1>15 DEF EvaluateTarget, flags
  <2>1. /\ evals' \in [Threads -> Evaluations]
        /\ \A u \in Threads :
             /\ u # th => evals'[u] = evals[u]
             /\ Running(u)' <=> Running(u)
             /\ evals'[u].authority = evals[u].authority
             /\ evals'[u].against = evals[u].against
             /\ evals'[u].seen = evals[u].seen
        /\ evals'[th].skipped = evals[th].skipped \/ cancelled \/ stopping
    <3> DEFINE k == IF cancelled \/ stopping THEN evals[th].skipped \cup {t}
                                             ELSE evals[th].skipped
               r == [evals[th] EXCEPT !.pending = @ \ {t}, !.skipped = k]
    <3>1. evals[th] \in Evaluations
      BY DEF TypeOK
    <3>2. k \in SUBSET Targets /\ (k = evals[th].skipped \/ cancelled \/ stopping)
      BY <3>1 DEF Evaluations
    <3>3. evals' = [evals EXCEPT ![th] = r]
      BY DEF TypeOK
    <3> HIDE DEF k
    <3>4. /\ r \in Evaluations /\ r.pc = evals[th].pc /\ r.skipped = k
          /\ r.authority = evals[th].authority /\ r.against = evals[th].against
          /\ r.seen = evals[th].seen
      BY <3>1, <3>2 DEF Evaluations
    <3> HIDE DEF r
    <3>5. /\ evals' \in [Threads -> Evaluations]
          /\ evals'[th] = r
          /\ \A u \in Threads : u # th => evals'[u] = evals[u]
      BY <3>3, <3>4 DEF TypeOK
    <3> QED
      BY <3>2, <3>4, <3>5 DEF Running
  <2>2. TypeOK'
    BY <2>1 DEF TypeOK
  <2>3. IdleIsEmpty' /\ ActiveCountsRunning'
    BY <2>1 DEF IdleIsEmpty, ActiveCountsRunning, Running
  <2>4. RotationShows' /\ GenerationNamesDocument'
    BY <2>1 DEF RotationShows, GenerationNamesDocument
  <2>5. SkipShows'
    BY <2>1 DEF SkipShows
  <2> QED
    BY <2>2, <2>3, <2>4, <2>5
<1>16. ASSUME NEW th \in Threads, Publish(th)
       PROVE  IInv'
  <2> USE <1>16 DEF Publish, flags
  <2> DEFINE R == {u \in Threads : Running(u)}
  <2>1. /\ evals' \in [Threads -> Evaluations]
        /\ evals'[th] = NoEvaluation
        /\ \A u \in Threads \ {th} : evals'[u] = evals[u] /\ (Running(u)' <=> Running(u))
    BY NoEvaluationType DEF TypeOK, Running
  <2>2. ~Running(th)' /\ Running(th)
    BY <2>1, NoEvaluationType DEF Running
  <2>3. ActiveCountsRunning' /\ active' \in Nat
    <3>1. R' = R \ {th} /\ th \in R
      BY <2>1, <2>2
    <3>2. Cardinality(R \ {th}) = Cardinality(R) - 1 /\ Cardinality(R \ {th}) \in Nat
      BY <3>1, RunningCount
    <3> QED
      BY <3>1, <3>2 DEF ActiveCountsRunning, Retire
  <2>4. outcome' \in [status : {"Ok", "Cancelled", "Stale"}, written : SUBSET Targets]
    BY DEF Verdict, Accepted
  <2>5. TypeOK'
    BY <2>1, <2>3, <2>4 DEF TypeOK
  <2>6. IdleIsEmpty'
    BY <2>1 DEF IdleIsEmpty
  <2>7. RotationShows' /\ GenerationNamesDocument' /\ SkipShows'
    BY <2>1, <2>2 DEF RotationShows, GenerationNamesDocument, SkipShows
  <2> QED
    BY <2>3, <2>5, <2>6, <2>7
<1> QED
  BY <1>1, <1>2, <1>3, <1>4, <1>5, <1>6, <1>7, <1>8, <1>9, <1>10, <1>11, <1>12,
     <1>13, <1>14, <1>15, <1>16 DEF Next, Evaluating

\* The invariant holds throughout.
LEMMA Inductive == Spec => []IInv
<1>1. Init => IInv
  <2> SUFFICES ASSUME Init
               PROVE  IInv
    OBVIOUS
  <2> USE DEF Init
  <2>1. \A th \in Threads : evals[th] = NoEvaluation /\ ~Running(th)
    BY NoEvaluationType DEF Running
  <2>2. TypeOK
    <3>1. authority \in Authorities
      BY ObservatoryAssumption DEF Authorities
    <3>2. evals \in [Threads -> Evaluations]
      BY NoEvaluationType
    <3>3. [t \in Targets |-> NoIntent] \in [Targets -> Documents \cup {NoIntent}]
      OBVIOUS
    <3>4. outcome \in [status : {"Ok", "Cancelled", "Stale"}, written : SUBSET Targets]
      OBVIOUS
    <3> QED
      BY <3>1, <3>2, <3>3, <3>4 DEF TypeOK
  <2>3. ActiveCountsRunning
    <3>1. {th \in Threads : Running(th)} = {}
      BY <2>1
    <3> QED
      BY <3>1, FS_EmptySet DEF ActiveCountsRunning
  <2> QED
    BY <2>1, <2>2, <2>3
       DEF IInv, IdleIsEmpty, RotationShows, GenerationNamesDocument, SkipShows
<1> QED
  BY <1>1, InductiveStep, PTL DEF Spec

\* The state keeps its type, for any number of threads and targets.
THEOREM RuntimeTypeCorrect == Spec => []TypeOK
BY Inductive, PTL DEF IInv

\* active_evaluations_ is the number of evaluations in flight: every exit of
\* EvaluateInternal counts down exactly once.
THEOREM ActiveIsExact == Spec => []ActiveCountsRunning
BY Inductive, PTL DEF IInv

\* Only Publish ends an evaluation, and it does so for one thread.
LEMMA FinishIsPublish ==
    ASSUME IInv, [Next]_vars, NEW th \in Threads, Finishes(th)
    PROVE  Publish(th)
<1>1. ASSUME NEW event \in Events, evals' = Witnessed(event)
      PROVE  FALSE
  BY <1>1, WitnessedEvals DEF IInv, TypeOK, WitnessedFacts, Finishes, Running
<1>2. CASE Start \/ Stop \/ RequestCancellation \/ ClearCancellation \/ Load
             \/ \E next \in Authorities : RotateIncarnation(next)
  BY <1>1, <1>2 DEF Start, Stop, RequestCancellation, ClearCancellation, Load,
                    RotateIncarnation, Events
<1>3. ASSUME UNCHANGED evals
      PROVE  FALSE
  BY <1>3 DEF Finishes, Running
<1>4. ASSUME NEW u \in Threads, ReadPolicy(u) \/ \E t \in Targets : EvaluateTarget(u, t)
      PROVE  FALSE
  <2>1. CASE u # th
    BY <1>4, <2>1 DEF ReadPolicy, EvaluateTarget, IInv, TypeOK, Finishes, Running
  <2>2. CASE u = th /\ ReadPolicy(u)
    BY <2>2 DEF ReadPolicy, IInv, TypeOK, Evaluations, Finishes
  <2>3. CASE u = th /\ \E t \in Targets : EvaluateTarget(u, t)
    BY <2>3 DEF EvaluateTarget, IInv, TypeOK, Evaluations, Finishes
  <2> QED
    BY <1>4, <2>1, <2>2, <2>3
<1>5. ASSUME NEW u \in Threads, NEW apply \in BOOLEAN, EvaluateAt(u, apply)
      PROVE  FALSE
  BY <1>5 DEF EvaluateAt, Finishes, Running, IInv, TypeOK
<1>6. ASSUME NEW u \in Threads, Publish(u)
      PROVE  u = th
  BY <1>6 DEF Publish, Finishes, Running, IInv, TypeOK
<1> QED
  BY <1>2, <1>3, <1>4, <1>5, <1>6
     DEF Next, Evaluating, StopReturn, SetPolicy, PublishIntent, Save, LoadLedgerFile, vars

\* An evaluation overtaken by a rotation publishes nothing: EvaluateInternal's
\* comparison of the captured with the current authority is enough.
THEOREM RotationFences == Spec => RotatedWritesNothing
<1> DEFINE A ==
      \A th \in Threads :
        (Finishes(th) /\ outcome'.written # {}) => "Rotate" \notin evals[th].seen
<1>1. ASSUME IInv, [Next]_vars, NEW th \in Threads, Finishes(th), outcome'.written # {}
      PROVE  "Rotate" \notin evals[th].seen
  <2>1. Publish(th) /\ Running(th)
    BY <1>1, FinishIsPublish DEF Finishes
  <2>2. Verdict(evals[th]) = "Ok"
    BY <1>1, <2>1 DEF Publish
  <2>3. evals[th].authority = authority
    BY <2>2 DEF Verdict
  <2> QED
    BY <1>1, <2>1, <2>3 DEF IInv, RotationShows, TypeOK, Authorities
<1>2. IInv /\ [Next]_vars => [A]_vars
  BY <1>1
<1> QED
  BY <1>2, Inductive, PTL DEF Spec, RotatedWritesNothing

\* The generation fence of ApplyEvaluation is as good as comparing documents,
\* as long as no ledger is loaded while the evaluation runs.
THEOREM GenerationFenceSuffices == Spec => StaleOnlyAfterLoad
<1> DEFINE A ==
      \A th \in Threads : (Finishes(th) /\ "Load" \notin evals[th].seen) =>
        \A t \in outcome'.written : evals[th].against[t] = baselines[t]
<1>1. ASSUME IInv, [Next]_vars, NEW th \in Threads, Finishes(th),
             "Load" \notin evals[th].seen, NEW t \in outcome'.written
      PROVE  evals[th].against[t] = baselines[t]
  <2>1. Publish(th) /\ Running(th)
    BY <1>1, FinishIsPublish DEF Finishes
  <2>2. t \in Accepted(evals[th])
    BY <1>1, <2>1 DEF Publish
  <2>3. t \in Targets /\ evals[th].against[t].gen = baselines[t].gen
    BY <2>2 DEF Accepted
  <2>4. baselines[t].gen \in Nat
    BY <1>1, <2>3, ObservatoryAssumption DEF IInv, TypeOK, Documents, NoIntent
  <2> QED
    BY <1>1, <2>1, <2>3, <2>4 DEF IInv, GenerationNamesDocument
<1>2. IInv /\ [Next]_vars => [A]_vars
  BY <1>1
<1> QED
  BY <1>2, Inductive, PTL DEF Spec, StaleOnlyAfterLoad

\* A partial outcome is a success only after somebody reset a flag.
THEOREM PartialNeedsRearm == Spec => PartialNotPublished
<1> DEFINE A ==
      \A th \in Threads :
        (Finishes(th) /\ outcome'.status = "Ok" /\ evals[th].skipped # {})
            => "Rearm" \in evals[th].seen
<1>1. ASSUME IInv, [Next]_vars, NEW th \in Threads, Finishes(th),
             outcome'.status = "Ok", evals[th].skipped # {}
      PROVE  "Rearm" \in evals[th].seen
  <2>1. Publish(th) /\ Running(th)
    BY <1>1, FinishIsPublish DEF Finishes
  <2>2. ~cancelled /\ ~stopping
    BY <1>1, <2>1 DEF Publish, Verdict
  <2> QED
    BY <1>1, <2>1, <2>2 DEF IInv, SkipShows
<1>2. IInv /\ [Next]_vars => [A]_vars
  BY <1>1
<1> QED
  BY <1>2, Inductive, PTL DEF Spec, PartialNotPublished

\* When Stop returns, nothing it overtook is running.
THEOREM StopWaitsForAll == Spec => StopDrains
<1> DEFINE A ==
      (stopper = "waiting" /\ stopper' = "idle") =>
        \A th \in Threads : "Stop" \notin evals[th].seen
<1>1. ASSUME IInv, [Next]_vars, stopper = "waiting", stopper' = "idle", NEW th \in Threads
      PROVE  "Stop" \notin evals[th].seen
  <2>1. active = 0
    BY <1>1 DEF Next, vars, flags, Start, Stop, StopReturn, RotateIncarnation,
          RequestCancellation, ClearCancellation, SetPolicy, PublishIntent, Save,
          LoadLedgerFile, Load, EvaluateAt, Evaluating, ReadPolicy, EvaluateTarget, Publish
  <2>2. {u \in Threads : Running(u)} = {}
    <3>1. IsFiniteSet({u \in Threads : Running(u)})
      BY ObservatoryAssumption, FS_Subset
    <3> QED
      BY <1>1, <2>1, <3>1, FS_EmptySet DEF IInv, ActiveCountsRunning
  <2>3. evals[th] = NoEvaluation
    BY <1>1, <2>2 DEF IInv, IdleIsEmpty
  <2> QED
    BY <2>3 DEF NoEvaluation, Idle
<1>2. IInv /\ [Next]_vars => [A]_vars
  BY <1>1
<1> QED
  BY <1>2, Inductive, PTL DEF Spec, StopDrains
=============================================================================
