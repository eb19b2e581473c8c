------------------------ MODULE FindingLedger_proofs ------------------------
(***************************************************************************)
(* What holds of the finding ledger for any targets, locations, classes,   *)
(* generations, policies and bounds, and that it implements the lifecycle. *)
(*                                                                         *)
(* A restart goes back to the ledger file, so everything that is said of   *)
(* the ledger is said of the file as well (Table and Membership take the   *)
(* one or the other).                                                      *)
(***************************************************************************)
EXTENDS FindingLedger, FiniteSetTheorems, WellFoundedInduction, TLAPS

\* A finding has the fields of a finding; nothing is said of its expiry and its
\* group here.
IsFinding(f) ==
    f \in [state : States, origin : {"None", "Policy", "Operator"}, expires : {f.expires},
           acked : BOOLEAN, group : {f.group}, streak : Nat]

\* A suppressed finding has a suppression, a closed one has no group.
Sound(f) ==
    /\ IsFinding(f)
    /\ f.state = "Suppressed" => Suppression(f)
    /\ ~IsLive(f) => f.group = NoGroup

GenerationIn(B, t) == IF t \in DOMAIN B THEN B[t].gen ELSE 0

\* Committed intent and findings that fit together.
Table(B, F) ==
    /\ DOMAIN B \subseteq Targets
    /\ \A t \in DOMAIN B : B[t] \in Documents
    /\ \A id \in DOMAIN F :
          /\ id \in FindingIds
          /\ Sound(F[id])
          /\ IsLive(F[id]) => id.gen \in {0, GenerationIn(B, id.target)}

IInv == Table(baselines, findings) /\ Table(file.baselines, file.findings)

\* The members of a group are live findings of its target that name it.
Membership(F, G) ==
    \A g \in DOMAIN G : \A id \in G[g] :
        id \in DOMAIN F /\ IsLive(F[id]) /\ F[id].group = g /\ id.target = g.target

GInv == Membership(findings, groups) /\ Membership(file.findings, file.groups)

-----------------------------------------------------------------------------
(* One finding *)

\* The lifecycle does not tell f and g apart.
SameStanding(f, g) ==
    /\ g.streak = f.streak
    /\ IsLive(g) <=> IsLive(f)
    /\ ~IsLive(f) => g.state = f.state

\* The fields that do not change when a suppression ends.
LEMMA UnsuppressSound ==
  ASSUME NEW f, Sound(f)
  PROVE  /\ Sound(Unsuppress(f))
         /\ SameStanding(f, Unsuppress(f))
         /\ Unsuppress(f).group = f.group
         /\ f.state # "Suppressed" => Unsuppress(f).state = f.state
<1>1. /\ Unsuppress(f).state = (IF f.state = "Suppressed" THEN Unsuppressed(f) ELSE f.state)
      /\ Unsuppress(f).origin = "None"
      /\ Unsuppress(f).group = f.group
      /\ Unsuppress(f).streak = f.streak
  BY DEF Sound, IsFinding, Unsuppress
<1>2. IsFinding(Unsuppress(f))
  BY DEF Sound, IsFinding, Unsuppress, Unsuppressed, States
<1>3. Unsuppressed(f) \in {"Open", "Acknowledged"}
  BY DEF Unsuppressed
<1> QED
  BY <1>1, <1>2, <1>3 DEF Sound, IsFinding, SameStanding, IsLive, LiveStates, Suppression

\* A finding an evaluation creates is sound and live.
LEMMA CreatedSound ==
  ASSUME NEW policy, NEW id, NEW now
  PROVE  /\ Sound(Created(policy, id, now))
         /\ IsLive(Created(policy, id, now))
         /\ Created(policy, id, now).streak = 0
  BY DEF Created, Sound, IsFinding, IsLive, LiveStates, States, Suppression

\* A finding an evaluation drafts again is sound and live, keeps an operator's
\* suppression, and is open if it was closed.
LEMMA RedraftedSound ==
  ASSUME NEW policy, NEW id \in DOMAIN findings, NEW now, Sound(findings[id])
  PROVE  /\ Sound(Redrafted(policy, id, now))
         /\ IsLive(Redrafted(policy, id, now))
         /\ Redrafted(policy, id, now).streak = 0
         /\ findings[id].origin = "Operator" =>
              /\ Redrafted(policy, id, now).origin = "Operator"
              /\ Redrafted(policy, id, now).expires = findings[id].expires
              /\ IsLive(findings[id]) => Redrafted(policy, id, now).state = findings[id].state
         /\ ~IsLive(findings[id]) => Redrafted(policy, id, now).state = "Open"
<1> DEFINE f == [findings[id] EXCEPT !.streak = 0,
                                     !.state = IF @ \in LiveStates THEN @ ELSE "Open"]
<1>1. /\ f.state = (IF findings[id].state \in LiveStates THEN findings[id].state ELSE "Open")
      /\ f.origin = findings[id].origin /\ f.expires = findings[id].expires
      /\ f.group = findings[id].group /\ f.streak = 0
  BY DEF Sound, IsFinding
<1>2. Sound(f) /\ IsLive(f)
  <2>1. IsFinding(f)
    BY DEF Sound, IsFinding, States
  <2> QED BY <1>1, <2>1 DEF Sound, IsLive, LiveStates, Suppression
<1>3. Redrafted(policy, id, now) = IF Lapsed(policy, id, now) THEN Unsuppress(f) ELSE f
  BY DEF Redrafted
<1> HIDE DEF f
<1>4. Sound(Unsuppress(f)) /\ SameStanding(f, Unsuppress(f))
  BY <1>2, UnsuppressSound
<1>5. ~IsLive(findings[id]) => f.state = "Open" /\ Unsuppress(f).state = "Open"
  BY <1>1, <1>2, UnsuppressSound DEF IsLive
<1> QED
  BY <1>1, <1>2, <1>3, <1>4, <1>5 DEF SameStanding, Lapsed, IsLive

\* A live finding that was not drafted stays as it is, is superseded, or has one
\* confirmation more, which may resolve it.
LEMMA UndraftedSound ==
  ASSUME NEW o, NEW required \in Nat, NEW id \in DOMAIN findings,
         Sound(findings[id]), IsLive(findings[id])
  PROVE  LET g == Undrafted(o, required, id) IN
         /\ Sound(g)
         /\ \/ g = findings[id]
            \/ /\ Reclassified(o, id)
               /\ g.state = "Superseded" /\ g.streak = findings[id].streak
            \/ /\ g.streak = findings[id].streak + 1
               /\ IF g.streak >= (IF required = 0 THEN 1 ELSE required)
                    THEN g.state = "Resolved" ELSE IsLive(g)
         /\ g.origin = findings[id].origin /\ g.expires = findings[id].expires
         /\ IsLive(g) => g.state = findings[id].state
<1> DEFINE f == findings[id]
           enough == f.streak + 1 >= (IF required = 0 THEN 1 ELSE required)
           g == Undrafted(o, required, id)
<1>1. CASE ~o[id.target].decidable
  BY <1>1 DEF Undrafted
<1>2. CASE o[id.target].decidable /\ Reclassified(o, id)
  <2>1. g = [f EXCEPT !.state = "Superseded", !.group = NoGroup]
    BY <1>2 DEF Undrafted
  <2>2. /\ IsFinding(g) /\ g.state = "Superseded" /\ g.group = NoGroup
        /\ g.streak = f.streak /\ g.origin = f.origin /\ g.expires = f.expires
    BY <2>1 DEF Sound, IsFinding, States
  <2> QED BY <1>2, <2>2 DEF Sound, IsLive, LiveStates
<1>3. CASE o[id.target].decidable /\ ~Reclassified(o, id) /\ enough
  <2>1. g = [f EXCEPT !.streak = @ + 1, !.state = "Resolved", !.group = NoGroup]
    BY <1>3 DEF Undrafted
  <2>2. /\ g.state = "Resolved" /\ g.group = NoGroup
        /\ g.streak = f.streak + 1 /\ g.origin = f.origin /\ g.expires = f.expires
    BY <2>1 DEF Sound, IsFinding
  <2>3. f.streak + 1 \in Nat /\ "Resolved" \in States
    BY DEF Sound, IsFinding, States
  <2>4. IsFinding(g)
    BY <2>1, <2>3 DEF Sound, IsFinding
  <2> QED BY <1>3, <2>2, <2>4 DEF Sound, IsLive, LiveStates
<1>4. CASE o[id.target].decidable /\ ~Reclassified(o, id) /\ ~enough
  <2>1. g = [f EXCEPT !.streak = @ + 1]
    BY <1>4 DEF Undrafted
  <2>2. /\ IsFinding(g) /\ g.state = f.state /\ g.group = f.group
        /\ g.streak = f.streak + 1 /\ g.origin = f.origin /\ g.expires = f.expires
    BY <2>1 DEF Sound, IsFinding
  <2> QED BY <1>4, <2>2 DEF Sound, IsLive, Suppression
<1> QED BY <1>1, <1>2, <1>3, <1>4

-----------------------------------------------------------------------------
(* Outcomes *)

\* What an evaluation of a target may draft.
LEMMA EvaluationTyped ==
  ASSUME NEW e \in Evaluations
  PROVE  /\ e.gen \in 0..MaxGeneration
         /\ e.hasBaseline \in BOOLEAN
         /\ ~e.hasBaseline => e.gen = 0
         /\ e.drafts \subseteq [loc : Locations \cup {TargetScope}, klass : Classes,
                                qual : Qualifiers \cup {NoQualifier}]
<1> DEFINE Drafts == [loc : Locations \cup {TargetScope}, klass : Classes,
                      qual : Qualifiers \cup {NoQualifier}]
<1>0. MaxGeneration \in Nat /\ \A d \in e.drafts : d.klass \in Classes
  BY LedgerAssumption DEF Evaluations
<1>a. ASSUME NEW k, e.drafts = {ScopeDraft(k)}
      PROVE  e.drafts \subseteq Drafts
  <2>1. ScopeDraft(k).klass \in Classes
    BY <1>0, <1>a
  <2>2. k \in Classes
    BY <2>1 DEF ScopeDraft
  <2>3. ScopeDraft(k) \in Drafts
    BY <2>2 DEF ScopeDraft
  <2> QED BY <1>a, <2>3
<1>1. CASE e \in {Evaluation(FALSE, 0, {}, FALSE),
                  Evaluation(FALSE, 0, {ScopeDraft("IntentMissing")}, FALSE)}
  <2>1. e.gen = 0 /\ e.hasBaseline = FALSE /\ e.drafts \in {{}, {ScopeDraft("IntentMissing")}}
    BY <1>1 DEF Evaluation
  <2>2. e.gen \in 0..MaxGeneration
    BY <1>0, <2>1
  <2>3. e.drafts \subseteq Drafts
    BY <1>a, <2>1, Zenon
  <2> QED BY <2>1, <2>2, <2>3
<1>2. CASE \E g \in 1..MaxGeneration : e = Evaluation(TRUE, g, {ScopeDraft("StaleObservation")}, FALSE)
  <2>1. PICK g \in 1..MaxGeneration : e = Evaluation(TRUE, g, {ScopeDraft("StaleObservation")}, FALSE)
    BY <1>2
  <2>2. e.gen = g /\ e.hasBaseline = TRUE /\ e.drafts = {ScopeDraft("StaleObservation")}
    BY <2>1 DEF Evaluation
  <2>3. g \in 0..MaxGeneration
    BY <1>0
  <2> QED BY <1>a, <2>2, <2>3
<1>3. CASE e \in [hasBaseline : {TRUE}, gen : 1..MaxGeneration, decidable : BOOLEAN,
                  drafts : UNION {{x \in SUBSET LeafDrafts(q) : Comparable(x)} : q \in Qualifiers}]
  <2>1. PICK q \in Qualifiers : e.drafts \subseteq LeafDrafts(q)
    BY <1>3
  <2>2. ASSUME NEW d \in LeafDrafts(q)
        PROVE  d \in [loc : Locations \cup {TargetScope}, klass : Classes,
                     qual : Qualifiers \cup {NoQualifier}]
    BY <2>2 DEF LeafDrafts
  <2>3. e.hasBaseline = TRUE /\ e.gen \in 1..MaxGeneration
    BY <1>3, Zenon
  <2>4. e.gen \in 0..MaxGeneration
    BY <1>0, <2>3
  <2> QED BY <2>1, <2>2, <2>3, <2>4
<1>4. \/ e \in {Evaluation(FALSE, 0, {}, FALSE),
                Evaluation(FALSE, 0, {ScopeDraft("IntentMissing")}, FALSE)}
      \/ e \in {Evaluation(TRUE, g, {ScopeDraft("StaleObservation")}, FALSE) : g \in 1..MaxGeneration}
      \/ e \in [hasBaseline : {TRUE}, gen : 1..MaxGeneration, decidable : BOOLEAN,
                drafts : UNION {{x \in SUBSET LeafDrafts(q) : Comparable(x)} : q \in Qualifiers}]
  BY Zenon DEF Evaluations
<1> QED
  BY <1>1, <1>2, <1>3, <1>4

\* The findings an outcome drafts for a target carry that target and the
\* generation the outcome was computed against.
LEMMA DraftTyped ==
  ASSUME NEW o \in Outcomes, NEW t \in DOMAIN o, NEW id \in DraftIds(o, t)
  PROVE  id \in FindingIds /\ id.target = t /\ id.gen = o[t].gen
<1>1. t \in Targets /\ o[t] \in Evaluations
  BY DEF Outcomes
<1>2. PICK d \in o[t].drafts : id = IdOf(t, o[t].gen, d)
  BY DEF DraftIds
<1> QED
  BY <1>1, <1>2, EvaluationTyped DEF IdOf, FindingIds

\* The fence: accepted drafts are about the committed generation.
LEMMA AcceptedCurrent ==
  ASSUME NEW o \in Outcomes, NEW t \in Accepted(o)
  PROVE  t \in DOMAIN o /\ o[t].gen = GenerationIn(baselines, t)
<1>1. t \in DOMAIN o /\ o[t] \in Evaluations
  BY DEF Accepted, Outcomes
<1> QED
  BY <1>1, EvaluationTyped DEF Accepted, GenerationIn
-----------------------------------------------------------------------------
(* The stages of an evaluation *)

\* What one evaluation does to finding id, which becomes f: it is created or
\* drafted again, left alone, or closed or confirmed because it was not drafted.
EvolvesTo(o, S, required, id, f) ==
    \/ /\ id.target \in S /\ id \in DraftIds(o, id.target)
       /\ IsLive(f) /\ f.streak = 0
       /\ id \in DOMAIN findings /\ ~IsLive(findings[id]) => f.state = "Open"
    \/ /\ id \in DOMAIN findings /\ SameStanding(findings[id], f)
       /\ ~(id.target \in S /\ id \in DraftIds(o, id.target))
    \/ /\ id \in DOMAIN findings /\ IsLive(findings[id])
       /\ id.target \in S /\ id \notin DraftIds(o, id.target)
       /\ \/ Reclassified(o, id) /\ f.state = "Superseded" /\ f.streak = findings[id].streak
          \/ /\ f.streak = findings[id].streak + 1
             /\ IF f.streak >= (IF required = 0 THEN 1 ELSE required)
                  THEN f.state = "Resolved" ELSE IsLive(f)

\* An operator's suppression and its expiry are kept, and a suppressed finding
\* that stays live stays suppressed.
OperatorKept(id, f) ==
    id \in DOMAIN findings /\ findings[id].origin = "Operator" =>
        /\ f.origin = "Operator" /\ f.expires = findings[id].expires
        /\ findings[id].state = "Suppressed" /\ IsLive(f) => f.state = "Suppressed"

\* One finding through the first phase of ApplyEvaluation: it stays sound, moves
\* as the lifecycle allows and keeps an operator's suppression.
LEMMA EvolvedSound ==
  ASSUME NEW o \in Outcomes, NEW S \in SUBSET Accepted(o), NEW policy,
         NEW required \in Nat, NEW now, Table(baselines, findings),
         NEW id \in DOMAIN Evolved(o, S, policy, required, now)
  PROVE  LET f == Evolved(o, S, policy, required, now)[id] IN
         /\ id \in FindingIds
         /\ Sound(f)
         /\ EvolvesTo(o, S, required, id, f)
         /\ OperatorKept(id, f)
<1> DEFINE f == Evolved(o, S, policy, required, now)[id]
<1>1. id \in DOMAIN findings \cup NewIds(o, S)
  BY DEF Evolved
<1>2. CASE id \notin DOMAIN findings
  <2>1. PICK t \in S : id \in DraftIds(o, t)
    BY <1>1, <1>2 DEF NewIds, AllDrafted
  <2>2. id \in FindingIds /\ id.target = t
    BY <2>1, DraftTyped DEF Accepted
  <2>3. f = Created(policy, id, now)
    BY <1>1, <1>2 DEF Evolved
  <2> QED BY <1>2, <2>1, <2>2, <2>3, CreatedSound DEF EvolvesTo, OperatorKept
<1>3. CASE id \in DOMAIN findings
  <2>1. id \in FindingIds /\ Sound(findings[id])
    BY <1>3 DEF Table
  <2>2. CASE id.target \notin S
    <3>1. f = findings[id]
      BY <1>1, <1>3, <2>2 DEF Evolved
    <3> QED BY <1>3, <2>1, <2>2, <3>1 DEF EvolvesTo, SameStanding, OperatorKept
  <2>3. CASE id.target \in S /\ id \in DraftIds(o, id.target)
    <3>1. f = Redrafted(policy, id, now)
      BY <1>1, <1>3, <2>3 DEF Evolved
    <3>2. findings[id].state = "Suppressed" => IsLive(findings[id])
      BY DEF IsLive, LiveStates
    <3> QED BY <1>3, <2>1, <2>3, <3>1, <3>2, RedraftedSound DEF EvolvesTo, OperatorKept
  <2>4. CASE id.target \in S /\ id \notin DraftIds(o, id.target) /\ ~IsLive(findings[id])
    <3>1. f = findings[id]
      BY <1>1, <1>3, <2>4 DEF Evolved
    <3> QED BY <1>3, <2>1, <2>4, <3>1 DEF EvolvesTo, SameStanding, OperatorKept
  <2>5. CASE id.target \in S /\ id \notin DraftIds(o, id.target) /\ IsLive(findings[id])
    <3>1. f = Undrafted(o, required, id)
      BY <1>1, <1>3, <2>5 DEF Evolved
    <3> QED BY <1>3, <2>1, <2>5, <3>1, UndraftedSound DEF EvolvesTo, SameStanding, OperatorKept
  <2> QED BY <2>2, <2>3, <2>4, <2>5
<1> QED BY <1>2, <1>3

\* Assigning groups changes nothing but the group of live findings.
LEMMA AssignedSound ==
  ASSUME NEW F, NEW S, NEW formed, NEW id \in DOMAIN F, Sound(F[id])
  PROVE  LET f == Assigned(F, S, formed)[id] IN
         /\ Sound(f) /\ SameStanding(F[id], f) /\ f.state = F[id].state
         /\ f.origin = F[id].origin /\ f.expires = F[id].expires
         /\ ~(id.target \in S /\ IsLive(F[id])) => f = F[id]
         /\ \A m \in formed :
              /\ id.target \in S /\ IsLive(F[id]) /\ id \in m
              /\ \A n \in formed : id \in n => n = m
              => f.group = GroupIdentity(m)
<1> DEFINE f == Assigned(F, S, formed)[id]
<1>1. CASE id.target \in S /\ IsLive(F[id])
  <2> DEFINE g == IF id \in UNION formed
                    THEN GroupIdentity(CHOOSE m \in formed : id \in m) ELSE NoGroup
  <2>1. f = [F[id] EXCEPT !.group = g]
    BY <1>1 DEF Assigned
  <2> HIDE DEF g
  <2>2. IsFinding(f) /\ f.group = g /\ f.state = F[id].state /\ f.streak = F[id].streak
        /\ f.origin = F[id].origin /\ f.expires = F[id].expires
    BY <2>1 DEF Sound, IsFinding
  <2>3. ASSUME NEW m \in formed, id \in m, \A n \in formed : id \in n => n = m
        PROVE  g = GroupIdentity(m)
    <3>1. id \in UNION formed /\ (CHOOSE n \in formed : id \in n) = m
      BY <2>3
    <3> QED BY <3>1 DEF g
  <2> QED BY <1>1, <2>2, <2>3 DEF Sound, SameStanding, IsLive, Suppression
<1>2. CASE ~(id.target \in S /\ IsLive(F[id]))
  <2>1. f = F[id]
    BY <1>2 DEF Assigned
  <2> QED BY <1>2, <2>1 DEF SameStanding
<1> QED BY <1>1, <1>2

\* So does the end of suppressions: a finding stays live or closed and keeps its
\* group and confirmations.
LEMMA WithoutExpiredSound ==
  ASSUME NEW F, NEW now \in Times, NEW id \in DOMAIN F, Sound(F[id])
  PROVE  LET f == WithoutExpired(F, now)[id] IN
         /\ Sound(f) /\ SameStanding(F[id], f) /\ f.group = F[id].group
         /\ F[id].state = "Open" => f.state = "Open"
         /\ F[id].expires = Never => f = F[id]
<1>1. CASE id \in Expired(F, now)
  <2>1. WithoutExpired(F, now)[id] = Unsuppress(F[id])
    BY <1>1 DEF WithoutExpired
  <2>2. F[id].expires # Never
    BY <1>1, LedgerAssumption DEF Expired, Times, Never
  <2> QED BY <2>1, <2>2, UnsuppressSound
<1>2. CASE id \notin Expired(F, now)
  <2>1. WithoutExpired(F, now)[id] = F[id]
    BY <1>2 DEF WithoutExpired
  <2> QED BY <2>1 DEF SameStanding
<1> QED BY <1>1, <1>2
\* The findings and groups a pass over the accepted targets leaves.
LEMMA PassFields ==
  ASSUME NEW o, NEW S, NEW done, NEW material, NEW policy, NEW required, NEW now
  PROVE  LET F == Evolved(o, S, policy, required, now)
             p == Pass(o, S, done, material, policy, required, now)
             formed == Formed(F, S)
         IN  /\ p.findings = Assigned(F, done, formed)
             /\ \A g \in DOMAIN p.groups :
                  \/ /\ g \in DOMAIN groups /\ g.target \notin done
                     /\ p.groups[g] = groups[g]
                  \/ /\ g \in Produced(formed)
                     /\ g.target \in done \/ g.target \in S \ done
                     /\ p.groups[g] = MembersOf(formed, g)
<1> DEFINE F == Evolved(o, S, policy, required, now)
           formed == Formed(F, S)
           A == Assigned(F, done, formed)
           blocked == UNION {Blocked(F, formed, S, t) : t \in S}
           kept == {g \in DOMAIN groups : g.target \notin done}
           written == ({g \in Produced(formed) : g.target \in done} \ Dropped(F, done))
                         \cup UNION {Touched(formed, blocked, t) : t \in S \ done}
           p == Pass(o, S, done, material, policy, required, now)
<1>1. Tabulated(F) = F /\ Tabulated(A) = A
  BY Zenon DEF Tabulated
<1>2. /\ p.findings = A
      /\ p.groups = [g \in kept \cup written |->
                        IF g \in written THEN MembersOf(formed, g) ELSE groups[g]]
  BY <1>1 DEF Pass
<1>3. \A g \in written : g \in Produced(formed) /\ (g.target \in done \/ g.target \in S \ done)
  BY DEF Touched
<1> HIDE DEF F, formed, A, blocked, written, p
<1>4. ASSUME NEW g \in DOMAIN p.groups
      PROVE  \/ g \in DOMAIN groups /\ g.target \notin done /\ p.groups[g] = groups[g]
             \/ g \in written /\ p.groups[g] = MembersOf(formed, g)
  BY <1>2, <1>4
<1> QED BY <1>2, <1>3, <1>4 DEF F, formed, A, p

\* What an evaluation that is not refused does to the findings, whether it is
\* completed or abandoned where the group table is full.
Evaluated(o, S, required) ==
    /\ baselines' = baselines
    /\ DOMAIN findings' = DOMAIN findings \cup NewIds(o, S)
    /\ \A id \in DOMAIN findings' :
         /\ id \in FindingIds
         /\ Sound(findings'[id])
         /\ EvolvesTo(o, S, required, id, findings'[id])
         /\ id \in DOMAIN findings /\ Held(findings[id]) =>
               StaysHeld(findings[id], findings'[id])

\* No change of a finding that the lifecycle or a group would notice.
Quiet ==
    /\ baselines' = baselines /\ groups' = groups
    /\ DOMAIN findings' = DOMAIN findings
    /\ \A id \in DOMAIN findings :
         /\ Sound(findings'[id])
         /\ SameStanding(findings[id], findings'[id])
         /\ findings'[id].group = findings[id].group

\* How a finding may evolve depends on its standing only.
LEMMA EvolvesToStable ==
  ASSUME NEW o, NEW S, NEW required, NEW id, NEW f, NEW g,
         EvolvesTo(o, S, required, id, f), SameStanding(f, g),
         f.state = "Open" => g.state = "Open"
  PROVE  EvolvesTo(o, S, required, id, g)
  BY DEF EvolvesTo, SameStanding, IsLive, LiveStates

\* The findings a whole pass leaves are sound and moved as the lifecycle allows,
\* however many targets it came through.
LEMMA AppliedPass ==
  ASSUME NEW o \in Outcomes, NEW S \in SUBSET Accepted(o), NEW done, NEW material,
         NEW policy, NEW required \in Nat, NEW now, Table(baselines, findings),
         NEW A, A = Pass(o, S, done, material, policy, required, now).findings
  PROVE  /\ DOMAIN A = DOMAIN findings \cup NewIds(o, S)
         /\ \A id \in DOMAIN A :
              /\ id \in FindingIds
              /\ Sound(A[id])
              /\ EvolvesTo(o, S, required, id, A[id])
              /\ OperatorKept(id, A[id])
<1> DEFINE F == Evolved(o, S, policy, required, now)
<1>1. A = Assigned(F, done, Formed(F, S))
  BY PassFields
<1>2. DOMAIN A = DOMAIN F /\ DOMAIN F = DOMAIN findings \cup NewIds(o, S)
  BY <1>1 DEF Assigned, Evolved
<1>3. ASSUME NEW id \in DOMAIN A
      PROVE  /\ id \in FindingIds
             /\ Sound(A[id])
             /\ EvolvesTo(o, S, required, id, A[id])
             /\ OperatorKept(id, A[id])
  <2>1. /\ id \in FindingIds /\ Sound(F[id])
        /\ EvolvesTo(o, S, required, id, F[id]) /\ OperatorKept(id, F[id])
    BY <1>2, EvolvedSound
  <2> HIDE DEF F
  <2>2. /\ Sound(A[id]) /\ SameStanding(F[id], A[id]) /\ A[id].state = F[id].state
        /\ A[id].origin = F[id].origin /\ A[id].expires = F[id].expires
    BY <1>1, <1>2, <2>1, AssignedSound
  <2>3. EvolvesTo(o, S, required, id, A[id])
    BY <2>1, <2>2, EvolvesToStable
  <2> QED BY <2>1, <2>2, <2>3 DEF OperatorKept, IsLive
<1> QED BY <1>2, <1>3

\* ApplyEvaluation refuses quietly or evaluates some of the accepted targets.
LEMMA EvaluateStep ==
  ASSUME Table(baselines, findings), Evaluate
  PROVE  \/ Quiet /\ UNCHANGED <<findings, groups>>
         \/ \E o \in Outcomes : \E S \in SUBSET Accepted(o), required \in Confirmations :
                Evaluated(o, S, required)
<1>1. PICK o \in Outcomes, material \in Material, policy \in Policies,
           required \in Confirmations, now \in Times :
             ApplyEvaluation(o, material, policy, required, now)
  BY DEF Evaluate
<1>2. required \in Nat
  BY LedgerAssumption
<1>3. CASE Refuse("Limit")
  BY <1>3 DEF Refuse, Quiet, Table, SameStanding
<1>4. CASE ApplyAll(o, material, policy, required, now) /\ UNCHANGED baselines
  <2> DEFINE A == Pass(o, Accepted(o), Accepted(o), material, policy, required, now).findings
  <2>1. findings' = WithoutExpired(A, now)
    BY <1>4 DEF ApplyAll
  <2>2. /\ DOMAIN A = DOMAIN findings \cup NewIds(o, Accepted(o))
        /\ \A id \in DOMAIN A :
              /\ id \in FindingIds
              /\ Sound(A[id])
              /\ EvolvesTo(o, Accepted(o), required, id, A[id])
              /\ OperatorKept(id, A[id])
    BY <1>2, AppliedPass
  <2> HIDE DEF A
  <2>3. DOMAIN findings' = DOMAIN A
    BY <2>1 DEF WithoutExpired
  <2>4. ASSUME NEW id \in DOMAIN A
        PROVE  /\ Sound(findings'[id])
               /\ EvolvesTo(o, Accepted(o), required, id, findings'[id])
               /\ id \in DOMAIN findings /\ Held(findings[id]) =>
                    StaysHeld(findings[id], findings'[id])
    <3>1. /\ Sound(findings'[id]) /\ SameStanding(A[id], findings'[id])
          /\ A[id].state = "Open" => findings'[id].state = "Open"
          /\ A[id].expires = Never => findings'[id] = A[id]
      BY <2>1, <2>2, WithoutExpiredSound
    <3>2. EvolvesTo(o, Accepted(o), required, id, findings'[id])
      BY <2>2, <3>1, EvolvesToStable
    <3>3. ASSUME id \in DOMAIN findings, Held(findings[id])
          PROVE  StaysHeld(findings[id], findings'[id])
      <4>1. OperatorKept(id, A[id]) /\ findings'[id] = A[id]
        BY <2>2, <3>1, <3>3 DEF OperatorKept, Held
      <4> QED BY <3>3, <4>1 DEF OperatorKept, Held, StaysHeld
    <3> QED BY <3>1, <3>2, <3>3
  <2>5. Evaluated(o, Accepted(o), required)
    BY <1>4, <2>2, <2>3, <2>4 DEF Evaluated
  <2> QED BY <2>5
<1>5. CASE \E t \in Accepted(o) :
             ApplyPart(o, t, material, policy, required, now) /\ UNCHANGED baselines
  <2>1. PICK t \in Accepted(o) :
               ApplyPart(o, t, material, policy, required, now) /\ UNCHANGED baselines
    BY <1>5
  <2> DEFINE done == {u \in Accepted(o) : u < t}
             S == done \cup {t}
  <2>2. findings' = Pass(o, S, done, material, policy, required, now).findings
    BY <2>1 DEF ApplyPart
  <2>3. S \in SUBSET Accepted(o)
    OBVIOUS
  <2> HIDE DEF S, done
  <2>a. /\ DOMAIN findings' = DOMAIN findings \cup NewIds(o, S)
        /\ \A id \in DOMAIN findings' :
              /\ id \in FindingIds
              /\ Sound(findings'[id])
              /\ EvolvesTo(o, S, required, id, findings'[id])
              /\ OperatorKept(id, findings'[id])
    BY <1>2, <2>2, <2>3, AppliedPass
  <2>4. Evaluated(o, S, required)
    BY <2>1, <2>a DEF Evaluated, OperatorKept, Held, StaysHeld
  <2> QED BY <2>3, <2>4
<1> QED
  BY <1>1, <1>3, <1>4, <1>5 DEF ApplyEvaluation

-----------------------------------------------------------------------------
(* The other operations *)

\* An operation on one finding that the lifecycle does not notice.
LEMMA TouchQuiet ==
  ASSUME Table(baselines, findings), NEW id \in DOMAIN findings, NEW f, Touch(id, f),
         Sound(f), SameStanding(findings[id], f), f.group = findings[id].group
  PROVE  /\ Quiet /\ findings'[id] = f
         /\ \A j \in DOMAIN findings \ {id} : findings'[j] = findings[j]
<1>1. /\ DOMAIN findings' = DOMAIN findings /\ findings'[id] = f
      /\ baselines' = baselines /\ groups' = groups
      /\ \A j \in DOMAIN findings \ {id} : findings'[j] = findings[j]
  BY DEF Touch
<1> QED BY <1>1 DEF Quiet, Table, SameStanding

\* Nothing ends a suppression without expiry, but an operator who clears it or
\* sets another one.
KeptUnlessCleared ==
    \A id \in DOMAIN findings : Held(findings[id]) =>
        \/ ClearSuppression(id)
        \/ \E expires \in Times : Suppress(id, expires)
        \/ StaysHeld(findings[id], findings'[id])

\* A refused operation changes no finding.
LEMMA RefusedQuiet ==
  ASSUME Table(baselines, findings), NEW code, Refuse(code)
  PROVE  Quiet /\ KeptUnlessCleared
  BY DEF Refuse, Quiet, Table, SameStanding, KeptUnlessCleared, StaysHeld

\* An operator's command changes no standing, and ends a suppression only by
\* clearing it.
LEMMA OperateStep ==
  ASSUME Table(baselines, findings), Operate
  PROVE  Quiet /\ KeptUnlessCleared
<1>1. PICK id \in DOMAIN findings :
        \/ \E expires \in Times \cup {Never} : Suppress(id, expires)
        \/ ClearSuppression(id)
        \/ Acknowledge(id)
        \/ ClearAcknowledgement(id)
  BY DEF Operate
<1> DEFINE f == findings[id]
<1>2. Sound(f) /\ IsFinding(f)
  BY DEF Table, Sound
<1>3. CASE \E expires \in Times \cup {Never} : Suppress(id, expires)
  <2>1. PICK expires \in Times \cup {Never} : Suppress(id, expires)
    BY <1>3
  <2> DEFINE g == [f EXCEPT !.origin = "Operator", !.expires = expires,
                            !.state = IF IsLive(f) THEN "Suppressed" ELSE @]
  <2>2. CASE Refuse("Limit")
    BY <2>2, RefusedQuiet
  <2>3. CASE Touch(id, g)
    <3>1. /\ g.state = (IF IsLive(f) THEN "Suppressed" ELSE f.state) /\ g.origin = "Operator"
          /\ g.streak = f.streak /\ g.group = f.group /\ g.expires = expires
      BY <1>2 DEF IsFinding
    <3>2. IsFinding(g)
      BY <1>2 DEF IsFinding, States
    <3> HIDE DEF f, g
    <3>3. Sound(g) /\ SameStanding(f, g)
      BY <1>2, <3>1, <3>2 DEF Sound, SameStanding, IsLive, LiveStates, Suppression
    <3>4. /\ Quiet /\ findings'[id] = g
          /\ \A j \in DOMAIN findings \ {id} : findings'[j] = findings[j]
      BY <2>3, <3>1, <3>3, TouchQuiet DEF f
    <3>5. ASSUME NEW j \in DOMAIN findings, Held(findings[j])
          PROVE  \/ \E e \in Times : Suppress(j, e)
                 \/ StaysHeld(findings[j], findings'[j])
      <4>1. CASE j # id
        BY <3>4, <3>5, <4>1 DEF StaysHeld
      <4>2. CASE j = id /\ expires \in Times
        BY <2>1, <4>2
      <4>3. CASE j = id /\ expires = Never
        <5>1. Held(g)
          BY <3>1, <4>3 DEF Held
        <5>2. f.state = "Suppressed" => g.state = "Suppressed"
          BY <3>1
        <5> QED BY <3>4, <4>3, <5>1, <5>2 DEF StaysHeld, f
      <4> QED BY <2>1, <4>1, <4>2, <4>3
    <3> QED BY <3>4, <3>5 DEF KeptUnlessCleared
  <2> QED BY <2>1, <2>2, <2>3 DEF Suppress
<1>4. CASE ClearSuppression(id)
  <2>1. CASE Refuse("NotFound")
    BY <2>1, RefusedQuiet
  <2>2. CASE Touch(id, Unsuppress(f))
    <3>1. /\ Quiet /\ \A j \in DOMAIN findings \ {id} : findings'[j] = findings[j]
      BY <1>2, <2>2, TouchQuiet, UnsuppressSound
    <3> QED BY <1>4, <3>1 DEF KeptUnlessCleared, StaysHeld
  <2> QED BY <1>4, <2>1, <2>2 DEF ClearSuppression
<1>5. CASE Acknowledge(id)
  <2> DEFINE g == [f EXCEPT !.acked = TRUE, !.state = IF @ = "Open" THEN "Acknowledged" ELSE @]
  <2>1. /\ g.state = (IF f.state = "Open" THEN "Acknowledged" ELSE f.state) /\ g.origin = f.origin
        /\ g.streak = f.streak /\ g.group = f.group /\ g.expires = f.expires
    BY <1>2 DEF IsFinding
  <2>2. IsFinding(g)
    BY <1>2 DEF IsFinding, States
  <2>3. Touch(id, g)
    BY <1>5 DEF Acknowledge
  <2> HIDE DEF f, g
  <2>4. Sound(g) /\ SameStanding(f, g)
    BY <1>2, <2>1, <2>2 DEF Sound, SameStanding, IsLive, LiveStates, Suppression
  <2>5. /\ Quiet /\ findings'[id] = g
        /\ \A j \in DOMAIN findings \ {id} : findings'[j] = findings[j]
    BY <2>1, <2>3, <2>4, TouchQuiet DEF f
  <2>6. Held(f) => StaysHeld(f, g)
    BY <2>1 DEF Held, StaysHeld
  <2> QED BY <2>5, <2>6 DEF KeptUnlessCleared, StaysHeld, f
<1>6. CASE ClearAcknowledgement(id)
  <2> DEFINE g == [f EXCEPT !.acked = FALSE, !.state = IF @ = "Acknowledged" THEN "Open" ELSE @]
  <2>1. CASE Refuse("NotFound")
    BY <2>1, RefusedQuiet
  <2>2. CASE Touch(id, g)
    <3>1. /\ g.state = (IF f.state = "Acknowledged" THEN "Open" ELSE f.state)
          /\ g.origin = f.origin /\ g.streak = f.streak /\ g.group = f.group
          /\ g.expires = f.expires
      BY <1>2 DEF IsFinding
    <3>2. IsFinding(g)
      BY <1>2 DEF IsFinding, States
    <3> HIDE DEF f, g
    <3>4. Sound(g) /\ SameStanding(f, g)
      BY <1>2, <3>1, <3>2 DEF Sound, SameStanding, IsLive, LiveStates, Suppression
    <3>5. /\ Quiet /\ findings'[id] = g
          /\ \A j \in DOMAIN findings \ {id} : findings'[j] = findings[j]
      BY <2>2, <3>1, <3>4, TouchQuiet DEF f
    <3>6. Held(f) => StaysHeld(f, g)
      BY <3>1 DEF Held, StaysHeld
    <3> QED BY <3>5, <3>6 DEF KeptUnlessCleared, StaysHeld, f
  <2> QED BY <1>6, <2>1, <2>2 DEF ClearAcknowledgement
<1> QED BY <1>1, <1>3, <1>4, <1>5, <1>6

\* Expiry changes no standing and ends only suppressions that have run out.
LEMMA ExpireStep ==
  ASSUME Table(baselines, findings), NEW now \in Times, ExpireSuppressions(now)
  PROVE  Quiet /\ KeptUnlessCleared
<1>1. /\ findings' = WithoutExpired(findings, now)
      /\ baselines' = baselines /\ groups' = groups
  BY DEF ExpireSuppressions
<1>2. DOMAIN findings' = DOMAIN findings
  BY <1>1 DEF WithoutExpired
<1>3. ASSUME NEW id \in DOMAIN findings
      PROVE  /\ Sound(findings'[id]) /\ SameStanding(findings[id], findings'[id])
             /\ findings'[id].group = findings[id].group
             /\ findings[id].expires = Never => findings'[id] = findings[id]
  <2>1. Sound(findings[id])
    BY DEF Table
  <2> QED BY <1>1, <2>1, WithoutExpiredSound
<1> QED BY <1>1, <1>2, <1>3 DEF Quiet, KeptUnlessCleared, Held, StaysHeld

\* What committing doc for target t does: live findings about another generation
\* than the new one are closed, unless this is the first intent of the target.
Recommitted(t, doc) ==
    /\ baselines' = [u \in DOMAIN baselines \cup {t} |-> IF u = t THEN doc ELSE baselines[u]]
    /\ t \in DOMAIN baselines => Advances(t, doc)
    /\ DOMAIN findings' = DOMAIN findings
    /\ \A id \in DOMAIN findings :
         /\ Sound(findings'[id])
         /\ findings'[id].origin = findings[id].origin
         /\ findings'[id].expires = findings[id].expires
         /\ findings'[id].streak = findings[id].streak
         /\ IF t \in DOMAIN baselines /\ Outdated(t, doc.gen, id)
              THEN findings'[id].state \in {"Superseded", "Retired"}
              ELSE findings'[id] = findings[id]

\* CommitIntent refuses quietly, or commits and rebases the findings of its target.
LEMMA CommitStep ==
  ASSUME Table(baselines, findings), NEW t \in Targets, NEW doc \in Documents, CommitIntent(t, doc)
  PROVE  (Quiet /\ KeptUnlessCleared) \/ Recommitted(t, doc)
<1>1. CASE \E code \in {"Limit", "Stale", "Ok", "Conflict"} : Refuse(code)
  BY <1>1, RefusedQuiet
<1>2. CASE t \notin DOMAIN baselines /\ Commit(t, doc) /\ UNCHANGED <<findings, groups, history>>
  BY <1>2 DEF Commit, Recommitted, Table
<1>3. CASE /\ t \in DOMAIN baselines /\ Advances(t, doc) /\ Commit(t, doc)
           /\ RebaseFindingsForTarget(t, doc.gen, doc.managed)
  <2>1. DOMAIN findings' = DOMAIN findings
    BY <1>3 DEF RebaseFindingsForTarget
  <2>2. ASSUME NEW id \in DOMAIN findings
        PROVE  findings'[id] = IF Outdated(t, doc.gen, id) THEN Rebased(id, doc.managed)
                               ELSE findings[id]
    BY <1>3 DEF RebaseFindingsForTarget
  <2>3. ASSUME NEW id \in DOMAIN findings
        PROVE  LET f == Rebased(id, doc.managed) IN
               /\ Sound(f) /\ f.origin = findings[id].origin /\ f.expires = findings[id].expires
               /\ f.streak = findings[id].streak /\ f.state \in {"Superseded", "Retired"}
    <3> DEFINE f == Rebased(id, doc.managed)
    <3>1. IsFinding(findings[id])
      BY DEF Table, Sound
    <3>2. /\ f.state \in {"Superseded", "Retired"} /\ f.origin = findings[id].origin
          /\ f.streak = findings[id].streak /\ f.group = NoGroup /\ f.expires = findings[id].expires
      BY <3>1 DEF IsFinding, Rebased
    <3>3. IsFinding(f)
      BY <3>1 DEF IsFinding, Rebased, States
    <3> QED BY <3>2, <3>3 DEF Sound, IsLive, LiveStates
  <2>4. \A id \in DOMAIN findings : Sound(findings[id])
    BY DEF Table
  <2> QED BY <1>3, <2>1, <2>2, <2>3, <2>4 DEF Commit, Recommitted
<1> QED BY <1>1, <1>2, <1>3 DEF CommitIntent

\* Everything but saving and loading, as far as findings and intent go.
LEMMA MutateStep ==
  ASSUME Table(baselines, findings), Mutate
  PROVE  \/ Quiet /\ KeptUnlessCleared
         \/ \E t \in Targets, doc \in Documents : Recommitted(t, doc)
         \/ \E o \in Outcomes : \E S \in SUBSET Accepted(o), required \in Confirmations :
                Evaluated(o, S, required)
<1>1. CASE \E t \in Targets, doc \in Documents : CommitIntent(t, doc)
  BY <1>1, CommitStep
<1>2. CASE Evaluate
  BY <1>2, EvaluateStep DEF KeptUnlessCleared, StaysHeld
<1>3. CASE Operate
  BY <1>3, OperateStep
<1>4. CASE \E now \in Times : ExpireSuppressions(now)
  BY <1>4, ExpireStep
<1>5. CASE RecordEvent
  BY <1>5 DEF RecordEvent, Quiet, Table, SameStanding, KeptUnlessCleared, StaysHeld
<1> QED BY <1>1, <1>2, <1>3, <1>4, <1>5 DEF Mutate

-----------------------------------------------------------------------------
(* The invariant *)

\* An empty ledger and its file fit together.
LEMMA InitTable ==
  ASSUME Init
  PROVE  IInv
<1>1. DOMAIN baselines = {} /\ DOMAIN findings = {}
  BY DEF Init
<1>2. /\ file.baselines = baselines
      /\ file.findings = [id \in DOMAIN findings |-> [findings[id] EXCEPT !.streak = 0]]
  BY DEF Init, Encoded
<1>3. DOMAIN file.baselines = {} /\ DOMAIN file.findings = {}
  BY <1>1, <1>2
<1> QED BY <1>1, <1>3 DEF IInv, Table

\* A finding as it is written to the file.
LEMMA SavedSound ==
  ASSUME NEW f, Sound(f)
  PROVE  LET g == [f EXCEPT !.streak = 0] IN
         /\ Sound(g) /\ g.state = f.state /\ g.streak = 0 /\ g.group = f.group
<1> DEFINE g == [f EXCEPT !.streak = 0]
<1>1. /\ g.state = f.state /\ g.origin = f.origin /\ g.group = f.group /\ g.streak = 0
  BY DEF Sound, IsFinding
<1>2. IsFinding(g)
  BY DEF Sound, IsFinding
<1> QED BY <1>1, <1>2 DEF Sound, IsLive, Suppression

\* What Save writes: the ledger without its confirmation streaks.
LEMMA SaveStep ==
  ASSUME Table(baselines, findings), Save
  PROVE  /\ file'.baselines = baselines /\ file'.groups = groups
         /\ DOMAIN file'.findings = DOMAIN findings
         /\ \A id \in DOMAIN findings :
              /\ Sound(file'.findings[id]) /\ file'.findings[id].streak = 0
              /\ file'.findings[id].state = findings[id].state
              /\ file'.findings[id].group = findings[id].group
         /\ UNCHANGED <<baselines, findings, groups>>
<1>1. /\ file'.baselines = baselines /\ file'.groups = groups
      /\ file'.findings = [id \in DOMAIN findings |-> [findings[id] EXCEPT !.streak = 0]]
  BY DEF Save, Encoded
<1>2. \A id \in DOMAIN findings : Sound(findings[id])
  BY DEF Table
<1>3. UNCHANGED <<baselines, findings, groups>>
  BY DEF Save
<1>4. DOMAIN file'.findings = DOMAIN findings
  BY <1>1
<1>5. ASSUME NEW id \in DOMAIN findings
      PROVE  file'.findings[id] = [findings[id] EXCEPT !.streak = 0]
  BY <1>1
<1>6. ASSUME NEW id \in DOMAIN findings
      PROVE  /\ Sound(file'.findings[id]) /\ file'.findings[id].streak = 0
             /\ file'.findings[id].state = findings[id].state
             /\ file'.findings[id].group = findings[id].group
  <2>1. /\ Sound([findings[id] EXCEPT !.streak = 0])
        /\ [findings[id] EXCEPT !.streak = 0].streak = 0
        /\ [findings[id] EXCEPT !.streak = 0].state = findings[id].state
        /\ [findings[id] EXCEPT !.streak = 0].group = findings[id].group
    BY <1>2, SavedSound
  <2> QED BY <1>5, <2>1, Zenon
<1> QED BY <1>1, <1>3, <1>4, <1>6

\* A restart: the ledger is what the file holds, or the file is refused.
LEMMA LoadStep ==
  ASSUME NEW again, Load(again)
  PROVE  /\ UNCHANGED file
         /\ \/ UNCHANGED <<baselines, findings, groups>>
            \/ baselines' = file.baselines /\ findings' = file.findings /\ groups' = file.groups
  BY DEF Load, Refuse, RestoreBaseline, RestoreFinding

\* No operation leaves intent and findings that do not fit together.
LEMMA TableStep ==
  ASSUME Table(baselines, findings), Mutate
  PROVE  Table(baselines, findings)'
<1>1. CASE Quiet
  BY <1>1 DEF Quiet, Table, SameStanding, GenerationIn
<1>2. ASSUME NEW t \in Targets, NEW doc \in Documents, Recommitted(t, doc)
      PROVE  Table(baselines, findings)'
  <2>1. /\ DOMAIN baselines' \subseteq Targets
        /\ \A u \in DOMAIN baselines' : baselines'[u] \in Documents
    BY <1>2 DEF Recommitted, Table
  <2>2. /\ GenerationIn(baselines', t) = doc.gen
        /\ \A u : u # t => GenerationIn(baselines', u) = GenerationIn(baselines, u)
    BY <1>2 DEF Recommitted, GenerationIn
  <2>3. ASSUME NEW id \in DOMAIN findings'
        PROVE  /\ id \in FindingIds /\ Sound(findings'[id])
               /\ IsLive(findings'[id]) => id.gen \in {0, GenerationIn(baselines', id.target)}
    <3>1. id \in DOMAIN findings /\ id \in FindingIds /\ Sound(findings'[id])
      BY <1>2 DEF Recommitted, Table
    <3>2. CASE t \in DOMAIN baselines /\ Outdated(t, doc.gen, id)
      BY <1>2, <3>1, <3>2 DEF Recommitted, IsLive, LiveStates
    <3>3. CASE ~(t \in DOMAIN baselines /\ Outdated(t, doc.gen, id))
      <4>1. findings'[id] = findings[id]
        BY <1>2, <3>1, <3>3 DEF Recommitted
      <4>2. IsLive(findings[id]) => id.gen \in {0, GenerationIn(baselines, id.target)}
        BY <3>1 DEF Table
      <4>3. t \notin DOMAIN baselines => GenerationIn(baselines, t) = 0
        BY DEF GenerationIn
      <4> QED BY <2>2, <3>1, <3>3, <4>1, <4>2, <4>3 DEF Outdated
    <3> QED BY <3>2, <3>3
  <2> QED BY <2>1, <2>3 DEF Table
<1>3. ASSUME NEW o \in Outcomes, NEW S \in SUBSET Accepted(o), NEW required \in Confirmations,
             Evaluated(o, S, required)
      PROVE  Table(baselines, findings)'
  <2>1. /\ baselines' = baselines
        /\ \A id \in DOMAIN findings' : id \in FindingIds /\ Sound(findings'[id])
    BY <1>3 DEF Evaluated
  <2>2. ASSUME NEW id \in DOMAIN findings', IsLive(findings'[id])
        PROVE  id.gen \in {0, GenerationIn(baselines, id.target)}
    <3>1. EvolvesTo(o, S, required, id, findings'[id])
      BY <1>3 DEF Evaluated
    <3>2. CASE id.target \in S /\ id \in DraftIds(o, id.target)
      BY <3>2, AcceptedCurrent, DraftTyped
    <3>3. CASE id \in DOMAIN findings /\ IsLive(findings[id])
      BY <3>3 DEF Table
    <3> QED BY <2>2, <3>1, <3>2, <3>3 DEF EvolvesTo, SameStanding
  <2>3. \A t : GenerationIn(baselines', t) = GenerationIn(baselines, t)
    BY <2>1
  <2> QED BY <2>1, <2>2, <2>3 DEF Table
<1> QED BY <1>1, <1>2, <1>3, MutateStep

\* Every step, saving and loading included, preserves the invariant.
LEMMA InvariantStep ==
  ASSUME IInv, [Next]_vars
  PROVE  IInv'
<1>1. CASE Mutate /\ UNCHANGED file
  BY <1>1, TableStep DEF IInv, Table
<1>2. CASE Save
  <2>1. Table(baselines, findings)
    BY DEF IInv
  <2>2. Table(baselines, findings)' /\ file'.baselines = baselines
    BY <1>2, <2>1, SaveStep DEF Table, GenerationIn
  <2>3. Table(baselines, file'.findings)
    BY <1>2, <2>1, SaveStep DEF Table, IsLive
  <2> QED BY <2>2, <2>3 DEF IInv
<1>3. CASE \E again \in BOOLEAN : Load(again)
  BY <1>3, LoadStep DEF IInv, Table, GenerationIn
<1>4. CASE UNCHANGED vars
  BY <1>4 DEF vars, IInv, Table, GenerationIn
<1> QED BY <1>1, <1>2, <1>3, <1>4 DEF Next, Recover

\* The inductive invariant of the ledger and its file.
THEOREM LedgerInvariant == Spec => []IInv
<1>1. Init => IInv
  BY InitTable
<1>2. IInv /\ [Next]_vars => IInv'
  BY InvariantStep
<1> QED BY <1>1, <1>2, PTL DEF Spec

\* Whatever order commits, stale outcomes, abandoned evaluations, saves and
\* restarts come in, a live finding is about the committed generation of its
\* target or was found before there was any intent.
THEOREM LiveFindingsAreCurrent == Spec => []LiveFindingsTrackBaseline
<1>1. IInv => LiveFindingsTrackBaseline
  BY DEF IInv, Table, LiveFindingsTrackBaseline, CurrentGeneration, GenerationIn
<1> QED BY <1>1, LedgerInvariant, PTL

\* No finding is hidden without a suppression that says why.
THEOREM SuppressionIsRecorded == Spec => []SuppressedHasReason
<1>1. IInv => SuppressedHasReason
  BY DEF IInv, Table, Sound, SuppressedHasReason
<1> QED BY <1>1, LedgerInvariant, PTL

-----------------------------------------------------------------------------
(* What a step may not do, but for a restart that goes back to what was saved. *)

\* Findings are never forgotten, and a closed one comes back only as Open and
\* about the generation committed now, unless the ledger is loaded.
THEOREM ReopensCurrent == Spec => ClosedReopensCurrent
<1> DEFINE Reopens ==
             \/ \E again \in BOOLEAN : Load(again)
             \/ \A id \in DOMAIN findings :
                  /\ id \in DOMAIN findings'
                  /\ (~IsLive(findings[id]) /\ IsLive(findings'[id])) =>
                       /\ findings'[id].state = "Open"
                       /\ id.gen = CurrentGeneration(id.target)
<1>1. ASSUME IInv, [Next]_vars
      PROVE  [Reopens]_vars
  <2>1. CASE UNCHANGED vars
    BY <2>1
  <2>2. CASE Mutate
    <3>0. Table(baselines, findings)
      BY <1>1 DEF IInv
    <3>1. CASE Quiet
      BY <3>1 DEF Quiet, SameStanding
    <3>2. CASE \E t \in Targets, doc \in Documents : Recommitted(t, doc)
      BY <3>2 DEF Recommitted, IsLive, LiveStates
    <3>3. ASSUME NEW o \in Outcomes, NEW S \in SUBSET Accepted(o), NEW required \in Confirmations,
                 Evaluated(o, S, required), NEW id \in DOMAIN findings
          PROVE  /\ id \in DOMAIN findings'
                 /\ (~IsLive(findings[id]) /\ IsLive(findings'[id])) =>
                      /\ findings'[id].state = "Open"
                      /\ id.gen = CurrentGeneration(id.target)
      <4>1. id \in DOMAIN findings' /\ EvolvesTo(o, S, required, id, findings'[id])
        BY <3>3 DEF Evaluated
      <4>2. CASE id.target \in S /\ id \in DraftIds(o, id.target)
        <5>1. id.gen = CurrentGeneration(id.target)
          BY <4>2, AcceptedCurrent, DraftTyped DEF GenerationIn, CurrentGeneration
        <5> QED BY <4>1, <4>2, <5>1 DEF EvolvesTo
      <4>3. CASE ~(id.target \in S /\ id \in DraftIds(o, id.target))
        BY <4>1, <4>3 DEF EvolvesTo, SameStanding
      <4> QED BY <4>2, <4>3
    <3> QED BY <2>2, <3>0, <3>1, <3>2, <3>3, MutateStep
  <2>3. CASE Save
    BY <2>3 DEF Save
  <2> QED BY <1>1, <2>1, <2>2, <2>3 DEF Next, Recover
<1>2. IInv /\ [Next]_vars => [Reopens]_vars
  BY <1>1
<1> QED BY <1>2, LedgerInvariant, PTL DEF Spec, ClosedReopensCurrent

\* A finding an operator suppressed without expiry stays suppressed as long as it
\* is live, and the suppression stays recorded after that, until the operator clears
\* or replaces it or the ledger is loaded: no evaluation, policy, rebase, expiry pass
\* or acknowledgement ends it.
THEOREM OperatorDecides == Spec => OperatorSuppressionKept
<1>1. ASSUME IInv, [Next]_vars
      PROVE  [KeptUnlessCleared \/ \E again \in BOOLEAN : Load(again)]_vars
  <2>1. CASE UNCHANGED vars
    BY <2>1
  <2>2. CASE Mutate
    <3>0. Table(baselines, findings)
      BY <1>1 DEF IInv
    <3>1. CASE \E t \in Targets, doc \in Documents : Recommitted(t, doc)
      <4>1. PICK t \in Targets, doc \in Documents : Recommitted(t, doc)
        BY <3>1
      <4>2. ASSUME NEW id \in DOMAIN findings, Held(findings[id])
            PROVE  StaysHeld(findings[id], findings'[id])
        <5>1. Held(findings'[id])
          BY <4>1, <4>2 DEF Recommitted, Held
        <5>2. findings'[id] = findings[id] \/ ~IsLive(findings'[id])
          BY <4>1 DEF Recommitted, IsLive, LiveStates
        <5> QED BY <5>1, <5>2 DEF StaysHeld
      <4> QED BY <4>2 DEF KeptUnlessCleared
    <3>2. CASE \E o \in Outcomes : \E S \in SUBSET Accepted(o), required \in Confirmations :
                Evaluated(o, S, required)
      BY <3>2 DEF Evaluated, KeptUnlessCleared
    <3> QED BY <2>2, <3>0, <3>1, <3>2, MutateStep
  <2>3. CASE Save
    BY <2>3 DEF Save, KeptUnlessCleared, StaysHeld
  <2> QED BY <1>1, <2>1, <2>2, <2>3 DEF Next, Recover
<1> DEFINE Kept == \A id \in DOMAIN findings : Held(findings[id]) =>
         \/ \E again \in BOOLEAN : Load(again)
         \/ ClearSuppression(id)
         \/ \E expires \in Times : Suppress(id, expires)
         \/ StaysHeld(findings[id], findings'[id])
<1>2. IInv /\ [Next]_vars => [Kept]_vars
  BY <1>1 DEF KeptUnlessCleared
<1> QED BY <1>2, LedgerInvariant, PTL DEF Spec, OperatorSuppressionKept

-----------------------------------------------------------------------------
(* The refinement *)

\* The abstract state is a function of baselines, findings and file.
LEMMA AbstractState ==
  ASSUME NEW B, NEW F, Table(B, F)
  PROVE  /\ \A t \in Targets : CommittedIn(B)[t] = GenerationIn(B, t)
         /\ \A t \in Targets : CommittedIn(B)[t] \in Nat /\ (CommittedIn(B)[t] # 0 <=> t \in DOMAIN B)
         /\ DOMAIN StandingIn(F) = DOMAIN F /\ DOMAIN ConfirmedIn(F) = DOMAIN F
         /\ \A id \in DOMAIN F :
              /\ ConfirmedIn(F)[id] = F[id].streak
              /\ StandingIn(F)[id] = IF IsLive(F[id]) THEN "live" ELSE F[id].state
              /\ StandingIn(F)[id] = "live" <=> IsLive(F[id])
<1>1. \A t \in Targets : CommittedIn(B)[t] = GenerationIn(B, t)
  BY DEF CommittedIn, GenerationIn
<1>2. ASSUME NEW t \in Targets
      PROVE  GenerationIn(B, t) \in Nat /\ (GenerationIn(B, t) # 0 <=> t \in DOMAIN B)
  <2>1. CASE t \in DOMAIN B
    <3>1. B[t] \in Documents
      BY <2>1 DEF Table
    <3>2. B[t].gen \in 1..MaxGeneration
      BY <3>1 DEF Documents
    <3> QED BY <2>1, <3>2, LedgerAssumption DEF GenerationIn
  <2>2. CASE t \notin DOMAIN B
    BY <2>2 DEF GenerationIn
  <2> QED BY <2>1, <2>2
<1>3. ASSUME NEW id \in DOMAIN F
      PROVE  F[id].state # "live"
  BY DEF Table, Sound, IsFinding, States
<1>4. /\ DOMAIN StandingIn(F) = DOMAIN F /\ DOMAIN ConfirmedIn(F) = DOMAIN F
      /\ \A id \in DOMAIN F :
              /\ ConfirmedIn(F)[id] = F[id].streak
              /\ StandingIn(F)[id] = IF IsLive(F[id]) THEN "live" ELSE F[id].state
  BY DEF StandingIn, ConfirmedIn
<1> QED BY <1>1, <1>2, <1>3, <1>4

\* An empty ledger is an initial state of the lifecycle.
LEMMA InitAbstract ==
  ASSUME Init
  PROVE  Lifecycle!Init
<1>1. /\ DOMAIN baselines = {} /\ DOMAIN findings = {}
      /\ file.baselines = baselines
      /\ file.findings = [id \in DOMAIN findings |-> [findings[id] EXCEPT !.streak = 0]]
  BY DEF Init, Encoded
<1>2. DOMAIN file.findings = {}
  BY <1>1
<1>3. /\ CommittedIn(baselines) = [t \in Targets |-> 0]
      /\ CommittedIn(file.baselines) = [t \in Targets |-> 0]
  BY <1>1 DEF CommittedIn
<1>4. /\ StandingIn(findings) = [id \in {} |-> "live"] /\ ConfirmedIn(findings) = [id \in {} |-> 0]
      /\ StandingIn(file.findings) = [id \in {} |-> "live"]
      /\ ConfirmedIn(file.findings) = [id \in {} |-> 0]
  BY <1>1, <1>2 DEF StandingIn, ConfirmedIn
<1> QED BY <1>3, <1>4 DEF Lifecycle!Init, Lifecycle!state

\* A step that changes no standing is a stutter of the lifecycle.
LEMMA QuietAbstract ==
  ASSUME Quiet
  PROVE  UNCHANGED <<CommittedIn(baselines), StandingIn(findings), ConfirmedIn(findings)>>
<1>1. CommittedIn(baselines') = CommittedIn(baselines)
  BY DEF Quiet, CommittedIn
<1>2. StandingIn(findings') = StandingIn(findings)
  BY DEF Quiet, StandingIn, SameStanding
<1>3. ConfirmedIn(findings') = ConfirmedIn(findings)
  BY DEF Quiet, ConfirmedIn, SameStanding
<1> QED BY <1>1, <1>2, <1>3

\* A commit with its rebase is the lifecycle's Commit.
LEMMA CommitAbstract ==
  ASSUME IInv, IInv', UNCHANGED file,
         NEW t \in Targets, NEW doc \in Documents, Recommitted(t, doc)
  PROVE  Lifecycle!Commit(t)
<1> DEFINE old == CommittedIn(baselines)
           new == CommittedIn(baselines')
<1>0. Table(baselines, findings) /\ Table(baselines', findings')
  BY DEF IInv
<1>1. new[t] = doc.gen /\ doc.gen \in Nat \ {0}
  BY LedgerAssumption DEF Recommitted, CommittedIn, Documents
<1>2. doc.gen > old[t]
  BY <1>1 DEF Recommitted, CommittedIn, Advances
<1>3. new = [old EXCEPT ![t] = doc.gen]
  BY DEF Recommitted, CommittedIn
<1>4. old[t] # 0 <=> t \in DOMAIN baselines
  BY <1>0, AbstractState
<1> HIDE DEF old, new
<1>5. DOMAIN StandingIn(findings') = DOMAIN StandingIn(findings)
  BY DEF Recommitted, StandingIn
<1>6. ASSUME NEW id \in DOMAIN findings
      PROVE  IF /\ old[t] # 0 /\ id.target = t /\ id.gen # doc.gen
                /\ StandingIn(findings)[id] = "live"
               THEN StandingIn(findings')[id] \in {"Superseded", "Retired"}
               ELSE StandingIn(findings')[id] = StandingIn(findings)[id]
  <2>1. /\ id \in DOMAIN findings'
        /\ IF t \in DOMAIN baselines /\ Outdated(t, doc.gen, id)
             THEN findings'[id].state \in {"Superseded", "Retired"}
             ELSE findings'[id] = findings[id]
    BY DEF Recommitted
  <2>2. /\ StandingIn(findings)[id] = IF IsLive(findings[id]) THEN "live" ELSE findings[id].state
        /\ StandingIn(findings)[id] = "live" <=> IsLive(findings[id])
    BY <1>0, AbstractState
  <2>3. StandingIn(findings')[id] = IF IsLive(findings'[id]) THEN "live" ELSE findings'[id].state
    BY <1>0, <2>1, AbstractState
  <2> QED BY <1>4, <2>1, <2>2, <2>3 DEF Outdated, IsLive, LiveStates
<1>7. ConfirmedIn(findings') = ConfirmedIn(findings)
  BY DEF Recommitted, ConfirmedIn
<1>8. DOMAIN StandingIn(findings) = DOMAIN findings
  BY DEF StandingIn
<1> QED BY <1>1, <1>2, <1>3, <1>5, <1>6, <1>7, <1>8 DEF Lifecycle!Commit, Lifecycle!Known, old, new

\* An evaluation is the lifecycle's Evaluate; a policy that asks for no
\* confirmation is one that asks for one.
LEMMA EvaluateAbstract ==
  ASSUME IInv, IInv', UNCHANGED file,
         NEW o \in Outcomes, NEW S \in SUBSET Accepted(o), NEW required \in Confirmations,
         Evaluated(o, S, required)
  PROVE  Lifecycle!Evaluate(IF required = 0 THEN 1 ELSE required)
<1> DEFINE needed == IF required = 0 THEN 1 ELSE required
<1>0. Table(baselines, findings) /\ Table(baselines', findings')
  BY DEF IInv
<1>1. /\ DOMAIN StandingIn(findings) = DOMAIN findings
      /\ DOMAIN StandingIn(findings') = DOMAIN findings'
      /\ DOMAIN ConfirmedIn(findings') = DOMAIN findings'
      /\ DOMAIN findings \subseteq DOMAIN findings' /\ DOMAIN findings' \subseteq FindingIds
  BY DEF StandingIn, ConfirmedIn, Evaluated
<1>2. CommittedIn(baselines') = CommittedIn(baselines)
  BY DEF Evaluated
<1>3. ASSUME NEW id \in DOMAIN findings', id.target \in S, id \in DraftIds(o, id.target)
      PROVE  Lifecycle!Seen(id)
  <2>1. EvolvesTo(o, S, required, id, findings'[id])
    BY DEF Evaluated
  <2>2. IsLive(findings'[id]) /\ findings'[id].streak = 0
    BY <1>3, <2>1 DEF EvolvesTo
  <2>3. id.target \in Targets /\ id.gen = GenerationIn(baselines, id.target)
    BY <1>1, <1>3, AcceptedCurrent, DraftTyped DEF FindingIds
  <2>4. id.gen = CommittedIn(baselines)[id.target]
    BY <1>0, <2>3, AbstractState
  <2>5. StandingIn(findings')[id] = "live" /\ ConfirmedIn(findings')[id] = 0
    BY <1>0, <2>2, AbstractState
  <2> QED BY <2>4, <2>5 DEF Lifecycle!Seen
<1>4. ASSUME NEW id \in DOMAIN findings'
      PROVE  \/ Lifecycle!Seen(id) \/ Lifecycle!Untouched(id)
             \/ Lifecycle!Confirmed(id, needed) \/ Lifecycle!Explained(id)
  <2>1. EvolvesTo(o, S, required, id, findings'[id])
    BY DEF Evaluated
  <2>2. /\ StandingIn(findings')[id] = IF IsLive(findings'[id]) THEN "live" ELSE findings'[id].state
        /\ ConfirmedIn(findings')[id] = findings'[id].streak
    BY <1>0, AbstractState
  <2>3. ASSUME id \in DOMAIN findings
        PROVE  /\ StandingIn(findings)[id] = IF IsLive(findings[id]) THEN "live" ELSE findings[id].state
               /\ ConfirmedIn(findings)[id] = findings[id].streak
    BY <1>0, <2>3, AbstractState
  <2>4. CASE id.target \in S /\ id \in DraftIds(o, id.target)
    BY <1>3, <2>4
  <2>5. CASE id \in DOMAIN findings /\ SameStanding(findings[id], findings'[id])
    BY <1>1, <2>2, <2>3, <2>5 DEF Lifecycle!Untouched, Lifecycle!Known, SameStanding
  <2>6. CASE /\ id \in DOMAIN findings /\ IsLive(findings[id])
             /\ findings'[id].streak = findings[id].streak + 1
             /\ IF findings'[id].streak >= needed
                  THEN findings'[id].state = "Resolved" ELSE IsLive(findings'[id])
    <3>1. "Resolved" \notin LiveStates
      BY DEF LiveStates
    <3> QED BY <1>1, <2>2, <2>3, <2>6, <3>1 DEF Lifecycle!Confirmed, Lifecycle!Known, IsLive
  <2>7. CASE /\ id \in DOMAIN findings /\ IsLive(findings[id])
             /\ id.target \in S /\ id \notin DraftIds(o, id.target)
             /\ Reclassified(o, id) /\ findings'[id].state = "Superseded"
             /\ findings'[id].streak = findings[id].streak
    <3>1. PICK d \in DraftIds(o, id.target) : d.loc = id.loc /\ d.gen = id.gen
      BY <2>7 DEF Reclassified
    <3>2. d.target = id.target
      BY <2>7, <3>1, DraftTyped, AcceptedCurrent
    <3>3. d \in DOMAIN findings'
      BY <2>7, <3>1, <3>2 DEF Evaluated, NewIds, AllDrafted
    <3>4. Lifecycle!Seen(d)
      BY <1>3, <2>7, <3>1, <3>2, <3>3
    <3>5. "Superseded" \notin LiveStates
      BY DEF LiveStates
    <3>6. d # id
      BY <2>7, <3>1
    <3>7. \E other \in DOMAIN StandingIn(findings') \ {id} :
             other.target = id.target /\ other.loc = id.loc /\ other.gen = id.gen
             /\ Lifecycle!Seen(other)
      BY <1>1, <3>1, <3>2, <3>3, <3>4, <3>6
    <3> QED BY <1>1, <2>2, <2>3, <2>7, <3>5, <3>7 DEF Lifecycle!Explained, Lifecycle!Known, IsLive
  <2> QED BY <2>1, <2>4, <2>5, <2>6, <2>7 DEF EvolvesTo
<1> QED BY <1>1, <1>2, <1>4 DEF Lifecycle!Evaluate, Lifecycle!Known

\* A save is the lifecycle's Save.
LEMMA SaveAbstract ==
  ASSUME IInv, Save
  PROVE  Lifecycle!Save
<1>1. Table(baselines, findings)
  BY DEF IInv
<1>2. /\ file'.baselines = baselines /\ DOMAIN file'.findings = DOMAIN findings
      /\ \A id \in DOMAIN findings : /\ file'.findings[id].streak = 0
                                    /\ file'.findings[id].state = findings[id].state
      /\ UNCHANGED <<baselines, findings>>
  BY <1>1, SaveStep
<1>3. StandingIn(file'.findings) = StandingIn(findings)
  BY <1>2 DEF StandingIn, IsLive
<1>4. ConfirmedIn(file'.findings) = [id \in DOMAIN findings |-> 0]
  BY <1>2 DEF ConfirmedIn
<1>5. DOMAIN StandingIn(findings) = DOMAIN findings
  BY DEF StandingIn
<1>6. CommittedIn(file'.baselines) = CommittedIn(baselines)
  BY <1>2
<1> QED BY <1>2, <1>3, <1>4, <1>5, <1>6 DEF Lifecycle!Save, Lifecycle!state, Lifecycle!Known

\* A load is the lifecycle's Restart, or refuses the file and changes nothing.
LEMMA LoadAbstract ==
  ASSUME NEW again, Load(again)
  PROVE  Lifecycle!Restart \/ UNCHANGED Lifecycle!vars
<1>1. CASE UNCHANGED <<baselines, findings>> /\ UNCHANGED file
  BY <1>1 DEF Lifecycle!vars
<1>2. CASE baselines' = file.baselines /\ findings' = file.findings /\ UNCHANGED file
  BY <1>2 DEF Lifecycle!Restart, Lifecycle!state
<1> QED BY <1>1, <1>2, LoadStep

\* Every step of the ledger is a step of the lifecycle or a stutter.
LEMMA NextAbstract ==
  ASSUME IInv, IInv', [Next]_vars
  PROVE  [Lifecycle!Next]_(Lifecycle!vars)
<1>1. CASE Mutate /\ UNCHANGED file
  <2>0. Table(baselines, findings)
    BY DEF IInv
  <2>1. CASE Quiet
    BY <1>1, <2>1, QuietAbstract DEF Lifecycle!vars
  <2>2. CASE \E t \in Targets, doc \in Documents : Recommitted(t, doc)
    BY <1>1, <2>2, CommitAbstract DEF Lifecycle!Next
  <2>3. ASSUME NEW o \in Outcomes, NEW S \in SUBSET Accepted(o), NEW required \in Confirmations,
               Evaluated(o, S, required)
        PROVE  Lifecycle!Next
    <3>1. Lifecycle!Evaluate(IF required = 0 THEN 1 ELSE required)
      BY <1>1, <2>3, EvaluateAbstract
    <3>2. (IF required = 0 THEN 1 ELSE required) \in {IF c = 0 THEN 1 ELSE c : c \in Confirmations}
      OBVIOUS
    <3> QED BY <3>1, <3>2 DEF Lifecycle!Next
  <2> QED BY <1>1, <2>0, <2>1, <2>2, <2>3, MutateStep
<1>2. CASE Save
  BY <1>2, SaveAbstract DEF Lifecycle!Next
<1>3. CASE \E again \in BOOLEAN : Load(again)
  BY <1>3, LoadAbstract DEF Lifecycle!Next
<1>4. CASE UNCHANGED vars
  BY <1>4 DEF vars, Lifecycle!vars
<1> QED BY <1>1, <1>2, <1>3, <1>4 DEF Next, Recover

\* The ledger implements the lifecycle: every operation, abandoned evaluations,
\* saves and restarts included, is a step of the lifecycle or none.
THEOREM LedgerImplementsLifecycle == Spec => ImplementsLifecycle
<1>1. Init => Lifecycle!Init
  BY InitAbstract
<1>2. IInv /\ IInv' /\ [Next]_vars => [Lifecycle!Next]_(Lifecycle!vars)
  BY NextAbstract
<1> QED BY <1>1, <1>2, LedgerInvariant, PTL DEF Spec, ImplementsLifecycle, Lifecycle!Spec

-----------------------------------------------------------------------------
(* What the lifecycle is for, from its own steps alone *)

\* Generations and standings that are as they have to be.
Current(generations, standings) ==
    /\ generations \in [Targets -> Nat]
    /\ DOMAIN standings \subseteq FindingIds
    /\ \A id \in DOMAIN standings :
          standings[id] = "live" => id.gen \in {0, generations[id.target]}

\* A restart goes back to the saved state, so that has to be current as well.
LifecycleInv ==
    /\ Current(CommittedIn(baselines), StandingIn(findings))
    /\ Current(CommittedIn(file.baselines), StandingIn(file.findings))

\* A commit leaves a finding of an older generation live only when there was no
\* generation before.
LEMMA LifecycleCommits ==
  ASSUME LifecycleInv, NEW t \in Targets, Lifecycle!Commit(t)
  PROVE  LifecycleInv'
<1> DEFINE old == CommittedIn(baselines)
           new == CommittedIn(baselines')
           was == StandingIn(findings)
           is  == StandingIn(findings')
<1>1. /\ new[t] \in Nat /\ new = [old EXCEPT ![t] = new[t]] /\ DOMAIN is = DOMAIN was
      /\ \A id \in DOMAIN was :
            IF old[t] # 0 /\ id.target = t /\ id.gen # new[t] /\ was[id] = "live"
              THEN is[id] \in {"Superseded", "Retired"}
              ELSE is[id] = was[id]
  BY DEF Lifecycle!Commit, Lifecycle!Known
<1>2. Current(old, was)
  BY DEF LifecycleInv
<1>3. /\ CommittedIn(file'.baselines) = CommittedIn(file.baselines)
      /\ StandingIn(file'.findings) = StandingIn(file.findings)
  BY DEF Lifecycle!Commit
<1> HIDE DEF old, new, was, is
<1>4. new \in [Targets -> Nat] /\ \A u \in Targets : u # t => new[u] = old[u]
  BY <1>1, <1>2 DEF Current
<1>5. ASSUME NEW id \in DOMAIN is, is[id] = "live"
      PROVE  id.gen \in {0, new[id.target]}
  <2>1. id \in DOMAIN was /\ id.target \in Targets
    BY <1>1, <1>2 DEF Current, FindingIds
  <2>2. was[id] = "live"
    BY <1>1, <1>5, <2>1
  <2>3. id.gen \in {0, old[id.target]}
    BY <1>2, <2>1, <2>2 DEF Current
  <2>4. CASE id.target # t
    BY <1>4, <2>1, <2>3, <2>4
  <2>5. CASE id.target = t /\ old[t] = 0
    BY <2>3, <2>5
  <2>6. CASE id.target = t /\ old[t] # 0
    BY <1>1, <1>5, <2>1, <2>2, <2>6
  <2> QED BY <2>4, <2>5, <2>6
<1>6. Current(new, is)
  BY <1>1, <1>2, <1>4, <1>5 DEF Current
<1> QED BY <1>3, <1>6 DEF LifecycleInv, new, is

\* An evaluation makes a finding live only against the committed generation.
LEMMA LifecycleEvaluates ==
  ASSUME LifecycleInv, NEW required, Lifecycle!Evaluate(required)
  PROVE  LifecycleInv'
<1> DEFINE was == StandingIn(findings)
           is  == StandingIn(findings')
<1>1. /\ CommittedIn(baselines') = CommittedIn(baselines)
      /\ CommittedIn(file'.baselines) = CommittedIn(file.baselines)
      /\ StandingIn(file'.findings) = StandingIn(file.findings)
      /\ DOMAIN is \subseteq FindingIds
  BY DEF Lifecycle!Evaluate
<1>2. ASSUME NEW id \in DOMAIN is, is[id] = "live"
      PROVE  id.gen \in {0, CommittedIn(baselines)[id.target]}
  <2>1. \/ Lifecycle!Seen(id) \/ Lifecycle!Untouched(id)
        \/ Lifecycle!Confirmed(id, required) \/ Lifecycle!Explained(id)
    BY DEF Lifecycle!Evaluate
  <2>2. CASE Lifecycle!Seen(id)
    BY <2>2 DEF Lifecycle!Seen
  <2>3. CASE Lifecycle!Untouched(id)
    <3>1. id \in DOMAIN was /\ was[id] = "live"
      BY <1>2, <2>3 DEF Lifecycle!Untouched, Lifecycle!Known
    <3> QED BY <3>1 DEF LifecycleInv, Current
  <2>4. CASE Lifecycle!Confirmed(id, required)
    <3>1. id \in DOMAIN was /\ was[id] = "live"
      BY <2>4 DEF Lifecycle!Confirmed, Lifecycle!Known
    <3> QED BY <3>1 DEF LifecycleInv, Current
  <2>5. CASE Lifecycle!Explained(id)
    BY <1>2, <2>5 DEF Lifecycle!Explained
  <2> QED BY <2>1, <2>2, <2>3, <2>4, <2>5
<1> QED BY <1>1, <1>2 DEF LifecycleInv, Current

\* A live finding is about the committed intent of its target, or was found
\* before there was any: through commits, evaluations in any number, saves and
\* restarts that go back to an older state. The steps of the lifecycle are all
\* this takes (ledger.cpp:164-286, 435-800).
THEOREM LifecycleStaysCurrent == Lifecycle!Spec => []Lifecycle!LiveIsCurrent
<1>1. Lifecycle!Init => LifecycleInv
  BY DEF Lifecycle!Init, Lifecycle!state, LifecycleInv, Current
<1>2. LifecycleInv /\ [Lifecycle!Next]_(Lifecycle!vars) => LifecycleInv'
  <2> SUFFICES ASSUME LifecycleInv, [Lifecycle!Next]_(Lifecycle!vars) PROVE LifecycleInv'
    OBVIOUS
  <2>1. CASE \E t \in Targets : Lifecycle!Commit(t)
    BY <2>1, LifecycleCommits
  <2>2. CASE \E required : Lifecycle!Evaluate(required)
    BY <2>2, LifecycleEvaluates
  <2>3. CASE Lifecycle!Save
    <3>1. /\ CommittedIn(file'.baselines) = CommittedIn(baselines)
          /\ StandingIn(file'.findings) = StandingIn(findings)
          /\ CommittedIn(baselines') = CommittedIn(baselines) /\ StandingIn(findings') = StandingIn(findings)
      BY <2>3 DEF Lifecycle!Save, Lifecycle!state
    <3> QED BY <3>1 DEF LifecycleInv
  <2>4. CASE Lifecycle!Restart
    <3>1. /\ CommittedIn(baselines') = CommittedIn(file.baselines)
          /\ StandingIn(findings') = StandingIn(file.findings)
          /\ CommittedIn(file'.baselines) = CommittedIn(file.baselines)
          /\ StandingIn(file'.findings) = StandingIn(file.findings)
      BY <2>4 DEF Lifecycle!Restart, Lifecycle!state
    <3> QED BY <3>1 DEF LifecycleInv
  <2>5. CASE UNCHANGED Lifecycle!vars
    <3>1. /\ CommittedIn(baselines') = CommittedIn(baselines) /\ StandingIn(findings') = StandingIn(findings)
          /\ CommittedIn(file'.baselines) = CommittedIn(file.baselines)
          /\ StandingIn(file'.findings) = StandingIn(file.findings)
      BY <2>5 DEF Lifecycle!vars
    <3> QED BY <3>1 DEF LifecycleInv
  <2> QED BY <2>1, <2>2, <2>3, <2>4, <2>5 DEF Lifecycle!Next
<1>3. LifecycleInv => Lifecycle!LiveIsCurrent
  BY DEF LifecycleInv, Current, Lifecycle!LiveIsCurrent, Lifecycle!Known
<1> QED BY <1>1, <1>2, <1>3, PTL DEF Lifecycle!Spec

-----------------------------------------------------------------------------
(* Groups *)

\* Buckets are disjoint: a finding names the group of the bucket it is in.
LEMMA BucketsDisjoint ==
  ASSUME NEW F, NEW S, NEW m \in Formed(F, S), NEW id \in m
  PROVE  /\ id \in DOMAIN F /\ id.target \in S /\ IsLive(F[id])
         /\ \A n \in Formed(F, S) : id \in n => n = m
         /\ GroupIdentity(m).target = id.target
<1> DEFINE live == {i \in DOMAIN F : i.target \in S /\ IsLive(F[i])}
           bucket(i) == {j \in live : SameBucket(i, j)}
<1>1. \A n \in Formed(F, S) : \E i \in live : n = bucket(i)
  BY DEF Formed
<1>2. ASSUME NEW n \in Formed(F, S), id \in n
      PROVE  n = bucket(id) /\ id \in live
  <2>1. PICK i \in live : n = bucket(i)
    BY <1>1
  <2>2. id \in live /\ SameBucket(i, id)
    BY <1>2, <2>1
  <2>3. \A j : SameBucket(i, j) <=> SameBucket(id, j)
    BY <2>2 DEF SameBucket
  <2> QED BY <2>1, <2>2, <2>3
<1>3. m = bucket(id) /\ id \in live
  BY <1>2
<1>4. \A n \in Formed(F, S) : id \in n => n = m
  BY <1>2, <1>3
<1>5. GroupIdentity(m).target = (CHOOSE i \in m : TRUE).target
  BY DEF GroupIdentity
<1>6. (CHOOSE i \in m : TRUE) \in m
  OBVIOUS
<1>7. GroupIdentity(m).target = id.target
  BY <1>3, <1>5, <1>6 DEF SameBucket
<1> QED BY <1>3, <1>4, <1>7

\* A completed pass leaves every group with members that name it.
LEMMA PassMembership ==
  ASSUME NEW o \in Outcomes, NEW S \in SUBSET Accepted(o), NEW material, NEW policy,
         NEW required \in Nat, NEW now,
         Table(baselines, findings), Membership(findings, groups)
  PROVE  LET p == Pass(o, S, S, material, policy, required, now)
         IN  Membership(p.findings, p.groups)
<1> DEFINE p == Pass(o, S, S, material, policy, required, now)
           F == Evolved(o, S, policy, required, now)
           formed == Formed(F, S)
<1>1. /\ p.findings = Assigned(F, S, formed)
      /\ \A g \in DOMAIN p.groups :
            \/ g \in DOMAIN groups /\ g.target \notin S /\ p.groups[g] = groups[g]
            \/ g \in Produced(formed) /\ p.groups[g] = MembersOf(formed, g)
  BY PassFields
<1>2. DOMAIN p.findings = DOMAIN F
  BY <1>1 DEF Assigned
<1>3. \A id \in DOMAIN F : Sound(F[id])
  BY EvolvedSound
<1>4. ASSUME NEW id \in DOMAIN findings, id.target \notin S
      PROVE  id \in DOMAIN F /\ F[id] = findings[id]
  BY <1>4 DEF Evolved
<1> HIDE DEF F, p
<1>5. ASSUME NEW g \in DOMAIN p.groups, NEW id \in p.groups[g]
      PROVE  /\ id \in DOMAIN p.findings /\ IsLive(p.findings[id])
             /\ p.findings[id].group = g /\ id.target = g.target
  <2>1. CASE g \in DOMAIN groups /\ g.target \notin S /\ p.groups[g] = groups[g]
    <3>1. /\ id \in DOMAIN findings /\ IsLive(findings[id])
          /\ findings[id].group = g /\ id.target = g.target
      BY <1>5, <2>1 DEF Membership
    <3>2. id \in DOMAIN F /\ F[id] = findings[id]
      BY <1>4, <2>1, <3>1
    <3>a. Sound(F[id]) /\ id.target \notin S
      BY <1>3, <2>1, <3>1, <3>2
    <3> HIDE DEF formed
    <3>b. Assigned(F, S, formed)[id] = F[id]
      BY <3>2, <3>a, AssignedSound
    <3>3. p.findings[id] = F[id]
      BY <1>1, <3>b
    <3> QED BY <1>2, <3>1, <3>2, <3>3
  <2>2. CASE g \in Produced(formed) /\ p.groups[g] = MembersOf(formed, g)
    <3> DEFINE m == p.groups[g]
    <3>1. \E n \in formed : GroupIdentity(n) = g
      BY <2>2 DEF Produced
    <3>2. m \in formed /\ GroupIdentity(m) = g
      BY <2>2, <3>1 DEF MembersOf
    <3> HIDE DEF m
    <3>a. id \in m
      BY <1>5 DEF m
    <3>3. /\ id \in DOMAIN F /\ id.target \in S /\ IsLive(F[id])
          /\ \A n \in formed : id \in n => n = m
          /\ g.target = id.target
      BY <3>2, <3>a, BucketsDisjoint
    <3> HIDE DEF formed
    <3>4. Sound(F[id])
      BY <1>3, <3>3
    <3> DEFINE f == Assigned(F, S, formed)[id]
    <3>5. f.state = F[id].state /\ f.group = GroupIdentity(m)
      BY <3>2, <3>a, <3>3, <3>4, AssignedSound
    <3>6. p.findings[id] = f
      BY <1>1
    <3> HIDE DEF f
    <3> QED BY <1>2, <3>2, <3>3, <3>5, <3>6 DEF IsLive
  <2> QED BY <1>1, <2>1, <2>2
<1> QED BY <1>5 DEF Membership, p

\* Ending suppressions disturbs no group.
LEMMA QuietMembership ==
  ASSUME NEW F, NEW G, NEW H, Membership(F, G), DOMAIN F \subseteq DOMAIN H,
         \A id \in DOMAIN F : SameStanding(F[id], H[id]) /\ H[id].group = F[id].group
  PROVE  Membership(H, G)
  BY DEF Membership, SameStanding

\* An evaluation that is not cut short leaves every group with live members
\* that name it.
LEMMA EvaluateMembership ==
  ASSUME Table(baselines, findings), Membership(findings, groups), Evaluate,
         status' = "Limit" => UNCHANGED <<baselines, findings, groups, suppressions>>
  PROVE  Membership(findings', groups')
<1>1. PICK o \in Outcomes, material \in Material, policy \in Policies,
           required \in Confirmations, now \in Times :
             ApplyEvaluation(o, material, policy, required, now)
  BY DEF Evaluate
<1>2. required \in Nat
  BY LedgerAssumption
<1>3. CASE status' = "Limit"
  BY <1>3 DEF Membership
<1>4. CASE ApplyAll(o, material, policy, required, now)
  <2> DEFINE p == Pass(o, Accepted(o), Accepted(o), material, policy, required, now)
             A == p.findings
  <2>1. findings' = WithoutExpired(A, now) /\ groups' = p.groups
    BY <1>4 DEF ApplyAll
  <2>2. Membership(A, p.groups)
    BY <1>2, PassMembership
  <2>3. \A id \in DOMAIN A : Sound(A[id])
    BY <1>2, AppliedPass
  <2> HIDE DEF p
  <2>4. DOMAIN findings' = DOMAIN A
    BY <2>1 DEF WithoutExpired
  <2>5. ASSUME NEW id \in DOMAIN A
        PROVE  SameStanding(A[id], findings'[id]) /\ findings'[id].group = A[id].group
    BY <2>1, <2>3, WithoutExpiredSound
  <2> QED BY <2>1, <2>2, <2>4, <2>5, QuietMembership
<1> QED BY <1>1, <1>3, <1>4 DEF ApplyEvaluation, Refuse, ApplyPart

\* So does a commit, which takes the findings it closes out of their groups.
LEMMA CommitMembership ==
  ASSUME Table(baselines, findings), Membership(findings, groups),
         NEW t \in Targets, NEW doc \in Documents, CommitIntent(t, doc)
  PROVE  Membership(findings', groups')
<1>1. CASE UNCHANGED <<findings, groups>>
  BY <1>1 DEF Membership
<1>2. CASE RebaseFindingsForTarget(t, doc.gen, doc.managed)
  <2> DEFINE outdated == {id \in DOMAIN findings : Outdated(t, doc.gen, id)}
  <2>1. ASSUME NEW g \in DOMAIN groups'
        PROVE  /\ g \in DOMAIN groups /\ groups'[g] = groups[g]
               /\ \A id \in outdated : findings[id].group # g
    BY <1>2 DEF RebaseFindingsForTarget
  <2>2. ASSUME NEW id \in DOMAIN findings, id \notin outdated
        PROVE  id \in DOMAIN findings' /\ findings'[id] = findings[id]
    BY <1>2, <2>2 DEF RebaseFindingsForTarget
  <2> QED BY <2>1, <2>2 DEF Membership
<1> QED BY <1>1, <1>2 DEF CommitIntent, Refuse

\* Every step preserves that, for the ledger and for its file.
LEMMA MembershipStep ==
  ASSUME IInv, GInv, [Next]_vars,
         [status' = "Limit" => UNCHANGED <<baselines, findings, groups, suppressions>>]_vars
  PROVE  GInv'
<1>0. Table(baselines, findings)
  BY DEF IInv
<1>1. CASE UNCHANGED vars
  BY <1>1 DEF vars, GInv, Membership
<1>2. CASE Mutate /\ UNCHANGED file /\ ~UNCHANGED vars
  <2>0. Membership(findings, groups)
    BY DEF GInv
  <2>1. ASSUME Quiet PROVE Membership(findings', groups')
    BY <2>0, <2>1, QuietMembership DEF Quiet
  <2>2. CASE \E t \in Targets, doc \in Documents : CommitIntent(t, doc)
    <3>1. Membership(findings', groups')
      BY <1>0, <2>0, <2>2, CommitMembership
    <3> QED BY <1>2, <3>1 DEF GInv
  <2>3. CASE Evaluate
    <3>1. Membership(findings', groups')
      BY <1>0, <1>2, <2>0, <2>3, EvaluateMembership
    <3> QED BY <1>2, <3>1 DEF GInv
  <2>4. CASE Operate \/ \E now \in Times : ExpireSuppressions(now)
    <3>1. Quiet
      BY <1>0, <2>4, OperateStep, ExpireStep
    <3> QED BY <1>2, <2>1, <3>1 DEF GInv
  <2>5. CASE RecordEvent
    BY <1>2, <2>0, <2>5 DEF RecordEvent, GInv, Membership
  <2> QED BY <1>2, <2>2, <2>3, <2>4, <2>5 DEF Mutate
<1>3. CASE Save
  <2>1. /\ file'.groups = groups /\ DOMAIN file'.findings = DOMAIN findings
        /\ \A id \in DOMAIN findings :
              /\ file'.findings[id].state = findings[id].state
              /\ file'.findings[id].group = findings[id].group
        /\ UNCHANGED <<findings, groups>>
    BY <1>0, <1>3, SaveStep
  <2>2. Membership(findings, groups)' /\ Membership(file'.findings, groups)
    BY <2>1 DEF GInv, Membership, IsLive
  <2> QED BY <2>1, <2>2 DEF GInv
<1>4. CASE \E again \in BOOLEAN : Load(again)
  BY <1>4, LoadStep DEF GInv, Membership
<1> QED BY <1>1, <1>2, <1>3, <1>4 DEF Next, Recover

\* While no evaluation is abandoned half way, groups and findings agree on who
\* belongs to what, through resolution, rebasing, regrouping and restarts.  The
\* hypothesis is needed: Ledger_RefusedAsAWhole.cfg shows that the code does not
\* give it when the group table is full.
THEOREM GroupsAgree == Spec /\ RefusedAsAWhole => []GroupsConsistent
<1> DEFINE Whole == status' = "Limit" => UNCHANGED <<baselines, findings, groups, suppressions>>
<1>1. Init => GInv
  <2> SUFFICES ASSUME Init PROVE GInv
    OBVIOUS
  <2>1. DOMAIN groups = {} /\ file.groups = groups
    BY DEF Init, Encoded
  <2> QED BY <2>1 DEF GInv, Membership
<1>2. IInv /\ GInv /\ [Next]_vars /\ [Whole]_vars => GInv'
  BY MembershipStep
<1>3. IInv /\ GInv => GroupsConsistent
  BY DEF IInv, Table, Sound, GInv, Membership, GroupsConsistent
<1> QED BY <1>1, <1>2, <1>3, LedgerInvariant, PTL DEF Spec, RefusedAsAWhole

-----------------------------------------------------------------------------
(* Room for groups *)

\* The causes CauseFor may name.
Causes == {"GenerationNotApplied", "PartialApplication", "SourceConflict", "StaleEvidence",
           "InsufficientCoverage", "UnsupportedField", "MissingIntent", "SingleField"}

\* The group table has room for every cause of every target with intent, and of
\* one target more.  By default it has (limits.hpp:44,74: 4096 targets and 100000
\* groups).
RoomForGroups == MaxTargets \in Nat /\ MaxGroups \in Nat /\ MaxGroups > 8 * (MaxTargets + 1)

\* Before there is intent nothing is found but its absence.
IsMissingIntent(id) ==
    id.loc = TargetScope /\ id.klass = "IntentMissing" /\ id.qual = NoQualifier
FromMissingIntent(F) == \A id \in DOMAIN F : id.gen = 0 => IsMissingIntent(id)

\* Groups belong to targets with intent, and a target has one group per cause.
OnePerCause(T, G) ==
    /\ \A g \in G : g.target \in T /\ g.cause \in Causes
    /\ \A g, h \in G : g.target = h.target /\ g.cause = h.cause => g = h

Sized(B, F, G) ==
    /\ Cardinality(DOMAIN B) <= MaxTargets
    /\ FromMissingIntent(F)
    /\ OnePerCause(DOMAIN B, DOMAIN G)

SInv == Sized(baselines, findings, groups) /\ Sized(file.baselines, file.findings, file.groups)

\* The order of the causes tells them apart.
LEMMA CausesRanked ==
  ASSUME NEW a \in Causes, NEW b \in Causes
  PROVE  /\ CauseRank(a) \in 1..8
         /\ CauseRank(a) = CauseRank(b) => a = b
<1>1. CauseRank("SingleField") = 1 /\ CauseRank("GenerationNotApplied") = 2
  BY DEF CauseRank
<1>2. CauseRank("PartialApplication") = 3 /\ CauseRank("SourceConflict") = 4
  BY DEF CauseRank
<1>3. CauseRank("StaleEvidence") = 5 /\ CauseRank("InsufficientCoverage") = 6
  BY DEF CauseRank
<1>4. CauseRank("MissingIntent") = 7 /\ CauseRank("UnsupportedField") = 8
  BY DEF CauseRank
<1>5. \A c \in Causes : CauseRank(c) \in 1..8
  BY <1>1, <1>2, <1>3, <1>4 DEF Causes
<1> QED BY <1>1, <1>2, <1>3, <1>4, <1>5 DEF Causes

\* Groups with one per cause are at most eight per target.
LEMMA GroupsFit ==
  ASSUME NEW T, IsFiniteSet(T), NEW G, OnePerCause(T, G)
  PROVE  IsFiniteSet(G) /\ Cardinality(G) \in Nat /\ Cardinality(G) <= 8 * Cardinality(T)
<1>0. PICK n \in Int : n = 8
  OBVIOUS
<1> DEFINE place == [g \in G |-> <<g.target, CauseRank(g.cause)>>]
           P == T \X (1..n)
<1>1. IsFiniteSet(1..n) /\ Cardinality(1..n) = 8
  <2>1. IsFiniteSet(1..n) /\ Cardinality(1..n) = IF 1 > n THEN 0 ELSE n - 1 + 1
    BY FS_Interval
  <2> QED BY <1>0, <2>1
<1>2. IsFiniteSet(P) /\ Cardinality(P) = Cardinality(T) * Cardinality(1..n)
  BY <1>1, FS_Product
<1>3. \A g \in G : place[g] \in P
  BY <1>0, CausesRanked DEF OnePerCause
<1>4. ASSUME NEW g \in G, NEW h \in G, place[g] = place[h]
      PROVE  g = h
  <2>1. g.target = h.target /\ CauseRank(g.cause) = CauseRank(h.cause)
    BY <1>4
  <2>2. g.cause = h.cause
    BY <2>1, CausesRanked DEF OnePerCause
  <2> QED BY <2>1, <2>2 DEF OnePerCause
<1>5. place \in [G -> P]
  BY <1>3
<1> HIDE DEF P, place
<1>6. place \in Injection(G, P)
  BY <1>4, <1>5 DEF Injection, IsInjective
<1>7. IsFiniteSet(G) /\ Cardinality(G) <= Cardinality(P)
  BY <1>2, <1>6, FS_Injection
<1>8. Cardinality(G) \in Nat /\ Cardinality(T) \in Nat
  BY <1>7, FS_CardinalityType
<1> QED BY <1>1, <1>2, <1>7, <1>8

\* The evaluation of a target without intent drafts at most that it is missing.
LEMMA DraftedMissing ==
  ASSUME NEW o \in Outcomes, NEW t \in DOMAIN o, NEW id \in DraftIds(o, t), id.gen = 0
  PROVE  IsMissingIntent(id)
<1> DEFINE e == o[t]
<1>1. e \in Evaluations
  BY DEF Outcomes
<1>2. PICK d \in e.drafts : id = IdOf(t, e.gen, d)
  BY DEF DraftIds
<1>3. e.gen = 0 /\ id.loc = d.loc /\ id.klass = d.klass /\ id.qual = d.qual
  BY <1>2 DEF IdOf
<1>4. \/ e \in {Evaluation(FALSE, 0, {}, FALSE),
                Evaluation(FALSE, 0, {ScopeDraft("IntentMissing")}, FALSE)}
      \/ e \in {Evaluation(TRUE, g, {ScopeDraft("StaleObservation")}, FALSE) : g \in 1..MaxGeneration}
      \/ e \in [hasBaseline : {TRUE}, gen : 1..MaxGeneration, decidable : BOOLEAN,
                drafts : UNION {{x \in SUBSET LeafDrafts(q) : Comparable(x)} : q \in Qualifiers}]
  BY <1>1, Zenon DEF Evaluations
<1> HIDE DEF e
<1>5. CASE e \in {Evaluation(FALSE, 0, {}, FALSE),
                  Evaluation(FALSE, 0, {ScopeDraft("IntentMissing")}, FALSE)}
  <2>1. e.drafts \in {{}, {ScopeDraft("IntentMissing")}}
    BY <1>5 DEF Evaluation
  <2>2. d = ScopeDraft("IntentMissing")
    BY <1>2, <2>1, Zenon
  <2> QED BY <1>3, <2>2 DEF ScopeDraft, IsMissingIntent
<1>6. CASE e \in {Evaluation(TRUE, g, {ScopeDraft("StaleObservation")}, FALSE) : g \in 1..MaxGeneration}
  <2>1. PICK g \in 1..MaxGeneration : e = Evaluation(TRUE, g, {ScopeDraft("StaleObservation")}, FALSE)
    BY <1>6
  <2>2. e.gen = g
    BY <2>1 DEF Evaluation
  <2> QED BY <1>3, <2>2
<1>7. CASE e \in [hasBaseline : {TRUE}, gen : 1..MaxGeneration, decidable : BOOLEAN,
                  drafts : UNION {{x \in SUBSET LeafDrafts(q) : Comparable(x)} : q \in Qualifiers}]
  <2>1. e.gen \in 1..MaxGeneration
    BY <1>7, Zenon
  <2> QED BY <1>3, <2>1
<1> QED BY <1>4, <1>5, <1>6, <1>7

\* One target forms one group per cause: what was found before there was intent is
\* one finding and forms none, everything else is of the committed generation.
LEMMA ProducedOnePerCause ==
  ASSUME NEW B, NEW F, NEW S, FromMissingIntent(F),
         \A id \in DOMAIN F : /\ id \in FindingIds
                              /\ IsLive(F[id]) => id.gen \in {0, GenerationIn(B, id.target)}
  PROVE  OnePerCause(DOMAIN B, Produced(Formed(F, S)))
<1> DEFINE live == {i \in DOMAIN F : i.target \in S /\ IsLive(F[i])}
           bucket(i) == {j \in live : SameBucket(i, j)}
           formed == Formed(F, S)
<1>1. \A m \in formed : CauseFormsGroup(m) /\ \E i \in live : m = bucket(i)
  BY DEF Formed
<1>2. ASSUME NEW i \in live, i.gen = 0, CauseFormsGroup(bucket(i)) PROVE FALSE
  <2>1. ASSUME NEW j \in bucket(i) PROVE j = i
    <3>0. /\ i \in DOMAIN F /\ j \in DOMAIN F /\ SameBucket(i, j)
      BY <2>1
    <3>1. /\ i \in FindingIds /\ j \in FindingIds /\ j.gen = 0 /\ j.target = i.target
          /\ IsMissingIntent(i) /\ IsMissingIntent(j)
      BY <1>2, <3>0 DEF SameBucket, FromMissingIntent
    <3>2. ASSUME NEW k \in FindingIds
          PROVE  k = [target |-> k.target, loc |-> k.loc, klass |-> k.klass, gen |-> k.gen,
                      qual |-> k.qual]
      BY DEF FindingIds
    <3>3. i.loc = j.loc /\ i.klass = j.klass /\ i.qual = j.qual /\ i.gen = j.gen
      BY <1>2, <3>1 DEF IsMissingIntent
    <3> QED BY <3>1, <3>2, <3>3, Zenon
  <2>2. bucket(i) = {i}
    BY <2>1 DEF SameBucket
  <2>3. Cardinality({i}) = 1
    BY FS_Singleton
  <2>4. i.klass = "IntentMissing"
    BY <1>2 DEF FromMissingIntent, IsMissingIntent
  <2>5. CauseFor(i.klass) = "MissingIntent"
    BY <2>4 DEF CauseFor
  <2> HIDE DEF bucket
  <2> QED BY <1>2, <2>2, <2>3, <2>5 DEF CauseFormsGroup
<1>3. ASSUME NEW m \in formed
      PROVE  \E i \in live : /\ m = bucket(i) /\ i.gen = GenerationIn(B, i.target)
                             /\ i.target \in DOMAIN B
                             /\ GroupIdentity(m).target = i.target
                             /\ GroupIdentity(m).cause = CauseFor(i.klass)
  <2>1. PICK i \in live : m = bucket(i)
    BY <1>1
  <2>2. i.gen # 0
    BY <1>1, <1>2, <2>1
  <2>3. i.gen = GenerationIn(B, i.target) /\ i.target \in DOMAIN B
    BY <2>2 DEF GenerationIn
  <2>4. i \in m
    BY <2>1 DEF SameBucket
  <2> DEFINE c == CHOOSE j \in m : TRUE
  <2>5. c \in m
    BY <2>4
  <2>6. GroupIdentity(m).target = c.target /\ GroupIdentity(m).cause = CauseFor(c.klass)
    BY DEF GroupIdentity
  <2> HIDE DEF c
  <2>7. SameBucket(i, c)
    BY <2>1, <2>5
  <2> QED BY <2>1, <2>3, <2>6, <2>7 DEF SameBucket
<1> HIDE DEF formed
<1>4. \A k : CauseFor(k) \in Causes
  BY DEF CauseFor, Causes
<1>5. ASSUME NEW g \in Produced(formed) PROVE g.target \in DOMAIN B /\ g.cause \in Causes
  BY <1>3, <1>4, <1>5 DEF Produced
<1>6. ASSUME NEW g \in Produced(formed), NEW h \in Produced(formed),
             g.target = h.target, g.cause = h.cause
      PROVE  g = h
  <2>1. PICK m \in formed, n \in formed : g = GroupIdentity(m) /\ h = GroupIdentity(n)
    BY <1>6 DEF Produced
  <2>2. PICK i \in live : /\ m = bucket(i) /\ i.gen = GenerationIn(B, i.target)
                          /\ g.target = i.target /\ g.cause = CauseFor(i.klass)
    BY <1>3, <2>1
  <2>3. PICK j \in live : /\ n = bucket(j) /\ j.gen = GenerationIn(B, j.target)
                          /\ h.target = j.target /\ h.cause = CauseFor(j.klass)
    BY <1>3, <2>1
  <2>4. SameBucket(i, j)
    BY <1>6, <2>2, <2>3 DEF SameBucket
  <2>5. \A k : SameBucket(i, k) <=> SameBucket(j, k)
    BY <2>4 DEF SameBucket
  <2>6. bucket(i) = bucket(j)
    BY <2>5
  <2> QED BY <2>1, <2>2, <2>3, <2>6
<1> QED BY <1>5, <1>6 DEF OnePerCause, formed

\* The findings an evaluation leaves before the groups are refreshed form one group
\* per cause.
LEMMA EvolvedOnePerCause ==
  ASSUME NEW o \in Outcomes, NEW S \in SUBSET Accepted(o), NEW policy,
         NEW required \in Nat, NEW now, Table(baselines, findings), FromMissingIntent(findings)
  PROVE  LET F == Evolved(o, S, policy, required, now)
         IN  FromMissingIntent(F) /\ OnePerCause(DOMAIN baselines, Produced(Formed(F, S)))
<1> DEFINE F == Evolved(o, S, policy, required, now)
<1>1. DOMAIN F = DOMAIN findings \cup NewIds(o, S)
  BY DEF Evolved
<1>2. ASSUME NEW id \in DOMAIN F
      PROVE  id \in FindingIds /\ EvolvesTo(o, S, required, id, F[id])
  BY EvolvedSound
<1> HIDE DEF F
<1>3. ASSUME NEW id \in DOMAIN F, IsLive(F[id])
      PROVE  id.gen \in {0, GenerationIn(baselines, id.target)}
  <2>1. EvolvesTo(o, S, required, id, F[id])
    BY <1>2
  <2>2. CASE id.target \in S /\ id \in DraftIds(o, id.target)
    BY <2>2, AcceptedCurrent, DraftTyped
  <2>3. CASE id \in DOMAIN findings /\ IsLive(findings[id])
    BY <2>3 DEF Table
  <2> QED BY <1>3, <2>1, <2>2, <2>3 DEF EvolvesTo, SameStanding
<1>4. ASSUME NEW id \in DOMAIN F, id.gen = 0
      PROVE  IsMissingIntent(id)
  <2>1. CASE id \in DOMAIN findings
    BY <1>4, <2>1 DEF FromMissingIntent
  <2>2. CASE id \in NewIds(o, S)
    <3>1. PICK t \in S : id \in DraftIds(o, t)
      BY <2>2 DEF NewIds, AllDrafted
    <3>2. t \in DOMAIN o
      BY DEF Accepted
    <3> QED BY <1>4, <3>1, <3>2, DraftedMissing
  <2> QED BY <1>1, <2>1, <2>2
<1>5. FromMissingIntent(F)
  BY <1>4 DEF FromMissingIntent
<1>6. OnePerCause(DOMAIN baselines, Produced(Formed(F, S)))
  BY <1>2, <1>3, <1>5, ProducedOnePerCause
<1> QED BY <1>5, <1>6 DEF F

\* With room for them no group finds the table full, however far the refresh has
\* come.
LEMMA NoneBlocked ==
  ASSUME RoomForGroups, Table(baselines, findings), Sized(baselines, findings, groups),
         NEW o \in Outcomes, NEW S \in SUBSET Accepted(o), NEW policy,
         NEW required \in Nat, NEW now, NEW t
  PROVE  LET F == Evolved(o, S, policy, required, now)
         IN  Blocked(F, Formed(F, S), S, t) = {}
<1> DEFINE F == Evolved(o, S, policy, required, now)
           formed == Formed(F, S)
           produced == Produced(formed)
           done == {u \in S : u < t}
           table == {g \in DOMAIN groups : g.target \notin done}
                      \cup ({g \in produced : g.target \in done} \ Dropped(F, done))
           fresh == {g \in produced : g.target = t} \ DOMAIN groups
           before(g) == {h \in fresh : Precedes(h, g)}
<1>1. OnePerCause(DOMAIN baselines, produced)
  BY EvolvedOnePerCause DEF Sized
<1>2. OnePerCause(DOMAIN baselines, DOMAIN groups) /\ Cardinality(DOMAIN baselines) <= MaxTargets
  BY DEF Sized
<1>3. Blocked(F, formed, S, t) =
        {g \in fresh : Cardinality(table) + Cardinality(before(g)) >= MaxGroups}
  BY DEF Blocked
<1> HIDE DEF F, formed, produced, done
<1>4. IsFiniteSet(DOMAIN baselines) /\ Cardinality(DOMAIN baselines) \in Nat
  <2>1. NumTargets \in Int /\ IsFiniteSet(Targets)
    BY LedgerAssumption, FS_Interval DEF Targets
  <2> QED BY <2>1, FS_Subset, FS_CardinalityType DEF Table
<1>5. Cardinality(table) \in Nat /\ Cardinality(table) <= 8 * Cardinality(DOMAIN baselines)
  <2>1. OnePerCause(DOMAIN baselines, table)
    BY <1>1, <1>2 DEF OnePerCause
  <2> HIDE DEF table
  <2> QED BY <1>4, <2>1, GroupsFit
<1>6. ASSUME NEW g
      PROVE  Cardinality(before(g)) \in Nat /\ Cardinality(before(g)) <= 8
  <2>1. OnePerCause({t}, before(g))
    BY <1>1 DEF OnePerCause
  <2>2. IsFiniteSet({t}) /\ Cardinality({t}) = 1
    BY FS_Singleton
  <2> HIDE DEF before
  <2> QED BY <2>1, <2>2, GroupsFit
<1> HIDE DEF table, fresh, before
<1>7. ASSUME NEW g PROVE ~(Cardinality(table) + Cardinality(before(g)) >= MaxGroups)
  <2>1. /\ MaxTargets \in Nat /\ MaxGroups \in Nat /\ MaxGroups > 8 * (MaxTargets + 1)
    BY DEF RoomForGroups
  <2>2. Cardinality(before(g)) \in Nat /\ Cardinality(before(g)) <= 8
    BY <1>6
  <2> QED BY <1>2, <1>4, <1>5, <2>1, <2>2
<1>8. Blocked(F, formed, S, t) = {}
  BY <1>3, <1>7
<1> QED BY <1>8 DEF F, formed

\* A pass over accepted targets overflows at none of them, and leaves one group per
\* cause.
LEMMA PassSized ==
  ASSUME RoomForGroups, Table(baselines, findings), Sized(baselines, findings, groups),
         NEW o \in Outcomes, NEW S \in SUBSET Accepted(o), NEW done, NEW material, NEW policy,
         NEW required \in Nat, NEW now
  PROVE  LET p == Pass(o, S, done, material, policy, required, now)
         IN  /\ p.overflow = {}
             /\ done = S => OnePerCause(DOMAIN baselines, DOMAIN p.groups)
<1> DEFINE F == Evolved(o, S, policy, required, now)
           formed == Formed(F, S)
           blocked == UNION {Blocked(F, formed, S, t) : t \in S}
           p == Pass(o, S, done, material, policy, required, now)
<1>1. Tabulated(F) = F
  BY Zenon DEF Tabulated
<1>2. p.overflow = {g.target : g \in blocked}
  BY <1>1 DEF Pass
<1>3. \A t \in S : Blocked(F, formed, S, t) = {}
  BY NoneBlocked
<1>4. OnePerCause(DOMAIN baselines, Produced(formed))
  BY EvolvedOnePerCause DEF Sized
<1>5. \A g \in DOMAIN p.groups :
         \/ g \in DOMAIN groups /\ g.target \notin done
         \/ g \in Produced(formed) /\ (g.target \in done \/ g.target \in S \ done)
  BY PassFields
<1> HIDE DEF F, formed, p
<1>6. p.overflow = {}
  BY <1>2, <1>3
<1>7. ASSUME done = S PROVE OnePerCause(DOMAIN baselines, DOMAIN p.groups)
  <2>1. OnePerCause(DOMAIN baselines, DOMAIN groups)
    BY DEF Sized
  <2>2. \A g \in DOMAIN p.groups :
           \/ g \in DOMAIN groups /\ g.target \notin S
           \/ g \in Produced(formed) /\ g.target \in S
    BY <1>5, <1>7
  <2> QED BY <1>4, <2>1, <2>2 DEF OnePerCause
<1> QED BY <1>6, <1>7 DEF p

\* Refused operations change nothing, evaluations are never abandoned.
Whole == status' = "Limit" => UNCHANGED <<baselines, findings, groups, suppressions>>

\* An evaluation is refused at once or completed.
LEMMA EvaluateSized ==
  ASSUME RoomForGroups, Table(baselines, findings), Sized(baselines, findings, groups), Evaluate
  PROVE  Whole /\ Sized(baselines, findings, groups)'
<1>1. PICK o \in Outcomes, material \in Material, policy \in Policies,
           required \in Confirmations, now \in Times :
             ApplyEvaluation(o, material, policy, required, now)
  BY DEF Evaluate
<1>2. required \in Nat
  BY LedgerAssumption
<1>3. CASE Refuse("Limit")
  BY <1>3 DEF Refuse, Whole, Sized
<1>4. CASE ApplyAll(o, material, policy, required, now) /\ UNCHANGED baselines
  <2>a. PICK S \in SUBSET Accepted(o) : S = Accepted(o)
    OBVIOUS
  <2> DEFINE p == Pass(o, S, S, material, policy, required, now)
             F == Evolved(o, S, policy, required, now)
  <2>1. findings' = WithoutExpired(p.findings, now) /\ groups' = p.groups /\ status' = "Ok"
    BY <1>4, <2>a DEF ApplyAll
  <2>b. DOMAIN p.findings = DOMAIN F
    <3>1. p.findings = Assigned(F, S, Formed(F, S))
      BY PassFields
    <3> HIDE DEF p, F
    <3> QED BY <3>1 DEF Assigned
  <2>c. OnePerCause(DOMAIN baselines, DOMAIN p.groups)
    BY <1>2, PassSized
  <2>2. DOMAIN p.findings = DOMAIN F /\ OnePerCause(DOMAIN baselines, DOMAIN p.groups)
    BY <2>b, <2>c
  <2>3. FromMissingIntent(F)
    BY <1>2, EvolvedOnePerCause DEF Sized
  <2> HIDE DEF p, F
  <2>4. DOMAIN findings' = DOMAIN F
    BY <2>1, <2>2 DEF WithoutExpired
  <2>5. FromMissingIntent(findings')
    BY <2>3, <2>4 DEF FromMissingIntent
  <2>6. Cardinality(DOMAIN baselines') <= MaxTargets /\ OnePerCause(DOMAIN baselines', DOMAIN groups')
    BY <1>4, <2>1, <2>2 DEF Sized
  <2> QED BY <2>1, <2>5, <2>6 DEF Sized, Whole
<1>5. ASSUME NEW t \in Accepted(o), ApplyPart(o, t, material, policy, required, now) PROVE FALSE
  <2> DEFINE done == {u \in Accepted(o) : u < t}
             p == Pass(o, done \cup {t}, done, material, policy, required, now)
  <2>1. p.overflow = {t}
    BY <1>5 DEF ApplyPart
  <2>2. p.overflow = {}
    BY <1>2, PassSized
  <2> QED BY <2>1, <2>2
<1> QED BY <1>1, <1>3, <1>4, <1>5 DEF ApplyEvaluation

\* A commit adds a target only while there is room for it.
LEMMA CommitSized ==
  ASSUME RoomForGroups, Table(baselines, findings), Sized(baselines, findings, groups),
         NEW t \in Targets, NEW doc \in Documents, CommitIntent(t, doc)
  PROVE  Whole /\ Sized(baselines, findings, groups)'
<1>1. CASE \E code \in {"Limit", "Stale", "Ok", "Conflict"} : Refuse(code)
  BY <1>1 DEF Refuse, Whole, Sized
<1>2. CASE /\ t \notin DOMAIN baselines /\ Cardinality(DOMAIN baselines) < MaxTargets
           /\ Commit(t, doc) /\ UNCHANGED <<findings, groups, history>>
  <2>1. DOMAIN baselines' = DOMAIN baselines \cup {t} /\ status' = "Ok"
    BY <1>2 DEF Commit
  <2>2. IsFiniteSet(DOMAIN baselines)
    <3>1. NumTargets \in Int /\ IsFiniteSet(Targets)
      BY LedgerAssumption, FS_Interval DEF Targets
    <3> QED BY <3>1, FS_Subset DEF Table
  <2>3. /\ Cardinality(DOMAIN baselines') = Cardinality(DOMAIN baselines) + 1
        /\ Cardinality(DOMAIN baselines) \in Nat
    BY <1>2, <2>1, <2>2, FS_AddElement, FS_CardinalityType
  <2>4. Cardinality(DOMAIN baselines') <= MaxTargets
    BY <1>2, <2>3 DEF RoomForGroups
  <2>5. OnePerCause(DOMAIN baselines', DOMAIN groups') /\ FromMissingIntent(findings')
    BY <1>2, <2>1 DEF Sized, OnePerCause
  <2> QED BY <2>1, <2>4, <2>5 DEF Whole, Sized
<1>3. CASE /\ t \in DOMAIN baselines /\ Commit(t, doc)
           /\ RebaseFindingsForTarget(t, doc.gen, doc.managed)
  <2>1. DOMAIN baselines' = DOMAIN baselines /\ status' = "Ok"
    BY <1>3 DEF Commit
  <2>2. DOMAIN findings' = DOMAIN findings /\ DOMAIN groups' \subseteq DOMAIN groups
    BY <1>3 DEF RebaseFindingsForTarget
  <2>3. OnePerCause(DOMAIN baselines', DOMAIN groups') /\ FromMissingIntent(findings')
    BY <2>1, <2>2 DEF Sized, OnePerCause, FromMissingIntent
  <2> QED BY <2>1, <2>3 DEF Whole, Sized
<1> QED BY <1>1, <1>2, <1>3 DEF CommitIntent

\* Every step refuses as a whole and leaves room in the ledger and in its file.
LEMMA SizedStep ==
  ASSUME RoomForGroups, IInv, SInv, [Next]_vars
  PROVE  SInv' /\ [Whole]_vars
<1>0. Table(baselines, findings) /\ Sized(baselines, findings, groups)
  BY DEF IInv, SInv
<1>1. CASE UNCHANGED vars
  BY <1>1 DEF vars, SInv, Sized
<1>2. CASE Mutate /\ UNCHANGED file
  <2>1. CASE \E t \in Targets, doc \in Documents : CommitIntent(t, doc)
    BY <1>0, <1>2, <2>1, CommitSized DEF SInv
  <2>2. CASE Evaluate
    BY <1>0, <1>2, <2>2, EvaluateSized DEF SInv
  <2>3. ASSUME Operate \/ \E now \in Times : ExpireSuppressions(now)
        PROVE  SInv' /\ Whole
    <3>1. Quiet
      BY <1>0, <2>3, OperateStep, ExpireStep
    <3>2. Sized(baselines, findings, groups)'
      BY <1>0, <3>1 DEF Quiet, Sized, FromMissingIntent
    <3>3. Whole
      BY <2>3 DEF Operate, Suppress, ClearSuppression, Acknowledge, ClearAcknowledgement,
                  Touch, Refuse, ExpireSuppressions, Whole
    <3> QED BY <1>2, <3>2, <3>3 DEF SInv
  <2>4. CASE RecordEvent
    BY <1>0, <1>2, <2>4 DEF RecordEvent, SInv, Sized, Whole
  <2> QED BY <1>2, <2>1, <2>2, <2>3, <2>4 DEF Mutate
<1>3. CASE Save
  <2>1. /\ file'.baselines = baselines /\ file'.groups = groups
        /\ DOMAIN file'.findings = DOMAIN findings /\ UNCHANGED <<baselines, findings, groups>>
    BY <1>0, <1>3, SaveStep
  <2>2. FromMissingIntent(findings) => FromMissingIntent(file'.findings)
    BY <2>1 DEF FromMissingIntent
  <2>3. SInv'
    BY <1>0, <2>1, <2>2 DEF SInv, Sized
  <2>4. Whole
    BY <1>3 DEF Save, Whole
  <2> QED BY <2>3, <2>4
<1>4. CASE \E again \in BOOLEAN : Load(again)
  <2>1. PICK again \in BOOLEAN : Load(again)
    BY <1>4
  <2>2. Whole
    BY <2>1 DEF Load, Refuse, Whole
  <2>3. SInv'
    BY <2>1, LoadStep DEF SInv, Sized
  <2> QED BY <2>2, <2>3
<1> QED BY <1>1, <1>2, <1>3, <1>4 DEF Next, Recover

\* "An evaluation that would exceed the finding or group envelope is refused as a
\* whole" (README.md:424-425) holds whenever max_groups exceeds eight times
\* max_targets by more than eight, as it does by default: the group table is then
\* never full (ledger.cpp:837), because a target has at most one group per cause
\* and a target without intent none.
THEOREM RefusedAsAWholeWithRoom ==
  ASSUME RoomForGroups
  PROVE  Spec => RefusedAsAWhole
<1>1. Init => SInv
  <2> SUFFICES ASSUME Init PROVE SInv
    OBVIOUS
  <2>1. DOMAIN baselines = {} /\ DOMAIN findings = {} /\ DOMAIN groups = {}
    BY DEF Init
  <2>2. /\ file.baselines = baselines /\ file.groups = groups /\ DOMAIN file.findings = DOMAIN findings
    BY DEF Init, Encoded
  <2>3. Cardinality({}) <= MaxTargets
    BY FS_EmptySet DEF RoomForGroups
  <2> QED BY <2>1, <2>2, <2>3 DEF SInv, Sized, OnePerCause, FromMissingIntent
<1>2. IInv /\ SInv /\ [Next]_vars => SInv' /\ [Whole]_vars
  BY SizedStep
<1> QED BY <1>1, <1>2, LedgerInvariant, PTL DEF Spec, RefusedAsAWhole, Whole

\* Groups and findings then agree without any condition on what happens.
THEOREM GroupsAgreeWithRoom ==
  ASSUME RoomForGroups
  PROVE  Spec => []GroupsConsistent
BY RefusedAsAWholeWithRoom, GroupsAgree, PTL

-----------------------------------------------------------------------------
(* Refusals when the group table may be full *)

\* A ledger holds finitely many findings and its bounds are numbers.
FiniteTables == IsFiniteSet(FindingIds) /\ MaxGroups \in Nat /\ MaxFindings \in Nat

\* A nonempty set of natural numbers has a least one.
LEMMA LeastNumber ==
  ASSUME NEW T \in SUBSET Nat, T # {}
  PROVE  \E x \in T : \A y \in T : x <= y
<1> DEFINE R == OpToRel(<, Nat)
<1>1. R = {ss \in Nat \X Nat : ss[1] < ss[2]}
  BY Zenon DEF OpToRel
<1>2. \A x, y \in Nat : <<y, x>> \in R <=> y < x
  BY <1>1
<1>3. IsWellFoundedOn(R, Nat)
  BY NatLessThanWellFounded
<1> HIDE DEF R
<1>4. PICK x \in T : \A y \in T : ~(<<y, x>> \in R)
  BY <1>3, WFMin
<1>5. ASSUME NEW y \in T PROVE x <= y
  <2>1. x \in Nat /\ y \in Nat
    OBVIOUS
  <2>2. ~(y < x)
    BY <1>2, <1>4, <2>1
  <2> QED BY <2>1, <2>2
<1> QED BY <1>5

\* The place of a group in the order buckets are visited in.
PlaceOf(g) == 9 * g.gen + CauseRank(g.cause)

\* That order is the order of the places.
LEMMA PrecedesByPlace ==
  ASSUME NEW g, NEW h, g.gen \in Nat, h.gen \in Nat
  PROVE  /\ PlaceOf(g) \in Nat
         /\ Precedes(g, h) <=> PlaceOf(g) < PlaceOf(h)
<1>1. \A c : CauseRank(c) \in Nat /\ CauseRank(c) >= 1 /\ CauseRank(c) <= 8
  BY DEF CauseRank
<1>2. PICK a \in Nat : a = g.gen
  OBVIOUS
<1>3. PICK b \in Nat : b = h.gen
  OBVIOUS
<1>4. PICK i \in Nat : i = CauseRank(g.cause) /\ i >= 1 /\ i <= 8
  BY <1>1
<1>5. PICK j \in Nat : j = CauseRank(h.cause) /\ j >= 1 /\ j <= 8
  BY <1>1
<1>6. 9 * a + i < 9 * b + j <=> a < b \/ (a = b /\ i < j)
  BY <1>4, <1>5
<1> QED BY <1>2, <1>3, <1>4, <1>5, <1>6 DEF PlaceOf, Precedes

\* The groups one evaluation forms are finitely many, and of known generations.
LEMMA ProducedFinite ==
  ASSUME FiniteTables, Table(baselines, findings), NEW o \in Outcomes,
         NEW S \in SUBSET Accepted(o), NEW policy, NEW required \in Nat, NEW now
  PROVE  LET F == Evolved(o, S, policy, required, now) IN
         /\ IsFiniteSet(Produced(Formed(F, S)))
         /\ \A g \in Produced(Formed(F, S)) : g.gen \in Nat
<1> DEFINE F == Evolved(o, S, policy, required, now)
           formed == Formed(F, S)
<1>1. DOMAIN F \subseteq FindingIds
  BY EvolvedSound
<1> HIDE DEF F
<1>2. formed \subseteq SUBSET DOMAIN F /\ \A m \in formed : m # {}
  BY DEF Formed, SameBucket
<1>3. IsFiniteSet(DOMAIN F) /\ IsFiniteSet(SUBSET DOMAIN F)
  BY <1>1, FS_Subset, FS_SUBSET DEF FiniteTables
<1>4. IsFiniteSet(formed)
  BY <1>2, <1>3, FS_Subset
<1> HIDE DEF formed
<1>5. IsFiniteSet(Produced(formed))
  <2> DEFINE identify == [m \in formed |-> GroupIdentity(m)]
  <2>1. identify \in Surjection(formed, Produced(formed))
    BY DEF Surjection, Produced
  <2> QED BY <1>4, <2>1, FS_Surjection
<1>6. ASSUME NEW g \in Produced(formed) PROVE g.gen \in Nat
  <2>1. PICK m \in formed : g = GroupIdentity(m)
    BY DEF Produced
  <2>2. PICK id \in m : id = CHOOSE i \in m : TRUE
    BY <1>2
  <2>3. id \in FindingIds /\ g.gen = id.gen
    BY <1>1, <1>2, <2>1, <2>2 DEF GroupIdentity
  <2> QED BY <2>3, LedgerAssumption DEF FindingIds
<1> QED BY <1>5, <1>6 DEF formed, F

\* The groups a pass has no room for.
BlockedIn(F, formed, S) == UNION {Blocked(F, formed, S, u) : u \in S}

\* What is whole of the groups of the targets done.
WholeIn(F, formed, done) == {g \in Produced(formed) : g.target \in done} \ Dropped(F, done)

\* The groups of other targets than those done.
KeptIn(done) == {g \in DOMAIN groups : g.target \notin done}

\* The targets a pass p has no room for, and the groups it leaves.
PassLeaves(p, F, formed, blocked, S, done) ==
    /\ \A u \in p.overflow : \E g \in blocked : g.target = u
    /\ KeptIn(done) \subseteq DOMAIN p.groups
    /\ WholeIn(F, formed, done) \subseteq DOMAIN p.groups
    /\ \A u \in S \ done : Touched(formed, blocked, u) \subseteq DOMAIN p.groups
    /\ DOMAIN p.groups \subseteq DOMAIN groups \cup Produced(formed)

\* What a pass does to the group table.
LEMMA PassTables ==
  ASSUME NEW o, NEW S, NEW done, NEW material, NEW policy, NEW required, NEW now,
         NEW F, F = Evolved(o, S, policy, required, now), NEW formed, formed = Formed(F, S),
         NEW blocked, blocked = BlockedIn(F, formed, S),
         NEW p, p = Pass(o, S, done, material, policy, required, now)
  PROVE  PassLeaves(p, F, formed, blocked, S, done)
<1> DEFINE A == Assigned(F, done, formed)
           kept == {g \in DOMAIN groups : g.target \notin done}
           whole == {g \in Produced(formed) : g.target \in done} \ Dropped(F, done)
           written == whole \cup UNION {Touched(formed, blocked, u) : u \in S \ done}
<1>1. Tabulated(F) = F /\ Tabulated(A) = A
  BY Zenon DEF Tabulated
<1>2. p.overflow = {g.target : g \in blocked}
  BY <1>1 DEF Pass, BlockedIn
<1>3. p.groups = [g \in kept \cup written |->
                     IF g \in written THEN MembersOf(formed, g) ELSE groups[g]]
  BY <1>1 DEF Pass, BlockedIn
<1>4. \A u : Touched(formed, blocked, u) \subseteq Produced(formed)
  BY DEF Touched
<1>5. DOMAIN p.groups = kept \cup written
  BY <1>3
<1>6. \A u \in S \ done : Touched(formed, blocked, u) \subseteq written
  OBVIOUS
<1>7. kept \subseteq DOMAIN groups /\ written \subseteq Produced(formed) /\ whole \subseteq written
  BY <1>4
<1>8. \A u \in p.overflow : \E g \in blocked : g.target = u
  BY <1>2
<1> HIDE DEF written
<1> QED BY <1>5, <1>6, <1>7, <1>8 DEF PassLeaves, KeptIn, WholeIn

\* Where an evaluation is abandoned the group table is full: everything that comes
\* before the first group without room has been written.
LEMMA AbandonedFull ==
  ASSUME FiniteTables, Table(baselines, findings), IsFiniteSet(DOMAIN groups),
         NEW o \in Outcomes, NEW t \in Accepted(o), NEW material, NEW policy,
         NEW required \in Nat, NEW now,
         NEW done, done = {u \in Accepted(o) : u < t}, NEW S, S = done \cup {t},
         NEW p, p = Pass(o, S, done, material, policy, required, now),
         t \in p.overflow
  PROVE  Cardinality(DOMAIN p.groups) >= MaxGroups
<1>a. PICK F : F = Evolved(o, S, policy, required, now)
  OBVIOUS
<1>b. PICK formed : formed = Formed(F, S)
  OBVIOUS
<1>c. PICK blocked : blocked = BlockedIn(F, formed, S)
  OBVIOUS
<1> DEFINE produced == Produced(formed)
           kept == KeptIn(done)
           whole == WholeIn(F, formed, done)
           table == kept \cup whole
           fresh == {g \in produced : g.target = t} \ DOMAIN groups
           before(g) == {h \in fresh : Precedes(h, g)}
<1>0. S \in SUBSET Accepted(o) /\ t \in Nat /\ \A u \in S : u \in Nat
  BY DEF Accepted, Outcomes, Targets
<1>1. /\ \A u \in p.overflow : \E g \in blocked : g.target = u
      /\ kept \subseteq DOMAIN p.groups /\ whole \subseteq DOMAIN p.groups
      /\ \A u \in S \ done : Touched(formed, blocked, u) \subseteq DOMAIN p.groups
      /\ DOMAIN p.groups \subseteq DOMAIN groups \cup produced
  <2>1. PassLeaves(p, F, formed, blocked, S, done)
    BY <1>a, <1>b, <1>c, PassTables, Zenon
  <2> QED BY <2>1 DEF PassLeaves
<1>2. IsFiniteSet(produced) /\ \A g \in produced : g.gen \in Nat
  BY <1>0, <1>a, <1>b, ProducedFinite
<1>3. {u \in S : u < t} = done
  BY <1>0
<1>4. ASSUME NEW u \in S, NEW g \in Blocked(F, formed, S, u)
      PROVE  g.target = u /\ g \in produced
  BY DEF Blocked
<1>5. Blocked(F, formed, S, t) =
        {g \in fresh : Cardinality(table) + Cardinality(before(g)) >= MaxGroups}
  <2> DEFINE T(D) == {g \in DOMAIN groups : g.target \notin D}
                       \cup ({g \in produced : g.target \in D} \ Dropped(F, D))
  <2>1. Blocked(F, formed, S, t) =
          {g \in fresh : Cardinality(T({u \in S : u < t})) + Cardinality(before(g)) >= MaxGroups}
    BY DEF Blocked
  <2>2. table = T(done)
    BY DEF KeptIn, WholeIn
  <2> HIDE DEF T, fresh, before, table
  <2> QED BY <1>3, <2>1, <2>2
<1> HIDE DEF produced
<1>6. \A g \in blocked : g.target = t => g \in Blocked(F, formed, S, t)
  BY <1>4, <1>c DEF BlockedIn
<1>7. PICK b \in Blocked(F, formed, S, t) :
        \A h \in Blocked(F, formed, S, t) : PlaceOf(b) <= PlaceOf(h)
  <2> DEFINE places == {PlaceOf(g) : g \in Blocked(F, formed, S, t)}
  <2>1. \A g \in Blocked(F, formed, S, t) : PlaceOf(g) \in Nat
    BY <1>2, <1>5, PrecedesByPlace
  <2>2. PICK g \in blocked : g.target = t
    BY <1>1
  <2>3. places \in SUBSET Nat /\ places # {}
    <3>1. g \in Blocked(F, formed, S, t)
      BY <1>6, <2>2
    <3>2. PlaceOf(g) \in places
      BY <3>1
    <3>3. places \subseteq Nat
      BY <2>1
    <3> HIDE DEF places
    <3> QED BY <3>2, <3>3
  <2>4. PICK x \in places : \A y \in places : x <= y
    BY <2>3, LeastNumber
  <2>5. PICK a \in Blocked(F, formed, S, t) : x = PlaceOf(a)
    BY <2>4
  <2>6. \A h \in Blocked(F, formed, S, t) : PlaceOf(h) \in places
    OBVIOUS
  <2> HIDE DEF places
  <2> QED BY <2>4, <2>5, <2>6
<1>8. ASSUME NEW h \in before(b) PROVE h \in Touched(formed, blocked, t)
  <2>1. h \in fresh /\ Precedes(h, b) /\ h.gen \in Nat /\ b.gen \in Nat
    BY <1>2, <1>5, <1>7, <1>8
  <2>2. ASSUME NEW k \in blocked, k.target = t PROVE ~(k = h \/ Precedes(k, h))
    <3>1. k \in Blocked(F, formed, S, t) /\ k.gen \in Nat
      BY <1>2, <1>5, <1>6, <2>2
    <3>2. PlaceOf(b) <= PlaceOf(k)
      BY <1>7, <3>1
    <3>3. PlaceOf(h) < PlaceOf(b) /\ PlaceOf(h) \in Nat /\ PlaceOf(b) \in Nat /\ PlaceOf(k) \in Nat
      BY <2>1, <3>1, PrecedesByPlace
    <3>4. Precedes(k, h) <=> PlaceOf(k) < PlaceOf(h)
      BY <2>1, <3>1, PrecedesByPlace
    <3>5. ~(PlaceOf(k) < PlaceOf(h)) /\ k # h
      BY <3>2, <3>3
    <3> QED BY <3>4, <3>5
  <2> QED BY <2>1, <2>2 DEF Touched, produced
<1>9. t \in S \ done
  BY <1>0
<1>10. table \cup before(b) \subseteq DOMAIN p.groups
  <2>1. Touched(formed, blocked, t) \subseteq DOMAIN p.groups
    BY <1>1, <1>9
  <2> HIDE DEF before
  <2>2. before(b) \subseteq DOMAIN p.groups
    BY <1>8, <2>1
  <2> QED BY <1>1, <2>2
<1>11. table \cap before(b) = {}
  BY <1>9 DEF KeptIn, WholeIn
<1>12. IsFiniteSet(table) /\ IsFiniteSet(before(b)) /\ IsFiniteSet(DOMAIN p.groups)
  <2>1. IsFiniteSet(kept) /\ IsFiniteSet(whole) /\ IsFiniteSet(before(b))
    BY <1>2, FS_Subset DEF KeptIn, WholeIn, produced
  <2>2. DOMAIN p.groups \subseteq DOMAIN groups \cup produced
    BY <1>1
  <2>3. IsFiniteSet(DOMAIN groups \cup produced)
    BY <1>2, FS_Union
  <2>4. IsFiniteSet(table)
    BY <2>1, FS_Union
  <2> QED BY <2>1, <2>2, <2>3, <2>4, FS_Subset
<1> HIDE DEF table, before
<1>13. Cardinality(table) + Cardinality(before(b)) >= MaxGroups
  BY <1>5, <1>7
<1>14. Cardinality(table \cup before(b)) = Cardinality(table) + Cardinality(before(b))
  <2>1. Cardinality(table \cup before(b))
          = Cardinality(table) + Cardinality(before(b)) - Cardinality(table \cap before(b))
    BY <1>12, FS_Union
  <2>2. Cardinality(table \cap before(b)) = 0
    BY <1>11, FS_EmptySet
  <2>3. Cardinality(table) \in Nat /\ Cardinality(before(b)) \in Nat
    BY <1>12, FS_CardinalityType
  <2> QED BY <2>1, <2>2, <2>3
<1>15. /\ Cardinality(table \cup before(b)) <= Cardinality(DOMAIN p.groups)
       /\ Cardinality(table \cup before(b)) \in Nat /\ Cardinality(DOMAIN p.groups) \in Nat
  <2>1. IsFiniteSet(table \cup before(b))
    BY <1>10, <1>12, FS_Subset
  <2> QED BY <1>10, <1>12, <2>1, FS_Subset, FS_CardinalityType
<1> QED BY <1>13, <1>14, <1>15 DEF FiniteTables

\* The ledger and its file hold finitely many groups.
FInv == IsFiniteSet(DOMAIN groups) /\ IsFiniteSet(DOMAIN file.groups)

\* What a step that is refused for a limit leaves.
WholeOrFull ==
    status' = "Limit" =>
         \/ UNCHANGED <<baselines, findings, groups, suppressions>>
         \/ /\ Cardinality(DOMAIN groups') >= MaxGroups
            /\ Cardinality(DOMAIN findings') <= MaxFindings
            /\ UNCHANGED <<baselines, suppressions>>

\* An evaluation is refused at once, completed, or abandoned at a full group table.
LEMMA EvaluateAtLimit ==
  ASSUME FiniteTables, Table(baselines, findings), IsFiniteSet(DOMAIN groups), Evaluate
  PROVE  WholeOrFull /\ IsFiniteSet(DOMAIN groups')
<1>1. PICK o \in Outcomes, material \in Material, policy \in Policies,
           required \in Confirmations, now \in Times :
             ApplyEvaluation(o, material, policy, required, now)
  BY DEF Evaluate
<1>2. required \in Nat
  BY LedgerAssumption
<1>3. CASE Refuse("Limit")
  BY <1>3 DEF Refuse, WholeOrFull
<1>4. ASSUME NEW S \in SUBSET Accepted(o), NEW done, NEW p,
             p = Pass(o, S, done, material, policy, required, now)
      PROVE  IsFiniteSet(DOMAIN p.groups)
  <2>1. PICK F : F = Evolved(o, S, policy, required, now)
    OBVIOUS
  <2>2. PICK formed : formed = Formed(F, S)
    OBVIOUS
  <2>3. PICK blocked : blocked = BlockedIn(F, formed, S)
    OBVIOUS
  <2>4. PassLeaves(p, F, formed, blocked, S, done)
    BY <1>4, <2>1, <2>2, <2>3, PassTables, Zenon
  <2>5. IsFiniteSet(Produced(formed))
    BY <1>2, <2>1, <2>2, ProducedFinite
  <2>6. IsFiniteSet(DOMAIN groups \cup Produced(formed))
    BY <2>5, FS_Union
  <2> QED BY <2>4, <2>6, FS_Subset DEF PassLeaves
<1>5. CASE ApplyAll(o, material, policy, required, now) /\ UNCHANGED baselines
  <2>1. PICK p : /\ p = Pass(o, Accepted(o), Accepted(o), material, policy, required, now)
                 /\ groups' = p.groups /\ status' = "Ok"
    BY <1>5 DEF ApplyAll
  <2> QED BY <1>4, <2>1 DEF WholeOrFull
<1>6. CASE /\ FitsEnvelope(o) /\ UNCHANGED baselines
           /\ \E t \in Accepted(o) : ApplyPart(o, t, material, policy, required, now)
  <2>1. PICK t \in Accepted(o) : ApplyPart(o, t, material, policy, required, now)
    BY <1>6
  <2>2. PICK done : done = {u \in Accepted(o) : u < t}
    OBVIOUS
  <2>3. PICK S : S = done \cup {t}
    OBVIOUS
  <2>4. S \in SUBSET Accepted(o)
    BY <2>2, <2>3
  <2>5. PICK p : /\ p = Pass(o, S, done, material, policy, required, now)
                 /\ t \in p.overflow /\ findings' = p.findings /\ groups' = p.groups
                 /\ UNCHANGED suppressions
    BY <2>1, <2>2, <2>3 DEF ApplyPart
  <2>6. IsFiniteSet(DOMAIN groups')
    BY <1>4, <2>4, <2>5
  <2>7. Cardinality(DOMAIN groups') >= MaxGroups
    BY <1>2, <2>2, <2>3, <2>5, AbandonedFull
  <2>8. Cardinality(DOMAIN findings') <= MaxFindings
    <3>1. DOMAIN findings' = DOMAIN findings \cup NewIds(o, S)
      BY <1>2, <2>4, <2>5, AppliedPass
    <3>2. DOMAIN findings' \subseteq DOMAIN findings \cup NewIds(o, Accepted(o))
      BY <2>4, <3>1 DEF NewIds, AllDrafted
    <3>3. DOMAIN findings \cup NewIds(o, Accepted(o)) \subseteq FindingIds
      <4>1. \A u \in Accepted(o) : DraftIds(o, u) \subseteq FindingIds
        BY DraftTyped DEF Accepted
      <4> QED BY <4>1 DEF Table, NewIds, AllDrafted
    <3>4. IsFiniteSet(DOMAIN findings \cup NewIds(o, Accepted(o)))
      BY <3>3, FS_Subset DEF FiniteTables
    <3>5. Cardinality(DOMAIN findings \cup NewIds(o, Accepted(o))) <= MaxFindings
      BY <1>6 DEF FitsEnvelope
    <3>6. /\ Cardinality(DOMAIN findings') <= Cardinality(DOMAIN findings \cup NewIds(o, Accepted(o)))
          /\ IsFiniteSet(DOMAIN findings')
      BY <3>2, <3>4, FS_Subset
    <3>7. /\ Cardinality(DOMAIN findings') \in Nat
          /\ Cardinality(DOMAIN findings \cup NewIds(o, Accepted(o))) \in Nat
      BY <3>4, <3>6, FS_CardinalityType
    <3> QED BY <3>5, <3>6, <3>7 DEF FiniteTables
  <2> QED BY <1>6, <2>5, <2>6, <2>7, <2>8 DEF WholeOrFull
<1> QED BY <1>1, <1>3, <1>5, <1>6 DEF ApplyEvaluation

\* Every step that is refused for a limit has changed nothing, or was abandoned at a
\* full group table.
LEMMA LimitStep ==
  ASSUME FiniteTables, IInv, FInv, [Next]_vars
  PROVE  FInv' /\ [WholeOrFull]_vars
<1>0. Table(baselines, findings) /\ IsFiniteSet(DOMAIN groups) /\ IsFiniteSet(DOMAIN file.groups)
  BY DEF IInv, FInv
<1>1. CASE UNCHANGED vars
  BY <1>0, <1>1 DEF vars, FInv
<1>2. CASE Mutate /\ UNCHANGED file
  <2>1. CASE \E t \in Targets, doc \in Documents : CommitIntent(t, doc)
    <3>1. PICK t \in Targets, doc \in Documents : CommitIntent(t, doc)
      BY <2>1
    <3>2. DOMAIN groups' \subseteq DOMAIN groups
      BY <3>1 DEF CommitIntent, Refuse, RebaseFindingsForTarget
    <3>3. WholeOrFull
      BY <3>1 DEF CommitIntent, Refuse, Commit, WholeOrFull
    <3> QED BY <1>0, <1>2, <3>2, <3>3, FS_Subset DEF FInv
  <2>2. CASE Evaluate
    BY <1>0, <1>2, <2>2, EvaluateAtLimit DEF FInv
  <2>3. ASSUME Operate \/ (\E now \in Times : ExpireSuppressions(now)) \/ RecordEvent
        PROVE  FInv' /\ WholeOrFull
    <3>1. groups' = groups
      BY <2>3 DEF Operate, Suppress, ClearSuppression, Acknowledge, ClearAcknowledgement,
                  Touch, Refuse, ExpireSuppressions, RecordEvent
    <3>2. WholeOrFull
      BY <2>3 DEF Operate, Suppress, ClearSuppression, Acknowledge, ClearAcknowledgement,
                  Touch, Refuse, ExpireSuppressions, RecordEvent, WholeOrFull
    <3> QED BY <1>0, <1>2, <3>1, <3>2 DEF FInv
  <2> QED BY <1>2, <2>1, <2>2, <2>3 DEF Mutate
<1>3. CASE Save
  <2>1. file'.groups = groups /\ groups' = groups /\ WholeOrFull
    BY <1>3 DEF Save, Encoded, WholeOrFull
  <2> QED BY <1>0, <2>1 DEF FInv
<1>4. CASE \E again \in BOOLEAN : Load(again)
  <2>1. PICK again \in BOOLEAN : Load(again)
    BY <1>4
  <2>2. WholeOrFull
    BY <2>1 DEF Load, Refuse, WholeOrFull
  <2> QED BY <1>0, <2>1, <2>2, LoadStep DEF FInv
<1> QED BY <1>1, <1>2, <1>3, <1>4 DEF Next, Recover

\* For any number of targets, whichever of them are fenced (ledger.cpp:448-474), and
\* any sizes of the tables: what is refused for a limit has changed nothing, but for an
\* evaluation that met a full group table (ledger.cpp:837); and even that one keeps
\* within the finding table and leaves intent and suppressions alone.
THEOREM RefusedWithoutTrace ==
  ASSUME FiniteTables
  PROVE  Spec => RefusedUnlessGroupsFull
<1>1. Init => FInv
  BY FS_EmptySet DEF Init, Encoded, FInv
<1>2. IInv /\ FInv /\ [Next]_vars => FInv' /\ [WholeOrFull]_vars
  BY LimitStep
<1> QED BY <1>1, <1>2, LedgerInvariant, PTL DEF Spec, RefusedUnlessGroupsFull, WholeOrFull
=============================================================================
