----------------------- MODULE ServerLifecycle_proofs -----------------------
(***************************************************************************)
(* The safety properties of the server's threads, for any number of        *)
(* connections, places in the session table and restarts.                  *)
(*                                                                         *)
(* SlotStillThere and QuietAfterStop speak about one moment of the accept  *)
(* loop and of Stop.  What makes them true is where a session can be in    *)
(* between: in the table, or in the hands of one of the three that join    *)
(* threads, and counted as accepted from the moment its slot is counted    *)
(* until its thread has counted it as closed.                              *)
(***************************************************************************)
EXTENDS ServerLifecycle, FiniteSetTheorems, TLAPS

\* What the stage of Stop, of the accept loop and of Stats says about the
\* listener, the table and the threads being joined.
Phases ==
    /\ caller \in {"shutdown", "joinAccept"} => ~listening
    /\ caller \in {"close", "shutdown", "joinAccept"} => accept # "none"
    /\ caller \in {"collect", "joinSessions"} => accept = "none"
    /\ accept = "none" /\ caller # "collect" => sessions = {}
    /\ accept # "insert" => joining["accept"] = {}
    /\ caller # "joinSessions" => joining["stop"] = {}
    /\ monitor # "join" => joining["stats"] = {}
    /\ next + backlog <= Connections + 1

\* Who has a session, by what its thread does next.
Places ==
    \A s \in Ids :
        /\ s >= next => thread[s] = "none"
        /\ thread[s] = "slot" => s \in sessions
        /\ thread[s] \in {"check", "read", "close"} => s \in sessions \/ s \in joining["stop"]
        /\ thread[s] = "count" =>
              \/ s \in sessions           \/ s \in joining["stop"]
              \/ s \in joining["accept"]  \/ s \in joining["stats"]

\* The session the accept loop is setting up.
Setup ==
    /\ accept \in {"insert", "count", "spawn"} => current \in Ids /\ current < next
    /\ accept = "insert" => thread[current] = "none"
    /\ accept \in {"count", "spawn"} => thread[current] = "slot"

\* The session on the thread of the caller of ServeSingleSession.
Single ==
    /\ caller = "once" => \E s \in Ids : thread[s] = "once"
    /\ \A s \in Ids : thread[s] = "once" => caller = "once"
    /\ \A s, t \in Ids : thread[s] = "once" /\ thread[t] = "once" => s = t

\* The sessions that a table of threads has not counted as closed.
OwedStates == {"slot", "check", "read", "close", "count", "once", "failed"}
Owed(f)    == {s \in Ids : f[s] \in OwedStates}

\* A slot that is in the table and not counted yet.
Uncounted == IF accept = "count" THEN 1 ELSE 0

Balance == accepted + Uncounted = closed + Cardinality(Owed(thread))

IInv == TypeOK /\ Phases /\ Places /\ Setup /\ Single /\ Balance

-----------------------------------------------------------------------------
(* Counting the sessions that are owed a close *)

\* There are finitely many of them.
LEMMA OwedFinite ==
    ASSUME NEW f
    PROVE  IsFiniteSet(Owed(f)) /\ Cardinality(Owed(f)) \in Nat
<1>1. IsFiniteSet(Ids)
  BY FS_Interval, ServerAssumption DEF Ids
<1> QED
  BY <1>1, FS_Subset, FS_CardinalityType DEF Owed

\* A thread that moves from one owed state to another is still owed.
LEMMA OwedSame ==
    ASSUME NEW f, NEW g, \A s \in Ids : f[s] \in OwedStates <=> g[s] \in OwedStates
    PROVE  Owed(g) = Owed(f)
  BY DEF Owed

\* A session that opens is one more.
LEMMA OwedMore ==
    ASSUME NEW f, NEW g, NEW s \in Ids,
           f[s] \notin OwedStates, g[s] \in OwedStates,
           \A t \in Ids \ {s} : g[t] = f[t]
    PROVE  Cardinality(Owed(g)) = Cardinality(Owed(f)) + 1
<1>1. Owed(g) = Owed(f) \cup {s} /\ s \notin Owed(f)
  BY DEF Owed
<1> QED
  BY <1>1, OwedFinite, FS_AddElement

\* A session that is counted as closed is one less.
LEMMA OwedLess ==
    ASSUME NEW f, NEW g, NEW s \in Ids,
           f[s] \in OwedStates, g[s] \notin OwedStates,
           \A t \in Ids \ {s} : g[t] = f[t]
    PROVE  Cardinality(Owed(f)) = Cardinality(Owed(g)) + 1
  BY OwedMore

-----------------------------------------------------------------------------
(* The steps *)

\* A step that moves no thread, counts nothing and leaves the setting up of a
\* slot alone keeps the balance.
LEMMA BalanceKept ==
    ASSUME Balance, UNCHANGED <<accepted, closed>>,
           (accept = "count") <=> (accept = "count")',
           Owed(thread)' = Owed(thread)
    PROVE  Balance'
  BY DEF Balance, Uncounted

\* Start, and the steps of Stop up to the join of the accept thread, move no
\* session.
LEMMA StopsKeep ==
    ASSUME IInv, Start \/ StopBegin \/ StopListening \/ CloseAllSessions \/ StopJoinAccept
    PROVE  IInv'
<1> USE DEF IInv
<1>1. TypeOK'
  <2>1. CASE Start
    <3>1. starts' \in 0..MaxStarts /\ backlog' \in 0..Connections
      BY <2>1, ServerAssumption DEF Start, TypeOK
    <3> QED
      BY <2>1, <3>1 DEF TypeOK, Start, counters
  <2>2. CASE StopBegin
    BY <2>2 DEF TypeOK, StopBegin, counters
  <2>3. CASE StopListening
    <3>1. 0 \in 0..Connections
      BY ServerAssumption
    <3> QED
      BY <2>3, <3>1 DEF TypeOK, StopListening, counters
  <2>4. CASE CloseAllSessions
    <3>1. shut' \in [Ids -> BOOLEAN]
      BY <2>4, Zenon DEF CloseAllSessions
    <3> QED
      BY <2>4, <3>1 DEF TypeOK, CloseAllSessions, flags, counters
  <2>5. CASE StopJoinAccept
    BY <2>5 DEF TypeOK, StopJoinAccept, flags, counters
  <2> QED
    BY <2>1, <2>2, <2>3, <2>4, <2>5
<1>2. Phases'
  <2>1. CASE Start
    BY <2>1, ServerAssumption DEF TypeOK, Phases, Start
  <2>2. CASE StopBegin
    BY <2>2 DEF Phases, StopBegin
  <2>3. CASE StopListening
    BY <2>3, ServerAssumption DEF TypeOK, Phases, StopListening
  <2>4. CASE CloseAllSessions \/ StopJoinAccept
    BY <2>4 DEF Phases, CloseAllSessions, StopJoinAccept, flags
  <2> QED
    BY <2>1, <2>2, <2>3, <2>4
<1>3. Places'
  BY DEF Places, Start, StopBegin, StopListening, CloseAllSessions, StopJoinAccept, flags
<1>4. Setup'
  BY DEF Setup, Start, StopBegin, StopListening, CloseAllSessions, StopJoinAccept, flags
<1>5. Single'
  BY DEF Single, Start, StopBegin, StopListening, CloseAllSessions, StopJoinAccept
<1>6. Balance'
  BY BalanceKept
     DEF Start, StopBegin, StopListening, CloseAllSessions, StopJoinAccept, counters
<1> QED
  BY <1>1, <1>2, <1>3, <1>4, <1>5, <1>6

\* The table is emptied: started threads go to Stop, and slots without one are
\* given up, and stay owed.
LEMMA StopCollectKeeps == ASSUME IInv, StopCollect PROVE IInv'
<1> USE DEF IInv
<1>1. TypeOK'
  BY DEF TypeOK, StopCollect, Moved, flags, counters
<1>2. Phases'
  BY DEF TypeOK, Phases, StopCollect, flags, counters
<1>3. Places'
  BY DEF TypeOK, Phases, Places, StopCollect, Moved, Started, Unstarted
<1>4. Setup'
  BY DEF Phases, Setup, StopCollect
<1>5. Single'
  BY DEF TypeOK, Single, StopCollect, Unstarted
<1>6. Owed(thread)' = Owed(thread)
  <2>1. \A s \in Ids : thread[s] \in OwedStates <=> thread'[s] \in OwedStates
    BY DEF TypeOK, StopCollect, Unstarted, OwedStates
  <2> QED
    BY <2>1, OwedSame DEF Owed
<1>7. Balance'
  BY <1>6, BalanceKept DEF StopCollect, counters
<1> QED
  BY <1>1, <1>2, <1>3, <1>4, <1>5, <1>7

\* Stop lets go of threads that have ended.
LEMMA StopReturnKeeps == ASSUME IInv, StopReturn PROVE IInv'
<1> USE DEF IInv
<1>1. TypeOK'
  BY DEF TypeOK, StopReturn, flags, counters
<1>2. Phases'
  BY DEF TypeOK, Phases, StopReturn, flags, counters
<1>3. Places'
  BY DEF TypeOK, Places, StopReturn, StopWaits, Joined
<1>4. Setup'
  BY DEF Setup, StopReturn
<1>5. Single'
  BY DEF TypeOK, Single, StopReturn
<1>6. Balance'
  BY BalanceKept DEF StopReturn, counters
<1> QED
  BY <1>1, <1>2, <1>3, <1>4, <1>5, <1>6

\* The accept loop, but for the steps that open a slot or start its thread.
LEMMA LoopKeeps ==
    ASSUME IInv, Arrive \/ AcceptCheck \/ AcceptFails \/ RefuseSession \/ SpawnThrows
    PROVE  IInv'
<1> USE DEF IInv
<1>1. TypeOK'
  <2>1. CASE Arrive
    <3>1. backlog' \in 0..Connections
      BY <2>1, ServerAssumption DEF Arrive, TypeOK
    <3> QED
      BY <2>1, <3>1 DEF TypeOK, Arrive, flags, counters
  <2>2. CASE AcceptCheck \/ AcceptFails
    BY <2>2 DEF TypeOK, AcceptCheck, AcceptFails, flags, counters
  <2>3. CASE RefuseSession \/ SpawnThrows
    BY <2>3 DEF TypeOK, RefuseSession, SpawnThrows, flags, counters
  <2> QED
    BY <2>1, <2>2, <2>3
<1>2. Phases'
  BY ServerAssumption
     DEF TypeOK, Phases, Arrive, AcceptCheck, AcceptFails, RefuseSession, SpawnThrows, flags
<1>3. Places'
  BY DEF TypeOK, Places, Arrive, AcceptCheck, AcceptFails, RefuseSession, SpawnThrows, Joined
<1>4. Setup'
  BY DEF Setup, Arrive, AcceptCheck, AcceptFails, RefuseSession, SpawnThrows
<1>5. Single'
  BY DEF Single, Arrive, AcceptCheck, AcceptFails, RefuseSession, SpawnThrows
<1>6. Balance'
  BY BalanceKept
     DEF Arrive, AcceptCheck, AcceptFails, RefuseSession, SpawnThrows, counters
<1> QED
  BY <1>1, <1>2, <1>3, <1>4, <1>5, <1>6

\* A connection is accepted and given a number no session has had; finished
\* sessions go from the table to the accept thread.
LEMMA AcceptKeeps == ASSUME IInv, Accept PROVE IInv'
<1> USE DEF IInv
<1>0. next \in Ids
  BY ServerAssumption DEF TypeOK, Phases, Accept, Ids
<1>1. TypeOK'
  <2>1. /\ backlog' \in 0..Connections
        /\ next' \in 1..(Connections + 1)
        /\ current' \in 0..Connections
    BY <1>0, ServerAssumption DEF TypeOK, Accept, Ids
  <2>2. /\ sessions' \subseteq Ids
        /\ joining' \in [{"accept", "stop", "stats"} -> SUBSET Ids]
    BY DEF TypeOK, Accept, Collect
  <2> QED
    BY <2>1, <2>2 DEF TypeOK, Accept, flags, counters
<1>2. Phases'
  BY ServerAssumption DEF TypeOK, Phases, Accept, Collect, flags
<1>3. Places'
  BY DEF TypeOK, Places, Phases, Accept, Collect, Finished, Done, Started, Ids
<1>4. Setup'
  BY <1>0 DEF TypeOK, Places, Setup, Accept, Ids
<1>5. Single'
  BY DEF Single, Accept
<1>6. Balance'
  BY BalanceKept DEF Accept, counters
<1> QED
  BY <1>1, <1>2, <1>3, <1>4, <1>5, <1>6

\* The slot of the session enters the table, and is owed before it is counted.
LEMMA InsertKeeps == ASSUME IInv, Insert PROVE IInv'
<1> USE DEF IInv
<1>0. current \in Ids /\ thread[current] = "none" /\ current < next
  BY DEF Setup, Insert
<1>1. TypeOK'
  BY <1>0 DEF TypeOK, Insert, flags, counters
<1>2. Phases'
  BY DEF TypeOK, Phases, Insert, flags
<1>3. Places'
  BY <1>0 DEF TypeOK, Places, Phases, Insert, Joined, Ids
<1>4. Setup'
  BY <1>0 DEF TypeOK, Setup, Insert
<1>5. Single'
  BY <1>0 DEF TypeOK, Single, Insert
<1>6. Cardinality(Owed(thread')) = Cardinality(Owed(thread)) + 1
  BY <1>0, OwedMore DEF TypeOK, Insert, OwedStates
<1>7. Balance'
  <2>1. Owed(thread)' = Owed(thread')
    BY DEF Owed
  <2>2. accepted' = accepted /\ closed' = closed /\ Uncounted = 0 /\ Uncounted' = 1
    BY DEF Insert, counters, Uncounted
  <2> QED
    BY <1>6, <2>1, <2>2, OwedFinite DEF Balance, TypeOK
<1> QED
  BY <1>1, <1>2, <1>3, <1>4, <1>5, <1>7

\* The slot is counted as accepted.
LEMMA CountKeeps == ASSUME IInv, CountSession PROVE IInv'
<1> USE DEF IInv
<1>1. TypeOK'
  BY DEF TypeOK, CountSession, flags, counters
<1>2. Phases'
  BY DEF Phases, CountSession, flags
<1>3. Places'
  BY DEF Places, CountSession
<1>4. Setup'
  BY DEF Setup, CountSession
<1>5. Single'
  BY DEF Single, CountSession
<1>6. Balance'
  <2>1. Owed(thread)' = Owed(thread)
    BY DEF CountSession, Owed
  <2>2. accepted' = accepted + 1 /\ closed' = closed /\ Uncounted = 1 /\ Uncounted' = 0
    BY DEF CountSession, Uncounted
  <2> QED
    BY <2>1, <2>2, OwedFinite DEF Balance, TypeOK
<1> QED
  BY <1>1, <1>2, <1>3, <1>4, <1>5, <1>6

\* The thread of the slot is started.
LEMMA SpawnKeeps == ASSUME IInv, Spawn PROVE IInv'
<1> USE DEF IInv
<1>0. current \in Ids /\ current \in sessions /\ thread[current] = "slot" /\ current < next
  BY DEF Setup, Places, Spawn
<1>1. TypeOK'
  BY <1>0 DEF TypeOK, Spawn, flags, counters
<1>2. Phases'
  BY DEF Phases, Spawn, flags
<1>3. Places'
  BY <1>0 DEF TypeOK, Places, Spawn, Ids
<1>4. Setup'
  BY DEF Setup, Spawn
<1>5. Single'
  BY <1>0 DEF TypeOK, Single, Spawn
<1>6. Owed(thread)' = Owed(thread)
  <2>1. \A s \in Ids : thread[s] \in OwedStates <=> thread'[s] \in OwedStates
    BY <1>0 DEF TypeOK, Spawn, OwedStates
  <2> QED
    BY <2>1, OwedSame DEF Owed
<1>7. Balance'
  BY <1>6, BalanceKept DEF Spawn, counters
<1> QED
  BY <1>1, <1>2, <1>3, <1>4, <1>5, <1>7

-----------------------------------------------------------------------------
(* Session threads *)

\* A session thread goes from one stage to a later one and stays where it is:
\* in the table, or with whoever joins it.
LEMMA GoesKeeps ==
    ASSUME IInv, NEW s \in Ids, NEW from, NEW to, Goes(s, from, to),
           from \in {"check", "read", "close", "count"},
           to \in {"check", "read", "close", "count", "ended"},
           from = "count" => to = "ended",
           accepted' \in Nat, closed' \in Nat
    PROVE  TypeOK' /\ Phases' /\ Places' /\ Setup' /\ Single'
<1> USE DEF IInv
<1>1. TypeOK'
  BY DEF TypeOK, Goes, flags, counters
<1>2. Phases'
  BY DEF Phases, Goes, flags
<1>3. Places'
  BY DEF TypeOK, Places, Goes
<1>4. Setup'
  BY DEF TypeOK, Setup, Goes
<1>5. Single'
  BY DEF TypeOK, Single, Goes
<1> QED
  BY <1>1, <1>2, <1>3, <1>4, <1>5

\* Until it counts itself as closed a session thread is owed.
LEMMA SessionKeeps ==
    ASSUME IInv, NEW s \in Ids,
           \/ SessionCheck(s) \/ SessionFrame(s) \/ SessionOver(s) \/ SessionUnblocked(s)
           \/ SessionClose(s)
    PROVE  IInv'
<1>1. PICK from \in {"check", "read", "close"}, to \in {"check", "read", "close", "count"} :
        Goes(s, from, to) /\ UNCHANGED counters
  BY DEF SessionCheck, SessionFrame, SessionOver, SessionUnblocked, SessionClose
<1>2. accepted' = accepted /\ closed' = closed /\ accepted \in Nat /\ closed \in Nat
  BY <1>1 DEF counters, IInv, TypeOK
<1>3. TypeOK' /\ Phases' /\ Places' /\ Setup' /\ Single'
  BY <1>1, <1>2, GoesKeeps
<1>4. Owed(thread)' = Owed(thread)
  <2>1. \A t \in Ids : thread[t] \in OwedStates <=> thread'[t] \in OwedStates
    BY <1>1 DEF IInv, TypeOK, Goes, OwedStates
  <2> QED
    BY <2>1, OwedSame DEF Owed
<1>5. Balance'
  BY <1>1, <1>2, <1>4, BalanceKept DEF Goes, IInv
<1> QED
  BY <1>3, <1>5 DEF IInv

\* The last step of a session thread: it counts itself as closed.
LEMMA SessionCountKeeps ==
    ASSUME IInv, NEW s \in Ids, SessionCount(s)
    PROVE  IInv'
<1>1. /\ Goes(s, "count", "ended")
      /\ closed' = closed + 1 /\ accepted' = accepted
      /\ accepted \in Nat /\ closed \in Nat
  BY DEF SessionCount, IInv, TypeOK
<1>2. TypeOK' /\ Phases' /\ Places' /\ Setup' /\ Single'
  BY <1>1, GoesKeeps
<1>3. Cardinality(Owed(thread)) = Cardinality(Owed(thread')) + 1
  <2>1. thread[s] \in OwedStates /\ thread'[s] \notin OwedStates
    BY <1>1 DEF Goes, IInv, TypeOK, OwedStates
  <2>2. \A t \in Ids \ {s} : thread'[t] = thread[t]
    BY <1>1 DEF Goes, IInv, TypeOK
  <2> QED
    BY <2>1, <2>2, OwedLess
<1>4. Balance'
  <2>1. Owed(thread)' = Owed(thread') /\ Uncounted' = Uncounted
    BY <1>1 DEF Owed, Goes, Uncounted
  <2>2. Uncounted \in Nat
    BY DEF Uncounted
  <2> QED
    BY <1>1, <1>3, <2>1, <2>2, OwedFinite DEF Balance, IInv
<1> QED
  BY <1>2, <1>4 DEF IInv

-----------------------------------------------------------------------------
(* Stats and ServeSingleSession *)

\* Finished sessions go from the table to the caller of Stats.
LEMMA StatsReapKeeps == ASSUME IInv, StatsReap PROVE IInv'
<1> USE DEF IInv
<1>1. TypeOK'
  BY DEF TypeOK, StatsReap, Collect, flags, counters
<1>2. Phases'
  BY DEF TypeOK, Phases, StatsReap, Collect, flags
<1>3. Places'
  BY DEF TypeOK, Places, Phases, StatsReap, Collect, Finished, Done, Started
<1>4. Setup'
  BY DEF Setup, StatsReap
<1>5. Single'
  BY DEF Single, StatsReap
<1>6. Balance'
  BY BalanceKept DEF StatsReap, counters
<1> QED
  BY <1>1, <1>2, <1>3, <1>4, <1>5, <1>6

\* Stats lets go of threads that have ended.
LEMMA StatsKeep == ASSUME IInv, StatsJoin \/ StatsReturn PROVE IInv'
<1> USE DEF IInv
<1>1. TypeOK'
  BY DEF TypeOK, StatsJoin, StatsReturn, flags, counters
<1>2. Phases'
  BY DEF TypeOK, Phases, StatsJoin, StatsReturn, flags
<1>3. Places'
  BY DEF TypeOK, Places, StatsJoin, StatsReturn, Joined
<1>4. Setup'
  BY DEF Setup, StatsJoin, StatsReturn
<1>5. Single'
  BY DEF Single, StatsJoin, StatsReturn
<1>6. Balance'
  BY BalanceKept DEF StatsJoin, StatsReturn, counters
<1> QED
  BY <1>1, <1>2, <1>3, <1>4, <1>5, <1>6

\* A listener that ServeSingleSession binds moves no session.
LEMMA BindKeeps == ASSUME IInv, BindSingleSession PROVE IInv'
<1> USE DEF IInv
<1>1. TypeOK'
  BY DEF TypeOK, BindSingleSession, counters
<1>2. Phases'
  BY DEF Phases, BindSingleSession
<1>3. Places' /\ Setup' /\ Single'
  BY DEF Places, Setup, Single, BindSingleSession
<1>4. Balance'
  BY BalanceKept DEF BindSingleSession, counters, Owed
<1> QED
  BY <1>1, <1>2, <1>3, <1>4

\* A single session is accepted and counted at once, under a number of its own.
LEMMA ServeKeeps == ASSUME IInv, ServeSingleSession PROVE IInv'
<1> USE DEF IInv
<1>0. next \in Ids /\ thread[next] = "none"
  BY ServerAssumption DEF TypeOK, Phases, Places, ServeSingleSession, Ids
<1>1. TypeOK'
  BY <1>0, ServerAssumption DEF TypeOK, ServeSingleSession, Ids, flags, counters
<1>2. Phases'
  BY ServerAssumption DEF TypeOK, Phases, ServeSingleSession, flags
<1>3. Places'
  BY <1>0 DEF TypeOK, Places, ServeSingleSession, Ids
<1>4. Setup'
  BY <1>0 DEF TypeOK, Setup, ServeSingleSession, Ids
<1>5. Single'
  BY <1>0 DEF TypeOK, Single, ServeSingleSession
<1>6. Cardinality(Owed(thread')) = Cardinality(Owed(thread)) + 1
  BY <1>0, OwedMore DEF TypeOK, ServeSingleSession, OwedStates
<1>7. Balance'
  <2>1. Owed(thread)' = Owed(thread') /\ Uncounted' = Uncounted /\ Uncounted \in Nat
    BY DEF Owed, ServeSingleSession, Uncounted
  <2>2. accepted' = accepted + 1 /\ closed' = closed
    BY DEF ServeSingleSession
  <2> QED
    BY <1>6, <2>1, <2>2, OwedFinite DEF Balance, TypeOK
<1> QED
  BY <1>1, <1>2, <1>3, <1>4, <1>5, <1>7

\* It is counted as closed when it is over.
LEMMA ServedKeeps == ASSUME IInv, ServedSingleSession PROVE IInv'
<1> USE DEF IInv
<1>0. PICK o \in Ids : thread[o] = "once"
  BY DEF Single, ServedSingleSession
<1>1. TypeOK'
  BY DEF TypeOK, ServedSingleSession, flags, counters
<1>2. Phases'
  BY DEF Phases, ServedSingleSession, flags
<1>3. Places'
  BY DEF TypeOK, Places, ServedSingleSession
<1>4. Setup'
  BY DEF TypeOK, Setup, ServedSingleSession
<1>5. Single'
  BY DEF TypeOK, Single, ServedSingleSession
<1>6. Cardinality(Owed(thread)) = Cardinality(Owed(thread')) + 1
  <2>1. thread'[o] = "none" /\ \A t \in Ids \ {o} : thread'[t] = thread[t]
    BY <1>0 DEF TypeOK, Single, ServedSingleSession
  <2> QED
    BY <1>0, <2>1, OwedLess DEF OwedStates
<1>7. Balance'
  <2>1. Owed(thread)' = Owed(thread') /\ Uncounted' = Uncounted /\ Uncounted \in Nat
    BY DEF Owed, ServedSingleSession, Uncounted
  <2>2. closed' = closed + 1 /\ accepted' = accepted
    BY DEF ServedSingleSession
  <2> QED
    BY <1>6, <2>1, <2>2, OwedFinite DEF Balance, TypeOK
<1> QED
  BY <1>1, <1>2, <1>3, <1>4, <1>5, <1>7

-----------------------------------------------------------------------------
(* The theorems *)

\* The invariant holds in the initial state: nothing is open or owed.
LEMMA InitHolds == Init => IInv
<1> SUFFICES ASSUME Init PROVE IInv
  OBVIOUS
<1>1. TypeOK
  <2>1. /\ backlog \in 0..Connections
        /\ next \in 1..(Connections + 1)
        /\ current \in 0..Connections
        /\ starts \in 0..MaxStarts
        /\ accepted \in Nat /\ closed \in Nat
    BY ServerAssumption DEF Init
  <2>2. /\ thread \in [Ids -> {"none", "slot", "check", "read", "close", "count", "ended", "once",
                               "failed"}]
        /\ shut \in [Ids -> BOOLEAN]
        /\ joining \in [{"accept", "stop", "stats"} -> SUBSET Ids]
    BY DEF Init
  <2> QED
    BY <2>1, <2>2 DEF Init, TypeOK
<1>2. Phases
  BY ServerAssumption DEF Init, Phases
<1>3. Places /\ Setup /\ Single
  BY DEF Init, Places, Setup, Single
<1>4. Balance
  <2>1. Owed(thread) = {}
    BY DEF Init, Owed, OwedStates
  <2> QED
    BY <2>1, FS_EmptySet DEF Init, Balance, Uncounted
<1> QED
  BY <1>1, <1>2, <1>3, <1>4 DEF IInv

\* Every step of every thread keeps the invariant.
LEMMA NextKeeps == IInv /\ [Next]_vars => IInv'
<1> SUFFICES ASSUME IInv, [Next]_vars PROVE IInv'
  OBVIOUS
<1>1. CASE UNCHANGED vars
  <2>1. UNCHANGED <<stopRequested, running, listening, backlog, next, accept, current>>
    BY <1>1 DEF vars, flags
  <2>2. UNCHANGED <<sessions, thread, shut, joining, caller, monitor, statsMutex, starts,
                    accepted, closed>>
    BY <1>1 DEF vars, counters
  <2> QED
    BY <2>1, <2>2
       DEF IInv, TypeOK, Phases, Places, Setup, Single, Balance, Uncounted, Owed
<1>2. CASE Start \/ StopBegin \/ StopStep
  BY <1>2, StopsKeep, StopCollectKeeps, StopReturnKeeps DEF StopStep
<1>3. CASE Arrive \/ AcceptStep
  BY <1>3, LoopKeeps, AcceptKeeps, InsertKeeps, CountKeeps, SpawnKeeps DEF AcceptStep
<1>4. CASE \E s \in Ids : SessionStep(s) \/ SessionFrame(s) \/ SessionOver(s)
  BY <1>4, SessionKeeps, SessionCountKeeps DEF SessionStep
<1>5. CASE StatsReap \/ StatsStep
  BY <1>5, StatsReapKeeps, StatsKeep DEF StatsStep
<1>6. CASE BindSingleSession \/ ServeSingleSession \/ ServedSingleSession
  BY <1>6, BindKeeps, ServeKeeps, ServedKeeps
<1> QED
  BY <1>1, <1>2, <1>3, <1>4, <1>5, <1>6 DEF Next

\* The threads of the server keep the invariant: every session is in the table
\* or with whoever joins its thread, and every accepted session that is not
\* counted as closed is one of those.
THEOREM ServerInvariant == Spec => []IInv
<1> QED
  BY InitHolds, NextKeeps, PTL DEF Spec

\* The slot is still in the table when the accept loop comes back to it, however
\* Stop and Stats run in between: `continue` at server.cpp:219-222 is dead code.
THEOREM SlotIsThere == Spec => []SlotStillThere
<1>1. IInv => SlotStillThere
  BY DEF IInv, Setup, Places, SlotStillThere
<1> QED
  BY <1>1, ServerInvariant, PTL

\* When Stop has returned no session is left and the counters agree, but for
\* threads that could not be started and those a concurrent Stats is joining
\* (server.cpp:67-97).
THEOREM StopLeavesNothing == Spec => []QuietAfterStop
<1>1. IInv => QuietAfterStop
  <2> SUFFICES ASSUME IInv, caller = "idle", accept = "none"
               PROVE  /\ sessions = {}
                      /\ \A s \in Ids : \/ thread[s] \in {"none", "ended", "failed"}
                                        \/ s \in joining["stats"]
                      /\ accepted =
                            closed + Cardinality({s \in Ids : thread[s] \in {"failed", "count"}})
    BY DEF QuietAfterStop
  <2>1. sessions = {} /\ joining["stop"] = {} /\ joining["accept"] = {}
    BY DEF IInv, Phases
  <2>2. \A s \in Ids : /\ thread[s] \in {"none", "count", "ended", "failed"}
                       /\ thread[s] = "count" => s \in joining["stats"]
    BY <2>1 DEF IInv, TypeOK, Places, Single
  <2>3. Owed(thread) = {s \in Ids : thread[s] \in {"failed", "count"}}
    BY <2>2 DEF Owed, OwedStates
  <2>4. accepted = closed + Cardinality(Owed(thread))
    BY DEF IInv, TypeOK, Balance, Uncounted
  <2> QED
    BY <2>1, <2>2, <2>3, <2>4
<1> QED
  BY <1>1, ServerInvariant, PTL
=============================================================================
