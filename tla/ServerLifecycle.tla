--------------------------- MODULE ServerLifecycle --------------------------
(***************************************************************************)
(* The threads of ObservationServer (src/src/server.cpp): the accept loop, *)
(* one thread per session, the caller of Start, Stop and                   *)
(* ServeSingleSession, and another caller of Stats. What sessions do with  *)
(* their frames is module Transport; here a session reads, and its read    *)
(* returns when the peer wishes or when the socket has been shut down.     *)
(*                                                                         *)
(* Critical sections of sessions_mutex_ are single steps, since nothing    *)
(* blocks inside them; stats_mutex_ is a variable, since Stats holds it    *)
(* while it waits for the other one. Sessions are numbered by the          *)
(* connections they come from (next_session_id_).                          *)
(***************************************************************************)
EXTENDS Integers, FiniteSets

CONSTANTS Connections,   \* bound: connections 1..Connections ever arrive
          MaxSessions,   \* config_.limits.max_sessions
          MaxStarts      \* bound: times the server is started

ASSUME ServerAssumption ==
    /\ Connections \in Nat
    /\ MaxSessions \in Nat \ {0}
    /\ MaxStarts \in Nat

Ids == 1..Connections

VARIABLES
    stopRequested,  \* stop_requested_
    running,        \* running_
    listening,      \* listener_ is open
    backlog,        \* connections that wait to be accepted
    next,           \* next_session_id_
    accept,         \* accept thread: what it does next; "none" if not joinable
    current,        \* accept thread: the session it is setting up
    sessions,       \* sessions_: the identifiers in the table
    thread,         \* session: what its thread does next
    shut,           \* session: its socket was shut down by Stop
    joining,        \* threads moved out of the table, by who joins them
    caller,         \* the caller of Start and Stop: what it does next
    monitor,        \* the caller of Stats: what it does next
    statsMutex,     \* stats_mutex_: held by the caller of Stats
    starts,         \* bound: calls of Start so far
    accepted,       \* stats_.sessions_accepted
    closed          \* stats_.sessions_closed

flags    == <<stopRequested, running, listening>>
counters == <<accepted, closed>>
vars     == <<flags, backlog, next, accept, current, sessions, thread, shut, joining, caller,
              monitor, statsMutex, starts, counters>>

Init ==
    /\ stopRequested = FALSE /\ running = FALSE /\ listening = FALSE
    /\ backlog = 0
    /\ next = 1
    /\ accept = "none"
    /\ current = 0
    /\ sessions = {}
    /\ thread = [s \in Ids |-> "none"]
    /\ shut = [s \in Ids |-> FALSE]
    /\ joining = [who \in {"accept", "stop", "stats"} |-> {}]
    /\ caller = "idle"
    /\ monitor = "idle"
    /\ statsMutex = FALSE
    /\ starts = 0
    /\ accepted = 0 /\ closed = 0

\* Sessions with a slot and no thread, and sessions whose thread has started.
Unstarted(s) == thread[s] = "slot"
Started(s)   == thread[s] \in {"check", "read", "close", "count", "ended"}

\* done: set by the thread after its last use of the socket.
Done(s) == thread[s] \in {"count", "ended"}

-----------------------------------------------------------------------------
(* ReapFinishedSessions *)

\* Variant: a slot without a joinable thread counts as finished.
FinishedOrUnstarted(s) == Done(s) \/ Unstarted(s)

Finished(s) == Done(s)

Collect(who) ==
    /\ joining' = [joining EXCEPT ![who] = {s \in sessions : Finished(s) /\ Started(s)}]
    /\ sessions' = {s \in sessions : ~Finished(s)}

\* thread.join() for each of them.
Joined(who) == \A s \in joining[who] : thread[s] = "ended"

-----------------------------------------------------------------------------
(* Start and Stop *)

\* The listener is bound, in the place of one that ServeSingleSession may have left,
\* and the accept thread started; a caller starts the server only before its first
\* run and after Stop.
Start ==
    /\ caller = "idle" /\ ~running /\ accept = "none"
    /\ starts < MaxStarts
    /\ starts' = starts + 1
    /\ stopRequested' = FALSE /\ running' = TRUE /\ listening' = TRUE
    /\ accept' = "check"
    /\ backlog' = 0
    /\ UNCHANGED <<next, sessions, thread, current, shut, joining, caller, monitor, statsMutex,
                   counters>>

StopBegin ==
    /\ caller = "idle"
    /\ accept # "none"
    /\ stopRequested' = TRUE /\ running' = FALSE
    /\ caller' = "close"
    /\ UNCHANGED <<listening, backlog, next, accept, sessions, thread, current, shut, joining,
                   monitor, statsMutex, starts, counters>>

\* listener_.Close(): connections that were not accepted are gone.
StopListening ==
    /\ caller = "close"
    /\ listening' = FALSE
    /\ backlog' = 0
    /\ caller' = "shutdown"
    /\ UNCHANGED <<stopRequested, running, next, accept, sessions, thread, current, shut,
                   joining, monitor, statsMutex, starts, counters>>

CloseAllSessions ==
    /\ caller = "shutdown"
    /\ shut' = [s \in Ids |-> shut[s] \/ s \in sessions]
    /\ caller' = "joinAccept"
    /\ UNCHANGED <<flags, backlog, next, accept, sessions, thread, current, joining, monitor,
                   statsMutex, starts, counters>>

StopJoinAccept ==
    /\ caller = "joinAccept"
    /\ accept = "ended"
    /\ accept' = "none"
    /\ caller' = "collect"
    /\ UNCHANGED <<flags, backlog, next, sessions, thread, current, shut, joining, monitor,
                   statsMutex, starts, counters>>

Moved == {s \in sessions : Started(s)}

StopCollect ==
    /\ caller = "collect"
    /\ joining' = [joining EXCEPT !["stop"] = Moved]
    /\ sessions' = {}
    /\ thread' = [s \in Ids |-> IF s \in sessions /\ Unstarted(s) THEN "failed" ELSE thread[s]]
    /\ caller' = "joinSessions"
    /\ UNCHANGED <<flags, backlog, next, accept, current, shut, monitor, statsMutex,
                   starts, counters>>

\* Variant: Stop does not wait for the session threads.
JoinedOrNot(who) == TRUE

StopWaits(who) == Joined(who)

StopReturn ==
    /\ caller = "joinSessions"
    /\ StopWaits("stop")
    /\ ~statsMutex
    /\ joining' = [joining EXCEPT !["stop"] = {}]
    /\ caller' = "idle"
    /\ UNCHANGED <<flags, backlog, next, accept, sessions, thread, current, shut, monitor,
                   statsMutex, starts, counters>>

-----------------------------------------------------------------------------
(* AcceptLoop *)

\* A peer connects.
Arrive ==
    /\ listening
    /\ next + backlog <= Connections
    /\ backlog' = backlog + 1
    /\ UNCHANGED <<flags, next, accept, sessions, thread, current, shut, joining, caller,
                   monitor, statsMutex, starts, counters>>

AcceptCheck ==
    /\ accept = "check"
    /\ accept' = IF stopRequested THEN "ended" ELSE "accept"
    /\ UNCHANGED <<flags, backlog, next, sessions, thread, current, shut, joining, caller,
                   monitor, statsMutex, starts, counters>>

\* accept() fails because the listener was closed.
AcceptFails ==
    /\ accept = "accept"
    /\ ~listening
    /\ accept' = IF stopRequested THEN "ended" ELSE "check"
    /\ UNCHANGED <<flags, backlog, next, sessions, thread, current, shut, joining, caller,
                   monitor, statsMutex, starts, counters>>

Accept ==
    /\ accept = "accept"
    /\ backlog > 0
    /\ backlog' = backlog - 1
    /\ Collect("accept")
    /\ next' = next + 1
    /\ current' = next
    /\ accept' = "insert"
    /\ UNCHANGED <<flags, thread, shut, caller, monitor, statsMutex, starts, counters>>

Fits == Cardinality(sessions) < MaxSessions

Insert ==
    /\ accept = "insert"
    /\ Joined("accept")
    /\ Fits
    /\ sessions' = sessions \cup {current}
    /\ thread' = [thread EXCEPT ![current] = "slot"]
    /\ joining' = [joining EXCEPT !["accept"] = {}]
    /\ accept' = "count"
    /\ UNCHANGED <<flags, backlog, next, current, shut, caller, monitor, statsMutex, starts,
                   counters>>

\* The peer is told, its greeting drained, and the connection closed.
RefuseSession ==
    /\ accept = "insert"
    /\ Joined("accept")
    /\ ~Fits
    /\ ~statsMutex
    /\ joining' = [joining EXCEPT !["accept"] = {}]
    /\ accept' = "check"
    /\ UNCHANGED <<flags, backlog, next, sessions, thread, current, shut, caller, monitor,
                   statsMutex, starts, counters>>

CountSession ==
    /\ accept = "count"
    /\ ~statsMutex
    /\ accepted' = accepted + 1
    /\ accept' = "spawn"
    /\ UNCHANGED <<flags, backlog, next, sessions, thread, current, shut, joining, caller,
                   monitor, statsMutex, starts, closed>>

\* The slot is looked up again, and the thread started and kept in it.
Spawn ==
    /\ accept = "spawn"
    /\ thread' = IF current \in sessions THEN [thread EXCEPT ![current] = "check"] ELSE thread
    /\ accept' = "check"
    /\ UNCHANGED <<flags, backlog, next, sessions, current, shut, joining, caller, monitor,
                   statsMutex, starts, counters>>

\* The thread cannot be created: the exception ends the accept loop.
SpawnThrows ==
    /\ accept = "spawn"
    /\ current \in sessions
    /\ running' = FALSE
    /\ accept' = "ended"
    /\ UNCHANGED <<stopRequested, listening, backlog, next, sessions, thread, current, shut,
                   joining, caller, monitor, statsMutex, starts, counters>>

-----------------------------------------------------------------------------
(* SessionLoop and the end of a session thread *)

Goes(s, from, to) ==
    /\ thread[s] = from
    /\ thread' = [thread EXCEPT ![s] = to]
    /\ UNCHANGED <<flags, backlog, next, accept, sessions, current, shut, joining, caller,
                   monitor, statsMutex, starts>>

\* Variant: the loop does not look at the flag.
StopUnseen == FALSE

StopSeen == stopRequested

SessionCheck(s) ==
    Goes(s, "check", IF StopSeen THEN "close" ELSE "read") /\ UNCHANGED counters

\* A frame was read and answered; or the peer closed, the idle time passed, a
\* frame was refused or said goodbye.
SessionFrame(s) == Goes(s, "read", "check") /\ UNCHANGED counters
SessionOver(s)  == Goes(s, "read", "close") /\ UNCHANGED counters

\* The read returns because the socket was shut down.
SessionUnblocked(s) == shut[s] /\ Goes(s, "read", "close") /\ UNCHANGED counters

\* The socket is closed and done set.
SessionClose(s) == Goes(s, "close", "count") /\ UNCHANGED counters

SessionCount(s) ==
    /\ ~statsMutex
    /\ Goes(s, "count", "ended")
    /\ closed' = closed + 1
    /\ UNCHANGED accepted

-----------------------------------------------------------------------------
(* Stats and ServeSingleSession *)

StatsReap ==
    /\ monitor = "idle"
    /\ Collect("stats")
    /\ monitor' = "join"
    /\ UNCHANGED <<flags, backlog, next, accept, thread, current, shut, caller, statsMutex,
                   starts, counters>>

\* Variant: the counters are locked before the finished sessions are joined.
StatsJoinLocked ==
    /\ monitor = "join"
    /\ ~statsMutex \/ Joined("stats")
    /\ statsMutex' = TRUE
    /\ monitor' = IF statsMutex THEN "read" ELSE "join"
    /\ joining' = IF statsMutex THEN [joining EXCEPT !["stats"] = {}] ELSE joining
    /\ UNCHANGED <<flags, backlog, next, accept, sessions, thread, current, shut, caller,
                   starts, counters>>

StatsJoin ==
    /\ monitor = "join"
    /\ Joined("stats")
    /\ ~statsMutex
    /\ statsMutex' = TRUE
    /\ monitor' = "read"
    /\ joining' = [joining EXCEPT !["stats"] = {}]
    /\ UNCHANGED <<flags, backlog, next, accept, sessions, thread, current, shut, caller,
                   starts, counters>>

StatsReturn ==
    /\ monitor = "read"
    /\ statsMutex' = FALSE
    /\ monitor' = "idle"
    /\ UNCHANGED <<flags, backlog, next, accept, sessions, thread, current, shut, joining,
                   caller, starts, counters>>

\* Without a listener, because the server was not started or has been stopped, one
\* is bound first.
BindSingleSession ==
    /\ caller = "idle"
    /\ ~listening
    /\ listening' = TRUE
    /\ caller' = "serve"
    /\ UNCHANGED <<stopRequested, running, backlog, next, accept, sessions, thread, current, shut,
                   joining, monitor, statsMutex, starts, counters>>

\* A connection is accepted on the caller's own thread, beside the accept loop.
ServeSingleSession ==
    /\ caller \in {"idle", "serve"}
    /\ listening
    /\ backlog > 0
    /\ ~statsMutex
    /\ backlog' = backlog - 1
    /\ next' = next + 1
    /\ accepted' = accepted + 1
    /\ thread' = [thread EXCEPT ![next] = "once"]
    /\ caller' = "once"
    /\ UNCHANGED <<flags, accept, sessions, current, shut, joining, monitor, statsMutex, starts,
                   closed>>

ServedSingleSession ==
    /\ caller = "once"
    /\ ~statsMutex
    /\ closed' = closed + 1
    /\ thread' = [s \in Ids |-> IF thread[s] = "once" THEN "none" ELSE thread[s]]
    /\ caller' = "idle"
    /\ UNCHANGED <<flags, backlog, next, accept, sessions, current, shut, joining, monitor,
                   statsMutex, starts, accepted>>

-----------------------------------------------------------------------------
StopStep == StopListening \/ CloseAllSessions \/ StopJoinAccept \/ StopCollect \/ StopReturn

AcceptStep ==
    \/ AcceptCheck \/ AcceptFails \/ Accept \/ Insert \/ RefuseSession \/ CountSession \/ Spawn
    \/ SpawnThrows

\* What a session thread does without its peer.
SessionStep(s) == SessionCheck(s) \/ SessionUnblocked(s) \/ SessionClose(s) \/ SessionCount(s)

StatsStep == StatsJoin \/ StatsReturn

Next ==
    \/ Start \/ StopBegin \/ StopStep
    \/ Arrive \/ AcceptStep
    \/ \E s \in Ids : SessionStep(s) \/ SessionFrame(s) \/ SessionOver(s)
    \/ StatsReap \/ StatsStep
    \/ BindSingleSession \/ ServeSingleSession \/ ServedSingleSession

(* Threads run, a mutex that is released again and again is acquired in    *)
(* the end, and a read on a socket that was shut down returns. Nothing is  *)
(* assumed of peers or of the idle timeout.                                *)
Fairness ==
    /\ SF_vars(StopStep) /\ SF_vars(AcceptStep) /\ SF_vars(StatsStep)
    /\ \A s \in Ids : SF_vars(SessionStep(s))

Spec == Init /\ [][Next]_vars /\ Fairness
-----------------------------------------------------------------------------
(* Properties *)

TypeOK ==
    /\ stopRequested \in BOOLEAN /\ running \in BOOLEAN /\ listening \in BOOLEAN
    /\ backlog \in 0..Connections
    /\ next \in 1..(Connections + 1)
    /\ accept \in {"none", "check", "accept", "insert", "count", "spawn", "ended"}
    /\ current \in 0..Connections
    /\ sessions \subseteq Ids
    /\ thread \in [Ids -> {"none", "slot", "check", "read", "close", "count", "ended", "once",
                            "failed"}]
    /\ shut \in [Ids -> BOOLEAN]
    /\ joining \in [{"accept", "stop", "stats"} -> SUBSET Ids]
    /\ caller \in {"idle", "close", "shutdown", "joinAccept", "collect", "joinSessions", "serve",
                  "once"}
    /\ monitor \in {"idle", "join", "read"}
    /\ statsMutex \in BOOLEAN
    /\ starts \in 0..MaxStarts
    /\ accepted \in Nat /\ closed \in Nat

\* The slot of a session is still in the table when the accept loop comes back
\* to start its thread, although Stats and Stop ran in between: the early
\* `continue` at server.cpp:219-222 is never taken.
SlotStillThere == accept \in {"count", "spawn"} => current \in sessions

\* When Stop has returned no session is left, and all accepted ones are counted
\* as closed, but for threads that could not be started and for those that a
\* concurrent Stats is joining (server.cpp:67-97).
QuietAfterStop ==
    caller = "idle" /\ accept = "none" =>
        /\ sessions = {}
        /\ \A s \in Ids : thread[s] \in {"none", "ended", "failed"} \/ s \in joining["stats"]
        /\ accepted = closed + Cardinality({s \in Ids : thread[s] \in {"failed", "count"}})

\* Stop returns, wherever the accept loop and the sessions are when it begins,
\* and even if no peer ever sends or closes (server.cpp:67-97).
StopReturns == caller = "close" ~> caller = "idle"

\* Stats returns: it joins only threads that need nothing it holds
\* (server.cpp:103-112).
StatsReturns == monitor = "join" ~> monitor = "idle"
=============================================================================
