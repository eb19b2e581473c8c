------------------------------ MODULE Transport ------------------------------
(***************************************************************************)
(* The observation transport: publishers (src/src/client.cpp, driven the   *)
(* way src/tools/ndo_collector.cpp drives them), the sessions of the       *)
(* server (src/src/server.cpp) and what a session does to the observatory. *)
(*                                                                         *)
(* A connection is used for one session and is two FIFO channels.  A       *)
(* session thread handles one frame at a time, but a handler takes         *)
(* fence_mutex_ and the observatory's mutex one after the other: the fence *)
(* it passed may have moved when the observatory is called, so a handler   *)
(* is two actions here.  Sending an answer touches nothing another thread  *)
(* reads and belongs to the handler's last action.                         *)
(*                                                                         *)
(* Abstractions.  A snapshot is the authority it was collected under, its  *)
(* sequence number and a model value for the rest of its content; its      *)
(* content digest covers all of these, so a digest is the snapshot.  All   *)
(* snapshots are of one target, and of the retained window the newest      *)
(* record is kept, the only one admission looks at (EvidenceWindow).       *)
(* Frames are well formed; heartbeats, which change nothing, intent        *)
(* frames, counters, reason codes and the next_sequence_ a publisher       *)
(* reports are left out.                                                   *)
(***************************************************************************)
EXTENDS Naturals, Sequences, FiniteSets

CONSTANTS
    Publishers,      \* ObservationPublisher objects
    Sources,         \* source identities
    Contents,        \* what snapshots report
    Config,          \* the source, epoch and incarnation each publisher is built with
    Offered,         \* the snapshots each publisher may be asked to publish
    Stored,          \* what a ledger loaded before the server starts may hold as newest
    MaxConnections,  \* connections are 1..MaxConnections, in the order they are made
    MaxSessions,     \* RuntimeLimits::max_sessions
    MaxSources,      \* RuntimeLimits::max_sources
    MaxOthers,       \* sessions and sources not modelled that may be open or registered
    MaxInFlight,     \* bound on the frames and answers under way on a connection
    NoDigest         \* Digest{}

Authorities == [source : Sources, epoch : Nat \ {0}, incarnation : Nat \ {0}]
Snapshots == [source : Sources, epoch : Nat \ {0}, incarnation : Nat \ {0},
              sequence : Nat \ {0}, content : Contents]

ASSUME TransportAssumption ==
    /\ Config \in [Publishers -> Authorities]
    /\ Offered \in [Publishers -> SUBSET Snapshots]
    /\ Stored \subseteq Snapshots
    /\ MaxConnections \in Nat /\ MaxSessions \in Nat /\ MaxSources \in Nat
    /\ MaxOthers \in Nat /\ MaxInFlight \in Nat
    /\ NoDigest \notin Snapshots

Connections == 1..MaxConnections

VARIABLES
    fences,    \* fences_: per source, the mark of the newest authority
    sources,   \* Observatory::sources_: the authority registered last, per source
    newest,    \* the newest retained snapshot of each source
    retained,  \* the newest one when the server was made: what was loaded from a file
    started,   \* Observatory::started_
    session,   \* the session thread of each connection
    toServer,  \* frames a publisher has sent and the session has not read
    toClient,  \* answers the publisher has not read
    hungUp,    \* connections whose publisher has closed its socket
    publisher  \* the state of each publisher

observatoryVars == <<sources, newest, retained, started>>
clientVars == <<hungUp, publisher>>
vars == <<fences, sources, newest, retained, started, session, toServer, toClient, hungUp, publisher>>

Nobody == [epoch |-> 0, incarnation |-> 0]          \* no authority
NoMark == [epoch |-> 0, incarnation |-> 0, sequence |-> 0, digest |-> NoDigest]

Stamp(a) == [epoch |-> a.epoch, incarnation |-> a.incarnation]
Mark(s) == [epoch |-> s.epoch, incarnation |-> s.incarnation,
            sequence |-> s.sequence, digest |-> s]

Idle(at) == [at |-> at, context |-> {}, work |-> {}]
Closed == [at |-> "closed", on |-> 0, sent |-> {}, inStep |-> TRUE]

\* A server is made with no fences, on an observatory that may have loaded
\* observations of an earlier process (ndo_cli serve): Load restores no source
\* and no fence.
Init ==
    /\ fences = [s \in Sources |-> NoMark]
    /\ sources = [s \in Sources |-> Nobody]
    /\ retained \in [Sources -> {NoMark} \cup {Mark(x) : x \in Stored}]
    /\ \A s \in Sources : retained[s] # NoMark => retained[s].digest.source = s
    /\ newest = retained
    /\ started \in BOOLEAN
    /\ session = [c \in Connections |-> Idle("unused")]
    /\ toServer = [c \in Connections |-> <<>>]
    /\ toClient = [c \in Connections |-> <<>>]
    /\ hungUp = {}
    /\ publisher = [p \in Publishers |-> Closed]

-----------------------------------------------------------------------------
(***************************************************************************)
(* The fence.  A greeting is admitted unless its epoch or its incarnation  *)
(* is older than the fenced one, and takes the fence over; a new           *)
(* incarnation starts a new sequence space.                                *)
(***************************************************************************)
\* Mutant: the incarnation is compared only within one epoch.
HelloAdmittedByEpoch(h, f) ==
    h.epoch > f.epoch \/ (h.epoch = f.epoch /\ h.incarnation >= f.incarnation)

HelloAdmitted(h, f) == h.epoch >= f.epoch /\ h.incarnation >= f.incarnation

\* Mutant: every greeting forgets the sequence mark.
HelloMarkReset(h, f) ==
    [epoch |-> h.epoch, incarnation |-> h.incarnation, sequence |-> 0, digest |-> NoDigest]

HelloMark(h, f) ==
    IF h.incarnation > f.incarnation
      THEN [epoch |-> h.epoch, incarnation |-> h.incarnation,
            sequence |-> 0, digest |-> NoDigest]
      ELSE [f EXCEPT !.epoch = h.epoch, !.incarnation = h.incarnation]

SameAuthority(a, b) == a.epoch = b.epoch /\ a.incarnation = b.incarnation

\* Mutant: a repeated sequence number passes whatever its content.
FencePassesRepeat(s, f) ==
    IF SameAuthority(s, f)
      THEN s.sequence >= f.sequence
      ELSE s.epoch > f.epoch \/ (s.epoch = f.epoch /\ s.incarnation > f.incarnation)

\* FenceSnapshot: a strictly newer authority passes, and the same authority
\* with a greater sequence number or an exact repeat of the marked one.
FencePasses(s, f) ==
    IF SameAuthority(s, f)
      THEN s.sequence > f.sequence \/ (s.sequence = f.sequence /\ s = f.digest)
      ELSE s.epoch > f.epoch \/ (s.epoch = f.epoch /\ s.incarnation > f.incarnation)

FenceMark(s, f) ==
    IF SameAuthority(s, f) /\ s.sequence <= f.sequence THEN f ELSE Mark(s)

-----------------------------------------------------------------------------
(***************************************************************************)
(* The observatory as the sessions use it.                                 *)
(***************************************************************************)
\* RegisterSource refuses an incarnation that regressed and a source too many.
Registrable(a, others) ==
    IF sources[a.source] # Nobody
      THEN a.incarnation >= sources[a.source].incarnation
      ELSE Cardinality({s \in Sources : sources[s] # Nobody}) + others < MaxSources

\* RecordObservation: is the snapshot admitted beside the newest one n, as a
\* new record or as a duplicate?
Admissible(s, n) ==
    \/ n = NoMark
    \/ /\ s.incarnation >= n.incarnation /\ s.epoch >= n.epoch
       /\ (s.incarnation = n.incarnation /\ s.sequence = n.sequence) => s = n.digest

\* The newest record once s is retained: an out-of-order one stays behind.
NewestWith(s, n) ==
    IF SameAuthority(s, n) /\ s.sequence <= n.sequence THEN n ELSE Mark(s)

StartObservatory ==
    /\ ~started /\ started' = TRUE
    /\ UNCHANGED <<fences, sources, newest, retained, session, toServer, toClient, clientVars>>

StopObservatory ==
    /\ started /\ started' = FALSE
    /\ UNCHANGED <<fences, sources, newest, retained, session, toServer, toClient, clientVars>>

-----------------------------------------------------------------------------
(***************************************************************************)
(* The sessions.  A session is                                             *)
(*   "waiting"      for the accept loop,                                   *)
(*   "reading"      its next frame,                                        *)
(*   "registering"  the greeting in `work', which has passed the fence,    *)
(*   "ingesting"    the snapshot in `work', which has passed the fence,    *)
(*   "done".                                                               *)
(* `context' holds the authority of an accepted greeting.                  *)
(***************************************************************************)
Open == {c \in Connections : session[c].at \in {"reading", "registering", "ingesting"}}

HelloFrame(a) == [type |-> "Hello", body |-> a]
SnapshotFrame(s) == [type |-> "Snapshot", body |-> s]
ByeFrame == [type |-> "Bye"]

HelloAck(accepted) == [type |-> "HelloAck", accepted |-> accepted]
SnapshotAck(s, accepted) == [type |-> "SnapshotAck", accepted |-> accepted, snapshot |-> s]
ErrorFrame == [type |-> "Error"]

\* An answer to a publisher that has hung up goes nowhere.
Answer(c, frame) ==
    toClient' = IF c \in hungUp THEN toClient ELSE [toClient EXCEPT ![c] = Append(@, frame)]

\* The session is over, and what was sent to it and not read is lost.
End(c) ==
    /\ session' = [session EXCEPT ![c] = Idle("done")]
    /\ toServer' = [toServer EXCEPT ![c] = <<>>]

\* The session reads a frame and goes on as `next'.
Continue(c, next) ==
    /\ session' = [session EXCEPT ![c] = next]
    /\ toServer' = [toServer EXCEPT ![c] = Tail(@)]

Receives(c, type) ==
    /\ session[c].at = "reading"
    /\ toServer[c] # <<>> /\ Head(toServer[c]).type = type

\* AcceptLoop: finished sessions are reaped first, then a connection beyond
\* the envelope is told so and closed.
Accept(c) ==
    /\ session[c].at = "waiting"
    /\ \A d \in Connections : d < c => session[d].at # "waiting"
    /\ \E others \in 0..MaxOthers :
         IF Cardinality(Open) + others >= MaxSessions
           THEN End(c) /\ Answer(c, ErrorFrame)
           ELSE session' = [session EXCEPT ![c].at = "reading"] /\ UNCHANGED <<toServer, toClient>>
    /\ UNCHANGED <<fences, observatoryVars, clientVars>>

\* HandleHello up to the end of the fence's critical section.
HandleHello(c) ==
    /\ Receives(c, "Hello")
    /\ LET h == Head(toServer[c]).body
       IN  IF HelloAdmitted(h, fences[h.source])
             THEN /\ fences' = [fences EXCEPT ![h.source] = HelloMark(h, @)]
                  /\ Continue(c, [session[c] EXCEPT !.at = "registering", !.work = {h}])
                  /\ UNCHANGED toClient
             ELSE Answer(c, HelloAck(FALSE)) /\ End(c) /\ UNCHANGED fences
    /\ UNCHANGED <<observatoryVars, clientVars>>

\* The rest of HandleHello: RegisterSource, the answer, the session's context.
RegisterSource(c) ==
    /\ session[c].at = "registering"
    /\ \E h \in session[c].work, others \in 0..MaxOthers :
         IF Registrable(h, others)
           THEN /\ sources' = [sources EXCEPT ![h.source] = Stamp(h)]
                /\ session' = [session EXCEPT ![c] = [at |-> "reading", context |-> {h}, work |-> {}]]
                /\ Answer(c, HelloAck(TRUE)) /\ UNCHANGED toServer
           ELSE Answer(c, HelloAck(FALSE)) /\ End(c) /\ UNCHANGED sources
    /\ UNCHANGED <<fences, newest, retained, started, clientVars>>

\* A session may publish only for the source, epoch and incarnation it
\* greeted with.
MayPublish(context, s) ==
    [source |-> s.source, epoch |-> s.epoch, incarnation |-> s.incarnation] \in context

\* HandleSnapshot up to the end of FenceSnapshot's critical section.
HandleSnapshot(c) ==
    /\ Receives(c, "Snapshot")
    /\ LET s == Head(toServer[c]).body
       IN  IF session[c].context = {}
             THEN Answer(c, ErrorFrame) /\ End(c) /\ UNCHANGED fences
             ELSE IF MayPublish(session[c].context, s) /\ FencePasses(s, fences[s.source])
             THEN /\ fences' = [fences EXCEPT ![s.source] = FenceMark(s, @)]
                  /\ Continue(c, [session[c] EXCEPT !.at = "ingesting", !.work = {s}])
                  /\ UNCHANGED toClient
             ELSE Answer(c, SnapshotAck(s, FALSE)) /\ Continue(c, session[c]) /\ UNCHANGED fences
    /\ UNCHANGED <<observatoryVars, clientVars>>

\* Mutant: a snapshot that passed the fence is acknowledged as accepted
\* whatever the observatory says.
IngestObservationUnchecked(c) ==
    /\ session[c].at = "ingesting"
    /\ \E s \in session[c].work :
         /\ newest' = [newest EXCEPT ![s.source] =
                          IF started /\ Admissible(s, @) THEN NewestWith(s, @) ELSE @]
         /\ Answer(c, SnapshotAck(s, TRUE))
         /\ session' = [session EXCEPT ![c] = [@ EXCEPT !.at = "reading", !.work = {}]]
    /\ UNCHANGED <<fences, sources, retained, started, toServer, clientVars>>

\* The rest of HandleSnapshot: IngestObservation and the acknowledgement.
IngestObservation(c) ==
    /\ session[c].at = "ingesting"
    /\ \E s \in session[c].work :
         LET ok == started /\ Admissible(s, newest[s.source])
         IN  /\ newest' = IF ok THEN [newest EXCEPT ![s.source] = NewestWith(s, @)] ELSE newest
             /\ Answer(c, SnapshotAck(s, ok))
             /\ session' = [session EXCEPT ![c] = [@ EXCEPT !.at = "reading", !.work = {}]]
    /\ UNCHANGED <<fences, sources, retained, started, toServer, clientVars>>

HandleBye(c) ==
    /\ Receives(c, "Bye") /\ End(c)
    /\ UNCHANGED <<fences, observatoryVars, toClient, clientVars>>

\* ReadFrame fails: the peer is gone, with or without what it sent last, or
\* nothing came within the idle deadline and the peer is told so.
SessionExpires(c) ==
    /\ session[c].at = "reading" /\ End(c)
    /\ \/ c \in hungUp /\ UNCHANGED toClient
       \/ c \notin hungUp /\ toServer[c] = <<>> /\ Answer(c, ErrorFrame)
    /\ UNCHANGED <<fences, observatoryVars, clientVars>>

-----------------------------------------------------------------------------
(***************************************************************************)
(* The publishers.  A publisher is "closed", "greeting", "connected" or    *)
(* "publishing" the snapshot in `sent'.  `on' is its connection.           *)
(* `inStep' is not in the code: it records that no Publish on this         *)
(* connection has returned without its answer.                             *)
(***************************************************************************)
Unused == {c \in Connections : session[c].at = "unused"}

\* The socket, if any, is closed, and answers not yet read are lost.
HangUp(p) ==
    LET c == publisher[p].on IN
    /\ hungUp' = IF c = 0 THEN hungUp ELSE hungUp \cup {c}
    /\ toClient' = [d \in Connections |-> IF d = c THEN <<>> ELSE toClient[d]]

\* Connect up to the greeting; a connection still open is abandoned.
Connect(p) ==
    /\ publisher[p].at \in {"closed", "connected"}
    /\ \E c \in Unused :
         /\ \A d \in Unused : c <= d
         /\ publisher' = [publisher EXCEPT ![p] = [Closed EXCEPT !.at = "greeting", !.on = c]]
         /\ session' = [session EXCEPT ![c].at = "waiting"]
         /\ toServer' = [toServer EXCEPT ![c] = <<HelloFrame(Config[p])>>]
    /\ HangUp(p)
    /\ UNCHANGED <<fences, observatoryVars>>

\* The rest of Connect: anything but an accepted HelloAck closes the socket.
ReadHelloAck(p) ==
    LET c == publisher[p].on IN
    /\ publisher[p].at = "greeting" /\ toClient[c] # <<>>
    /\ IF Head(toClient[c]) = HelloAck(TRUE)
         THEN /\ publisher' = [publisher EXCEPT ![p].at = "connected"]
              /\ toClient' = [toClient EXCEPT ![c] = Tail(@)]
              /\ UNCHANGED hungUp
         ELSE publisher' = [publisher EXCEPT ![p] = Closed] /\ HangUp(p)
    /\ UNCHANGED <<fences, observatoryVars, session, toServer>>

ConnectTimesOut(p) ==
    /\ publisher[p].at = "greeting" /\ toClient[publisher[p].on] = <<>>
    /\ publisher' = [publisher EXCEPT ![p] = Closed] /\ HangUp(p)
    /\ UNCHANGED <<fences, observatoryVars, session, toServer>>

\* Whatever is sent to a session that is over is lost.
Send(c, frame) ==
    toServer' = IF session[c].at = "done" THEN toServer
                ELSE [toServer EXCEPT ![c] = Append(@, frame)]

InFlight(c) ==
    Len(toServer[c]) + Len(toClient[c]) + (IF session[c].at = "ingesting" THEN 1 ELSE 0)

\* Publish up to the point where it waits for the acknowledgement.
Publish(p, s) ==
    LET c == publisher[p].on IN
    /\ publisher[p].at = "connected" /\ InFlight(c) < MaxInFlight
    /\ publisher' = [publisher EXCEPT ![p] = [@ EXCEPT !.at = "publishing", !.sent = {s}]]
    /\ Send(c, SnapshotFrame(s))
    /\ UNCHANGED <<fences, observatoryVars, session, toClient, hungUp>>

\* The rest of Publish: the next frame on the connection is taken for the
\* answer, whichever snapshot it answers.
ReadAck(p) ==
    LET c == publisher[p].on IN
    /\ publisher[p].at = "publishing" /\ toClient[c] # <<>>
    /\ toClient' = [toClient EXCEPT ![c] = Tail(@)]
    /\ publisher' = [publisher EXCEPT ![p] = [@ EXCEPT !.at = "connected", !.sent = {}]]
    /\ UNCHANGED <<fences, observatoryVars, session, toServer, hungUp>>

\* Publish returns a receive error: the deadline passed or the server is
\* gone.  The socket stays open, and the collector goes on publishing on it.
PublishTimesOut(p) ==
    /\ publisher[p].at = "publishing" /\ toClient[publisher[p].on] = <<>>
    /\ publisher' = [publisher EXCEPT ![p] =
                        [@ EXCEPT !.at = "connected", !.sent = {}, !.inStep = FALSE]]
    /\ UNCHANGED <<fences, observatoryVars, session, toServer, toClient, hungUp>>

Close(p) ==
    LET c == publisher[p].on IN
    /\ publisher[p].at = "connected"
    /\ Send(c, ByeFrame)
    /\ publisher' = [publisher EXCEPT ![p] = Closed] /\ HangUp(p)
    /\ UNCHANGED <<fences, observatoryVars, session>>

\* The collector process dies and is started again with the same options.
Crash(p) ==
    /\ publisher[p].at # "closed"
    /\ publisher' = [publisher EXCEPT ![p] = Closed] /\ HangUp(p)
    /\ UNCHANGED <<fences, observatoryVars, session, toServer>>

Next ==
    \/ StartObservatory \/ StopObservatory
    \/ \E c \in Connections :
         \/ Accept(c) \/ HandleHello(c) \/ RegisterSource(c) \/ HandleSnapshot(c)
         \/ IngestObservation(c) \/ HandleBye(c) \/ SessionExpires(c)
    \/ \E p \in Publishers :
         \/ Connect(p) \/ ReadHelloAck(p) \/ ConnectTimesOut(p)
         \/ \E s \in Offered[p] : Publish(p, s)
         \/ ReadAck(p) \/ PublishTimesOut(p) \/ Close(p) \/ Crash(p)

Spec == Init /\ [][Next]_vars

-----------------------------------------------------------------------------
Marks == [epoch : Nat, incarnation : Nat, sequence : Nat, digest : Snapshots \cup {NoDigest}]

Frames == [type : {"Hello"}, body : Authorities] \cup [type : {"Snapshot"}, body : Snapshots]
          \cup {ByeFrame}
Answers == [type : {"HelloAck"}, accepted : BOOLEAN] \cup {ErrorFrame}
           \cup [type : {"SnapshotAck"}, accepted : BOOLEAN, snapshot : Snapshots]

SessionStates ==
    [at : {"unused", "waiting", "reading", "registering", "ingesting", "done"},
     context : SUBSET Authorities, work : SUBSET (Authorities \cup Snapshots)]

PublisherStates ==
    [at : {"closed", "greeting", "connected", "publishing"}, on : Connections \cup {0},
     sent : SUBSET Snapshots, inStep : BOOLEAN]

SessionTypeOK ==
    /\ session \in [Connections -> SessionStates]
    /\ \A c \in Connections :
         /\ session[c].at = "registering" => session[c].work \subseteq Authorities
         /\ session[c].at = "ingesting" => session[c].work \subseteq Snapshots

\* Type of the state; a session registers authorities and ingests snapshots,
\* and a publisher that is not closed has a connection.
TypeOK ==
    /\ fences \in [Sources -> Marks]
    /\ sources \in [Sources -> [epoch : Nat, incarnation : Nat]]
    /\ newest \in [Sources -> Marks] /\ retained \in [Sources -> Marks]
    /\ started \in BOOLEAN
    /\ SessionTypeOK
    /\ toServer \in [Connections -> Seq(Frames)]
    /\ toClient \in [Connections -> Seq(Answers)]
    /\ hungUp \subseteq Connections
    /\ publisher \in [Publishers -> PublisherStates]
    /\ \A p \in Publishers : publisher[p].at # "closed" => publisher[p].on \in Connections

\* The authorities a session speaks for: the one it greeted with and the one
\* it is registering.
Claimed(c) ==
    session[c].context \cup (IF session[c].at = "registering" THEN session[c].work ELSE {})

\* No session is ahead of the fence of its source: whatever authority it
\* greeted or is greeting with, the fence is at least as new in epoch and in
\* incarnation.  So the takeover in FenceSnapshot by "a strictly newer
\* authority" never happens, and a snapshot cannot move the fence to another
\* authority than the last greeting did.
FenceDominates ==
    \A c \in Connections : \A a \in Claimed(c) :
        a.epoch <= fences[a.source].epoch /\ a.incarnation <= fences[a.source].incarnation

FenceForward(f, g) ==
    /\ f.epoch <= g.epoch /\ f.incarnation <= g.incarnation
    /\ f.incarnation = g.incarnation =>
          /\ f.sequence <= g.sequence
          /\ (f.sequence = g.sequence /\ f.sequence # 0) => f.digest = g.digest

\* "a stale authority must never be able to move the high-water mark"
\* (server.cpp:603-604): the fence never goes back in epoch or incarnation,
\* within one incarnation its sequence mark never goes back, and the snapshot
\* marked under a sequence number never changes.
FenceMonotone == [][\A s \in Sources : FenceForward(fences[s], fences'[s])]_vars

Ingesting(s) == {Mark(x) : x \in UNION {session[c].work : c \in
                   {d \in Connections : session[d].at = "ingesting"
                                        /\ \A y \in session[d].work : y.source = s}}}

\* What this server let through: what is on its way to the ledger, and the
\* newest record there once it is not the loaded one any more.
LetThrough(s) == Ingesting(s) \cup ({newest[s]} \ {retained[s]})

\* Whatever sessions of one source race each other between the fence and the
\* observatory, one incarnation's sequence number stands for one snapshot among
\* those this server let through: the ledger refuses none of them as a
\* conflicting duplicate of another (ledger.cpp:344-352).  Of a record loaded
\* before the server was made it may: the fence knows nothing of that record,
\* lets other content pass under its sequence number, and only the ledger's own
\* check is left.
SequenceNamesOneSnapshot ==
    \A s \in Sources : \A a, b \in LetThrough(s) :
        (a.incarnation = b.incarnation /\ a.sequence = b.sequence) => a = b

\* On a connection where every earlier Publish got its answer, an accepting
\* acknowledgement is for the snapshot that was sent, and the ledger has it or
\* one of the same source that is newer: a late, lost or repeated frame, a
\* stopped observatory or a racing session never makes Publish report as
\* accepted what was not recorded.
AcceptedIsRecorded ==
    \A p \in Publishers :
        (publisher[p].at = "publishing" /\ publisher[p].inStep /\ toClient[publisher[p].on] # <<>>)
          => LET ack == Head(toClient[publisher[p].on]) IN
             (ack.type = "SnapshotAck" /\ ack.accepted) =>
                 \A s \in publisher[p].sent :
                     LET n == newest[s.source] IN
                     /\ ack.snapshot = s
                     /\ s.incarnation <= n.incarnation /\ s.epoch <= n.epoch
                     /\ SameAuthority(s, n) => s.sequence <= n.sequence
                     /\ (SameAuthority(s, n) /\ s.sequence = n.sequence) => n.digest = s

=============================================================================
