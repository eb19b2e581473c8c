-------------------------- MODULE Transport_proofs --------------------------
(***************************************************************************)
(* Proofs about Transport: for every number of publishers, connections,    *)
(* sources, epochs and incarnations, no session is ahead of the fence of   *)
(* its source, the fence only moves forward, a sequence number names one   *)
(* snapshot, and what a publisher was told is recorded was recorded.       *)
(***************************************************************************)
EXTENDS Transport, SequenceTheorems, TLAPS

\* Answering a publisher keeps the channels well typed.
LEMMA AnswerType ==
    ASSUME TypeOK, NEW c \in Connections, NEW a \in Answers, Answer(c, a)
    PROVE  toClient' \in [Connections -> Seq(Answers)]
<1>1. Append(toClient[c], a) \in Seq(Answers)
  BY DEF TypeOK
<1> QED
  BY <1>1 DEF TypeOK, Answer

\* A greeting carries an authority, a snapshot frame a snapshot.
LEMMA BodyType ==
    ASSUME NEW f \in Frames
    PROVE  /\ f.type = "Hello" => f.body \in Authorities
           /\ f.type = "Snapshot" => f.body \in Snapshots
BY DEF Frames, ByeFrame

\* What a session sends is one of the answers.
LEMMA AnswersAreAnswers ==
    /\ ErrorFrame \in Answers
    /\ \A b \in BOOLEAN : HelloAck(b) \in Answers
    /\ \A b \in BOOLEAN, s \in Snapshots : SnapshotAck(s, b) \in Answers
BY DEF Answers, ErrorFrame, HelloAck, SnapshotAck

\* Ending a session keeps the sessions and the channels well typed.
LEMMA EndType ==
    ASSUME TypeOK, NEW c \in Connections, End(c)
    PROVE  SessionTypeOK' /\ toServer' \in [Connections -> Seq(Frames)]
BY DEF TypeOK, SessionTypeOK, SessionStates, End, Idle

\* So does reading a frame, when what the session goes on as is typed.
LEMMA ContinueType ==
    ASSUME TypeOK, NEW c \in Connections, NEW n, Continue(c, n), toServer[c] # <<>>,
           n \in SessionStates,
           n.at = "registering" => n.work \subseteq Authorities,
           n.at = "ingesting" => n.work \subseteq Snapshots
    PROVE  SessionTypeOK' /\ toServer' \in [Connections -> Seq(Frames)]
<1>1. Tail(toServer[c]) \in Seq(Frames)
  BY DEF TypeOK
<1> QED
  BY <1>1 DEF TypeOK, SessionTypeOK, Continue

\* Hanging up keeps the publisher's side well typed.
LEMMA HangUpType ==
    ASSUME TypeOK, NEW p \in Publishers, HangUp(p)
    PROVE  hungUp' \subseteq Connections /\ toClient' \in [Connections -> Seq(Answers)]
<1>1. <<>> \in Seq(Answers)
  OBVIOUS
<1>2. publisher[p].on \in Connections \cup {0}
  BY DEF TypeOK, PublisherStates
<1> QED
  BY <1>1, <1>2 DEF TypeOK, HangUp

\* Sending a frame keeps the channels well typed.
LEMMA SendType ==
    ASSUME TypeOK, NEW c \in Connections, NEW f \in Frames, Send(c, f)
    PROVE  toServer' \in [Connections -> Seq(Frames)]
<1>1. Append(toServer[c], f) \in Seq(Frames)
  BY DEF TypeOK
<1> QED
  BY <1>1 DEF TypeOK, Send

\* The fence of a source stays a mark whatever moves it.
LEMMA MarkType ==
    /\ \A h \in Authorities, f \in Marks : HelloMark(h, f) \in Marks
    /\ \A s \in Snapshots, f \in Marks : FenceMark(s, f) \in Marks
    /\ \A s \in Snapshots, n \in Marks : NewestWith(s, n) \in Marks
    /\ \A h \in Authorities : Stamp(h) \in [epoch : Nat, incarnation : Nat]
<1>1. ASSUME NEW h \in Authorities, NEW f \in Marks PROVE HelloMark(h, f) \in Marks
  BY DEF HelloMark, Marks, Authorities
<1>2. ASSUME NEW s \in Snapshots PROVE Mark(s) \in Marks
  BY DEF Mark, Marks, Snapshots
<1>3. ASSUME NEW s \in Snapshots, NEW f \in Marks
      PROVE  FenceMark(s, f) \in Marks /\ NewestWith(s, f) \in Marks
  BY <1>2 DEF FenceMark, NewestWith
<1>4. ASSUME NEW h \in Authorities PROVE Stamp(h) \in [epoch : Nat, incarnation : Nat]
  BY DEF Stamp, Authorities
<1> QED
  BY <1>1, <1>3, <1>4

\* One step of a session keeps the types.
LEMMA SessionStepType ==
    ASSUME TypeOK, NEW c \in Connections,
           \/ Accept(c) \/ HandleHello(c) \/ RegisterSource(c) \/ HandleSnapshot(c)
           \/ IngestObservation(c) \/ HandleBye(c) \/ SessionExpires(c)
    PROVE  TypeOK'
<1> USE AnswersAreAnswers
<1>1. CASE Accept(c)
  <2>1. SessionTypeOK' /\ toServer' \in [Connections -> Seq(Frames)]
    <3>1. CASE End(c)
      BY <3>1, EndType
    <3>2. CASE session' = [session EXCEPT ![c].at = "reading"] /\ UNCHANGED <<toServer, toClient>>
      <4> DEFINE r == [session[c] EXCEPT !.at = "reading"]
      <4>1. session[c] \in SessionStates
        BY DEF TypeOK, SessionTypeOK
      <4>2. r \in SessionStates /\ r.at = "reading"
        BY <4>1 DEF SessionStates
      <4>3. session' = [session EXCEPT ![c] = r]
        BY <3>2
      <4> HIDE DEF r
      <4> QED
        BY <3>2, <4>2, <4>3 DEF TypeOK, SessionTypeOK
    <3> QED
      BY <1>1, <3>1, <3>2 DEF Accept
  <2>2. toClient' \in [Connections -> Seq(Answers)]
    <3>1. CASE Answer(c, ErrorFrame)
      BY <3>1, AnswerType
    <3>2. CASE UNCHANGED <<toServer, toClient>>
      BY <3>2 DEF TypeOK
    <3> QED
      BY <1>1, <3>1, <3>2 DEF Accept
  <2> QED
    BY <1>1, <2>1, <2>2 DEF Accept, TypeOK, observatoryVars, clientVars
<1>2. CASE HandleHello(c)
  <2> DEFINE h == Head(toServer[c]).body
  <2>1. h \in Authorities /\ toServer[c] # <<>>
    <3>1. Receives(c, "Hello")
      BY <1>2 DEF HandleHello
    <3>2. Head(toServer[c]) \in Frames /\ Head(toServer[c]).type = "Hello"
      BY <3>1 DEF TypeOK, Receives
    <3> QED
      BY <3>1, <3>2, BodyType DEF Receives
  <2>2. CASE HelloAdmitted(h, fences[h.source])
    <3> DEFINE r == [session[c] EXCEPT !.at = "registering", !.work = {h}]
    <3>1. /\ fences' = [fences EXCEPT ![h.source] = HelloMark(h, fences[h.source])]
          /\ Continue(c, r)
          /\ UNCHANGED toClient
      BY <1>2, <2>2 DEF HandleHello
    <3>2. SessionTypeOK' /\ toServer' \in [Connections -> Seq(Frames)]
      <4>1. {h} \in SUBSET (Authorities \cup Snapshots)
        BY <2>1
      <4> HIDE DEF h
      <4>2. r \in SessionStates /\ r.at = "registering" /\ r.work = {h}
        <5>1. session[c] \in SessionStates
          BY DEF TypeOK, SessionTypeOK
        <5> QED
          BY <4>1, <5>1 DEF SessionStates
      <4> HIDE DEF r
      <4> QED
        BY <2>1, <3>1, <4>2, ContinueType
    <3>3. fences' \in [Sources -> Marks]
      BY <2>1, <3>1, MarkType DEF TypeOK, Authorities
    <3> QED
      BY <1>2, <3>1, <3>2, <3>3 DEF HandleHello, TypeOK, observatoryVars, clientVars
  <2>3. CASE ~HelloAdmitted(h, fences[h.source])
    <3>1. Answer(c, HelloAck(FALSE)) /\ End(c) /\ UNCHANGED fences
      BY <1>2, <2>3 DEF HandleHello
    <3> QED
      BY <1>2, <3>1, EndType, AnswerType DEF HandleHello, TypeOK, observatoryVars, clientVars
  <2> QED
    BY <2>2, <2>3
<1>3. CASE RegisterSource(c)
  <2>1. PICK h \in session[c].work, others \in 0..MaxOthers :
          IF Registrable(h, others)
           THEN /\ sources' = [sources EXCEPT ![h.source] = Stamp(h)]
                /\ session' = [session EXCEPT ![c] = [at |-> "reading", context |-> {h}, work |-> {}]]
                /\ Answer(c, HelloAck(TRUE)) /\ UNCHANGED toServer
           ELSE Answer(c, HelloAck(FALSE)) /\ End(c) /\ UNCHANGED sources
    BY <1>3 DEF RegisterSource
  <2>2. h \in Authorities
    BY <1>3 DEF RegisterSource, TypeOK, SessionTypeOK
  <2>3. CASE Registrable(h, others)
    <3>1. sources' \in [Sources -> [epoch : Nat, incarnation : Nat]]
      BY <2>1, <2>2, <2>3, MarkType DEF TypeOK, Authorities
    <3>2. SessionTypeOK'
      <4> DEFINE r == [at |-> "reading", context |-> {h}, work |-> {}]
      <4>1. r \in SessionStates /\ r.at = "reading"
        BY <2>2 DEF SessionStates
      <4>2. session' = [session EXCEPT ![c] = r]
        BY <2>1, <2>3
      <4> HIDE DEF r
      <4> QED
        BY <4>1, <4>2 DEF TypeOK, SessionTypeOK
    <3> QED
      BY <1>3, <2>1, <2>3, <3>1, <3>2, AnswerType DEF RegisterSource, TypeOK, clientVars
  <2>4. CASE ~Registrable(h, others)
    BY <1>3, <2>1, <2>4, EndType, AnswerType DEF RegisterSource, TypeOK, clientVars
  <2> QED
    BY <2>3, <2>4
<1>4. CASE HandleSnapshot(c)
  <2> DEFINE s == Head(toServer[c]).body
  <2>1. s \in Snapshots /\ toServer[c] # <<>>
    <3>1. Receives(c, "Snapshot")
      BY <1>4 DEF HandleSnapshot
    <3>2. Head(toServer[c]) \in Frames /\ Head(toServer[c]).type = "Snapshot"
      BY <3>1 DEF TypeOK, Receives
    <3> QED
      BY <3>1, <3>2, BodyType DEF Receives
  <2>2. CASE session[c].context = {}
    <3>1. Answer(c, ErrorFrame) /\ End(c) /\ UNCHANGED fences
      BY <1>4, <2>2 DEF HandleSnapshot
    <3> QED
      BY <1>4, <3>1, EndType, AnswerType DEF HandleSnapshot, TypeOK, observatoryVars, clientVars
  <2>3. CASE session[c].context # {} /\ MayPublish(session[c].context, s) /\ FencePasses(s, fences[s.source])
    <3> DEFINE r == [session[c] EXCEPT !.at = "ingesting", !.work = {s}]
    <3>1. /\ fences' = [fences EXCEPT ![s.source] = FenceMark(s, fences[s.source])]
          /\ Continue(c, r)
          /\ UNCHANGED toClient
      BY <1>4, <2>3 DEF HandleSnapshot
    <3>2. SessionTypeOK' /\ toServer' \in [Connections -> Seq(Frames)]
      <4>1. {s} \in SUBSET (Authorities \cup Snapshots)
        BY <2>1
      <4> HIDE DEF s
      <4>2. r \in SessionStates /\ r.at = "ingesting" /\ r.work = {s}
        <5>1. session[c] \in SessionStates
          BY DEF TypeOK, SessionTypeOK
        <5> QED
          BY <4>1, <5>1 DEF SessionStates
      <4> HIDE DEF r
      <4> QED
        BY <2>1, <3>1, <4>2, ContinueType
    <3>3. fences' \in [Sources -> Marks]
      BY <2>1, <3>1, MarkType DEF TypeOK, Snapshots
    <3> QED
      BY <1>4, <3>1, <3>2, <3>3 DEF HandleSnapshot, TypeOK, observatoryVars, clientVars
  <2>4. CASE session[c].context # {} /\ ~(MayPublish(session[c].context, s) /\ FencePasses(s, fences[s.source]))
    <3>1. Answer(c, SnapshotAck(s, FALSE)) /\ Continue(c, session[c]) /\ UNCHANGED fences
      BY <1>4, <2>4 DEF HandleSnapshot
    <3>2. SessionTypeOK' /\ toServer' \in [Connections -> Seq(Frames)]
      BY <2>1, <3>1, ContinueType DEF TypeOK, SessionTypeOK
    <3>3. toClient' \in [Connections -> Seq(Answers)]
      BY <2>1, <3>1, AnswerType
    <3> QED
      BY <1>4, <3>1, <3>2, <3>3 DEF HandleSnapshot, TypeOK, observatoryVars, clientVars
  <2> QED
    BY <2>2, <2>3, <2>4
<1>5. CASE IngestObservation(c)
  <2> DEFINE ok(s) == started /\ Admissible(s, newest[s.source])
  <2>1. PICK s \in session[c].work :
          /\ newest' = IF ok(s) THEN [newest EXCEPT ![s.source] = NewestWith(s, newest[s.source])] ELSE newest
          /\ Answer(c, SnapshotAck(s, ok(s)))
          /\ session' = [session EXCEPT ![c] = [session[c] EXCEPT !.at = "reading", !.work = {}]]
    BY <1>5 DEF IngestObservation
  <2>2. s \in Snapshots
    BY <1>5 DEF IngestObservation, TypeOK, SessionTypeOK
  <2>3. newest' \in [Sources -> Marks]
    BY <2>1, <2>2, MarkType DEF TypeOK, Snapshots
  <2>4. SessionTypeOK'
    <3> DEFINE r == [session[c] EXCEPT !.at = "reading", !.work = {}]
    <3>1. r \in SessionStates /\ r.at = "reading"
      <4>1. session[c] \in SessionStates
        BY DEF TypeOK, SessionTypeOK
      <4> QED
        BY <4>1 DEF SessionStates
    <3>2. session' = [session EXCEPT ![c] = r]
      BY <2>1 DEF TypeOK, SessionTypeOK
    <3> HIDE DEF r
    <3> QED
      BY <3>1, <3>2 DEF TypeOK, SessionTypeOK
  <2>5. ok(s) \in BOOLEAN
    BY DEF Admissible, TypeOK
  <2>6. toClient' \in [Connections -> Seq(Answers)]
    BY <2>1, <2>2, <2>5, AnswerType
  <2> QED
    BY <1>5, <2>3, <2>4, <2>6 DEF IngestObservation, TypeOK, clientVars
<1>6. CASE HandleBye(c)
  BY <1>6, EndType DEF HandleBye, TypeOK, observatoryVars, clientVars
<1>7. CASE SessionExpires(c)
  <2>1. toClient' \in [Connections -> Seq(Answers)]
    BY <1>7, AnswerType DEF SessionExpires, TypeOK
  <2> QED
    BY <1>7, <2>1, EndType DEF SessionExpires, TypeOK, observatoryVars, clientVars
<1> QED
  BY <1>1, <1>2, <1>3, <1>4, <1>5, <1>6, <1>7

\* A publisher's record stays typed when it is closed, advanced or given a
\* connection.
LEMMA PublisherType ==
    ASSUME TypeOK, NEW p \in Publishers, NEW r \in PublisherStates,
           r.at # "closed" => r.on \in Connections,
           publisher' = [publisher EXCEPT ![p] = r]
    PROVE  /\ publisher' \in [Publishers -> PublisherStates]
           /\ \A q \in Publishers : publisher'[q].at # "closed" => publisher'[q].on \in Connections
BY DEF TypeOK

\* Closed is a publisher's record.
LEMMA ClosedType == Closed \in PublisherStates /\ Closed.at = "closed"
BY DEF Closed, PublisherStates

\* One step of a publisher keeps the types.
LEMMA PublisherStepType ==
    ASSUME TypeOK, NEW p \in Publishers,
           \/ Connect(p) \/ ReadHelloAck(p) \/ ConnectTimesOut(p)
           \/ \E s \in Offered[p] : Publish(p, s)
           \/ ReadAck(p) \/ PublishTimesOut(p) \/ Close(p) \/ Crash(p)
    PROVE  TypeOK'
<1> DEFINE c == publisher[p].on
<1>1. publisher[p] \in PublisherStates /\ (publisher[p].at # "closed" => c \in Connections)
  BY DEF TypeOK
<1>2. Connections \subseteq Nat
  BY DEF Connections
<1>3. ASSUME publisher' = [publisher EXCEPT ![p] = Closed], HangUp(p),
             UNCHANGED <<fences, observatoryVars, session>>,
             toServer' \in [Connections -> Seq(Frames)]
      PROVE  TypeOK'
  BY <1>3, PublisherType, ClosedType, HangUpType DEF TypeOK, SessionTypeOK, observatoryVars
<1>4. CASE Connect(p)
  <2>1. PICK d \in Unused :
          /\ \A e \in Unused : d <= e
          /\ publisher' = [publisher EXCEPT ![p] = [Closed EXCEPT !.at = "greeting", !.on = d]]
          /\ session' = [session EXCEPT ![d].at = "waiting"]
          /\ toServer' = [toServer EXCEPT ![d] = <<HelloFrame(Config[p])>>]
    BY <1>4, Zenon DEF Connect
  <2>2. d \in Connections
    BY DEF Unused
  <2>3. SessionTypeOK'
    <3> DEFINE r == [session[d] EXCEPT !.at = "waiting"]
    <3>1. session[d] \in SessionStates
      BY <2>2 DEF TypeOK, SessionTypeOK
    <3>2. r \in SessionStates /\ r.at = "waiting"
      BY <3>1 DEF SessionStates
    <3>3. session' = [session EXCEPT ![d] = r]
      BY <2>1
    <3> HIDE DEF r
    <3> QED
      BY <2>2, <3>2, <3>3 DEF TypeOK, SessionTypeOK
  <2>4. toServer' \in [Connections -> Seq(Frames)]
    <3>1. HelloFrame(Config[p]) \in Frames
      BY TransportAssumption DEF HelloFrame, Frames
    <3>2. <<HelloFrame(Config[p])>> \in Seq(Frames)
      BY <3>1
    <3> QED
      BY <2>1, <2>2, <3>2 DEF TypeOK
  <2>5. /\ publisher' \in [Publishers -> PublisherStates]
        /\ \A q \in Publishers : publisher'[q].at # "closed" => publisher'[q].on \in Connections
    <3> DEFINE r == [Closed EXCEPT !.at = "greeting", !.on = d]
    <3>1. r \in PublisherStates /\ r.on = d
      BY <2>2 DEF Closed, PublisherStates
    <3>2. publisher' = [publisher EXCEPT ![p] = r]
      BY <2>1
    <3> HIDE DEF r
    <3> QED
      BY <2>2, <3>1, <3>2, PublisherType
  <2>6. hungUp' \subseteq Connections /\ toClient' \in [Connections -> Seq(Answers)]
    <3>1. HangUp(p)
      BY <1>4, Zenon DEF Connect
    <3> QED
      BY <3>1, HangUpType
  <2>7. UNCHANGED <<fences, sources, newest, retained, started>>
    BY <1>4, Zenon DEF Connect, observatoryVars
  <2> QED
    BY <2>3, <2>4, <2>5, <2>6, <2>7 DEF TypeOK
<1>5. CASE ReadHelloAck(p)
  <2>1. CASE Head(toClient[c]) = HelloAck(TRUE)
    <3> DEFINE r == [publisher[p] EXCEPT !.at = "connected"]
    <3>1. /\ publisher' = [publisher EXCEPT ![p] = r]
          /\ toClient' = [toClient EXCEPT ![c] = Tail(toClient[c])]
          /\ UNCHANGED hungUp
      BY <1>5, <2>1 DEF ReadHelloAck
    <3>2. r \in PublisherStates /\ r.on = c
      BY <1>1 DEF PublisherStates
    <3>3. c \in Connections /\ toClient[c] # <<>>
      BY <1>1, <1>5 DEF ReadHelloAck
    <3>4. toClient' \in [Connections -> Seq(Answers)]
      <4>1. Tail(toClient[c]) \in Seq(Answers)
        BY <3>3 DEF TypeOK
      <4> QED
        BY <3>1, <3>3, <4>1 DEF TypeOK
    <3> HIDE DEF r
    <3>5. /\ publisher' \in [Publishers -> PublisherStates]
          /\ \A q \in Publishers : publisher'[q].at # "closed" => publisher'[q].on \in Connections
      BY <3>1, <3>2, <3>3, PublisherType
    <3> QED
      BY <1>5, <3>1, <3>4, <3>5 DEF ReadHelloAck, TypeOK, SessionTypeOK, observatoryVars
  <2>2. CASE Head(toClient[c]) # HelloAck(TRUE)
    BY <1>3, <1>5, <2>2 DEF ReadHelloAck, TypeOK
  <2> QED
    BY <2>1, <2>2
<1>6. CASE ConnectTimesOut(p)
  BY <1>3, <1>6 DEF ConnectTimesOut, TypeOK
<1>7. ASSUME NEW s \in Offered[p], Publish(p, s)
      PROVE  TypeOK'
  <2> DEFINE r == [publisher[p] EXCEPT !.at = "publishing", !.sent = {s}]
  <2>1. s \in Snapshots
    BY TransportAssumption
  <2>2. r \in PublisherStates /\ r.on = c
    BY <1>1, <2>1 DEF PublisherStates
  <2>3. publisher' = [publisher EXCEPT ![p] = r] /\ c \in Connections
    <3>1. publisher' = [publisher EXCEPT ![p] = r] /\ publisher[p].at = "connected"
      BY <1>7, Zenon DEF Publish
    <3> QED
      BY <1>1, <3>1
  <2> HIDE DEF r
  <2>4. /\ publisher' \in [Publishers -> PublisherStates]
        /\ \A q \in Publishers : publisher'[q].at # "closed" => publisher'[q].on \in Connections
    BY <2>2, <2>3, PublisherType
  <2>5. toServer' \in [Connections -> Seq(Frames)]
    <3>1. SnapshotFrame(s) \in Frames
      BY <2>1 DEF SnapshotFrame, Frames
    <3>2. Send(c, SnapshotFrame(s))
      BY <1>7, Zenon DEF Publish
    <3> QED
      BY <2>3, <3>1, <3>2, SendType
  <2>6. UNCHANGED <<fences, sources, newest, retained, started, session, toClient, hungUp>>
    BY <1>7, Zenon DEF Publish, observatoryVars
  <2> QED
    BY <2>4, <2>5, <2>6 DEF TypeOK, SessionTypeOK
<1>8. CASE ReadAck(p)
  <2> DEFINE r == [publisher[p] EXCEPT !.at = "connected", !.sent = {}]
  <2>1. r \in PublisherStates /\ r.on = c
    BY <1>1 DEF PublisherStates
  <2>2. publisher' = [publisher EXCEPT ![p] = r] /\ c \in Connections /\ toClient[c] # <<>>
    BY <1>1, <1>8 DEF ReadAck, TypeOK
  <2> HIDE DEF r
  <2>3. /\ publisher' \in [Publishers -> PublisherStates]
        /\ \A q \in Publishers : publisher'[q].at # "closed" => publisher'[q].on \in Connections
    BY <2>1, <2>2, PublisherType
  <2>4. toClient' \in [Connections -> Seq(Answers)]
    <3>1. Tail(toClient[c]) \in Seq(Answers)
      BY <2>2 DEF TypeOK
    <3> QED
      BY <1>8, <2>2, <3>1 DEF ReadAck, TypeOK
  <2>6. UNCHANGED <<fences, sources, newest, retained, started, session, toServer, hungUp>>
    BY <1>8, Zenon DEF ReadAck, observatoryVars
  <2> QED
    BY <2>3, <2>4, <2>6 DEF TypeOK, SessionTypeOK
<1>9. CASE PublishTimesOut(p)
  <2> DEFINE r == [publisher[p] EXCEPT !.at = "connected", !.sent = {}, !.inStep = FALSE]
  <2>1. r \in PublisherStates /\ r.on = c
    BY <1>1 DEF PublisherStates
  <2>2. publisher' = [publisher EXCEPT ![p] = r] /\ c \in Connections
    BY <1>1, <1>9 DEF PublishTimesOut, TypeOK
  <2> HIDE DEF r
  <2>3. /\ publisher' \in [Publishers -> PublisherStates]
        /\ \A q \in Publishers : publisher'[q].at # "closed" => publisher'[q].on \in Connections
    BY <2>1, <2>2, PublisherType
  <2>6. UNCHANGED <<fences, sources, newest, retained, started, session, toServer, toClient, hungUp>>
    BY <1>9, Zenon DEF PublishTimesOut, observatoryVars
  <2> QED
    BY <2>3, <2>6 DEF TypeOK, SessionTypeOK
<1>10. CASE Close(p)
  <2>1. ByeFrame \in Frames
    BY DEF Frames
  <2>2. c \in Connections /\ Send(c, ByeFrame)
    BY <1>1, <1>10 DEF Close
  <2>3. toServer' \in [Connections -> Seq(Frames)]
    BY <2>1, <2>2, SendType
  <2> QED
    BY <1>3, <1>10, <2>3 DEF Close
<1>11. CASE Crash(p)
  BY <1>3, <1>11 DEF Crash, TypeOK
<1> QED
  BY <1>4, <1>5, <1>6, <1>7, <1>8, <1>9, <1>10, <1>11

\* The state of the transport is well typed: whatever the interleaving of
\* sessions, publishers and timeouts, a session that registers holds an
\* authority, one that ingests holds a snapshot, and a publisher that is not
\* closed has a connection.
THEOREM TransportTypeCorrect == Spec => []TypeOK
<1>1. Init => TypeOK
  <2> SUFFICES ASSUME Init PROVE TypeOK
    OBVIOUS
  <2>1. NoMark \in Marks /\ Nobody \in [epoch : Nat, incarnation : Nat]
    BY DEF NoMark, Nobody, Marks
  <2>2. Idle("unused") \in SessionStates /\ Idle("unused").at = "unused"
    BY DEF Idle, SessionStates
  <2>3. <<>> \in Seq(Frames) /\ <<>> \in Seq(Answers)
    OBVIOUS
  <2>4. \A x \in Stored : Mark(x) \in Marks
    BY TransportAssumption DEF Mark, Marks, Snapshots
  <2>5. retained \in [Sources -> Marks] /\ newest \in [Sources -> Marks]
    BY <2>1, <2>4 DEF Init
  <2> QED
    BY <2>1, <2>2, <2>3, <2>5, ClosedType DEF Init, TypeOK, SessionTypeOK
<1>2. TypeOK /\ [Next]_vars => TypeOK'
  <2> SUFFICES ASSUME TypeOK, [Next]_vars PROVE TypeOK'
    OBVIOUS
  <2>1. CASE StartObservatory \/ StopObservatory
    BY <2>1 DEF StartObservatory, StopObservatory, TypeOK, SessionTypeOK, clientVars
  <2>2. CASE UNCHANGED vars
    BY <2>2 DEF TypeOK, SessionTypeOK, vars
  <2> QED
    BY <2>1, <2>2, SessionStepType, PublisherStepType DEF Next
<1> QED
  BY <1>1, <1>2, PTL DEF Spec

-----------------------------------------------------------------------------
\* A mark is not behind itself.
LEMMA ForwardReflexive == \A f \in Marks : FenceForward(f, f)
BY DEF FenceForward, Marks

\* Every step moves the fences forward, provided no session is ahead of them:
\* a greeting is compared with the fence, a snapshot with the context its
\* session greeted with.
LEMMA FenceStep ==
    ASSUME TypeOK, FenceDominates, [Next]_vars
    PROVE  \A q \in Sources : FenceForward(fences[q], fences'[q])
<1>1. CASE UNCHANGED fences
  BY <1>1, ForwardReflexive DEF TypeOK
<1>2. ASSUME NEW c \in Connections, HandleHello(c)
      PROVE  \A q \in Sources : FenceForward(fences[q], fences'[q])
  <2> DEFINE h == Head(toServer[c]).body
  <2>1. h \in Authorities
    <3>1. Head(toServer[c]) \in Frames /\ Head(toServer[c]).type = "Hello"
      BY <1>2 DEF HandleHello, TypeOK, Receives
    <3> QED
      BY <3>1, BodyType
  <2>2. CASE HelloAdmitted(h, fences[h.source])
    <3>1. fences' = [fences EXCEPT ![h.source] = HelloMark(h, fences[h.source])]
      BY <1>2, <2>2 DEF HandleHello
    <3> HIDE DEF h
    <3>2. h.source \in Sources /\ fences[h.source] \in Marks
      BY <2>1 DEF Authorities, TypeOK
    <3>3. FenceForward(fences[h.source], HelloMark(h, fences[h.source]))
      BY <2>1, <2>2, <3>2 DEF HelloAdmitted, HelloMark, FenceForward, Authorities, Marks
    <3> QED
      BY <3>1, <3>2, <3>3, ForwardReflexive DEF TypeOK
  <2>3. CASE ~HelloAdmitted(h, fences[h.source])
    BY <1>1, <1>2, <2>3 DEF HandleHello
  <2> QED
    BY <2>2, <2>3
<1>3. ASSUME NEW c \in Connections, HandleSnapshot(c)
      PROVE  \A q \in Sources : FenceForward(fences[q], fences'[q])
  <2> DEFINE s == Head(toServer[c]).body
  <2>1. s \in Snapshots
    <3>1. Head(toServer[c]) \in Frames /\ Head(toServer[c]).type = "Snapshot"
      BY <1>3 DEF HandleSnapshot, TypeOK, Receives
    <3> QED
      BY <3>1, BodyType
  <2>2. CASE MayPublish(session[c].context, s) /\ FencePasses(s, fences[s.source])
    <3>1. fences' = [fences EXCEPT ![s.source] = FenceMark(s, fences[s.source])]
      BY <1>3, <2>2 DEF HandleSnapshot, MayPublish
    <3> HIDE DEF s
    <3>2. s.source \in Sources /\ fences[s.source] \in Marks
      BY <2>1 DEF Snapshots, TypeOK
    <3>3. s.epoch <= fences[s.source].epoch /\ s.incarnation <= fences[s.source].incarnation
      BY <2>2 DEF MayPublish, FenceDominates, Claimed
    <3>4. SameAuthority(s, fences[s.source])
      BY <2>1, <2>2, <3>2, <3>3 DEF FencePasses, SameAuthority, Snapshots, Marks
    <3>5. FenceForward(fences[s.source], FenceMark(s, fences[s.source]))
      BY <2>1, <3>2, <3>4 DEF FenceMark, SameAuthority, Mark, FenceForward, Snapshots, Marks
    <3> QED
      BY <3>1, <3>2, <3>5, ForwardReflexive DEF TypeOK
  <2>3. CASE ~(MayPublish(session[c].context, s) /\ FencePasses(s, fences[s.source]))
    BY <1>1, <1>3, <2>3 DEF HandleSnapshot
  <2> QED
    BY <2>2, <2>3
<1>4. ASSUME NEW c \in Connections,
             \/ Accept(c) \/ RegisterSource(c) \/ IngestObservation(c)
             \/ HandleBye(c) \/ SessionExpires(c)
      PROVE  UNCHANGED fences
  BY <1>4, Zenon DEF Accept, RegisterSource, IngestObservation, HandleBye, SessionExpires
<1>5. ASSUME NEW p \in Publishers,
             \/ Connect(p) \/ ReadHelloAck(p) \/ ConnectTimesOut(p)
             \/ \E s \in Offered[p] : Publish(p, s)
             \/ ReadAck(p) \/ PublishTimesOut(p) \/ Close(p) \/ Crash(p)
      PROVE  UNCHANGED fences
  BY <1>5, Zenon DEF Connect, ReadHelloAck, ConnectTimesOut, Publish, ReadAck,
                     PublishTimesOut, Close, Crash
<1>6. CASE StartObservatory \/ StopObservatory
  BY <1>1, <1>6 DEF StartObservatory, StopObservatory
<1>7. CASE UNCHANGED vars
  BY <1>1, <1>7 DEF vars
<1> QED
  BY <1>1, <1>2, <1>3, <1>4, <1>5, <1>6, <1>7 DEF Next

\* What a session speaks for depends only on its own record.
LEMMA ClaimOf ==
    ASSUME TypeOK, NEW c \in Connections, NEW d \in Connections, NEW r,
           session' = [session EXCEPT ![c] = r]
    PROVE  \/ Claimed(d)' = Claimed(d)
           \/ /\ d = c
              /\ Claimed(d)' = r.context \cup (IF r.at = "registering" THEN r.work ELSE {})
<1>1. session \in [Connections -> SessionStates]
  BY DEF TypeOK, SessionTypeOK
<1> QED
  BY <1>1 DEF Claimed

\* A session never starts to speak for an authority other than by a greeting
\* that the fence has just been moved to.
LEMMA ClaimStep ==
    ASSUME TypeOK, [Next]_vars, NEW d \in Connections, NEW a \in Claimed(d)'
    PROVE  \/ a \in Claimed(d)
           \/ /\ a \in Authorities
              /\ fences'[a.source].epoch = a.epoch
              /\ fences'[a.source].incarnation = a.incarnation
<1> DEFINE Goal == \/ a \in Claimed(d)
                   \/ /\ a \in Authorities
                      /\ fences'[a.source].epoch = a.epoch
                      /\ fences'[a.source].incarnation = a.incarnation
<1> SUFFICES Goal
  OBVIOUS
<1>0. session \in [Connections -> SessionStates]
  BY DEF TypeOK, SessionTypeOK
<1>1. CASE UNCHANGED session
  BY <1>1 DEF Claimed
<1>2. ASSUME NEW c \in Connections, NEW r, session' = [session EXCEPT ![c] = r],
             r.at # "registering", r.context \subseteq Claimed(c)
      PROVE  Goal
  <2>1. \/ Claimed(d)' = Claimed(d)
        \/ /\ d = c
           /\ Claimed(d)' = r.context \cup (IF r.at = "registering" THEN r.work ELSE {})
    BY ONLY TypeOK, <1>2, ClaimOf
  <2>2. a \in Claimed(d)
    BY <1>2, <2>1
  <2> QED
    BY <2>2
<1>3. ASSUME NEW c \in Connections, End(c)
      PROVE  Goal
  <2>1. session' = [session EXCEPT ![c] = Idle("done")]
    BY <1>3 DEF End
  <2>2. Idle("done").context = {} /\ Idle("done").at = "done"
    BY DEF Idle
  <2> QED
    BY <1>2, <2>1, <2>2
<1>4. ASSUME NEW c \in Connections, Accept(c)
      PROVE  Goal
  <2>1. CASE End(c)
    BY <1>3, <2>1
  <2>2. CASE session' = [session EXCEPT ![c].at = "reading"]
    <3> DEFINE r == [session[c] EXCEPT !.at = "reading"]
    <3>1. session' = [session EXCEPT ![c] = r]
      BY <2>2
    <3>2. r.at # "registering" /\ r.context \subseteq Claimed(c)
      BY <1>0 DEF SessionStates, Claimed
    <3> HIDE DEF r
    <3> QED
      BY <1>2, <3>1, <3>2
  <2> QED
    BY <1>4, <2>1, <2>2 DEF Accept
<1>5. ASSUME NEW c \in Connections, HandleHello(c)
      PROVE  Goal
  <2> DEFINE h == Head(toServer[c]).body
  <2>1. h \in Authorities
    <3>1. Head(toServer[c]) \in Frames /\ Head(toServer[c]).type = "Hello"
      BY <1>5 DEF HandleHello, TypeOK, Receives
    <3> QED
      BY <3>1, BodyType
  <2>2. CASE HelloAdmitted(h, fences[h.source])
    <3> DEFINE r == [session[c] EXCEPT !.at = "registering", !.work = {h}]
    <3>1. /\ fences' = [fences EXCEPT ![h.source] = HelloMark(h, fences[h.source])]
          /\ session' = [session EXCEPT ![c] = r]
      BY <1>5, <2>2 DEF HandleHello, Continue
    <3> HIDE DEF h
    <3>2. r.work = {h} /\ r.context = session[c].context
      BY <1>0 DEF SessionStates
    <3> HIDE DEF r
    <3>3. CASE a = h
      <4>1. h.source \in Sources /\ fences[h.source] \in Marks
        BY <2>1 DEF Authorities, TypeOK
      <4>2. /\ HelloMark(h, fences[h.source]).epoch = h.epoch
            /\ HelloMark(h, fences[h.source]).incarnation = h.incarnation
        BY <4>1 DEF HelloMark, Marks
      <4> QED
        BY <2>1, <3>1, <3>3, <4>1, <4>2 DEF TypeOK
    <3>4. CASE a # h
      BY <3>1, <3>2, <3>4, ClaimOf DEF Claimed
    <3> QED
      BY <3>3, <3>4
  <2>3. CASE ~HelloAdmitted(h, fences[h.source])
    BY <1>3, <1>5, <2>3 DEF HandleHello
  <2> QED
    BY <2>2, <2>3
<1>6. ASSUME NEW c \in Connections, RegisterSource(c)
      PROVE  Goal
  <2>1. PICK h \in session[c].work :
          \/ session' = [session EXCEPT ![c] = [at |-> "reading", context |-> {h}, work |-> {}]]
          \/ End(c)
    BY <1>6 DEF RegisterSource
  <2>2. h \in Claimed(c)
    BY <1>6 DEF RegisterSource, Claimed
  <2> DEFINE r == [at |-> "reading", context |-> {h}, work |-> {}]
  <2>3. r.at # "registering" /\ r.context \subseteq Claimed(c)
    BY <2>2
  <2>4. End(c) \/ session' = [session EXCEPT ![c] = r]
    BY <2>1
  <2> HIDE DEF r
  <2> QED
    BY <1>2, <1>3, <2>3, <2>4
<1>7. ASSUME NEW c \in Connections, HandleSnapshot(c)
      PROVE  Goal
  <2> DEFINE s == Head(toServer[c]).body
             r == [session[c] EXCEPT !.at = "ingesting", !.work = {s}]
  <2>1. \/ End(c)
        \/ session' = [session EXCEPT ![c] = r]
        \/ session' = [session EXCEPT ![c] = session[c]]
    BY <1>7 DEF HandleSnapshot, Continue
  <2>2. r.at # "registering" /\ r.context \subseteq Claimed(c)
    BY <1>0 DEF SessionStates, Claimed
  <2>3. CASE session' = [session EXCEPT ![c] = session[c]]
    BY <1>0, <1>1, <2>3
  <2> HIDE DEF r
  <2> QED
    BY <1>2, <1>3, <2>1, <2>2, <2>3
<1>8. ASSUME NEW c \in Connections, IngestObservation(c)
      PROVE  Goal
  <2> DEFINE r == [session[c] EXCEPT !.at = "reading", !.work = {}]
  <2>1. session' = [session EXCEPT ![c] = r]
    BY <1>8 DEF IngestObservation
  <2>2. r.at # "registering" /\ r.context \subseteq Claimed(c)
    BY <1>0 DEF SessionStates, Claimed
  <2> HIDE DEF r
  <2> QED
    BY <1>2, <2>1, <2>2
<1>9. ASSUME NEW c \in Connections, HandleBye(c) \/ SessionExpires(c)
      PROVE  Goal
  BY <1>3, <1>9 DEF HandleBye, SessionExpires
<1>10. ASSUME NEW p \in Publishers, Connect(p)
       PROVE  Goal
  <2>1. PICK c \in Unused : session' = [session EXCEPT ![c].at = "waiting"]
    BY <1>10, Zenon DEF Connect
  <2> DEFINE r == [session[c] EXCEPT !.at = "waiting"]
  <2>2. c \in Connections /\ session' = [session EXCEPT ![c] = r]
    BY <2>1 DEF Unused
  <2>3. r.at # "registering" /\ r.context \subseteq Claimed(c)
    BY <1>0, <2>2 DEF SessionStates, Claimed
  <2> HIDE DEF r
  <2> QED
    BY <1>2, <2>2, <2>3
<1>11. ASSUME NEW p \in Publishers,
              \/ ReadHelloAck(p) \/ ConnectTimesOut(p)
              \/ \E s \in Offered[p] : Publish(p, s)
              \/ ReadAck(p) \/ PublishTimesOut(p) \/ Close(p) \/ Crash(p)
       PROVE  UNCHANGED session
  BY <1>11, Zenon DEF ReadHelloAck, ConnectTimesOut, Publish, ReadAck,
                      PublishTimesOut, Close, Crash
<1>12. CASE StartObservatory \/ StopObservatory
  BY <1>1, <1>12 DEF StartObservatory, StopObservatory
<1>13. CASE UNCHANGED vars
  BY <1>1, <1>13 DEF vars
<1> HIDE DEF Goal
<1> QED
  BY <1>1, <1>4, <1>5, <1>6, <1>7, <1>8, <1>9, <1>10, <1>11, <1>12, <1>13 DEF Next

\* The inductive invariant: well-typed states in which no session is ahead of
\* its fence.  FenceDominates alone is not inductive, since the comparisons of
\* FenceStep need the numbers of marks and snapshots.
FenceInvariant == TypeOK /\ FenceDominates

\* The fence step and the claim step together keep FenceDominates.
LEMMA DominatesStep ==
    ASSUME FenceInvariant, [Next]_vars, TypeOK'
    PROVE  FenceDominates'
<1> SUFFICES ASSUME NEW d \in Connections, NEW a \in Claimed(d)'
             PROVE  /\ a.epoch <= fences'[a.source].epoch
                    /\ a.incarnation <= fences'[a.source].incarnation
  BY DEF FenceDominates
<1> USE DEF FenceInvariant
<1>1. CASE a \in Claimed(d)
  <2>1. a \in Authorities
    BY <1>1 DEF Claimed, TypeOK, SessionTypeOK, SessionStates
  <2>2. a.source \in Sources /\ a.epoch \in Nat /\ a.incarnation \in Nat
    BY <2>1 DEF Authorities
  <2>3. fences[a.source] \in Marks /\ fences'[a.source] \in Marks
    BY <2>2 DEF TypeOK
  <2>4. a.epoch <= fences[a.source].epoch /\ a.incarnation <= fences[a.source].incarnation
    BY <1>1 DEF FenceDominates
  <2>5. FenceForward(fences[a.source], fences'[a.source])
    BY <2>2, FenceStep
  <2> QED
    BY <2>2, <2>3, <2>4, <2>5 DEF FenceForward, Marks
<1>2. CASE /\ a \in Authorities
           /\ fences'[a.source].epoch = a.epoch
           /\ fences'[a.source].incarnation = a.incarnation
  BY <1>2 DEF Authorities
<1> QED
  BY <1>1, <1>2, ClaimStep

\* FenceInvariant is an invariant of the transport.
LEMMA FenceInvariantHolds == Spec => []FenceInvariant
<1>1. Init => FenceDominates
  <2> SUFFICES ASSUME Init PROVE FenceDominates
    OBVIOUS
  <2>1. Idle("unused").context = {} /\ Idle("unused").at = "unused"
    BY DEF Idle
  <2> QED
    BY <2>1 DEF Init, FenceDominates, Claimed
<1>2. FenceInvariant /\ [Next]_vars /\ TypeOK' => FenceInvariant'
  BY DominatesStep DEF FenceInvariant
<1> QED
  BY <1>1, <1>2, TransportTypeCorrect, PTL DEF Spec, FenceInvariant

\* For any number of publishers, connections and sources: no session speaks
\* for an authority that the fence of its source has not reached, so a
\* snapshot never takes the fence over from a greeting (HandleHello,
\* FenceSnapshot).
THEOREM FenceAlwaysDominates == Spec => []FenceDominates
BY FenceInvariantHolds, PTL DEF FenceInvariant

\* The high-water mark of a source never goes back, however greetings and
\* snapshots of old and new incarnations interleave, and the snapshot marked
\* under a sequence number is never replaced (HandleHello, FenceSnapshot).
THEOREM FenceNeverGoesBack == Spec => FenceMonotone
<1>1. FenceInvariant /\ [Next]_vars
        => [\A s \in Sources : FenceForward(fences[s], fences'[s])]_vars
  BY FenceStep DEF FenceInvariant
<1> QED
  BY <1>1, FenceInvariantHolds, PTL DEF Spec, FenceMonotone

-----------------------------------------------------------------------------
(* What passed the fence *)

\* The snapshots of source q on their way from the fence to the ledger, and the
\* newest one there unless it was there before the server was.
Passed(q) ==
    {x \in Snapshots : /\ x.source = q
                       /\ \/ newest[q] = Mark(x) /\ newest[q] # retained[q]
                          \/ \E c \in Connections : session[c].at = "ingesting" /\ x \in session[c].work}

\* The fence f remembers x, or has gone on to what makes x old.
Remembers(f, x) ==
    /\ x.epoch <= f.epoch /\ x.incarnation <= f.incarnation
    /\ x.incarnation = f.incarnation =>
          x.sequence <= f.sequence /\ (x.sequence = f.sequence => x = f.digest)

\* What passed the fence is known to it, and one sequence number of one
\* incarnation passed for one snapshot only.
SequenceInvariant ==
    \A q \in Sources :
        /\ newest[q] = retained[q] \/ \E x \in Snapshots : x.source = q /\ newest[q] = Mark(x)
        /\ \A x \in Passed(q) : Remembers(fences[q], x)
        /\ \A x, y \in Passed(q) :
              x.incarnation = y.incarnation /\ x.sequence = y.sequence => x = y

\* A fence that moves forward forgets nothing.
LEMMA StillRemembers ==
    ASSUME NEW f \in Marks, NEW g \in Marks, FenceForward(f, g),
           NEW x \in Snapshots, Remembers(f, x)
    PROVE  Remembers(g, x)
BY DEF Remembers, FenceForward, Marks, Snapshots

\* A snapshot that passes the fence under the fenced authority is remembered,
\* and is the only one of its sequence number.
LEMMA PassesOnce ==
    ASSUME NEW f \in Marks, NEW s \in Snapshots, SameAuthority(s, f), FencePasses(s, f)
    PROVE  /\ Remembers(FenceMark(s, f), s)
           /\ \A x \in Snapshots :
                Remembers(f, x) /\ x.incarnation = s.incarnation /\ x.sequence = s.sequence => x = s
<1>1. Remembers(Mark(s), s) /\ Mark(s).digest = s
  BY DEF Remembers, Mark, Snapshots
<1> QED
  BY <1>1 DEF Remembers, FencePasses, FenceMark, SameAuthority, Snapshots, Marks

\* What was loaded before the server was made is not written again.
LEMMA RetainedStep ==
    ASSUME [Next]_vars
    PROVE  UNCHANGED retained
<1>1. ASSUME NEW c \in Connections,
             \/ Accept(c) \/ HandleHello(c) \/ RegisterSource(c) \/ HandleSnapshot(c)
             \/ IngestObservation(c) \/ HandleBye(c) \/ SessionExpires(c)
      PROVE  UNCHANGED retained
  BY <1>1, Zenon DEF Accept, HandleHello, RegisterSource, HandleSnapshot, IngestObservation,
                     HandleBye, SessionExpires, observatoryVars
<1>2. ASSUME NEW p \in Publishers,
             \/ Connect(p) \/ ReadHelloAck(p) \/ ConnectTimesOut(p)
             \/ \E s \in Offered[p] : Publish(p, s)
             \/ ReadAck(p) \/ PublishTimesOut(p) \/ Close(p) \/ Crash(p)
      PROVE  UNCHANGED retained
  BY <1>2, Zenon DEF Connect, ReadHelloAck, ConnectTimesOut, Publish, ReadAck,
                     PublishTimesOut, Close, Crash, observatoryVars
<1>3. CASE StartObservatory \/ StopObservatory \/ UNCHANGED vars
  BY <1>3 DEF StartObservatory, StopObservatory, vars
<1> QED
  BY <1>1, <1>2, <1>3 DEF Next

\* Only HandleSnapshot lets a snapshot pass.
LEMMA PassedStep ==
    ASSUME TypeOK, [Next]_vars, NEW q \in Sources, NEW x \in Passed(q)'
    PROVE  \/ x \in Passed(q)
           \/ \E c \in Connections :
                /\ HandleSnapshot(c)
                /\ x = Head(toServer[c]).body
                /\ MayPublish(session[c].context, x) /\ FencePasses(x, fences[q])
                /\ fences' = [fences EXCEPT ![q] = FenceMark(x, fences[q])]
<1>0. session \in [Connections -> SessionStates] /\ newest \in [Sources -> Marks]
  BY DEF TypeOK, SessionTypeOK
<1>1. x \in Snapshots /\ x.source = q
  BY DEF Passed
<1>r. UNCHANGED retained
  BY RetainedStep
<1>a. \/ newest'[q] = Mark(x) /\ newest'[q] # retained[q]
      \/ \E c \in Connections : session'[c].at = "ingesting" /\ x \in session'[c].work
  BY <1>r DEF Passed
<1>b. ASSUME UNCHANGED <<newest, session>>
      PROVE  x \in Passed(q)
  BY <1>1, <1>a, <1>b DEF Passed
<1>2. ASSUME NEW c \in Connections, NEW r, session' = [session EXCEPT ![c] = r],
             r.at # "ingesting", UNCHANGED newest
      PROVE  x \in Passed(q)
  BY <1>0, <1>1, <1>a, <1>2 DEF Passed
<1>3. ASSUME NEW c \in Connections, End(c), UNCHANGED newest
      PROVE  x \in Passed(q)
  <2>1. session' = [session EXCEPT ![c] = Idle("done")] /\ Idle("done").at = "done"
    BY <1>3 DEF End, Idle
  <2> QED
    BY <1>2, <1>3, <2>1
<1>4. ASSUME NEW c \in Connections, Accept(c)
      PROVE  x \in Passed(q)
  <2>0. UNCHANGED newest
    BY <1>4 DEF Accept, observatoryVars
  <2>1. CASE End(c)
    BY <1>3, <2>0, <2>1
  <2>2. CASE session' = [session EXCEPT ![c].at = "reading"]
    <3> DEFINE r == [session[c] EXCEPT !.at = "reading"]
    <3>1. session' = [session EXCEPT ![c] = r] /\ r.at = "reading"
      BY <1>0, <2>2 DEF SessionStates
    <3> HIDE DEF r
    <3> QED
      BY <1>2, <2>0, <3>1
  <2> QED
    BY <1>4, <2>1, <2>2 DEF Accept
<1>5. ASSUME NEW c \in Connections, HandleHello(c)
      PROVE  x \in Passed(q)
  <2> DEFINE r == [session[c] EXCEPT !.at = "registering", !.work = {Head(toServer[c]).body}]
  <2>1. UNCHANGED newest /\ (End(c) \/ session' = [session EXCEPT ![c] = r])
    BY <1>5 DEF HandleHello, Continue, observatoryVars
  <2>2. r.at = "registering"
    BY <1>0 DEF SessionStates
  <2> HIDE DEF r
  <2> QED
    BY <1>2, <1>3, <2>1, <2>2
<1>6. ASSUME NEW c \in Connections, RegisterSource(c)
      PROVE  x \in Passed(q)
  <2>1. PICK h \in session[c].work :
          \/ session' = [session EXCEPT ![c] = [at |-> "reading", context |-> {h}, work |-> {}]]
          \/ End(c)
    BY <1>6 DEF RegisterSource
  <2> DEFINE r == [at |-> "reading", context |-> {h}, work |-> {}]
  <2>2. UNCHANGED newest /\ (End(c) \/ session' = [session EXCEPT ![c] = r]) /\ r.at = "reading"
    BY <1>6, <2>1 DEF RegisterSource
  <2> HIDE DEF r
  <2> QED
    BY <1>2, <1>3, <2>2
<1>7. ASSUME NEW c \in Connections, HandleSnapshot(c), x \notin Passed(q)
      PROVE  /\ x = Head(toServer[c]).body
             /\ MayPublish(session[c].context, x) /\ FencePasses(x, fences[q])
             /\ fences' = [fences EXCEPT ![q] = FenceMark(x, fences[q])]
  <2> DEFINE s == Head(toServer[c]).body
             r == [session[c] EXCEPT !.at = "ingesting", !.work = {s}]
             passes == MayPublish(session[c].context, s) /\ FencePasses(s, fences[s.source])
  <2>0. UNCHANGED newest
    BY <1>7 DEF HandleSnapshot, observatoryVars
  <2>1. CASE End(c)
    BY <1>3, <1>7, <2>0, <2>1
  <2>2. CASE session' = [session EXCEPT ![c] = session[c]]
    BY <1>0, <1>b, <1>7, <2>0, <2>2
  <2>3. CASE /\ passes
             /\ fences' = [fences EXCEPT ![s.source] = FenceMark(s, fences[s.source])]
             /\ session' = [session EXCEPT ![c] = r]
    <3>1. r.work = {s}
      BY <1>0 DEF SessionStates
    <3> HIDE DEF s, r
    <3>2. x = s
      BY <1>0, <1>1, <1>7, <1>a, <2>0, <2>3, <3>1 DEF Passed
    <3> QED
      BY <1>1, <2>3, <3>2 DEF s
  <2> QED
    BY <1>7, <2>1, <2>2, <2>3 DEF HandleSnapshot, Continue
<1>8. ASSUME NEW c \in Connections, IngestObservation(c)
      PROVE  x \in Passed(q)
  <2> DEFINE r == [session[c] EXCEPT !.at = "reading", !.work = {}]
  <2>1. PICK s \in session[c].work :
          /\ session' = [session EXCEPT ![c] = r]
          /\ \/ newest' = newest
             \/ newest' = [newest EXCEPT ![s.source] = NewestWith(s, newest[s.source])]
    BY <1>8 DEF IngestObservation
  <2>2. session[c].at = "ingesting" /\ s \in Snapshots /\ r.at = "reading"
    BY <1>0, <1>8 DEF IngestObservation, TypeOK, SessionTypeOK, SessionStates
  <2> HIDE DEF r
  <2>3. CASE newest' = newest
    BY <1>2, <2>1, <2>2, <2>3
  <2>4. CASE newest'[q] = Mark(x) /\ newest'[q] # newest[q] /\ newest'[q] # retained[q]
    <3>1. newest'[q] = Mark(s) /\ s.source = q
      BY <1>0, <2>1, <2>2, <2>4 DEF NewestWith, Snapshots
    <3>2. x = s
      BY <2>4, <3>1 DEF Mark
    <3> QED
      BY <1>1, <2>2, <3>2 DEF Passed
  <2>5. CASE newest'[q] = Mark(x) /\ newest'[q] = newest[q] /\ newest'[q] # retained[q]
    BY <1>1, <2>5 DEF Passed
  <2>6. CASE \E d \in Connections : session'[d].at = "ingesting" /\ x \in session'[d].work
    BY <1>0, <1>1, <2>1, <2>2, <2>6 DEF Passed
  <2> QED
    BY <1>a, <2>4, <2>5, <2>6
<1>9. ASSUME NEW c \in Connections, HandleBye(c) \/ SessionExpires(c)
      PROVE  x \in Passed(q)
  BY <1>3, <1>9 DEF HandleBye, SessionExpires, observatoryVars
<1>10. ASSUME NEW p \in Publishers, Connect(p)
       PROVE  x \in Passed(q)
  <2>1. PICK c \in Unused : session' = [session EXCEPT ![c].at = "waiting"]
    BY <1>10, Zenon DEF Connect
  <2> DEFINE r == [session[c] EXCEPT !.at = "waiting"]
  <2>2. c \in Connections /\ session' = [session EXCEPT ![c] = r]
    BY <2>1 DEF Unused
  <2>3. r.at = "waiting"
    BY <1>0, <2>2 DEF SessionStates
  <2>4. UNCHANGED newest
    BY <1>10, Zenon DEF Connect, observatoryVars
  <2> HIDE DEF r
  <2> QED
    BY <1>2, <2>2, <2>3, <2>4
<1>11. ASSUME NEW p \in Publishers,
              \/ ReadHelloAck(p) \/ ConnectTimesOut(p)
              \/ \E s \in Offered[p] : Publish(p, s)
              \/ ReadAck(p) \/ PublishTimesOut(p) \/ Close(p) \/ Crash(p)
       PROVE  UNCHANGED <<newest, session>>
  BY <1>11, Zenon DEF ReadHelloAck, ConnectTimesOut, Publish, ReadAck,
                      PublishTimesOut, Close, Crash, observatoryVars
<1>12. CASE StartObservatory \/ StopObservatory
  BY <1>b, <1>12 DEF StartObservatory, StopObservatory
<1>13. CASE UNCHANGED vars
  BY <1>b, <1>13 DEF vars
<1> QED
  BY <1>b, <1>4, <1>5, <1>6, <1>7, <1>8, <1>9, <1>10, <1>11, <1>12, <1>13 DEF Next

\* The newest record of a source changes to a snapshot that had passed.
LEMMA NewestStep ==
    ASSUME TypeOK, [Next]_vars, NEW q \in Sources
    PROVE  newest'[q] = newest[q] \/ \E x \in Snapshots : x.source = q /\ newest'[q] = Mark(x)
<1>1. ASSUME NEW c \in Connections, IngestObservation(c)
      PROVE  newest'[q] = newest[q] \/ \E x \in Snapshots : x.source = q /\ newest'[q] = Mark(x)
  <2>1. PICK s \in session[c].work :
          \/ newest' = newest
          \/ newest' = [newest EXCEPT ![s.source] = NewestWith(s, newest[s.source])]
    BY <1>1 DEF IngestObservation
  <2>2. s \in Snapshots
    BY <1>1 DEF IngestObservation, TypeOK, SessionTypeOK
  <2> QED
    BY <2>1, <2>2 DEF NewestWith, Snapshots, TypeOK
<1>2. ASSUME NEW c \in Connections,
             \/ Accept(c) \/ HandleHello(c) \/ RegisterSource(c) \/ HandleSnapshot(c)
             \/ HandleBye(c) \/ SessionExpires(c)
      PROVE  UNCHANGED newest
  BY <1>2, Zenon DEF Accept, HandleHello, RegisterSource, HandleSnapshot, HandleBye,
                     SessionExpires, observatoryVars
<1>3. ASSUME NEW p \in Publishers,
             \/ Connect(p) \/ ReadHelloAck(p) \/ ConnectTimesOut(p)
             \/ \E s \in Offered[p] : Publish(p, s)
             \/ ReadAck(p) \/ PublishTimesOut(p) \/ Close(p) \/ Crash(p)
      PROVE  UNCHANGED newest
  BY <1>3, Zenon DEF Connect, ReadHelloAck, ConnectTimesOut, Publish, ReadAck,
                     PublishTimesOut, Close, Crash, observatoryVars
<1>4. CASE StartObservatory \/ StopObservatory \/ UNCHANGED vars
  BY <1>4 DEF StartObservatory, StopObservatory, vars
<1> QED
  BY <1>1, <1>2, <1>3, <1>4 DEF Next

\* Every step preserves what a fence remembers of the snapshots that passed it.
LEMMA SequenceStep ==
    ASSUME FenceInvariant, SequenceInvariant, [Next]_vars, TypeOK'
    PROVE  SequenceInvariant'
<1> SUFFICES ASSUME NEW q \in Sources
             PROVE  /\ newest'[q] = retained'[q] \/ \E x \in Snapshots : x.source = q /\ newest'[q] = Mark(x)
                    /\ \A x \in Passed(q)' : Remembers(fences'[q], x)
                    /\ \A x, y \in Passed(q)' :
                          x.incarnation = y.incarnation /\ x.sequence = y.sequence => x = y
  BY DEF SequenceInvariant
<1> USE DEF FenceInvariant
<1>1. newest'[q] = retained'[q] \/ \E x \in Snapshots : x.source = q /\ newest'[q] = Mark(x)
  BY NewestStep, RetainedStep DEF SequenceInvariant
<1>2. fences[q] \in Marks /\ fences'[q] \in Marks /\ FenceForward(fences[q], fences'[q])
  BY FenceStep DEF TypeOK
<1>3. \A x \in Passed(q) : x \in Snapshots /\ Remembers(fences[q], x) /\ Remembers(fences'[q], x)
  BY <1>2, StillRemembers DEF SequenceInvariant, Passed
<1> DEFINE Fresh(x) == /\ x \in Snapshots /\ Remembers(fences'[q], x)
                       /\ \A y \in Passed(q) :
                             y.incarnation = x.incarnation /\ y.sequence = x.sequence => y = x
<1>4. ASSUME NEW x \in Passed(q)'
      PROVE  x \in Passed(q) \/ (Fresh(x) /\ \A y \in Passed(q)' : y \in Passed(q) \/ y = x)
  <2>1. CASE x \notin Passed(q)
    <3>1. PICK c \in Connections :
                /\ HandleSnapshot(c)
                /\ x = Head(toServer[c]).body
                /\ MayPublish(session[c].context, x) /\ FencePasses(x, fences[q])
                /\ fences' = [fences EXCEPT ![q] = FenceMark(x, fences[q])]
      BY <2>1, PassedStep
    <3>2. x \in Snapshots /\ x.source = q
      BY DEF Passed
    <3>3. x.epoch <= fences[q].epoch /\ x.incarnation <= fences[q].incarnation
      BY <3>1, <3>2 DEF MayPublish, FenceDominates, Claimed
    <3>4. SameAuthority(x, fences[q])
      BY <1>2, <3>1, <3>2, <3>3 DEF FencePasses, SameAuthority, Snapshots, Marks
    <3>5. fences'[q] = FenceMark(x, fences[q])
      BY <3>1 DEF TypeOK
    <3>6. Fresh(x)
      BY <1>2, <1>3, <3>1, <3>2, <3>4, <3>5, PassesOnce
    <3>7. ASSUME NEW y \in Passed(q)', y \notin Passed(q)
          PROVE  y = x
      <4>1. PICK d \in Connections :
                /\ HandleSnapshot(d)
                /\ y = Head(toServer[d]).body
        BY <3>7, PassedStep
      <4>2. Tail(toServer[c]) # toServer[c] /\ toServer[c] # <<>> /\ toServer[d] # <<>>
        BY <3>1, <4>1 DEF HandleSnapshot, Receives, TypeOK
      <4>3. toServer'[c] # toServer[c] /\ \A e \in Connections \ {d} : toServer'[e] = toServer[e]
        <5>1. toServer \in [Connections -> Seq(Frames)]
          BY DEF TypeOK
        <5> QED
          BY <3>1, <4>1, <4>2, <5>1 DEF HandleSnapshot, Continue, End
      <4> QED
        BY <3>1, <4>1, <4>3
    <3> QED
      BY <3>6, <3>7
  <2> QED
    BY <2>1
<1>5. \A x \in Passed(q)' : Remembers(fences'[q], x)
  BY <1>3, <1>4
<1>6. ASSUME NEW x \in Passed(q)', NEW y \in Passed(q)',
             x.incarnation = y.incarnation, x.sequence = y.sequence
      PROVE  x = y
  <2>1. CASE x \in Passed(q) /\ y \in Passed(q)
    BY <1>6, <2>1 DEF SequenceInvariant
  <2>2. CASE x \notin Passed(q)
    BY <1>4, <1>6, <2>2
  <2>3. CASE y \notin Passed(q)
    BY <1>4, <1>6, <2>3
  <2> QED
    BY <2>1, <2>2, <2>3
<1> QED
  BY <1>1, <1>5, <1>6

\* However sessions of one source race each other between the fence and the
\* ledger, and however incarnations and epochs succeed one another, one sequence
\* number of an incarnation stands for one snapshot among those a server let
\* through, whatever ledger it was started on (HandleSnapshot, FenceSnapshot,
\* RecordObservation).
THEOREM OneSnapshotPerSequence == Spec => []SequenceNamesOneSnapshot
<1>1. Init => SequenceInvariant
  <2> SUFFICES ASSUME Init, NEW q \in Sources
               PROVE  newest[q] = retained[q] /\ Passed(q) = {}
    BY DEF SequenceInvariant
  <2>1. newest[q] = retained[q] /\ \A c \in Connections : session[c].at = "unused"
    BY DEF Init, Idle
  <2> QED
    BY <2>1 DEF Passed
<1>2. FenceInvariant /\ SequenceInvariant /\ [Next]_vars /\ TypeOK' => SequenceInvariant'
  BY SequenceStep
<1>3. FenceInvariant /\ SequenceInvariant => SequenceNamesOneSnapshot
  <2> SUFFICES ASSUME FenceInvariant, SequenceInvariant, NEW q \in Sources,
                      NEW a \in LetThrough(q), NEW b \in LetThrough(q),
                      a.incarnation = b.incarnation, a.sequence = b.sequence
               PROVE  a = b
    BY DEF SequenceNamesOneSnapshot
  <2>1. ASSUME NEW m \in LetThrough(q)
        PROVE  \E x \in Passed(q) : m = Mark(x)
    <3>1. CASE m = newest[q] /\ m # retained[q]
      BY <3>1 DEF SequenceInvariant, Passed
    <3>2. CASE m \in Ingesting(q)
      <4>0. PICK x \in UNION {session[c].work : c \in
                   {d \in Connections : session[d].at = "ingesting"
                                        /\ \A y \in session[d].work : y.source = q}} : m = Mark(x)
        BY <3>2 DEF Ingesting
      <4>1. PICK c \in Connections : /\ session[c].at = "ingesting" /\ x \in session[c].work
                                     /\ x.source = q
        BY <4>0
      <4>2. x \in Snapshots
        BY <4>1 DEF FenceInvariant, TypeOK, SessionTypeOK
      <4> QED
        BY <4>0, <4>1, <4>2 DEF Passed
    <3> QED
      BY <3>1, <3>2 DEF LetThrough
  <2>2. \A x \in Passed(q) : Mark(x).incarnation = x.incarnation /\ Mark(x).sequence = x.sequence
    BY DEF Mark, Passed, Snapshots
  <2> QED
    BY <2>1, <2>2 DEF SequenceInvariant
<1> QED
  BY <1>1, <1>2, <1>3, FenceInvariantHolds, TransportTypeCorrect, PTL DEF Spec

-----------------------------------------------------------------------------
(* What an acknowledgement says *)

\* The ledger whose newest records are N has s, or a newer one of its source.
Recorded(s, N) ==
    LET n == N[s.source] IN
    /\ s.incarnation <= n.incarnation /\ s.epoch <= n.epoch
    /\ SameAuthority(s, n) => s.sequence <= n.sequence
    /\ (SameAuthority(s, n) /\ s.sequence = n.sequence) => n.digest = s

\* The stages of a connection between a publisher and a session ses, with the
\* frames `up' under way to the session and the answers `down' to the publisher.
\* First the greeting is under way, being registered, or answered; a session
\* that is done has perhaps said so.
Greets(ses, up, down) ==
    \/ ses.at \in {"waiting", "reading"} /\ (\E a : up = <<HelloFrame(a)>>) /\ down = <<>>
    \/ ses.at = "registering" /\ up = <<>> /\ down = <<>>
    \/ ses.at \in {"reading", "done"} /\ up = <<>> /\ \E b \in BOOLEAN : down = <<HelloAck(b)>>
    \/ ses.at = "done" /\ up = <<>> /\ down = <<ErrorFrame>>
    \/ ses.at = "done" /\ up = <<>> /\ \E b \in BOOLEAN : down = <<HelloAck(b), ErrorFrame>>

\* Between two snapshots nothing is under way.
Rests(ses, up, down) ==
    \/ ses.at = "reading" /\ up = <<>> /\ down = <<>>
    \/ ses.at = "done" /\ up = <<>> /\ (down = <<>> \/ down = <<ErrorFrame>>)

\* Snapshot s is under way, being ingested, answered truthfully, or lost.
Publishes(s, ses, up, down, N) ==
    \/ ses.at = "reading" /\ up = <<SnapshotFrame(s)>> /\ down = <<>>
    \/ ses.at = "ingesting" /\ ses.work = {s} /\ up = <<>> /\ down = <<>>
    \/ /\ ses.at \in {"reading", "done"} /\ up = <<>>
       /\ \E b \in BOOLEAN : down = <<SnapshotAck(s, b)>> /\ (b => Recorded(s, N))
    \/ ses.at = "done" /\ up = <<>> /\ (down = <<>> \/ down = <<ErrorFrame>>)
    \/ /\ ses.at = "done" /\ up = <<>>
       /\ \E b \in BOOLEAN : down = <<SnapshotAck(s, b), ErrorFrame>> /\ (b => Recorded(s, N))

InStep(pub, ses, up, down, N) ==
    \/ pub.at = "greeting" /\ Greets(ses, up, down)
    \/ pub.at = "connected" /\ Rests(ses, up, down)
    \/ pub.at = "publishing" /\ \E s \in Snapshots :
          pub.sent = {s} /\ Publishes(s, ses, up, down, N)

\* A connection has at most one publisher, which has not hung up; while every
\* Publish got its answer, publisher and session are in step.
LinkInvariant ==
    /\ \A c \in Connections : session[c].at = "unused" => toClient[c] = <<>> /\ c \notin hungUp
    /\ \A p \in Publishers :
         LET c == publisher[p].on IN
         IF publisher[p].at = "closed" THEN c = 0
         ELSE /\ c \notin hungUp /\ session[c].at # "unused"
              /\ publisher[p].inStep =>
                    InStep(publisher[p], session[c], toServer[c], toClient[c], newest)
    /\ \A p, q \in Publishers :
         p # q /\ publisher[p].at # "closed" => publisher[p].on # publisher[q].on

\* The short sequences of a connection.
LEMMA ShortSequences ==
    ASSUME NEW x, NEW y
    PROVE  /\ <<x>> # <<>> /\ Head(<<x>>) = x /\ Tail(<<x>>) = <<>>
           /\ Append(<<>>, x) = <<x>> /\ Append(<<x>>, y) = <<x, y>>
           /\ <<x, y>> # <<>> /\ Head(<<x, y>>) = x /\ Tail(<<x, y>>) = <<y>>
<1>1. /\ <<x>> # <<>> /\ Head(<<x>>) = x /\ Tail(<<x>>) = <<>>
      /\ Append(<<>>, x) = <<x>> /\ <<x, y>> # <<>> /\ Head(<<x, y>>) = x
  OBVIOUS
<1>2. Append(<<x>>, y) = <<x, y>>
  <2>1. <<x>> \in Seq({x, y}) /\ <<x, y>> \in Seq({x, y})
    OBVIOUS
  <2>2. /\ Append(<<x>>, y) \in Seq({x, y}) /\ Len(Append(<<x>>, y)) = 2
        /\ Append(<<x>>, y)[1] = x /\ Append(<<x>>, y)[2] = y
    BY <2>1
  <2>3. Len(<<x, y>>) = 2 /\ <<x, y>>[1] = x /\ <<x, y>>[2] = y
    OBVIOUS
  <2> DEFINE u == Append(<<x>>, y)
             v == <<x, y>>
  <2>4. u \in Seq({x, y}) /\ v \in Seq({x, y}) /\ Len(u) = Len(v)
    BY <2>1, <2>2, <2>3
  <2>5. \A i \in 1..Len(u) : u[i] = v[i]
    BY <2>2, <2>3
  <2> HIDE DEF u, v
  <2>6. u = v
    BY <2>4, <2>5, SeqEqual
  <2> QED
    BY <2>6 DEF u, v
<1>3. Tail(<<x, y>>) = <<y>>
  OBVIOUS
<1> QED
  BY <1>1, <1>2, <1>3

\* Frames and answers of different kinds are different.
LEMMA FrameKinds ==
    /\ \A a : HelloFrame(a).type = "Hello" /\ HelloFrame(a).body = a
    /\ \A s : SnapshotFrame(s).type = "Snapshot" /\ SnapshotFrame(s).body = s
    /\ ErrorFrame.type = "Error"
    /\ \A b : HelloAck(b).type = "HelloAck"
    /\ \A s, b : /\ SnapshotAck(s, b).type = "SnapshotAck"
                 /\ SnapshotAck(s, b).snapshot = s /\ SnapshotAck(s, b).accepted = b
BY DEF HelloFrame, SnapshotFrame, ErrorFrame, HelloAck, SnapshotAck

\* What is recorded stays recorded when a snapshot is admitted.
LEMMA StaysRecorded ==
    ASSUME NEW N \in [Sources -> Marks], NEW x \in Snapshots, Admissible(x, N[x.source]),
           NEW M, M = [N EXCEPT ![x.source] = NewestWith(x, N[x.source])]
    PROVE  /\ Recorded(x, M)
           /\ \A s \in Snapshots : Recorded(s, N) => Recorded(s, M)
<1> DEFINE n == N[x.source]
           m == NewestWith(x, n)
<1>1. x.source \in Sources /\ n \in Marks
  BY DEF Snapshots
<1>2. M[x.source] = m /\ \A q \in Sources \ {x.source} : M[q] = N[q]
  BY <1>1
<1>3. m = IF SameAuthority(x, n) /\ x.sequence <= n.sequence THEN n ELSE Mark(x)
  BY DEF NewestWith
<1>4. /\ Mark(x).epoch = x.epoch /\ Mark(x).incarnation = x.incarnation
      /\ Mark(x).sequence = x.sequence /\ Mark(x).digest = x
  BY DEF Mark
<1>5. /\ x.epoch \in Nat \ {0} /\ x.incarnation \in Nat \ {0} /\ x.sequence \in Nat \ {0}
      /\ n.epoch \in Nat /\ n.incarnation \in Nat /\ n.sequence \in Nat
  BY <1>1 DEF Snapshots, Marks
<1>6. \/ n.epoch = 0
      \/ /\ x.incarnation >= n.incarnation /\ x.epoch >= n.epoch
         /\ (x.incarnation = n.incarnation /\ x.sequence = n.sequence) => x = n.digest
  BY DEF Admissible, NoMark
<1> HIDE DEF n, m
<1>7. Recorded(x, M)
  BY <1>2, <1>3, <1>4, <1>5, <1>6 DEF Recorded, SameAuthority
<1>8. ASSUME NEW s \in Snapshots, Recorded(s, N)
      PROVE  Recorded(s, M)
  <2>1. s.source \in Sources /\ s.epoch \in Nat \ {0} /\ s.incarnation \in Nat \ {0} /\ s.sequence \in Nat \ {0}
    BY DEF Snapshots
  <2>2. CASE s.source # x.source
    BY <1>2, <1>8, <2>1, <2>2 DEF Recorded
  <2>3. CASE s.source = x.source
    <3>1. /\ s.incarnation <= n.incarnation /\ s.epoch <= n.epoch
          /\ SameAuthority(s, n) => s.sequence <= n.sequence
          /\ (SameAuthority(s, n) /\ s.sequence = n.sequence) => n.digest = s
      BY <1>8, <2>3 DEF Recorded, n
    <3>2. /\ s.incarnation <= m.incarnation /\ s.epoch <= m.epoch
          /\ SameAuthority(s, m) => s.sequence <= m.sequence
          /\ (SameAuthority(s, m) /\ s.sequence = m.sequence) => m.digest = s
      BY <1>3, <1>4, <1>5, <1>6, <2>1, <3>1 DEF SameAuthority
    <3> QED
      BY <1>2, <2>3, <3>2 DEF Recorded
  <2> QED
    BY <2>2, <2>3
<1> QED
  BY <1>7, <1>8

\* A step of a session keeps the stage of its connection.
LEMMA SessionInStep ==
    ASSUME TypeOK, NEW c \in Connections, c \notin hungUp, NEW pub,
           InStep(pub, session[c], toServer[c], toClient[c], newest),
           \/ Accept(c) \/ HandleHello(c) \/ RegisterSource(c) \/ HandleSnapshot(c)
           \/ IngestObservation(c) \/ HandleBye(c) \/ SessionExpires(c)
    PROVE  InStep(pub, session'[c], toServer'[c], toClient'[c], newest')
<1> DEFINE ses == session[c]
           up == toServer[c]
           down == toClient[c]
           Goal == InStep(pub, session'[c], toServer'[c], toClient'[c], newest')
<1>0. /\ session \in [Connections -> SessionStates] /\ ses \in SessionStates
      /\ toServer \in [Connections -> Seq(Frames)] /\ toClient \in [Connections -> Seq(Answers)]
  BY DEF TypeOK, SessionTypeOK
<1>1. ASSUME NEW a, Answer(c, a)
      PROVE  toClient'[c] = Append(down, a)
  BY <1>0, <1>1 DEF Answer
<1>2. ASSUME End(c)
      PROVE  session'[c].at = "done" /\ toServer'[c] = <<>>
  <2>1. session'[c] = Idle("done") /\ toServer'[c] = <<>>
    BY <1>0, <1>2 DEF End
  <2> QED
    BY <2>1 DEF Idle
<1>3. ASSUME NEW r, Continue(c, r)
      PROVE  session'[c] = r /\ toServer'[c] = Tail(up)
  BY <1>0, <1>3 DEF Continue
<1>4. CASE Accept(c)
  <2>1. ses.at = "waiting" /\ UNCHANGED newest
    BY <1>4 DEF Accept, observatoryVars
  <2>2. pub.at = "greeting" /\ (\E a : up = <<HelloFrame(a)>>) /\ down = <<>>
    BY <2>1 DEF InStep, Greets, Rests, Publishes
  <2>3. CASE End(c) /\ Answer(c, ErrorFrame)
    <3>1. toClient'[c] = <<ErrorFrame>>
      BY <1>1, <2>2, <2>3, ShortSequences
    <3> QED
      BY <1>2, <2>2, <2>3, <3>1 DEF InStep, Greets
  <2>4. CASE session' = [session EXCEPT ![c].at = "reading"] /\ UNCHANGED <<toServer, toClient>>
    <3>1. session'[c].at = "reading"
      BY <1>0, <2>4 DEF SessionStates
    <3> QED
      BY <2>2, <2>4, <3>1 DEF InStep, Greets
  <2> QED
    BY <1>4, <2>3, <2>4 DEF Accept
<1>5. CASE HandleHello(c)
  <2>1. ses.at = "reading" /\ up # <<>> /\ Head(up).type = "Hello"
    BY <1>5 DEF HandleHello, Receives
  <2>2. pub.at = "greeting" /\ (\E a : up = <<HelloFrame(a)>>) /\ down = <<>>
    BY <2>1, ShortSequences, FrameKinds DEF InStep, Greets, Rests, Publishes
  <2>3. CASE Answer(c, HelloAck(FALSE)) /\ End(c)
    <3>1. toClient'[c] = <<HelloAck(FALSE)>>
      BY <1>1, <2>2, <2>3, ShortSequences
    <3> QED
      BY <1>2, <2>2, <2>3, <3>1 DEF InStep, Greets
  <2>4. CASE /\ Continue(c, [session[c] EXCEPT !.at = "registering", !.work = {Head(toServer[c]).body}])
             /\ UNCHANGED toClient
    <3> DEFINE r == [session[c] EXCEPT !.at = "registering", !.work = {Head(toServer[c]).body}]
    <3>1. r.at = "registering"
      BY <1>0 DEF SessionStates
    <3>2. Tail(up) = <<>>
      BY <2>2, ShortSequences
    <3> HIDE DEF r
    <3>3. session'[c] = r /\ toServer'[c] = <<>>
      BY <1>3, <2>4, <3>2 DEF r
    <3> QED
      BY <2>2, <2>4, <3>1, <3>3 DEF InStep, Greets
  <2> QED
    BY <1>5, <2>3, <2>4 DEF HandleHello
<1>6. CASE RegisterSource(c)
  <2>1. ses.at = "registering"
    BY <1>6 DEF RegisterSource
  <2>2. pub.at = "greeting" /\ up = <<>> /\ down = <<>>
    BY <2>1 DEF InStep, Greets, Rests, Publishes
  <2>3. CASE Answer(c, HelloAck(FALSE)) /\ End(c)
    <3>1. toClient'[c] = <<HelloAck(FALSE)>>
      BY <1>1, <2>2, <2>3, ShortSequences
    <3> QED
      BY <1>2, <2>2, <2>3, <3>1 DEF InStep, Greets
  <2>4. CASE /\ \E h : session' = [session EXCEPT ![c] = [at |-> "reading", context |-> {h}, work |-> {}]]
             /\ Answer(c, HelloAck(TRUE)) /\ UNCHANGED toServer
    <3>1. toClient'[c] = <<HelloAck(TRUE)>>
      BY <1>1, <2>2, <2>4, ShortSequences
    <3>2. session'[c].at = "reading"
      BY <1>0, <2>4
    <3> QED
      BY <2>2, <2>4, <3>1, <3>2 DEF InStep, Greets
  <2> QED
    BY <1>6, <2>3, <2>4 DEF RegisterSource
<1>7. CASE HandleSnapshot(c)
  <2>1. ses.at = "reading" /\ up # <<>> /\ Head(up).type = "Snapshot"
    BY <1>7 DEF HandleSnapshot, Receives
  <2>2. PICK s \in Snapshots : /\ pub.at = "publishing" /\ pub.sent = {s}
                               /\ up = <<SnapshotFrame(s)>> /\ down = <<>>
    BY <2>1, ShortSequences, FrameKinds DEF InStep, Greets, Rests, Publishes
  <2>3. Head(up).body = s /\ Tail(up) = <<>>
    BY <2>2, ShortSequences, FrameKinds
  <2>4. CASE Answer(c, ErrorFrame) /\ End(c)
    <3>1. toClient'[c] = <<ErrorFrame>>
      BY <1>1, <2>2, <2>4, ShortSequences
    <3> QED
      BY <1>2, <2>2, <2>4, <3>1 DEF InStep, Publishes
  <2>5. CASE Continue(c, [session[c] EXCEPT !.at = "ingesting", !.work = {s}]) /\ UNCHANGED toClient
    <3> DEFINE r == [session[c] EXCEPT !.at = "ingesting", !.work = {s}]
    <3>1. r.at = "ingesting" /\ r.work = {s}
      BY <1>0 DEF SessionStates
    <3> HIDE DEF r
    <3>3. session'[c] = r /\ toServer'[c] = <<>>
      BY <1>3, <2>3, <2>5 DEF r
    <3> QED
      BY <2>2, <2>5, <3>1, <3>3 DEF InStep, Publishes
  <2>6. CASE Answer(c, SnapshotAck(s, FALSE)) /\ Continue(c, session[c])
    <3>0. toClient'[c] = Append(down, SnapshotAck(s, FALSE))
      BY <1>1, <2>6
    <3>1. toClient'[c] = <<SnapshotAck(s, FALSE)>>
      BY <2>2, <3>0, ShortSequences
    <3>2. session'[c] = ses /\ toServer'[c] = <<>>
      BY <1>3, <2>3, <2>6
    <3> QED
      BY <2>1, <2>2, <3>1, <3>2 DEF InStep, Publishes
  <2> QED
    BY <1>7, <2>3, <2>4, <2>5, <2>6 DEF HandleSnapshot
<1>8. CASE IngestObservation(c)
  <2>1. ses.at = "ingesting"
    BY <1>8 DEF IngestObservation
  <2>2. PICK s \in Snapshots : /\ pub.at = "publishing" /\ pub.sent = {s} /\ ses.work = {s}
                               /\ up = <<>> /\ down = <<>>
    BY <2>1 DEF InStep, Greets, Rests, Publishes
  <2> DEFINE ok == started /\ Admissible(s, newest[s.source])
             r == [session[c] EXCEPT !.at = "reading", !.work = {}]
  <2>3. /\ newest' = IF ok THEN [newest EXCEPT ![s.source] = NewestWith(s, newest[s.source])] ELSE newest
        /\ Answer(c, SnapshotAck(s, ok))
        /\ session' = [session EXCEPT ![c] = r]
        /\ UNCHANGED toServer
    BY <1>8, <2>2 DEF IngestObservation
  <2>4. r.at = "reading"
    BY <1>0 DEF SessionStates
  <2>5. ok \in BOOLEAN
    BY DEF TypeOK, Admissible
  <2>6. ok => Recorded(s, newest')
    BY <2>3, StaysRecorded DEF TypeOK
  <2> HIDE DEF ok, r
  <2>7. toClient'[c] = <<SnapshotAck(s, ok)>>
    BY <1>1, <2>2, <2>3, ShortSequences
  <2>8. session'[c].at = "reading" /\ toServer'[c] = <<>>
    BY <1>0, <2>2, <2>3, <2>4
  <2> QED
    BY <2>2, <2>5, <2>6, <2>7, <2>8 DEF InStep, Publishes
<1>9. CASE HandleBye(c)
  <2>1. ses.at = "reading" /\ up # <<>> /\ Head(up).type = "Bye"
    BY <1>9 DEF HandleBye, Receives
  <2> QED
    BY <2>1, ShortSequences, FrameKinds DEF InStep, Greets, Rests, Publishes
<1>10. CASE SessionExpires(c)
  <2>1. ses.at = "reading" /\ up = <<>> /\ End(c) /\ Answer(c, ErrorFrame) /\ UNCHANGED newest
    BY <1>10 DEF SessionExpires, observatoryVars
  <2>2. toClient'[c] = Append(down, ErrorFrame)
    BY <1>1, <2>1
  <2>3. session'[c].at = "done" /\ toServer'[c] = <<>>
    BY <1>2, <2>1
  <2>4. CASE pub.at = "greeting" /\ Greets(ses, up, down)
    <3>1. PICK b \in BOOLEAN : down = <<HelloAck(b)>>
      BY <2>1, <2>4, ShortSequences DEF Greets
    <3>2. toClient'[c] = <<HelloAck(b), ErrorFrame>>
      BY <2>2, <3>1, ShortSequences
    <3> QED
      BY <2>3, <2>4, <3>2 DEF InStep, Greets
  <2>5. CASE pub.at = "connected" /\ Rests(ses, up, down)
    <3>1. down = <<>>
      BY <2>1, <2>5 DEF Rests
    <3>2. toClient'[c] = <<ErrorFrame>>
      BY <2>2, <3>1, ShortSequences
    <3> QED
      BY <2>3, <2>5, <3>2 DEF InStep, Rests
  <2>6. CASE pub.at = "publishing" /\ \E s \in Snapshots :
               pub.sent = {s} /\ Publishes(s, ses, up, down, newest)
    <3>1. PICK s \in Snapshots : pub.sent = {s} /\ Publishes(s, ses, up, down, newest)
      BY <2>6
    <3>2. PICK b \in BOOLEAN : down = <<SnapshotAck(s, b)>> /\ (b => Recorded(s, newest))
      BY <2>1, <3>1, ShortSequences DEF Publishes
    <3>3. toClient'[c] = <<SnapshotAck(s, b), ErrorFrame>>
      BY <2>2, <3>2, ShortSequences
    <3> QED
      BY <2>1, <2>3, <2>6, <3>1, <3>2, <3>3 DEF InStep, Publishes
  <2> QED
    BY <2>4, <2>5, <2>6 DEF InStep
<1> QED
  BY <1>4, <1>5, <1>6, <1>7, <1>8, <1>9, <1>10

\* It changes nothing of other connections but, perhaps, the newest records,
\* and these so that what is recorded stays recorded.
LEMMA SessionElsewhere ==
    ASSUME TypeOK, NEW c \in Connections,
           \/ Accept(c) \/ HandleHello(c) \/ RegisterSource(c) \/ HandleSnapshot(c)
           \/ IngestObservation(c) \/ HandleBye(c) \/ SessionExpires(c)
    PROVE  /\ UNCHANGED <<hungUp, publisher>>
           /\ session[c].at # "unused" /\ session'[c].at # "unused"
           /\ \A d \in Connections \ {c} : /\ session'[d] = session[d] /\ toServer'[d] = toServer[d]
                                           /\ toClient'[d] = toClient[d]
           /\ \A s \in Snapshots : Recorded(s, newest) => Recorded(s, newest')
<1>0. /\ session \in [Connections -> SessionStates] /\ session[c] \in SessionStates
      /\ toServer \in [Connections -> Seq(Frames)] /\ toClient \in [Connections -> Seq(Answers)]
  BY DEF TypeOK, SessionTypeOK
<1>1. UNCHANGED <<hungUp, publisher>>
  BY DEF Accept, HandleHello, RegisterSource, HandleSnapshot, IngestObservation, HandleBye,
         SessionExpires, clientVars
<1>2. session[c].at \in {"waiting", "reading", "registering", "ingesting"}
  BY DEF Accept, HandleHello, RegisterSource, HandleSnapshot, IngestObservation, HandleBye,
         SessionExpires, Receives
<1>3. \A d \in Connections \ {c} : toClient'[d] = toClient[d]
  <2>1. ASSUME NEW a, Answer(c, a)
        PROVE  \A d \in Connections \ {c} : toClient'[d] = toClient[d]
    BY <1>0, <2>1 DEF Answer
  <2>2. CASE \E a : Answer(c, a)
    BY <2>1, <2>2
  <2>3. CASE UNCHANGED toClient
    BY <2>3
  <2>4. (\E a : Answer(c, a)) \/ UNCHANGED toClient
    BY DEF Accept, HandleHello, RegisterSource, HandleSnapshot, IngestObservation, HandleBye,
           SessionExpires
  <2> QED
    BY <2>2, <2>3, <2>4
<1>4. /\ session'[c].at # "unused"
      /\ \A d \in Connections \ {c} : session'[d] = session[d] /\ toServer'[d] = toServer[d]
  <2>1. ASSUME NEW r, session' = [session EXCEPT ![c] = r], r.at # "unused",
               \/ UNCHANGED toServer
               \/ toServer' = [toServer EXCEPT ![c] = <<>>]
               \/ toServer' = [toServer EXCEPT ![c] = Tail(toServer[c])]
        PROVE  /\ session'[c].at # "unused"
               /\ \A d \in Connections \ {c} : session'[d] = session[d] /\ toServer'[d] = toServer[d]
    BY <1>0, <2>1
  <2>2. ASSUME NEW s, s \in {"reading", "registering", "ingesting"}
        PROVE  [session[c] EXCEPT !.at = s].at # "unused"
    BY <1>0, <2>2 DEF SessionStates
  <2>3. ASSUME NEW s, NEW w, s \in {"reading", "registering", "ingesting"}
        PROVE  [session[c] EXCEPT !.at = s, !.work = w].at # "unused"
    BY <1>0, <2>3 DEF SessionStates
  <2>4. Idle("done").at # "unused"
    BY DEF Idle
  <2>5. CASE End(c)
    BY <2>1, <2>4, <2>5 DEF End
  <2>6. CASE Accept(c)
    <3>1. CASE session' = [session EXCEPT ![c].at = "reading"] /\ UNCHANGED <<toServer, toClient>>
      <4>1. session' = [session EXCEPT ![c] = [session[c] EXCEPT !.at = "reading"]]
        BY <3>1
      <4> QED
        BY <2>1, <2>2, <3>1, <4>1
    <3> QED
      BY <2>5, <2>6, <3>1 DEF Accept
  <2>7. CASE HandleHello(c)
    <3> DEFINE r == [session[c] EXCEPT !.at = "registering", !.work = {Head(toServer[c]).body}]
    <3>1. End(c) \/ Continue(c, r)
      BY <2>7 DEF HandleHello
    <3>2. r.at # "unused"
      BY <2>3
    <3> HIDE DEF r
    <3> QED
      BY <2>1, <2>5, <3>1, <3>2 DEF Continue
  <2>8. CASE RegisterSource(c)
    <3>1. PICK h : End(c) \/ ( /\ session' = [session EXCEPT ![c] = [at |-> "reading", context |-> {h}, work |-> {}]]
                               /\ UNCHANGED toServer)
      BY <2>8 DEF RegisterSource
    <3> DEFINE r == [at |-> "reading", context |-> {h}, work |-> {}]
    <3>2. r.at # "unused"
      OBVIOUS
    <3>3. End(c) \/ (session' = [session EXCEPT ![c] = r] /\ UNCHANGED toServer)
      BY <3>1
    <3> HIDE DEF r
    <3> QED
      BY <2>1, <2>5, <3>2, <3>3
  <2>9. CASE HandleSnapshot(c)
    <3> DEFINE r == [session[c] EXCEPT !.at = "ingesting", !.work = {Head(toServer[c]).body}]
    <3>1. End(c) \/ Continue(c, r) \/ Continue(c, session[c])
      BY <2>9 DEF HandleSnapshot
    <3>2. r.at # "unused" /\ session[c].at # "unused"
      BY <1>2, <2>3
    <3> HIDE DEF r
    <3> QED
      BY <2>1, <2>5, <3>1, <3>2 DEF Continue
  <2>10. CASE IngestObservation(c)
    <3> DEFINE r == [session[c] EXCEPT !.at = "reading", !.work = {}]
    <3>1. session' = [session EXCEPT ![c] = r] /\ UNCHANGED toServer
      BY <2>10 DEF IngestObservation
    <3>2. r.at # "unused"
      BY <2>3
    <3> HIDE DEF r
    <3> QED
      BY <2>1, <3>1, <3>2
  <2>11. CASE HandleBye(c) \/ SessionExpires(c)
    BY <2>5, <2>11 DEF HandleBye, SessionExpires
  <2> QED
    BY <2>6, <2>7, <2>8, <2>9, <2>10, <2>11
<1>5. \A s \in Snapshots : Recorded(s, newest) => Recorded(s, newest')
  <2>1. CASE IngestObservation(c)
    <3>1. PICK x \in session[c].work :
            \/ newest' = newest
            \/ /\ Admissible(x, newest[x.source])
               /\ newest' = [newest EXCEPT ![x.source] = NewestWith(x, newest[x.source])]
      BY <2>1 DEF IngestObservation
    <3>2. x \in Snapshots /\ newest \in [Sources -> Marks]
      BY <2>1 DEF IngestObservation, TypeOK, SessionTypeOK
    <3> QED
      BY <3>1, <3>2, StaysRecorded
  <2>2. CASE UNCHANGED newest
    BY <2>2
  <2> QED
    BY <2>1, <2>2 DEF Accept, HandleHello, RegisterSource, HandleSnapshot, HandleBye,
           SessionExpires, observatoryVars
<1> QED
  BY <1>1, <1>2, <1>3, <1>4, <1>5

\* A stage outlasts a change of the newest records.
LEMMA InStepStable ==
    ASSUME NEW pub, NEW ses, NEW up, NEW down, NEW N, NEW M, InStep(pub, ses, up, down, N),
           \A s \in Snapshots : Recorded(s, N) => Recorded(s, M)
    PROVE  InStep(pub, ses, up, down, M)
BY DEF InStep, Publishes

\* A step of a session keeps its link in step: it takes a frame, answers it, or
\* closes.
LEMMA SessionLink ==
    ASSUME TypeOK, LinkInvariant, NEW c \in Connections,
           \/ Accept(c) \/ HandleHello(c) \/ RegisterSource(c) \/ HandleSnapshot(c)
           \/ IngestObservation(c) \/ HandleBye(c) \/ SessionExpires(c)
    PROVE  LinkInvariant'
<1>1. /\ UNCHANGED <<hungUp, publisher>>
      /\ session[c].at # "unused" /\ session'[c].at # "unused"
      /\ \A d \in Connections \ {c} : /\ session'[d] = session[d] /\ toServer'[d] = toServer[d]
                                      /\ toClient'[d] = toClient[d]
      /\ \A s \in Snapshots : Recorded(s, newest) => Recorded(s, newest')
  BY SessionElsewhere
<1>2. ASSUME NEW p \in Publishers, publisher[p].at # "closed"
      PROVE  /\ publisher'[p].on \notin hungUp' /\ session'[publisher'[p].on].at # "unused"
             /\ publisher'[p].inStep =>
                   InStep(publisher'[p], session'[publisher'[p].on], toServer'[publisher'[p].on],
                          toClient'[publisher'[p].on], newest')
  <2> DEFINE d == publisher[p].on
  <2>1. /\ d \in Connections /\ d \notin hungUp /\ session[d].at # "unused"
        /\ publisher[p].inStep => InStep(publisher[p], session[d], toServer[d], toClient[d], newest)
    BY <1>2 DEF LinkInvariant, TypeOK
  <2>2. publisher'[p] = publisher[p] /\ hungUp' = hungUp
    BY <1>1
  <2> HIDE DEF d
  <2>3. session'[d].at # "unused"
    BY <1>1, <2>1
  <2>4. ASSUME publisher[p].inStep
        PROVE  InStep(publisher[p], session'[d], toServer'[d], toClient'[d], newest')
    <3>1. CASE d = c
      BY <2>1, <2>4, <3>1, SessionInStep
    <3>2. CASE d # c
      <4>1. session'[d] = session[d] /\ toServer'[d] = toServer[d] /\ toClient'[d] = toClient[d]
        BY <1>1, <2>1, <3>2
      <4>2. InStep(publisher[p], session[d], toServer[d], toClient[d], newest')
        BY <1>1, <2>1, <2>4, InStepStable
      <4> QED
        BY <4>1, <4>2
    <3> QED
      BY <3>1, <3>2
  <2> QED
    BY <2>1, <2>2, <2>3, <2>4 DEF d
<1>3. \A d \in Connections : session'[d].at = "unused" => toClient'[d] = <<>> /\ d \notin hungUp'
  BY <1>1 DEF LinkInvariant
<1>4. \A p \in Publishers : publisher'[p].at = "closed" => publisher'[p].on = 0
  BY <1>1 DEF LinkInvariant
<1>5. \A p, q \in Publishers :
         p # q /\ publisher'[p].at # "closed" => publisher'[p].on # publisher'[q].on
  BY <1>1 DEF LinkInvariant
<1> QED
  BY <1>1, <1>2, <1>3, <1>4, <1>5 DEF LinkInvariant

\* A step of publisher p that makes its record r and touches the connections D.
Touches(p, r, D) ==
    /\ publisher' = [publisher EXCEPT ![p] = r] /\ newest' = newest
    /\ \A d \in Connections \ D : /\ session'[d] = session[d] /\ toServer'[d] = toServer[d]
                                 /\ toClient'[d] = toClient[d] /\ (d \in hungUp' <=> d \in hungUp)
    /\ \A d \in Connections \cap D : session'[d].at # "unused"
    /\ \A q \in Publishers \ {p} : publisher[q].at # "closed" =>
          publisher[q].on \notin D /\ publisher[q].on # r.on
    /\ IF r.at = "closed" THEN r.on = 0
       ELSE /\ r.on \in Connections /\ r.on \notin hungUp' /\ session'[r.on].at # "unused"
            /\ r.inStep => InStep(r, session'[r.on], toServer'[r.on], toClient'[r.on], newest)

\* A publisher that touches one record and leaves the other links alone keeps
\* them in step.
LEMMA PublisherFrame ==
    ASSUME TypeOK, LinkInvariant, NEW p \in Publishers, NEW r, NEW D, Touches(p, r, D)
    PROVE  LinkInvariant'
<1>0. publisher \in [Publishers -> PublisherStates]
  BY DEF TypeOK
<1> USE DEF Touches
<1>1. publisher'[p] = r /\ \A q \in Publishers \ {p} : publisher'[q] = publisher[q]
  BY <1>0
<1>2. \A d \in Connections : session'[d].at = "unused" => toClient'[d] = <<>> /\ d \notin hungUp'
  BY DEF LinkInvariant
<1>3. ASSUME NEW q \in Publishers, publisher'[q].at # "closed"
      PROVE  /\ publisher'[q].on \notin hungUp' /\ session'[publisher'[q].on].at # "unused"
             /\ publisher'[q].inStep =>
                   InStep(publisher'[q], session'[publisher'[q].on], toServer'[publisher'[q].on],
                          toClient'[publisher'[q].on], newest')
  <2>1. CASE q = p
    BY <1>1, <1>3, <2>1
  <2>2. CASE q # p
    <3> DEFINE d == publisher[q].on
    <3>1. /\ publisher'[q] = publisher[q] /\ d \in Connections \ D
      BY <1>1, <1>3, <2>2 DEF TypeOK
    <3>2. /\ d \notin hungUp /\ session[d].at # "unused"
          /\ publisher[q].inStep => InStep(publisher[q], session[d], toServer[d], toClient[d], newest)
      BY <1>3, <3>1 DEF LinkInvariant
    <3>3. /\ session'[d] = session[d] /\ toServer'[d] = toServer[d]
          /\ toClient'[d] = toClient[d] /\ d \notin hungUp'
      BY <3>1, <3>2
    <3> HIDE DEF d
    <3> QED
      BY <3>1, <3>2, <3>3 DEF d
  <2> QED
    BY <2>1, <2>2
<1>4. \A q \in Publishers : publisher'[q].at = "closed" => publisher'[q].on = 0
  BY <1>1 DEF LinkInvariant
<1>5. ASSUME NEW q \in Publishers, NEW t \in Publishers, q # t, publisher'[q].at # "closed"
      PROVE  publisher'[q].on # publisher'[t].on
  <2>1. 0 \notin Connections
    BY DEF Connections
  <2>2. CASE q # p /\ t # p
    BY <1>1, <1>5, <2>2 DEF LinkInvariant
  <2>3. CASE t = p
    BY <1>1, <1>5, <2>3
  <2>4. CASE q = p /\ publisher[t].at # "closed"
    BY <1>1, <1>5, <2>4
  <2>5. CASE q = p /\ publisher[t].at = "closed"
    BY <1>1, <1>5, <2>1, <2>5 DEF LinkInvariant
  <2> QED
    BY <1>5, <2>2, <2>3, <2>4, <2>5
<1> QED
  BY <1>2, <1>3, <1>4, <1>5 DEF LinkInvariant

\* Every step of a publisher keeps its link in step.
LEMMA PublisherLink ==
    ASSUME TypeOK, LinkInvariant, NEW p \in Publishers,
           \/ Connect(p) \/ ReadHelloAck(p) \/ ConnectTimesOut(p)
           \/ \E s \in Offered[p] : Publish(p, s)
           \/ ReadAck(p) \/ PublishTimesOut(p) \/ Close(p) \/ Crash(p)
    PROVE  LinkInvariant'
<1> DEFINE c == publisher[p].on
           pub == publisher[p]
<1>0. /\ session \in [Connections -> SessionStates] /\ toServer \in [Connections -> Seq(Frames)]
      /\ toClient \in [Connections -> Seq(Answers)] /\ pub \in PublisherStates /\ hungUp \subseteq Connections
  BY DEF TypeOK, SessionTypeOK
<1>1. 0 \notin Connections
  BY DEF Connections
<1>2. pub.at # "closed" => /\ c \in Connections /\ c \notin hungUp /\ session[c].at # "unused"
                           /\ pub.inStep => InStep(pub, session[c], toServer[c], toClient[c], newest)
  BY DEF LinkInvariant, TypeOK
<1>3. \A q \in Publishers \ {p} : publisher[q].at # "closed" => publisher[q].on # c
  BY DEF LinkInvariant
<1>4. ASSUME NEW r, r.on = c, pub.at # "closed", r.at # "closed",
             publisher' = [publisher EXCEPT ![p] = r], UNCHANGED <<newest, session, hungUp>>,
             \A d \in Connections \ {c} : toServer'[d] = toServer[d] /\ toClient'[d] = toClient[d],
             r.inStep => InStep(r, session[c], toServer'[c], toClient'[c], newest)
      PROVE  LinkInvariant'
  <2> DEFINE D == {c}
  <2>1. \A d \in Connections \ D : /\ session'[d] = session[d] /\ toServer'[d] = toServer[d]
                                   /\ toClient'[d] = toClient[d] /\ (d \in hungUp' <=> d \in hungUp)
    BY <1>4
  <2>2. \A d \in Connections \cap D : session'[d].at # "unused"
    BY <1>2, <1>4
  <2>3. \A q \in Publishers \ {p} : publisher[q].at # "closed" =>
                publisher[q].on \notin D /\ publisher[q].on # r.on
    BY <1>3, <1>4
  <2>4. IF r.at = "closed" THEN r.on = 0
        ELSE /\ r.on \in Connections /\ r.on \notin hungUp' /\ session'[r.on].at # "unused"
             /\ r.inStep => InStep(r, session'[r.on], toServer'[r.on], toClient'[r.on], newest)
    BY <1>2, <1>4
  <2>5. publisher' = [publisher EXCEPT ![p] = r] /\ newest' = newest
    BY <1>4
  <2> HIDE DEF D
  <2>6. Touches(p, r, D)
    BY <2>1, <2>2, <2>3, <2>4, <2>5 DEF Touches
  <2> QED
    BY <2>6, PublisherFrame
<1>5. ASSUME publisher' = [publisher EXCEPT ![p] = Closed], HangUp(p), pub.at # "closed",
             UNCHANGED <<newest, session>>,
             \A d \in Connections \ {c} : toServer'[d] = toServer[d]
      PROVE  LinkInvariant'
  <2> DEFINE D == {c}
  <2>1. \A d \in Connections \ D : /\ session'[d] = session[d] /\ toServer'[d] = toServer[d]
                                   /\ toClient'[d] = toClient[d] /\ (d \in hungUp' <=> d \in hungUp)
    BY <1>0, <1>1, <1>2, <1>5 DEF HangUp
  <2>2. \A d \in Connections \cap D : session'[d].at # "unused"
    BY <1>2, <1>5
  <2>3. Closed.at = "closed" /\ Closed.on = 0
    BY DEF Closed
  <2>4. \A q \in Publishers \ {p} : publisher[q].at # "closed" =>
                publisher[q].on \notin D /\ publisher[q].on # Closed.on
    BY <1>1, <1>3, <2>3 DEF TypeOK
  <2> DEFINE r == Closed
  <2>5. IF r.at = "closed" THEN r.on = 0
        ELSE /\ r.on \in Connections /\ r.on \notin hungUp' /\ session'[r.on].at # "unused"
             /\ r.inStep => InStep(r, session'[r.on], toServer'[r.on], toClient'[r.on], newest)
    BY <2>3
  <2>6. publisher' = [publisher EXCEPT ![p] = r] /\ newest' = newest
    BY <1>5
  <2>7. \A q \in Publishers \ {p} : publisher[q].at # "closed" =>
                publisher[q].on \notin D /\ publisher[q].on # r.on
    BY <2>4
  <2> HIDE DEF D, r
  <2>8. Touches(p, r, D)
    BY <2>1, <2>2, <2>5, <2>6, <2>7 DEF Touches
  <2> QED
    BY <2>8, PublisherFrame
<1>6. CASE Connect(p)
  <2>1. PICK e \in Unused :
          /\ publisher' = [publisher EXCEPT ![p] = [Closed EXCEPT !.at = "greeting", !.on = e]]
          /\ session' = [session EXCEPT ![e].at = "waiting"]
          /\ toServer' = [toServer EXCEPT ![e] = <<HelloFrame(Config[p])>>]
    BY <1>6, Zenon DEF Connect
  <2>2. HangUp(p) /\ UNCHANGED newest /\ pub.at \in {"closed", "connected"}
    BY <1>6, Zenon DEF Connect, observatoryVars
  <2>3. e \in Connections /\ session[e].at = "unused" /\ toClient[e] = <<>> /\ e \notin hungUp
    BY DEF Unused, LinkInvariant
  <2>4. pub.at = "closed" => c = 0
    BY DEF LinkInvariant
  <2>5. e # c
    BY <1>1, <1>2, <2>3, <2>4
  <2> DEFINE r == [Closed EXCEPT !.at = "greeting", !.on = e]
             D == {e, c}
  <2>6. r.at = "greeting" /\ r.on = e
    BY DEF Closed
  <2> HIDE DEF r
  <2>7. /\ session'[e].at = "waiting" /\ \A d \in Connections \ {e} : session'[d] = session[d]
    BY <1>0, <2>1, <2>3 DEF SessionStates
  <2>8. /\ toServer'[e] = <<HelloFrame(Config[p])>>
        /\ \A d \in Connections \ {e} : toServer'[d] = toServer[d]
    BY <1>0, <2>1, <2>3
  <2>9. /\ toClient'[e] = <<>> /\ e \notin hungUp'
        /\ \A d \in Connections \ {c} : toClient'[d] = toClient[d] /\ (d \in hungUp' <=> d \in hungUp)
    BY <1>0, <2>2, <2>3, <2>5 DEF HangUp
  <2>10. \A d \in Connections \ D : /\ session'[d] = session[d] /\ toServer'[d] = toServer[d]
                                    /\ toClient'[d] = toClient[d] /\ (d \in hungUp' <=> d \in hungUp)
    BY <2>7, <2>8, <2>9
  <2>11. \A d \in Connections \cap D : session'[d].at # "unused"
    BY <1>1, <1>2, <2>4, <2>5, <2>7
  <2>12. \A q \in Publishers \ {p} : publisher[q].at # "closed" =>
                publisher[q].on \notin D /\ publisher[q].on # r.on
    <3>1. \A q \in Publishers : publisher[q].at # "closed" => publisher[q].on # e
      BY <2>3 DEF LinkInvariant
    <3> QED
      BY <1>3, <2>6, <3>1
  <2>13. InStep(r, session'[e], toServer'[e], toClient'[e], newest)
    BY <2>6, <2>7, <2>8, <2>9 DEF InStep, Greets
  <2>14. publisher' = [publisher EXCEPT ![p] = r]
    BY <2>1 DEF r
  <2>15. IF r.at = "closed" THEN r.on = 0
         ELSE /\ r.on \in Connections /\ r.on \notin hungUp' /\ session'[r.on].at # "unused"
              /\ r.inStep => InStep(r, session'[r.on], toServer'[r.on], toClient'[r.on], newest)
    BY <2>3, <2>6, <2>7, <2>9, <2>13
  <2>16. publisher' = [publisher EXCEPT ![p] = r] /\ newest' = newest
    BY <2>2, <2>14
  <2> HIDE DEF D
  <2>17. Touches(p, r, D)
    BY <2>10, <2>11, <2>12, <2>15, <2>16 DEF Touches
  <2> QED
    BY <2>17, PublisherFrame
<1>7. CASE ReadHelloAck(p)
  <2>0. /\ pub.at = "greeting" /\ toClient[c] # <<>>
        /\ UNCHANGED <<newest, session, toServer>>
    BY <1>7 DEF ReadHelloAck, observatoryVars
  <2>1. CASE publisher' = [publisher EXCEPT ![p] = Closed] /\ HangUp(p)
    BY <1>5, <2>0, <2>1
  <2>2. CASE /\ Head(toClient[c]) = HelloAck(TRUE)
             /\ publisher' = [publisher EXCEPT ![p].at = "connected"]
             /\ toClient' = [toClient EXCEPT ![c] = Tail(toClient[c])]
             /\ UNCHANGED hungUp
    <3> DEFINE r == [pub EXCEPT !.at = "connected"]
    <3>1. publisher' = [publisher EXCEPT ![p] = r]
      BY <2>2
    <3>2. r.at = "connected" /\ r.on = c /\ r.inStep = pub.inStep
      BY <1>0 DEF PublisherStates
    <3>3. toClient'[c] = Tail(toClient[c]) /\ \A d \in Connections \ {c} : toClient'[d] = toClient[d]
      BY <1>0, <1>2, <2>0, <2>2
    <3>4. ASSUME pub.inStep
          PROVE  Rests(session[c], toServer[c], toClient'[c])
      <4>1. Greets(session[c], toServer[c], toClient[c])
        BY <1>2, <2>0, <3>4 DEF InStep
      <4>2. HelloAck(TRUE) # ErrorFrame
        BY FrameKinds
      <4>3. CASE /\ session[c].at \in {"reading", "done"} /\ toServer[c] = <<>>
                 /\ \E b \in BOOLEAN : toClient[c] = <<HelloAck(b)>>
        BY <3>3, <4>3, ShortSequences DEF Rests
      <4>4. CASE /\ session[c].at = "done" /\ toServer[c] = <<>>
                 /\ \E b \in BOOLEAN : toClient[c] = <<HelloAck(b), ErrorFrame>>
        BY <3>3, <4>4, ShortSequences DEF Rests
      <4>5. toClient[c] # <<ErrorFrame>>
        BY <2>2, <4>2, ShortSequences
      <4> QED
        BY <2>0, <4>1, <4>3, <4>4, <4>5 DEF Greets
    <3> HIDE DEF r, c, pub
    <3>5. r.inStep => InStep(r, session[c], toServer'[c], toClient'[c], newest)
      BY <2>0, <3>2, <3>4 DEF InStep
    <3> QED
      BY <1>4, <2>0, <2>2, <3>1, <3>2, <3>3, <3>5
  <2> QED
    BY <1>7, <2>1, <2>2 DEF ReadHelloAck
<1>8. CASE ConnectTimesOut(p) \/ Crash(p)
  <2>1. /\ pub.at # "closed" /\ publisher' = [publisher EXCEPT ![p] = Closed] /\ HangUp(p)
        /\ UNCHANGED <<newest, session, toServer>>
    BY <1>8 DEF ConnectTimesOut, Crash, observatoryVars
  <2> QED
    BY <1>5, <2>1
<1>9. CASE Close(p)
  <2>1. /\ pub.at = "connected" /\ publisher' = [publisher EXCEPT ![p] = Closed] /\ HangUp(p)
        /\ Send(c, ByeFrame) /\ UNCHANGED <<newest, session>>
    BY <1>9 DEF Close, observatoryVars
  <2>2. \A d \in Connections \ {c} : toServer'[d] = toServer[d]
    BY <1>0, <2>1 DEF Send
  <2> QED
    BY <1>5, <2>1, <2>2
<1>10. CASE \E s \in Offered[p] : Publish(p, s)
  <2>1. PICK s \in Offered[p] : Publish(p, s)
    BY <1>10
  <2> DEFINE r == [pub EXCEPT !.at = "publishing", !.sent = {s}]
  <2>2. /\ pub.at = "connected" /\ publisher' = [publisher EXCEPT ![p] = r]
        /\ Send(c, SnapshotFrame(s)) /\ UNCHANGED <<newest, session, toClient, hungUp>>
    <3>1. publisher' = [publisher EXCEPT ![p] = r]
      BY <2>1, Zenon DEF Publish
    <3>2. /\ pub.at = "connected" /\ Send(c, SnapshotFrame(s))
          /\ UNCHANGED <<newest, session, toClient, hungUp>>
      BY <2>1, Zenon DEF Publish, observatoryVars
    <3> QED
      BY <3>1, <3>2
  <2>3. s \in Snapshots
    BY TransportAssumption
  <2>4. r.at = "publishing" /\ r.on = c /\ r.inStep = pub.inStep /\ r.sent = {s}
    BY <1>0 DEF PublisherStates
  <2> HIDE DEF r
  <2>5. /\ toServer'[c] = IF session[c].at = "done" THEN toServer[c]
                          ELSE Append(toServer[c], SnapshotFrame(s))
        /\ \A d \in Connections \ {c} : toServer'[d] = toServer[d]
    BY <1>0, <1>2, <2>2 DEF Send
  <2>6. ASSUME pub.inStep
        PROVE  Publishes(s, session[c], toServer'[c], toClient[c], newest)
    <3>1. Rests(session[c], toServer[c], toClient[c])
      BY <1>2, <2>2, <2>6 DEF InStep
    <3>2. CASE session[c].at = "reading" /\ toServer[c] = <<>> /\ toClient[c] = <<>>
      <4>1. toServer'[c] = <<SnapshotFrame(s)>>
        BY <2>5, <3>2, ShortSequences
      <4> QED
        BY <3>2, <4>1 DEF Publishes
    <3>3. CASE /\ session[c].at = "done" /\ toServer[c] = <<>>
               /\ toClient[c] = <<>> \/ toClient[c] = <<ErrorFrame>>
      BY <2>5, <3>3 DEF Publishes
    <3> QED
      BY <3>1, <3>2, <3>3 DEF Rests
  <2>7. r.inStep => InStep(r, session[c], toServer'[c], toClient'[c], newest)
    BY <2>2, <2>3, <2>4, <2>6 DEF InStep
  <2> HIDE DEF c, pub
  <2> QED
    BY <1>4, <2>2, <2>4, <2>5, <2>7
<1>11. CASE ReadAck(p)
  <2> DEFINE r == [pub EXCEPT !.at = "connected", !.sent = {}]
  <2>1. /\ pub.at = "publishing" /\ toClient[c] # <<>> /\ publisher' = [publisher EXCEPT ![p] = r]
        /\ toClient' = [toClient EXCEPT ![c] = Tail(toClient[c])]
        /\ UNCHANGED <<newest, session, toServer, hungUp>>
    BY <1>11 DEF ReadAck, observatoryVars
  <2>2. r.at = "connected" /\ r.on = c /\ r.inStep = pub.inStep
    BY <1>0 DEF PublisherStates
  <2> HIDE DEF r
  <2>3. toClient'[c] = Tail(toClient[c]) /\ \A d \in Connections \ {c} : toClient'[d] = toClient[d]
    BY <1>0, <1>2, <2>1
  <2>4. ASSUME pub.inStep
        PROVE  Rests(session[c], toServer[c], toClient'[c])
    <3>1. PICK s \in Snapshots : Publishes(s, session[c], toServer[c], toClient[c], newest)
      BY <1>2, <2>1, <2>4 DEF InStep
    <3>2. CASE /\ session[c].at \in {"reading", "done"} /\ toServer[c] = <<>>
               /\ \E b \in BOOLEAN : toClient[c] = <<SnapshotAck(s, b)>>
      BY <2>3, <3>2, ShortSequences DEF Rests
    <3>3. CASE /\ session[c].at = "done" /\ toServer[c] = <<>>
               /\ \E b \in BOOLEAN : toClient[c] = <<SnapshotAck(s, b), ErrorFrame>>
      BY <2>3, <3>3, ShortSequences DEF Rests
    <3>4. CASE session[c].at = "done" /\ toServer[c] = <<>> /\ toClient[c] = <<ErrorFrame>>
      BY <2>3, <3>4, ShortSequences DEF Rests
    <3> QED
      BY <2>1, <3>1, <3>2, <3>3, <3>4 DEF Publishes
  <2>5. r.inStep => InStep(r, session[c], toServer'[c], toClient'[c], newest)
    BY <2>1, <2>2, <2>4 DEF InStep
  <2> HIDE DEF c, pub
  <2> QED
    BY <1>4, <2>1, <2>2, <2>3, <2>5
<1>12. CASE PublishTimesOut(p)
  <2> DEFINE r == [pub EXCEPT !.at = "connected", !.sent = {}, !.inStep = FALSE]
  <2>1. /\ pub.at = "publishing" /\ publisher' = [publisher EXCEPT ![p] = r]
        /\ UNCHANGED <<newest, session, toServer, toClient, hungUp>>
    BY <1>12 DEF PublishTimesOut, observatoryVars
  <2>2. r.at = "connected" /\ r.on = c /\ r.inStep = FALSE
    BY <1>0 DEF PublisherStates
  <2> HIDE DEF r, c, pub
  <2> QED
    BY <1>4, <2>1, <2>2
<1> QED
  BY <1>6, <1>7, <1>8, <1>9, <1>10, <1>11, <1>12

\* While every Publish on a connection got its answer, an accepting
\* acknowledgement is for the snapshot just sent, and the ledger has it or a newer
\* one: no race, lost frame or stopped observatory makes Publish report what was
\* not recorded (ReadAck, HandleSnapshot, IngestObservation).
THEOREM AcknowledgedIsRecorded == Spec => []AcceptedIsRecorded
<1>1. Init => LinkInvariant
  <2> SUFFICES ASSUME Init PROVE LinkInvariant
    OBVIOUS
  <2>1. /\ \A c \in Connections : toClient[c] = <<>>
        /\ hungUp = {} /\ \A p \in Publishers : publisher[p] = Closed
    BY DEF Init
  <2>2. Closed.at = "closed" /\ Closed.on = 0
    BY DEF Closed
  <2> QED
    BY <2>1, <2>2 DEF LinkInvariant
<1>2. TypeOK /\ LinkInvariant /\ [Next]_vars => LinkInvariant'
  <2> SUFFICES ASSUME TypeOK, LinkInvariant, [Next]_vars PROVE LinkInvariant'
    OBVIOUS
  <2>1. CASE StartObservatory \/ StopObservatory \/ UNCHANGED vars
    <3>1. UNCHANGED <<newest, session, toServer, toClient, hungUp, publisher>>
      BY <2>1 DEF StartObservatory, StopObservatory, vars, clientVars
    <3> QED
      BY <3>1 DEF LinkInvariant
  <2> QED
    BY <2>1, SessionLink, PublisherLink DEF Next
<1>3. TypeOK /\ LinkInvariant => AcceptedIsRecorded
  <2> SUFFICES ASSUME TypeOK, LinkInvariant, NEW p \in Publishers, publisher[p].at = "publishing",
                      publisher[p].inStep, toClient[publisher[p].on] # <<>>,
                      Head(toClient[publisher[p].on]).type = "SnapshotAck",
                      Head(toClient[publisher[p].on]).accepted,
                      NEW x \in publisher[p].sent
               PROVE  Head(toClient[publisher[p].on]).snapshot = x /\ Recorded(x, newest)
    BY DEF AcceptedIsRecorded, Recorded
  <2> DEFINE c == publisher[p].on
  <2>1. PICK s \in Snapshots : /\ publisher[p].sent = {s}
                               /\ Publishes(s, session[c], toServer[c], toClient[c], newest)
    BY DEF LinkInvariant, InStep
  <2>2. x = s
    BY <2>1
  <2> HIDE DEF c
  <2>3. CASE \E b \in BOOLEAN : /\ toClient[c] = <<SnapshotAck(s, b)>>
                                  \/ toClient[c] = <<SnapshotAck(s, b), ErrorFrame>>
                                /\ (b => Recorded(s, newest))
    <3>1. PICK b \in BOOLEAN : Head(toClient[c]) = SnapshotAck(s, b) /\ (b => Recorded(s, newest))
      BY <2>3, ShortSequences
    <3> QED
      BY <2>2, <3>1, FrameKinds DEF c
  <2>4. CASE toClient[c] = <<ErrorFrame>>
    BY <2>4, ShortSequences, FrameKinds DEF c
  <2> QED
    BY <2>1, <2>3, <2>4 DEF Publishes, c
<1> QED
  BY <1>1, <1>2, <1>3, TransportTypeCorrect, PTL DEF Spec

=============================================================================
