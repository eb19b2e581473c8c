----------------------- MODULE EvidenceWindow_proofs -----------------------
(***************************************************************************)
(* For every choice of bounds: the retained window of a source stays       *)
(* bounded, ordered, and topped by a single newest record.                 *)
(***************************************************************************)
EXTENDS EvidenceWindow, SequenceTheorems, TLAPS

Sound(w) == Ordered(w) /\ NewestUnique(w)

\* The inductive invariant: what Load brings back has to be sound as well.
IInv == TypeOK /\ Sound(window) /\ Sound(stored)

-----------------------------------------------------------------------------
\* InsertAt shifts the tail by one and keeps everything else in place.
LEMMA InsertAtElements ==
    ASSUME NEW S, NEW w \in Seq(S), NEW p \in 1..(Len(w) + 1), NEW e \in S
    PROVE  /\ InsertAt(w, p, e) \in Seq(S)
           /\ Len(InsertAt(w, p, e)) = Len(w) + 1
           /\ \A i \in 1..(Len(w) + 1) :
                InsertAt(w, p, e)[i] =
                    IF i < p THEN w[i] ELSE IF i = p THEN e ELSE w[i - 1]
<1> DEFINE front == SubSeq(w, 1, p - 1)
           back == SubSeq(w, p, Len(w))
           unit == <<e>>
           head == front \o unit
<1>1. Len(w) \in Nat /\ \A i \in 1..Len(w) : w[i] \in S
  BY LenProperties, ElementOfSeq
<1>2. /\ front \in Seq(S) /\ Len(front) = p - 1
      /\ \A i \in 1..(p - 1) : front[i] = w[i]
  <2>1. \A i \in 1..(p - 1) : w[i] \in S
    BY <1>1
  <2>2. QED
    BY <1>1, <2>1, SubSeqProperties
<1>3. /\ back \in Seq(S) /\ Len(back) = Len(w) - p + 1
      /\ \A i \in 1..(Len(w) - p + 1) : back[i] = w[p + i - 1]
  <2>1. \A i \in p..Len(w) : w[i] \in S
    BY <1>1
  <2>2. QED
    BY <1>1, <2>1, SubSeqProperties
<1>4. unit \in Seq(S) /\ Len(unit) = 1 /\ unit[1] = e
  OBVIOUS
<1> HIDE DEF front, back, unit, head
<1>5. /\ head \in Seq(S) /\ Len(head) = p
      /\ \A i \in 1..p : head[i] = IF i < p THEN w[i] ELSE e
  <2>1. /\ head \in Seq(S) /\ Len(head) = Len(front) + Len(unit)
        /\ \A i \in 1..(Len(front) + Len(unit)) :
              head[i] = IF i <= Len(front) THEN front[i] ELSE unit[i - Len(front)]
    BY <1>2, <1>4, ConcatProperties DEF head
  <2>2. (p - 1) + 1 = p /\ \A i \in 1..p : i < p \/ i - (p - 1) = 1
    BY <1>1
  <2>3. QED
    BY <1>1, <1>2, <1>4, <2>1, <2>2
<1>6. /\ head \o back \in Seq(S)
      /\ Len(head \o back) = Len(head) + Len(back)
      /\ \A i \in 1..(Len(head) + Len(back)) :
            (head \o back)[i] = IF i <= Len(head) THEN head[i] ELSE back[i - Len(head)]
  BY <1>3, <1>5, ConcatProperties
<1>7. InsertAt(w, p, e) = head \o back
  BY DEF InsertAt, head, front, back, unit
<1>8. Len(head) + Len(back) = Len(w) + 1
  BY <1>1, <1>3, <1>5
<1>9. ASSUME NEW i \in 1..(Len(w) + 1)
      PROVE  InsertAt(w, p, e)[i] =
                IF i < p THEN w[i] ELSE IF i = p THEN e ELSE w[i - 1]
  <2>1. CASE i <= p
    BY <1>1, <1>5, <1>6, <1>7, <1>8, <2>1
  <2>2. CASE i > p
    <3>1. i - p \in 1..(Len(w) - p + 1) /\ p + (i - p) - 1 = i - 1
      BY <1>1, <2>2
    <3>2. QED
      BY <1>1, <1>3, <1>6, <1>7, <1>8, <2>2, <3>1
  <2>3. QED
    BY <1>1, <2>1, <2>2
<1>10. QED
  BY <1>6, <1>7, <1>8, <1>9

\* RemoveAt closes the gap and keeps everything else in place.
LEMMA RemoveAtElements ==
    ASSUME NEW S, NEW w \in Seq(S), NEW v \in 1..Len(w)
    PROVE  /\ RemoveAt(w, v) \in Seq(S)
           /\ Len(RemoveAt(w, v)) = Len(w) - 1
           /\ \A i \in 1..(Len(w) - 1) :
                RemoveAt(w, v)[i] = IF i < v THEN w[i] ELSE w[i + 1]
<1> DEFINE front == SubSeq(w, 1, v - 1)
           back == SubSeq(w, v + 1, Len(w))
<1>1. Len(w) \in Nat /\ \A i \in 1..Len(w) : w[i] \in S
  BY LenProperties, ElementOfSeq
<1>2. /\ front \in Seq(S) /\ Len(front) = v - 1
      /\ \A i \in 1..(v - 1) : front[i] = w[i]
  <2>1. \A i \in 1..(v - 1) : w[i] \in S
    BY <1>1
  <2>2. QED
    BY <1>1, <2>1, SubSeqProperties
<1>3. /\ back \in Seq(S) /\ Len(back) = Len(w) - v
      /\ \A i \in 1..(Len(w) - v) : back[i] = w[v + i]
  <2>1. \A i \in (v + 1)..Len(w) : w[i] \in S
    BY <1>1
  <2>2. /\ back \in Seq(S)
        /\ Len(back) = IF v + 1 <= Len(w) THEN Len(w) - (v + 1) + 1 ELSE 0
        /\ \A i \in 1..(Len(w) - (v + 1) + 1) : back[i] = w[(v + 1) + i - 1]
    BY <1>1, <2>1, SubSeqProperties
  <2>3. QED
    BY <1>1, <2>2
<1> HIDE DEF front, back
<1>4. /\ front \o back \in Seq(S)
      /\ Len(front \o back) = Len(front) + Len(back)
      /\ \A i \in 1..(Len(front) + Len(back)) :
            (front \o back)[i] = IF i <= Len(front) THEN front[i] ELSE back[i - Len(front)]
  BY <1>2, <1>3, ConcatProperties
<1>5. RemoveAt(w, v) = front \o back
  BY DEF RemoveAt, front, back
<1>6. Len(front) + Len(back) = Len(w) - 1
  BY <1>1, <1>2, <1>3
<1>7. ASSUME NEW i \in 1..(Len(w) - 1)
      PROVE  RemoveAt(w, v)[i] = IF i < v THEN w[i] ELSE w[i + 1]
  <2>1. CASE i < v
    BY <1>1, <1>2, <1>4, <1>5, <1>6, <2>1
  <2>2. CASE i >= v
    <3>1. i - (v - 1) \in 1..(Len(w) - v) /\ v + (i - (v - 1)) = i + 1
      BY <1>1, <2>2
    <3>2. QED
      BY <1>1, <1>3, <1>4, <1>5, <1>6, <2>2, <3>1
  <2>3. QED
    BY <1>1, <2>1, <2>2
<1>8. QED
  BY <1>4, <1>5, <1>6, <1>7

-----------------------------------------------------------------------------
\* What admission lets through to the insertion: nothing older than the newest
\* record, in either epoch or incarnation, and no second claim to its sequence.
Admissible(w, s) ==
    w # <<>> => /\ s.incarnation >= w[Len(w)].snapshot.incarnation
                /\ s.epoch >= w[Len(w)].snapshot.epoch
                /\ ~ /\ s.incarnation = w[Len(w)].snapshot.incarnation
                     /\ s.sequence = w[Len(w)].snapshot.sequence

\* What RecordObservation admits is admissible.
LEMMA AdmissionOkAdmissible ==
    ASSUME TypeOK, NEW s \in Snapshots, Admission(s).status = "Ok"
    PROVE  Admissible(window, s)
<1>1. SUFFICES ASSUME window # <<>> PROVE Admissible(window, s)
  BY DEF Admissible
<1>2. Len(window) \in Nat \ {0} /\ window[Len(window)] \in Observations
  BY <1>1, EmptySeq, LenProperties, ElementOfSeq DEF TypeOK
<1> DEFINE newest == Last(window).snapshot
<1>3. newest = window[Len(window)].snapshot /\ newest \in Snapshots
  BY <1>2 DEF Last, Observations
<1> HIDE DEF newest
<1>4. /\ s.incarnation \in Nat /\ s.epoch \in Nat
      /\ newest.incarnation \in Nat /\ newest.epoch \in Nat
  BY <1>3, BoundsAssumption DEF Snapshots
<1>5. /\ ~(s.incarnation < newest.incarnation)
      /\ ~(s.incarnation >= newest.incarnation /\ s.epoch < newest.epoch)
      /\ ~ /\ s.incarnation = newest.incarnation /\ s.epoch >= newest.epoch
           /\ s.sequence = newest.sequence
  BY <1>1, <1>4 DEF Admission, Report, newest
<1>6. QED
  BY <1>1, <1>3, <1>4, <1>5 DEF Admissible

\* Not sorting before is transitive: the window's order is total on keys.
LEMMA NotBeforeTransitive ==
    ASSUME NEW a \in Snapshots, NEW b \in Snapshots, NEW c \in Snapshots,
           ~Before(a, b), ~Before(b, c)
    PROVE  ~Before(a, c)
<1>1. \A k \in Snapshots : k.epoch \in Nat /\ k.incarnation \in Nat /\ k.sequence \in Nat
  BY BoundsAssumption DEF Snapshots
<1>2. QED
  BY <1>1 DEF Before

\* A snapshot that neither sorts before another nor exceeds it in epoch has
\* the same epoch and at least its incarnation.
LEMMA NotBeforeComponents ==
    ASSUME NEW a \in Snapshots, NEW b \in Snapshots,
           ~Before(a, b), a.epoch <= b.epoch
    PROVE  b.epoch <= a.epoch /\ b.incarnation <= a.incarnation
<1>1. \A k \in Snapshots : k.epoch \in Nat /\ k.incarnation \in Nat /\ k.sequence \in Nat
  BY BoundsAssumption DEF Snapshots
<1>2. QED
  BY <1>1 DEF Before

\* Inserting an admissible snapshot at its lower bound keeps a window sound.
LEMMA InsertSound ==
    ASSUME NEW w \in Seq(Observations), Sound(w),
           NEW e \in Observations, Admissible(w, e.snapshot),
           NEW p \in 1..(Len(w) + 1), IsLowerBound(w, e.snapshot, p)
    PROVE  Sound(InsertAt(w, p, e))
<1> DEFINE n == Len(w)
           x == InsertAt(w, p, e)
           s == e.snapshot
<1>1. /\ n \in Nat
      /\ Len(x) = n + 1
      /\ \A i \in 1..(n + 1) : x[i] = IF i < p THEN w[i] ELSE IF i = p THEN e ELSE w[i - 1]
  BY InsertAtElements, LenProperties
<1>2. /\ s.epoch \in Nat /\ s.incarnation \in Nat /\ s.sequence \in Nat
      /\ \A i \in 1..n : /\ w[i].snapshot.epoch \in Nat
                         /\ w[i].snapshot.incarnation \in Nat
                         /\ w[i].snapshot.sequence \in Nat
  <2>1. \A o \in Observations : /\ o.snapshot.epoch \in Nat
                                /\ o.snapshot.incarnation \in Nat
                                /\ o.snapshot.sequence \in Nat
    BY BoundsAssumption DEF Observations, Snapshots
  <2>2. QED
    BY <2>1, ElementOfSeq
<1>3. \A i \in 1..n : i < p =>
        /\ Before(w[i].snapshot, s)
        /\ w[i].snapshot.epoch <= s.epoch
        /\ w[i].snapshot.incarnation <= s.incarnation
  <2>1. SUFFICES ASSUME NEW i \in 1..n, i < p
                 PROVE  /\ Before(w[i].snapshot, s)
                        /\ w[i].snapshot.epoch <= s.epoch
                        /\ w[i].snapshot.incarnation <= s.incarnation
    OBVIOUS
  <2>2. Before(w[i].snapshot, s)
    BY <1>1, <2>1 DEF IsLowerBound
  <2>3. w # <<>> /\ n >= 1
    BY <1>1, EmptySeq
  <2>4. /\ w[i].snapshot.epoch <= w[n].snapshot.epoch
        /\ w[i].snapshot.incarnation <= w[n].snapshot.incarnation
    BY <1>1, <1>2, <2>3 DEF Sound, Ordered
  <2>5. /\ w[n].snapshot.epoch <= s.epoch
        /\ w[n].snapshot.incarnation <= s.incarnation
    BY <1>1, <1>2, <2>3 DEF Admissible
  <2>6. QED
    BY <1>1, <1>2, <2>2, <2>3, <2>4, <2>5
<1>4. \A i \in 1..n : i >= p =>
        /\ ~Before(w[i].snapshot, s)
        /\ s.epoch <= w[i].snapshot.epoch
        /\ s.incarnation <= w[i].snapshot.incarnation
  <2>1. SUFFICES ASSUME NEW i \in 1..n, i >= p
                 PROVE  /\ ~Before(w[i].snapshot, s)
                        /\ s.epoch <= w[i].snapshot.epoch
                        /\ s.incarnation <= w[i].snapshot.incarnation
    OBVIOUS
  <2>2. p \in 1..n /\ ~Before(w[p].snapshot, s)
    BY <1>1, <2>1 DEF IsLowerBound
  <2>3. ~Before(w[i].snapshot, w[p].snapshot)
    <3>1. CASE i = p
      BY <1>2, <2>2, <3>1 DEF Before
    <3>2. CASE i > p
      BY <1>1, <2>2, <3>2 DEF Sound, Ordered
    <3>3. QED
      BY <1>1, <2>1, <3>1, <3>2
  <2>4. ~Before(w[i].snapshot, s)
    <3>1. w[i] \in Observations /\ w[p] \in Observations
      BY <2>2, ElementOfSeq
    <3>2. w[i].snapshot \in Snapshots /\ w[p].snapshot \in Snapshots /\ s \in Snapshots
      BY <3>1 DEF Observations
    <3>3. QED
      BY <2>2, <2>3, <3>2, NotBeforeTransitive
  <2>5. w # <<>> /\ n >= 1
    BY <1>1, EmptySeq
  <2>6. /\ w[i].snapshot.epoch <= w[n].snapshot.epoch
        /\ w[i].snapshot.incarnation <= w[n].snapshot.incarnation
    BY <1>1, <1>2, <2>5 DEF Sound, Ordered
  <2>7. /\ w[n].snapshot.epoch <= s.epoch
        /\ w[n].snapshot.incarnation <= s.incarnation
    BY <1>1, <1>2, <2>5 DEF Admissible
  <2>8. w[i].snapshot.epoch <= s.epoch
    BY <1>1, <1>2, <2>5, <2>6, <2>7
  <2>9. w[i].snapshot \in Snapshots /\ s \in Snapshots
    <3>1. w[i] \in Observations
      BY ElementOfSeq
    <3>2. QED
      BY <3>1 DEF Observations
  <2>10. QED
    BY <2>4, <2>8, <2>9, NotBeforeComponents
<1>5. Ordered(x)
  <2>1. SUFFICES ASSUME NEW i \in 1..(n + 1), NEW j \in 1..(n + 1), i < j
                 PROVE  /\ ~Before(x[j].snapshot, x[i].snapshot)
                        /\ x[i].snapshot.epoch <= x[j].snapshot.epoch
                        /\ x[i].snapshot.incarnation <= x[j].snapshot.incarnation
    BY <1>1 DEF Ordered
  <2>2. CASE j < p
    BY <1>1, <2>1, <2>2 DEF Sound, Ordered
  <2>3. CASE j = p
    <3>1. i \in 1..n /\ i < p /\ x[i] = w[i] /\ x[j] = e
      BY <1>1, <2>1, <2>3
    <3>2. QED
      BY <1>2, <1>3, <3>1 DEF Before
  <2>4. CASE j > p /\ i = p
    <3>1. j - 1 \in 1..n /\ j - 1 >= p /\ x[i] = e /\ x[j] = w[j - 1]
      BY <1>1, <2>1, <2>4
    <3>2. QED
      BY <1>4, <3>1
  <2>5. CASE j > p /\ i < p
    <3>1. /\ i \in 1..n /\ j - 1 \in 1..n /\ i < j - 1
          /\ x[i] = w[i] /\ x[j] = w[j - 1]
      BY <1>1, <2>1, <2>5
    <3>2. QED
      BY <3>1 DEF Sound, Ordered
  <2>6. CASE j > p /\ i > p
    <3>1. /\ i - 1 \in 1..n /\ j - 1 \in 1..n /\ i - 1 < j - 1
          /\ x[i] = w[i - 1] /\ x[j] = w[j - 1]
      BY <1>1, <2>1, <2>6
    <3>2. QED
      BY <3>1 DEF Sound, Ordered
  <2>7. QED
    BY <1>1, <2>1, <2>2, <2>3, <2>4, <2>5, <2>6
<1>6. NewestUnique(x)
  <2>1. SUFFICES ASSUME NEW i \in 1..(n + 1), i < n + 1
                 PROVE  Before(x[i].snapshot, x[n + 1].snapshot)
    BY <1>1 DEF NewestUnique
  <2>2. CASE p = n + 1
    <3>1. i \in 1..n /\ i < p /\ x[i] = w[i] /\ x[n + 1] = e
      BY <1>1, <2>1, <2>2
    <3>2. QED
      BY <1>3, <3>1
  <2>3. CASE p < n + 1
    <3>1. n \in 1..n /\ n >= p /\ w # <<>> /\ x[n + 1] = w[n]
      BY <1>1, <2>3, EmptySeq
    <3>2. Before(s, w[n].snapshot)
      BY <1>1, <1>2, <1>4, <3>1 DEF Before, Admissible
    <3>3. CASE i = p
      BY <1>1, <3>1, <3>2, <3>3
    <3>4. CASE i < p
      <4>1. i \in 1..n /\ i < n /\ x[i] = w[i]
        BY <1>1, <2>1, <2>3, <3>4
      <4>2. QED
        BY <3>1, <4>1 DEF Sound, NewestUnique
    <3>5. CASE i > p
      <4>1. i - 1 \in 1..n /\ i - 1 < n /\ x[i] = w[i - 1]
        BY <1>1, <2>1, <2>3, <3>5
      <4>2. QED
        BY <3>1, <4>1 DEF Sound, NewestUnique
    <3>6. QED
      BY <1>1, <2>1, <3>3, <3>4, <3>5
  <2>4. QED
    BY <1>1, <2>2, <2>3
<1>7. QED
  BY <1>5, <1>6 DEF Sound

\* Removing any record but the newest keeps a window sound and its newest
\* record in place.
LEMMA RemoveSound ==
    ASSUME NEW w \in Seq(Observations), Sound(w), NEW v \in 1..(Len(w) - 1)
    PROVE  /\ Sound(RemoveAt(w, v))
           /\ Last(RemoveAt(w, v)) = Last(w)
<1> DEFINE n == Len(w)
           x == RemoveAt(w, v)
<1>1. /\ n \in Nat /\ v \in 1..n
      /\ Len(x) = n - 1
      /\ \A i \in 1..(n - 1) : x[i] = IF i < v THEN w[i] ELSE w[i + 1]
  <2>1. n \in Nat
    BY LenProperties
  <2>2. v \in 1..n
    BY <2>1
  <2>3. QED
    BY <2>1, <2>2, RemoveAtElements
<1>2. ASSUME NEW i \in 1..(n - 1), NEW j \in 1..(n - 1), i < j
      PROVE  \E k, l \in 1..n : k < l /\ x[i] = w[k] /\ x[j] = w[l]
  <2>1. CASE j < v
    BY <1>1, <1>2, <2>1
  <2>2. CASE i < v /\ j >= v
    <3>1. i \in 1..n /\ j + 1 \in 1..n /\ i < j + 1 /\ x[i] = w[i] /\ x[j] = w[j + 1]
      BY <1>1, <1>2, <2>2
    <3>2. QED
      BY <3>1
  <2>3. CASE i >= v
    <3>1. i + 1 \in 1..n /\ j + 1 \in 1..n /\ i + 1 < j + 1
          /\ x[i] = w[i + 1] /\ x[j] = w[j + 1]
      BY <1>1, <1>2, <2>3
    <3>2. QED
      BY <3>1
  <2>4. QED
    BY <1>1, <2>1, <2>2, <2>3
<1>3. x[n - 1] = w[n] /\ n - 1 \in 1..(n - 1)
  BY <1>1
<1>4. Ordered(x)
  <2>1. SUFFICES ASSUME NEW i \in 1..(n - 1), NEW j \in 1..(n - 1), i < j
                 PROVE  /\ ~Before(x[j].snapshot, x[i].snapshot)
                        /\ x[i].snapshot.epoch <= x[j].snapshot.epoch
                        /\ x[i].snapshot.incarnation <= x[j].snapshot.incarnation
    BY <1>1 DEF Ordered
  <2>2. PICK k, l \in 1..n : k < l /\ x[i] = w[k] /\ x[j] = w[l]
    BY <1>2, <2>1
  <2>3. QED
    BY <2>2 DEF Sound, Ordered
<1>5. NewestUnique(x)
  <2>1. SUFFICES ASSUME NEW i \in 1..(n - 1), i < n - 1
                 PROVE  Before(x[i].snapshot, w[n].snapshot)
    BY <1>1, <1>3 DEF NewestUnique
  <2>2. PICK k \in 1..n : k < n /\ x[i] = w[k]
    <3>1. CASE i < v
      BY <1>1, <2>1, <3>1
    <3>2. CASE i >= v
      BY <1>1, <2>1, <3>2
    <3>3. QED
      BY <1>1, <3>1, <3>2
  <2>3. QED
    BY <2>2 DEF Sound, NewestUnique
<1>6. QED
  BY <1>1, <1>3, <1>4, <1>5 DEF Sound, Last

\* Marking every record recovered changes no key.
LEMMA RecoveredSound ==
    ASSUME NEW w \in Seq(Observations), Sound(w)
    PROVE  /\ Recovered(w) \in Seq(Observations)
           /\ Len(Recovered(w)) = Len(w)
           /\ Sound(Recovered(w))
<1>1. Len(w) \in Nat /\ \A i \in 1..Len(w) : w[i] \in Observations
  BY LenProperties, ElementOfSeq
<1>2. \A i \in 1..Len(w) : /\ [w[i] EXCEPT !.recovered = TRUE] \in Observations
                           /\ [w[i] EXCEPT !.recovered = TRUE].snapshot = w[i].snapshot
  BY <1>1 DEF Observations
<1>3. /\ Recovered(w) \in Seq(Observations)
      /\ Len(Recovered(w)) = Len(w)
      /\ \A i \in 1..Len(w) : Recovered(w)[i].snapshot = w[i].snapshot
  <2>1. /\ Recovered(w) \in [1..Len(w) -> Observations]
        /\ \A i \in 1..Len(w) : Recovered(w)[i].snapshot = w[i].snapshot
    BY <1>2 DEF Recovered
  <2>2. Recovered(w) \in Seq(Observations)
    BY <1>1, <2>1, SeqDef
  <2>3. Len(Recovered(w)) \in Nat /\ 1..Len(Recovered(w)) = 1..Len(w)
    BY <2>1, <2>2, LenProperties
  <2>4. Len(Recovered(w)) = Len(w)
    BY <1>1, <2>3
  <2>5. QED
    BY <2>1, <2>2, <2>4
<1>4. QED
  BY <1>1, <1>3 DEF Sound, Ordered, NewestUnique

-----------------------------------------------------------------------------
\* One admission keeps the window bounded and sound, and its newest record
\* does not get older.
LEMMA RecordObservationSound ==
    ASSUME IInv, NEW s \in Snapshots, RecordObservation(s)
    PROVE  /\ window' \in Seq(Observations) /\ Len(window') <= MaxRetained
           /\ Sound(window')
           /\ window # <<>> => window' # <<>>
                               /\ ~Before(Last(window').snapshot, Last(window).snapshot)
<1>1. /\ window \in Seq(Observations) /\ Len(window) \in Nat
      /\ Len(window) <= MaxRetained /\ Sound(window)
  BY LenProperties DEF IInv, TypeOK
<1>2. window # <<>> => ~Before(Last(window).snapshot, Last(window).snapshot)
  <2>1. SUFFICES ASSUME window # <<>>
                 PROVE  ~Before(Last(window).snapshot, Last(window).snapshot)
    OBVIOUS
  <2>2. Last(window) \in Observations
    BY <1>1, <2>1, EmptySeq, ElementOfSeq DEF Last
  <2>3. QED
    BY <2>2, BoundsAssumption DEF Before, Observations, Snapshots
<1>3. CASE Admission(s).status # "Ok"
  BY <1>1, <1>2, <1>3 DEF RecordObservation
<1>4. CASE Admission(s).status = "Ok"
  <2> DEFINE e == [snapshot |-> s, recovered |-> FALSE]
  <2>1. PICK p \in 1..(Len(window) + 1) :
            IsLowerBound(window, s, p) /\ Evict(InsertAt(window, p, e))
    BY <1>4 DEF RecordObservation, Insert
  <2>2. e \in Observations /\ e.snapshot = s
    BY DEF Observations
  <2> HIDE DEF e
  <2> DEFINE x == InsertAt(window, p, e)
  <2>3. /\ x \in Seq(Observations) /\ Len(x) = Len(window) + 1
        /\ \A i \in 1..(Len(window) + 1) :
             x[i] = IF i < p THEN window[i] ELSE IF i = p THEN e ELSE window[i - 1]
    BY <1>1, <2>2, InsertAtElements
  <2> HIDE DEF x
  <2>4. Admissible(window, s)
    BY <1>4, AdmissionOkAdmissible DEF IInv
  <2>5. Sound(x)
    BY <1>1, <2>1, <2>2, <2>4, InsertSound DEF x
  <2>6. window # <<>> => ~Before(Last(x).snapshot, Last(window).snapshot)
    <3>1. SUFFICES ASSUME window # <<>>
                   PROVE  ~Before(Last(x).snapshot, Last(window).snapshot)
      OBVIOUS
    <3>2. Len(window) >= 1 /\ Last(x) = x[Len(window) + 1] /\ Last(window) = window[Len(window)]
      BY <1>1, <2>3, <3>1, EmptySeq DEF Last
    <3>3. CASE p = Len(window) + 1
      <4>1. Last(x).snapshot = s
        BY <1>1, <2>2, <2>3, <3>2, <3>3
      <4>2. x[Len(window)] = window[Len(window)]
        BY <1>1, <2>3, <3>2, <3>3
      <4>3. ~Before(x[Len(window) + 1].snapshot, x[Len(window)].snapshot)
        BY <1>1, <2>3, <2>5, <3>2 DEF Sound, Ordered
      <4>4. QED
        BY <3>2, <4>2, <4>3
    <3>4. CASE p < Len(window) + 1
      <4>1. x[Len(window) + 1] = window[Len(window)]
        BY <1>1, <2>3, <3>2, <3>4
      <4>2. QED
        BY <1>2, <3>1, <3>2, <4>1
    <3>5. QED
      BY <1>1, <3>3, <3>4
  <2>7. Evict(x)
    BY <2>1 DEF x
  <2>8. x # <<>>
    BY <1>1, <2>3, EmptySeq
  <2>9. CASE Len(x) <= MaxRetained
    BY <2>3, <2>5, <2>6, <2>7, <2>8, <2>9 DEF Evict
  <2>10. CASE ~(Len(x) <= MaxRetained)
    <3>1. PICK v \in 1..Len(x) : IsVictim(x, v) /\ window' = RemoveAt(x, v)
      BY <2>7, <2>10 DEF Evict
    <3>2. Len(x) \in Nat /\ Len(x) > 1 /\ Len(x) <= MaxRetained + 1
      BY <1>1, <2>3, <2>10, BoundsAssumption
    <3>3. v \in 1..(Len(x) - 1)
      BY <3>1, <3>2 DEF IsVictim
    <3>4. /\ window' \in Seq(Observations) /\ Len(window') = Len(x) - 1
      BY <2>3, <3>1, RemoveAtElements
    <3>5. Sound(window') /\ Last(window') = Last(x)
      BY <2>3, <2>5, <3>1, <3>3, RemoveSound
    <3>6. window' # <<>>
      BY <3>2, <3>4, EmptySeq
    <3>7. Len(window') <= MaxRetained
      BY <3>2, <3>4, BoundsAssumption
    <3>8. QED
      BY <2>6, <3>4, <3>5, <3>6, <3>7
  <2>11. QED
    BY <2>9, <2>10
<1>5. QED
  BY <1>3, <1>4

\* Admission always reports one of the statuses of RecordObservation.
LEMMA AdmissionType ==
    ASSUME NEW s \in Snapshots
    PROVE  Admission(s) \in [status : Statuses, superseded : BOOLEAN]
BY DEF Admission, Report, Statuses

\* Every operation keeps the live and the stored window sound.
LEMMA InductiveStep == IInv /\ [Next]_vars => IInv'
<1>1. SUFFICES ASSUME IInv, [Next]_vars PROVE IInv'
  OBVIOUS
<1>2. ASSUME NEW s \in Snapshots, RecordObservation(s) PROVE IInv'
  BY <1>1, <1>2, RecordObservationSound, AdmissionType
  DEF IInv, TypeOK, RecordObservation, Sound, Ordered, NewestUnique
<1>3. CASE InvalidateRetainedEvidence
  BY <1>1, <1>3, RecoveredSound
  DEF IInv, TypeOK, InvalidateRetainedEvidence, Sound, Ordered, NewestUnique
<1>4. CASE Save
  BY <1>1, <1>4 DEF IInv, TypeOK, Save, Sound, Ordered, NewestUnique
<1>5. CASE Load
  BY <1>1, <1>5, RecoveredSound
  DEF IInv, TypeOK, Load, Sound, Ordered, NewestUnique
<1>6. CASE UNCHANGED vars
  BY <1>1, <1>6 DEF IInv, TypeOK, vars, Sound, Ordered, NewestUnique
<1>7. QED
  BY <1>1, <1>2, <1>3, <1>4, <1>5, <1>6 DEF Next

\* The invariant holds throughout.
LEMMA Inductive == Spec => []IInv
<1>1. Init => IInv
  BY BoundsAssumption, EmptySeq
  DEF Init, IInv, TypeOK, Report, Statuses, Sound, Ordered, NewestUnique
<1>2. QED
  BY <1>1, InductiveStep, PTL DEF Spec

\* The window of a source never outgrows max_retained_snapshots_per_source,
\* whatever is recorded, invalidated, saved and loaded.
THEOREM WindowTypeCorrect == Spec => []TypeOK
BY Inductive, PTL DEF IInv

\* RecordObservation's fence and binary search both read a sorted window.
THEOREM WindowStaysOrdered == Spec => []WindowOrdered
<1>1. IInv => WindowOrdered
  BY DEF IInv, Sound, WindowOrdered
<1>2. QED
  BY <1>1, Inductive, PTL

\* A source has exactly one newest claim, so the comparison reads the same
\* one however it breaks ties.
THEOREM NewestStaysUnique == Spec => []NewestIsUnique
<1>1. IInv => NewestIsUnique
  BY DEF IInv, Sound, NewestIsUnique
<1>2. QED
  BY <1>1, Inductive, PTL

\* A live record that RecordObservation drops was the front of a window without
\* recovered records before its newest one: the victim is a recovered record
\* whenever there is one.
LEMMA RecordDropsRecoveredFirst ==
    ASSUME IInv, NEW s \in Snapshots, RecordObservation(s),
           NEW j \in 1..Len(window), ~window[j].recovered, window[j].snapshot \notin Snaps(window')
    PROVE  \A i \in 1..(Len(window') - 1) : ~window'[i].recovered
<1>1. window \in Seq(Observations) /\ Len(window) \in Nat
  BY LenProperties DEF IInv, TypeOK
<1>2. window' # window
  BY DEF Snaps
<1> DEFINE e == [snapshot |-> s, recovered |-> FALSE]
<1>3. PICK p \in 1..(Len(window) + 1) :
          IsLowerBound(window, s, p) /\ Evict(InsertAt(window, p, e))
  BY <1>2 DEF RecordObservation, Insert
<1>4. e \in Observations
  BY DEF Observations
<1> HIDE DEF e
<1> DEFINE x == InsertAt(window, p, e)
<1>5. /\ x \in Seq(Observations) /\ Len(x) = Len(window) + 1
      /\ \A i \in 1..(Len(window) + 1) :
           x[i] = IF i < p THEN window[i] ELSE IF i = p THEN e ELSE window[i - 1]
  BY <1>1, <1>4, InsertAtElements
<1>6. Evict(x)
  BY <1>3
<1> HIDE DEF x
<1>7. PICK k \in 1..Len(x) : x[k] = window[j]
  <2>1. CASE j < p
    BY <1>1, <1>5, <2>1
  <2>2. CASE j >= p
    <3>1. j + 1 \in 1..Len(x) /\ x[j + 1] = window[j]
      BY <1>1, <1>5, <2>2
    <3> QED
      BY <3>1
  <2> QED
    BY <1>1, <2>1, <2>2
<1>8. PICK v \in 1..Len(x) : IsVictim(x, v) /\ window' = RemoveAt(x, v)
  <2>1. window' # x
    BY <1>7 DEF Snaps
  <2> QED
    BY <1>6, <2>1 DEF Evict
<1>9. /\ Len(window') = Len(x) - 1 /\ Len(x) \in Nat
      /\ \A i \in 1..(Len(x) - 1) : window'[i] = IF i < v THEN x[i] ELSE x[i + 1]
  <2>1. /\ Len(RemoveAt(x, v)) = Len(x) - 1
        /\ \A i \in 1..(Len(x) - 1) : RemoveAt(x, v)[i] = IF i < v THEN x[i] ELSE x[i + 1]
    BY <1>5, RemoveAtElements
  <2> QED
    BY <1>1, <1>5, <1>8, <2>1
<1>10. k = v
  <2> SUFFICES ASSUME k # v PROVE FALSE
    OBVIOUS
  <2>1. \E i \in 1..Len(window') : window'[i] = x[k]
    <3>1. CASE k < v
      BY <1>9, <3>1
    <3>2. CASE k > v
      <4>1. k - 1 \in 1..(Len(x) - 1) /\ ~(k - 1 < v) /\ (k - 1) + 1 = k
        BY <1>9, <3>2
      <4>2. window'[k - 1] = x[k]
        BY <1>9, <4>1
      <4> QED
        BY <1>9, <4>1, <4>2
    <3>3. Len(x) \in Nat
      BY <1>9
    <3>4. k < v \/ k > v
      BY <3>3
    <3> QED
      BY <3>1, <3>2, <3>4
  <2> QED
    BY <1>7, <2>1 DEF Snaps
<1>11. (\A i \in 1..(Len(x) - 1) : ~x[i].recovered) /\ v = 1
  <2> DEFINE R == {i \in 1..(Len(x) - 1) : x[i].recovered}
  <2>1. IF R = {} THEN v = 1 ELSE v \in R /\ \A i \in R : v <= i
    BY <1>8 DEF IsVictim
  <2>2. v \notin R
    BY <1>7, <1>10
  <2> QED
    BY <2>1, <2>2
<1> SUFFICES ASSUME NEW i \in 1..(Len(window') - 1) PROVE ~window'[i].recovered
  OBVIOUS
<1>12. window'[i] = x[i + 1] /\ i + 1 \in 1..(Len(x) - 1)
  BY <1>9, <1>11
<1> QED
  BY <1>11, <1>12

\* LiveOutlastsRecovered for windows of any length (the eviction in
\* RecordObservation, ledger.cpp:377).
THEOREM RecoveredGoesFirst == Spec => LiveOutlastsRecovered
<1> DEFINE First == (window' # Recovered(stored) /\ Live(window) \ Snaps(window') # {}) =>
                       \A i \in 1..(Len(window') - 1) : ~window'[i].recovered
<1>1. IInv /\ [Next]_vars => [First]_vars
  <2>1. SUFFICES ASSUME IInv, Next, window' # Recovered(stored), Live(window) \ Snaps(window') # {}
                 PROVE  \A i \in 1..(Len(window') - 1) : ~window'[i].recovered
    OBVIOUS
  <2>2. PICK j \in 1..Len(window) : ~window[j].recovered /\ window[j].snapshot \notin Snaps(window')
    BY <2>1 DEF Live
  <2>3. ASSUME NEW s \in Snapshots, RecordObservation(s)
        PROVE  \A i \in 1..(Len(window') - 1) : ~window'[i].recovered
    BY <2>1, <2>2, <2>3, RecordDropsRecoveredFirst
  <2>4. CASE InvalidateRetainedEvidence
    <3>1. window \in Seq(Observations) /\ window[j] \in Observations
      BY <2>1, ElementOfSeq DEF IInv, TypeOK
    <3>2. Len(window') = Len(window)
      BY <2>1, <2>4, RecoveredSound DEF InvalidateRetainedEvidence, IInv, TypeOK
    <3>3. window'[j].snapshot = window[j].snapshot
      BY <2>4, <3>1 DEF InvalidateRetainedEvidence, Recovered, Observations
    <3> QED
      BY <2>2, <3>2, <3>3 DEF Snaps
  <2>5. CASE Save
    BY <2>2, <2>5 DEF Save, Snaps
  <2>6. CASE Load
    BY <2>1, <2>6 DEF Load
  <2> QED
    BY <2>1, <2>3, <2>4, <2>5, <2>6 DEF Next
<1> QED
  BY <1>1, Inductive, PTL DEF Spec, LiveOutlastsRecovered

\* A snapshot that RecordObservation takes in and that does not sort after the
\* newest record is inserted before it, and an eviction does not reach it.
LEMMA LateStaysBehind ==
    ASSUME IInv, window # <<>>, NEW s \in Snapshots, RecordObservation(s),
           ~Before(Last(window).snapshot, s)
    PROVE  window' # <<>> /\ Last(window') = Last(window)
<1>1. /\ window \in Seq(Observations) /\ Len(window) \in Nat /\ Len(window) >= 1
      /\ Len(window) <= MaxRetained /\ Sound(window)
  BY LenProperties, EmptySeq DEF IInv, TypeOK
<1>2. CASE Admission(s).status # "Ok"
  BY <1>1, <1>2, EmptySeq DEF RecordObservation
<1>3. CASE Admission(s).status = "Ok"
  <2> DEFINE e == [snapshot |-> s, recovered |-> FALSE]
  <2>1. PICK p \in 1..(Len(window) + 1) :
            IsLowerBound(window, s, p) /\ Evict(InsertAt(window, p, e))
    BY <1>3 DEF RecordObservation, Insert
  <2>2. e \in Observations /\ e.snapshot = s
    BY DEF Observations
  <2> HIDE DEF e
  <2> DEFINE x == InsertAt(window, p, e)
  <2>3. /\ x \in Seq(Observations) /\ Len(x) = Len(window) + 1
        /\ \A i \in 1..(Len(window) + 1) :
             x[i] = IF i < p THEN window[i] ELSE IF i = p THEN e ELSE window[i - 1]
    BY <1>1, <2>2, InsertAtElements
  <2> HIDE DEF x
  <2>4. Sound(x)
    <3>1. Admissible(window, s)
      BY <1>3, AdmissionOkAdmissible DEF IInv
    <3> QED
      BY <1>1, <2>1, <2>2, <3>1, InsertSound DEF x
  <2>5. p # Len(window) + 1
    <3>1. SUFFICES ASSUME p = Len(window) + 1 PROVE FALSE
      OBVIOUS
    <3>2. Len(window) \in 1..(p - 1)
      BY <1>1, <3>1
    <3> QED
      BY <2>1, <3>2 DEF IsLowerBound, Last
  <2>6. x[Len(window) + 1] = window[Len(window)]
    BY <1>1, <2>1, <2>3, <2>5
  <2>7. Last(x) = Last(window) /\ x # <<>>
    BY <1>1, <2>3, <2>6, EmptySeq DEF Last
  <2>8. Evict(x)
    BY <2>1 DEF x
  <2>9. CASE Len(x) <= MaxRetained
    BY <2>7, <2>8, <2>9 DEF Evict
  <2>10. CASE ~(Len(x) <= MaxRetained)
    <3>1. PICK v \in 1..Len(x) : IsVictim(x, v) /\ window' = RemoveAt(x, v)
      BY <2>8, <2>10 DEF Evict
    <3>2. Len(x) \in Nat /\ Len(x) > 1
      BY <1>1, <2>3
    <3>3. v \in 1..(Len(x) - 1)
      BY <3>1, <3>2 DEF IsVictim
    <3>4. window' \in Seq(Observations) /\ Len(window') = Len(x) - 1
      BY <2>3, <3>1, RemoveAtElements
    <3>5. Last(window') = Last(x)
      BY <2>3, <2>4, <3>1, <3>3, RemoveSound
    <3>6. window' # <<>>
      BY <3>2, <3>4, EmptySeq
    <3> QED
      BY <2>7, <3>5, <3>6
  <2> QED
    BY <2>9, <2>10
<1> QED
  BY <1>2, <1>3

\* Of the operations on a window only a Load can move the newest claim backwards.
LEMMA ClaimMovesForward ==
    ASSUME IInv, Next, window # <<>>, window' # Recovered(stored)
    PROVE  window' # <<>> /\ ~Before(Last(window').snapshot, Last(window).snapshot)
<1> DEFINE Forward == window' # <<>> /\ ~Before(Last(window').snapshot, Last(window).snapshot)
<1>2. ASSUME NEW s \in Snapshots, RecordObservation(s) PROVE Forward
  BY <1>2, RecordObservationSound
<1>3. ~Before(Last(window).snapshot, Last(window).snapshot)
  <2>1. window \in Seq(Observations) /\ Last(window) \in Observations
    BY EmptySeq, LenProperties, ElementOfSeq DEF IInv, TypeOK, Last
  <2>2. QED
    BY <2>1, BoundsAssumption DEF Before, Observations, Snapshots
<1>4. CASE InvalidateRetainedEvidence
  <2>1. window \in Seq(Observations) /\ Len(window) \in Nat \ {0}
    BY EmptySeq, LenProperties DEF IInv, TypeOK
  <2>2. window[Len(window)] \in Observations
    BY <2>1, ElementOfSeq
  <2>3. /\ Len(window') = Len(window) /\ window' \in Seq(Observations)
    BY <1>4, RecoveredSound DEF InvalidateRetainedEvidence, IInv, TypeOK
  <2>4. window'[Len(window)].snapshot = window[Len(window)].snapshot
    BY <1>4, <2>1, <2>2 DEF InvalidateRetainedEvidence, Recovered, Observations
  <2>5. window' # <<>>
    BY <2>1, <2>3, EmptySeq
  <2>6. QED
    BY <1>3, <2>3, <2>4, <2>5 DEF Last
<1>5. CASE Save
  BY <1>3, <1>5 DEF Save
<1>6. CASE Load
  BY <1>6 DEF Load
<1>7. QED
  BY <1>2, <1>4, <1>5, <1>6 DEF Next

\* Only a Load can move a source's newest claim backwards, and late and repeated
\* deliveries leave it alone, recovered or not (RecordObservation,
\* ledger.cpp:342-355), for windows of any length.
THEOREM NewestMonotone == Spec => NewestNeverRegresses
<1> DEFINE Forward == window' # Recovered(stored) =>
                        window' # <<>> /\ ~Before(Last(window').snapshot, Last(window).snapshot)
           Waits == (window' = <<>> \/ Last(window') # Last(window)) =>
                       \A s \in Snapshots : RecordObservation(s) => Before(Last(window).snapshot, s)
           Kept == window # <<>> => Forward /\ Waits
<1>1. IInv /\ [Next]_vars => [Kept]_vars
  <2> SUFFICES ASSUME IInv, Next, window # <<>> PROVE Forward /\ Waits
    OBVIOUS
  <2>1. Forward
    BY ClaimMovesForward
  <2>2. Waits
    BY LateStaysBehind
  <2> QED
    BY <2>1, <2>2
<1> QED
  BY <1>1, Inductive, PTL DEF Spec, NewestNeverRegresses

=============================================================================
