---------------------------- MODULE Query_proofs ----------------------------
(***************************************************************************)
(* What a reader of pages is given, for any findings, orders, limits and   *)
(* bounds, whatever changes the ledger between two pages.                  *)
(***************************************************************************)
EXTENDS Query, FiniteSetTheorems, SequenceTheorems, TLAPS

Walk == [phase : {"reading", "done"}, kind : {"findings", "timeline"},
         spec : Specs \cup {NoSpec}, offset : Nat, seen : Seq(Nat), wrapped : BOOLEAN,
         changed : BOOLEAN, trimmed : BOOLEAN, reloaded : BOOLEAN, start : SUBSET Nat]

LedgerOK ==
    /\ IsFiniteSet(Present) /\ Present \subseteq Ids
    /\ \A f \in Present : findings[f] \in Finding

WalkOK ==
    \/ walk = NoWalk
    \/ walk \in Walk /\ (walk.kind = "findings" => walk.spec \in Specs)

\* The timeline is in the order of its numbers; a recovery may leave gaps, and
\* an operation that does not trim may leave it beyond its bound.
TimelineOK ==
    sequence \in Nat /\ timeline \in Seq(Nat) /\ InSequence(timeline, sequence)

\* What came back is the beginning of the timeline, as long as that has not
\* moved and not been replaced.
TimelineWalk ==
    walk.phase # "idle" /\ walk.kind = "timeline" /\ ~walk.trimmed /\ ~walk.reloaded =>
        /\ walk.offset = Len(walk.seen) /\ walk.offset <= Len(timeline)
        /\ \A i \in 1..walk.offset : walk.seen[i] = timeline[i]
        /\ \A x \in walk.start : \E i \in 1..Len(timeline) : x = timeline[i]
        /\ walk.phase = "done" /\ ~walk.wrapped => walk.offset >= Len(timeline)

\* How many of the findings in set come before f.
RankIn(set, f, order) == Cardinality({g \in set : OrderBefore(g, f, order)})

Ageless(spec) == \A s \in Times, t \in Times : s - t >= spec.minAge

Unfiltered(spec) ==
    /\ spec.states = States
    /\ spec.order \in {"identity-ascending", "target-ascending", "first-seen-ascending"}
    /\ spec.minSeverity = 0
    /\ \A f \in Ids : TargetOf[f] \in spec.targets
    /\ Ageless(spec)

\* Unless the ledger was replaced, a finding that has not come back yet has at
\* least as many before it as the reader has counted.
FindingsWalk ==
    \A spec \in Specs :
        (/\ walk.phase # "idle" /\ walk.kind = "findings" /\ walk.spec = spec
         /\ Unfiltered(spec) /\ ~walk.reloaded) =>
            /\ walk.start \subseteq Present
            /\ \A f \in walk.start : \/ \E i \in 1..Len(walk.seen) : f = walk.seen[i]
                                     \/ RankIn(Present, f, spec.order) >= walk.offset
            /\ walk.phase = "done" /\ ~walk.wrapped => walk.offset >= Cardinality(Present)

\* What came back is the beginning of the sorted result: the i-th has i - 1
\* findings before it.
QuietWalk ==
    \A spec \in Specs, now \in Times :
        walk.phase # "idle" /\ walk.kind = "findings" /\ walk.spec = spec /\ ~walk.changed /\ Ageless(spec) =>
            LET M == Matched(spec, now)
            IN  /\ walk.offset = Len(walk.seen) /\ walk.offset <= Cardinality(M)
                /\ \A i \in 1..walk.offset :
                      walk.seen[i] \in M /\ RankIn(M, walk.seen[i], spec.order) = i - 1
                /\ walk.phase = "done" /\ ~walk.wrapped => walk.offset >= Cardinality(M)

\* The inductive invariant.
IInv == LedgerOK /\ WalkOK /\ TimelineOK /\ TimelineWalk /\ FindingsWalk /\ QuietWalk

-----------------------------------------------------------------------------
(* Reports *)

\* Everything wanted is reported when it fits the budget.
LEMMA WantedFits ==
    ASSUME LedgerOK, NEW targets, NEW omitted, ~Truncated(targets, omitted)
    PROVE  Reported(targets, omitted) = Wanted(targets, omitted)
<1> DEFINE W == Wanted(targets, omitted)
<1>1. W \subseteq Present /\ W \subseteq Nat
  BY QueryAssumption DEF Wanted, LedgerOK
<1>2. IsFiniteSet(W) /\ Cardinality(W) \in Nat
  BY <1>1, FS_Subset, FS_CardinalityType DEF LedgerOK
<1>3. Cardinality(W) <= Budget
  BY <1>2, QueryAssumption DEF Truncated
<1> HIDE DEF W
<1>4. ASSUME NEW f \in W PROVE Cardinality({g \in W : g < f}) < Budget
  <2> DEFINE V == {g \in W : g < f}
  <2>1. V \in SUBSET W /\ f \notin V
    BY <1>1
  <2> HIDE DEF V
  <2>2. IsFiniteSet(V) /\ Cardinality(V) <= Cardinality(W) /\ (Cardinality(W) = Cardinality(V) => W = V)
    BY <1>2, <2>1, FS_Subset
  <2>3. Cardinality(V) \in Nat
    BY <2>2, FS_CardinalityType
  <2>4. Cardinality(V) # Cardinality(W)
    BY <2>1, <2>2
  <2>5. Cardinality(V) < Budget
    BY <1>2, <1>3, <2>2, <2>3, <2>4, QueryAssumption
  <2> QED
    BY <2>5 DEF V
<1> QED
  BY <1>4 DEF Reported, W

\* A report that fits names what the query would.
LEMMA ReportAgrees == ASSUME LedgerOK PROVE ReportAgreesWithQuery
<1> SUFFICES ASSUME NEW spec \in Specs, NEW now \in Times, NEW omitted,
                    omitted = States \ (spec.states \cup {"retired"}),
                    spec.minSeverity = 0,
                    \A s \in Times, t \in Times : s - t >= spec.minAge,
                    ~Truncated(spec.targets, omitted)
             PROVE  /\ Reported(spec.targets, omitted)
                          = Matched([spec EXCEPT !.states = @ \cup {"retired"}], now)
                    /\ Requests(spec.targets, omitted)
                          \subseteq Matched([spec EXCEPT !.states = {"open", "suppressed"}], now)
  BY DEF ReportAgreesWithQuery
<1>1. spec \in QuerySpec
  BY QueryAssumption
<1>2. Reported(spec.targets, omitted) = Wanted(spec.targets, omitted)
  BY WantedFits
<1>3. ASSUME NEW f \in Present
      PROVE  /\ findings[f].severity >= 0 /\ now - findings[f].first >= spec.minAge
             /\ findings[f].state \in States
  <2>1. findings[f] \in Finding
    BY DEF LedgerOK
  <2>2. findings[f].severity \in Nat /\ findings[f].first \in Times /\ findings[f].state \in States
    BY <2>1, QueryAssumption DEF Finding
  <2> QED
    BY <2>2
<1>4. ASSUME NEW f \in Present, NEW states
      PROVE  Matches(f, [spec EXCEPT !.states = states], now)
                <=> TargetOf[f] \in spec.targets /\ findings[f].state \in states
  <2> DEFINE asked == [spec EXCEPT !.states = states]
  <2>1. /\ asked.targets = spec.targets /\ asked.minSeverity = 0 /\ asked.minAge = spec.minAge
        /\ asked.states = states
    BY <1>1 DEF QuerySpec
  <2> HIDE DEF asked
  <2>2. Matches(f, asked, now) <=> TargetOf[f] \in spec.targets /\ findings[f].state \in states
    BY <1>3, <2>1 DEF Matches
  <2> QED
    BY <2>2 DEF asked
<1>5. ASSUME NEW states
      PROVE  Matched([spec EXCEPT !.states = states], now)
                = {f \in Present : TargetOf[f] \in spec.targets /\ findings[f].state \in states}
  BY <1>4 DEF Matched
<1>6. Reported(spec.targets, omitted) = Matched([spec EXCEPT !.states = spec.states \cup {"retired"}], now)
  <2>1. \A f \in Present : findings[f].state \notin omitted <=> findings[f].state \in spec.states \cup {"retired"}
    BY <1>3
  <2> QED
    BY <1>2, <1>5, <2>1 DEF Wanted
<1>7. Requests(spec.targets, omitted) \subseteq Matched([spec EXCEPT !.states = {"open", "suppressed"}], now)
  <2>1. \A f \in Present : findings[f].state \notin Closing => findings[f].state \in {"open", "suppressed"}
    BY <1>3 DEF States
  <2> QED
    BY <1>2, <1>5, <2>1 DEF Wanted, Requests
<1> QED
  BY <1>6, <1>7

-----------------------------------------------------------------------------
(* Pages *)

\* A page continues where the offset is, and is empty only at the end or when
\* its end wraps around.
LEMMA PageElements ==
    ASSUME NEW all \in Seq(Nat), NEW offset \in Nat, NEW limit \in Limits
    PROVE  LET page == Page(all, offset, limit)
           IN  /\ page \in Seq(Nat) /\ Len(page) \in Nat
               /\ Len(page) # 0 => offset + Len(page) <= Len(all)
               /\ \A i \in 1..Len(page) : page[i] = all[offset + i]
               /\ ~Wraps(Len(all), offset, limit) /\ page = <<>> => offset >= Len(all)
<1> DEFINE begin == AtMost(offset, Len(all))
           sum   == Plus(begin, limit)
           end   == AtMost(sum, Len(all))
           page  == SubSeq(all, begin + 1, end)
<1>1. Len(all) \in Nat /\ \A i \in 1..Len(all) : all[i] \in Nat
  BY LenProperties, ElementOfSeq
<1>2. limit \in Nat /\ limit >= 1 /\ SizeMax \in Nat
  BY QueryAssumption
<1>3. begin \in Nat /\ begin <= Len(all) /\ begin <= offset /\ (begin < Len(all) => begin = offset)
  BY <1>1 DEF AtMost
<1>4. sum \in Nat /\ (begin + limit <= SizeMax => sum = begin + limit)
  <2> HIDE DEF begin
  <2>1. begin + limit \in Nat /\ SizeMax + 1 \in Nat \ {0}
    BY <1>2, <1>3
  <2>2. \A a \in Nat, b \in Nat \ {0} : a % b \in Nat /\ (a < b => a % b = a)
    OBVIOUS
  <2>3. begin + limit <= SizeMax => begin + limit < SizeMax + 1
    BY <1>2, <2>1
  <2> QED
    BY <2>1, <2>2, <2>3 DEF Plus
<1>5. end \in Nat /\ end <= Len(all) /\ end <= sum /\ (end < Len(all) => end = sum)
  <2> HIDE DEF sum
  <2> QED
    BY <1>1, <1>4 DEF AtMost
<1>6. Page(all, offset, limit) = page
  BY DEF Page
<1>7. Wraps(Len(all), offset, limit) <=> begin + limit > SizeMax
  BY DEF Wraps
<1> HIDE DEF begin, sum, end
<1>8. /\ page \in Seq(Nat)
      /\ Len(page) = IF begin + 1 <= end THEN end - begin ELSE 0
      /\ \A i \in 1..(end - begin) : page[i] = all[begin + i]
  <2>1. \A i \in (begin + 1)..end : all[i] \in Nat
    BY <1>1, <1>3, <1>5
  <2>2. begin + 1 \in Int /\ end \in Int
    BY <1>3, <1>5
  <2>3. /\ page \in Seq(Nat)
        /\ Len(page) = IF begin + 1 <= end THEN end - (begin + 1) + 1 ELSE 0
        /\ \A i \in 1..(end - (begin + 1) + 1) : page[i] = all[(begin + 1) + i - 1]
    BY <2>1, <2>2, SubSeqProperties
  <2>4. end - (begin + 1) + 1 = end - begin /\ \A i \in Int : (begin + 1) + i - 1 = begin + i
    BY <1>3, <1>5
  <2> HIDE DEF page
  <2>5. ASSUME NEW i \in 1..(end - begin) PROVE page[i] = all[begin + i]
    <3>1. i \in 1..(end - (begin + 1) + 1) /\ (begin + 1) + i - 1 = begin + i
      BY <1>3, <1>5
    <3>2. page[i] = all[(begin + 1) + i - 1]
      BY <2>3, <3>1
    <3> QED
      BY <3>1, <3>2
  <2> QED
    BY <2>3, <2>4, <2>5
<1> HIDE DEF page
<1>9. Len(page) \in Nat
  BY <1>3, <1>5, <1>8
<1>10. ASSUME Len(page) # 0 PROVE begin = offset /\ Len(page) = end - begin /\ offset + Len(page) <= Len(all)
  BY <1>1, <1>3, <1>5, <1>8, <1>10
<1>11. \A i \in 1..Len(page) : page[i] = all[offset + i]
  <2>1. CASE Len(page) = 0
    BY <2>1
  <2>2. CASE Len(page) # 0
    BY <1>8, <1>10, <2>2
  <2> QED
    BY <2>1, <2>2
<1>12. ASSUME begin + limit <= SizeMax, page = <<>> PROVE offset >= Len(all)
  <2>1. Len(page) = 0
    BY <1>12
  <2>2. ~(begin + 1 <= end)
    BY <1>3, <1>5, <1>8, <2>1
  <2>3. sum = begin + limit
    BY <1>4, <1>12
  <2> QED
    BY <1>1, <1>2, <1>3, <1>5, <2>2, <2>3
<1>13. ~Wraps(Len(all), offset, limit) => begin + limit <= SizeMax
  BY <1>2, <1>3, <1>7
<1> QED
  BY <1>6, <1>8, <1>9, <1>10, <1>11, <1>12, <1>13

\* One more page: what came back so far stays, the page is added, and a reader
\* whose pages never wrapped around stops only at the end.
LEMMA Received ==
    ASSUME walk \in Walk, walk.phase = "reading", NEW all \in Seq(Nat),
           NEW limit \in Limits, Receive(all, limit)
    PROVE  /\ walk' \in Walk
           /\ walk'.kind = walk.kind /\ walk'.spec = walk.spec /\ walk'.start = walk.start
           /\ walk'.changed = walk.changed /\ walk'.trimmed = walk.trimmed /\ walk'.reloaded = walk.reloaded
           /\ \E n \in Nat :
                /\ walk'.offset = walk.offset + n /\ Len(walk'.seen) = Len(walk.seen) + n
                /\ \A i \in 1..Len(walk.seen) : walk'.seen[i] = walk.seen[i]
                /\ \A i \in 1..n : walk'.seen[Len(walk.seen) + i] = all[walk.offset + i]
                /\ n # 0 => walk.offset + n <= Len(all)
           /\ walk'.phase = "done" /\ ~walk'.wrapped => walk'.offset >= Len(all)
<1> DEFINE page == Page(all, walk.offset, limit)
           wraps == Wraps(Len(all), walk.offset, limit)
           ends == page = <<>> \/ walk.offset + Len(page) >= Len(all)
<1>1. walk.offset \in Nat /\ walk.seen \in Seq(Nat) /\ walk.wrapped \in BOOLEAN
  BY DEF Walk
<1>2. /\ page \in Seq(Nat) /\ Len(page) \in Nat
      /\ Len(page) # 0 => walk.offset + Len(page) <= Len(all)
      /\ \A i \in 1..Len(page) : page[i] = all[walk.offset + i]
      /\ ~wraps /\ page = <<>> => walk.offset >= Len(all)
  BY <1>1, PageElements
<1>3. wraps \in BOOLEAN
  BY DEF Wraps
<1>4. walk' = [walk EXCEPT !.seen = walk.seen \o page, !.offset = walk.offset + Len(page),
                           !.wrapped = walk.wrapped \/ wraps,
                           !.phase = IF ends THEN "done" ELSE walk.phase]
  BY DEF Receive
<1> HIDE DEF page, wraps, ends
<1>5. /\ walk.seen \o page \in Seq(Nat) /\ Len(walk.seen \o page) = Len(walk.seen) + Len(page)
      /\ \A i \in 1..(Len(walk.seen) + Len(page)) :
           (walk.seen \o page)[i] = IF i <= Len(walk.seen) THEN walk.seen[i] ELSE page[i - Len(walk.seen)]
  BY <1>1, <1>2, ConcatProperties
<1> DEFINE more == walk.seen \o page
           now  == IF ends THEN "done" ELSE walk.phase
           over == walk.wrapped \/ wraps
           next == walk.offset + Len(page)
<1>6. more \in Seq(Nat) /\ now \in {"reading", "done"} /\ over \in BOOLEAN /\ next \in Nat
  BY <1>1, <1>2, <1>3, <1>5
<1>7. walk' = [walk EXCEPT !.seen = more, !.offset = next, !.wrapped = over, !.phase = now]
  BY <1>4
<1> HIDE DEF more, now, over, next
<1>8. /\ walk' \in Walk
      /\ walk'.kind = walk.kind /\ walk'.spec = walk.spec /\ walk'.start = walk.start
      /\ walk'.changed = walk.changed /\ walk'.trimmed = walk.trimmed /\ walk'.reloaded = walk.reloaded
      /\ walk'.offset = next /\ walk'.seen = more /\ walk'.phase = now /\ walk'.wrapped = over
  BY <1>6, <1>7 DEF Walk
<1>9. Len(walk.seen) \in Nat
  BY <1>1, LenProperties
<1>10. ASSUME NEW i \in 1..Len(walk.seen) PROVE more[i] = walk.seen[i]
  <2>1. i \in 1..(Len(walk.seen) + Len(page)) /\ i <= Len(walk.seen)
    BY <1>2, <1>9
  <2> QED
    BY <1>5, <2>1 DEF more
<1>11. ASSUME NEW i \in 1..Len(page) PROVE more[Len(walk.seen) + i] = all[walk.offset + i]
  <2>1. /\ Len(walk.seen) + i \in 1..(Len(walk.seen) + Len(page))
        /\ ~(Len(walk.seen) + i <= Len(walk.seen))
        /\ (Len(walk.seen) + i) - Len(walk.seen) = i
    BY <1>2, <1>9
  <2>2. more[Len(walk.seen) + i] = page[i]
    BY <1>5, <2>1 DEF more
  <2> QED
    BY <1>2, <2>2
<1>12. ASSUME now = "done", ~over PROVE next >= Len(all)
  <2>1. ends /\ ~wraps
    BY <1>12 DEF now, over
  <2>2. CASE page = <<>>
    <3>1. Len(page) = 0 /\ walk.offset >= Len(all) /\ Len(all) \in Nat
      BY <1>2, <2>1, <2>2, LenProperties
    <3> QED
      BY <1>1, <3>1 DEF next
  <2>3. CASE walk.offset + Len(page) >= Len(all)
    BY <2>3 DEF next
  <2> QED
    BY <2>1, <2>2, <2>3 DEF ends
<1>13. \E n \in Nat :
          /\ walk'.offset = walk.offset + n /\ Len(walk'.seen) = Len(walk.seen) + n
          /\ \A i \in 1..Len(walk.seen) : walk'.seen[i] = walk.seen[i]
          /\ \A i \in 1..n : walk'.seen[Len(walk.seen) + i] = all[walk.offset + i]
          /\ n # 0 => walk.offset + n <= Len(all)
  <2>1. walk'.offset = walk.offset + Len(page) /\ Len(walk'.seen) = Len(walk.seen) + Len(page)
    BY <1>5, <1>8 DEF next, more
  <2>2. \A i \in 1..Len(walk.seen) : walk'.seen[i] = walk.seen[i]
    BY <1>8, <1>10
  <2>3. \A i \in 1..Len(page) : walk'.seen[Len(walk.seen) + i] = all[walk.offset + i]
    BY <1>8, <1>11
  <2> QED
    BY <1>2, <2>1, <2>2, <2>3
<1> QED
  BY <1>8, <1>12, <1>13

-----------------------------------------------------------------------------
(* Changes of the ledger *)

\* Entries are appended, and nothing moves unless some were trimmed.
LEMMA TimelineGrows ==
    ASSUME TimelineOK, NEW n \in Nat, NEW trims \in BOOLEAN, Record(n, trims)
    PROVE  /\ TimelineOK'
           /\ ~(trims /\ Len(Appended(n)) > MaxTimeline) =>
                /\ Len(timeline') = Len(timeline) + n
                /\ \A i \in 1..Len(timeline) : timeline'[i] = timeline[i]
<1> DEFINE more    == [i \in 1..n |-> sequence + i]
           entries == Appended(n)
           m == Len(timeline)
           last == sequence + n
<1>1. /\ m \in Nat /\ MaxTimeline \in Nat /\ sequence \in Nat /\ last \in Nat
      /\ timeline \in Seq(Nat)
      /\ \A i \in 1..m : timeline[i] \in Nat /\ timeline[i] <= sequence
      /\ \A i, j \in 1..m : i < j => timeline[i] < timeline[j]
  BY LenProperties, ElementOfSeq, QueryAssumption DEF TimelineOK, InSequence
<1>2. more \in Seq(Nat) /\ Len(more) = n /\ \A i \in 1..n : more[i] = sequence + i
  BY <1>1
<1>3. entries = timeline \o more
  BY DEF Appended
<1> HIDE DEF more, entries
<1>4. /\ entries \in Seq(Nat) /\ Len(entries) = m + n
      /\ \A i \in 1..(m + n) : entries[i] = IF i <= m THEN timeline[i] ELSE more[i - m]
  BY <1>1, <1>2, <1>3, ConcatProperties
<1>5. \A i \in 1..m : entries[i] = timeline[i]
  BY <1>1, <1>4
<1>6. ASSUME NEW i \in 1..(m + n), i > m PROVE entries[i] = sequence + (i - m)
  <2>1. i - m \in 1..n /\ ~(i <= m)
    BY <1>1, <1>6
  <2> QED
    BY <1>2, <1>4, <2>1
<1>7. \A i \in 1..(m + n) : entries[i] \in Nat /\ entries[i] <= last
  <2> SUFFICES ASSUME NEW i \in 1..(m + n) PROVE entries[i] \in Nat /\ entries[i] <= last
    OBVIOUS
  <2>1. CASE i <= m
    BY <1>1, <1>5, <2>1
  <2>2. CASE i > m
    BY <1>1, <1>6, <2>2
  <2> QED
    BY <1>1, <2>1, <2>2
<1>8. ASSUME NEW i \in 1..(m + n), NEW j \in 1..(m + n), i < j PROVE entries[i] < entries[j]
  <2>1. CASE j <= m
    BY <1>1, <1>5, <1>8, <2>1
  <2>2. CASE i > m
    <3>1. j > m
      BY <1>1, <1>8, <2>2
    <3> QED
      BY <1>1, <1>6, <1>8, <2>2, <3>1
  <2>3. CASE i <= m /\ j > m
    <3>1. entries[i] \in Nat /\ entries[i] <= sequence
      BY <1>1, <1>5, <2>3
    <3>2. entries[j] = sequence + (j - m)
      BY <1>6, <2>3
    <3> QED
      BY <1>1, <2>3, <3>1, <3>2
  <2> QED
    BY <1>1, <2>1, <2>2, <2>3
<1>9. sequence' = last /\ timeline' = IF trims THEN Trimmed(entries) ELSE entries
  BY DEF Record, entries
<1> HIDE DEF m, last
<1>10. CASE ~(trims /\ Len(entries) > MaxTimeline)
  <2>1. timeline' = entries
    BY <1>1, <1>4, <1>9, <1>10 DEF Trimmed
  <2>2. TimelineOK'
    BY <1>1, <1>4, <1>7, <1>8, <1>9, <2>1 DEF TimelineOK, InSequence
  <2> QED
    BY <1>4, <1>5, <2>1, <2>2 DEF m
<1>11. CASE trims /\ Len(entries) > MaxTimeline
  <2> DEFINE k == m + n - MaxTimeline
             kept == SubSeq(entries, k + 1, m + n)
  <2>1. timeline' = kept
    BY <1>1, <1>4, <1>9, <1>11 DEF Trimmed
  <2>2. k \in Nat /\ k + MaxTimeline = m + n
    BY <1>1, <1>4, <1>11
  <2> HIDE DEF k
  <2>3. \A i \in (k + 1)..(m + n) : entries[i] \in Nat
    BY <1>1, <1>7, <2>2
  <2>4. /\ kept \in Seq(Nat) /\ Len(kept) = IF k + 1 <= m + n THEN (m + n) - (k + 1) + 1 ELSE 0
        /\ \A i \in 1..((m + n) - (k + 1) + 1) : kept[i] = entries[(k + 1) + i - 1]
    BY <1>1, <2>2, <2>3, SubSeqProperties
  <2> HIDE DEF kept
  <2>5. Len(kept) = MaxTimeline
    BY <1>1, <2>2, <2>4
  <2>6. ASSUME NEW i \in 1..MaxTimeline PROVE kept[i] = entries[k + i] /\ k + i \in 1..(m + n)
    <3>1. i \in 1..((m + n) - (k + 1) + 1) /\ (k + 1) + i - 1 = k + i /\ k + i \in 1..(m + n)
      BY <1>1, <2>2
    <3> QED
      BY <2>4, <3>1
  <2>7. \A i \in 1..MaxTimeline : kept[i] <= last
    BY <1>7, <2>6
  <2>8. ASSUME NEW i \in 1..MaxTimeline, NEW j \in 1..MaxTimeline, i < j PROVE kept[i] < kept[j]
    <3>1. k + i < k + j
      BY <1>1, <2>2, <2>8
    <3> QED
      BY <1>8, <2>6, <3>1
  <2>9. TimelineOK'
    BY <1>1, <1>9, <2>1, <2>4, <2>5, <2>7, <2>8 DEF TimelineOK, InSequence
  <2> QED
    BY <1>11, <2>9 DEF entries
<1> QED
  BY <1>10, <1>11

\* A change ends a walk that is done, and notes itself in one that is not.
LEMMA WalkNotes ==
    ASSUME WalkOK, NEW trims \in BOOLEAN, NEW reloads \in BOOLEAN, Interrupted(trims, reloads)
    PROVE  /\ WalkOK'
           /\ walk'.phase # "idle" =>
                /\ walk.phase = "reading" /\ walk'.phase = "reading"
                /\ walk \in Walk /\ walk' \in Walk
                /\ walk'.kind = walk.kind /\ walk'.spec = walk.spec /\ walk'.start = walk.start
                /\ walk'.offset = walk.offset /\ walk'.seen = walk.seen
                /\ walk'.changed
                /\ walk'.trimmed = (walk.trimmed \/ trims)
                /\ walk'.reloaded = (walk.reloaded \/ reloads)
<1>1. CASE walk.phase = "reading"
  <2> DEFINE t == walk.trimmed \/ trims
             r == walk.reloaded \/ reloads
  <2>1. walk \in Walk /\ (walk.kind = "findings" => walk.spec \in Specs)
    BY <1>1 DEF WalkOK, NoWalk
  <2>2. t \in BOOLEAN /\ r \in BOOLEAN
    BY <2>1 DEF Walk
  <2>3. walk' = [walk EXCEPT !.changed = TRUE, !.trimmed = t, !.reloaded = r]
    BY <1>1 DEF Interrupted
  <2> HIDE DEF t, r
  <2>4. /\ walk' \in Walk /\ walk'.phase = walk.phase
        /\ walk'.kind = walk.kind /\ walk'.spec = walk.spec /\ walk'.start = walk.start
        /\ walk'.offset = walk.offset /\ walk'.seen = walk.seen
        /\ walk'.changed /\ walk'.trimmed = t /\ walk'.reloaded = r
    BY <2>1, <2>2, <2>3 DEF Walk
  <2> QED
    BY <1>1, <2>1, <2>4 DEF WalkOK, t, r
<1>2. CASE walk.phase # "reading"
  <2>1. walk' = NoWalk
    BY <1>2 DEF Interrupted
  <2> QED
    BY <2>1 DEF WalkOK, NoWalk
<1> QED
  BY <1>1, <1>2

\* A change sets one finding and erases none.
LEMMA LedgerChanges ==
    ASSUME LedgerOK, NEW f \in Ids, NEW finding \in Finding, NEW n, NEW trims,
           Change(f, finding, n, trims)
    PROVE  /\ LedgerOK' /\ Present' = Present \cup {f}
           /\ \A g \in Present' : findings'[g] = IF g = f THEN finding ELSE findings[g]
<1>1. findings' = [g \in Present \cup {f} |-> IF g = f THEN finding ELSE findings[g]]
  BY DEF Change
<1>2. Present' = Present \cup {f}
  BY <1>1 DEF Present
<1>3. IsFiniteSet(Present')
  BY <1>2, FS_AddElement DEF LedgerOK
<1>4. \A g \in Present' : findings'[g] = IF g = f THEN finding ELSE findings[g]
  BY <1>1, <1>2
<1>5. \A g \in Present' : findings'[g] \in Finding
  BY <1>2, <1>4 DEF LedgerOK
<1> QED
  BY <1>2, <1>3, <1>4, <1>5 DEF LedgerOK

-----------------------------------------------------------------------------
(* Orders *)

\* The fields an order compares are numbers.
LEMMA KeysAreNumbers ==
    ASSUME LedgerOK, NEW f \in Present, NEW order \in Orders
    PROVE  \E a \in Int, b \in Int : Keys(f, order) = <<a, b>>
<1>1. findings[f] \in Finding /\ f \in Ids
  BY DEF LedgerOK
<1>2. /\ findings[f].severity \in Int /\ findings[f].first \in Int /\ findings[f].last \in Int
      /\ TargetOf[f] \in Int /\ ObjectOf[f] \in Int
  <2>1. findings[f].severity \in Severities /\ findings[f].first \in Times /\ findings[f].last \in Times
    BY <1>1 DEF Finding
  <2>2. Severities \subseteq Int /\ Times \subseteq Int /\ TargetOf \in [Ids -> Int] /\ ObjectOf \in [Ids -> Int]
    BY QueryAssumption
  <2> QED
    BY <1>1, <2>1, <2>2
<1>3. -findings[f].severity \in Int /\ -findings[f].last \in Int
  BY <1>2
<1>4. CASE order = "severity-descending"
  BY <1>3, <1>4 DEF Keys
<1>5. CASE order = "first-seen-ascending"
  BY <1>2, <1>5 DEF Keys
<1>6. CASE order = "last-seen-descending"
  BY <1>3, <1>6 DEF Keys
<1>7. CASE order = "target-ascending"
  BY <1>2, <1>7 DEF Keys
<1>8. CASE order = "identity-ascending"
  BY <1>8 DEF Keys
<1> QED
  BY <1>4, <1>5, <1>6, <1>7, <1>8 DEF Orders

\* Every order is total: identity breaks the remaining ties.
LEMMA OrderIsTotal ==
    ASSUME LedgerOK, NEW f \in Present, NEW g \in Present, NEW order \in Orders
    PROVE  /\ ~OrderBefore(f, f, order)
           /\ f # g => OrderBefore(f, g, order) \/ OrderBefore(g, f, order)
<1>1. PICK a \in Int, b \in Int : Keys(f, order) = <<a, b>>
  BY KeysAreNumbers
<1>2. PICK c \in Int, d \in Int : Keys(g, order) = <<c, d>>
  BY KeysAreNumbers
<1>3. f \in Nat /\ g \in Nat
  BY QueryAssumption DEF LedgerOK
<1>4. ~OrderBefore(f, f, order)
  <2>1. ~Precedes(<<a, b>>, <<a, b>>)
    BY DEF Precedes
  <2>2. ~(f < f)
    BY <1>3
  <2> QED
    BY <1>1, <2>1, <2>2 DEF OrderBefore
<1>5. CASE a = c /\ b = d
  BY <1>1, <1>2, <1>3, <1>4, <1>5 DEF OrderBefore
<1>6. CASE ~(a = c /\ b = d)
  <2>1. Precedes(<<a, b>>, <<c, d>>) \/ Precedes(<<c, d>>, <<a, b>>)
    BY <1>6 DEF Precedes
  <2> QED
    BY <1>1, <1>2, <1>4, <2>1 DEF OrderBefore
<1> QED
  BY <1>5, <1>6

\* In a sorted arrangement every finding has its place, and the place says how
\* many come before it.
LEMMA SortedPlaces ==
    ASSUME LedgerOK, NEW set \in SUBSET Present, NEW order \in Orders,
           NEW all \in Sorted(set, order)
    PROVE  /\ all \in Seq(Nat) /\ Len(all) = Cardinality(set) /\ Cardinality(set) \in Nat
           /\ \A f \in set : \E i \in 1..Len(all) : all[i] = f
           /\ \A i \in 1..Len(all) : all[i] \in set /\ RankIn(set, all[i], order) = i - 1
<1> DEFINE n == Cardinality(set)
<1>1. IsFiniteSet(set) /\ n \in Nat
  BY FS_Subset, FS_CardinalityType DEF LedgerOK
<1>2. /\ all \in [1..n -> set]
      /\ \A i, j \in 1..n : i # j => all[i] # all[j]
      /\ \A i, j \in 1..Len(all) : i < j => ~OrderBefore(all[j], all[i], order)
  BY DEF Sorted, SetToSeqs
<1> HIDE DEF n
<1>3. set \subseteq Nat
  BY QueryAssumption DEF LedgerOK
<1>4. all \in Seq(Nat) /\ Len(all) = n
  <2>1. all \in [1..n -> Nat]
    BY <1>2, <1>3
  <2> QED
    BY <1>1, <2>1
<1>5. \A f \in set : \E i \in 1..Len(all) : all[i] = f
  <2>1. all \in Injection(1..n, set)
    BY <1>2 DEF Injection, IsInjective
  <2>2. Cardinality(1..n) = n
    BY <1>1, FS_Interval
  <2>3. all \in Surjection(1..n, set)
    BY <1>1, <2>1, <2>2, FS_Injection DEF n
  <2> QED
    BY <1>4, <2>3 DEF Surjection
<1>6. ASSUME NEW i \in 1..Len(all)
      PROVE  all[i] \in set /\ RankIn(set, all[i], order) = i - 1
  <2> DEFINE before == {g \in set : OrderBefore(g, all[i], order)}
             place == [j \in 1..(i - 1) |-> all[j]]
  <2>1. i \in 1..n /\ i \in Nat /\ n \in Nat /\ all[i] \in set
    BY <1>1, <1>2, <1>4
  <2>2. ASSUME NEW j \in 1..n PROVE OrderBefore(all[j], all[i], order) <=> j < i
    <3>1. all[j] \in Present /\ all[i] \in Present
      BY <1>2, <2>1
    <3>2. CASE j < i
      <4>1. all[j] # all[i]
        BY <1>2, <2>1, <3>2
      <4>2. ~OrderBefore(all[i], all[j], order)
        BY <1>2, <1>4, <2>1, <3>2
      <4> QED
        BY <3>1, <3>2, <4>1, <4>2, OrderIsTotal
    <3>3. CASE j = i
      BY <2>1, <3>1, <3>3, OrderIsTotal
    <3>4. CASE j > i
      <4>1. ~OrderBefore(all[j], all[i], order)
        BY <1>2, <1>4, <2>1, <3>4
      <4> QED
        BY <2>1, <3>4, <4>1
    <3>5. j < i \/ j = i \/ j > i
      BY <2>1
    <3> QED
      BY <3>2, <3>3, <3>4, <3>5
  <2>3. \A j \in 1..(i - 1) : j \in 1..n /\ j < i
    BY <2>1
  <2>4. place \in [1..(i - 1) -> before]
    BY <1>2, <2>2, <2>3
  <2>5. \A j, k \in 1..(i - 1) : place[j] = place[k] => j = k
    BY <1>2, <2>3
  <2>6. ASSUME NEW g \in before PROVE \E j \in 1..(i - 1) : place[j] = g
    <3>1. PICK j \in 1..n : all[j] = g
      BY <1>4, <1>5
    <3>2. j < i
      BY <2>2, <3>1
    <3>3. j \in 1..(i - 1)
      BY <2>1, <3>2
    <3> QED
      BY <3>1, <3>3
  <2> HIDE DEF place, before
  <2>7. place \in Bijection(1..(i - 1), before)
    BY <2>4, <2>5, <2>6 DEF Bijection, Injection, Surjection, IsInjective
  <2>8. i - 1 \in Nat
    BY <2>1
  <2>9. Cardinality(before) = i - 1
    BY <2>7, <2>8, FS_CountingElements DEF ExistsBijection
  <2> QED
    BY <2>1, <2>9 DEF RankIn, before
<1> QED
  BY <1>1, <1>4, <1>5, <1>6 DEF n

\* The number of findings before one grows with the ledger in an order that
\* does not depend on what a change may touch.
LEMMA RankGrows ==
    ASSUME LedgerOK, LedgerOK', Present \subseteq Present',
           \A g \in Present : findings'[g].first = findings[g].first,
           NEW f \in Present,
           NEW order \in {"identity-ascending", "target-ascending", "first-seen-ascending"}
    PROVE  /\ RankIn(Present, f, order) \in Nat /\ RankIn(Present, f, order)' \in Nat
           /\ RankIn(Present, f, order) <= RankIn(Present, f, order)'
<1> DEFINE old == {g \in Present : OrderBefore(g, f, order)}
           new == {g \in Present' : OrderBefore(g, f, order)'}
<1>1. ASSUME NEW g \in Present PROVE Keys(g, order)' = Keys(g, order)
  <2>1. CASE order = "first-seen-ascending"
    BY <2>1 DEF Keys
  <2>2. CASE order = "target-ascending"
    BY <2>2 DEF Keys
  <2>3. CASE order = "identity-ascending"
    BY <2>3 DEF Keys
  <2> QED
    BY <2>1, <2>2, <2>3
<1>2. \A g \in Present : OrderBefore(g, f, order)' <=> OrderBefore(g, f, order)
  BY <1>1 DEF OrderBefore
<1>3. old \in SUBSET new
  BY <1>2
<1>4. IsFiniteSet(old) /\ IsFiniteSet(new)
  BY FS_Subset DEF LedgerOK
<1>5. RankIn(Present, f, order) = Cardinality(old) /\ RankIn(Present, f, order)' = Cardinality(new)
  BY DEF RankIn
<1> HIDE DEF old, new
<1>6. Cardinality(old) <= Cardinality(new) /\ Cardinality(old) \in Nat /\ Cardinality(new) \in Nat
  BY <1>3, <1>4, FS_Subset, FS_CardinalityType
<1> QED
  BY <1>5, <1>6

-----------------------------------------------------------------------------
(* Filters *)

\* Without an age filter the clock does not matter.
LEMMA ClockDoesNotMatter ==
    ASSUME LedgerOK, NEW spec \in Specs, Ageless(spec), NEW now \in Times, NEW then \in Times
    PROVE  Matched(spec, now) = Matched(spec, then)
<1>1. ASSUME NEW f \in Present PROVE Matches(f, spec, now) <=> Matches(f, spec, then)
  <2>1. findings[f].first \in Times
    BY DEF LedgerOK, Finding
  <2>2. now - findings[f].first >= spec.minAge /\ then - findings[f].first >= spec.minAge
    BY <2>1 DEF Ageless
  <2> QED
    BY <2>2 DEF Matches
<1> QED
  BY <1>1 DEF Matched

\* A specification that filters nothing out matches every finding.
LEMMA EverythingMatches ==
    ASSUME LedgerOK, NEW spec \in Specs, Unfiltered(spec), NEW now \in Times
    PROVE  Matched(spec, now) = Present
<1>1. ASSUME NEW f \in Present PROVE Matches(f, spec, now)
  <2>1. findings[f] \in Finding /\ f \in Ids
    BY DEF LedgerOK
  <2>2. findings[f].severity \in Severities /\ findings[f].first \in Times /\ findings[f].state \in States
    BY <2>1 DEF Finding
  <2>3. findings[f].severity >= 0
    <3>1. findings[f].severity \in Nat
      BY <2>2, QueryAssumption
    <3> QED
      BY <3>1
  <2>4. now - findings[f].first >= spec.minAge
    BY <2>2 DEF Unfiltered, Ageless
  <2> QED
    BY <2>1, <2>2, <2>3, <2>4 DEF Matches, Unfiltered
<1> QED
  BY <1>1 DEF Matched

\* As long as the findings are the same, so are filters and places.
LEMMA UnchangedFindings ==
    ASSUME UNCHANGED findings
    PROVE  /\ Present' = Present /\ \A s, t : Matched(s, t)' = Matched(s, t)
           /\ \A f, order : RankIn(Present, f, order)' = RankIn(Present, f, order)
           /\ \A s, t, f, order : RankIn(Matched(s, t), f, order)' = RankIn(Matched(s, t), f, order)
<1>1. Present' = Present
  BY DEF Present
<1>2. \A s, t : Matched(s, t)' = Matched(s, t)
  BY <1>1 DEF Matched, Matches
<1>3. \A f, g, order : OrderBefore(f, g, order)' = OrderBefore(f, g, order)
  BY DEF OrderBefore, Keys
<1>4. \A f, order : RankIn(Present, f, order)' = RankIn(Present, f, order)
  BY <1>1, <1>3 DEF RankIn
<1>5. \A s, t, f, order : RankIn(Matched(s, t), f, order)' = RankIn(Matched(s, t), f, order)
  BY <1>2, <1>3 DEF RankIn
<1> QED
  BY <1>1, <1>2, <1>4, <1>5

-----------------------------------------------------------------------------
(* The steps *)

\* Recording entries keeps what is known of the timeline and of its reader.
LEMMA RecordKeeps ==
    ASSUME WalkOK, TimelineOK, TimelineWalk, NEW n \in Nat, NEW trims \in BOOLEAN, Record(n, trims)
    PROVE  /\ WalkOK' /\ TimelineOK' /\ TimelineWalk'
           /\ walk'.phase # "idle" =>
                /\ walk.phase = "reading" /\ walk'.phase = "reading"
                /\ walk \in Walk /\ walk' \in Walk
                /\ walk'.kind = walk.kind /\ walk'.spec = walk.spec /\ walk'.start = walk.start
                /\ walk'.offset = walk.offset /\ walk'.seen = walk.seen
                /\ walk'.changed /\ walk'.reloaded = walk.reloaded
<1> DEFINE moves == trims /\ Len(Appended(n)) > MaxTimeline
<1>1. moves \in BOOLEAN /\ Interrupted(moves, FALSE)
  BY DEF Record
<1>2. /\ TimelineOK'
      /\ ~moves => /\ Len(timeline') = Len(timeline) + n
                   /\ \A i \in 1..Len(timeline) : timeline'[i] = timeline[i]
  BY TimelineGrows
<1> HIDE DEF moves
<1>3. /\ WalkOK'
      /\ walk'.phase # "idle" =>
           /\ walk.phase = "reading" /\ walk'.phase = "reading"
           /\ walk \in Walk /\ walk' \in Walk
           /\ walk'.kind = walk.kind /\ walk'.spec = walk.spec /\ walk'.start = walk.start
           /\ walk'.offset = walk.offset /\ walk'.seen = walk.seen
           /\ walk'.changed
           /\ walk'.trimmed = (walk.trimmed \/ moves)
           /\ walk'.reloaded = (walk.reloaded \/ FALSE)
  BY <1>1, WalkNotes
<1>4. walk \in Walk => walk.reloaded \in BOOLEAN /\ walk.trimmed \in BOOLEAN
  BY DEF Walk
<1>5. walk'.phase # "idle" => walk'.reloaded = walk.reloaded
  BY <1>3, <1>4
<1>6. TimelineWalk'
  <2> SUFFICES ASSUME walk'.phase # "idle", walk'.kind = "timeline", ~walk'.trimmed, ~walk'.reloaded
               PROVE  /\ walk'.offset = Len(walk'.seen) /\ walk'.offset <= Len(timeline')
                      /\ \A i \in 1..walk'.offset : walk'.seen[i] = timeline'[i]
                      /\ \A x \in walk'.start : \E i \in 1..Len(timeline') : x = timeline'[i]
                      /\ walk'.phase = "done" /\ ~walk'.wrapped => walk'.offset >= Len(timeline')
    BY DEF TimelineWalk
  <2>1. /\ walk.offset = Len(walk.seen) /\ walk.offset <= Len(timeline)
        /\ \A i \in 1..walk.offset : walk.seen[i] = timeline[i]
        /\ \A x \in walk.start : \E i \in 1..Len(timeline) : x = timeline[i]
    BY <1>3, <1>5 DEF TimelineWalk
  <2>2. /\ Len(timeline') = Len(timeline) + n
        /\ \A i \in 1..Len(timeline) : timeline'[i] = timeline[i]
    BY <1>2, <1>3
  <2>3. Len(timeline) \in Nat /\ walk.offset \in Nat
    BY <1>3, LenProperties DEF TimelineOK, Walk
  <2>4. /\ walk'.phase = "reading" /\ walk'.offset = walk.offset /\ walk'.seen = walk.seen
        /\ walk'.start = walk.start
    BY <1>3
  <2>5. /\ walk.offset <= Len(timeline') /\ 1..walk.offset \subseteq 1..Len(timeline)
        /\ 1..Len(timeline) \subseteq 1..Len(timeline')
    BY <2>1, <2>2, <2>3
  <2> QED
    BY <2>1, <2>2, <2>4, <2>5
<1> QED
  BY <1>2, <1>3, <1>5, <1>6

\* As long as no finding is erased and first sightings stay, a reader has
\* counted no finding that it was not given.
LEMMA PlacesKeep ==
    ASSUME LedgerOK, LedgerOK', FindingsWalk, Present \subseteq Present',
           \A g \in Present : findings'[g].first = findings[g].first,
           walk'.phase # "idle" =>
                /\ walk.phase = "reading" /\ walk'.phase = "reading"
                /\ walk \in Walk /\ walk' \in Walk
                /\ walk'.kind = walk.kind /\ walk'.spec = walk.spec /\ walk'.start = walk.start
                /\ walk'.offset = walk.offset /\ walk'.seen = walk.seen
                /\ walk'.reloaded = walk.reloaded
    PROVE  FindingsWalk'
<1> SUFFICES ASSUME NEW spec \in Specs, Unfiltered(spec), ~walk'.reloaded,
                    walk'.phase # "idle", walk'.kind = "findings", walk'.spec = spec
             PROVE  /\ walk'.start \subseteq Present'
                    /\ \A g \in walk'.start :
                          \/ \E i \in 1..Len(walk'.seen) : g = walk'.seen[i]
                          \/ RankIn(Present, g, spec.order)' >= walk'.offset
                    /\ walk'.phase # "done"
  BY DEF FindingsWalk, Unfiltered, Ageless
<1>1. /\ walk.start \subseteq Present
      /\ \A g \in walk.start : \/ \E i \in 1..Len(walk.seen) : g = walk.seen[i]
                               \/ RankIn(Present, g, spec.order) >= walk.offset
  BY DEF FindingsWalk
<1>2. ASSUME NEW g \in Present
      PROVE  /\ RankIn(Present, g, spec.order) \in Nat /\ RankIn(Present, g, spec.order)' \in Nat
             /\ RankIn(Present, g, spec.order) <= RankIn(Present, g, spec.order)'
  <2>1. PICK order \in {"identity-ascending", "target-ascending", "first-seen-ascending"} : order = spec.order
    BY DEF Unfiltered
  <2>2. /\ RankIn(Present, g, order) \in Nat /\ RankIn(Present, g, order)' \in Nat
        /\ RankIn(Present, g, order) <= RankIn(Present, g, order)'
    BY RankGrows
  <2> QED
    BY <2>1, <2>2
<1>3. walk.offset \in Nat
  BY DEF Walk
<1>4. \A g \in walk.start : \/ \E i \in 1..Len(walk.seen) : g = walk.seen[i]
                           \/ RankIn(Present, g, spec.order)' >= walk.offset
  BY <1>1, <1>2, <1>3
<1> QED
  BY <1>1, <1>4

\* A change of a finding that keeps its first sighting keeps the invariant.
LEMMA ChangeKeeps ==
    ASSUME IInv, NEW f \in Ids, NEW finding \in Finding, NEW n \in Nat, NEW trims \in BOOLEAN,
           Change(f, finding, n, trims), f \in Present => finding.first = findings[f].first
    PROVE  IInv'
<1> USE DEF IInv
<1>1. /\ LedgerOK' /\ Present' = Present \cup {f}
      /\ \A g \in Present' : findings'[g] = IF g = f THEN finding ELSE findings[g]
  BY LedgerChanges
<1>2. /\ WalkOK' /\ TimelineOK' /\ TimelineWalk'
      /\ walk'.phase # "idle" =>
           /\ walk.phase = "reading" /\ walk'.phase = "reading"
           /\ walk \in Walk /\ walk' \in Walk
           /\ walk'.kind = walk.kind /\ walk'.spec = walk.spec /\ walk'.start = walk.start
           /\ walk'.offset = walk.offset /\ walk'.seen = walk.seen
           /\ walk'.changed /\ walk'.reloaded = walk.reloaded
  BY RecordKeeps DEF Change
<1>3. \A g \in Present : findings'[g].first = findings[g].first
  BY <1>1
<1>4. FindingsWalk'
  BY <1>1, <1>2, <1>3, PlacesKeep
<1>5. QuietWalk'
  BY <1>2 DEF QuietWalk
<1> QED
  BY <1>1, <1>2, <1>4, <1>5

\* A change with a finding that keeps its first sighting, whatever it records.
Recorded(f) ==
    \E finding \in Finding, n \in Nat, trims \in BOOLEAN :
        Change(f, finding, n, trims) /\ (f \in Present => finding.first = findings[f].first)

\* Every operation on a finding keeps it: none of them touches the first
\* sighting of a finding there is.
LEMMA FindingStepsKeep ==
    ASSUME IInv, NEW f \in Ids,
           \/ \E trims \in BOOLEAN : Evaluate(f, trims)
           \/ \E state \in {"superseded", "retired"} : RebaseFindingsForTarget(f, state)
           \/ Suppress(f) \/ ClearSuppression(f) \/ Acknowledge(f)
    PROVE  IInv'
<1>1. f \in Present => /\ findings[f] \in Finding
                       /\ findings[f].severity \in Severities /\ findings[f].first \in Times
                       /\ findings[f].last \in Times /\ findings[f].state \in States
  BY DEF IInv, LedgerOK, Finding
<1>2. SUFFICES Recorded(f)
  BY ChangeKeeps DEF Recorded
<1>3. ASSUME NEW severity \in Severities, NEW now \in Times, NEW state \in {"open", "suppressed"},
             NEW trims \in BOOLEAN, Create(f, severity, now, state, trims)
      PROVE  Recorded(f)
  <2> DEFINE finding == [severity |-> severity, first |-> now, last |-> now, state |-> state]
  <2>1. finding \in Finding
    BY DEF Finding, States
  <2>2. Change(f, finding, 1, trims) /\ f \notin Present
    BY <1>3 DEF Create
  <2> QED
    BY <2>1, <2>2 DEF Recorded
<1>4. ASSUME NEW severity \in Severities, NEW now \in Times, NEW evidence \in BOOLEAN,
             NEW lapses \in BOOLEAN, NEW trims \in BOOLEAN,
             Redraft(f, severity, now, evidence, lapses, trims)
      PROVE  Recorded(f)
  <2> DEFINE finding == Redrafted(f, severity, now, lapses)
             n == Noted(f, severity, evidence, lapses)
  <2>1. f \in Present /\ Change(f, finding, n, trims)
    BY <1>4 DEF Redraft
  <2>2. n \in Nat
    BY DEF Noted
  <2>3. finding \in Finding /\ finding.first = findings[f].first
    <3> DEFINE state == IF findings[f].state \in Closing \/ (lapses /\ findings[f].state = "suppressed")
                        THEN "open" ELSE findings[f].state
    <3>1. state \in States
      BY <1>1, <2>1 DEF States
    <3>2. finding = [findings[f] EXCEPT !.severity = severity, !.last = now, !.state = state]
      BY DEF Redrafted
    <3> HIDE DEF state, finding
    <3> QED
      BY <1>1, <2>1, <3>1, <3>2 DEF Finding
  <2> QED
    BY <2>1, <2>2, <2>3 DEF Recorded
<1>5. ASSUME f \in Present, NEW state \in States, NEW n \in Nat, NEW trims \in BOOLEAN,
             Change(f, [findings[f] EXCEPT !.state = state], n, trims)
      PROVE  Recorded(f)
  <2> DEFINE finding == [findings[f] EXCEPT !.state = state]
  <2>1. finding \in Finding /\ finding.first = findings[f].first
    BY <1>1, <1>5 DEF Finding
  <2> QED
    BY <1>5, <2>1 DEF Recorded
<1>6. Closing \subseteq States /\ {"open", "suppressed", "resolved", "superseded", "retired"} \subseteq States
  BY DEF States, Closing
<1>7. ASSUME NEW state \in {"resolved", "superseded"}, NEW trims \in BOOLEAN, Close(f, state, trims)
      PROVE  Recorded(f)
  BY <1>5, <1>6, <1>7 DEF Close
<1>8. ASSUME NEW state \in {"superseded", "retired"}, RebaseFindingsForTarget(f, state) PROVE Recorded(f)
  BY <1>5, <1>6, <1>8 DEF RebaseFindingsForTarget
<1>9. CASE Suppress(f)
  <2> DEFINE state == IF findings[f].state \in Closing THEN findings[f].state ELSE "suppressed"
  <2>1. f \in Present /\ Change(f, [findings[f] EXCEPT !.state = state], 1, FALSE)
    BY <1>9 DEF Suppress
  <2>2. state \in States
    BY <1>1, <1>6, <2>1
  <2> HIDE DEF state
  <2> QED
    BY <1>5, <2>1, <2>2
<1>10. CASE ClearSuppression(f)
  <2> DEFINE state == IF findings[f].state = "suppressed" THEN "open" ELSE findings[f].state
  <2>1. f \in Present /\ Change(f, [findings[f] EXCEPT !.state = state], 1, FALSE)
    BY <1>10 DEF ClearSuppression
  <2>2. state \in States
    BY <1>1, <1>6, <2>1
  <2> HIDE DEF state
  <2> QED
    BY <1>5, <2>1, <2>2
<1>11. CASE Acknowledge(f)
  <2>1. f \in Present /\ Change(f, findings[f], 1, FALSE)
    BY <1>11 DEF Acknowledge
  <2> QED
    BY <1>1, <2>1 DEF Recorded
<1> QED
  BY <1>3, <1>4, <1>7, <1>8, <1>9, <1>10, <1>11 DEF Evaluate

\* So does an event that is no finding's.
LEMMA EventKeeps == ASSUME IInv, RecordEvent \/ CommitIntent PROVE IInv'
<1> USE DEF IInv
<1>1. UNCHANGED findings
  BY DEF RecordEvent, CommitIntent
<1>2. /\ WalkOK' /\ TimelineOK' /\ TimelineWalk'
      /\ walk'.phase # "idle" =>
           /\ walk.phase = "reading" /\ walk'.phase = "reading"
           /\ walk \in Walk /\ walk' \in Walk
           /\ walk'.kind = walk.kind /\ walk'.spec = walk.spec /\ walk'.start = walk.start
           /\ walk'.offset = walk.offset /\ walk'.seen = walk.seen
           /\ walk'.changed /\ walk'.reloaded = walk.reloaded
  BY RecordKeeps DEF RecordEvent, CommitIntent
<1>3. LedgerOK' /\ Present' = Present
  BY <1>1 DEF LedgerOK, Present
<1>4. FindingsWalk'
  BY <1>1, <1>2, <1>3, PlacesKeep
<1>5. QuietWalk'
  BY <1>2 DEF QuietWalk
<1> QED
  BY <1>2, <1>3, <1>4, <1>5

\* A ledger in a file is sound, and stays so when it is decoded.
LEMMA LoadedIsSound ==
    ASSUME NEW saved \in Saved, NEW number \in Continued(saved)
    PROVE  /\ IsFiniteSet(DOMAIN saved.findings) /\ DOMAIN saved.findings \subseteq Ids
           /\ \A f \in DOMAIN saved.findings : saved.findings[f] \in Finding
           /\ number \in Nat /\ saved.timeline \in Seq(Nat) /\ InSequence(saved.timeline, number)
<1> DEFINE live == {f \in DOMAIN saved.findings : saved.findings[f].state \notin Closing}
<1>1. /\ IsFiniteSet(DOMAIN saved.findings) /\ DOMAIN saved.findings \subseteq Ids
      /\ \A f \in DOMAIN saved.findings : saved.findings[f] \in Finding
      /\ saved.sequence \in Nat /\ saved.timeline \in Seq(Nat)
      /\ InSequence(saved.timeline, saved.sequence)
  BY QueryAssumption
<1>2. Cardinality(live) \in Nat
  BY <1>1, FS_Subset, FS_CardinalityType
<1>3. PICK n \in 0..Cardinality(live) : number = saved.sequence + n
  BY DEF Continued
<1> HIDE DEF live
<1>4. number \in Nat /\ number >= saved.sequence
  BY <1>1, <1>2, <1>3
<1>5. \A i \in 1..Len(saved.timeline) : saved.timeline[i] \in Nat
  BY <1>1, ElementOfSeq, LenProperties
<1>6. InSequence(saved.timeline, number)
  BY <1>1, <1>4, <1>5 DEF InSequence
<1> QED
  BY <1>1, <1>4, <1>6

\* A loaded file ends what is known of a reader, and of nothing else.
LEMMA LoadKeeps == ASSUME IInv, NEW saved \in Saved, Load(saved) PROVE IInv'
<1> USE DEF IInv
<1>1. /\ findings' = saved.findings /\ timeline' = saved.timeline /\ sequence' \in Continued(saved)
      /\ Interrupted(FALSE, TRUE)
  BY DEF Load
<1>2. PICK number \in Continued(saved) : sequence' = number
  BY <1>1
<1>3. LedgerOK' /\ TimelineOK'
  BY <1>1, <1>2, LoadedIsSound DEF LedgerOK, TimelineOK, Present
<1>4. /\ WalkOK'
      /\ walk'.phase # "idle" => walk'.changed /\ walk'.reloaded
  BY <1>1, WalkNotes
<1> QED
  BY <1>3, <1>4 DEF TimelineWalk, FindingsWalk, QuietWalk

\* A reader begins with nothing, before everything.
LEMMA BeginKeeps ==
    ASSUME IInv, NEW kind \in {"findings", "timeline"}, NEW spec \in Specs \cup {NoSpec},
           kind = "findings" => spec \in Specs, BeginWalk(kind, spec)
    PROVE  IInv'
<1> USE DEF IInv
<1> DEFINE start == IF kind = "findings" THEN Present ELSE ToSet(timeline)
<1>1. UNCHANGED <<findings, timeline, sequence>>
  BY DEF BeginWalk, ledger
<1>2. LedgerOK' /\ TimelineOK'
  BY <1>1 DEF LedgerOK, TimelineOK, Present
<1>3. Len(timeline) \in Nat /\ \A x \in ToSet(timeline) : \E i \in 1..Len(timeline) : x = timeline[i]
  BY LenProperties DEF TimelineOK, ToSet
<1>4. start \in SUBSET Nat
  <2>1. ToSet(timeline) \subseteq Nat
    BY <1>3, ElementOfSeq DEF TimelineOK
  <2>2. Present \subseteq Nat
    BY QueryAssumption DEF LedgerOK
  <2> QED
    BY <2>1, <2>2
<1>5. walk' = [phase |-> "reading", kind |-> kind, spec |-> spec,
               offset |-> 0, seen |-> <<>>, wrapped |-> FALSE, changed |-> FALSE,
               trimmed |-> FALSE, reloaded |-> FALSE, start |-> start]
  BY DEF BeginWalk
<1>6. (kind = "findings" => start = Present) /\ (kind = "timeline" => start = ToSet(timeline))
  OBVIOUS
<1> HIDE DEF start
<1>7. /\ walk' \in Walk /\ walk'.phase = "reading" /\ walk'.kind = kind /\ walk'.spec = spec
      /\ walk'.offset = 0 /\ walk'.seen = <<>> /\ walk'.start = start
  BY <1>4, <1>5 DEF Walk
<1>8. Len(walk'.seen) = 0
  BY <1>7
<1>9. WalkOK'
  BY <1>7 DEF WalkOK
<1>10. TimelineWalk'
  BY <1>1, <1>3, <1>6, <1>7, <1>8 DEF TimelineWalk
<1>11. FindingsWalk'
  <2> SUFFICES ASSUME NEW s \in Specs, Unfiltered(s), walk'.kind = "findings", walk'.spec = s
               PROVE  /\ walk'.start \subseteq Present'
                      /\ \A f \in walk'.start : RankIn(Present, f, s.order)' >= walk'.offset
                      /\ walk'.phase # "done"
    BY DEF FindingsWalk, Unfiltered, Ageless
  <2>1. Present' = Present /\ walk'.start = Present
    BY <1>1, <1>6, <1>7 DEF Present
  <2>2. ASSUME NEW f \in Present PROVE RankIn(Present, f, s.order)' \in Nat
    <3> DEFINE before == {g \in Present' : OrderBefore(g, f, s.order)'}
    <3>1. IsFiniteSet(before)
      BY <1>2, FS_Subset DEF LedgerOK
    <3>2. RankIn(Present, f, s.order)' = Cardinality(before)
      BY DEF RankIn
    <3> QED
      BY <3>1, <3>2, FS_CardinalityType
  <2> QED
    BY <1>7, <2>1, <2>2
<1>12. QuietWalk'
  <2> SUFFICES ASSUME NEW s \in Specs, NEW now \in Times
               PROVE  /\ walk'.offset = Len(walk'.seen) /\ walk'.offset <= Cardinality(Matched(s, now)')
                      /\ 1..walk'.offset = {}
                      /\ walk'.phase # "done"
    BY DEF QuietWalk, Ageless
  <2>1. Matched(s, now)' \subseteq Present'
    BY DEF Matched
  <2>2. Cardinality(Matched(s, now)') \in Nat
    BY <1>2, <2>1, FS_Subset, FS_CardinalityType DEF LedgerOK
  <2> QED
    BY <1>7, <1>8, <2>2
<1> QED
  BY <1>2, <1>9, <1>10, <1>11, <1>12

\* A page of the timeline continues the beginning that came back so far.
LEMMA TimelinePageKeeps == ASSUME IInv, ExecuteTimelineQuery PROVE IInv'
<1> USE DEF IInv
<1>1. /\ walk.phase = "reading" /\ walk.kind = "timeline" /\ \E limit \in Limits : Receive(timeline, limit)
      /\ UNCHANGED <<findings, timeline, sequence>>
  BY DEF ExecuteTimelineQuery, ledger
<1>2. walk \in Walk
  BY <1>1 DEF WalkOK, NoWalk
<1>3. timeline \in Seq(Nat) /\ Len(timeline) \in Nat
  BY LenProperties DEF TimelineOK
<1>4. /\ walk' \in Walk
      /\ walk'.kind = walk.kind /\ walk'.spec = walk.spec /\ walk'.start = walk.start
      /\ walk'.changed = walk.changed /\ walk'.trimmed = walk.trimmed /\ walk'.reloaded = walk.reloaded
      /\ \E n \in Nat :
           /\ walk'.offset = walk.offset + n /\ Len(walk'.seen) = Len(walk.seen) + n
           /\ \A i \in 1..Len(walk.seen) : walk'.seen[i] = walk.seen[i]
           /\ \A i \in 1..n : walk'.seen[Len(walk.seen) + i] = timeline[walk.offset + i]
           /\ n # 0 => walk.offset + n <= Len(timeline)
      /\ walk'.phase = "done" /\ ~walk'.wrapped => walk'.offset >= Len(timeline)
  BY <1>1, <1>2, <1>3, Received
<1>5. LedgerOK' /\ TimelineOK'
  BY <1>1 DEF LedgerOK, TimelineOK, Present
<1>6. WalkOK' /\ FindingsWalk' /\ QuietWalk'
  BY <1>1, <1>4 DEF WalkOK, FindingsWalk, QuietWalk
<1>7. TimelineWalk'
  <2> SUFFICES ASSUME ~walk'.trimmed, ~walk'.reloaded
               PROVE  /\ walk'.offset = Len(walk'.seen) /\ walk'.offset <= Len(timeline)
                      /\ \A i \in 1..walk'.offset : walk'.seen[i] = timeline[i]
                      /\ \A x \in walk'.start : \E i \in 1..Len(timeline) : x = timeline[i]
                      /\ walk'.phase = "done" /\ ~walk'.wrapped => walk'.offset >= Len(timeline)
    BY <1>1 DEF TimelineWalk
  <2>1. /\ walk.offset = Len(walk.seen) /\ walk.offset <= Len(timeline)
        /\ \A i \in 1..walk.offset : walk.seen[i] = timeline[i]
        /\ \A x \in walk.start : \E i \in 1..Len(timeline) : x = timeline[i]
    BY <1>1, <1>4 DEF TimelineWalk
  <2>2. PICK n \in Nat :
           /\ walk'.offset = walk.offset + n /\ Len(walk'.seen) = Len(walk.seen) + n
           /\ \A i \in 1..Len(walk.seen) : walk'.seen[i] = walk.seen[i]
           /\ \A i \in 1..n : walk'.seen[Len(walk.seen) + i] = timeline[walk.offset + i]
           /\ n # 0 => walk.offset + n <= Len(timeline)
    BY <1>4
  <2>3. walk.offset \in Nat
    BY <1>2 DEF Walk
  <2>4. walk'.offset = Len(walk'.seen) /\ walk'.offset <= Len(timeline)
    BY <1>3, <2>1, <2>2, <2>3
  <2>5. ASSUME NEW i \in 1..walk'.offset PROVE walk'.seen[i] = timeline[i]
    <3>1. CASE i <= walk.offset
      <4>1. i \in 1..walk.offset
        BY <2>2, <2>3, <3>1
      <4> QED
        BY <2>1, <2>2, <4>1
    <3>2. CASE i > walk.offset
      <4>1. i - walk.offset \in 1..n /\ walk.offset + (i - walk.offset) = i
        BY <2>2, <2>3, <3>2
      <4>2. walk'.seen[walk.offset + (i - walk.offset)] = timeline[walk.offset + (i - walk.offset)]
        BY <2>1, <2>2, <4>1
      <4> QED
        BY <4>1, <4>2
    <3>3. i <= walk.offset \/ i > walk.offset
      BY <2>2, <2>3
    <3> QED
      BY <3>1, <3>2, <3>3
  <2> QED
    BY <1>4, <2>1, <2>4, <2>5
<1> QED
  BY <1>5, <1>6, <1>7

\* A page of findings continues the beginning of the sorted result, and passes
\* over none that the reader has not counted.
LEMMA FindingsPageKeeps == ASSUME IInv, NEW now \in Times, ExecuteQuery(now) PROVE IInv'
<1> USE DEF IInv
<1>1. /\ walk.phase = "reading" /\ walk.kind = "findings"
      /\ UNCHANGED <<findings, timeline, sequence>>
  BY DEF ExecuteQuery, ledger
<1>2. walk \in Walk /\ walk.spec \in Specs
  BY <1>1 DEF WalkOK, NoWalk
<1>3. PICK spec \in Specs : spec = walk.spec
  BY <1>2
<1>4. spec \in QuerySpec /\ spec.order \in Orders
  BY QueryAssumption DEF QuerySpec
<1> DEFINE M == Matched(spec, now)
<1>5. M \in SUBSET Present
  BY DEF Matched
<1>6. PICK all \in Sorted(M, spec.order), limit \in Limits : Receive(all, limit)
  BY <1>3 DEF ExecuteQuery
<1> HIDE DEF M
<1>7. /\ all \in Seq(Nat) /\ Len(all) = Cardinality(M) /\ Cardinality(M) \in Nat
      /\ \A f \in M : \E i \in 1..Len(all) : all[i] = f
      /\ \A i \in 1..Len(all) : all[i] \in M /\ RankIn(M, all[i], spec.order) = i - 1
  BY <1>4, <1>5, <1>6, SortedPlaces
<1>8. /\ walk' \in Walk
      /\ walk'.kind = walk.kind /\ walk'.spec = walk.spec /\ walk'.start = walk.start
      /\ walk'.changed = walk.changed /\ walk'.trimmed = walk.trimmed /\ walk'.reloaded = walk.reloaded
      /\ \E n \in Nat :
           /\ walk'.offset = walk.offset + n /\ Len(walk'.seen) = Len(walk.seen) + n
           /\ \A i \in 1..Len(walk.seen) : walk'.seen[i] = walk.seen[i]
           /\ \A i \in 1..n : walk'.seen[Len(walk.seen) + i] = all[walk.offset + i]
           /\ n # 0 => walk.offset + n <= Len(all)
      /\ walk'.phase = "done" /\ ~walk'.wrapped => walk'.offset >= Len(all)
  BY <1>1, <1>2, <1>6, <1>7, Received
<1>9. PICK n \in Nat :
           /\ walk'.offset = walk.offset + n /\ Len(walk'.seen) = Len(walk.seen) + n
           /\ \A i \in 1..Len(walk.seen) : walk'.seen[i] = walk.seen[i]
           /\ \A i \in 1..n : walk'.seen[Len(walk.seen) + i] = all[walk.offset + i]
           /\ n # 0 => walk.offset + n <= Len(all)
  BY <1>8
<1>10. walk.offset \in Nat /\ Len(walk.seen) \in Nat
  BY <1>2, LenProperties DEF Walk
<1>11. LedgerOK' /\ TimelineOK'
  BY <1>1 DEF LedgerOK, TimelineOK, Present
<1>12. WalkOK' /\ TimelineWalk'
  BY <1>1, <1>2, <1>8 DEF WalkOK, TimelineWalk
<1>13. /\ Present' = Present /\ \A s, t : Matched(s, t)' = Matched(s, t)
       /\ \A f, order : RankIn(Present, f, order)' = RankIn(Present, f, order)
       /\ \A s, t, f, order : RankIn(Matched(s, t), f, order)' = RankIn(Matched(s, t), f, order)
  BY <1>1, UnchangedFindings
<1>14. ASSUME Unfiltered(spec), ~walk'.reloaded
       PROVE  /\ walk'.start \subseteq Present
              /\ \A f \in walk'.start : \/ \E i \in 1..Len(walk'.seen) : f = walk'.seen[i]
                                        \/ RankIn(Present, f, spec.order) >= walk'.offset
              /\ walk'.phase = "done" /\ ~walk'.wrapped => walk'.offset >= Cardinality(Present)
  <2>1. M = Present
    BY <1>14, EverythingMatches DEF M
  <2>2. /\ walk.start \subseteq Present
        /\ \A f \in walk.start : \/ \E i \in 1..Len(walk.seen) : f = walk.seen[i]
                                 \/ RankIn(Present, f, spec.order) >= walk.offset
    BY <1>1, <1>3, <1>8, <1>14 DEF FindingsWalk
  <2>3. ASSUME NEW f \in walk.start
        PROVE  \/ \E i \in 1..Len(walk'.seen) : f = walk'.seen[i]
               \/ RankIn(Present, f, spec.order) >= walk'.offset
    <3>1. CASE \E i \in 1..Len(walk.seen) : f = walk.seen[i]
      <4>1. PICK i \in 1..Len(walk.seen) : f = walk.seen[i]
        BY <3>1
      <4>2. i \in 1..Len(walk'.seen) /\ f = walk'.seen[i]
        BY <1>9, <1>10, <4>1
      <4> QED
        BY <4>2
    <3>2. CASE RankIn(Present, f, spec.order) >= walk.offset
      <4>1. PICK i \in 1..Len(all) : all[i] = f
        BY <1>7, <2>1, <2>2
      <4>2. i \in Nat /\ RankIn(Present, f, spec.order) = i - 1 /\ i - 1 >= walk.offset
        BY <1>7, <2>1, <3>2, <4>1
      <4>3. CASE i <= walk.offset + n
        <5>1. PICK k \in 1..n : walk.offset + k = i
          <6>1. i - walk.offset \in 1..n /\ walk.offset + (i - walk.offset) = i
            BY <1>10, <4>2, <4>3
          <6> QED
            BY <6>1
        <5>2. Len(walk'.seen) = Len(walk.seen) + n
          BY <1>9
        <5>3. Len(walk.seen) + k \in 1..Len(walk'.seen)
          BY <1>10, <5>2
        <5>4. walk'.seen[Len(walk.seen) + k] = f
          BY <1>9, <4>1, <5>1
        <5> QED
          BY <5>3, <5>4
      <4>4. CASE ~(i <= walk.offset + n)
        BY <1>9, <1>10, <4>2, <4>4
      <4> QED
        BY <4>3, <4>4
    <3> QED
      BY <2>2, <3>1, <3>2
  <2> QED
    BY <1>7, <1>8, <2>1, <2>2, <2>3
<1>15. FindingsWalk'
  <2> SUFFICES ASSUME NEW s \in Specs, walk'.spec = s, Unfiltered(s), ~walk'.reloaded
               PROVE  /\ walk'.start \subseteq Present'
                      /\ \A f \in walk'.start : \/ \E i \in 1..Len(walk'.seen) : f = walk'.seen[i]
                                                \/ RankIn(Present, f, s.order)' >= walk'.offset
                      /\ walk'.phase = "done" /\ ~walk'.wrapped => walk'.offset >= Cardinality(Present')
    BY DEF FindingsWalk, Unfiltered, Ageless
  <2>1. s = spec
    BY <1>3, <1>8
  <2>2. \A f : RankIn(Present, f, s.order)' = RankIn(Present, f, spec.order)
    BY <1>13, <2>1
  <2> QED
    BY <1>13, <1>14, <2>1, <2>2
<1>16. ASSUME ~walk'.changed, Ageless(spec)
       PROVE  /\ walk'.offset = Len(walk'.seen) /\ walk'.offset <= Cardinality(M)
              /\ \A i \in 1..walk'.offset :
                    walk'.seen[i] \in M /\ RankIn(M, walk'.seen[i], spec.order) = i - 1
              /\ walk'.phase = "done" /\ ~walk'.wrapped => walk'.offset >= Cardinality(M)
  <2>1. /\ walk.offset = Len(walk.seen) /\ walk.offset <= Cardinality(M)
        /\ \A i \in 1..walk.offset :
              walk.seen[i] \in M /\ RankIn(M, walk.seen[i], spec.order) = i - 1
    BY <1>1, <1>3, <1>8, <1>16 DEF QuietWalk, M
  <2>2. walk'.offset = Len(walk'.seen) /\ walk'.offset <= Cardinality(M)
    BY <1>7, <1>9, <1>10, <2>1
  <2>3. ASSUME NEW i \in 1..walk'.offset
        PROVE  walk'.seen[i] \in M /\ RankIn(M, walk'.seen[i], spec.order) = i - 1
    <3>1. CASE i <= walk.offset
      <4>1. i \in 1..walk.offset
        BY <1>9, <1>10, <3>1
      <4>2. walk'.seen[i] = walk.seen[i]
        BY <1>9, <2>1, <4>1
      <4> QED
        BY <2>1, <4>1, <4>2
    <3>2. CASE i > walk.offset
      <4>1. i - walk.offset \in 1..n /\ walk.offset + (i - walk.offset) = i
        BY <1>9, <1>10, <3>2
      <4>2. walk'.seen[walk.offset + (i - walk.offset)] = all[walk.offset + (i - walk.offset)]
        BY <1>9, <2>1, <4>1
      <4>3. walk'.seen[i] = all[i]
        BY <4>1, <4>2
      <4>4. i \in 1..Len(all)
        BY <1>7, <1>10, <2>2
      <4> QED
        BY <1>7, <4>3, <4>4
    <3>3. i <= walk.offset \/ i > walk.offset
      BY <1>9, <1>10
    <3> QED
      BY <3>1, <3>2, <3>3
  <2> QED
    BY <1>7, <1>8, <2>2, <2>3
<1>17. QuietWalk'
  <2> SUFFICES ASSUME NEW s \in Specs, NEW t \in Times, walk'.spec = s, ~walk'.changed, Ageless(s)
               PROVE  /\ walk'.offset = Len(walk'.seen) /\ walk'.offset <= Cardinality(Matched(s, t)')
                      /\ \A i \in 1..walk'.offset :
                            /\ walk'.seen[i] \in Matched(s, t)'
                            /\ RankIn(Matched(s, t), walk.seen[i], s.order)' = i - 1
                      /\ walk'.phase = "done" /\ ~walk'.wrapped =>
                            walk'.offset >= Cardinality(Matched(s, t)')
    BY DEF QuietWalk, Ageless
  <2>1. s = spec /\ M = Matched(s, t)
    BY <1>3, <1>8, ClockDoesNotMatter DEF M
  <2>2. Matched(s, t)' = M
    BY <1>13, <2>1
  <2>3. \A f : RankIn(Matched(s, t), f, s.order)' = RankIn(M, f, spec.order)
    BY <1>13, <2>1
  <2>4. \A i : RankIn(Matched(s, t), walk.seen[i], s.order)' = RankIn(M, walk'.seen[i], spec.order)
    BY <2>3
  <2> QED
    BY <1>16, <2>1, <2>2, <2>4
<1> QED
  BY <1>11, <1>12, <1>15, <1>17

-----------------------------------------------------------------------------
(* The theorems *)

\* The invariant holds before anything is read, on an empty ledger and on any
\* that was loaded.
LEMMA InitHolds == Init => IInv
<1> SUFFICES ASSUME Init PROVE IInv
  OBVIOUS
<1>1. walk = NoWalk
  BY DEF Init
<1>2. LedgerOK /\ TimelineOK
  <2>1. CASE findings = [f \in {} |-> 0] /\ timeline = <<>> /\ sequence = 0
    <3>1. Present = {}
      BY <2>1 DEF Present
    <3> QED
      BY <2>1, <3>1, FS_EmptySet DEF LedgerOK, TimelineOK, InSequence
  <2>2. ASSUME NEW saved \in Saved, findings = saved.findings, timeline = saved.timeline,
               sequence \in Continued(saved)
        PROVE  LedgerOK /\ TimelineOK
    <3>1. PICK number \in Continued(saved) : sequence = number
      BY <2>2
    <3> QED
      BY <2>2, <3>1, LoadedIsSound DEF LedgerOK, TimelineOK, Present
  <2> QED
    BY <2>1, <2>2 DEF Init
<1>3. WalkOK /\ walk.phase = "idle"
  BY <1>1 DEF WalkOK, NoWalk
<1> QED
  BY <1>2, <1>3 DEF IInv, TimelineWalk, FindingsWalk, QuietWalk

\* Every step keeps the invariant.
LEMMA NextKeeps == ASSUME IInv, [Next]_vars PROVE IInv'
<1>1. ASSUME NEW f \in Ids, NEW trims \in BOOLEAN, Evaluate(f, trims) PROVE IInv'
  BY <1>1, FindingStepsKeep
<1>2. ASSUME NEW f \in Ids, NEW state \in {"superseded", "retired"}, RebaseFindingsForTarget(f, state)
      PROVE  IInv'
  BY <1>2, FindingStepsKeep
<1>3. ASSUME NEW f \in Ids, Suppress(f) \/ ClearSuppression(f) \/ Acknowledge(f) PROVE IInv'
  BY <1>3, FindingStepsKeep
<1>4. CASE RecordEvent \/ CommitIntent
  BY <1>4, EventKeeps
<1>5. ASSUME NEW saved \in Saved, Load(saved) PROVE IInv'
  BY <1>5, LoadKeeps
<1>6. ASSUME NEW spec \in Specs, BeginWalk("findings", spec) PROVE IInv'
  BY <1>6, BeginKeeps
<1>7. CASE BeginWalk("timeline", NoSpec)
  BY <1>7, BeginKeeps
<1>8. ASSUME NEW now \in Times, ExecuteQuery(now) PROVE IInv'
  BY <1>8, FindingsPageKeeps
<1>9. CASE ExecuteTimelineQuery
  BY <1>9, TimelinePageKeeps
<1>10. CASE UNCHANGED vars
  <2>1. UNCHANGED <<findings, timeline, sequence, walk>>
    BY <1>10 DEF vars
  <2>2. LedgerOK' /\ WalkOK' /\ TimelineOK' /\ TimelineWalk'
    BY <2>1 DEF IInv, LedgerOK, WalkOK, TimelineOK, TimelineWalk, Present
  <2>3. FindingsWalk'
    BY <2>1, UnchangedFindings DEF IInv, FindingsWalk, Unfiltered, Ageless
  <2>4. QuietWalk'
    BY <2>1, UnchangedFindings DEF IInv, QuietWalk, Ageless
  <2> QED
    BY <2>2, <2>3, <2>4 DEF IInv
<1> QED
  BY <1>1, <1>2, <1>3, <1>4, <1>5, <1>6, <1>7, <1>8, <1>9, <1>10 DEF Next

\* Pages and places agree, whatever the reader asks for and whatever changes
\* between two pages, as long as no file is loaded between them; the ledger and
\* the timeline are sound after a load as well (query.cpp:134-287,
\* engine.cpp:609-642).
THEOREM QueryInvariant == Spec => []IInv
<1>1. IInv /\ [Next]_vars => IInv'
  BY NextKeeps
<1> QED
  BY InitHolds, <1>1, PTL DEF Spec

\* A report that fits its budget and a query with the same target and flags
\* name the same findings, for any findings and budget (CollectReportInputs in
\* engine.cpp against Matches in query.cpp).
THEOREM ReportsAgree == Spec => []ReportAgreesWithQuery
<1>1. IInv => ReportAgreesWithQuery
  BY ReportAgrees DEF IInv
<1> QED
  BY <1>1, QueryInvariant, PTL

\* A reader of the timeline is given entries once and in order, and at the end
\* every entry there was when it began, for any page limits, any bound of the
\* timeline and any file the observatory started from, unless entries were
\* trimmed or a file was loaded while it read (ExecuteTimelineQuery).
THEOREM TimelineIsComplete == Spec => []TimelineComplete
<1>1. IInv => TimelineComplete
  <2> SUFFICES ASSUME IInv, walk.phase # "idle", walk.kind = "timeline", ~walk.trimmed, ~walk.reloaded
               PROVE  /\ ToSet(walk.seen) \subseteq ToSet(timeline)
                      /\ \A i, j \in 1..Len(walk.seen) : i < j => walk.seen[i] < walk.seen[j]
                      /\ Done("timeline") => walk.start \subseteq ToSet(walk.seen)
    BY DEF TimelineComplete
  <2>1. walk \in Walk
    BY DEF IInv, WalkOK, NoWalk
  <2>2. /\ walk.offset = Len(walk.seen) /\ walk.offset <= Len(timeline)
        /\ \A i \in 1..walk.offset : walk.seen[i] = timeline[i]
        /\ \A x \in walk.start : \E i \in 1..Len(timeline) : x = timeline[i]
        /\ Done("timeline") => walk.offset >= Len(timeline)
    BY DEF IInv, TimelineWalk, Done
  <2>3. /\ Len(timeline) \in Nat /\ DOMAIN timeline = 1..Len(timeline)
        /\ \A i, j \in 1..Len(timeline) : i < j => timeline[i] < timeline[j]
    BY LenProperties DEF IInv, TimelineOK, InSequence
  <2>4. walk.seen \in Seq(Nat) /\ DOMAIN walk.seen = 1..Len(walk.seen) /\ Len(walk.seen) \in Nat
    BY <2>1, LenProperties DEF Walk
  <2>5. \A i \in 1..Len(walk.seen) : i \in 1..Len(timeline) /\ walk.seen[i] = timeline[i]
    BY <2>2, <2>3, <2>4
  <2>6. ToSet(walk.seen) \subseteq ToSet(timeline)
    BY <2>3, <2>4, <2>5 DEF ToSet
  <2>7. Done("timeline") => walk.start \subseteq ToSet(walk.seen)
    <3> SUFFICES ASSUME Done("timeline"), NEW x \in walk.start PROVE x \in ToSet(walk.seen)
      OBVIOUS
    <3>1. PICK i \in 1..Len(timeline) : x = timeline[i]
      BY <2>2
    <3>2. i \in 1..Len(walk.seen)
      BY <2>2, <2>3, <2>4
    <3> QED
      BY <2>4, <2>5, <3>1, <3>2 DEF ToSet
  <2> QED
    BY <2>3, <2>5, <2>6, <2>7
<1> QED
  BY <1>1, QueryInvariant, PTL

\* A reader that filters nothing out, in an order no change can disturb, is
\* given every finding there was when it began, for any number of findings, any
\* page limits and any evaluations, commits and suppressions between two pages,
\* unless a file was loaded between them (ExecuteQuery, OrderBefore).
THEOREM NoFindingIsMissed == Spec => []NothingMissed
<1>1. IInv => NothingMissed
  <2> SUFFICES ASSUME IInv, Done("findings"), ~walk.reloaded, Unfiltered(walk.spec)
               PROVE  walk.start \subseteq ToSet(walk.seen)
    BY DEF NothingMissed, Unfiltered, Ageless
  <2>1. walk \in Walk /\ walk.spec \in Specs
    BY DEF IInv, WalkOK, Done, NoWalk
  <2>2. /\ walk.start \subseteq Present
        /\ \A f \in walk.start : \/ \E i \in 1..Len(walk.seen) : f = walk.seen[i]
                                 \/ RankIn(Present, f, walk.spec.order) >= walk.offset
        /\ walk.offset >= Cardinality(Present)
    BY <2>1 DEF IInv, FindingsWalk, Done
  <2>3. walk.seen \in Seq(Nat) /\ DOMAIN walk.seen = 1..Len(walk.seen) /\ walk.offset \in Nat
    BY <2>1, LenProperties DEF Walk
  <2>4. ASSUME NEW f \in walk.start PROVE \E i \in 1..Len(walk.seen) : f = walk.seen[i]
    <3> DEFINE before == {g \in Present : OrderBefore(g, f, walk.spec.order)}
    <3>1. LedgerOK /\ IsFiniteSet(Present) /\ f \in Present /\ walk.spec.order \in Orders
      BY <2>1, <2>2, QueryAssumption DEF IInv, LedgerOK, QuerySpec
    <3>2. before \in SUBSET Present /\ f \notin before
      BY <3>1, OrderIsTotal
    <3>3. RankIn(Present, f, walk.spec.order) = Cardinality(before)
      BY DEF RankIn
    <3> HIDE DEF before
    <3>4. /\ Cardinality(before) <= Cardinality(Present) /\ Cardinality(before) # Cardinality(Present)
          /\ Cardinality(before) \in Nat /\ Cardinality(Present) \in Nat
      BY <3>1, <3>2, FS_Subset, FS_CardinalityType
    <3>5. ~(RankIn(Present, f, walk.spec.order) >= walk.offset)
      BY <2>2, <2>3, <3>3, <3>4
    <3> QED
      BY <2>2, <3>5
  <2> QED
    BY <2>3, <2>4 DEF ToSet
<1> QED
  BY <1>1, QueryInvariant, PTL

\* Over a ledger that does not change no page repeats a finding, and the pages
\* put together are the whole result, for any order, filter and page limit: what
\* rests on every order being total (OrderBefore, ExecuteQuery).
THEOREM PagesMakeTheResult == Spec => []PagesAddUp
<1>1. IInv => PagesAddUp
  <2> SUFFICES ASSUME IInv, walk.phase # "idle", walk.kind = "findings", ~walk.changed,
                      Ageless(walk.spec), NEW now \in Times
               PROVE  /\ ToSet(walk.seen) \subseteq Matched(walk.spec, now)
                      /\ IsInjective(walk.seen)
                      /\ Done("findings") => ToSet(walk.seen) = Matched(walk.spec, now)
    BY DEF PagesAddUp, Ageless
  <2>1. walk \in Walk /\ walk.spec \in Specs
    BY DEF IInv, WalkOK, NoWalk
  <2>2. PICK spec \in Specs : spec = walk.spec
    BY <2>1
  <2> DEFINE M == Matched(spec, now)
             n == walk.offset
  <2>3. /\ n = Len(walk.seen) /\ n <= Cardinality(M) /\ (Done("findings") => n >= Cardinality(M))
        /\ \A i \in 1..n : walk.seen[i] \in M /\ RankIn(M, walk.seen[i], spec.order) = i - 1
    BY <2>2 DEF IInv, QuietWalk, Done
  <2>4. walk.seen \in Seq(Nat) /\ DOMAIN walk.seen = 1..Len(walk.seen) /\ n \in Nat
    BY <2>1, LenProperties DEF Walk
  <2>5. M \in SUBSET Present
    BY DEF Matched
  <2>6. Matched(walk.spec, now) = M
    BY <2>2
  <2> HIDE DEF M, n
  <2>7. IsFiniteSet(M) /\ Cardinality(M) \in Nat
    BY <2>5, FS_Subset, FS_CardinalityType DEF IInv, LedgerOK
  <2>8. IsInjective(walk.seen)
    <3>1. ASSUME NEW i \in 1..n, NEW j \in 1..n, walk.seen[i] = walk.seen[j] PROVE i = j
      <4>1. i - 1 = j - 1
        BY <2>3, <3>1
      <4> QED
        BY <2>4, <4>1
    <3> QED
      BY <2>3, <2>4, <3>1 DEF IsInjective
  <2>9. walk.seen \in Injection(1..n, M)
    <3>1. walk.seen = [i \in 1..n |-> walk.seen[i]]
      BY <2>3, <2>4
    <3>2. walk.seen \in [1..n -> M]
      BY <2>3, <3>1
    <3> QED
      BY <2>8, <3>2 DEF Injection
  <2>10. ToSet(walk.seen) \subseteq M
    BY <2>3, <2>4 DEF ToSet
  <2>11. ASSUME Done("findings") PROVE ToSet(walk.seen) = M
    <3>1. n = Cardinality(M)
      BY <2>3, <2>4, <2>7, <2>11
    <3>2. Cardinality(1..n) = n
      BY <2>4, FS_Interval
    <3>3. walk.seen \in Surjection(1..n, M)
      BY <2>7, <2>9, <3>1, <3>2, FS_Injection
    <3>4. \A f \in M : \E i \in 1..n : walk.seen[i] = f
      BY <3>3 DEF Surjection
    <3>5. DOMAIN walk.seen = 1..n
      BY <2>3, <2>4
    <3>6. M \subseteq ToSet(walk.seen)
      BY <3>4, <3>5 DEF ToSet
    <3> QED
      BY <2>10, <3>6
  <2> QED
    BY <2>6, <2>8, <2>10, <2>11
<1> QED
  BY <1>1, QueryInvariant, PTL
=============================================================================
