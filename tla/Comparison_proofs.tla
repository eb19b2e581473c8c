-------------------------- MODULE Comparison_proofs -------------------------
(***************************************************************************)
(* The comparison, for every policy, baseline and set of snapshots, and    *)
(* for every width of the clock.                                           *)
(*                                                                         *)
(* CompareTarget looks at the first view of a sorted array.  The first     *)
(* half shows that there is one: the order of the views is strict and      *)
(* total, because a source has one newest observation, which is the        *)
(* invariant of what is retained.  The second half follows a draft, or the *)
(* absence of drafts, back to what that view reports, and the judgement on *)
(* it to the rules of the policy: a lookup is a fold over a list of rules, *)
(* and what it ends with is found by taking the shortest list at which it  *)
(* would go wrong.  The last two sections are about what the values and    *)
(* times of this module stand for: times as text, and numbers of several   *)
(* types.                                                                  *)
(***************************************************************************)
EXTENDS Comparison, FiniteSetTheorems, WellFoundedInduction, TLAPS

(* What is retained *)

IsRetained(o) ==
    /\ {"snap", "recovered"} \subseteq DOMAIN o
    /\ IsSnapshot(o.snap)
    /\ o.snap.received \in Int /\ 1 <= o.snap.received /\ o.snap.received <= now

\* A source has one newest observation.
OneClaim ==
    \A x, y \in retained :
        (/\ x.snap.source = y.snap.source
         /\ \A z \in retained : z.snap.source = x.snap.source =>
               ~Newer(z.snap, x.snap) /\ ~Newer(z.snap, y.snap))
          => x = y

IInv ==
    /\ baseline \in Baselines \cup {NoBaseline}
    /\ policy \in PolicyChoices
    /\ now \in Nat \ {0}
    /\ IsFiniteSet(retained) /\ Cardinality(retained) <= MaxRetained
    /\ \A o \in retained : IsRetained(o)
    /\ OneClaim

-----------------------------------------------------------------------------
(* Least numbers *)

\* A nonempty set of natural numbers has a least one.
LEMMA NatMin ==
    ASSUME NEW T \in SUBSET Nat, T # {}
    PROVE  \E x \in T : \A y \in T : x <= y
<1> DEFINE R == OpToRel(<, Nat)
<1>1. \A x, y \in Nat : <<y, x>> \in R <=> y < x
  <2>1. R = {ss \in Nat \X Nat : ss[1] < ss[2]}
    BY Zenon DEF OpToRel
  <2> QED
    BY <2>1
<1>2. IsWellFoundedOn(R, Nat)
  BY NatLessThanWellFounded
<1> HIDE DEF R
<1>3. PICK x \in T : \A y \in T : ~(<<y, x>> \in R)
  BY <1>2, WFMin
<1>4. ASSUME NEW y \in T PROVE x <= y
  <2>1. x \in Nat /\ y \in Nat
    OBVIOUS
  <2>2. ~(y < x)
    BY <1>1, <1>3, <2>1
  <2> QED
    BY <2>1, <2>2
<1> QED
  BY <1>4

-----------------------------------------------------------------------------
(* Folds over the rules of a policy *)

\* The greatest member of a set of indices that reaches up to k is k.
LEMMA MaxIsTop ==
    ASSUME NEW k \in Nat, NEW s \in SUBSET (1..k), k \in s
    PROVE  Max(s) = k
<1>1. \A y \in s : k >= y
  OBVIOUS
<1>2. \A x \in s : (\A y \in s : x >= y) => x = k
  OBVIOUS
<1> QED
  BY <1>1, <1>2, Zenon DEF Max

\* What FoldLeft is defined by, over the sets of indices up to n.
Folds(it, base, step, n) ==
    \A s \in SUBSET (1..n) : it[s] = IF s = {} THEN base ELSE step[Max(s)][it[s \ {Max(s)}]]

\* A function on sets of indices up to k - 1 that is such a fold extends to k.
LEMMA FoldExtends ==
    ASSUME NEW A, NEW base \in A, NEW n \in Nat, NEW step \in [1..n -> [A -> A]],
           NEW k \in 1..n, NEW g \in [SUBSET (1..(k - 1)) -> A], Folds(g, base, step, k - 1)
    PROVE  \E h \in [SUBSET (1..k) -> A] : Folds(h, base, step, k)
<1> DEFINE h == [s \in SUBSET (1..k) |-> IF k \in s THEN step[k][g[s \ {k}]] ELSE g[s]]
<1>1. \A s \in SUBSET (1..k) : (k \in s => s \ {k} \in SUBSET (1..(k - 1)))
                               /\ (k \notin s => s \in SUBSET (1..(k - 1)))
  OBVIOUS
<1>2. step[k] \in [A -> A]
  OBVIOUS
<1>3. h \in [SUBSET (1..k) -> A]
  <2> SUFFICES ASSUME NEW s \in SUBSET (1..k) PROVE h[s] \in A
    OBVIOUS
  <2>1. CASE k \in s
    <3>1. g[s \ {k}] \in A
      BY <1>1, <2>1
    <3> QED
      BY <1>2, <2>1, <3>1
  <2>2. CASE k \notin s
    BY <1>1, <2>2
  <2> QED
    BY <2>1, <2>2
<1>4. ASSUME NEW s \in SUBSET (1..k)
      PROVE  h[s] = IF s = {} THEN base ELSE step[Max(s)][h[s \ {Max(s)}]]
  <2>1. CASE k \in s
    <3>1. Max(s) = k
      BY <2>1, MaxIsTop
    <3>2. s \ {k} \in SUBSET (1..k) /\ k \notin s \ {k}
      OBVIOUS
    <3>3. h[s \ {k}] = g[s \ {k}]
      BY <3>2
    <3>4. h[s] = step[k][g[s \ {k}]]
      BY <2>1
    <3> HIDE DEF h
    <3> QED
      BY <2>1, <3>1, <3>3, <3>4
  <2>2. CASE k \notin s
    <3>1. s \in SUBSET (1..(k - 1)) /\ s \ {Max(s)} \in SUBSET (1..(k - 1))
      BY <1>1, <2>2
    <3>2. s \ {Max(s)} \in SUBSET (1..k) /\ k \notin s \ {Max(s)}
      BY <2>2
    <3>3. h[s] = g[s] /\ h[s \ {Max(s)}] = g[s \ {Max(s)}]
      BY <2>2, <3>2
    <3>4. g[s] = IF s = {} THEN base ELSE step[Max(s)][g[s \ {Max(s)}]]
      BY <3>1 DEF Folds
    <3> HIDE DEF h
    <3> QED
      BY <3>3, <3>4
  <2> QED
    BY <2>1, <2>2
<1> HIDE DEF h
<1> QED
  BY <1>3, <1>4 DEF Folds

\* Such a fold exists up to every n: there is no least k up to which there is none.
LEMMA FoldExists ==
    ASSUME NEW A, NEW base \in A, NEW n \in Nat, NEW step \in [1..n -> [A -> A]]
    PROVE  \E it \in [SUBSET (1..n) -> A] : Folds(it, base, step, n)
<1> DEFINE Good(k) == \E it \in [SUBSET (1..k) -> A] : Folds(it, base, step, k)
           T == {k \in 0..n : ~Good(k)}
<1>1. Good(0)
  <2> DEFINE g == [s \in SUBSET (1..0) |-> base]
  <2>1. g \in [SUBSET (1..0) -> A]
    OBVIOUS
  <2>2. \A s \in SUBSET (1..0) : s = {} /\ g[s] = base
    OBVIOUS
  <2>3. Folds(g, base, step, 0)
    BY <2>2 DEF Folds
  <2> QED
    BY <2>1, <2>3
<1>2. ASSUME NEW k \in 1..n, Good(k - 1) PROVE Good(k)
  BY <1>2, FoldExtends
<1> HIDE DEF Good
<1>3. T = {}
  <2> SUFFICES ASSUME T # {} PROVE FALSE
    OBVIOUS
  <2>1. T \in SUBSET Nat
    OBVIOUS
  <2>2. PICK k \in T : \A y \in T : k <= y
    BY <2>1, NatMin
  <2>3. k \in 0..n /\ ~Good(k)
    OBVIOUS
  <2>4. k \in 1..n
    BY <1>1, <2>3
  <2>5. k - 1 \in 0..n /\ ~(k <= k - 1)
    BY <2>4
  <2>6. Good(k - 1)
    BY <2>2, <2>5
  <2> QED
    BY <1>2, <2>3, <2>4, <2>6
<1>4. Good(n)
  BY <1>3
<1> QED
  BY <1>4 DEF Good

\* The greatest member of a nonempty set of indices is one of them.
LEMMA MaxIn ==
    ASSUME NEW n \in Nat, NEW s \in SUBSET (1..n), s # {}
    PROVE  Max(s) \in s
<1> DEFINE T == {n - x : x \in s}
<1>1. T \in SUBSET Nat
  <2>1. \A x \in s : n - x \in Nat
    OBVIOUS
  <2> QED
    BY <2>1
<1>2. PICK t \in T : \A y \in T : t <= y
  <2>1. PICK z \in s : TRUE
    OBVIOUS
  <2>2. n - z \in T
    OBVIOUS
  <2> HIDE DEF T
  <2> QED
    BY <1>1, <2>2, NatMin
<1>3. PICK x \in s : t = n - x
  BY <1>2
<1>4. \A y \in s : n - y \in T
  OBVIOUS
<1>5. \A y \in s : n - x <= n - y
  BY <1>2, <1>3, <1>4
<1>6. \A y \in s : x >= y
  <2> TAKE y \in s
  <2>1. x \in Int /\ y \in Int /\ n - x <= n - y
    BY <1>5
  <2> QED
    BY <2>1
<1> QED
  BY <1>6, Zenon DEF Max

\* Index i decides among the first k: it applies, and every other that applies
\* weighs less, or as much and comes before it.
Decides(m, w, k, i) ==
    /\ i \in 1..k /\ m[i]
    /\ \A j \in 1..k : m[j] => w[j] < w[i] \/ (w[j] = w[i] /\ j <= i)

\* A loop that takes what applies and weighs at least as much as the choice so far.
Chosen(m, w, v, default, best, val, n) ==
    /\ best[0] = -1 /\ val[0] = default
    /\ \A k \in 1..n :
          IF m[k] /\ w[k] >= best[k - 1] THEN best[k] = w[k] /\ val[k] = v[k]
                                         ELSE best[k] = best[k - 1] /\ val[k] = val[k - 1]

\* What such a loop has chosen after k rounds.
Standing(m, w, v, default, best, val, k) ==
    \/ (\A i \in 1..k : ~m[i]) /\ best[k] = -1 /\ val[k] = default
    \/ \E i \in 1..k : Decides(m, w, k, i) /\ best[k] = w[i] /\ val[k] = v[i]

\* One round.
LEMMA StandingStep ==
    ASSUME NEW n \in Nat, NEW m, NEW w, NEW v, NEW default, NEW best, NEW val,
           \A i \in 1..n : w[i] \in Nat, Chosen(m, w, v, default, best, val, n),
           NEW k \in 1..n, Standing(m, w, v, default, best, val, k - 1)
    PROVE  Standing(m, w, v, default, best, val, k)
<1> DEFINE takes == m[k] /\ w[k] >= best[k - 1]
<1>1. IF takes THEN best[k] = w[k] /\ val[k] = v[k] ELSE best[k] = best[k - 1] /\ val[k] = val[k - 1]
  BY DEF Chosen
<1>2. \A j \in 1..k : j = k \/ j \in 1..(k - 1)
  OBVIOUS
<1>3. k \in 1..k /\ w[k] \in Nat /\ \A j \in 1..k : w[j] \in Nat
  OBVIOUS
<1> HIDE DEF takes
<1>4. CASE (\A i \in 1..(k - 1) : ~m[i]) /\ best[k - 1] = -1 /\ val[k - 1] = default
  <2>1. takes <=> m[k]
    BY <1>3, <1>4 DEF takes
  <2>2. CASE m[k]
    <3>1. Decides(m, w, k, k)
      BY <1>2, <1>3, <1>4, <2>2 DEF Decides
    <3> QED
      BY <1>1, <1>3, <2>1, <2>2, <3>1 DEF Standing
  <2>3. CASE ~m[k]
    BY <1>1, <1>2, <1>4, <2>1, <2>3 DEF Standing
  <2> QED
    BY <2>2, <2>3
<1>5. CASE \E i \in 1..(k - 1) : Decides(m, w, k - 1, i) /\ best[k - 1] = w[i] /\ val[k - 1] = v[i]
  <2>1. PICK i \in 1..(k - 1) : Decides(m, w, k - 1, i) /\ best[k - 1] = w[i] /\ val[k - 1] = v[i]
    BY <1>5
  <2>2. i \in 1..k /\ w[i] \in Nat /\ i <= k
    BY <1>3
  <2>3. m[i] /\ \A j \in 1..(k - 1) : m[j] => w[j] < w[i] \/ (w[j] = w[i] /\ j <= i)
    BY <2>1 DEF Decides
  <2>4. CASE takes
    <3>1. m[k] /\ w[k] >= w[i]
      BY <2>1, <2>4 DEF takes
    <3>2. \A j \in 1..k : m[j] => w[j] < w[k] \/ (w[j] = w[k] /\ j <= k)
      BY <1>2, <1>3, <2>2, <2>3, <3>1
    <3>3. Decides(m, w, k, k)
      BY <1>3, <3>1, <3>2 DEF Decides
    <3> QED
      BY <1>1, <1>3, <2>4, <3>3 DEF Standing
  <2>5. CASE ~takes
    <3>1. m[k] => w[k] < w[i]
      BY <1>3, <2>1, <2>2, <2>5 DEF takes
    <3>2. \A j \in 1..k : m[j] => w[j] < w[i] \/ (w[j] = w[i] /\ j <= i)
      BY <1>2, <2>3, <3>1
    <3>3. Decides(m, w, k, i)
      BY <2>2, <2>3, <3>2 DEF Decides
    <3> QED
      BY <1>1, <2>1, <2>2, <2>5, <3>3 DEF Standing
  <2> QED
    BY <2>4, <2>5
<1> QED
  BY <1>4, <1>5 DEF Standing

\* All rounds.
LEMMA StandingAtEnd ==
    ASSUME NEW n \in Nat, NEW m, NEW w, NEW v, NEW default, NEW best, NEW val,
           \A i \in 1..n : w[i] \in Nat, Chosen(m, w, v, default, best, val, n)
    PROVE  Standing(m, w, v, default, best, val, n)
<1> DEFINE Good(k) == Standing(m, w, v, default, best, val, k)
           T == {k \in 0..n : ~Good(k)}
<1>1. Good(0)
  <2>1. \A i \in 1..0 : ~m[i]
    OBVIOUS
  <2> QED
    BY <2>1 DEF Standing, Chosen
<1>2. ASSUME NEW k \in 1..n, Good(k - 1) PROVE Good(k)
  BY <1>2, StandingStep
<1> HIDE DEF Good
<1>3. T = {}
  <2> SUFFICES ASSUME T # {} PROVE FALSE
    OBVIOUS
  <2>1. T \in SUBSET Nat
    OBVIOUS
  <2>2. PICK k \in T : \A y \in T : k <= y
    BY <2>1, NatMin
  <2>3. k \in 0..n /\ ~Good(k)
    OBVIOUS
  <2>4. k \in 1..n
    BY <1>1, <2>3
  <2>5. k - 1 \in 0..n /\ ~(k <= k - 1)
    BY <2>4
  <2>6. Good(k - 1)
    BY <2>2, <2>5
  <2> QED
    BY <1>2, <2>3, <2>4, <2>6
<1>4. Good(n)
  BY <1>3
<1> QED
  BY <1>4 DEF Good

\* At most one index decides.
LEMMA OneDecides ==
    ASSUME NEW n \in Nat, NEW m, NEW w, \A i \in 1..n : w[i] \in Nat,
           NEW i, NEW j, Decides(m, w, n, i), Decides(m, w, n, j)
    PROVE  i = j
<1>1. i \in 1..n /\ j \in 1..n /\ w[i] \in Nat /\ w[j] \in Nat
  BY DEF Decides
<1>2. /\ w[j] < w[i] \/ (w[j] = w[i] /\ j <= i)
      /\ w[i] < w[j] \/ (w[i] = w[j] /\ i <= j)
  BY <1>1 DEF Decides
<1> QED
  BY <1>1, <1>2

\* The weights of a selector are natural numbers.
LEMMA SpecificityTyped ==
    ASSUME NEW s, IsSelector(s)
    PROVE  SelectorSpecificity(s) \in Nat
<1>1. /\ Cardinality(s.target) \in Nat /\ Cardinality(s.object) \in Nat
      /\ Cardinality(s.prefix) \in Nat
  BY FS_CardinalityType DEF IsSelector, IsOptional
<1> QED
  BY <1>1 DEF SelectorSpecificity

\* What TtlFor computes: the loop over the freshness rules.
LEMMA TtlChosen ==
    ASSUME NEW p, IsPolicy(p), NEW o, NEW path
    PROVE  \E best, val :
             /\ Chosen([i \in DOMAIN p.freshnessRules |-> Matches(p.freshnessRules[i].selector, Target, o, path)],
                       [i \in DOMAIN p.freshnessRules |-> SelectorSpecificity(p.freshnessRules[i].selector)],
                       [i \in DOMAIN p.freshnessRules |-> p.freshnessRules[i].ttl],
                       p.ttl, best, val, Len(p.freshnessRules))
             /\ val[Len(p.freshnessRules)] = TtlFor(p, Target, o, path)
<1> DEFINE R == p.freshnessRules
           n == Len(R)
           D == DOMAIN R
           base == [best |-> -1, ttl |-> p.ttl]
           St(acc, rule) ==
             LET specificity == SelectorSpecificity(rule.selector)
             IN  IF Matches(rule.selector, Target, o, path) /\ Outranks(specificity, acc.best)
                   THEN [best |-> specificity, ttl |-> rule.ttl] ELSE acc
           F(iter) == [s \in SUBSET D |-> IF s = {} THEN base ELSE St(iter[s \ {Max(s)}], R[Max(s)])]
           It == CHOOSE iter : iter = F(iter)
           A == [best : Int, ttl : Int]
           step == [i \in 1..n |-> [a \in A |-> St(a, R[i])]]
<1>1. n \in Nat /\ D = 1..n
  BY DEF IsPolicy
<1>2. TtlFor(p, Target, o, path) = It[D].ttl
  BY Zenon DEF TtlFor, FoldLeft, MapThenFoldSet
<1>3. base \in A
  BY DEF IsPolicy
<1>4. \A i \in 1..n, a \in A : St(a, R[i]) \in A
  <2> SUFFICES ASSUME NEW i \in 1..n, NEW a \in A PROVE St(a, R[i]) \in A
    OBVIOUS
  <2>1. IsSelector(R[i].selector) /\ R[i].ttl \in Int
    BY <1>1 DEF IsPolicy
  <2>2. SelectorSpecificity(R[i].selector) \in Int
    BY <2>1, SpecificityTyped
  <2> QED
    BY <2>1, <2>2
<1> HIDE DEF St, A, base
<1>5. step \in [1..n -> [A -> A]]
  BY <1>4
<1>6. \A i \in 1..n, a \in A : step[i][a] = St(a, R[i])
  OBVIOUS
<1> HIDE DEF step
<1>7. \E iter : iter = F(iter)
  <2>1. PICK it \in [SUBSET (1..n) -> A] : Folds(it, base, step, n)
    BY <1>1, <1>3, <1>5, FoldExists
  <2>2. ASSUME NEW s \in SUBSET D, s # {} PROVE Max(s) \in 1..n
    <3>1. s \in SUBSET (1..n)
      BY <1>1
    <3> QED
      BY <1>1, <2>2, <3>1, MaxIn
  <2>3. ASSUME NEW s \in SUBSET D
        PROVE  it[s] = IF s = {} THEN base ELSE St(it[s \ {Max(s)}], R[Max(s)])
    <3>1. CASE s = {}
      BY <1>1, <2>1, <3>1 DEF Folds
    <3>2. CASE s # {}
      <4>1. it[s] = step[Max(s)][it[s \ {Max(s)}]]
        BY <1>1, <2>1, <3>2 DEF Folds
      <4>2. it[s \ {Max(s)}] \in A /\ Max(s) \in 1..n
        BY <1>1, <2>1, <2>2, <3>2
      <4> QED
        BY <1>6, <3>2, <4>1, <4>2
    <3> QED
      BY <3>1, <3>2
  <2>4. it = F(it)
    BY <1>1, <2>3
  <2> QED
    BY <2>4
<1>8. It = F(It)
  BY <1>7
<1> HIDE DEF It
<1>9. It[{}] = base
  BY <1>8
<1>10. ASSUME NEW k \in 1..n
       PROVE  It[1..k] = St(It[1..(k - 1)], R[k])
  <2> HIDE DEF n, D, R
  <2>1. 1..k \in SUBSET D /\ k \in 1..k /\ 1..k \in SUBSET (1..k)
    BY <1>1
  <2>2. Max(1..k) = k
    BY <1>1, <2>1, MaxIsTop
  <2>3. (1..k) \ {k} = 1..(k - 1)
    OBVIOUS
  <2>4. It[1..k] = St(It[(1..k) \ {Max(1..k)}], R[Max(1..k)])
    BY <1>8, <2>1
  <2> QED
    BY <2>2, <2>3, <2>4
<1> DEFINE best == [k \in 0..n |-> It[1..k].best]
           val == [k \in 0..n |-> It[1..k].ttl]
           m == [i \in D |-> Matches(R[i].selector, Target, o, path)]
           w == [i \in D |-> SelectorSpecificity(R[i].selector)]
           v == [i \in D |-> R[i].ttl]
<1>11. best[0] = -1 /\ val[0] = p.ttl
  <2>1. 1..0 = {} /\ 0 \in 0..n
    BY <1>1
  <2> QED
    BY <1>9, <2>1 DEF base
<1>12. ASSUME NEW k \in 1..n
       PROVE  IF m[k] /\ w[k] >= best[k - 1] THEN best[k] = w[k] /\ val[k] = v[k]
                                             ELSE best[k] = best[k - 1] /\ val[k] = val[k - 1]
  <2>1. k \in 0..n /\ k - 1 \in 0..n /\ k \in D
    BY <1>1
  <2>2. /\ best[k] = It[1..k].best /\ val[k] = It[1..k].ttl
        /\ best[k - 1] = It[1..(k - 1)].best /\ val[k - 1] = It[1..(k - 1)].ttl
        /\ m[k] = Matches(R[k].selector, Target, o, path)
        /\ w[k] = SelectorSpecificity(R[k].selector) /\ v[k] = R[k].ttl
    BY <2>1
  <2>3. It[1..k] = St(It[1..(k - 1)], R[k])
    BY <1>10
  <2> HIDE DEF best, val, m, w, v, R, n, D
  <2>4. CASE m[k] /\ w[k] >= best[k - 1]
    BY <2>2, <2>3, <2>4 DEF St, Outranks
  <2>5. CASE ~(m[k] /\ w[k] >= best[k - 1])
    <3>1. It[1..k] = It[1..(k - 1)]
      BY <2>2, <2>3, <2>5 DEF St, Outranks
    <3> QED
      BY <2>2, <2>5, <3>1
  <2> QED
    BY <2>4, <2>5
<1>13. val[n] = TtlFor(p, Target, o, path)
  <2>1. n \in 0..n
    BY <1>1
  <2> QED
    BY <1>1, <1>2, <2>1
<1> HIDE DEF best, val
<1>14. Chosen(m, w, v, p.ttl, best, val, n)
  BY <1>11, <1>12 DEF Chosen
<1> QED
  BY <1>13, <1>14

\* A severity rule applies to a draft, and what it weighs without a floor.
Hit(rule, o, path, c) == Matches(rule.selector, Target, o, path) /\ rule.klass \subseteq {c}
Weighs(rule) == 4 * SelectorSpecificity(rule.selector) + Cardinality(rule.klass)

\* What SeverityFor computes when no rule has a severity floor.
LEMMA SeverityChosen ==
    ASSUME NEW p, IsPolicy(p), NEW o, NEW path, NEW c,
           \A i \in DOMAIN p.severityRules : p.severityRules[i].minSeverity = {}
    PROVE  \E best, val :
             /\ Chosen([i \in DOMAIN p.severityRules |-> Hit(p.severityRules[i], o, path, c)],
                       [i \in DOMAIN p.severityRules |-> Weighs(p.severityRules[i])],
                       [i \in DOMAIN p.severityRules |-> p.severityRules[i].severity],
                       p.severity, best, val, Len(p.severityRules))
             /\ val[Len(p.severityRules)] = SeverityFor(p, Target, o, path, c)
<1> DEFINE R == p.severityRules
           n == Len(R)
           D == DOMAIN R
           base == [best |-> -1, severity |-> p.severity]
           S == {p.severity} \cup {R[i].severity : i \in DOMAIN R}
           St(acc, rule) ==
             LET specificity == 4 * SelectorSpecificity(rule.selector)
                                  + Cardinality(rule.klass) + Cardinality(rule.minSeverity)
             IN  IF /\ Matches(rule.selector, Target, o, path)
                    /\ rule.klass \subseteq {c}
                    /\ \A least \in rule.minSeverity : acc.severity >= least
                    /\ Outranks(specificity, acc.best)
                   THEN [best |-> specificity, severity |-> rule.severity] ELSE acc
           F(iter) == [s \in SUBSET D |-> IF s = {} THEN base ELSE St(iter[s \ {Max(s)}], R[Max(s)])]
           It == CHOOSE iter : iter = F(iter)
           A == [best : Int, severity : S]
           step == [i \in 1..n |-> [a \in A |-> St(a, R[i])]]
<1>1. n \in Nat /\ D = 1..n
  BY DEF IsPolicy
<1>2. SeverityFor(p, Target, o, path, c) = It[D].severity
  BY Zenon DEF SeverityFor, FoldLeft, MapThenFoldSet
<1>3. base \in A
  OBVIOUS
<1>4. \A i \in 1..n, a \in A : St(a, R[i]) \in A
  <2> SUFFICES ASSUME NEW i \in 1..n, NEW a \in A PROVE St(a, R[i]) \in A
    OBVIOUS
  <2>1. /\ IsSelector(R[i].selector) /\ IsFiniteSet(R[i].klass) /\ R[i].minSeverity = {}
        /\ R[i].severity \in S
    BY <1>1 DEF IsPolicy, IsOptional
  <2>2. /\ SelectorSpecificity(R[i].selector) \in Nat /\ Cardinality(R[i].klass) \in Nat
        /\ Cardinality(R[i].minSeverity) = 0
    BY <2>1, SpecificityTyped, FS_CardinalityType, FS_EmptySet
  <2>3. (4 * SelectorSpecificity(R[i].selector) + Cardinality(R[i].klass)) + Cardinality(R[i].minSeverity) \in Int
    BY <2>2
  <2> HIDE DEF S, R
  <2> QED
    BY <2>1, <2>3
<1> HIDE DEF St, A, base
<1>5. step \in [1..n -> [A -> A]]
  BY <1>4
<1>6. \A i \in 1..n, a \in A : step[i][a] = St(a, R[i])
  OBVIOUS
<1> HIDE DEF step
<1>7. \E iter : iter = F(iter)
  <2>1. PICK it \in [SUBSET (1..n) -> A] : Folds(it, base, step, n)
    BY <1>1, <1>3, <1>5, FoldExists
  <2>2. ASSUME NEW s \in SUBSET D, s # {} PROVE Max(s) \in 1..n
    <3>1. s \in SUBSET (1..n)
      BY <1>1
    <3> QED
      BY <1>1, <2>2, <3>1, MaxIn
  <2>3. ASSUME NEW s \in SUBSET D
        PROVE  it[s] = IF s = {} THEN base ELSE St(it[s \ {Max(s)}], R[Max(s)])
    <3>1. CASE s = {}
      BY <1>1, <2>1, <3>1 DEF Folds
    <3>2. CASE s # {}
      <4>1. it[s] = step[Max(s)][it[s \ {Max(s)}]]
        BY <1>1, <2>1, <3>2 DEF Folds
      <4>2. it[s \ {Max(s)}] \in A /\ Max(s) \in 1..n
        BY <1>1, <2>1, <2>2, <3>2
      <4> QED
        BY <1>6, <3>2, <4>1, <4>2
    <3> QED
      BY <3>1, <3>2
  <2>4. it = F(it)
    BY <1>1, <2>3
  <2> QED
    BY <2>4
<1>8. It = F(It)
  BY <1>7
<1> HIDE DEF It
<1>9. It[{}] = base
  BY <1>8
<1>10. ASSUME NEW k \in 1..n
       PROVE  It[1..k] = St(It[1..(k - 1)], R[k])
  <2> HIDE DEF n, D, R
  <2>1. 1..k \in SUBSET D /\ k \in 1..k /\ 1..k \in SUBSET (1..k)
    BY <1>1
  <2>2. Max(1..k) = k
    BY <1>1, <2>1, MaxIsTop
  <2>3. (1..k) \ {k} = 1..(k - 1)
    OBVIOUS
  <2>4. It[1..k] = St(It[(1..k) \ {Max(1..k)}], R[Max(1..k)])
    BY <1>8, <2>1
  <2> QED
    BY <2>2, <2>3, <2>4
<1> DEFINE best == [k \in 0..n |-> It[1..k].best]
           val == [k \in 0..n |-> It[1..k].severity]
           m == [i \in D |-> Hit(R[i], o, path, c)]
           w == [i \in D |-> Weighs(R[i])]
           v == [i \in D |-> R[i].severity]
<1>11. best[0] = -1 /\ val[0] = p.severity
  <2>1. 1..0 = {} /\ 0 \in 0..n
    BY <1>1
  <2> QED
    BY <1>9, <2>1 DEF base
<1>12. ASSUME NEW k \in 1..n
       PROVE  IF m[k] /\ w[k] >= best[k - 1] THEN best[k] = w[k] /\ val[k] = v[k]
                                             ELSE best[k] = best[k - 1] /\ val[k] = val[k - 1]
  <2>1. k \in 0..n /\ k - 1 \in 0..n /\ k \in D
    BY <1>1
  <2>2. /\ best[k] = It[1..k].best /\ val[k] = It[1..k].severity
        /\ best[k - 1] = It[1..(k - 1)].best /\ val[k - 1] = It[1..(k - 1)].severity
        /\ m[k] = Hit(R[k], o, path, c)
        /\ w[k] = Weighs(R[k]) /\ v[k] = R[k].severity
    BY <2>1
  <2>3. It[1..k] = St(It[1..(k - 1)], R[k])
    BY <1>10
  <2>4. R[k].minSeverity = {}
    BY <2>1
  <2>5. Cardinality(R[k].minSeverity) = 0
    BY <2>4, FS_EmptySet
  <2>6. /\ SelectorSpecificity(R[k].selector) \in Nat /\ Cardinality(R[k].klass) \in Nat
    BY <2>1, SpecificityTyped, FS_CardinalityType DEF IsPolicy, IsOptional
  <2>7. (4 * SelectorSpecificity(R[k].selector) + Cardinality(R[k].klass)) + Cardinality(R[k].minSeverity) = Weighs(R[k])
    BY <2>5, <2>6 DEF Weighs
  <2> HIDE DEF best, val, m, w, v, R, n, D
  <2>8. St(It[1..(k - 1)], R[k]) =
           IF m[k] /\ w[k] >= It[1..(k - 1)].best
             THEN [best |-> w[k], severity |-> v[k]] ELSE It[1..(k - 1)]
    <3> HIDE DEF It
    <3>1. \A least \in R[k].minSeverity : It[1..(k - 1)].severity >= least
      BY <2>4
    <3> QED
      BY <2>2, <2>7, <3>1 DEF St, Outranks, Hit
  <2>9. CASE m[k] /\ w[k] >= best[k - 1]
    BY <2>2, <2>3, <2>9, <2>8
  <2>10. CASE ~(m[k] /\ w[k] >= best[k - 1])
    <3>1. It[1..k] = It[1..(k - 1)]
      BY <2>2, <2>3, <2>10, <2>8
    <3> QED
      BY <2>2, <2>10, <3>1
  <2> QED
    BY <2>9, <2>10
<1>13. val[n] = SeverityFor(p, Target, o, path, c)
  <2>1. n \in 0..n
    BY <1>1
  <2> QED
    BY <1>1, <1>2, <2>1
<1> HIDE DEF best, val
<1>14. Chosen(m, w, v, p.severity, best, val, n)
  BY <1>11, <1>12 DEF Chosen
<1> QED
  BY <1>13, <1>14

\* The lifetime in force is a number.
LEMMA TtlTyped ==
    ASSUME NEW p, IsPolicy(p), NEW o, NEW path
    PROVE  TtlFor(p, Target, o, path) \in Int
<1> DEFINE R == p.freshnessRules
           n == Len(R)
           m == [i \in DOMAIN R |-> Matches(R[i].selector, Target, o, path)]
           w == [i \in DOMAIN R |-> SelectorSpecificity(R[i].selector)]
           v == [i \in DOMAIN R |-> R[i].ttl]
<1>1. PICK best, val : Chosen(m, w, v, p.ttl, best, val, n) /\ val[n] = TtlFor(p, Target, o, path)
  BY TtlChosen
<1>2. n \in Nat /\ DOMAIN R = 1..n /\ p.ttl \in Int
  BY DEF IsPolicy
<1>3. \A i \in 1..n : w[i] \in Nat /\ v[i] \in Int
  BY <1>2, SpecificityTyped DEF IsPolicy
<1> HIDE DEF m, w, v, n
<1>4. Standing(m, w, v, p.ttl, best, val, n)
  BY <1>1, <1>2, <1>3, StandingAtEnd
<1> QED
  BY <1>1, <1>2, <1>3, <1>4 DEF Standing

\* The lifetime is that of the most specific rule that matches, and of equally
\* specific ones of the last.
LEMMA TtlDecided ==
    ASSUME NEW p, IsPolicy(p), NEW o, NEW path, NEW x \in DOMAIN p.freshnessRules,
           Matches(p.freshnessRules[x].selector, Target, o, path),
           \A j \in DOMAIN p.freshnessRules :
              Matches(p.freshnessRules[j].selector, Target, o, path) =>
                \/ SelectorSpecificity(p.freshnessRules[j].selector) < SelectorSpecificity(p.freshnessRules[x].selector)
                \/ /\ SelectorSpecificity(p.freshnessRules[j].selector) = SelectorSpecificity(p.freshnessRules[x].selector)
                   /\ j <= x
    PROVE  TtlFor(p, Target, o, path) = p.freshnessRules[x].ttl
<1> DEFINE R == p.freshnessRules
           n == Len(R)
           m == [i \in DOMAIN R |-> Matches(R[i].selector, Target, o, path)]
           w == [i \in DOMAIN R |-> SelectorSpecificity(R[i].selector)]
           v == [i \in DOMAIN R |-> R[i].ttl]
<1>1. PICK best, val : Chosen(m, w, v, p.ttl, best, val, n) /\ val[n] = TtlFor(p, Target, o, path)
  BY TtlChosen
<1>2. n \in Nat /\ DOMAIN R = 1..n
  BY DEF IsPolicy
<1>3. \A i \in 1..n : w[i] \in Nat
  BY <1>2, SpecificityTyped DEF IsPolicy
<1>4. x \in 1..n /\ m[x] /\ v[x] = p.freshnessRules[x].ttl
  BY <1>2
<1>5. \A j \in 1..n : m[j] => w[j] < w[x] \/ (w[j] = w[x] /\ j <= x)
  BY <1>2
<1> HIDE DEF m, w, v, n
<1>6. Decides(m, w, n, x)
  BY <1>4, <1>5 DEF Decides
<1>7. Standing(m, w, v, p.ttl, best, val, n)
  BY <1>1, <1>2, <1>3, StandingAtEnd
<1>8. PICK i \in 1..n : Decides(m, w, n, i) /\ val[n] = v[i]
  BY <1>4, <1>7 DEF Standing
<1>9. i = x
  BY <1>2, <1>3, <1>6, <1>8, OneDecides
<1> QED
  BY <1>1, <1>4, <1>8, <1>9

\* Where a freshness rule matches, one of them decides.
LEMMA TtlDecider ==
    ASSUME NEW p, IsPolicy(p), NEW o, NEW path, NEW y \in DOMAIN p.freshnessRules,
           Matches(p.freshnessRules[y].selector, Target, o, path)
    PROVE  \E x \in DOMAIN p.freshnessRules :
             /\ Matches(p.freshnessRules[x].selector, Target, o, path)
             /\ \A j \in DOMAIN p.freshnessRules :
                  Matches(p.freshnessRules[j].selector, Target, o, path) =>
                    \/ SelectorSpecificity(p.freshnessRules[j].selector) < SelectorSpecificity(p.freshnessRules[x].selector)
                    \/ /\ SelectorSpecificity(p.freshnessRules[j].selector) = SelectorSpecificity(p.freshnessRules[x].selector)
                       /\ j <= x
<1> DEFINE R == p.freshnessRules
           n == Len(R)
           m == [i \in DOMAIN R |-> Matches(R[i].selector, Target, o, path)]
           w == [i \in DOMAIN R |-> SelectorSpecificity(R[i].selector)]
           v == [i \in DOMAIN R |-> R[i].ttl]
<1>1. PICK best, val : Chosen(m, w, v, p.ttl, best, val, n)
  BY TtlChosen
<1>2. n \in Nat /\ DOMAIN R = 1..n
  BY DEF IsPolicy
<1>3. \A i \in 1..n : w[i] \in Nat
  BY <1>2, SpecificityTyped DEF IsPolicy
<1>4. y \in 1..n /\ m[y]
  BY <1>2
<1> HIDE DEF m, w, v, n
<1>5. Standing(m, w, v, p.ttl, best, val, n)
  BY <1>1, <1>2, <1>3, StandingAtEnd
<1>6. PICK i \in 1..n : Decides(m, w, n, i)
  BY <1>4, <1>5 DEF Standing
<1>7. m[i] /\ \A j \in 1..n : m[j] => w[j] < w[i] \/ (w[j] = w[i] /\ j <= i)
  BY <1>6 DEF Decides
<1>8. /\ i \in DOMAIN R /\ Matches(R[i].selector, Target, o, path)
      /\ w[i] = SelectorSpecificity(R[i].selector)
      /\ \A j \in DOMAIN R : /\ j \in 1..n /\ w[j] = SelectorSpecificity(R[j].selector)
                             /\ m[j] = Matches(R[j].selector, Target, o, path)
  BY <1>2, <1>7 DEF m, w
<1> QED
  BY <1>7, <1>8

\* So are the weights of severity rules.
LEMMA WeighsTyped ==
    ASSUME NEW rule, IsSelector(rule.selector), IsOptional(rule.klass)
    PROVE  Weighs(rule) \in Nat
<1>1. SelectorSpecificity(rule.selector) \in Nat /\ Cardinality(rule.klass) \in Nat
  BY SpecificityTyped, FS_CardinalityType DEF IsOptional
<1> QED
  BY <1>1 DEF Weighs

\* Without severity floors the severity is that of the most specific rule that
\* applies, and of equally specific ones of the last.
LEMMA SeverityDecided ==
    ASSUME NEW p, IsPolicy(p), NEW o, NEW path, NEW c,
           \A i \in DOMAIN p.severityRules : p.severityRules[i].minSeverity = {},
           NEW x \in DOMAIN p.severityRules,
           Hit(p.severityRules[x], o, path, c),
           \A j \in DOMAIN p.severityRules :
              Hit(p.severityRules[j], o, path, c) =>
                \/ Weighs(p.severityRules[j]) < Weighs(p.severityRules[x])
                \/ /\ Weighs(p.severityRules[j]) = Weighs(p.severityRules[x])
                   /\ j <= x
    PROVE  SeverityFor(p, Target, o, path, c) = p.severityRules[x].severity
<1> DEFINE R == p.severityRules
           n == Len(R)
           m == [i \in DOMAIN R |-> Hit(R[i], o, path, c)]
           w == [i \in DOMAIN R |-> Weighs(R[i])]
           v == [i \in DOMAIN R |-> R[i].severity]
<1>1. PICK best, val : Chosen(m, w, v, p.severity, best, val, n) /\ val[n] = SeverityFor(p, Target, o, path, c)
  BY SeverityChosen
<1>2. n \in Nat /\ DOMAIN R = 1..n
  BY DEF IsPolicy
<1>3. \A i \in 1..n : w[i] \in Nat
  BY <1>2, WeighsTyped DEF IsPolicy
<1>4. x \in 1..n /\ m[x] /\ v[x] = p.severityRules[x].severity
  BY <1>2
<1>5. \A j \in 1..n : m[j] => w[j] < w[x] \/ (w[j] = w[x] /\ j <= x)
  BY <1>2
<1> HIDE DEF m, w, v, n
<1>6. Decides(m, w, n, x)
  BY <1>4, <1>5 DEF Decides
<1>7. Standing(m, w, v, p.severity, best, val, n)
  BY <1>1, <1>2, <1>3, StandingAtEnd
<1>8. PICK i \in 1..n : Decides(m, w, n, i) /\ val[n] = v[i]
  BY <1>4, <1>7 DEF Standing
<1>9. i = x
  BY <1>2, <1>3, <1>6, <1>8, OneDecides
<1> QED
  BY <1>1, <1>4, <1>8, <1>9

\* Where a severity rule applies, one of them decides.
LEMMA SeverityDecider ==
    ASSUME NEW p, IsPolicy(p), NEW o, NEW path, NEW c,
           \A i \in DOMAIN p.severityRules : p.severityRules[i].minSeverity = {},
           NEW y \in DOMAIN p.severityRules,
           Hit(p.severityRules[y], o, path, c)
    PROVE  \E x \in DOMAIN p.severityRules :
             /\ Hit(p.severityRules[x], o, path, c)
             /\ \A j \in DOMAIN p.severityRules :
                  Hit(p.severityRules[j], o, path, c) =>
                    \/ Weighs(p.severityRules[j]) < Weighs(p.severityRules[x])
                    \/ /\ Weighs(p.severityRules[j]) = Weighs(p.severityRules[x])
                       /\ j <= x
<1> DEFINE R == p.severityRules
           n == Len(R)
           m == [i \in DOMAIN R |-> Hit(R[i], o, path, c)]
           w == [i \in DOMAIN R |-> Weighs(R[i])]
           v == [i \in DOMAIN R |-> R[i].severity]
<1>1. PICK best, val : Chosen(m, w, v, p.severity, best, val, n)
  BY SeverityChosen
<1>2. n \in Nat /\ DOMAIN R = 1..n
  BY DEF IsPolicy
<1>3. \A i \in 1..n : w[i] \in Nat
  BY <1>2, WeighsTyped DEF IsPolicy
<1>4. y \in 1..n /\ m[y]
  BY <1>2
<1> HIDE DEF m, w, v, n
<1>5. Standing(m, w, v, p.severity, best, val, n)
  BY <1>1, <1>2, <1>3, StandingAtEnd
<1>6. PICK i \in 1..n : Decides(m, w, n, i)
  BY <1>4, <1>5 DEF Standing
<1>7. m[i] /\ \A j \in 1..n : m[j] => w[j] < w[i] \/ (w[j] = w[i] /\ j <= i)
  BY <1>6 DEF Decides
<1>8. /\ i \in DOMAIN R /\ Hit(R[i], o, path, c)
      /\ w[i] = Weighs(R[i])
      /\ \A j \in DOMAIN R : /\ j \in 1..n /\ w[j] = Weighs(R[j])
                             /\ m[j] = Hit(R[j], o, path, c)
  BY <1>2, <1>7 DEF m, w
<1> QED
  BY <1>7, <1>8

\* The comparabilities and their ranks correspond.
LEMMA RankTyped ==
    ASSUME NEW c \in Range(Comparability)
    PROVE  ComparabilityRank(c) \in 1..5 /\ Comparability[ComparabilityRank(c)] = c
<1>1. DOMAIN Comparability = 1..5
  BY DEF Comparability
<1>2. \E i \in DOMAIN Comparability : Comparability[i] = c
  BY Zenon DEF Range
<1> QED
  BY <1>1, <1>2, Zenon DEF ComparabilityRank

\* A rank is the rank of its comparability.
LEMMA RankInverse ==
    ASSUME NEW r \in 1..5
    PROVE  Comparability[r] \in Range(Comparability) /\ ComparabilityRank(Comparability[r]) = r
<1>1. DOMAIN Comparability = 1..5
  BY DEF Comparability
<1>2. \A i, j \in 1..5 : Comparability[i] = Comparability[j] => i = j
  BY DEF Comparability
<1>3. Comparability[r] \in Range(Comparability)
  BY <1>1, Zenon DEF Range
<1>4. ComparabilityRank(Comparability[r]) \in 1..5
      /\ Comparability[ComparabilityRank(Comparability[r])] = Comparability[r]
  BY <1>3, RankTyped
<1> QED
  BY <1>2, <1>3, <1>4

\* What a loop that takes the greater rank has after k rounds.
Narrowest(m, w, first, val, k) ==
    /\ val[k] \in 1..5 /\ val[k] >= first
    /\ \A i \in 1..k : m[i] => val[k] >= w[i]
    /\ val[k] = first \/ \E i \in 1..k : m[i] /\ val[k] = w[i]

\* All rounds of such a loop.
LEMMA NarrowestAtEnd ==
    ASSUME NEW n \in Nat, NEW m, NEW w, NEW first \in 1..5, NEW val,
           \A i \in 1..n : w[i] \in 1..5, val[0] = first,
           \A k \in 1..n : val[k] = IF m[k] /\ w[k] > val[k - 1] THEN w[k] ELSE val[k - 1]
    PROVE  Narrowest(m, w, first, val, n)
<1> DEFINE Good(k) == Narrowest(m, w, first, val, k)
           T == {k \in 0..n : ~Good(k)}
<1>1. Good(0)
  BY DEF Narrowest
<1>2. ASSUME NEW k \in 1..n, Good(k - 1) PROVE Good(k)
  <2>1. /\ val[k - 1] \in 1..5 /\ val[k - 1] >= first
        /\ \A i \in 1..(k - 1) : m[i] => val[k - 1] >= w[i]
        /\ val[k - 1] = first \/ \E i \in 1..(k - 1) : m[i] /\ val[k - 1] = w[i]
    BY <1>2 DEF Narrowest
  <2>2. \A i \in 1..k : (i = k \/ i \in 1..(k - 1)) /\ w[i] \in 1..5
    OBVIOUS
  <2>3. k \in 1..k /\ w[k] \in 1..5 /\ \A i \in 1..(k - 1) : i \in 1..k
    OBVIOUS
  <2>4. CASE m[k] /\ w[k] > val[k - 1]
    <3>1. val[k] = w[k]
      BY <2>4
    <3>2. val[k] \in 1..5 /\ val[k] >= first
      BY <2>1, <2>3, <2>4, <3>1
    <3>3. \A i \in 1..k : m[i] => val[k] >= w[i]
      BY <2>1, <2>2, <2>3, <2>4, <3>1
    <3> QED
      BY <2>3, <2>4, <3>1, <3>2, <3>3 DEF Narrowest
  <2>5. CASE ~(m[k] /\ w[k] > val[k - 1])
    <3>1. val[k] = val[k - 1]
      BY <2>5
    <3>2. \A i \in 1..k : m[i] => val[k] >= w[i]
      BY <2>1, <2>2, <2>3, <2>5, <3>1
    <3> QED
      BY <2>1, <2>3, <3>1, <3>2 DEF Narrowest
  <2> QED
    BY <2>4, <2>5
<1> HIDE DEF Good
<1>3. T = {}
  <2> SUFFICES ASSUME T # {} PROVE FALSE
    OBVIOUS
  <2>1. T \in SUBSET Nat
    OBVIOUS
  <2>2. PICK k \in T : \A y \in T : k <= y
    BY <2>1, NatMin
  <2>3. k \in 0..n /\ ~Good(k)
    OBVIOUS
  <2>4. k \in 1..n
    BY <1>1, <2>3
  <2>5. k - 1 \in 0..n /\ ~(k <= k - 1)
    BY <2>4
  <2>6. Good(k - 1)
    BY <2>2, <2>5
  <2> QED
    BY <1>2, <2>3, <2>4, <2>6
<1>4. Good(n)
  BY <1>3
<1> QED
  BY <1>4 DEF Good

\* What ClassifyField computes: the greatest rank of the intent's view and of the
\* rules that match.
LEMMA Classified ==
    ASSUME NEW p, IsPolicy(p), NEW o, NEW path, NEW c \in Range(Comparability)
    PROVE  \E val :
             /\ Narrowest([i \in DOMAIN p.fieldRules |-> Matches(p.fieldRules[i].selector, Target, o, path)],
                          [i \in DOMAIN p.fieldRules |-> ComparabilityRank(p.fieldRules[i].comparability)],
                          ComparabilityRank(c), val, Len(p.fieldRules))
             /\ ClassifyField(p, Target, o, path, c) = Comparability[val[Len(p.fieldRules)]]
<1> DEFINE R == p.fieldRules
           n == Len(R)
           D == DOMAIN R
           C == ComparabilityRank(c)
           St(rank, rule) == IF Matches(rule.selector, Target, o, path) THEN Narrowed(rank, rule) ELSE rank
           F(iter) == [s \in SUBSET D |-> IF s = {} THEN C ELSE St(iter[s \ {Max(s)}], R[Max(s)])]
           It == CHOOSE iter : iter = F(iter)
           A == 1..5
           step == [i \in 1..n |-> [a \in A |-> St(a, R[i])]]
<1>1. n \in Nat /\ D = 1..n
  BY DEF IsPolicy
<1>2. ClassifyField(p, Target, o, path, c) = Comparability[It[D]]
  BY Zenon DEF ClassifyField, FoldLeft, MapThenFoldSet
<1>3. C \in A
  BY RankTyped
<1>4. \A i \in 1..n : ComparabilityRank(R[i].comparability) \in A
  BY <1>1, RankTyped DEF IsPolicy
<1>5. \A i \in 1..n, a \in A : St(a, R[i]) \in A
  BY <1>4 DEF Narrowed
<1> HIDE DEF St, A, C
<1>6. step \in [1..n -> [A -> A]]
  BY <1>5
<1>7. \A i \in 1..n, a \in A : step[i][a] = St(a, R[i])
  OBVIOUS
<1> HIDE DEF step
<1>8. \E iter : iter = F(iter)
  <2>1. PICK it \in [SUBSET (1..n) -> A] : Folds(it, C, step, n)
    BY <1>1, <1>3, <1>6, FoldExists
  <2>2. ASSUME NEW s \in SUBSET D, s # {} PROVE Max(s) \in 1..n
    <3>1. s \in SUBSET (1..n)
      BY <1>1
    <3> QED
      BY <1>1, <2>2, <3>1, MaxIn
  <2>3. ASSUME NEW s \in SUBSET D
        PROVE  it[s] = IF s = {} THEN C ELSE St(it[s \ {Max(s)}], R[Max(s)])
    <3>1. CASE s = {}
      BY <1>1, <2>1, <3>1 DEF Folds
    <3>2. CASE s # {}
      <4>1. it[s] = step[Max(s)][it[s \ {Max(s)}]]
        BY <1>1, <2>1, <3>2 DEF Folds
      <4>2. it[s \ {Max(s)}] \in A /\ Max(s) \in 1..n
        BY <1>1, <2>1, <2>2, <3>2
      <4> QED
        BY <1>7, <3>2, <4>1, <4>2
    <3> QED
      BY <3>1, <3>2
  <2>4. it = F(it)
    BY <1>1, <2>3
  <2> QED
    BY <2>4
<1>9. It = F(It)
  BY <1>8
<1> HIDE DEF It
<1>10. It[{}] = C
  BY <1>9
<1>11. ASSUME NEW k \in 1..n
       PROVE  It[1..k] = St(It[1..(k - 1)], R[k])
  <2> HIDE DEF n, D, R
  <2>1. 1..k \in SUBSET D /\ k \in 1..k /\ 1..k \in SUBSET (1..k)
    BY <1>1
  <2>2. Max(1..k) = k
    BY <1>1, <2>1, MaxIsTop
  <2>3. (1..k) \ {k} = 1..(k - 1)
    OBVIOUS
  <2>4. It[1..k] = St(It[(1..k) \ {Max(1..k)}], R[Max(1..k)])
    BY <1>9, <2>1
  <2> QED
    BY <2>2, <2>3, <2>4
<1> DEFINE val == [k \in 0..n |-> It[1..k]]
           m == [i \in D |-> Matches(R[i].selector, Target, o, path)]
           w == [i \in D |-> ComparabilityRank(R[i].comparability)]
<1>12. val[0] = C
  <2>1. 1..0 = {} /\ 0 \in 0..n
    BY <1>1
  <2> QED
    BY <1>10, <2>1
<1>13. ASSUME NEW k \in 1..n
       PROVE  val[k] = IF m[k] /\ w[k] > val[k - 1] THEN w[k] ELSE val[k - 1]
  <2>1. k \in 0..n /\ k - 1 \in 0..n /\ k \in D
    BY <1>1
  <2>2. /\ val[k] = It[1..k] /\ val[k - 1] = It[1..(k - 1)]
        /\ m[k] = Matches(R[k].selector, Target, o, path)
        /\ w[k] = ComparabilityRank(R[k].comparability)
    BY <2>1
  <2>3. It[1..k] = St(It[1..(k - 1)], R[k])
    BY <1>11
  <2> HIDE DEF val, m, w, R, n, D
  <2> QED
    BY <2>2, <2>3 DEF St, Narrowed
<1>14. \A i \in 1..n : w[i] \in 1..5
  BY <1>1, <1>4 DEF A
<1>15. C \in 1..5
  BY <1>3 DEF A
<1>16. val[n] = It[D]
  <2>1. n \in 0..n
    BY <1>1
  <2> QED
    BY <1>1, <2>1
<1> HIDE DEF val, m, w
<1>17. Narrowest(m, w, C, val, n)
  BY <1>1, <1>12, <1>13, <1>14, <1>15, NarrowestAtEnd
<1> QED
  BY <1>2, <1>16, <1>17 DEF m, w, C

\* "Policy narrows comparison only: a rule can never turn an unmanaged field back
\* into a managed one" (policy.cpp:333), for every policy: a field is compared by
\* the narrowest of the intent's view and of all the rules that match it.
THEOREM RulesOnlyNarrow ==
    ASSUME NEW p \in PolicyChoices, NEW o, NEW path, NEW c \in Range(Comparability)
    PROVE  LET rank(x) == ComparabilityRank(x)
               result == ClassifyField(p, Target, o, path, c)
               applies(i) == Matches(p.fieldRules[i].selector, Target, o, path)
           IN  /\ rank(result) >= rank(c)
               /\ \A i \in DOMAIN p.fieldRules :
                     applies(i) => rank(result) >= rank(p.fieldRules[i].comparability)
               /\ \/ result = c
                  \/ \E i \in DOMAIN p.fieldRules : applies(i) /\ result = p.fieldRules[i].comparability
<1> DEFINE R == p.fieldRules
           m == [i \in DOMAIN R |-> Matches(R[i].selector, Target, o, path)]
           w == [i \in DOMAIN R |-> ComparabilityRank(R[i].comparability)]
           n == Len(R)
           result == ClassifyField(p, Target, o, path, c)
<1>1. IsPolicy(p)
  BY ComparisonAssumption
<1>2. DOMAIN R = 1..n
  BY <1>1 DEF IsPolicy
<1>3. PICK val : Narrowest(m, w, ComparabilityRank(c), val, n) /\ result = Comparability[val[n]]
  BY <1>1, Classified
<1>4. \A i \in DOMAIN R :
         /\ m[i] = Matches(R[i].selector, Target, o, path)
         /\ w[i] = ComparabilityRank(R[i].comparability)
         /\ Comparability[w[i]] = R[i].comparability
  BY <1>1, RankTyped DEF IsPolicy
<1> HIDE DEF m, w
<1>5. /\ val[n] \in 1..5 /\ val[n] >= ComparabilityRank(c)
      /\ \A i \in 1..n : m[i] => val[n] >= w[i]
      /\ val[n] = ComparabilityRank(c) \/ \E i \in 1..n : m[i] /\ val[n] = w[i]
  BY <1>3 DEF Narrowest
<1> HIDE DEF result
<1>6. ComparabilityRank(result) = val[n]
  BY <1>3, <1>5, RankInverse
<1>7. result = c \/ \E i \in DOMAIN R : Matches(R[i].selector, Target, o, path) /\ result = R[i].comparability
  BY <1>2, <1>3, <1>4, <1>5, RankTyped
<1>8. \A i \in DOMAIN R : Matches(R[i].selector, Target, o, path)
         => ComparabilityRank(result) >= ComparabilityRank(R[i].comparability)
  BY <1>2, <1>4, <1>5, <1>6
<1>9. ComparabilityRank(result) >= ComparabilityRank(c)
  BY <1>5, <1>6
<1> QED
  BY <1>7, <1>8, <1>9 DEF result

-----------------------------------------------------------------------------
(* The priorities of sources *)

\* The rank of a source is a number.
LEMMA PriorityTyped ==
    ASSUME NEW p, IsPolicy(p), NEW source
    PROVE  PriorityOf(p, source) \in Nat
<1> DEFINE P == p.priority
           T == {i \in DOMAIN P : P[i] = source}
<1>1. P \in Seq(Nat) /\ DOMAIN P = 1..Len(P) /\ Len(P) \in Nat
  BY DEF IsPolicy
<1>2. CASE T = {}
  BY <1>1, <1>2 DEF PriorityOf
<1>3. CASE T # {}
  <2>1. T \in SUBSET Nat
    BY <1>1
  <2>2. PICK i \in T : \A j \in T : i <= j
    BY <1>3, <2>1, NatMin
  <2>3. i \in DOMAIN P /\ P[i] = source /\ \A j \in 1..(i - 1) : P[j] # source
    <3>1. ASSUME NEW j \in 1..(i - 1), P[j] = source PROVE FALSE
      <4>1. j \in T /\ i \in Nat /\ j < i
        BY <1>1, <2>1, <2>2, <3>1
      <4> QED
        BY <2>2, <4>1
    <3> QED
      BY <2>2, <3>1
  <2>4. PriorityOf(p, source) \in DOMAIN P
    BY <2>3 DEF PriorityOf
  <2> QED
    BY <1>1, <2>4
<1> QED
  BY <1>2, <1>3

\* What a view must be for the order to make sense.
IsView(v) == v.usable \in BOOLEAN /\ v.priority \in Nat /\ IsSnapshot(v.snap)

\* The key of a view is seven integers.
LEMMA KeyTyped ==
    ASSUME NEW v, IsView(v)
    PROVE  /\ DOMAIN ViewKey(v) = 1..7
           /\ \A i \in 1..7 : ViewKey(v)[i] \in Int
           /\ ViewKey(v)[1] = IF v.usable THEN 0 ELSE 1
           /\ ViewKey(v)[2] = v.priority
           /\ ViewKey(v)[7] = v.snap.source
<1>1. /\ v.priority \in Int /\ -v.snap.epoch \in Int /\ -v.snap.incarnation \in Int
      /\ -v.snap.sequence \in Int /\ v.snap.source \in Int
  BY DEF IsView, IsSnapshot
<1>2. /\ (IF v.usable THEN 0 ELSE 1) \in Int
      /\ (IF v.snap.complete THEN 0 ELSE 1) \in Int
  OBVIOUS
<1> QED
  BY <1>1, <1>2 DEF ViewKey

\* ViewLess is a strict order: nothing is less than itself.
LEMMA LessIrreflexive ==
    ASSUME NEW v, IsView(v)
    PROVE  ~ViewLess(v, v)
  BY KeyTyped DEF ViewLess

\* It is transitive: the first position at which two of three keys differ
\* decides.
LEMMA LessTransitive ==
    ASSUME NEW u, NEW v, NEW w, IsView(u), IsView(v), IsView(w), ViewLess(u, v), ViewLess(v, w)
    PROVE  ViewLess(u, w)
<1> DEFINE a == ViewKey(u)
           b == ViewKey(v)
           c == ViewKey(w)
<1>1. /\ DOMAIN a = 1..7 /\ DOMAIN b = 1..7
      /\ \A i \in 1..7 : a[i] \in Int /\ b[i] \in Int /\ c[i] \in Int
  BY KeyTyped
<1>2. PICK i \in 1..7 : a[i] < b[i] /\ \A j \in 1..(i - 1) : a[j] = b[j]
  BY <1>1 DEF ViewLess
<1>3. PICK k \in 1..7 : b[k] < c[k] /\ \A j \in 1..(k - 1) : b[j] = c[j]
  BY <1>1 DEF ViewLess
<1>4. \E m \in 1..7 : a[m] < c[m] /\ \A j \in 1..(m - 1) : a[j] = c[j]
  <2> HIDE DEF a, b, c
  <2>1. CASE i < k
    BY <1>1, <1>2, <1>3, <2>1
  <2>2. CASE i = k
    BY <1>1, <1>2, <1>3, <2>2
  <2>3. CASE i > k
    BY <1>1, <1>2, <1>3, <2>3
  <2> QED
    BY <2>1, <2>2, <2>3
<1> QED
  BY <1>1, <1>4 DEF ViewLess

\* It is total on views of different sources.
LEMMA LessTotal ==
    ASSUME NEW v, NEW w, IsView(v), IsView(w), v.snap.source # w.snap.source
    PROVE  ViewLess(v, w) \/ ViewLess(w, v)
<1> DEFINE a == ViewKey(v)
           b == ViewKey(w)
           T == {i \in 1..7 : a[i] # b[i]}
<1>1. /\ DOMAIN a = 1..7 /\ DOMAIN b = 1..7
      /\ \A i \in 1..7 : a[i] \in Int /\ b[i] \in Int
      /\ a[7] # b[7]
  BY KeyTyped
<1> HIDE DEF a, b
<1>2. T \in SUBSET Nat /\ T # {}
  BY <1>1
<1>3. PICK i \in T : \A j \in T : i <= j
  BY <1>2, NatMin
<1>4. i \in 1..7 /\ \A j \in 1..(i - 1) : a[j] = b[j]
  BY <1>3
<1>5. a[i] < b[i] \/ b[i] < a[i]
  BY <1>1, <1>3
<1>6. CASE a[i] < b[i]
  BY <1>1, <1>4, <1>6 DEF ViewLess, a, b
<1>7. CASE b[i] < a[i]
  <2>1. \A j \in 1..(i - 1) : b[j] = a[j]
    BY <1>4
  <2> QED
    BY <1>1, <1>4, <1>7, <2>1 DEF ViewLess, a, b
<1> QED
  BY <1>5, <1>6, <1>7

\* A finite set of views of different sources has a first one, and it is the
\* primary view.
LEMMA PrimaryIsFirst ==
    ASSUME NEW V, IsFiniteSet(V), V # {}, \A v \in V : IsView(v),
           \A v, w \in V : v.snap.source = w.snap.source => v = w
    PROVE  /\ Primary(V) \in V
           /\ \A w \in V \ {Primary(V)} : ViewLess(Primary(V), w)
<1> DEFINE Below(v) == {w \in V : ViewLess(w, v)}
           T == {Cardinality(Below(v)) : v \in V}
<1>1. ASSUME NEW v \in V PROVE IsFiniteSet(Below(v)) /\ Cardinality(Below(v)) \in Nat
  <2>1. Below(v) \in SUBSET V
    OBVIOUS
  <2> HIDE DEF Below
  <2>2. IsFiniteSet(Below(v))
    BY <2>1, FS_Subset
  <2> QED
    BY <2>2, FS_CardinalityType
<1>2. T \in SUBSET Nat /\ T # {}
  <2> HIDE DEF Below
  <2> QED
    BY <1>1
<1>3. PICK n \in T : \A m \in T : n <= m
  BY <1>2, NatMin
<1>4. PICK v \in V : n = Cardinality(Below(v))
  BY <1>3
<1>5. ASSUME NEW w \in V \ {v} PROVE ViewLess(v, w)
  <2> SUFFICES ASSUME ~ViewLess(v, w) PROVE FALSE
    OBVIOUS
  <2>1. ViewLess(w, v)
    BY <1>5, LessTotal
  <2>2. Below(w) \subseteq Below(v)
    BY <1>5, <2>1, LessTransitive
  <2>3. w \in Below(v) /\ w \notin Below(w)
    BY <1>5, <2>1, LessIrreflexive
  <2> HIDE DEF Below
  <2>4. /\ IsFiniteSet(Below(v)) /\ IsFiniteSet(Below(w))
        /\ Cardinality(Below(v)) \in Nat /\ Cardinality(Below(w)) \in Nat
    BY <1>1, <1>5
  <2>5. /\ Cardinality(Below(w)) <= Cardinality(Below(v))
        /\ Cardinality(Below(v)) = Cardinality(Below(w)) => Below(v) = Below(w)
    BY <2>2, <2>4, FS_Subset
  <2>6. Cardinality(Below(w)) < Cardinality(Below(v))
    BY <2>3, <2>4, <2>5
  <2>7. Cardinality(Below(v)) <= Cardinality(Below(w))
    BY <1>3, <1>4, <1>5
  <2> QED
    BY <2>4, <2>6, <2>7
<1>6. \E x \in V : \A w \in V \ {x} : ViewLess(x, w)
  BY <1>5
<1> QED
  BY <1>6 DEF Primary

-----------------------------------------------------------------------------
(* What is retained, step by step *)

\* Stamping the receive time or the recovered flag leaves the rest alone.
LEMMA Stamped ==
    ASSUME NEW s, IsSnapshot(s), NEW t \in Int
    PROVE  LET r == [s EXCEPT !.received = t]
           IN  /\ IsSnapshot(r) /\ r.received = t
               /\ r.source = s.source /\ r.epoch = s.epoch
               /\ r.incarnation = s.incarnation /\ r.sequence = s.sequence
<1> DEFINE r == [s EXCEPT !.received = t]
<1>1. /\ DOMAIN r = DOMAIN s /\ r.received = t
      /\ r.source = s.source /\ r.epoch = s.epoch
      /\ r.incarnation = s.incarnation /\ r.sequence = s.sequence
      /\ r.collected = s.collected /\ r.ttl = s.ttl /\ r.complete = s.complete
      /\ r.objects = s.objects
  BY DEF IsSnapshot
<1> HIDE DEF r
<1>2. IsSnapshot(r)
  BY <1>1 DEF IsSnapshot
<1>3. /\ IsSnapshot(r) /\ r.received = t
      /\ r.source = s.source /\ r.epoch = s.epoch
      /\ r.incarnation = s.incarnation /\ r.sequence = s.sequence
  BY <1>1, <1>2
<1> QED
  BY <1>3 DEF r

\* A recorded observation is retained beside the others; its position differs
\* from that of the claim it follows.
LEMMA RecordStep ==
    ASSUME IInv, NEW s \in Snapshots, RecordObservation(s)
    PROVE  IInv'
<1> USE ComparisonAssumption
<1> DEFINE r == [s EXCEPT !.received = now]
           n == [snap |-> r, recovered |-> FALSE]
<1>1. IsSnapshot(s) /\ now \in Int /\ 1 <= now
  BY DEF IInv
<1>2. /\ IsSnapshot(r) /\ r.received = now
      /\ r.source = s.source /\ r.epoch = s.epoch
      /\ r.incarnation = s.incarnation /\ r.sequence = s.sequence
  BY <1>1, Stamped
<1>3. /\ retained' = retained \cup {n}
      /\ baseline' = baseline /\ policy' = policy /\ now' = now
      /\ Cardinality(retained) < MaxRetained /\ Admissible(s)
  BY DEF RecordObservation
<1> HIDE DEF r
<1>4. n.snap = r /\ DOMAIN n = {"snap", "recovered"}
  OBVIOUS
<1> HIDE DEF n
<1>5. IsFiniteSet(retained') /\ Cardinality(retained') <= MaxRetained
  <2>1. IsFiniteSet(retained) /\ Cardinality(retained) \in Nat
    BY FS_CardinalityType DEF IInv
  <2>2. /\ IsFiniteSet(retained \cup {n})
        /\ \/ Cardinality(retained \cup {n}) = Cardinality(retained)
           \/ Cardinality(retained \cup {n}) = Cardinality(retained) + 1
    BY <2>1, FS_AddElement
  <2> QED
    BY <1>3, <2>1, <2>2
<1>6. ASSUME NEW o \in retained' PROVE IsRetained(o)'
  <2>1. CASE o = n
    BY <1>1, <1>2, <1>3, <1>4, <2>1 DEF IsRetained
  <2>2. CASE o \in retained
    BY <1>3, <2>2 DEF IInv, IsRetained
  <2> QED
    BY <1>3, <2>1, <2>2
<1>7. \A o \in retained' : o.snap.epoch \in Nat /\ o.snap.incarnation \in Nat /\ o.snap.sequence \in Nat
  BY <1>6 DEF IsRetained, IsSnapshot
<1>8. ASSUME NEW y \in retained, y.snap.source = s.source,
             \A z \in retained : z.snap.source = y.snap.source => ~Newer(z.snap, y.snap),
             ~Newer(n.snap, y.snap), ~Newer(y.snap, n.snap)
      PROVE  FALSE
  <2>1. y \in Claims(retained, policy, now)
    BY <1>8 DEF Claims
  <2>2. /\ s.incarnation >= y.snap.incarnation
        /\ s.epoch >= y.snap.epoch
        /\ s.incarnation = y.snap.incarnation => s.sequence # y.snap.sequence
    BY <1>3, <1>8, <2>1 DEF Admissible
  <2>3. /\ s.epoch \in Nat /\ s.incarnation \in Nat /\ s.sequence \in Nat
        /\ y.snap.epoch \in Nat /\ y.snap.incarnation \in Nat /\ y.snap.sequence \in Nat
    BY <1>1, <1>3, <1>7 DEF IsSnapshot
  <2> QED
    BY <1>2, <1>4, <1>8, <2>2, <2>3 DEF Newer
<1>9. OneClaim'
  <2> SUFFICES ASSUME NEW x \in retained', NEW y \in retained', x.snap.source = y.snap.source,
                      \A z \in retained' : z.snap.source = x.snap.source =>
                          ~Newer(z.snap, x.snap) /\ ~Newer(z.snap, y.snap)
               PROVE  x = y
    BY DEF OneClaim, Newer
  <2>1. CASE x \in retained /\ y \in retained
    BY <1>3, <2>1 DEF IInv, OneClaim
  <2>2. CASE x = n /\ y \in retained
    <3>1. ~Newer(n.snap, y.snap) /\ ~Newer(y.snap, n.snap) /\ y.snap.source = s.source
      BY <1>2, <1>3, <1>4, <2>2
    <3> QED
      BY <1>3, <1>8, <2>2, <3>1
  <2>3. CASE y = n /\ x \in retained
    <3>1. ~Newer(n.snap, x.snap) /\ ~Newer(x.snap, n.snap) /\ x.snap.source = s.source
      BY <1>2, <1>3, <1>4, <2>3
    <3> QED
      BY <1>3, <1>8, <2>3, <3>1
  <2> QED
    BY <1>3, <2>1, <2>2, <2>3
<1> QED
  BY <1>3, <1>5, <1>6, <1>9 DEF IInv

\* A restart marks every observation and changes none of the snapshots.
LEMMA InvalidateStep ==
    ASSUME IInv, InvalidateRetainedEvidence
    PROVE  IInv'
<1> USE ComparisonAssumption
<1> DEFINE f == [o \in retained |-> [o EXCEPT !.recovered = TRUE]]
<1>1. /\ retained' = {f[o] : o \in retained}
      /\ baseline' = baseline /\ policy' = policy /\ now' = now
  BY DEF InvalidateRetainedEvidence
<1>2. ASSUME NEW o \in retained PROVE f[o].snap = o.snap /\ DOMAIN f[o] = DOMAIN o
  BY DEF IInv, IsRetained
<1>3. f \in Surjection(retained, retained')
  BY <1>1, Zenon DEF Surjection
<1> HIDE DEF f
<1>4. IsFiniteSet(retained') /\ Cardinality(retained') <= MaxRetained
  <2>1. IsFiniteSet(retained) /\ Cardinality(retained) \in Nat /\ Cardinality(retained) <= MaxRetained
    BY FS_CardinalityType DEF IInv
  <2>2. IsFiniteSet(retained') /\ Cardinality(retained') <= Cardinality(retained)
    BY <1>3, <2>1, FS_Surjection
  <2>3. Cardinality(retained') \in Nat
    BY <2>2, FS_CardinalityType
  <2> QED
    BY <2>1, <2>2, <2>3
<1>5. ASSUME NEW o \in retained' PROVE IsRetained(o)'
  <2>1. PICK x \in retained : o = f[x]
    BY <1>1
  <2> QED
    BY <1>1, <1>2, <2>1 DEF IInv, IsRetained
<1>6. OneClaim'
  <2> SUFFICES ASSUME NEW x \in retained', NEW y \in retained', x.snap.source = y.snap.source,
                      \A z \in retained' : z.snap.source = x.snap.source =>
                          ~Newer(z.snap, x.snap) /\ ~Newer(z.snap, y.snap)
               PROVE  x = y
    BY DEF OneClaim, Newer
  <2>1. PICK x0 \in retained : x = f[x0]
    BY <1>1
  <2>2. PICK y0 \in retained : y = f[y0]
    BY <1>1
  <2>3. ASSUME NEW z \in retained, z.snap.source = x0.snap.source
        PROVE  ~Newer(z.snap, x0.snap) /\ ~Newer(z.snap, y0.snap)
    <3>1. f[z] \in retained' /\ f[z].snap = z.snap /\ x.snap = x0.snap /\ y.snap = y0.snap
      BY <1>1, <1>2, <2>1, <2>2
    <3> QED
      BY <2>3, <3>1
  <2>4. x0.snap.source = y0.snap.source
    BY <1>2, <2>1, <2>2
  <2>5. x0 = y0
    BY <2>3, <2>4 DEF IInv, OneClaim
  <2> QED
    BY <2>1, <2>2, <2>5
<1> QED
  BY <1>1, <1>4, <1>5, <1>6 DEF IInv

\* The state the comparison is asked about: retained observations are bounded
\* in number, well formed and received by now, and the ledger's admission rule
\* (ledger.cpp:334) leaves every source one newest observation.
THEOREM ComparisonInvariant == Spec => []IInv
<1> USE ComparisonAssumption
<1>1. Init => IInv
  <2> SUFFICES ASSUME Init PROVE IInv
    OBVIOUS
  <2>1. IsFiniteSet({}) /\ Cardinality({}) = 0
    BY FS_EmptySet
  <2> QED
    BY <2>1 DEF Init, IInv, OneClaim
<1>2. IInv /\ [Next]_vars => IInv'
  <2> SUFFICES ASSUME IInv, [Next]_vars PROVE IInv'
    OBVIOUS
  <2>1. CASE \E b \in Baselines : CommitIntent(b)
    BY <2>1 DEF IInv, CommitIntent, OneClaim, IsRetained, Newer
  <2>2. CASE \E s \in Snapshots : RecordObservation(s)
    BY <2>2, RecordStep
  <2>3. CASE InvalidateRetainedEvidence
    BY <2>3, InvalidateStep
  <2>4. CASE Tick
    <3>1. now \in Nat /\ now' = now + 1 /\ UNCHANGED <<baseline, retained, policy>>
      BY <2>4 DEF IInv, Tick
    <3>2. now' \in Nat \ {0} /\ now <= now'
      BY <3>1
    <3>3. ASSUME NEW o \in retained' PROVE IsRetained(o)'
      <4>1. IsRetained(o)
        BY <3>1, <3>3 DEF IInv
      <4> QED
        BY <3>1, <3>2, <4>1 DEF IsRetained
    <3> QED
      BY <3>1, <3>2, <3>3 DEF IInv, OneClaim
  <2>5. CASE UNCHANGED vars
    BY <2>5 DEF vars, IInv, OneClaim, IsRetained
  <2> QED
    BY <2>1, <2>2, <2>3, <2>4, <2>5 DEF Next
<1> QED
  BY <1>1, <1>2, PTL DEF Spec

-----------------------------------------------------------------------------
(* Freshness *)

PolicyTtl(p) == TtlFor(p, Target, "@target", <<>>)

\* What a usable verdict says, in one formula.
Usable(o, p, at) ==
    LET ttl == EffectiveTtl(o.snap, [ttl |-> PolicyTtl(p)])
        age == at - o.snap.collected
        held == at - o.snap.received
    IN  /\ o.snap.collected # 0 /\ age \in Int64
        /\ ~o.recovered /\ o.snap.epoch = LiveEpoch
        /\ -p.skew <= age /\ 0 < ttl /\ age <= ttl
        /\ p.receive => held \in Int64 /\ held <= ttl

\* EvaluateFreshness calls evidence fresh or aging exactly then.
LEMMA VerdictMeaning ==
    ASSUME NEW o, NEW p, NEW at \in Int, IsPolicy(p), IsSnapshot(o.snap),
           o.snap.received \in Int, 1 <= o.snap.received
    PROVE  MaySupportCompliance(Verdict(o, p, at)) <=> Usable(o, p, at)
<1> USE ComparisonAssumption, FreshnessAssumption
<1> DEFINE s == o.snap
           q == [p EXCEPT !.ttl = TtlFor(p, Target, "@target", <<>>)]
           ttl == EffectiveTtl(s, q)
           age == at - s.collected
           held == at - s.received
           v == EvaluateFreshness(s, q, at, LiveEpoch, o.recovered)
           w == WithinLifetime(s, q, at, age, ttl)
<1>1. /\ q.ttl = PolicyTtl(p) /\ q.skew = p.skew /\ q.receive = p.receive /\ q.aging = p.aging
  BY DEF IsPolicy, PolicyTtl
<1>2. s.collected \in Int /\ s.received \in Int /\ s.received # 0 /\ s.ttl \in Int /\ s.epoch \in Nat
  BY DEF IsSnapshot
<1>3. PolicyTtl(p) \in Int /\ p.skew \in Nat
  BY TtlTyped DEF IsPolicy, PolicyTtl
<1>4. ttl = EffectiveTtl(s, [ttl |-> PolicyTtl(p)]) /\ ttl \in Int
  BY <1>1, <1>2, <1>3 DEF EffectiveTtl
<1>5. age \in Int /\ held \in Int
  BY <1>2
<1>6. v = EvaluateFreshness(s, q, at, LiveEpoch, o.recovered) /\ v = Verdict(o, p, at)
  BY DEF Verdict
<1> HIDE DEF q, s, ttl, v
<1>7. TryDifference(at, s.collected) = IF age \in Int64 THEN {age} ELSE {}
  BY DEF TryDifference
<1>8. TryDifference(at, s.received) = IF held \in Int64 THEN {held} ELSE {}
  BY DEF TryDifference
<1>9. w \in {"Fresh", "Aging"} <=> (q.receive => held \in Int64 /\ ~(held > ttl))
  BY <1>2, <1>8 DEF WithinLifetime, Unset
<1> HIDE DEF w, age, held
<1>10. age \in Int64 => (CHOOSE a \in TryDifference(at, s.collected) : TRUE) = age
  BY <1>7
<1>11. v = IF s.collected = 0 \/ ~(age \in Int64) THEN "Unknown"
           ELSE IF o.recovered THEN "RecoveredNotFresh"
           ELSE IF s.epoch # LiveEpoch THEN "Expired"
           ELSE IF age < -q.skew THEN "Future"
           ELSE IF ttl <= 0 THEN "Expired"
           ELSE IF age > ttl THEN "Stale"
           ELSE w
  <2>1. CASE s.collected = 0 \/ ~(age \in Int64)
    BY <1>6, <1>7, <2>1 DEF EvaluateFreshness, Unset
  <2>2. CASE s.collected # 0 /\ age \in Int64
    <3>1. TryDifference(at, s.collected) # {}
      BY <1>7, <2>2
    <3> QED
      BY <1>6, <1>10, <2>2, <3>1 DEF EvaluateFreshness, Unset, ttl, w
  <2> QED
    BY <2>1, <2>2
<1>12. v \in {"Fresh", "Aging"} <=>
         /\ s.collected # 0 /\ age \in Int64 /\ ~o.recovered /\ s.epoch = LiveEpoch
         /\ ~(age < -q.skew) /\ ~(ttl <= 0) /\ ~(age > ttl) /\ w \in {"Fresh", "Aging"}
  BY <1>11
<1>13. /\ ~(age < -q.skew) <=> -p.skew <= age
       /\ ~(ttl <= 0) <=> 0 < ttl
       /\ ~(age > ttl) <=> age <= ttl
       /\ ~(held > ttl) <=> held <= ttl
  BY <1>1, <1>3, <1>4, <1>5
<1>14. v \in {"Fresh", "Aging"} <=>
         /\ s.collected # 0 /\ age \in Int64 /\ ~o.recovered /\ s.epoch = LiveEpoch
         /\ -p.skew <= age /\ 0 < ttl /\ age <= ttl
         /\ p.receive => held \in Int64 /\ held <= ttl
  BY <1>1, <1>9, <1>12, <1>13
<1>15. Usable(o, p, at) <=>
         /\ s.collected # 0 /\ age \in Int64 /\ ~o.recovered /\ s.epoch = LiveEpoch
         /\ -p.skew <= age /\ 0 < ttl /\ age <= ttl
         /\ p.receive => held \in Int64 /\ held <= ttl
  BY <1>4, Zenon DEF Usable, s, age, held
<1> QED
  BY <1>6, <1>14, <1>15 DEF MaySupportCompliance

\* StaleStaysStale for every width, clock, policy and history: what is no longer
\* usable stays so as the clock goes on (EvaluateFreshness, freshness.cpp).
THEOREM WaitingDoesNotRefresh == Spec => StaleStaysStale
<1> USE ComparisonAssumption, FreshnessAssumption
<1> DEFINE A == \A o \in retained :
                  (/\ o \in retained' /\ o.snap.collected <= now
                   /\ ~MaySupportCompliance(Verdict(o, policy, now)))
                     => ~MaySupportCompliance(Verdict(o, policy, now)')
<1>1. IInv /\ [Next]_vars => [A]_vars
  <2> SUFFICES ASSUME IInv, Next PROVE A
    BY DEF A
  <2> SUFFICES ASSUME NEW o \in retained, o \in retained', o.snap.collected <= now,
                      MaySupportCompliance(Verdict(o, policy, now)')
               PROVE  MaySupportCompliance(Verdict(o, policy, now))
    OBVIOUS
  <2>1. policy' = policy /\ (now' = now \/ now' = now + 1)
    BY DEF Next, CommitIntent, RecordObservation, InvalidateRetainedEvidence, Tick
  <2>2. Verdict(o, policy, now)' = Verdict(o, policy, now')
    BY <2>1 DEF Verdict
  <2>3. CASE now' = now
    BY <2>2, <2>3
  <2>4. CASE now' = now + 1
    <3>1. /\ IsPolicy(policy) /\ IsSnapshot(o.snap) /\ now \in Nat /\ now' \in Int
          /\ o.snap.received \in Int /\ 1 <= o.snap.received /\ o.snap.received <= now
      BY <2>4 DEF IInv, IsRetained
    <3>2. Usable(o, policy, now')
      BY <2>2, <3>1, VerdictMeaning
    <3> DEFINE ttl == EffectiveTtl(o.snap, [ttl |-> PolicyTtl(policy)])
    <3>3. /\ o.snap.collected \in Int /\ policy.skew \in Nat /\ ttl \in Int
      <4>1. PolicyTtl(policy) \in Int
        BY <3>1, TtlTyped DEF PolicyTtl
      <4> QED
        BY <3>1, <4>1 DEF IsSnapshot, IsPolicy, EffectiveTtl
    <3>4. /\ o.snap.collected # 0 /\ now' - o.snap.collected \in Int64
          /\ ~o.recovered /\ o.snap.epoch = LiveEpoch
          /\ 0 < ttl /\ now' - o.snap.collected <= ttl
          /\ policy.receive => /\ now' - o.snap.received \in Int64
                               /\ now' - o.snap.received <= ttl
      BY <3>2 DEF Usable
    <3> HIDE DEF ttl
    <3>5. /\ now - o.snap.collected \in Int64 /\ -policy.skew <= now - o.snap.collected
          /\ now - o.snap.collected <= ttl
      BY <2>4, <3>1, <3>3, <3>4 DEF Int64
    <3>6. policy.receive => now - o.snap.received \in Int64 /\ now - o.snap.received <= ttl
      BY <2>4, <3>1, <3>3, <3>4 DEF Int64
    <3>7. Usable(o, policy, now)
      BY <3>4, <3>5, <3>6 DEF Usable, ttl
    <3> QED
      BY <3>1, <3>7, VerdictMeaning
  <2> QED
    BY <2>1, <2>3, <2>4
<1>2. Spec => [][A]_vars
  BY <1>1, ComparisonInvariant, PTL DEF Spec
<1> QED
  BY <1>2 DEF StaleStaysStale

-----------------------------------------------------------------------------
(* The primary view *)

Seen == Views(retained, policy, now)

\* What BuildViews hands on: the judged claims, one per source.
LEMMA ViewsTyped ==
    ASSUME IInv
    PROVE  /\ IsFiniteSet(Seen)
           /\ \A v \in Seen : IsView(v)
           /\ \A v, w \in Seen : v.snap.source = w.snap.source => v = w
           /\ \A v \in Seen : \E o \in Claims(retained, policy, now) : v = View(o, policy, now)
<1> USE ComparisonAssumption
<1> DEFINE C == Claims(retained, policy, now)
           f == [o \in C |-> View(o, policy, now)]
<1>1. C \subseteq retained
  BY DEF Claims
<1>2. IsFiniteSet(C)
  BY <1>1, FS_Subset DEF IInv
<1>3. Seen = {View(o, policy, now) : o \in C}
  BY DEF Seen, Views
<1>4. IsFiniteSet(Seen)
  <2>1. f \in Surjection(C, Seen)
    BY <1>3, Zenon DEF Surjection
  <2> HIDE DEF f
  <2> QED
    BY <1>2, <2>1, FS_Surjection
<1>5. ASSUME NEW o \in C PROVE IsView(View(o, policy, now)) /\ View(o, policy, now).snap = o.snap
  <2>1. IsSnapshot(o.snap) /\ IsPolicy(policy)
    BY <1>1 DEF IInv, IsRetained
  <2>2. PriorityOf(policy, o.snap.source) \in Nat
    BY <2>1, PriorityTyped
  <2>3. MaySupportCompliance(Verdict(o, policy, now)) \in BOOLEAN
    BY DEF MaySupportCompliance
  <2> QED
    BY <2>1, <2>2, <2>3 DEF View, IsView
<1>6. ASSUME NEW v \in Seen, NEW w \in Seen, v.snap.source = w.snap.source PROVE v = w
  <2>1. PICK x \in C : v = View(x, policy, now)
    BY <1>3
  <2>2. PICK y \in C : w = View(y, policy, now)
    BY <1>3
  <2>3. x.snap.source = y.snap.source
    BY <1>5, <1>6, <2>1, <2>2
  <2>4. \A z \in retained : z.snap.source = x.snap.source =>
           ~Newer(z.snap, x.snap) /\ ~Newer(z.snap, y.snap)
    BY <2>3 DEF Claims
  <2>5. x = y
    BY <1>1, <2>3, <2>4 DEF IInv, OneClaim
  <2> QED
    BY <2>1, <2>2, <2>5
<1> QED
  BY <1>3, <1>4, <1>5, <1>6

\* If any view is usable the primary one is, and none that is usable ranks
\* before it.
LEMMA PrimaryUsable ==
    ASSUME IInv, ~\A v \in Seen : ~v.usable
    PROVE  /\ Primary(Seen) \in Seen /\ Primary(Seen).usable
           /\ \A w \in Seen : w.usable => Primary(Seen).priority <= w.priority
<1> DEFINE a == Primary(Seen)
<1>1. /\ IsFiniteSet(Seen) /\ Seen # {} /\ \A v \in Seen : IsView(v)
      /\ \A v, w \in Seen : v.snap.source = w.snap.source => v = w
  BY ViewsTyped
<1>2. a \in Seen /\ \A w \in Seen \ {a} : ViewLess(a, w)
  BY <1>1, PrimaryIsFirst
<1> HIDE DEF a
<1>3. ASSUME NEW w \in Seen, w.usable PROVE a.usable /\ a.priority <= w.priority
  <2>1. CASE w = a
    BY <1>1, <1>3, <2>1 DEF IsView
  <2>2. CASE w # a
    <3>1. /\ DOMAIN ViewKey(a) = 1..7
          /\ \A i \in 1..7 : ViewKey(a)[i] \in Int /\ ViewKey(w)[i] \in Int
          /\ ViewKey(a)[1] = IF a.usable THEN 0 ELSE 1
          /\ ViewKey(w)[1] = 0
          /\ ViewKey(a)[2] = a.priority /\ ViewKey(w)[2] = w.priority
      BY <1>1, <1>2, <1>3, KeyTyped
    <3>2. PICK i \in 1..7 : /\ ViewKey(a)[i] < ViewKey(w)[i]
                            /\ \A j \in 1..(i - 1) : ViewKey(a)[j] = ViewKey(w)[j]
      BY <1>2, <2>2, <3>1 DEF ViewLess
    <3>3. ViewKey(a)[1] <= ViewKey(w)[1]
      BY <3>1, <3>2
    <3>4. a.usable
      BY <3>1, <3>3
    <3>5. ViewKey(a)[1] = ViewKey(w)[1]
      BY <3>1, <3>4
    <3>6. ViewKey(a)[2] <= ViewKey(w)[2]
      BY <3>1, <3>2, <3>5
    <3> QED
      BY <3>1, <3>4, <3>6
  <2> QED
    BY <2>1, <2>2
<1> QED
  BY <1>2, <1>3 DEF a

-----------------------------------------------------------------------------
(* Where a draft comes from *)

IsDraft(d) ==
    {"object", "path", "klass", "raw", "qual", "severity"} \subseteq DOMAIN d /\ d.raw = d.klass

\* The severity of a draft is the one the policy's rules give its location and class.
Judged(p, d) == d.severity = SeverityFor(p, Target, d.object, d.path, d.klass)

\* MakeDraft fills a draft in.
LEMMA Made ==
    ASSUME NEW p, NEW o, NEW path, NEW k, NEW q
    PROVE  /\ IsDraft(MakeDraft(p, o, path, k, q))
           /\ MakeDraft(p, o, path, k, q).object = o
           /\ MakeDraft(p, o, path, k, q).path = path
           /\ MakeDraft(p, o, path, k, q).klass = k
           /\ Judged(p, MakeDraft(p, o, path, k, q))
  BY DEF MakeDraft, IsDraft, Judged

\* A draft about an intended object.
LEMMA ObjectDraft ==
    ASSUME NEW p, NEW s, NEW b, NEW d \in ObjectDrafts(p, s, b)
    PROVE  /\ IsDraft(d) /\ Judged(p, d) /\ d.object \in DOMAIN b.objects
           /\ d.klass = ObjectClass(p, s, d.object, b.objects[d.object].required)
<1>1. PICK o \in DOMAIN b.objects :
        d = MakeDraft(p, o, <<>>, ObjectClass(p, s, o, b.objects[o].required), NoQualifier)
  BY Zenon DEF ObjectDrafts
<1> QED
  BY <1>1, Made

\* A draft about an intended field.
LEMMA FieldDraft ==
    ASSUME NEW p, NEW s, NEW b, NEW d \in FieldDrafts(p, s, b)
    PROVE  /\ IsDraft(d) /\ Judged(p, d) /\ d.object \in Compared(s, b)
           /\ d.klass = FieldClass(p, s, d.object, d.path, b.objects[d.object].fields[d.path])
<1>1. PICK o \in Compared(s, b) :
        d \in {MakeDraft(p, o, path, FieldClass(p, s, o, path, b.objects[o].fields[path]), NoQualifier) :
                 path \in {q \in DOMAIN b.objects[o].fields : ~IsReservedPath(q)}}
  BY Zenon DEF FieldDrafts
<1>2. PICK path \in {q \in DOMAIN b.objects[o].fields : ~IsReservedPath(q)} :
        d = MakeDraft(p, o, path, FieldClass(p, s, o, path, b.objects[o].fields[path]), NoQualifier)
  BY <1>1, Zenon
<1> QED
  BY <1>2, Made

\* A draft about what the intent does not declare.
LEMMA UndeclaredDraft ==
    ASSUME NEW p, NEW s, NEW b, NEW d \in UndeclaredDrafts(p, s, b)
    PROVE  IsDraft(d) /\ Judged(p, d) /\ d.klass \in {"FieldUnexpected", "Unexpected"}
<1> DEFINE Paths(o) == {q \in DOMAIN s.objects[o].fields :
                           ~IsReservedPath(q) /\ q \notin DOMAIN b.objects[o].fields}
           Fields(o) == {MakeDraft(p, o, path, "FieldUnexpected", NoQualifier) : path \in Paths(o)}
           Others == {x \in DOMAIN s.objects \ (DOMAIN b.objects \cup ReservedObjects) :
                         s.objects[x].presence = "Present"}
           Objects == {MakeDraft(p, o, <<>>, "Unexpected", NoQualifier) : o \in Others}
           All == UNION {Fields(o) : o \in Compared(s, b)}
<1>1. d \in All \/ d \in Objects
  <2>1. UndeclaredDrafts(p, s, b) = Objects \cup All
    BY DEF UndeclaredDrafts
  <2> HIDE DEF All, Objects
  <2> QED
    BY <2>1
<1>2. CASE d \in All
  <2>1. PICK o \in Compared(s, b) : d \in Fields(o)
    BY <1>2, Zenon
  <2>2. PICK path \in Paths(o) : d = MakeDraft(p, o, path, "FieldUnexpected", NoQualifier)
    BY <2>1, Zenon
  <2> QED
    BY <2>2, Made
<1>3. CASE d \in Objects
  <2>1. PICK o \in Others : d = MakeDraft(p, o, <<>>, "Unexpected", NoQualifier)
    BY <1>3, Zenon
  <2> QED
    BY <2>1, Made
<1> QED
  BY <1>1, <1>2, <1>3

\* A draft about two sources that disagree.
LEMMA ConflictDraft ==
    ASSUME NEW p, NEW V, NEW d \in SourceConflicts(p, V)
    PROVE  IsDraft(d) /\ Judged(p, d) /\ d.klass = "SourceConflict"
<1> DEFINE Objects(v, w) ==
             {MakeDraft(p, o, <<>>, "SourceConflict", ConflictQualifier(v.snap, w.snap)) :
                o \in DisputedObjects(v.snap, w.snap)}
           Fields(v, w) ==
             {MakeDraft(p, at[1], at[2], "SourceConflict", ConflictQualifier(v.snap, w.snap)) :
                at \in DisputedFields(v.snap, w.snap)}
<1>1. PICK v \in Scanned(V), w \in Scanned(V) : d \in Objects(v, w) \cup Fields(v, w)
  <2>1. SourceConflicts(p, V) = UNION {Objects(v, w) \cup Fields(v, w) : v, w \in Scanned(V)}
    BY DEF SourceConflicts
  <2> HIDE DEF Fields, Objects
  <2> QED
    BY <2>1
<1>2. CASE d \in Objects(v, w)
  <2>1. PICK o \in DisputedObjects(v.snap, w.snap) :
          d = MakeDraft(p, o, <<>>, "SourceConflict", ConflictQualifier(v.snap, w.snap))
    BY <1>2, Zenon
  <2> QED
    BY <2>1, Made
<1>3. CASE d \in Fields(v, w)
  <2>1. PICK at \in DisputedFields(v.snap, w.snap) :
          d = MakeDraft(p, at[1], at[2], "SourceConflict", ConflictQualifier(v.snap, w.snap))
    BY <1>3, Zenon
  <2> QED
    BY <2>1, Made
<1> QED
  BY <1>1, <1>2, <1>3

\* All the drafts of one comparison, before they are regrouped.
Drafted(p, V, s, b) ==
    SourceConflicts(p, V) \cup ObjectDrafts(p, s, b) \cup FieldDrafts(p, s, b) \cup UndeclaredDrafts(p, s, b)

\* They are drafts whose class is the raw one.
LEMMA DraftedTyped ==
    ASSUME NEW p, NEW V, NEW s, NEW b, NEW d \in Drafted(p, V, s, b)
    PROVE  IsDraft(d) /\ Judged(p, d)
  BY ObjectDraft, FieldDraft, UndeclaredDraft, ConflictDraft, Zenon DEF Drafted

\* Regrouping keeps the location and the raw class of a draft, and gives a
\* deviation another actionable class.
LEMMA ReclassedKeeps ==
    ASSUME NEW p, NEW d, NEW k, NEW q, IsDraft(d)
    PROVE  /\ Reclassed(p, d, k, q).object = d.object /\ Reclassed(p, d, k, q).path = d.path
           /\ Reclassed(p, d, k, q).raw = d.raw /\ Reclassed(p, d, k, q).klass = k
           /\ Judged(p, Reclassed(p, d, k, q))
  BY DEF Reclassed, IsDraft, Judged

\* Every draft is regrouped from one, and every one is regrouped into a draft.
LEMMA RegroupKeeps ==
    ASSUME NEW p, NEW s, NEW b, NEW D, \A d \in D : IsDraft(d)
    PROVE  /\ \A d \in Regroup(p, s, b, D) : \E e \in D :
                  d.object = e.object /\ d.path = e.path /\ d.raw = e.klass
           /\ \A e \in D : \E d \in Regroup(p, s, b, D) :
                  d.klass = e.klass \/ d.klass \in {"PartialApplication", "GenerationMismatch"}
<1> DEFINE applied == AppliedGenerations(s, b)
           k == IF b.gen \in applied THEN "PartialApplication" ELSE "GenerationMismatch"
           q == [kind |-> IF b.gen \in applied THEN "partial" ELSE "not-applied", over |-> applied]
           R(d) == IF d.klass \in Deviations THEN Reclassed(p, d, k, q) ELSE d
<1>1. Regroup(p, s, b, D) = IF applied = {} THEN D ELSE {R(d) : d \in D}
  BY Zenon DEF Regroup
<1>2. k \in {"PartialApplication", "GenerationMismatch"}
  OBVIOUS
<1> HIDE DEF applied, k, q
<1>3. ASSUME NEW e \in D
      PROVE  /\ R(e).object = e.object /\ R(e).path = e.path /\ R(e).raw = e.klass
             /\ R(e).klass = e.klass \/ R(e).klass \in {"PartialApplication", "GenerationMismatch"}
  <2>1. CASE e.klass \in Deviations
    <3>1. R(e) = Reclassed(p, e, k, q) /\ IsDraft(e)
      BY <2>1
    <3> QED
      BY <1>2, <3>1, ReclassedKeeps DEF IsDraft
  <2>2. CASE e.klass \notin Deviations
    BY <2>2 DEF IsDraft
  <2> QED
    BY <2>1, <2>2
<1> HIDE DEF R
<1>4. CASE applied = {}
  BY <1>1, <1>4 DEF IsDraft
<1>5. CASE applied # {}
  <2>1. Regroup(p, s, b, D) = {R(d) : d \in D}
    BY <1>1, <1>5
  <2>2. \A d \in Regroup(p, s, b, D) : \E e \in D : d = R(e)
    BY <2>1
  <2>3. \A e \in D : R(e) \in Regroup(p, s, b, D)
    BY <2>1
  <2> QED
    BY <1>3, <2>2, <2>3
<1> QED
  BY <1>4, <1>5

-----------------------------------------------------------------------------
(* Absence *)

Evidence == Primary(Seen).snap
AllDrafts == Drafted(policy, Seen, Evidence, baseline)
FinalDrafts == Regroup(policy, Evidence, baseline, AllDrafts)

\* The three ways a comparison ends.
LEMMA OutcomeCases ==
    /\ baseline = NoBaseline =>
         Outcome = Evaluated(baseline, IF policy.required
                                         THEN {MakeDraft(policy, "@target", <<>>, "IntentMissing", NoQualifier)}
                                         ELSE {}, FALSE)
    /\ baseline # NoBaseline /\ (\A v \in Seen : ~v.usable) =>
         Outcome = Evaluated(baseline, {MakeDraft(policy, "@target", <<>>, "StaleObservation", NoQualifier)}, FALSE)
    /\ baseline # NoBaseline /\ ~(\A v \in Seen : ~v.usable) =>
         Outcome = Evaluated(baseline, FinalDrafts,
                             /\ CoverageOk(policy, Evidence)
                             /\ \A d \in FinalDrafts : ~IsIndeterminateDrift(d.klass) /\ d.klass # "Unsupported")
<1>1. CASE baseline = NoBaseline
  BY <1>1 DEF Outcome, CompareTarget
<1>2. CASE baseline # NoBaseline /\ (\A v \in Seen : ~v.usable)
  BY <1>2 DEF Outcome, CompareTarget, Seen
<1>3. CASE baseline # NoBaseline /\ ~(\A v \in Seen : ~v.usable)
  <2>1. Outcome = Compare(policy, Seen, baseline)
    BY <1>3, Zenon DEF Outcome, CompareTarget, Seen
  <2>2. Compare(policy, Seen, baseline) =
          Evaluated(baseline, FinalDrafts,
                    /\ CoverageOk(policy, Evidence)
                    /\ \A d \in FinalDrafts : ~IsIndeterminateDrift(d.klass) /\ d.klass # "Unsupported")
    BY Zenon DEF Compare, FinalDrafts, AllDrafts, Drafted, Evidence
  <2> QED
    BY <1>3, <2>1, <2>2
<1> QED
  BY <1>1, <1>2, <1>3

\* AbsenceNeedsEvidence holds wherever the retained evidence is well formed.
LEMMA AbsenceFollows ==
    ASSUME IInv
    PROVE  AbsenceNeedsEvidence
<1> SUFFICES ASSUME NEW d \in Outcome.drafts, d.raw \in {"Missing", "FieldMissing"}
             PROVE  \E v \in Seen :
                      /\ v.usable
                      /\ \A w \in Seen : w.usable => v.priority <= w.priority
                      /\ d.raw = "Missing" =>
                           /\ \/ /\ d.object \in DOMAIN v.snap.objects
                                 /\ v.snap.objects[d.object].presence = "Absent"
                              \/ v.snap.complete /\ d.object \notin DOMAIN v.snap.objects \cup v.snap.unobserved
                           /\ policy.requireAuthority => v.snap.asserts
                      /\ d.raw = "FieldMissing" =>
                           /\ v.snap.complete /\ d.object \notin v.snap.unobserved
                           /\ d.path \notin DOMAIN v.snap.objects[d.object].fields
                           /\ Len(d.path) > 1 => v.snap.nested
  BY DEF AbsenceNeedsEvidence, Seen
<1> DEFINE s == Evidence
<1>1. baseline # NoBaseline /\ ~(\A v \in Seen : ~v.usable)
  <2>1. CASE baseline = NoBaseline
    <3>1. Outcome.drafts \subseteq {MakeDraft(policy, "@target", <<>>, "IntentMissing", NoQualifier)}
      BY <2>1, OutcomeCases DEF Evaluated
    <3> QED
      BY <3>1, Made DEF IsDraft
  <2>2. CASE baseline # NoBaseline /\ (\A v \in Seen : ~v.usable)
    <3>1. Outcome.drafts \subseteq {MakeDraft(policy, "@target", <<>>, "StaleObservation", NoQualifier)}
      BY <2>2, OutcomeCases DEF Evaluated
    <3> QED
      BY <3>1, Made DEF IsDraft
  <2> QED
    BY <2>1, <2>2
<1>2. Outcome.drafts = FinalDrafts
  BY <1>1, OutcomeCases DEF Evaluated
<1>3. \A e \in AllDrafts : IsDraft(e)
  BY DraftedTyped DEF AllDrafts
<1>4. PICK e \in AllDrafts : d.object = e.object /\ d.path = e.path /\ d.raw = e.klass
  BY <1>2, <1>3, RegroupKeeps DEF FinalDrafts
<1>5. /\ e.klass = "Missing" => e \in ObjectDrafts(policy, s, baseline)
      /\ e.klass = "FieldMissing" => e \in FieldDrafts(policy, s, baseline) \/ e \in ObjectDrafts(policy, s, baseline)
  <2>1. \/ e \in SourceConflicts(policy, Seen) \/ e \in ObjectDrafts(policy, s, baseline)
        \/ e \in FieldDrafts(policy, s, baseline) \/ e \in UndeclaredDrafts(policy, s, baseline)
    BY DEF AllDrafts, Drafted
  <2>2. e \in SourceConflicts(policy, Seen) => e.klass = "SourceConflict"
    BY ConflictDraft
  <2>3. e \in UndeclaredDrafts(policy, s, baseline) => e.klass \in {"FieldUnexpected", "Unexpected"}
    BY UndeclaredDraft
  <2>4. e \in FieldDrafts(policy, s, baseline) => e.klass # "Missing"
    <3> SUFFICES ASSUME e \in FieldDrafts(policy, s, baseline) PROVE e.klass # "Missing"
      OBVIOUS
    <3>1. e.klass = FieldClass(policy, s, e.object, e.path, baseline.objects[e.object].fields[e.path])
      BY FieldDraft
    <3> QED
      BY <3>1 DEF FieldClass
  <2> QED
    BY <2>1, <2>2, <2>3, <2>4
<1>6. e.klass = "Missing" =>
        /\ \/ e.object \in DOMAIN s.objects /\ s.objects[e.object].presence = "Absent"
           \/ s.complete /\ e.object \notin DOMAIN s.objects \cup s.unobserved
        /\ policy.requireAuthority => s.asserts
  <2> SUFFICES ASSUME e.klass = "Missing"
               PROVE  /\ \/ e.object \in DOMAIN s.objects /\ s.objects[e.object].presence = "Absent"
                         \/ s.complete /\ e.object \notin DOMAIN s.objects \cup s.unobserved
                      /\ policy.requireAuthority => s.asserts
    OBVIOUS
  <2>1. ObjectClass(policy, s, e.object, baseline.objects[e.object].required) = "Missing"
    BY <1>5, ObjectDraft
  <2> HIDE DEF s
  <2>2. Presence(s, e.object) = "Absent" /\ MayAssertAbsence(policy, s)
    BY <2>1 DEF ObjectClass
  <2> QED
    BY <2>2 DEF Presence, MayAssertAbsence, ObjectFullyVisible
<1>7. e.klass = "FieldMissing" =>
        /\ s.complete /\ e.object \notin s.unobserved
        /\ e.path \notin DOMAIN s.objects[e.object].fields
        /\ Len(e.path) > 1 => s.nested
  <2> SUFFICES ASSUME e.klass = "FieldMissing"
               PROVE  /\ s.complete /\ e.object \notin s.unobserved
                      /\ e.path \notin DOMAIN s.objects[e.object].fields
                      /\ Len(e.path) > 1 => s.nested
    OBVIOUS
  <2>1. e \notin ObjectDrafts(policy, s, baseline)
    <3> SUFFICES ASSUME e \in ObjectDrafts(policy, s, baseline) PROVE FALSE
      OBVIOUS
    <3>1. ObjectClass(policy, s, e.object, baseline.objects[e.object].required) = "FieldMissing"
      BY ObjectDraft
    <3> QED
      BY <3>1 DEF ObjectClass
  <2>2. FieldClass(policy, s, e.object, e.path, baseline.objects[e.object].fields[e.path]) = "FieldMissing"
    BY <1>5, <2>1, FieldDraft
  <2> HIDE DEF s
  <2>3. e.path \notin DOMAIN s.objects[e.object].fields /\ FieldVisible(s, e.object, e.path)
    BY <2>2 DEF FieldClass
  <2> QED
    BY <2>3 DEF FieldVisible, ObjectFullyVisible
<1>8. /\ Primary(Seen) \in Seen /\ Primary(Seen).usable
      /\ \A w \in Seen : w.usable => Primary(Seen).priority <= w.priority
  BY <1>1, PrimaryUsable
<1>9. s = Primary(Seen).snap
  BY DEF Evidence
<1> HIDE DEF s
<1> QED
  BY <1>4, <1>6, <1>7, <1>8, <1>9

\* AbsenceNeedsEvidence for every policy, intent and set of snapshots, and any
\* number of sources.
THEOREM MissingIsEvidenced == Spec => []AbsenceNeedsEvidence
  BY AbsenceFollows, ComparisonInvariant, PTL

-----------------------------------------------------------------------------
(* The rules that decide *)

\* Regrouping judges a draft it reclassifies again.
LEMMA RegroupJudges ==
    ASSUME NEW p, NEW s, NEW b, NEW D, \A d \in D : IsDraft(d) /\ Judged(p, d)
    PROVE  \A d \in Regroup(p, s, b, D) : Judged(p, d)
<1> DEFINE applied == AppliedGenerations(s, b)
           k == IF b.gen \in applied THEN "PartialApplication" ELSE "GenerationMismatch"
           q == [kind |-> IF b.gen \in applied THEN "partial" ELSE "not-applied", over |-> applied]
           R(d) == IF d.klass \in Deviations THEN Reclassed(p, d, k, q) ELSE d
<1>1. Regroup(p, s, b, D) = IF applied = {} THEN D ELSE {R(d) : d \in D}
  BY Zenon DEF Regroup
<1> HIDE DEF applied, k, q
<1>2. ASSUME NEW e \in D PROVE Judged(p, R(e))
  <2>1. CASE e.klass \in Deviations
    <3>1. R(e) = Reclassed(p, e, k, q) /\ IsDraft(e)
      BY <2>1
    <3> QED
      BY <3>1, ReclassedKeeps
  <2>2. CASE e.klass \notin Deviations
    BY <2>2
  <2> QED
    BY <2>1, <2>2
<1> HIDE DEF R
<1>3. CASE applied = {}
  BY <1>1, <1>3
<1>4. CASE applied # {}
  <2>1. Regroup(p, s, b, D) = {R(d) : d \in D}
    BY <1>1, <1>4
  <2>2. \A d \in Regroup(p, s, b, D) : \E e \in D : d = R(e)
    BY <2>1
  <2> QED
    BY <1>2, <2>2
<1> QED
  BY <1>3, <1>4

\* Every draft of an outcome is judged by the policy.
LEMMA OutcomeJudged == \A d \in Outcome.drafts : Judged(policy, d)
<1>1. CASE baseline = NoBaseline
  <2>1. Outcome.drafts \subseteq {MakeDraft(policy, "@target", <<>>, "IntentMissing", NoQualifier)}
    BY <1>1, OutcomeCases DEF Evaluated
  <2> QED
    BY <2>1, Made
<1>2. CASE baseline # NoBaseline /\ (\A v \in Seen : ~v.usable)
  <2>1. Outcome.drafts = {MakeDraft(policy, "@target", <<>>, "StaleObservation", NoQualifier)}
    BY <1>2, OutcomeCases DEF Evaluated
  <2> QED
    BY <2>1, Made
<1>3. CASE baseline # NoBaseline /\ ~(\A v \in Seen : ~v.usable)
  <2>1. Outcome.drafts = FinalDrafts
    BY <1>3, OutcomeCases DEF Evaluated
  <2>2. \A d \in AllDrafts : IsDraft(d) /\ Judged(policy, d)
    BY DraftedTyped DEF AllDrafts
  <2>3. \A d \in FinalDrafts : Judged(policy, d)
    BY <2>2, RegroupJudges DEF FinalDrafts
  <2> QED
    BY <2>1, <2>3
<1> QED
  BY <1>1, <1>2, <1>3

\* MostSpecificRuleDecides holds of every policy that may be in force.
LEMMA RulesFollow ==
    ASSUME policy \in PolicyChoices
    PROVE  MostSpecificRuleDecides
<1>1. IsPolicy(policy)
  BY ComparisonAssumption
<1> DEFINE R == policy.freshnessRules
           S == policy.severityRules
           Lifetime(i) ==
             /\ Matches(R[i].selector, Target, "@target", <<>>)
             /\ \A j \in DOMAIN R : Matches(R[j].selector, Target, "@target", <<>>) =>
                  \/ SelectorSpecificity(R[j].selector) < SelectorSpecificity(R[i].selector)
                  \/ SelectorSpecificity(R[j].selector) = SelectorSpecificity(R[i].selector) /\ j <= i
           Judge(d, i) ==
             /\ Hit(S[i], d.object, d.path, d.klass)
             /\ \A j \in DOMAIN S : Hit(S[j], d.object, d.path, d.klass) =>
                  \/ Weighs(S[j]) < Weighs(S[i])
                  \/ Weighs(S[j]) = Weighs(S[i]) /\ j <= i
<1>2. ASSUME NEW y \in DOMAIN R, Matches(R[y].selector, Target, "@target", <<>>)
      PROVE  TtlFor(policy, Target, "@target", <<>>) = R[CHOOSE i \in DOMAIN R : Lifetime(i)].ttl
  <2> DEFINE x == CHOOSE i \in DOMAIN R : Lifetime(i)
  <2>1. \E i \in DOMAIN R : Lifetime(i)
    BY <1>1, <1>2, TtlDecider
  <2>2. x \in DOMAIN R /\ Lifetime(x)
    <3> HIDE DEF Lifetime
    <3> QED
      BY <2>1
  <2> HIDE DEF x
  <2>3. TtlFor(policy, Target, "@target", <<>>) = R[x].ttl
    BY <1>1, <2>2, TtlDecided
  <2> QED
    BY <2>3 DEF x
<1>3. ASSUME NEW d \in Outcome.drafts, NEW y \in DOMAIN S, Hit(S[y], d.object, d.path, d.klass),
             \A i \in DOMAIN S : S[i].minSeverity = {}
      PROVE  d.severity = S[CHOOSE i \in DOMAIN S : Judge(d, i)].severity
  <2> DEFINE x == CHOOSE i \in DOMAIN S : Judge(d, i)
  <2>1. \E i \in DOMAIN S : Judge(d, i)
    BY <1>1, <1>3, SeverityDecider
  <2>2. x \in DOMAIN S /\ Judge(d, x)
    <3> HIDE DEF Judge
    <3> QED
      BY <2>1
  <2> HIDE DEF x
  <2>3. SeverityFor(policy, Target, d.object, d.path, d.klass) = S[x].severity
    BY <1>1, <1>3, <2>2, SeverityDecided
  <2>4. d.severity = SeverityFor(policy, Target, d.object, d.path, d.klass)
    BY OutcomeJudged DEF Judged
  <2> QED
    BY <2>3, <2>4 DEF x
<1>4. (\E i \in DOMAIN R : Matches(R[i].selector, Target, "@target", <<>>)) =>
        TtlFor(policy, Target, "@target", <<>>) = R[CHOOSE i \in DOMAIN R : Lifetime(i)].ttl
  BY <1>2
<1>5. \A d \in Outcome.drafts :
         ((\E i \in DOMAIN S : Hit(S[i], d.object, d.path, d.klass))
          /\ \A i \in DOMAIN S : S[i].minSeverity = {}) =>
            d.severity = S[CHOOSE i \in DOMAIN S : Judge(d, i)].severity
  BY <1>3
<1> QED
  BY <1>4, <1>5, Zenon DEF MostSpecificRuleDecides, Hit, Weighs

\* MostSpecificRuleDecides for every policy, whatever the number of its rules.
THEOREM RulesDecide == Spec => []MostSpecificRuleDecides
<1>1. IInv => MostSpecificRuleDecides
  BY RulesFollow DEF IInv
<1> QED
  BY <1>1, ComparisonInvariant, PTL

-----------------------------------------------------------------------------
(* Compliance *)

\* No more sources report on the target than the conflict scan reaches.
FewSources == Cardinality({o.snap.source : o \in retained}) <= MaxConflictSources

\* A field the intent calls managed, and that no rule narrows, is compared.
LEMMA StaysManaged ==
    ASSUME NEW p \in PolicyChoices, NEW o, NEW path,
           \A i \in DOMAIN p.fieldRules :
              Matches(p.fieldRules[i].selector, Target, o, path) => p.fieldRules[i].comparability = "Managed"
    PROVE  ClassifyField(p, Target, o, path, "Managed") = "Managed"
<1>1. "Managed" \in Range(Comparability)
  <2>1. 1 \in DOMAIN Comparability /\ Comparability[1] = "Managed"
    BY DEF Comparability
  <2> QED
    BY <2>1, Zenon DEF Range
<1> QED
  BY <1>1, RulesOnlyNarrow

\* With few sources every usable view is reached by the scan.
LEMMA AllScanned ==
    ASSUME IInv, FewSources, NEW v \in Seen, v.usable
    PROVE  v \in Scanned(Seen)
<1> USE ComparisonAssumption
<1> DEFINE S == {o.snap.source : o \in retained}
           Below == {w \in Seen : ViewLess(w, v)}
           f == [o \in retained |-> o.snap.source]
           g == [w \in Seen |-> w.snap.source]
<1>1. /\ IsFiniteSet(Seen) /\ \A w \in Seen : IsView(w)
      /\ \A x, y \in Seen : x.snap.source = y.snap.source => x = y
      /\ \A w \in Seen : \E o \in Claims(retained, policy, now) : w = View(o, policy, now)
  BY ViewsTyped
<1>2. IsFiniteSet(S)
  <2>1. f \in Surjection(retained, S)
    BY Zenon DEF Surjection
  <2> HIDE DEF f, S
  <2> QED
    BY <2>1, FS_Surjection DEF IInv
<1>3. \A w \in Seen : w.snap.source \in S
  BY <1>1 DEF View, Claims
<1> HIDE DEF S
<1>4. g \in Injection(Seen, S)
  <2>1. g \in [Seen -> S]
    BY <1>3
  <2>2. \A x, y \in Seen : g[x] = g[y] => x = y
    BY <1>1
  <2> HIDE DEF g
  <2> QED
    BY <2>1, <2>2 DEF Injection, IsInjective
<1> HIDE DEF g
<1>5. Cardinality(Seen) <= Cardinality(S)
  BY <1>2, <1>4, FS_Injection
<1>6. Below \in SUBSET Seen /\ v \notin Below
  BY <1>1, LessIrreflexive
<1>7. Below = {w \in Seen : ViewLess(w, v)}
  OBVIOUS
<1> HIDE DEF Below
<1>8. /\ IsFiniteSet(Below) /\ Cardinality(Below) <= Cardinality(Seen)
      /\ Cardinality(Seen) = Cardinality(Below) => Seen = Below
  BY <1>1, <1>6, FS_Subset
<1>9. Cardinality(Below) \in Nat /\ Cardinality(Seen) \in Nat /\ Cardinality(S) \in Nat
  BY <1>1, <1>2, <1>8, FS_CardinalityType
<1>10. Cardinality(S) <= MaxConflictSources /\ MaxConflictSources \in Nat
  BY DEF FewSources, S
<1>11. Cardinality(Below) < MaxConflictSources
  BY <1>5, <1>6, <1>8, <1>9, <1>10
<1> QED
  BY <1>7, <1>11 DEF Scanned

\* A contradiction between two scanned views becomes a draft.
LEMMA ContradictionDrafted ==
    ASSUME NEW p, NEW V, NEW v \in Scanned(V), NEW w \in Scanned(V), Contradict(v.snap, w.snap)
    PROVE  \E d \in SourceConflicts(p, V) : TRUE
<1> DEFINE a == v.snap
           b == w.snap
           Objects(x, y) ==
             {MakeDraft(p, o, <<>>, "SourceConflict", ConflictQualifier(x.snap, y.snap)) :
                o \in DisputedObjects(x.snap, y.snap)}
           Fields(x, y) ==
             {MakeDraft(p, at[1], at[2], "SourceConflict", ConflictQualifier(x.snap, y.snap)) :
                at \in DisputedFields(x.snap, y.snap)}
           Pair(x, y) == Objects(x, y) \cup Fields(x, y)
<1>1. PICK o \in DOMAIN a.objects \cap DOMAIN b.objects :
        \/ {a.objects[o].presence, b.objects[o].presence} = {"Present", "Absent"}
        \/ /\ a.objects[o].presence = "Present" /\ b.objects[o].presence = "Present"
           /\ \E path \in DOMAIN a.objects[o].fields \cap DOMAIN b.objects[o].fields :
                /\ a.objects[o].fields[path] # b.objects[o].fields[path]
                /\ Null \notin {a.objects[o].fields[path], b.objects[o].fields[path]}
  BY DEF Contradict
<1>2. SourceConflicts(p, V) = UNION {Pair(x, y) : x, y \in Scanned(V)}
  BY DEF SourceConflicts
<1>3. Objects(v, w) \cup Fields(v, w) \subseteq SourceConflicts(p, V)
  <2> DEFINE P == {Pair(x, y) : x, y \in Scanned(V)}
  <2>1. Pair(v, w) = Objects(v, w) \cup Fields(v, w)
    OBVIOUS
  <2> HIDE DEF Pair, Objects, Fields
  <2>2. Pair(v, w) \in P
    OBVIOUS
  <2> HIDE DEF P
  <2>3. Pair(v, w) \subseteq UNION P
    BY <2>2
  <2> QED
    BY <1>2, <2>1, <2>3 DEF P
<1>4. CASE {a.objects[o].presence, b.objects[o].presence} = {"Present", "Absent"}
  <2>1. a.objects[o].presence # b.objects[o].presence /\
        "Unknown" \notin {a.objects[o].presence, b.objects[o].presence}
    BY <1>4
  <2>2. o \in DisputedObjects(a, b)
    BY <1>1, <2>1 DEF DisputedObjects
  <2>3. \E d : d \in Objects(v, w)
    BY <2>2
  <2> QED
    BY <1>3, <2>3
<1>5. CASE /\ a.objects[o].presence = "Present" /\ b.objects[o].presence = "Present"
           /\ \E path \in DOMAIN a.objects[o].fields \cap DOMAIN b.objects[o].fields :
                /\ a.objects[o].fields[path] # b.objects[o].fields[path]
                /\ Null \notin {a.objects[o].fields[path], b.objects[o].fields[path]}
  <2> DEFINE Q(x) == {q \in DOMAIN a.objects[x].fields \cap DOMAIN b.objects[x].fields :
                        Relate(a.objects[x].fields[q], b.objects[x].fields[q]) = "Different"}
             Both == {x \in DOMAIN a.objects \cap DOMAIN b.objects :
                        a.objects[x].presence = b.objects[x].presence}
             At(x) == {<<x, path>> : path \in Q(x)}
  <2>1. DisputedFields(a, b) = UNION {At(x) : x \in Both}
    BY DEF DisputedFields
  <2>2. PICK path \in DOMAIN a.objects[o].fields \cap DOMAIN b.objects[o].fields :
          /\ a.objects[o].fields[path] # b.objects[o].fields[path]
          /\ Null \notin {a.objects[o].fields[path], b.objects[o].fields[path]}
    BY <1>5
  <2>3. Relate(a.objects[o].fields[path], b.objects[o].fields[path]) = "Different"
    BY <2>2 DEF Relate
  <2>4. o \in Both /\ <<o, path>> \in At(o)
    BY <1>5, <2>3
  <2> HIDE DEF At, Both
  <2>5. \E at : at \in DisputedFields(a, b)
    BY <2>1, <2>4
  <2>6. \E d : d \in Fields(v, w)
    BY <2>5
  <2> QED
    BY <1>3, <2>6
<1> QED
  BY <1>1, <1>4, <1>5

\* CompliantOnlyIfShown holds wherever the retained evidence is well formed and
\* the scan is complete.
LEMMA ComplianceFollows ==
    ASSUME IInv, FewSources
    PROVE  CompliantOnlyIfShown
<1> USE ComparisonAssumption, FreshnessAssumption
<1> SUFFICES ASSUME Outcome.compliant
             PROVE  /\ baseline # NoBaseline
                    /\ \E o \in retained :
                          /\ \A x \in retained : x.snap.source = o.snap.source => ~Newer(x.snap, o.snap)
                          /\ Current(o, policy, now)
                          /\ ShowsRequired(o.snap, policy, baseline)
                          /\ \A f \in Forbidden(baseline) : ShowsAbsent(o.snap, f) \/ CannotSay(o.snap, f)
                          /\ \A x \in Claims(retained, policy, now) :
                                MaySupportCompliance(Verdict(x, policy, now)) => ~Contradict(x.snap, o.snap)
  BY DEF CompliantOnlyIfShown
<1> DEFINE s == Evidence
           Cov == CoverageOk(policy, s)
           Dec == \A d \in FinalDrafts : ~IsIndeterminateDrift(d.klass) /\ d.klass # "Unsupported"
<1>1. baseline # NoBaseline /\ ~(\A v \in Seen : ~v.usable)
  <2>1. \A D : ~Evaluated(baseline, D, FALSE).compliant
    BY DEF Evaluated
  <2> QED
    BY <2>1, OutcomeCases
<1>2. /\ Cov /\ Dec
      /\ \A d \in FinalDrafts : ~IsActionableDrift(d.klass)
  <2>1. Outcome = Evaluated(baseline, FinalDrafts, Cov /\ Dec)
    BY <1>1, OutcomeCases
  <2> HIDE DEF Cov, Dec
  <2> QED
    BY <2>1 DEF Evaluated
<1>3. \A e \in AllDrafts : IsDraft(e)
  BY DraftedTyped DEF AllDrafts
<1>4. ASSUME NEW e \in AllDrafts
      PROVE  e.klass \notin {"Missing", "Unexpected", "ValueMismatch", "FieldMissing", "SourceConflict",
                             "Unknown", "Unsupported"}
  <2>1. PICK d \in FinalDrafts :
          d.klass = e.klass \/ d.klass \in {"PartialApplication", "GenerationMismatch"}
    BY <1>3, RegroupKeeps DEF FinalDrafts
  <2>2. d.klass = e.klass
    BY <1>2, <2>1 DEF IsActionableDrift
  <2> QED
    BY <1>2, <2>2 DEF IsActionableDrift, IsIndeterminateDrift
<1>5. /\ Primary(Seen) \in Seen /\ Primary(Seen).usable
  BY <1>1, PrimaryUsable
<1>6. PICK o \in Claims(retained, policy, now) : Primary(Seen) = View(o, policy, now)
  BY <1>5, ViewsTyped
<1>7. /\ s = o.snap /\ o \in retained
      /\ MaySupportCompliance(Verdict(o, policy, now))
      /\ \A x \in retained : x.snap.source = o.snap.source => ~Newer(x.snap, o.snap)
  BY <1>5, <1>6 DEF Evidence, View, Claims
<1>8. /\ IsSnapshot(s) /\ IsPolicy(policy) /\ now \in Int
      /\ o.snap.received \in Int /\ 1 <= o.snap.received
  BY <1>7 DEF IInv, IsRetained
<1>9. Current(o, policy, now)
  <2>1. Usable(o, policy, now)
    BY <1>7, <1>8, VerdictMeaning
  <2>2. /\ o.snap.collected \in Int /\ o.snap.ttl \in Int /\ PolicyTtl(policy) \in Int
    BY <1>7, <1>8, TtlTyped DEF IsSnapshot, PolicyTtl
  <2>3. LET ttl == EffectiveTtl(o.snap, [ttl |-> PolicyTtl(policy)])
        IN  /\ ~o.recovered /\ o.snap.epoch = LiveEpoch
            /\ now - o.snap.collected <= ttl
            /\ policy.receive => now - o.snap.received <= ttl
    BY <2>1 DEF Usable
  <2>4. LET ttl == EffectiveTtl(o.snap, [ttl |-> PolicyTtl(policy)])
        IN  ttl \in Int /\ ttl <= PolicyTtl(policy) /\ (o.snap.ttl > 0 => ttl <= o.snap.ttl)
    BY <2>2 DEF EffectiveTtl
  <2>5. /\ ~o.recovered /\ o.snap.epoch = LiveEpoch
        /\ now - o.snap.collected <= PolicyTtl(policy)
        /\ o.snap.ttl > 0 => now - o.snap.collected <= o.snap.ttl
        /\ policy.receive => now - o.snap.received <= PolicyTtl(policy)
    BY <1>8, <2>2, <2>3, <2>4
  <2> QED
    BY <2>5 DEF Current, PolicyTtl
<1>10. ASSUME NEW a \in DOMAIN baseline.objects
       PROVE  /\ baseline.objects[a].required => a \in DOMAIN s.objects /\ s.objects[a].presence = "Present"
              /\ ~baseline.objects[a].required => ShowsAbsent(s, a) \/ CannotSay(s, a)
  <2> DEFINE k == ObjectClass(policy, s, a, baseline.objects[a].required)
             e == MakeDraft(policy, a, <<>>, k, NoQualifier)
  <2>1. k \in {"Missing", "Unknown", "Unexpected", "None"}
    BY DEF ObjectClass
  <2>2. k = "None"
    <3> SUFFICES ASSUME k # "None" PROVE FALSE
      OBVIOUS
    <3>1. e.klass = k
      BY Made
    <3>2. e \in ObjectDrafts(policy, s, baseline)
      BY <3>1, Zenon DEF ObjectDrafts
    <3>3. e \in AllDrafts
      BY <3>2 DEF AllDrafts, Drafted
    <3> QED
      BY <1>4, <2>1, <3>1, <3>3
  <2>3. Presence(s, a) \in {"Present", "Absent", "Unknown"}
    BY <1>8 DEF Presence, IsSnapshot
  <2> HIDE DEF s
  <2>4. /\ baseline.objects[a].required => Presence(s, a) = "Present"
        /\ ~baseline.objects[a].required => Presence(s, a) # "Present"
    BY <2>2, <2>3 DEF ObjectClass, MayAssertAbsence
  <2>5. baseline.objects[a].required => a \in DOMAIN s.objects /\ s.objects[a].presence = "Present"
    BY <2>4 DEF Presence
  <2> QED
    BY <2>3, <2>4, <2>5 DEF ShowsAbsent, CannotSay
<1>11. ASSUME NEW a \in DOMAIN baseline.objects, baseline.objects[a].required,
              NEW path \in DOMAIN baseline.objects[a].fields, ~IsReservedPath(path),
              baseline.objects[a].fields[path].comparability = "Managed",
              \A i \in DOMAIN policy.fieldRules :
                 Matches(policy.fieldRules[i].selector, Target, a, path)
                   => policy.fieldRules[i].comparability = "Managed"
       PROVE  /\ path \in DOMAIN s.objects[a].fields
              /\ s.objects[a].fields[path] = baseline.objects[a].fields[path].intended
  <2> DEFINE field == baseline.objects[a].fields[path]
             k == FieldClass(policy, s, a, path, field)
             e == MakeDraft(policy, a, path, k, NoQualifier)
             T(x) == {MakeDraft(policy, x, q, FieldClass(policy, s, x, q, baseline.objects[x].fields[q]), NoQualifier) :
                        q \in {r \in DOMAIN baseline.objects[x].fields : ~IsReservedPath(r)}}
  <2>1. a \in Compared(s, baseline)
    BY <1>10, <1>11 DEF Compared
  <2>2. ClassifyField(policy, Target, a, path, field.comparability) = "Managed"
    BY <1>11, StaysManaged DEF IInv
  <2>3. k \in {"Unknown", "Unsupported", "FieldMissing", "ValueMismatch", "None"}
    <3> HIDE DEF s, field
    <3> QED
      BY DEF FieldClass
  <2>4. k = "None"
    <3> SUFFICES ASSUME k # "None" PROVE FALSE
      OBVIOUS
    <3>1. e.klass = k
      BY Made
    <3>2. FieldDrafts(policy, s, baseline) = {d \in UNION {T(x) : x \in Compared(s, baseline)} : d.klass # "None"}
      BY DEF FieldDrafts
    <3>3. e \in T(a)
      BY <1>11
    <3> HIDE DEF T, e, k
    <3>4. e \in FieldDrafts(policy, s, baseline)
      BY <2>1, <3>1, <3>2, <3>3
    <3>5. e \in AllDrafts
      BY <3>4 DEF AllDrafts, Drafted
    <3> QED
      BY <1>4, <2>3, <3>1, <3>5
  <2> HIDE DEF s, field
  <2>5. path \in DOMAIN s.objects[a].fields /\ Relate(field.intended, s.objects[a].fields[path]) = "Equal"
    BY <2>2, <2>4 DEF FieldClass
  <2>6. field.intended = s.objects[a].fields[path]
    BY <2>5 DEF Relate
  <2> QED
    BY <2>5, <2>6 DEF field
<1>12. ShowsRequired(s, policy, baseline)
  <2> HIDE DEF s
  <2> QED
    BY <1>2, <1>10, <1>11 DEF ShowsRequired, CoverageOk, Cov
<1>14. \A f \in Forbidden(baseline) : ShowsAbsent(s, f) \/ CannotSay(s, f)
  BY <1>10 DEF Forbidden
<1>13. ASSUME NEW x \in Claims(retained, policy, now), MaySupportCompliance(Verdict(x, policy, now)),
              Contradict(x.snap, o.snap)
       PROVE  FALSE
  <2> DEFINE v == View(x, policy, now)
             a == Primary(Seen)
  <2>1. v \in Seen /\ v.usable /\ v.snap = x.snap
    BY <1>13 DEF Seen, Views, View
  <2>2. v \in Scanned(Seen)
    BY <2>1, AllScanned
  <2>3. a \in Scanned(Seen) /\ a.snap = o.snap
    BY <1>5, <1>7, AllScanned DEF Evidence
  <2> HIDE DEF v, a
  <2>4. PICK d \in SourceConflicts(policy, Seen) : TRUE
    BY <1>13, <2>1, <2>2, <2>3, ContradictionDrafted
  <2>5. d.klass = "SourceConflict" /\ d \in AllDrafts
    BY ConflictDraft DEF AllDrafts, Drafted
  <2> QED
    BY <1>4, <2>5
<1> QED
  BY <1>1, <1>7, <1>9, <1>12, <1>13, <1>14

\* CompliantOnlyIfShown for every policy, intent and history, as long as no
\* more sources report on the target than the conflict scan reaches
\* (kMaxConflictSources, comparison.cpp:20; beyond it the scan stops and says so
\* in the trace, comparison.cpp:431).
THEOREM ComplianceIsShown == Spec /\ []FewSources => []CompliantOnlyIfShown
  BY ComplianceFollows, ComparisonInvariant, PTL

-----------------------------------------------------------------------------
(* What the ledger is handed *)

\* The class a location has, whichever of the three loops of CompareObjects
\* comes to it.
ClassAt(p, s, b, o, path) ==
    IF o \in Compared(s, b)
      THEN IF path \in DOMAIN b.objects[o].fields
             THEN FieldClass(p, s, o, path, b.objects[o].fields[path]) ELSE "FieldUnexpected"
    ELSE IF o \in DOMAIN b.objects THEN ObjectClass(p, s, o, b.objects[o].required) ELSE "Unexpected"

PlainDrafts(p, s, b) == ObjectDrafts(p, s, b) \cup FieldDrafts(p, s, b) \cup UndeclaredDrafts(p, s, b)

\* Without the conflicts a location has one draft.
LEMMA PlainDraft ==
    ASSUME NEW p, NEW s, NEW b, NEW d \in PlainDrafts(p, s, b)
    PROVE  /\ d = MakeDraft(p, d.object, d.path, ClassAt(p, s, b, d.object, d.path), NoQualifier)
           /\ d.qual = NoQualifier
           /\ d.klass \in {"Missing", "Unknown", "Unexpected", "Unsupported", "FieldMissing", "ValueMismatch",
                           "FieldUnexpected"}
           /\ d.klass \notin {"Unexpected", "FieldUnexpected"} =>
                /\ d.object \in DOMAIN b.objects
                /\ d.path = <<>> \/ d.path \in DOMAIN b.objects[d.object].fields
<1>1. \A o, path, k : MakeDraft(p, o, path, k, NoQualifier).qual = NoQualifier
  BY DEF MakeDraft
<1>2. CASE d \in ObjectDrafts(p, s, b)
  <2>1. PICK o \in DOMAIN b.objects :
          /\ d = MakeDraft(p, o, <<>>, ObjectClass(p, s, o, b.objects[o].required), NoQualifier)
          /\ d.klass # "None"
    BY <1>2, Zenon DEF ObjectDrafts
  <2>2. d.object = o /\ d.path = <<>> /\ d.klass = ObjectClass(p, s, o, b.objects[o].required)
    BY <2>1, Made
  <2>3. d.klass \in {"Missing", "Unknown", "Unexpected"}
    BY <2>1, <2>2 DEF ObjectClass
  <2>4. o \notin Compared(s, b)
    BY <2>1, <2>2 DEF Compared, ObjectClass, Presence
  <2>5. ClassAt(p, s, b, o, <<>>) = ObjectClass(p, s, o, b.objects[o].required)
    BY <2>1, <2>4 DEF ClassAt
  <2> QED
    BY <1>1, <2>1, <2>2, <2>3, <2>5
<1>3. CASE d \in FieldDrafts(p, s, b)
  <2>1. PICK o \in Compared(s, b) :
          d \in {MakeDraft(p, o, path, FieldClass(p, s, o, path, b.objects[o].fields[path]), NoQualifier) :
                   path \in {q \in DOMAIN b.objects[o].fields : ~IsReservedPath(q)}} /\ d.klass # "None"
    BY <1>3, Zenon DEF FieldDrafts
  <2>2. PICK path \in {q \in DOMAIN b.objects[o].fields : ~IsReservedPath(q)} :
          d = MakeDraft(p, o, path, FieldClass(p, s, o, path, b.objects[o].fields[path]), NoQualifier)
    BY <2>1, Zenon
  <2>3. /\ d.object = o /\ d.path = path
        /\ d.klass = FieldClass(p, s, o, path, b.objects[o].fields[path])
    BY <2>2, Made
  <2>4. d.klass \in {"Unknown", "Unsupported", "FieldMissing", "ValueMismatch"}
    BY <2>1, <2>3 DEF FieldClass
  <2>5. ClassAt(p, s, b, o, path) = FieldClass(p, s, o, path, b.objects[o].fields[path])
    BY <2>2 DEF ClassAt
  <2>6. o \in DOMAIN b.objects
    BY DEF Compared
  <2> QED
    BY <1>1, <2>2, <2>3, <2>4, <2>5, <2>6
<1>4. CASE d \in UndeclaredDrafts(p, s, b)
  <2> DEFINE Paths(o) == {q \in DOMAIN s.objects[o].fields :
                             ~IsReservedPath(q) /\ q \notin DOMAIN b.objects[o].fields}
             Fields(o) == {MakeDraft(p, o, path, "FieldUnexpected", NoQualifier) : path \in Paths(o)}
             Others == {x \in DOMAIN s.objects \ (DOMAIN b.objects \cup ReservedObjects) :
                           s.objects[x].presence = "Present"}
             Objects == {MakeDraft(p, o, <<>>, "Unexpected", NoQualifier) : o \in Others}
             All == UNION {Fields(o) : o \in Compared(s, b)}
  <2>1. UndeclaredDrafts(p, s, b) = Objects \cup All
    BY DEF UndeclaredDrafts
  <2>2. d \in Objects \/ d \in All
    <3> HIDE DEF All, Objects
    <3> QED
      BY <1>4, <2>1
  <2>3. CASE d \in Objects
    <3>1. PICK o \in Others : d = MakeDraft(p, o, <<>>, "Unexpected", NoQualifier)
      BY <2>3, Zenon
    <3>2. o \notin DOMAIN b.objects /\ o \notin Compared(s, b)
      BY DEF Compared
    <3>3. ClassAt(p, s, b, o, <<>>) = "Unexpected"
      BY <3>2 DEF ClassAt
    <3> QED
      BY <1>1, <3>1, <3>3, Made
  <2>4. CASE d \in All
    <3>1. PICK o \in Compared(s, b) : d \in Fields(o)
      BY <2>4, Zenon
    <3>2. PICK path \in Paths(o) : d = MakeDraft(p, o, path, "FieldUnexpected", NoQualifier)
      BY <3>1, Zenon
    <3>3. ClassAt(p, s, b, o, path) = "FieldUnexpected"
      BY <3>2 DEF ClassAt
    <3> QED
      BY <1>1, <3>2, <3>3, Made
  <2> QED
    BY <2>2, <2>3, <2>4
<1> QED
  BY <1>2, <1>3, <1>4 DEF PlainDrafts

\* A conflict is qualified by the sources that disagree.
LEMMA ConflictQualified ==
    ASSUME NEW p, NEW V, NEW d \in SourceConflicts(p, V)
    PROVE  d.qual # NoQualifier
<1> DEFINE Objects(v, w) ==
             {MakeDraft(p, o, <<>>, "SourceConflict", ConflictQualifier(v.snap, w.snap)) :
                o \in DisputedObjects(v.snap, w.snap)}
           Fields(v, w) ==
             {MakeDraft(p, at[1], at[2], "SourceConflict", ConflictQualifier(v.snap, w.snap)) :
                at \in DisputedFields(v.snap, w.snap)}
<1>1. PICK v \in Scanned(V), w \in Scanned(V) : d \in Objects(v, w) \cup Fields(v, w)
  <2>1. SourceConflicts(p, V) = UNION {Objects(v, w) \cup Fields(v, w) : v, w \in Scanned(V)}
    BY DEF SourceConflicts
  <2> HIDE DEF Fields, Objects
  <2> QED
    BY <2>1
<1>2. ConflictQualifier(v.snap, w.snap).kind # NoQualifier.kind
  BY DEF ConflictQualifier, NoQualifier
<1>3. d.qual = ConflictQualifier(v.snap, w.snap)
  <2>1. \E o, path : d = MakeDraft(p, o, path, "SourceConflict", ConflictQualifier(v.snap, w.snap))
    BY <1>1, Zenon
  <2> QED
    BY <2>1 DEF MakeDraft
<1> QED
  BY <1>2, <1>3

\* The drafts of D with every deviation turned into class k with qualifier q.
Recast(p, D, k, q) == {IF d.klass \in Deviations THEN Reclassed(p, d, k, q) ELSE d : d \in D}

\* What regrouping makes of a draft, in full.
LEMMA RegroupMeaning ==
    ASSUME NEW p, NEW s, NEW b
    PROVE  \E k, q :
             /\ k \in {"PartialApplication", "GenerationMismatch"}
             /\ q # NoQualifier
             /\ \A D : Regroup(p, s, b, D) \in {D, Recast(p, D, k, q)}
<1> DEFINE applied == AppliedGenerations(s, b)
           k == IF b.gen \in applied THEN "PartialApplication" ELSE "GenerationMismatch"
           q == [kind |-> IF b.gen \in applied THEN "partial" ELSE "not-applied", over |-> applied]
<1>1. \A D : Regroup(p, s, b, D) = IF applied = {} THEN D ELSE Recast(p, D, k, q)
  BY Zenon DEF Regroup, Recast
<1>2. k \in {"PartialApplication", "GenerationMismatch"}
  OBVIOUS
<1>3. q # NoQualifier
  <2>1. q.kind # NoQualifier.kind
    BY DEF NoQualifier
  <2> QED
    BY <2>1
<1> HIDE DEF applied, k, q
<1>4. \A D : Regroup(p, s, b, D) \in {D, Recast(p, D, k, q)}
  BY <1>1
<1> QED
  BY <1>2, <1>3, <1>4

\* The drafts of a comparison of intent with usable evidence fit the ledger.
LEMMA LeafDraftsFit ==
    ASSUME NEW P, P = {[loc |-> <<d.object, d.path>>, klass |-> d.klass, qual |-> d.qual] : d \in FinalDrafts}
    PROVE  /\ L!Comparable(P)
           /\ \A d \in FinalDrafts :
                /\ (d.qual # NoQualifier) = (d.klass \in L!Regrouped \cup {"SourceConflict"})
                /\ d.object # "@target" /\ d.klass \notin L!Unmanaged =>
                     /\ d.object \in DOMAIN baseline.objects
                     /\ d.path = <<>> \/ d.path \in DOMAIN baseline.objects[d.object].fields
<1> DEFINE Plain == PlainDrafts(policy, Evidence, baseline)
           Conflicts == SourceConflicts(policy, Seen)
           Plainly == {"Missing", "Unknown", "Unexpected", "Unsupported", "FieldMissing", "ValueMismatch",
                       "FieldUnexpected"}
<1>1. AllDrafts = Conflicts \cup Plain
  BY DEF AllDrafts, Drafted, PlainDrafts
<1>2. PICK k, q :
        /\ k \in {"PartialApplication", "GenerationMismatch"}
        /\ q # NoQualifier
        /\ \A D : Regroup(policy, Evidence, baseline, D) \in {D, Recast(policy, D, k, q)}
  BY RegroupMeaning
<1> DEFINE grouped == FinalDrafts # AllDrafts
           R(e) == IF grouped /\ e.klass \in Deviations THEN Reclassed(policy, e, k, q) ELSE e
<1>3. FinalDrafts = {R(e) : e \in AllDrafts}
  <2>1. CASE grouped
    <3>1. FinalDrafts = {IF d.klass \in Deviations THEN Reclassed(policy, d, k, q) ELSE d : d \in AllDrafts}
      BY <1>2, <2>1 DEF FinalDrafts, Recast
    <3> QED
      BY <2>1, <3>1
  <2>2. CASE ~grouped
    BY <2>2
  <2> QED
    BY <2>1, <2>2
<1> HIDE DEF grouped
<1>4. ASSUME NEW e \in AllDrafts
      PROVE  /\ IsDraft(e)
             /\ \/ e \in Conflicts /\ e.klass = "SourceConflict" /\ e.qual # NoQualifier
                \/ /\ e \in Plain /\ e.klass \in Plainly /\ e.qual = NoQualifier
                   /\ e = MakeDraft(policy, e.object, e.path,
                                    ClassAt(policy, Evidence, baseline, e.object, e.path), NoQualifier)
                   /\ e.klass \notin {"Unexpected", "FieldUnexpected"} =>
                        /\ e.object \in DOMAIN baseline.objects
                        /\ e.path = <<>> \/ e.path \in DOMAIN baseline.objects[e.object].fields
  <2>1. IsDraft(e)
    BY DraftedTyped DEF AllDrafts
  <2>2. CASE e \in Conflicts
    BY <2>1, <2>2, ConflictDraft, ConflictQualified
  <2>3. CASE e \in Plain
    BY <2>1, <2>3, PlainDraft
  <2> QED
    BY <1>1, <2>2, <2>3
<1>5. ASSUME NEW e \in AllDrafts
      PROVE  /\ R(e).object = e.object /\ R(e).path = e.path
             /\ \/ R(e) = e /\ (grouped => e.klass \notin Deviations)
                \/ grouped /\ e.klass \in Deviations /\ R(e).klass = k /\ R(e).qual = q
  <2>1. CASE grouped /\ e.klass \in Deviations
    <3>1. R(e) = Reclassed(policy, e, k, q)
      BY <2>1
    <3>2. Reclassed(policy, e, k, q).qual = q
      BY <1>4 DEF Reclassed, IsDraft
    <3> QED
      BY <1>4, <2>1, <3>1, <3>2, ReclassedKeeps
  <2>2. CASE ~(grouped /\ e.klass \in Deviations)
    BY <2>2
  <2> QED
    BY <2>1, <2>2
<1> HIDE DEF R, Plain, Conflicts
<1>6. ASSUME NEW d \in FinalDrafts, NEW f \in FinalDrafts, d.object = f.object, d.path = f.path,
             d.klass # "SourceConflict", f.klass # "SourceConflict"
      PROVE  d = f
  <2>1. PICK x \in AllDrafts : d = R(x)
    BY <1>3
  <2>2. PICK y \in AllDrafts : f = R(y)
    BY <1>3
  <2>3. x.klass # "SourceConflict" /\ y.klass # "SourceConflict"
    BY <1>5, <1>6, <2>1, <2>2 DEF Deviations
  <2>4. x.object = y.object /\ x.path = y.path
    BY <1>5, <1>6, <2>1, <2>2
  <2>5. x = y
    BY <1>4, <2>3, <2>4
  <2> QED
    BY <2>1, <2>2, <2>5
<1>7. ASSUME NEW d \in FinalDrafts
      PROVE  /\ d.klass \in Plainly \cup {"SourceConflict", k}
             /\ grouped => d.klass \notin Deviations
             /\ ~grouped => d.klass # k
             /\ (d.qual # NoQualifier) = (d.klass \in L!Regrouped \cup {"SourceConflict"})
             /\ d.klass \notin L!Unmanaged =>
                  /\ d.object \in DOMAIN baseline.objects
                  /\ d.path = <<>> \/ d.path \in DOMAIN baseline.objects[d.object].fields
  <2>1. PICK e \in AllDrafts : d = R(e)
    BY <1>3
  <2>2. CASE d = e /\ (grouped => e.klass \notin Deviations)
    BY <1>2, <1>4, <2>2 DEF L!Regrouped, L!Unmanaged
  <2>3. CASE grouped /\ e.klass \in Deviations /\ d.klass = k /\ d.qual = q
    BY <1>2, <1>4, <1>5, <2>1, <2>3 DEF L!Regrouped, L!Unmanaged, Deviations
  <2> QED
    BY <1>5, <2>1, <2>2, <2>3
<1>8. L!Comparable(P)
  <2> DEFINE K == {x.klass : x \in P}
  <2>1. ASSUME NEW x \in P
        PROVE  \E d \in FinalDrafts : /\ x = [loc |-> <<d.object, d.path>>, klass |-> d.klass, qual |-> d.qual]
                                      /\ x.klass = d.klass /\ x.loc = <<d.object, d.path>>
    OBVIOUS
  <2>2. ASSUME NEW x \in P, NEW y \in P, x.loc = y.loc, x # y
        PROVE  "SourceConflict" \in {x.klass, y.klass}
    <3>1. PICK d \in FinalDrafts : /\ x = [loc |-> <<d.object, d.path>>, klass |-> d.klass, qual |-> d.qual]
                                   /\ x.klass = d.klass /\ x.loc = <<d.object, d.path>>
      BY <2>1
    <3>2. PICK f \in FinalDrafts : /\ y = [loc |-> <<f.object, f.path>>, klass |-> f.klass, qual |-> f.qual]
                                   /\ y.klass = f.klass /\ y.loc = <<f.object, f.path>>
      BY <2>1
    <3>3. d.object = f.object /\ d.path = f.path /\ d # f
      BY <2>2, <3>1, <3>2
    <3> QED
      BY <1>6, <3>1, <3>2, <3>3
  <2>3. \A c \in K : \E d \in FinalDrafts : c = d.klass
    BY <2>1
  <2> HIDE DEF K
  <2>4. K \cap L!Regrouped \in SUBSET {k}
    <3>1. ASSUME NEW c \in K \cap L!Regrouped PROVE c = k
      <4>1. PICK d \in FinalDrafts : c = d.klass
        BY <2>3
      <4> QED
        BY <1>7, <4>1 DEF L!Regrouped
    <3> QED
      BY <3>1
  <2>5. Cardinality(K \cap L!Regrouped) <= 1
    <3>1. IsFiniteSet({k}) /\ Cardinality({k}) = 1
      BY FS_Singleton
    <3> QED
      BY <2>4, <3>1, FS_Subset
  <2>6. K \cap L!Regrouped = {} \/ K \cap L!Regroupable = {}
    <3>1. CASE grouped
      <4>1. K \cap L!Regroupable = {}
        BY <1>7, <2>3, <3>1 DEF L!Regroupable, Deviations
      <4> QED
        BY <4>1
    <3>2. CASE ~grouped
      <4>1. K \cap L!Regrouped = {}
        BY <1>7, <2>3, <2>4, <3>2
      <4> QED
        BY <4>1
    <3> QED
      BY <3>1, <3>2
  <2>7. L!Cardinality(K \cap L!Regrouped) = Cardinality(K \cap L!Regrouped)
    BY Zenon DEF L!Cardinality, Cardinality
  <2> QED
    BY <2>2, <2>5, <2>6, <2>7 DEF L!Comparable, K
<1> QED
  BY <1>7, <1>8

\* A single draft about the target, or none, fits it too.
LEMMA ScopeDraftFits ==
    ASSUME NEW c, c \notin L!Regrouped \cup {"SourceConflict"}, NEW D,
           D \subseteq {MakeDraft(policy, "@target", <<>>, c, NoQualifier)},
           NEW P, P = {[loc |-> <<d.object, d.path>>, klass |-> d.klass, qual |-> d.qual] : d \in D}
    PROVE  /\ L!Comparable(P)
           /\ \A d \in D : /\ (d.qual # NoQualifier) = (d.klass \in L!Regrouped \cup {"SourceConflict"})
                           /\ d.object = "@target"
<1> DEFINE m == MakeDraft(policy, "@target", <<>>, c, NoQualifier)
           K == {x.klass : x \in P}
<1>1. m.object = "@target" /\ m.klass = c /\ m.qual = NoQualifier
  BY DEF MakeDraft
<1> HIDE DEF m
<1>2. /\ \A x, y \in P : x = y
      /\ \A x \in P : x.klass = c
  BY <1>1 DEF m
<1>3. K \cap L!Regrouped = {}
  BY <1>2
<1>4. L!Cardinality(K \cap L!Regrouped) = 0
  <2>1. L!Cardinality({}) = Cardinality({})
    BY Zenon DEF L!Cardinality, Cardinality
  <2> QED
    BY <1>3, <2>1, FS_EmptySet
<1>5. L!Comparable(P)
  BY <1>2, <1>3, <1>4 DEF L!Comparable, K
<1>6. \A d \in D : d = m
  BY DEF m
<1> QED
  BY <1>1, <1>5, <1>6

\* OutcomeFitsLedger for every input of CompareTarget: what the engine passes to
\* the ledger is what the ledger's own theorems assume of an evaluation.
THEOREM LedgerIsHandedEvaluations == Spec => []OutcomeFitsLedger
<1>1. OutcomeFitsLedger
  <2> DEFINE P == {[loc |-> <<d.object, d.path>>, klass |-> d.klass, qual |-> d.qual] : d \in Outcome.drafts}
             Fits == /\ L!Comparable(P)
                     /\ Outcome.decidable => {x.klass : x \in P} \cap L!Indeterminate = {}
                     /\ \A d \in Outcome.drafts :
                          /\ (d.qual # NoQualifier) = (d.klass \in L!Regrouped \cup {"SourceConflict"})
                          /\ d.object # "@target" /\ d.klass \notin L!Unmanaged =>
                               /\ d.object \in DOMAIN baseline.objects
                               /\ d.path = <<>> \/ d.path \in DOMAIN baseline.objects[d.object].fields
  <2> SUFFICES Fits
    BY Zenon DEF OutcomeFitsLedger
  <2>1. ASSUME NEW c \in {"IntentMissing", "StaleObservation"}, NEW D,
               D \subseteq {MakeDraft(policy, "@target", <<>>, c, NoQualifier)},
               Outcome = Evaluated(baseline, D, FALSE)
        PROVE  Fits
    <3>1. Outcome.drafts = D /\ ~Outcome.decidable
      BY <2>1 DEF Evaluated
    <3>2. c \notin L!Regrouped \cup {"SourceConflict"}
      BY DEF L!Regrouped
    <3>3. P = {[loc |-> <<d.object, d.path>>, klass |-> d.klass, qual |-> d.qual] : d \in D}
      BY <3>1
    <3>4. /\ L!Comparable(P)
          /\ \A d \in D : /\ (d.qual # NoQualifier) = (d.klass \in L!Regrouped \cup {"SourceConflict"})
                          /\ d.object = "@target"
      <4> HIDE DEF P
      <4> QED
        BY <2>1, <3>2, <3>3, ScopeDraftFits
    <3> HIDE DEF P
    <3> QED
      BY <3>1, <3>4
  <2>2. CASE baseline = NoBaseline
    <3> DEFINE D == IF policy.required
                      THEN {MakeDraft(policy, "@target", <<>>, "IntentMissing", NoQualifier)} ELSE {}
    <3>1. Outcome = Evaluated(baseline, D, FALSE)
      BY <2>2, OutcomeCases
    <3>2. D \subseteq {MakeDraft(policy, "@target", <<>>, "IntentMissing", NoQualifier)}
      OBVIOUS
    <3> HIDE DEF D, Fits
    <3> QED
      BY <2>1, <3>1, <3>2
  <2>3. CASE baseline # NoBaseline /\ (\A v \in Seen : ~v.usable)
    <3> DEFINE D == {MakeDraft(policy, "@target", <<>>, "StaleObservation", NoQualifier)}
    <3>1. Outcome = Evaluated(baseline, D, FALSE)
      BY <2>3, OutcomeCases
    <3>2. D \subseteq {MakeDraft(policy, "@target", <<>>, "StaleObservation", NoQualifier)}
      OBVIOUS
    <3> HIDE DEF D, Fits
    <3> QED
      BY <2>1, <3>1, <3>2
  <2>4. CASE baseline # NoBaseline /\ ~(\A v \in Seen : ~v.usable)
    <3> DEFINE Dec == \A d \in FinalDrafts : ~IsIndeterminateDrift(d.klass) /\ d.klass # "Unsupported"
               Ok == CoverageOk(policy, Evidence) /\ Dec
    <3>1. Outcome = Evaluated(baseline, FinalDrafts, Ok)
      BY <2>4, OutcomeCases
    <3> HIDE DEF Ok
    <3>2. Outcome.drafts = FinalDrafts /\ Outcome.decidable = Ok
      BY <3>1 DEF Evaluated
    <3>3. P = {[loc |-> <<d.object, d.path>>, klass |-> d.klass, qual |-> d.qual] : d \in FinalDrafts}
      BY <3>2
    <3>4. Outcome.decidable => {x.klass : x \in P} \cap L!Indeterminate = {}
      <4>1. \A x \in P : \E d \in FinalDrafts : x.klass = d.klass
        BY <3>3
      <4> HIDE DEF P
      <4> SUFFICES ASSUME Ok, NEW x \in P, x.klass \in L!Indeterminate PROVE FALSE
        BY <3>2
      <4>2. PICK d \in FinalDrafts : x.klass = d.klass
        BY <4>1
      <4> QED
        BY <4>2 DEF Ok, L!Indeterminate, IsIndeterminateDrift
    <3> HIDE DEF P
    <3>5. /\ L!Comparable(P)
          /\ \A d \in FinalDrafts :
               /\ (d.qual # NoQualifier) = (d.klass \in L!Regrouped \cup {"SourceConflict"})
               /\ d.object # "@target" /\ d.klass \notin L!Unmanaged =>
                    /\ d.object \in DOMAIN baseline.objects
                    /\ d.path = <<>> \/ d.path \in DOMAIN baseline.objects[d.object].fields
      BY <3>3, LeafDraftsFit
    <3> QED
      BY <3>2, <3>4, <3>5
  <2> HIDE DEF Fits
  <2> QED
    BY <2>2, <2>3, <2>4
<1> QED
  BY <1>1, PTL
-----------------------------------------------------------------------------
(* Times as text *)

\* The times a comparison reads travelled as text: collected in a document,
\* received and expiring in the ledger file.  Here a second and a day are as long
\* as in the code, and a time is 64 bits wide.
Cal == INSTANCE Calendar WITH NanosPerSecond <- 1000000000, SecondsPerDay <- 86400,
                              MaxNanos <- 9223372036854775807

\* The Gregorian calendar.
IsLeapYear(y) == y % 4 = 0 /\ (y % 100 # 0 \/ y % 400 = 0)
DaysInMonth(y, m) ==
    IF m = 2 THEN IF IsLeapYear(y) THEN 29 ELSE 28 ELSE IF m \in {4, 6, 9, 11} THEN 30 ELSE 31
IsDate(y, m, d) == y \in Int /\ m \in Int /\ 1 <= m /\ m <= 12 /\ d \in Int /\ 1 <= d /\ d <= DaysInMonth(y, m)

\* DaysFromCivil counts years and months from March.
MarchYear(y, m) == IF m <= 2 THEN y - 1 ELSE y
MarchMonth(m) == IF m > 2 THEN m - 3 ELSE m + 9
Counted(era, yoe, mp, d) ==
    era * 146097 + (yoe * 365 + yoe \div 4 - yoe \div 100 + ((153 * mp + 2) \div 5 + d - 1)) - 719468

\* The count of days for the parts of a date.
LEMMA CountOf ==
    ASSUME NEW y \in Int, NEW m \in Int, NEW d \in Int
    PROVE  Cal!DaysFromCivil(y, m, d) =
             Counted(MarchYear(y, m) \div 400, MarchYear(y, m) - (MarchYear(y, m) \div 400) * 400,
                     MarchMonth(m), d)
<1> DEFINE year == MarchYear(y, m)
           up == IF year >= 0 THEN year ELSE year - 399
           e == Cal!Quotient(up, 400)
<1>1. year \in Int
  BY SMT DEF MarchYear
<1>2. Cal!DaysFromCivil(y, m, d) = Counted(e, year - e * 400, MarchMonth(m), d)
  BY SMT DEF Cal!DaysFromCivil, MarchYear, MarchMonth, Counted
<1> HIDE DEF year
<1>3. e = year \div 400
  <2>1. CASE year >= 0
    BY <1>1, <2>1, SMT DEF Cal!Quotient
  <2>2. CASE year < 0
    BY <1>1, <2>2, SMT DEF Cal!Quotient
  <2> QED
    BY <1>1, <2>1, <2>2, SMT
<1> HIDE DEF e
<1> QED
  BY <1>2, <1>3, SMT DEF year

\* The parts CivilFromDays goes through: the era, the day in it, the year and the
\* day of that, the month counted from March and the day of that.
EraOf(n) == (n + 719468) \div 146097
DayOfEra(n) == (n + 719468) - EraOf(n) * 146097
YearOf(doe) == (doe - doe \div 1460 + doe \div 36524 - doe \div 146096) \div 365
DayOf(doe) == doe - (365 * YearOf(doe) + YearOf(doe) \div 4 - YearOf(doe) \div 100)
MonthFrom(doy) == (5 * doy + 2) \div 153
MonthNumber(mp) == IF mp < 10 THEN mp + 3 ELSE mp - 9
DayFrom(doy) == doy - (153 * MonthFrom(doy) + 2) \div 5 + 1

\* The year of the era and the day in it.
LEMMA YearOfEra ==
    ASSUME NEW doe \in Int, 0 <= doe, doe <= 146096
    PROVE  /\ YearOf(doe) \in Int /\ 0 <= YearOf(doe) /\ YearOf(doe) <= 399
           /\ DayOf(doe) \in Int /\ 0 <= DayOf(doe) /\ DayOf(doe) <= 365
<1>1. YearOf(doe) \in Int /\ 0 <= YearOf(doe) /\ YearOf(doe) <= 399
  BY SMT DEF YearOf
<1>2. DayOf(doe) \in Int
  BY <1>1, SMT DEF DayOf
<1>3. 0 <= DayOf(doe)
  BY SMT DEF DayOf, YearOf
<1>4. DayOf(doe) <= 365
  BY SMT DEF DayOf, YearOf
<1> QED
  BY <1>1, <1>2, <1>3, <1>4, SMT

\* A year of 366 days, counted from March, ends in a leap February.
LEMMA LongYear ==
    ASSUME NEW doe \in Int, 0 <= doe, doe <= 146096, DayOf(doe) = 365
    PROVE  IsLeapYear(YearOf(doe) + 1)
  BY SMT DEF IsLeapYear, DayOf, YearOf

\* The month and the day in it.
LEMMA MonthOfYear ==
    ASSUME NEW doy \in Int, 0 <= doy, doy <= 365
    PROVE  /\ MonthFrom(doy) \in Int /\ 0 <= MonthFrom(doy) /\ MonthFrom(doy) <= 11
           /\ DayFrom(doy) \in Int /\ 1 <= DayFrom(doy) /\ DayFrom(doy) <= 31
           /\ MonthFrom(doy) \in {1, 3, 6, 8} => DayFrom(doy) <= 30
           /\ MonthFrom(doy) = 11 => DayFrom(doy) <= 29
           /\ (MonthFrom(doy) = 11 /\ DayFrom(doy) = 29) => doy = 365
<1> DEFINE mp == MonthFrom(doy)
<1>1. mp \in Int /\ mp = (5 * doy + 2) \div 153
  BY SMT DEF MonthFrom
<1> HIDE DEF mp
<1>2. 0 <= mp /\ mp <= 11
  BY <1>1, SMT
<1>3. DayFrom(doy) = doy - (153 * mp + 2) \div 5 + 1
  BY SMT DEF DayFrom, mp
<1>4. DayFrom(doy) \in Int /\ 1 <= DayFrom(doy) /\ DayFrom(doy) <= 31
  BY <1>1, <1>3, SMT
<1>5. mp \in {1, 3, 6, 8} => DayFrom(doy) <= 30
  BY <1>1, <1>3, SMT
<1>6. mp = 11 => DayFrom(doy) <= 29
  BY <1>1, <1>3, SMT
<1>7. (mp = 11 /\ DayFrom(doy) = 29) => doy = 365
  BY <1>1, <1>3, SMT
<1> QED
  BY <1>1, <1>2, <1>4, <1>5, <1>6, <1>7 DEF mp

\* CivilFromDays by these parts.
LEMMA CivilOf ==
    ASSUME NEW n \in Int
    PROVE  Cal!CivilFromDays(n) =
             LET doe == DayOfEra(n)
                 month == MonthNumber(MonthFrom(DayOf(doe)))
             IN  <<YearOf(doe) + EraOf(n) * 400 + (IF month <= 2 THEN 1 ELSE 0), month, DayFrom(DayOf(doe))>>
<1> DEFINE days == n + 719468
           up == IF days >= 0 THEN days ELSE days - 146096
           era == Cal!Quotient(up, 146097)
<1>1. days \in Int /\ up \in Int
  BY SMT
<1>2. era = EraOf(n)
  <2>1. CASE days >= 0
    BY <2>1, SMT DEF Cal!Quotient, EraOf
  <2>2. CASE days < 0
    BY <2>2, SMT DEF Cal!Quotient, EraOf
  <2> QED
    BY <1>1, <2>1, <2>2, SMT
<1>3. Cal!CivilFromDays(n) =
        LET doe == days - era * 146097
            month == MonthNumber(MonthFrom(DayOf(doe)))
        IN  <<YearOf(doe) + era * 400 + (IF month <= 2 THEN 1 ELSE 0), month, DayFrom(DayOf(doe))>>
  BY SMT DEF Cal!CivilFromDays, YearOf, DayOf, MonthFrom, MonthNumber, DayFrom
<1> HIDE DEF era
<1> QED
  BY <1>2, <1>3, SMT DEF DayOfEra

\* Adding whole eras does not change whether a year is a leap year.
LEMMA LeapInEra ==
    ASSUME NEW y \in Int, NEW era \in Int, NEW z \in Int, z = y + era * 400, IsLeapYear(y)
    PROVE  IsLeapYear(z)
  BY SMT DEF IsLeapYear

\* CivilFromDays names a day of the calendar, and DaysFromCivil counts that day.
LEMMA DateOfDay ==
    ASSUME NEW n \in Int
    PROVE  /\ IsDate(Cal!CivilFromDays(n)[1], Cal!CivilFromDays(n)[2], Cal!CivilFromDays(n)[3])
           /\ Cal!DaysFromCivil(Cal!CivilFromDays(n)[1], Cal!CivilFromDays(n)[2], Cal!CivilFromDays(n)[3]) = n
<1> DEFINE era == EraOf(n)
           doe == DayOfEra(n)
           yoe == YearOf(doe)
           doy == DayOf(doe)
           mp == MonthFrom(doy)
           month == MonthNumber(mp)
           day == DayFrom(doy)
           y == yoe + era * 400 + (IF month <= 2 THEN 1 ELSE 0)
<1>1. era \in Int /\ doe \in Int /\ 0 <= doe /\ doe <= 146096
  BY SMT DEF EraOf, DayOfEra
<1>2. n + 719468 = era * 146097 + doe
  BY <1>1, SMT DEF DayOfEra
<1>3. Cal!CivilFromDays(n) = <<y, month, day>>
  BY CivilOf, SMT
<1> HIDE DEF era, doe
<1>4. yoe \in Int /\ 0 <= yoe /\ yoe <= 399 /\ doy \in Int /\ 0 <= doy /\ doy <= 365
  BY <1>1, YearOfEra, SMT
<1>5. doy = 365 => IsLeapYear(yoe + 1)
  BY <1>1, LongYear, SMT
<1>6. doy = doe - (365 * yoe + yoe \div 4 - yoe \div 100)
  BY SMT DEF DayOf
<1> HIDE DEF yoe, doy
<1>7. day = doy - (153 * mp + 2) \div 5 + 1
  BY SMT DEF DayFrom
<1>8. /\ mp \in Int /\ 0 <= mp /\ mp <= 11 /\ day \in Int /\ 1 <= day /\ day <= 31
      /\ mp \in {1, 3, 6, 8} => day <= 30
      /\ mp = 11 => day <= 29
      /\ (mp = 11 /\ day = 29) => doy = 365
  BY <1>4, MonthOfYear, SMT
<1> HIDE DEF mp, day
<1>9. /\ month \in Int /\ 1 <= month /\ month <= 12 /\ y \in Int
      /\ month \in {4, 6, 9, 11} => mp \in {1, 3, 6, 8}
      /\ month = 2 => mp = 11
      /\ mp = MarchMonth(month) /\ yoe + era * 400 = MarchYear(y, month)
  BY <1>1, <1>4, <1>8, SMT DEF MonthNumber, MarchMonth, MarchYear
<1>10. IsDate(y, month, day)
  <2>1. CASE month = 2
    <3>1. y = (yoe + 1) + era * 400
      BY <1>1, <1>4, <2>1, SMT
    <3>2. yoe + 1 \in Int
      BY <1>4, SMT
    <3>3. IsLeapYear(yoe + 1) => IsLeapYear(y)
      <4> DEFINE x == yoe + 1
      <4> HIDE DEF x, y
      <4> QED
        BY <1>1, <1>9, <3>1, <3>2, LeapInEra, SMT DEF x
    <3>4. day = 29 => IsLeapYear(y)
      BY <1>5, <1>8, <1>9, <2>1, <3>3
    <3> HIDE DEF y, month
    <3> QED
      BY <1>8, <1>9, <2>1, <3>4, SMT DEF IsDate, DaysInMonth
  <2>2. CASE month # 2
    <3> HIDE DEF y, month
    <3> QED
      BY <1>8, <1>9, <2>2, SMT DEF IsDate, DaysInMonth
  <2> QED
    BY <2>1, <2>2, SMT
<1>11. Cal!DaysFromCivil(y, month, day) = n
  <2> DEFINE year == MarchYear(y, month)
  <2>1. year \in Int /\ year \div 400 = era /\ year - (year \div 400) * 400 = yoe
    BY <1>1, <1>4, <1>9, SMT
  <2> HIDE DEF y, month
  <2>2. Cal!DaysFromCivil(y, month, day) = Counted(year \div 400, year - (year \div 400) * 400, MarchMonth(month), day)
    BY <1>8, <1>9, CountOf, SMT
  <2>3. Cal!DaysFromCivil(y, month, day) = Counted(era, yoe, mp, day)
    BY <1>9, <2>1, <2>2, SMT
  <2> QED
    BY <1>1, <1>2, <1>4, <1>6, <1>7, <1>8, <2>3, SMT DEF Counted
<1> HIDE DEF y, month
<1> QED
  BY <1>3, <1>10, <1>11, SMT

\* The day after a day of the calendar.
NextDay(y, m, d) ==
    IF d < DaysInMonth(y, m) THEN <<y, m, d + 1>> ELSE IF m < 12 THEN <<y, m + 1, 1>> ELSE <<y + 1, 1, 1>>

\* The months, counted from March, are as long as the formula for their first days says.
LEMMA MonthLength ==
    ASSUME NEW y \in Int, NEW m \in Int, 1 <= m, m <= 12, m # 2
    PROVE  (153 * (MarchMonth(m) + 1) + 2) \div 5 = (153 * MarchMonth(m) + 2) \div 5 + DaysInMonth(y, m)
<1> DEFINE mp == MarchMonth(m)
           long == DaysInMonth(y, m)
<1>1. mp \in Int /\ 0 <= mp /\ mp <= 10
  BY SMT DEF MarchMonth
<1>2. long = IF mp \in {1, 3, 6, 8} THEN 30 ELSE 31
  BY SMT DEF MarchMonth, DaysInMonth
<1> HIDE DEF mp, long
<1> QED
  <2>1. (153 * (mp + 1) + 2) \div 5 = (153 * mp + 2) \div 5 + long
    BY <1>1, <1>2, SMT
  <2> QED
    BY <2>1 DEF mp, long

\* The days before the first of March of a year: the era is not seen from outside.
Marches(year) == (year \div 400) * 146097 + ((year - (year \div 400) * 400) * 365
                   + (year - (year \div 400) * 400) \div 4 - (year - (year \div 400) * 400) \div 100)

\* A year that begins in March is as long as the February it ends with makes it.
LEMMA MarchToMarch ==
    ASSUME NEW y \in Int
    PROVE  Marches(y) = Marches(y - 1) + 337 + DaysInMonth(y, 2)
<1> DEFINE era == y \div 400
           yoe == y - era * 400
<1>1. era \in Int /\ yoe \in Int /\ 0 <= yoe /\ yoe <= 399 /\ y = era * 400 + yoe
  BY SMT
<1> HIDE DEF era, yoe
<1>2. Marches(y) = era * 146097 + (yoe * 365 + yoe \div 4 - yoe \div 100)
  BY SMT DEF Marches, era, yoe
<1>3. DaysInMonth(y, 2) = IF yoe % 4 = 0 /\ (yoe % 100 # 0 \/ yoe = 0) THEN 29 ELSE 28
  <2>1. y % 4 = yoe % 4 /\ y % 100 = yoe % 100 /\ y % 400 = yoe
    BY <1>1, SMT
  <2> QED
    BY <1>1, <2>1, SMT DEF DaysInMonth, IsLeapYear
<1>4. CASE yoe # 0
  <2>1. (y - 1) \div 400 = era /\ (y - 1) - era * 400 = yoe - 1
    BY <1>1, <1>4, SMT
  <2>2. Marches(y - 1) = era * 146097 + ((yoe - 1) * 365 + (yoe - 1) \div 4 - (yoe - 1) \div 100)
    BY <1>1, <2>1, SMT DEF Marches
  <2> QED
    BY <1>1, <1>2, <1>3, <1>4, <2>2, SMT
<1>5. CASE yoe = 0
  <2>1. (y - 1) \div 400 = era - 1 /\ (y - 1) - (era - 1) * 400 = 399
    BY <1>1, <1>5, SMT
  <2>2. Marches(y - 1) = (era - 1) * 146097 + (399 * 365 + 399 \div 4 - 399 \div 100)
    BY <1>1, <2>1, SMT DEF Marches
  <2> QED
    BY <1>1, <1>2, <1>3, <1>5, <2>2, SMT
<1> QED
  BY <1>4, <1>5, SMT

\* The days before a month.
BeforeMonth(y, m) == Marches(MarchYear(y, m)) + (153 * MarchMonth(m) + 2) \div 5

\* The count of days as the days before the month and the days in it.
LEMMA CountInMonth ==
    ASSUME NEW y \in Int, NEW m \in Int, NEW d \in Int
    PROVE  /\ BeforeMonth(y, m) \in Int
           /\ Cal!DaysFromCivil(y, m, d) = BeforeMonth(y, m) + d - 719469
<1> DEFINE year == MarchYear(y, m)
           mp == MarchMonth(m)
<1>1. year \in Int /\ mp \in Int
  BY SMT DEF MarchYear, MarchMonth
<1> HIDE DEF year, mp
<1>2. Cal!DaysFromCivil(y, m, d) = Counted(year \div 400, year - (year \div 400) * 400, mp, d)
  BY CountOf, SMT DEF year, mp
<1>3. Counted(year \div 400, year - (year \div 400) * 400, mp, d) =
        Marches(year) + (153 * mp + 2) \div 5 + d - 719469
  BY <1>1, SMT DEF Counted, Marches
<1>4. BeforeMonth(y, m) \in Int
  BY SMT DEF BeforeMonth, Marches, MarchYear, MarchMonth
<1>5. BeforeMonth(y, m) = Marches(year) + (153 * mp + 2) \div 5
  BY SMT DEF BeforeMonth, year, mp
<1> QED
  BY <1>2, <1>3, <1>4, <1>5, SMT

\* DaysFromCivil goes up by one from a day of the calendar to the next.
LEMMA NextDayCounts ==
    ASSUME NEW y \in Int, NEW m \in Int, NEW d \in Int, IsDate(y, m, d)
    PROVE  Cal!DaysFromCivil(NextDay(y, m, d)[1], NextDay(y, m, d)[2], NextDay(y, m, d)[3]) =
             Cal!DaysFromCivil(y, m, d) + 1
<1>1. 1 <= m /\ m <= 12 /\ 1 <= d /\ d <= DaysInMonth(y, m) /\ DaysInMonth(y, m) \in Int
  BY SMT DEF IsDate, DaysInMonth
<1>4. CASE d < DaysInMonth(y, m)
  <2>1. NextDay(y, m, d) = <<y, m, d + 1>>
    BY <1>4, SMT DEF NextDay
  <2>2. Cal!DaysFromCivil(y, m, d + 1) = Cal!DaysFromCivil(y, m, d) + 1
    <3>1. d + 1 \in Int
      BY SMT
    <3>2. Cal!DaysFromCivil(y, m, d + 1) = BeforeMonth(y, m) + (d + 1) - 719469
      BY <3>1, CountInMonth, SMT
    <3>3. Cal!DaysFromCivil(y, m, d) = BeforeMonth(y, m) + d - 719469 /\ BeforeMonth(y, m) \in Int
      BY CountInMonth, SMT
    <3> QED
      BY <3>2, <3>3, SMT
  <2> QED
    BY <2>1, <2>2, SMT
<1>5. CASE d = DaysInMonth(y, m)
  <2> DEFINE z == IF m < 12 THEN y ELSE y + 1
             n == IF m < 12 THEN m + 1 ELSE 1
  <2>1. NextDay(y, m, d) = <<z, n, 1>> /\ z \in Int /\ n \in Int
    BY <1>1, <1>5, SMT DEF NextDay
  <2>2. BeforeMonth(z, n) = BeforeMonth(y, m) + DaysInMonth(y, m)
    <3>1. CASE m = 2
      <4>1. MarchYear(z, n) = y /\ MarchMonth(n) = 0 /\ MarchYear(y, m) = y - 1 /\ MarchMonth(m) = 11
        BY <3>1, SMT DEF MarchYear, MarchMonth
      <4>2. Marches(y) \in Int /\ Marches(y - 1) \in Int /\ Marches(y) = Marches(y - 1) + 337 + DaysInMonth(y, 2)
        <5>1. Marches(y) \in Int /\ Marches(y - 1) \in Int
          BY SMT DEF Marches
        <5>2. Marches(y) = Marches(y - 1) + 337 + DaysInMonth(y, 2)
          BY MarchToMarch
        <5> QED
          BY <5>1, <5>2
      <4> HIDE DEF z, n
      <4> QED
        BY <1>1, <3>1, <4>1, <4>2, SMT DEF BeforeMonth
    <3>2. CASE m # 2
      <4>1. MarchYear(z, n) = MarchYear(y, m) /\ MarchMonth(n) = MarchMonth(m) + 1
        BY <1>1, <3>2, SMT DEF MarchYear, MarchMonth
      <4>2. (153 * (MarchMonth(m) + 1) + 2) \div 5 = (153 * MarchMonth(m) + 2) \div 5 + DaysInMonth(y, m)
        BY <1>1, <3>2, MonthLength, SMT
      <4>3. Marches(MarchYear(y, m)) \in Int /\ (153 * MarchMonth(m) + 2) \div 5 \in Int
        BY SMT DEF Marches, MarchYear, MarchMonth
      <4> HIDE DEF z, n
      <4> QED
        BY <1>1, <4>1, <4>2, <4>3, SMT DEF BeforeMonth
    <3> QED
      BY <3>1, <3>2, SMT
  <2> HIDE DEF z, n
  <2>3. Cal!DaysFromCivil(z, n, 1) = Cal!DaysFromCivil(y, m, d) + 1
    <3>1. Cal!DaysFromCivil(z, n, 1) = BeforeMonth(z, n) + 1 - 719469
      BY <2>1, CountInMonth, SMT
    <3>2. Cal!DaysFromCivil(y, m, d) = BeforeMonth(y, m) + d - 719469 /\ BeforeMonth(y, m) \in Int
      BY CountInMonth, SMT
    <3> QED
      BY <1>1, <1>5, <2>2, <3>1, <3>2, SMT
  <2> QED
    BY <2>1, <2>3, SMT
<1> QED
  BY <1>1, <1>4, <1>5, SMT

\* The day of the era, for the year in it and the day of that.
InEra(yoe, doy) == 365 * yoe + yoe \div 4 - yoe \div 100 + doy

IsDayOfYear(yoe, doy) == 0 <= doy /\ doy <= 365 /\ (doy = 365 => IsLeapYear(yoe + 1))

\* The year and its day are found again from the day of the era.
LEMMA YearFound ==
    ASSUME NEW yoe \in Int, 0 <= yoe, yoe <= 399, NEW doy \in Int, IsDayOfYear(yoe, doy)
    PROVE  /\ 0 <= InEra(yoe, doy) /\ InEra(yoe, doy) <= 146096
           /\ YearOf(InEra(yoe, doy)) = yoe /\ DayOf(InEra(yoe, doy)) = doy
<1> DEFINE doe == InEra(yoe, doy)
<1>1. /\ doe = 365 * yoe + yoe \div 4 - yoe \div 100 + doy /\ doe \in Int
      /\ 0 <= doy /\ doy <= 365 /\ (doy = 365 => IsLeapYear(yoe + 1))
  BY SMT DEF InEra, IsDayOfYear
<1> HIDE DEF doe
<1>2. 0 <= doe /\ doe <= 146096
  BY <1>1, SMT DEF IsLeapYear
<1>3. YearOf(doe) = yoe
  BY <1>1, <1>2, SMT DEF YearOf, IsLeapYear
<1>4. DayOf(doe) = doy
  BY <1>1, <1>3, SMT DEF DayOf
<1> QED
  BY <1>2, <1>3, <1>4 DEF doe

\* The month and its day are found again from the day of the year.
LEMMA MonthFound ==
    ASSUME NEW mp \in Int, 0 <= mp, mp <= 11, NEW d \in Int, 1 <= d, d <= 31,
           mp \in {1, 3, 6, 8} => d <= 30, mp = 11 => d <= 29
    PROVE  LET doy == (153 * mp + 2) \div 5 + d - 1
           IN  /\ doy \in Int /\ 0 <= doy /\ doy <= 365 /\ (doy = 365 => mp = 11 /\ d = 29)
               /\ MonthFrom(doy) = mp /\ DayFrom(doy) = d
<1> DEFINE doy == (153 * mp + 2) \div 5 + d - 1
<1>1. doy \in Int /\ 0 <= doy /\ doy <= 365 /\ (doy = 365 => mp = 11 /\ d = 29)
  BY SMT
<1>2. MonthFrom(doy) = mp
  BY SMT DEF MonthFrom
<1>3. DayFrom(doy) = d
  <2>1. doy = (153 * mp + 2) \div 5 + d - 1
    BY SMT
  <2> HIDE DEF doy
  <2>2. DayFrom(doy) = doy - (153 * mp + 2) \div 5 + 1
    BY <1>2, SMT DEF DayFrom
  <2> QED
    BY <2>1, <2>2, SMT
<1> QED
  BY <1>1, <1>2, <1>3

\* CivilFromDays undoes DaysFromCivil on the days of the calendar.
LEMMA DayOfDate ==
    ASSUME NEW y \in Int, NEW m \in Int, NEW d \in Int, IsDate(y, m, d)
    PROVE  Cal!CivilFromDays(Cal!DaysFromCivil(y, m, d)) = <<y, m, d>>
<1> DEFINE n == Cal!DaysFromCivil(y, m, d)
           year == MarchYear(y, m)
           era == year \div 400
           yoe == year - era * 400
           mp == MarchMonth(m)
           doy == (153 * mp + 2) \div 5 + d - 1
           doe == InEra(yoe, doy)
<1>1. year \in Int /\ mp \in Int /\ 0 <= mp /\ mp <= 11 /\ MonthNumber(mp) = m
  BY SMT DEF IsDate, MarchYear, MarchMonth, MonthNumber
<1>2. /\ 1 <= d /\ d <= 31
      /\ mp \in {1, 3, 6, 8} => d <= 30
      /\ mp = 11 => d <= 29
      /\ (mp = 11 /\ d = 29) => IsLeapYear(year + 1)
  BY SMT DEF IsDate, DaysInMonth, MarchYear, MarchMonth
<1>3. y = year + (IF m <= 2 THEN 1 ELSE 0)
  BY SMT DEF MarchYear
<1> HIDE DEF year, mp
<1>4. era \in Int /\ yoe \in Int /\ 0 <= yoe /\ yoe <= 399 /\ year = yoe + era * 400
  BY <1>1, SMT
<1>5. n = Counted(era, yoe, mp, d)
  BY CountOf, SMT DEF year, mp
<1> HIDE DEF era, yoe
<1>6. /\ doy \in Int /\ 0 <= doy /\ doy <= 365 /\ (doy = 365 => mp = 11 /\ d = 29)
      /\ MonthFrom(doy) = mp /\ DayFrom(doy) = d
  BY <1>1, <1>2, MonthFound, SMT
<1>7. doy = 365 => IsLeapYear(yoe + 1)
  <2>1. yoe + 1 = (year + 1) + (-era) * 400 /\ yoe + 1 \in Int /\ year + 1 \in Int /\ -era \in Int
    BY <1>1, <1>4, SMT
  <2>2. IsLeapYear(year + 1) => IsLeapYear(yoe + 1)
    <3> DEFINE a == year + 1
               b == yoe + 1
               c == -era
    <3> HIDE DEF a, b, c
    <3>1. a \in Int /\ b \in Int /\ c \in Int /\ b = a + c * 400
      BY <2>1 DEF a, b, c
    <3>2. IsLeapYear(a) => IsLeapYear(b)
      BY <3>1, SMT DEF IsLeapYear
    <3> QED
      BY <3>2 DEF a, b
  <2> QED
    BY <1>2, <1>6, <2>2
<1>8. doe \in Int /\ n + 719468 = era * 146097 + doe /\ n \in Int
  BY <1>4, <1>5, <1>6, <1>1, SMT DEF Counted, InEra
<1> HIDE DEF n, doy
<1>9. 0 <= doe /\ doe <= 146096 /\ YearOf(doe) = yoe /\ DayOf(doe) = doy
  <2>1. IsDayOfYear(yoe, doy)
    BY <1>6, <1>7 DEF IsDayOfYear
  <2> QED
    BY <1>4, <1>6, <2>1, YearFound, SMT
<1> HIDE DEF doe
<1>10. EraOf(n) = era
  BY <1>4, <1>8, <1>9, SMT DEF EraOf
<1>11. DayOfEra(n) = doe
  BY <1>4, <1>8, <1>10, SMT DEF DayOfEra
<1>12. Cal!CivilFromDays(n) = <<yoe + era * 400 + (IF m <= 2 THEN 1 ELSE 0), m, d>>
  BY <1>1, <1>6, <1>8, <1>9, <1>10, <1>11, CivilOf, SMT
<1>13. Cal!CivilFromDays(n) = <<y, m, d>>
  BY <1>3, <1>4, <1>12, SMT
<1> QED
  BY <1>13 DEF n

\* The years of the times an int64 of nanoseconds reaches have four digits.
LEMMA FourDigits ==
    ASSUME NEW n \in Int, -200000 <= n, n <= 200000
    PROVE  1000 <= Cal!CivilFromDays(n)[1] /\ Cal!CivilFromDays(n)[1] <= 9999
<1> DEFINE doe == DayOfEra(n)
           month == MonthNumber(MonthFrom(DayOf(doe)))
           extra == IF month <= 2 THEN 1 ELSE 0
<1>1. 3 <= EraOf(n) /\ EraOf(n) <= 6 /\ EraOf(n) \in Int /\ doe \in Int /\ 0 <= doe /\ doe <= 146096
  BY SMT DEF EraOf, DayOfEra
<1>2. YearOf(doe) \in Int /\ 0 <= YearOf(doe) /\ YearOf(doe) <= 399
  BY <1>1, YearOfEra, SMT
<1>3. Cal!CivilFromDays(n)[1] = YearOf(doe) + EraOf(n) * 400 + extra
  BY CivilOf, SMT
<1>4. extra \in Int /\ 0 <= extra /\ extra <= 1
  BY SMT
<1> HIDE DEF doe, extra
<1> QED
  BY <1>1, <1>2, <1>3, <1>4, SMT

\* The count of days that the texts of times rest on is the Gregorian calendar
\* (DaysFromCivil and CivilFromDays, time.cpp:23-46): the first of January 1970 is
\* day 0, a day of the calendar and the next one have consecutive numbers, every
\* number is the number of the day CivilFromDays names, and every day of the
\* calendar is found again from its number, in any year before or after.
THEOREM DaysAreGregorian ==
    /\ Cal!DaysFromCivil(1970, 1, 1) = 0
    /\ \A y, m, d \in Int : IsDate(y, m, d) =>
          /\ Cal!DaysFromCivil(NextDay(y, m, d)[1], NextDay(y, m, d)[2], NextDay(y, m, d)[3]) =
               Cal!DaysFromCivil(y, m, d) + 1
          /\ Cal!CivilFromDays(Cal!DaysFromCivil(y, m, d)) = <<y, m, d>>
    /\ \A n \in Int :
          /\ IsDate(Cal!CivilFromDays(n)[1], Cal!CivilFromDays(n)[2], Cal!CivilFromDays(n)[3])
          /\ Cal!DaysFromCivil(Cal!CivilFromDays(n)[1], Cal!CivilFromDays(n)[2], Cal!CivilFromDays(n)[3]) = n
<1>1. Cal!DaysFromCivil(1970, 1, 1) = 0
  BY SMT DEF Cal!DaysFromCivil, Cal!Quotient
<1>2. ASSUME NEW y \in Int, NEW m \in Int, NEW d \in Int, IsDate(y, m, d)
      PROVE  /\ Cal!DaysFromCivil(NextDay(y, m, d)[1], NextDay(y, m, d)[2], NextDay(y, m, d)[3]) =
                  Cal!DaysFromCivil(y, m, d) + 1
             /\ Cal!CivilFromDays(Cal!DaysFromCivil(y, m, d)) = <<y, m, d>>
  BY <1>2, NextDayCounts, DayOfDate, SMT
<1>3. ASSUME NEW n \in Int
      PROVE  /\ IsDate(Cal!CivilFromDays(n)[1], Cal!CivilFromDays(n)[2], Cal!CivilFromDays(n)[3])
             /\ Cal!DaysFromCivil(Cal!CivilFromDays(n)[1], Cal!CivilFromDays(n)[2], Cal!CivilFromDays(n)[3]) = n
  BY DateOfDay, SMT
<1> QED
  BY <1>1, <1>2, <1>3, SMT

\* The least and the largest time the code can hold.
IsTime(t) == t \in Int /\ -9223372036854775808 <= t /\ t <= 9223372036854775807

\* The text FormatTime writes, by the whole seconds since 1970 and the fraction.
Written(seconds, fraction) ==
    Cal!TimeText(Cal!CivilFromDays(Cal!Quotient(seconds, 86400)),
               IF Cal!Remainder(seconds, 86400) < 0 THEN Cal!Remainder(seconds, 86400) + 86400
                                                  ELSE Cal!Remainder(seconds, 86400),
               fraction)

\* FormatTime rounds down to the second, before 1970 too.
LEMMA WrittenAs ==
    ASSUME NEW t \in Int
    PROVE  \E seconds, fraction \in Int :
             /\ Cal!FormatTime(t) = Written(seconds, fraction)
             /\ t = seconds * 1000000000 + fraction
             /\ 0 <= fraction /\ fraction <= 999999999
<1> DEFINE below == Cal!Remainder(t, 1000000000) < 0
           fraction == Cal!Remainder(t, 1000000000) + (IF below THEN 1000000000 ELSE 0)
           seconds == Cal!Quotient(t, 1000000000) - (IF below THEN 1 ELSE 0)
<1>1. Cal!FormatTime(t) = Written(seconds, fraction)
  BY SMT DEF Cal!FormatTime, Written
<1>2. /\ seconds \in Int /\ fraction \in Int
      /\ t = seconds * 1000000000 + fraction
      /\ 0 <= fraction /\ fraction <= 999999999
  <2>1. CASE t >= 0
    BY <2>1, SMT DEF Cal!Remainder, Cal!Quotient
  <2>2. CASE t < 0
    BY <2>2, SMT DEF Cal!Remainder, Cal!Quotient
  <2> QED
    BY <2>1, <2>2, SMT
<1> HIDE DEF seconds, fraction
<1> QED
  BY <1>1, <1>2

\* What the text of a time spells: the second it was written from, and a day more
\* when that lies before 1970 and not at midnight, since the rest of the day is
\* brought above zero and its day is not moved.
LEMMA SpelledAs ==
    ASSUME NEW seconds \in Int, NEW fraction \in Int
    PROVE  LET text == Written(seconds, fraction)
               late == IF seconds < 0 /\ seconds % 86400 # 0 THEN 86400 ELSE 0
           IN  /\ "date" \in DOMAIN text /\ text.fraction = fraction
               /\ text.second \in Int /\ 0 <= text.second /\ text.second <= 86400
               /\ text.date[2] \in 1..12 /\ text.date[3] \in 1..31
               /\ Cal!Spelled(text) = seconds + late
               /\ -10000000000 <= seconds /\ seconds <= 10000000000 =>
                    1000 <= text.date[1] /\ text.date[1] <= 9999
<1> DEFINE q == Cal!Quotient(seconds, 86400)
           r == Cal!Remainder(seconds, 86400)
           rest == IF r < 0 THEN r + 86400 ELSE r
           date == Cal!CivilFromDays(q)
           text == Written(seconds, fraction)
           late == IF seconds < 0 /\ seconds % 86400 # 0 THEN 86400 ELSE 0
<1>1. /\ q \in Int /\ rest \in Int /\ 0 <= rest /\ rest <= 86400
      /\ q * 86400 + rest = seconds + late
  <2>1. CASE seconds >= 0
    BY <2>1, SMT DEF Cal!Remainder, Cal!Quotient
  <2>2. CASE seconds < 0
    BY <2>2, SMT DEF Cal!Remainder, Cal!Quotient
  <2> QED
    BY <2>1, <2>2, SMT
<1>2. /\ "date" \in DOMAIN text /\ text.fraction = fraction /\ text.date = date
      /\ text.second = rest
  BY SMT DEF Written, Cal!TimeText
<1>3. -10000000000 <= seconds /\ seconds <= 10000000000 => -200000 <= q /\ q <= 200000
  <2>1. CASE seconds >= 0
    BY <2>1, SMT DEF Cal!Quotient
  <2>2. CASE seconds < 0
    BY <2>2, SMT DEF Cal!Quotient
  <2> QED
    BY <2>1, <2>2, SMT
<1> HIDE DEF q, rest, text
<1>4. -10000000000 <= seconds /\ seconds <= 10000000000 => 1000 <= date[1] /\ date[1] <= 9999
  <2>1. -200000 <= q /\ q <= 200000 => 1000 <= date[1] /\ date[1] <= 9999
    BY <1>1, FourDigits, SMT
  <2> QED
    BY <1>3, <2>1, SMT
<1>5. IsDate(date[1], date[2], date[3]) /\ Cal!DaysFromCivil(date[1], date[2], date[3]) = q
  BY <1>1, DateOfDay, SMT
<1> HIDE DEF date, late
<1>6. /\ date[2] \in Int /\ 1 <= date[2] /\ date[2] <= 12
      /\ date[3] \in Int /\ 1 <= date[3] /\ date[3] <= 31
  BY <1>5, SMT DEF IsDate, DaysInMonth
<1>7. Cal!Spelled(text) = seconds + late
  BY <1>1, <1>2, <1>5, SMT DEF Cal!Spelled
<1>8. date[2] \in 1..12 /\ date[3] \in 1..31
  BY <1>6, SMT
<1>9. /\ "date" \in DOMAIN text /\ text.fraction = fraction
      /\ text.second \in Int /\ 0 <= text.second /\ text.second <= 86400
      /\ text.date[2] \in 1..12 /\ text.date[3] \in 1..31
      /\ Cal!Spelled(text) = seconds + late
  BY <1>1, <1>2, <1>7, <1>8, SMT
<1>10. -10000000000 <= seconds /\ seconds <= 10000000000 =>
         1000 <= text.date[1] /\ text.date[1] <= 9999
  BY <1>2, <1>4, SMT
<1> QED
  BY <1>9, <1>10 DEF text, late

\* What a time gains on its way through its text.
DayLate(t) == IF t < 0 /\ (t \div 1000000000) % 86400 # 0 THEN 86400000000000 ELSE 0

\* A time that a document or the ledger file spells out comes back as it was:
\* for every value of the int64, with the code's own seconds and days, the text
\* FormatTime writes has a year of four digits, TryParseTime accepts it, and it
\* means the time it was written from.  Times before 1970 that are not within the
\* first second of a day come back one day late (time.cpp:81-85); that is all
\* that is ever lost.
THEOREM TimesAsText ==
    \A t : IsTime(t) =>
       /\ Cal!TryParseTime(Cal!FormatTime(t))
       /\ Cal!ParsedTime(Cal!FormatTime(t)) = t + DayLate(t)
       /\ 1000 <= Cal!FormatTime(t).date[1] /\ Cal!FormatTime(t).date[1] <= 9999
<1> SUFFICES ASSUME NEW t, IsTime(t)
             PROVE  /\ Cal!TryParseTime(Cal!FormatTime(t)) /\ Cal!ParsedTime(Cal!FormatTime(t)) = t + DayLate(t)
                    /\ 1000 <= Cal!FormatTime(t).date[1] /\ Cal!FormatTime(t).date[1] <= 9999
  OBVIOUS
<1>1. t \in Int /\ -9223372036854775808 <= t /\ t <= 9223372036854775807
  BY SMT DEF IsTime
<1>2. PICK seconds, fraction \in Int :
             /\ Cal!FormatTime(t) = Written(seconds, fraction)
             /\ t = seconds * 1000000000 + fraction
             /\ 0 <= fraction /\ fraction <= 999999999
  BY <1>1, WrittenAs, SMT
<1> DEFINE text == Written(seconds, fraction)
           late == IF seconds < 0 /\ seconds % 86400 # 0 THEN 86400 ELSE 0
<1>3. /\ "date" \in DOMAIN text /\ text.fraction = fraction
      /\ text.second \in Int /\ 0 <= text.second /\ text.second <= 86400
      /\ text.date[2] \in 1..12 /\ text.date[3] \in 1..31
      /\ Cal!Spelled(text) = seconds + late
      /\ -10000000000 <= seconds /\ seconds <= 10000000000 =>
           1000 <= text.date[1] /\ text.date[1] <= 9999
  BY SpelledAs, SMT
<1>4. late \in Int /\ late * 1000000000 = DayLate(t)
  <2>1. t \div 1000000000 = seconds /\ (t < 0 <=> seconds < 0)
    BY <1>1, <1>2, SMT
  <2> QED
    BY <2>1, SMT DEF DayLate
<1>5. seconds + late <= Cal!Quotient(9223372036854775807 - fraction, 1000000000)
  <2>1. 9223372036854775807 - fraction >= 0
    BY <1>2, SMT
  <2> QED
    BY <1>1, <1>2, <2>1, SMT DEF Cal!Quotient
<1>6. seconds + late >= Cal!Quotient(-(9223372036854775807 + 1) + fraction, 1000000000)
  <2>1. -(9223372036854775807 + 1) + fraction < 0
    BY <1>2, SMT
  <2> QED
    BY <1>1, <1>2, <2>1, SMT DEF Cal!Quotient
<1>7. -10000000000 <= seconds /\ seconds <= 10000000000
  BY <1>1, <1>2, SMT
<1> HIDE DEF text, late
<1>8. 1000 <= text.date[1] /\ text.date[1] <= 9999
  BY <1>3, <1>7
<1>9. text.fraction = fraction /\ 0 <= fraction /\ fraction < 1000000000
  BY <1>2, <1>3, SMT
<1>10. Cal!TryParseTime(text)
  <2>1. /\ Cal!Spelled(text) <= Cal!Quotient(9223372036854775807 - text.fraction, 1000000000)
        /\ Cal!Spelled(text) >= Cal!Quotient(-(9223372036854775807 + 1) + text.fraction, 1000000000)
    BY <1>3, <1>5, <1>6, SMT
  <2>2. "date" \in DOMAIN text /\ text.date[2] \in 1..12 /\ text.date[3] \in 1..31
    BY <1>3, SMT
  <2> QED
    BY <1>3, <1>9, <2>1, <2>2, SMT DEF Cal!TryParseTime
<1>11. Cal!ParsedTime(text) = t + DayLate(t)
  BY <1>2, <1>3, <1>4, SMT DEF Cal!ParsedTime
<1> QED
  BY <1>2, <1>10, <1>11, <1>8 DEF text

-----------------------------------------------------------------------------
(* Numbers of different types *)

\* What the comparison calls a mismatch is decided by RelateValues, and for
\* numbers by RelateNumerics.  Here they are as wide as in the code.
Num == INSTANCE Numbers WITH IntMax <- 9223372036854775807, Mantissa <- 18014398509481984

IsInt(v) ==
    v.kind = "Int" /\ v.int \in Int /\ -9223372036854775808 <= v.int /\ v.int <= 9223372036854775807

IsUint(v) ==
    v.kind = "Uint" /\ v.uint \in Int /\ 0 <= v.uint /\ v.uint <= 18446744073709551615

IsDoubleValue(v) == v.kind = "Double" /\ v.half \in Int

IsNumber(v) == IsInt(v) \/ IsUint(v) \/ IsDoubleValue(v)

\* A double is compared with a signed integer by what they denote.
LEMMA DoubleMeetsInt ==
    ASSUME NEW d, NEW v, IsDoubleValue(d), IsInt(v)
    PROVE  Num!EqualsInt(d, v.int) <=> d.half = 2 * v.int
<1> DEFINE h == d.half
           n == v.int
<1>1. h \in Int /\ n \in Int /\ -9223372036854775808 <= n /\ n <= 9223372036854775807
  BY DEF IsDoubleValue, IsInt
<1>2. Num!EqualsInt(d, n) <=>
        /\ h % 2 = 0 /\ h >= 2 * (-(9223372036854775807 + 1)) /\ h < 2 * (9223372036854775807 + 1)
        /\ h \div 2 = n
  BY SMT DEF Num!EqualsInt, Num!WholeIn
<1> HIDE DEF h, n
<1>3. Num!EqualsInt(d, n) <=> h = 2 * n
  BY <1>1, <1>2, SMT
<1> QED
  BY <1>3 DEF h, n

\* A double is compared with an unsigned integer by what they denote.
LEMMA DoubleMeetsUint ==
    ASSUME NEW d, NEW v, IsDoubleValue(d), IsUint(v)
    PROVE  Num!EqualsUint(d, v.uint) <=> d.half = 2 * v.uint
<1> DEFINE h == d.half
           n == v.uint
<1>1. h \in Int /\ n \in Int /\ 0 <= n /\ n <= 18446744073709551615
  BY DEF IsDoubleValue, IsUint
<1>2. Num!EqualsUint(d, n) <=>
        /\ h % 2 = 0 /\ h >= 2 * 0 /\ h < 2 * (2 * 9223372036854775807 + 1 + 1)
        /\ h \div 2 = n
  BY SMT DEF Num!EqualsUint, Num!WholeIn, Num!UintMax
<1> HIDE DEF h, n
<1>3. Num!EqualsUint(d, n) <=> h = 2 * n
  BY <1>1, <1>2, SMT
<1> QED
  BY <1>3 DEF h, n

\* An intended and an observed number are equal exactly when they denote the same
\* number, whatever their types and however large they are, for integers as wide
\* as the code's and every whole number of halves as a double (RelateNumerics,
\* value.cpp:546-600): a double beside a large integer, above INT64_MAX or outside
\* the type is never taken for it.  So it does not matter which side is the
\* intended one, and a number equal to two others makes these equal.
THEOREM NumbersByMeaning ==
    \A a, b : IsNumber(a) /\ IsNumber(b) =>
       (Num!RelateNumerics(a, b) <=> Num!InHalves(a) = Num!InHalves(b))
<1> SUFFICES ASSUME NEW a, NEW b, IsNumber(a), IsNumber(b)
             PROVE  Num!RelateNumerics(a, b) <=> Num!InHalves(a) = Num!InHalves(b)
  OBVIOUS
<1>1. ASSUME NEW v, IsInt(v) PROVE v.kind = "Int" /\ v.int \in Int /\ Num!InHalves(v) = 2 * v.int
  BY <1>1 DEF IsInt, Num!InHalves
<1>2. ASSUME NEW v, IsUint(v)
      PROVE  v.kind = "Uint" /\ v.uint \in Int /\ 0 <= v.uint /\ Num!InHalves(v) = 2 * v.uint
  BY <1>2 DEF IsUint, Num!InHalves
<1>3. ASSUME NEW v, IsDoubleValue(v) PROVE v.kind = "Double" /\ v.half \in Int /\ Num!InHalves(v) = v.half
  BY <1>3 DEF IsDoubleValue, Num!InHalves
<1>4. CASE IsInt(a)
  <2>1. CASE IsInt(b)
    <3>1. a.kind = "Int" /\ b.kind = "Int"
      BY <1>4, <2>1 DEF IsInt
    <3>2. Num!RelateNumerics(a, b) <=> (a.int = b.int)
      BY <3>1 DEF Num!RelateNumerics
    <3> QED
      BY <1>1, <1>4, <2>1, <3>2
  <2>2. CASE IsUint(b)
    <3>1. a.kind = "Int" /\ b.kind = "Uint"
      BY <1>4, <2>2 DEF IsInt, IsUint
    <3>2. Num!RelateNumerics(a, b) <=> (a.int >= 0 /\ a.int = b.uint)
      BY <3>1 DEF Num!RelateNumerics
    <3> QED
      BY <1>1, <1>2, <1>4, <2>2, <3>2
  <2>3. CASE IsDoubleValue(b)
    <3>1. a.kind = "Int" /\ b.kind = "Double"
      BY <1>4, <2>3 DEF IsDoubleValue, IsInt
    <3>2. Num!RelateNumerics(a, b) <=> Num!EqualsInt(b, a.int)
      BY <3>1 DEF Num!RelateNumerics
    <3> QED
      BY <1>1, <1>3, <1>4, <2>3, <3>2, DoubleMeetsInt
  <2> QED
    BY <2>1, <2>2, <2>3 DEF IsNumber
<1>5. CASE IsUint(a)
  <2>1. CASE IsInt(b)
    <3>1. a.kind = "Uint" /\ b.kind = "Int"
      BY <1>5, <2>1 DEF IsInt, IsUint
    <3>2. Num!RelateNumerics(a, b) <=> (b.int >= 0 /\ b.int = a.uint)
      BY <3>1 DEF Num!RelateNumerics
    <3> QED
      BY <1>1, <1>2, <1>5, <2>1, <3>2
  <2>2. CASE IsUint(b)
    <3>1. a.kind = "Uint" /\ b.kind = "Uint"
      BY <1>5, <2>2 DEF IsUint
    <3>2. Num!RelateNumerics(a, b) <=> (a.uint = b.uint)
      BY <3>1 DEF Num!RelateNumerics
    <3> QED
      BY <1>2, <1>5, <2>2, <3>2
  <2>3. CASE IsDoubleValue(b)
    <3>1. a.kind = "Uint" /\ b.kind = "Double"
      BY <1>5, <2>3 DEF IsDoubleValue, IsUint
    <3>2. Num!RelateNumerics(a, b) <=> Num!EqualsUint(b, a.uint)
      BY <3>1 DEF Num!RelateNumerics
    <3> QED
      BY <1>2, <1>3, <1>5, <2>3, <3>2, DoubleMeetsUint
  <2> QED
    BY <2>1, <2>2, <2>3 DEF IsNumber
<1>6. CASE IsDoubleValue(a)
  <2>1. CASE IsInt(b)
    <3>1. a.kind = "Double" /\ b.kind = "Int"
      BY <1>6, <2>1 DEF IsDoubleValue, IsInt
    <3>2. Num!RelateNumerics(a, b) <=> Num!EqualsInt(a, b.int)
      BY <3>1 DEF Num!RelateNumerics
    <3> QED
      BY <1>1, <1>3, <1>6, <2>1, <3>2, DoubleMeetsInt
  <2>2. CASE IsUint(b)
    <3>1. a.kind = "Double" /\ b.kind = "Uint"
      BY <1>6, <2>2 DEF IsDoubleValue, IsUint
    <3>2. Num!RelateNumerics(a, b) <=> Num!EqualsUint(a, b.uint)
      BY <3>1 DEF Num!RelateNumerics
    <3> QED
      BY <1>2, <1>3, <1>6, <2>2, <3>2, DoubleMeetsUint
  <2>3. CASE IsDoubleValue(b)
    <3>1. a.kind = "Double" /\ b.kind = "Double"
      BY <1>6, <2>3 DEF IsDoubleValue
    <3>2. Num!RelateNumerics(a, b) <=> (a.half = b.half)
      BY <3>1 DEF Num!RelateNumerics
    <3> QED
      BY <1>3, <1>6, <2>3, <3>2
  <2> QED
    BY <2>1, <2>2, <2>3 DEF IsNumber
<1> QED
  BY <1>4, <1>5, <1>6 DEF IsNumber
=============================================================================
