----------------------------- MODULE Freshness -----------------------------
(***************************************************************************)
(* The freshness verdict on one retained observation                       *)
(* (src/src/freshness.cpp) and the checked time arithmetic it uses         *)
(* (src/src/time.cpp).  A pure function: the modules that keep evidence    *)
(* supply the snapshot, the clock reading and the live epoch.              *)
(*                                                                         *)
(* Times and durations are signed integers of the width the constant       *)
(* IntMax gives them (INT64_MAX in the program), 0 is an unset time.       *)
(***************************************************************************)
EXTENDS Integers

CONSTANT IntMax    \* the largest representable time or duration

ASSUME FreshnessAssumption == IntMax \in Nat \ {0}

Int64 == (-IntMax - 1)..IntMax
Unset == 0

\* Mutant: the subtraction wraps around instead of failing.
TryDifferenceWrapped(later, earlier) ==
    {CHOOSE d \in Int64 : (later - earlier - d) % (2 * IntMax + 2) = 0}

\* The difference of two times, or nothing when it does not fit the width.
TryDifference(later, earlier) ==
    IF later - earlier \in Int64 THEN {later - earlier} ELSE {}

\* A source may ask for a stricter lifetime than the policy's, not a longer one.
EffectiveTtl(s, p) == IF s.ttl > 0 /\ s.ttl < p.ttl THEN s.ttl ELSE p.ttl

\* The share of a lifetime after which evidence counts as aging, computed
\* without multiplying the whole lifetime.
AgingThreshold(ttl, percent) ==
    LET pct == IF percent < 0 THEN 0 ELSE IF percent > 100 THEN 100 ELSE percent
    IN  (ttl \div 100) * pct + ((ttl % 100) * pct) \div 100

\* The branch of EvaluateFreshness for evidence of the live epoch whose age is
\* inside the lifetime: how long the observatory has held it counts as well
\* when the policy says so.
WithinLifetime(s, p, now, age, ttl) ==
    IF p.receive /\ s.received # Unset /\ TryDifference(now, s.received) = {} THEN "Unknown"
    ELSE IF p.receive /\ s.received # Unset /\ now - s.received > ttl THEN "Stale"
    ELSE IF age > AgingThreshold(ttl, p.aging) THEN "Aging"
    ELSE "Fresh"

EvaluateFreshness(s, p, now, liveEpoch, recovered) ==
    LET ttl == EffectiveTtl(s, p)
        age == CHOOSE a \in TryDifference(now, s.collected) : TRUE
    IN  IF s.collected = Unset \/ TryDifference(now, s.collected) = {} THEN "Unknown"
        ELSE IF recovered THEN "RecoveredNotFresh"
        ELSE IF liveEpoch # 0 /\ s.epoch # liveEpoch THEN "Expired"
        ELSE IF age < -p.skew THEN "Future"
        ELSE IF ttl <= 0 THEN "Expired"
        ELSE IF age > ttl THEN "Stale"
        ELSE WithinLifetime(s, p, now, age, ttl)

\* FreshnessVerdict::may_support_compliance, is_fresh.
MaySupportCompliance(verdict) == verdict \in {"Fresh", "Aging"}

=============================================================================
