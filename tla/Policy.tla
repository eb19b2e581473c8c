------------------------------- MODULE Policy -------------------------------
(***************************************************************************)
(* The decisions of an observatory policy (src/src/policy.cpp): which rule *)
(* applies to a location, and what it says about lifetime, severity and    *)
(* the comparability of a field.  Pure functions of a policy record.       *)
(*                                                                         *)
(* An optional member of a selector or rule is the set of its value, empty *)
(* when unset.  A field path is the sequence of its keys, severities are   *)
(* 0..4 in the order of the enumeration.                                   *)
(***************************************************************************)
EXTENDS Integers, Sequences, FiniteSets, SequencesExt

\* FieldComparability, by rank.
Comparability == <<"Managed", "ObserveOnly", "Unmanaged", "Unobservable", "Unsupported">>
ComparabilityRank(c) == CHOOSE i \in DOMAIN Comparability : Comparability[i] = c

Matches(selector, target, object, path) ==
    /\ selector.target \subseteq {target}
    /\ selector.object \subseteq {object}
    /\ \A prefix \in selector.prefix : IsPrefix(prefix, path)

SelectorSpecificity(selector) ==
    8 * Cardinality(selector.target) + 4 * Cardinality(selector.object)
      + 2 * Cardinality(selector.prefix)

\* Mutant: among equally specific rules the first one declared wins.
OutranksStrictly(specificity, best) == specificity > best

\* A rule replaces the choice so far when it is at least as specific.
Outranks(specificity, best) == specificity >= best

TtlFor(policy, target, object, path) ==
    LET Step(acc, rule) ==
            LET specificity == SelectorSpecificity(rule.selector)
            IN  IF Matches(rule.selector, target, object, path) /\ Outranks(specificity, acc.best)
                  THEN [best |-> specificity, ttl |-> rule.ttl] ELSE acc
    IN  FoldLeft(Step, [best |-> -1, ttl |-> policy.ttl], policy.freshnessRules).ttl

\* The minimum severity of a rule is compared with the choice so far.
SeverityFor(policy, target, object, path, klass) ==
    LET Step(acc, rule) ==
            LET specificity == 4 * SelectorSpecificity(rule.selector)
                                 + Cardinality(rule.klass) + Cardinality(rule.minSeverity)
            IN  IF /\ Matches(rule.selector, target, object, path)
                   /\ rule.klass \subseteq {klass}
                   /\ \A least \in rule.minSeverity : acc.severity >= least
                   /\ Outranks(specificity, acc.best)
                  THEN [best |-> specificity, severity |-> rule.severity] ELSE acc
    IN  FoldLeft(Step, [best |-> -1, severity |-> policy.severity], policy.severityRules).severity

\* A rule narrows comparison only.
Narrowed(rank, rule) ==
    IF ComparabilityRank(rule.comparability) > rank THEN ComparabilityRank(rule.comparability) ELSE rank

ClassifyField(policy, target, object, path, intentView) ==
    LET Step(rank, rule) ==
            IF Matches(rule.selector, target, object, path) THEN Narrowed(rank, rule) ELSE rank
    IN  Comparability[FoldLeft(Step, ComparabilityRank(intentView), policy.fieldRules)]

=============================================================================
