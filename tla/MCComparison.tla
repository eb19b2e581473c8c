---------------------------- MODULE MCComparison ----------------------------
(* Inputs of Comparison for TLC: families of snapshots, each rich in one   *)
(* dimension and plain in the others.                                      *)
EXTENDS Comparison, TLC

F == <<"f">>
G == <<"f", "g">>
A == AppliedGenerationPath
None == [x \in {} |-> 0]
Fields(f) == [presence |-> "Present", fields |-> f]

\* collected, ttl and the position of a plain snapshot
Plain == [source |-> 1, epoch |-> 1, incarnation |-> 1, sequence |-> 1, collected |-> 1, received |-> 0,
          ttl |-> 0, complete |-> TRUE, asserts |-> TRUE, nested |-> TRUE, unobserved |-> {},
          objects |-> ("o1" :> Fields(F :> 1))]

\* One object, every kind of report, all capabilities declared or all but one.
Reports == {Fields(None), Fields(F :> 1), Fields(F :> 2), Fields(F :> Null), Fields(F :> 1 @@ G :> 1),
            Fields(F :> 1 @@ A :> 2), [presence |-> "Unknown", fields |-> None]}
Declared == {<<TRUE, TRUE, TRUE>>, <<FALSE, TRUE, TRUE>>, <<TRUE, FALSE, TRUE>>, <<TRUE, TRUE, FALSE>>}
OneObject ==
    {[Plain EXCEPT !.complete = c, !.asserts = a, !.nested = n, !.unobserved = u, !.objects = objects] :
        <<c, a, n>> \in Declared, u \in {{}, {"o1"}},
        objects \in {None} \cup {"o1" :> r : r \in Reports}}
    \cup {[Plain EXCEPT !.complete = c, !.objects = ("o1" :> [presence |-> "Absent", fields |-> None])] :
             c \in BOOLEAN}

\* Two objects that report the generation applied to them, or not.
TwoObjects ==
    {[Plain EXCEPT !.objects = ("o1" :> Fields(F :> v @@ A :> g)) @@ ("o2" :> r)] :
        v \in {1, 2}, g \in 1..3, r \in {Fields(F :> 1), Fields(F :> 2 @@ A :> 1), Fields(F :> 1 @@ A :> 2)}}
    \cup {[Plain EXCEPT !.objects = ("o1" :> Fields(F :> 2 @@ A :> g))] : g \in {-1, 1, 2}}

\* A second source, which may report an undeclared object.
Second ==
    {[Plain EXCEPT !.source = 2, !.complete = c, !.objects = objects] :
        c \in BOOLEAN,
        objects \in {"o1" :> Fields(F :> 1), "o1" :> Fields(F :> 2),
                     ("o1" :> [presence |-> "Absent", fields |-> None]) @@ ("o3" :> Fields(None))}}

\* Epochs, sequences, collection times and requested lifetimes.
Dated == {[Plain EXCEPT !.epoch = e, !.sequence = n, !.collected = t, !.ttl = l] :
             e \in 1..2, n \in 1..2, t \in {-3, 1, 2}, l \in {0, 1}}

MCSnapshots == OneObject \cup TwoObjects \cup Second \cup Dated

Object(required, fields) == [required |-> required, fields |-> fields]
Managed(v) == [intended |-> v, comparability |-> "Managed"]
MCBaselines ==
    {[gen |-> 2, objects |-> objects] : objects \in
        {"o1" :> Object(TRUE, F :> Managed(1)),
         "o1" :> Object(TRUE, (F :> Managed(1)) @@ (G :> Managed(1))),
         ("o1" :> Object(TRUE, F :> Managed(1))) @@ ("o2" :> Object(TRUE, F :> Managed(1))),
         "o1" :> Object(FALSE, None),
         "o1" :> Object(TRUE, F :> [intended |-> 1, comparability |-> "Unmanaged"])}}

All == [target |-> {}, object |-> {}, prefix |-> {}]
Default == [ttl |-> 1, aging |-> 80, skew |-> 0, receive |-> TRUE, requireComplete |-> TRUE,
            requireAuthority |-> TRUE, priority |-> <<>>, required |-> FALSE, severity |-> 2,
            freshnessRules |-> <<>>, severityRules |-> <<>>, fieldRules |-> <<>>, timed |-> FALSE]
FieldRule(selector, c) == [selector |-> selector, comparability |-> c]
Severity(selector, klass, least, s) ==
    [selector |-> selector, klass |-> klass, minSeverity |-> least, severity |-> s]
Ttl(selector, ttl) == [selector |-> selector, ttl |-> ttl]

MCPolicies ==
    {Default,
     [Default EXCEPT !.required = TRUE, !.requireComplete = FALSE, !.requireAuthority = FALSE,
        !.severityRules = <<Severity([All EXCEPT !.object = {"o1"}], {}, {}, 4),
                            Severity(All, {"ValueMismatch"}, {}, 1),
                            Severity([All EXCEPT !.object = {"o1"}], {}, {}, 3)>>],
     [Default EXCEPT !.priority = <<2>>, !.fieldRules = <<FieldRule([All EXCEPT !.prefix = {F}], "Unmanaged")>>],
     [Default EXCEPT !.fieldRules = <<FieldRule([All EXCEPT !.prefix = {G}], "Unsupported"),
                                      FieldRule([All EXCEPT !.object = {"o1"}], "Managed")>>],
     [Default EXCEPT !.timed = TRUE, !.skew = 3, !.ttl = 2],
     [Default EXCEPT !.timed = TRUE, !.receive = FALSE, !.ttl = 3,
        !.freshnessRules = <<Ttl([All EXCEPT !.object = {"@target"}], 2), Ttl(All, 3),
                             Ttl([All EXCEPT !.object = {"@target"}], 1)>>]}

\* Dated snapshots go with the policies that differ in lifetimes.
MCCombines(p, s) == p.timed <=> s \in Dated

=============================================================================
