------------------------------- MODULE MCQuery ------------------------------
\* Three findings, two of them at one object of target 1.
EXTENDS Query

MCIds == 1..3
MCTargetOf == <<1, 2, 1>>
MCObjectOf == <<2, 1, 2>>
MCSeverities == {0, 1}
MCTimes == {0, 1}

Asked(targets, severity, age, states, order) ==
    [targets |-> targets, minSeverity |-> severity, minAge |-> age,
     states |-> states, order |-> order]

MCSpecs ==
    {Asked({1, 2}, 0, -1, States, o) :
        o \in {"identity-ascending", "target-ascending", "first-seen-ascending"}}
        \cup {Asked({1}, 0, -1, {"open", "suppressed"}, "severity-descending"),
              Asked({1, 2}, 1, -1, {"open", "suppressed"}, "last-seen-descending"),
              Asked({1, 2}, 0, 1, States \ {"superseded"}, "identity-ascending")}

Kept(severity, first, last, state) ==
    [severity |-> severity, first |-> first, last |-> last, state |-> state]

\* A ledger with a finding that can open again and a live one, whose timeline
\* fills its bound, one where two findings tie, and one whose timeline is
\* beyond the bound.
MCSaved ==
    {[findings |-> (1 :> Kept(1, 1, 1, "resolved")) @@ (3 :> Kept(0, 0, 1, "open")),
      timeline |-> <<2, 4>>, sequence |-> 4],
     [findings |-> (1 :> Kept(0, 0, 0, "superseded")) @@ (2 :> Kept(1, 0, 1, "suppressed"))
                       @@ (3 :> Kept(0, 0, 0, "open")),
      timeline |-> <<1>>, sequence |-> 2],
     [findings |-> 2 :> Kept(0, 0, 0, "open"), timeline |-> <<1, 2, 3>>, sequence |-> 3]}
=============================================================================
