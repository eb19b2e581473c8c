---------------------------- MODULE MCDocuments ----------------------------
(***************************************************************************)
(* Three observations, two intents and a source descriptor that may be     *)
(* changed on their way.  Between them their values have every kind,       *)
(* integers that fit only the unsigned type and doubles that are whole     *)
(* numbers, and reach the bounds of depth, leaf and members.  And          *)
(* documents that are valid, but too large for a document or for a ledger  *)
(* file in each of the ways there are, or that are read as something else. *)
(***************************************************************************)
EXTENDS Documents, TLC

MCLimits == [depth |-> 7, nodes |-> 60, fields |-> 14, leaf |-> 2, document |-> 175, objects |-> 2,
             findings |-> 1, timeline |-> 2, targets |-> 1, ledger |-> 400]

AllCapable == [asserts_absence |-> TRUE, complete_coverage |-> TRUE,
               reports_nested_paths |-> FALSE, evidence |-> "real"]

Single(k, v) == [x \in {k} |-> v]
Pair(k, v, l, w) == [x \in {k, l} |-> IF x = k THEN v ELSE w]
Nothing == [x \in {} |-> MakeNull]

Observation(time, ttl, unobserved, objects) ==
    [type |-> "observation", source |-> Word("s"), epoch |-> 1, incarnation |-> 2,
     sequence |-> 5, target |-> Word("t"), collected_at |-> time, ttl_nanos |-> ttl,
     coverage |-> "complete", evidence |-> "real", unobserved |-> unobserved,
     capabilities |-> AllCapable, objects |-> objects]

Present(fields) == [presence |-> "present", fields |-> fields]
Absent == [presence |-> "absent", fields |-> Nothing]

Numbers == Observation(1, 2, <<>>,
    Single(Word("o"), Present(Pair(Word("p"), MakeDouble(4, FALSE), Word("q"), MakeUint(5)))))
Deep == Observation(2920, 0, <<Word("u"), Word("o")>>,
    Pair(Word("o"), Absent, Word("a"), Present(Single(Word("p"),
        MakeList(<<MakeMap(Single(Word("k"), MakeInt(-4))), MakeDouble(0, TRUE)>>)))))
Binary == Observation(5, 3, <<Word("u")>>,
    Single(Word("o"), Present(Pair(Word("p"), MakeBytes("raw", 1), Word("q"), MakeBool(TRUE)))))

Intent(field, existence) ==
    [type |-> "intent", target |-> Word("t"), generation |-> 4, epoch |-> 1,
     authority |-> "local-policy", policy |-> Word("y"), authored_at |-> 0, evidence |-> "real",
     objects |-> Single(Word("o"), [existence |-> existence, fields |-> field])]
Managed(v) == [value |-> v, comparability |-> "managed"]
Unmanaged(v) == [value |-> v, comparability |-> "unmanaged"]

Wanted == Intent(Pair(Word("p"), Managed(MakeList(<<MakeDouble(6, FALSE), MakeNull>>)),
                      Word("q"), Unmanaged(MakeString(Word("p")))), "required")
Forbidden == Intent(Nothing, "forbidden")

Source == [type |-> "source", id |-> Word("s"), epoch |-> 1, incarnation |-> 7,
           registered_at |-> 5, provenance |-> Word("o"), evidence |-> "synthetic",
           capabilities |-> AllCapable]

\* Not publishable: a sequence that was never set.
Unset == [Binary EXCEPT !.sequence = 0]

\* Past the bounds of what is parsed, though not of what Validate asks.
Reporting(v) == Observation(5, 3, <<>>, Single(Word("o"), Present(Single(Word("p"), v))))
Wide(size) == MakeMap([k \in {Word(ToString(n)) : n \in 1..size} |-> MakeNull])
RECURSIVE Nested(_, _)
Nested(v, depth) == IF depth = 0 THEN v ELSE MakeList(<<Nested(v, depth - 1)>>)
Large == {Reporting(MakeBytes("raw", 2)),
          Intent(Single(Word("p"), Managed(MakeBytes("raw", 2))), "required"),
          Reporting(Wide(15)), Reporting(Wide(17)), Reporting(MakeList(<<Wide(13), Wide(13)>>)),
          Reporting(Nested(MakeNull, 7)), Reporting(Nested(MakeBytes("raw", 1), 7)),
          Reporting(MakeList([i \in 1..38 |-> MakeNull]))}

\* Read as something else, or not at all.
Mistaken == {Reporting(MakeMap(Single(kBytesMember, MakeString(HexText("raw", 1))))),
             Reporting(MakeMap(Single(kBytesMember, MakeNull))),
             [Binary EXCEPT !.collected_at = -1], [Binary EXCEPT !.collected_at = -7]}

MCEdited == {Numbers, Deep, Binary, Wanted, Forbidden, Source}
MCDrafts == MCEdited \cup Large \cup Mistaken \cup {Unset}

MCEditTokens ==
    {Mark("null"), Mark("}"), Mark(","), Text(Word("o")), Text(Word("unknown")),
     Text(HexText("raw", 1)), Text(FormatTime(5)),
     Text(TimeText(<<1970, 2, 31>>, 0, 0)), Text(TimeText(<<1969, 12, 31>>, 1, 0)),
     Text(TimeText(<<1970, 1, 1>>, 2, 0)),
     Number(2, TRUE, FALSE), Number(-2, TRUE, TRUE), Number(4, TRUE, FALSE), Number(10, TRUE, FALSE),
     Number(9, FALSE, FALSE)}
============================================================================
