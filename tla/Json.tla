-------------------------------- MODULE Json --------------------------------
(***************************************************************************)
(* The JSON writer and parser (src/src/json.cpp).  A text is a sequence of *)
(* tokens: the white space in which the compact and the pretty form differ *)
(* and the spelling of strings (escapes) are left out.  The parser's       *)
(* recursive descent is a machine that reads one token after the other,    *)
(* with the containers still open on its stack.                            *)
(***************************************************************************)
EXTENDS Values

Mark(c) == [tok |-> c]
Text(text) == [tok |-> "string", text |-> text]
Number(half, integral, minus) ==
    [tok |-> "number", half |-> half, integral |-> integral, minus |-> minus]

kBytesMember == Word("$bytes")

\* Mutant: a double that is a whole number is written without its ".0".
NumberTokenShort(v) ==
    IF v.kind = "Double" THEN Number(v.half, v.half % 2 = 0, v.minus \/ v.half < 0)
    ELSE Number(InHalves(v), TRUE, InHalves(v) < 0)

\* std::to_string, and FormatDoubleCanonical: the shortest form that reads back
\* to the same double, with ".0" when nothing in it tells it from an integer.
NumberToken(v) == Number(InHalves(v), v.kind # "Double",
                         InHalves(v) < 0 \/ (v.kind = "Double" /\ v.minus))

RECURSIVE Write(_), WriteElements(_), WriteMembers(_, _)
WriteElements(list) ==
    IF list = <<>> THEN <<>>
    ELSE Write(Head(list)) \o (IF Len(list) = 1 THEN <<>> ELSE <<Mark(",")>>)
                           \o WriteElements(Tail(list))
WriteMembers(map, keys) ==
    IF keys = {} THEN <<>>
    ELSE LET k == CHOOSE k \in keys : TRUE
         IN  <<Text(k), Mark(":")>> \o Write(map[k])
                \o (IF keys = {k} THEN <<>> ELSE <<Mark(",")>>)
                \o WriteMembers(map, keys \ {k})

\* WriteCompact and WritePretty.  A byte string is an object with one member.
Write(v) ==
    CASE v.kind = "Null"   -> <<Mark("null")>>
      [] v.kind = "Bool"   -> <<Mark(IF v.bool THEN "true" ELSE "false")>>
      [] v.kind = "String" -> <<Text(v.text)>>
      [] v.kind = "Bytes"  -> <<Mark("{"), Text(kBytesMember), Mark(":"),
                                Text(HexText(v.raw, v.size)), Mark("}")>>
      [] v.kind = "List"   -> <<Mark("[")>> \o WriteElements(v.list) \o <<Mark("]")>>
      [] v.kind = "Map"    -> <<Mark("{")>> \o WriteMembers(v.map, DOMAIN v.map) \o <<Mark("}")>>
      [] OTHER             -> <<NumberToken(v)>>

-----------------------------------------------------------------------------

Refused == [kind |-> "Refused"]

\* ParseNumber: an integer if it is spelled as one and fits a type.
ParseNumber(t) ==
    IF t.integral /\ t.minus /\ t.half >= -2 * (IntMax + 1) THEN MakeInt(t.half \div 2)
    ELSE IF t.integral /\ ~t.minus /\ t.half <= 2 * UintMax THEN MakeUint(t.half \div 2)
    ELSE IF IsFinite(t.half) THEN MakeDouble(Nearest(t.half), t.minus)
    ELSE Refused

\* ParseString, for values and member names.
ParseString(text, limits) == IsValidUtf8(text) /\ text.bytes <= limits.leaf

IsHex(text) == "hex" \in DOMAIN text

\* FinishObject: the only member $bytes makes the object a byte string, and has
\* to carry one.
FinishObject(map, limits) ==
    IF DOMAIN map # {kBytesMember} THEN MakeMap(map)
    ELSE LET hex == map[kBytesMember] IN
         IF hex.kind # "String" THEN Refused
         ELSE IF ~IsHex(hex.text) THEN Refused
         ELSE IF hex.text.bytes \div 2 > limits.leaf THEN Refused
         ELSE MakeBytes(hex.text.hex, hex.text.bytes \div 2)

Top(stack) == stack[Len(stack)]
Rest(stack) == SubSeq(stack, 1, Len(stack) - 1)

Start(nodes) == [expect |-> "value", stack |-> <<>>, nodes |-> nodes, out |-> Refused]
Failed(p) == [p EXCEPT !.expect = "nothing", !.stack = <<>>, !.out = Refused]

\* A value is complete: it is the document, or goes into the innermost container.
Complete(p, v, limits) ==
    IF v = Refused THEN Failed(p)
    ELSE IF p.stack = <<>> THEN [p EXCEPT !.expect = "end", !.out = v]
    ELSE LET top == Top(p.stack) IN
         IF top.kind = "List"
         THEN IF Len(top.list) >= limits.nodes THEN Failed(p)
              ELSE [p EXCEPT !.expect = "after",
                             !.stack = Append(Rest(@), [top EXCEPT !.list = Append(@, v)])]
         ELSE IF top.key \in DOMAIN top.map \/ Cardinality(DOMAIN top.map) >= limits.fields
         THEN Failed(p)
         ELSE [p EXCEPT !.expect = "after",
                        !.stack = Append(Rest(@), [top EXCEPT !.map =
                            [k \in DOMAIN @ \cup {top.key} |-> IF k = top.key THEN v ELSE @[k]]])]

Push(p, container, expect) ==
    [p EXCEPT !.expect = expect, !.stack = Append(@, container)]

ParseValue(p, t, limits, depth) ==
    LET q == [p EXCEPT !.nodes = @ + 1] IN
    IF depth + Len(p.stack) > limits.depth \/ q.nodes > limits.nodes THEN Failed(p)
    ELSE CASE t.tok = "{"      -> Push(q, [kind |-> "Map", map |-> [k \in {} |-> MakeNull], key |-> kBytesMember],
                                       "firstKey")
           [] t.tok = "["      -> Push(q, [kind |-> "List", list |-> <<>>], "firstElement")
           [] t.tok = "string" -> IF ParseString(t.text, limits)
                                  THEN Complete(q, MakeString(t.text), limits) ELSE Failed(p)
           [] t.tok = "true"   -> Complete(q, MakeBool(TRUE), limits)
           [] t.tok = "false"  -> Complete(q, MakeBool(FALSE), limits)
           [] t.tok = "null"   -> Complete(q, MakeNull, limits)
           [] t.tok = "number" -> Complete(q, ParseNumber(t), limits)
           [] OTHER            -> Failed(p)

\* A member name.
ParseKey(p, t, limits) ==
    IF t.tok # "string" THEN Failed(p)
    ELSE IF ~ParseString(t.text, limits) THEN Failed(p)
    ELSE [p EXCEPT !.expect = "colon",
                   !.stack = Append(Rest(@), [Top(@) EXCEPT !.key = t.text])]

\* The innermost container ends.
Close(p, limits) ==
    LET top == Top(p.stack)
        v   == IF top.kind = "List" THEN MakeList(top.list) ELSE FinishObject(top.map, limits)
    IN  Complete([p EXCEPT !.stack = Rest(@)], v, limits)

ClosedBy(top, t) == t.tok = IF top.kind = "List" THEN "]" ELSE "}"

\* ParseObject, ParseArray and Parse, one token at a time.
Step(p, t, limits, depth) ==
    CASE p.expect = "value"        -> ParseValue(p, t, limits, depth)
      [] p.expect = "firstElement" -> IF t.tok = "]" THEN Close(p, limits)
                                      ELSE ParseValue(p, t, limits, depth)
      [] p.expect = "firstKey"     -> IF t.tok = "}" THEN Close(p, limits)
                                      ELSE ParseKey(p, t, limits)
      [] p.expect = "key"          -> ParseKey(p, t, limits)
      [] p.expect = "colon"        -> IF t.tok = ":" THEN [p EXCEPT !.expect = "value"]
                                      ELSE Failed(p)
      [] p.expect = "after"        ->
             IF ClosedBy(Top(p.stack), t) THEN Close(p, limits)
             ELSE IF t.tok # "," THEN Failed(p)
             ELSE [p EXCEPT !.expect = IF Top(p.stack).kind = "List" THEN "value" ELSE "key"]
      [] OTHER                     -> Failed(p)

\* The tokens in their order, the first half of them before the second; an error
\* ends the reading.
RECURSIVE Read(_, _, _, _)
Read(p, tokens, limits, depth) ==
    IF p.expect = "nothing" THEN p
    ELSE IF Len(tokens) = 1 THEN Step(p, tokens[1], limits, depth)
    ELSE LET half == Len(tokens) \div 2
         IN  Read(Read(p, SubSeq(tokens, 1, half), limits, depth),
                  SubSeq(tokens, half + 1, Len(tokens)), limits, depth)

\* ParseJson.  The value starts at the given depth of an enclosing document, which
\* has the given number of nodes besides.
ParseJson(text, limits, depth, nodes) ==
    IF text = <<>> \/ Len(text) > limits.document THEN Refused
    ELSE LET last == Read(Start(nodes), text, limits, depth)
         IN  IF last.expect = "end" THEN last.out ELSE Refused
=============================================================================
