------------------------------- MODULE Values -------------------------------
(***************************************************************************)
(* Values (src/src/value.cpp): the tagged tree that intended and observed  *)
(* fields, documents and ledger records are made of; its bounds, and the   *)
(* relation the comparison decides by.                                     *)
(*                                                                         *)
(* A text is a record with its length in `bytes' and a field that says     *)
(* what it spells.                                                         *)
(***************************************************************************)
EXTENDS Numbers, Sequences, FiniteSets

kHardRecursionLimit == 64

Word(w) == [word |-> w, bytes |-> 1]
HexText(raw, size) == [hex |-> raw, bytes |-> 2 * size]     \* ToHex
NotUtf8 == Word("\\xff")
IsValidUtf8(text) == text # NotUtf8

MakeNull == [kind |-> "Null"]
MakeBool(b) == [kind |-> "Bool", bool |-> b]
MakeString(text) == [kind |-> "String", text |-> text]
MakeBytes(raw, size) == [kind |-> "Bytes", raw |-> raw, size |-> size]
MakeList(list) == [kind |-> "List", list |-> list]
MakeMap(map) == [kind |-> "Map", map |-> map]

Children(v) ==
    CASE v.kind = "List" -> {v.list[i] : i \in DOMAIN v.list}
      [] v.kind = "Map"  -> {v.map[k] : k \in DOMAIN v.map}
      [] OTHER           -> {}

RECURSIVE CountNodes(_), SumNodes(_, _)
SumNodes(elements, keys) ==
    IF keys = {} THEN 0
    ELSE LET k == CHOOSE k \in keys : TRUE
         IN  CountNodes(elements[k]) + SumNodes(elements, keys \ {k})
CountNodes(v) ==
    1 + CASE v.kind = "List" -> SumNodes(v.list, DOMAIN v.list)
          [] v.kind = "Map"  -> SumNodes(v.map, DOMAIN v.map)
          [] OTHER           -> 0

\* ValidateValue: the value and everything below it stay within the envelope.
RECURSIVE ValidateValue(_, _, _)
ValidateValue(v, limits, depth) ==
    /\ depth <= limits.depth /\ depth <= kHardRecursionLimit
    /\ v.kind = "String" => v.text.bytes <= limits.leaf /\ IsValidUtf8(v.text)
    /\ v.kind = "Bytes" => v.size <= limits.leaf
    /\ v.kind = "List" => Len(v.list) <= limits.nodes
    /\ v.kind = "Map" =>
           /\ Cardinality(DOMAIN v.map) <= limits.nodes
           /\ \A k \in DOMAIN v.map : k.bytes <= limits.leaf /\ IsValidUtf8(k)
    /\ \A c \in Children(v) : ValidateValue(c, limits, depth + 1)

Validate(v, limits) ==
    /\ CountNodes(v) <= limits.nodes
    /\ ValidateValue(v, limits, 0)

-----------------------------------------------------------------------------
\* The relation of two containers of the same size and the same member names.
Combined(relations) ==
    IF "Different" \in relations THEN "Different"
    ELSE IF "Incomparable" \in relations THEN "Incomparable"
    ELSE "Equal"

Iff(same) == IF same THEN "Equal" ELSE "Different"

RECURSIVE RelateValuesAt(_, _, _, _)
RelateValuesAt(lhs, rhs, exact, depth) ==
    LET Below(x, y) == RelateValuesAt(x, y, exact, depth + 1) IN
    IF depth > kHardRecursionLimit THEN "Incomparable"
    ELSE IF IsNumeric(lhs) /\ IsNumeric(rhs)
    THEN Iff((exact => lhs.kind = rhs.kind) /\ RelateNumerics(lhs, rhs))
    ELSE IF lhs.kind # rhs.kind THEN "Incomparable"
    ELSE CASE lhs.kind = "List" ->
                IF Len(lhs.list) # Len(rhs.list) THEN "Different"
                ELSE Combined({Below(lhs.list[i], rhs.list[i]) : i \in DOMAIN lhs.list})
           [] lhs.kind = "Map" ->
                IF DOMAIN lhs.map # DOMAIN rhs.map THEN "Different"
                ELSE Combined({Below(lhs.map[k], rhs.map[k]) : k \in DOMAIN lhs.map})
           [] OTHER -> Iff(lhs = rhs)

RelateValues(lhs, rhs, exact) == RelateValuesAt(lhs, rhs, exact, 0)
=============================================================================
