------------------------------ MODULE Numbers ------------------------------
(***************************************************************************)
(* The numbers among the values (src/src/value.cpp), and when two of them  *)
(* are equal.                                                              *)
(*                                                                         *)
(* The 64-bit types may be scaled down.  A signed integer is at most       *)
(* IntMax, an unsigned one at most 2 * IntMax + 1.  A double is a whole    *)
(* number of halves and the sign of its zero; beyond Mantissa halves, and  *)
(* again beyond twice that, only every second, every fourth is a double.   *)
(***************************************************************************)
EXTENDS Integers

CONSTANTS
    IntMax,      \* INT64_MAX
    Mantissa     \* the largest number of halves up to which all are doubles

ASSUME ValuesAssumption == IntMax \in Nat \ {0} /\ Mantissa \in Nat \ {0}

UintMax == 2 * IntMax + 1

MakeInt(n) == [kind |-> "Int", int |-> n]
MakeDouble(half, minus) == [kind |-> "Double", half |-> half, minus |-> minus]

\* Value::MakeUint: a number that fits the signed type is signed.
MakeUint(n) == IF n <= IntMax THEN MakeInt(n) ELSE [kind |-> "Uint", uint |-> n]

IsNumeric(v) == v.kind \in {"Int", "Uint", "Double"}
Magnitude(n) == IF n < 0 THEN -n ELSE n

IsDouble(half) ==
    \/ Magnitude(half) <= Mantissa
    \/ Magnitude(half) <= 2 * Mantissa /\ half % 2 = 0
    \/ Magnitude(half) <= 4 * Mantissa /\ half % 4 = 0

\* The double a decimal number is read as; none of them is close enough to a
\* number past the largest by half a step or more, which is infinite.
Nearest(half) ==
    CHOOSE d \in -4 * Mantissa .. 4 * Mantissa :
        /\ IsDouble(d)
        /\ \A e \in -4 * Mantissa .. 4 * Mantissa :
               IsDouble(e) => Magnitude(d - half) <= Magnitude(e - half)
IsFinite(half) == Magnitude(half) < 4 * Mantissa + 2

-----------------------------------------------------------------------------
(***************************************************************************)
(* RelateNumerics: a double equals an integer when it is whole, within the *)
(* integer's type, and converts to it.                                     *)
(***************************************************************************)

WholeIn(d, low, bound) == d.half % 2 = 0 /\ d.half >= 2 * low /\ d.half < 2 * bound

EqualsInt(d, n) == WholeIn(d, -(IntMax + 1), IntMax + 1) /\ d.half \div 2 = n
EqualsUint(d, n) == WholeIn(d, 0, UintMax + 1) /\ d.half \div 2 = n

InHalves(v) ==
    CASE v.kind = "Int"    -> 2 * v.int
      [] v.kind = "Uint"   -> 2 * v.uint
      [] v.kind = "Double" -> v.half

\* Mutant: the integer is converted to a double and the doubles are compared.
RelateNumericsAsDoubles(lhs, rhs) ==
    IF "Double" \in {lhs.kind, rhs.kind} THEN Nearest(InHalves(lhs)) = Nearest(InHalves(rhs))
    ELSE InHalves(lhs) = InHalves(rhs)

RelateNumerics(lhs, rhs) ==
    CASE lhs.kind = "Int" /\ rhs.kind = "Int"       -> lhs.int = rhs.int
      [] lhs.kind = "Uint" /\ rhs.kind = "Uint"     -> lhs.uint = rhs.uint
      [] lhs.kind = "Int" /\ rhs.kind = "Uint"      -> lhs.int >= 0 /\ lhs.int = rhs.uint
      [] lhs.kind = "Uint" /\ rhs.kind = "Int"      -> rhs.int >= 0 /\ rhs.int = lhs.uint
      [] lhs.kind = "Double" /\ rhs.kind = "Double" -> lhs.half = rhs.half
      [] lhs.kind = "Int" /\ rhs.kind = "Double"    -> EqualsInt(rhs, lhs.int)
      [] lhs.kind = "Double" /\ rhs.kind = "Int"    -> EqualsInt(lhs, rhs.int)
      [] lhs.kind = "Uint" /\ rhs.kind = "Double"   -> EqualsUint(rhs, lhs.uint)
      [] lhs.kind = "Double" /\ rhs.kind = "Uint"   -> EqualsUint(lhs, rhs.uint)
=============================================================================
