------------------------------ MODULE Calendar ------------------------------
(***************************************************************************)
(* Times as documents spell them (src/src/time.cpp).  A time is a number   *)
(* of nanoseconds since 1970, zero when unset; its RFC 3339 text names a   *)
(* date of the Gregorian calendar, a second of the day and a fraction.     *)
(* The seconds of a day and the nanoseconds of a second are scaled down,   *)
(* the calendar is not.                                                    *)
(***************************************************************************)
EXTENDS Integers

CONSTANTS
    NanosPerSecond,   \* kNanosPerSecond
    SecondsPerDay,    \* kSecondsPerDay
    MaxNanos          \* INT64_MAX

ASSUME CalendarAssumption ==
    NanosPerSecond \in Nat \ {0} /\ SecondsPerDay \in Nat \ {0} /\ MaxNanos \in Nat \ {0}

\* Division and remainder of C++, which round towards zero.
Quotient(a, b) == IF a >= 0 THEN a \div b ELSE -((-a) \div b)
Remainder(a, b) == a - b * Quotient(a, b)

\* Days from 1970-01-01.
DaysFromCivil(y, month, day) ==
    LET year == IF month <= 2 THEN y - 1 ELSE y
        era  == Quotient(IF year >= 0 THEN year ELSE year - 399, 400)
        yoe  == year - era * 400
        mp   == IF month > 2 THEN month - 3 ELSE month + 9
        doy  == (153 * mp + 2) \div 5 + day - 1
    IN  era * 146097 + (yoe * 365 + yoe \div 4 - yoe \div 100 + doy) - 719468

CivilFromDays(n) ==
    LET days == n + 719468
        era  == Quotient(IF days >= 0 THEN days ELSE days - 146096, 146097)
        doe  == days - era * 146097
        yoe  == (doe - doe \div 1460 + doe \div 36524 - doe \div 146096) \div 365
        doy  == doe - (365 * yoe + yoe \div 4 - yoe \div 100)
        mp   == (5 * doy + 2) \div 153
        month == IF mp < 10 THEN mp + 3 ELSE mp - 9
    IN  <<yoe + era * 400 + (IF month <= 2 THEN 1 ELSE 0), month, doy - (153 * mp + 2) \div 5 + 1>>

TimeText(date, second, fraction) ==
    [date |-> date, second |-> second, fraction |-> fraction, bytes |-> 1]

\* FormatTime.  A negative remainder of the day is moved into the day, but the
\* day it then belongs to is still the one the quotient named.
FormatTime(t) ==
    LET below    == Remainder(t, NanosPerSecond) < 0
        fraction == Remainder(t, NanosPerSecond) + (IF below THEN NanosPerSecond ELSE 0)
        seconds  == Quotient(t, NanosPerSecond) - (IF below THEN 1 ELSE 0)
        rest     == Remainder(seconds, SecondsPerDay)
    IN  TimeText(CivilFromDays(Quotient(seconds, SecondsPerDay)),
                 IF rest < 0 THEN rest + SecondsPerDay ELSE rest, fraction)

\* The time a text spells.  A day up to the 31st is accepted in every month, and
\* a leap second on every day.
Spelled(text) ==
    DaysFromCivil(text.date[1], text.date[2], text.date[3]) * SecondsPerDay + text.second

TryParseTime(text) ==
    /\ "date" \in DOMAIN text
    /\ text.date[2] \in 1..12 /\ text.date[3] \in 1..31
    /\ 0 <= text.second /\ text.second <= SecondsPerDay
    /\ 0 <= text.fraction /\ text.fraction < NanosPerSecond
    /\ Spelled(text) <= Quotient(MaxNanos - text.fraction, NanosPerSecond)
    /\ Spelled(text) >= Quotient(-(MaxNanos + 1) + text.fraction, NanosPerSecond)

ParsedTime(text) == Spelled(text) * NanosPerSecond + text.fraction
=============================================================================
