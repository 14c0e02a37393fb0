----------------------------- MODULE RentCycle -----------------------------
(***************************************************************************)
(* The arithmetic of rent: which periods a stay owes, and for how much.    *)
(*                                                                         *)
(* A day is a month, counted from January of year 0, and a day in it: what *)
(* the code reads from and gives to Date.UTC.  Amounts are whole paise.    *)
(***************************************************************************)
EXTENDS Integers, Sequences

CONSTANTS
    NoDate      \* null: no leaving date, no billing day of its own

MaxPeriods == 600

On(month, day) == [month |-> month, day |-> day]

Leap(year) == year % 4 = 0 /\ (year % 100 # 0 \/ year % 400 = 0)

DaysInMonth(month) ==
    CASE month % 12 = 1 -> IF Leap(month \div 12) THEN 29 ELSE 28
      [] month % 12 \in {3, 5, 8, 10} -> 30
      [] OTHER -> 31

Day == {d \in [month : Nat, day : 1..31] : d.day <= DaysInMonth(d.month)}

IsBefore(a, b) == a.month < b.month \/ (a.month = b.month /\ a.day < b.day)
IsUpTo(a, b) == ~IsBefore(b, a)

(* Days since 1 January of year 0, by the rule of DaysInMonth.             *)
DayNumber(d) ==
    LET y == d.month \div 12
        m == d.month % 12
        past == <<0, 31, 59, 90, 120, 151, 181, 212, 243, 273, 304, 334>>[m + 1]
        leapDays == (y + 3) \div 4 - (y + 99) \div 100 + (y + 399) \div 400
    IN  365 * y + leapDays + past + (IF Leap(y) /\ m > 1 THEN 1 ELSE 0) + d.day

DaysBetween(from, to) == DayNumber(to) - DayNumber(from)

(* At most the days of one month are added. *)
PlusDays(d, n) ==
    IF d.day + n <= DaysInMonth(d.month)
    THEN On(d.month, d.day + n)
    ELSE On(d.month + 1, d.day + n - DaysInMonth(d.month))

(* The billing day of a month: the last day of a month too short for it.   *)
AnchorDayIn(month, anchor) ==
    On(month, IF anchor <= DaysInMonth(month) THEN anchor ELSE DaysInMonth(month))

(* Math.round of a quotient. *)
Rounded(n, over) == (2 * n + over) \div (2 * over)

ProRataPaise(rent, days, inMonth) ==
    IF days <= 0 THEN 0
    ELSE IF days >= inMonth THEN rent
    ELSE Rounded(rent * days, inMonth)

(***************************************************************************)
(* Periods.  A stay has a start, an end or NoDate, an anchor (its billing  *)
(* day) or NoDate, and a monthly rent.                                     *)
(***************************************************************************)

Anchor(stay) == IF stay.anchor = NoDate THEN stay.start.day ELSE stay.anchor

(* Variant: the billing day of the next period is the day this one begins. *)
NextAnchorChained(stay, from) ==
    LET same == AnchorDayIn(from.month, from.day) IN
    IF IsBefore(from, same) THEN same ELSE AnchorDayIn(from.month + 1, from.day)

NextAnchorAfter(stay, from) ==
    LET same == AnchorDayIn(from.month, Anchor(stay)) IN
    IF IsBefore(from, same) THEN same ELSE AnchorDayIn(from.month + 1, Anchor(stay))

StartsOnAnchor(stay) == AnchorDayIn(stay.start.month, Anchor(stay)) = stay.start

Left(stay, day) == stay.end # NoDate /\ IsUpTo(stay.end, day)

(* The period that begins on (from): up to the next billing day or the day *)
(* the tenant leaves, whichever is first, and due on the day it begins.    *)
PeriodFrom(stay, from) ==
    LET natural == NextAnchorAfter(stay, from)
        to == IF Left(stay, natural) THEN stay.end ELSE natural
        whole == to = natural /\ (from # stay.start \/ StartsOnAnchor(stay))
    IN  [from |-> from, to |-> to,
         amount |-> IF whole THEN stay.rent
                    ELSE ProRataPaise(stay.rent, DaysBetween(from, to),
                                      DaysInMonth(from.month))]

(* The loop of rentPeriods: one period after another, up to the cutoff.    *)
PeriodsInTurn(stay, cutoff) ==
    LET After[turns \in 0..MaxPeriods] ==
            [from \in Day |->
                IF IsBefore(cutoff, from) \/ turns = 0 \/ Left(stay, from)
                THEN <<>>
                ELSE LET p == PeriodFrom(stay, from) IN <<p>> \o After[turns - 1][p.to]]
    IN  After[MaxPeriods][stay.start]

(* What the loop comes to: a period from move-in and one from every later  *)
(* billing day, up to the cutoff and before the tenant leaves.             *)
PeriodStarts(stay, cutoff) ==
    {from \in {stay.start} \union
              {AnchorDayIn(m, Anchor(stay)) : m \in stay.start.month..cutoff.month} :
        /\ IsUpTo(stay.start, from) /\ IsUpTo(from, cutoff)
        /\ ~Left(stay, from)}

RentPeriods(stay, cutoff) == {PeriodFrom(stay, from) : from \in PeriodStarts(stay, cutoff)}
=============================================================================
