----------------------------- MODULE OfferWindows -----------------------------
(***************************************************************************)
(* The date windows of the dashboard's best offers, over the calendar that *)
(* BestOfferService computes them in.  A day is a record of year, month    *)
(* and day; windows are sets of ordinals, day 1 being 1 January of year 1. *)
(***************************************************************************)
EXTENDS Integers, Sequences

Leap(y) == y % 4 = 0 /\ (y % 100 # 0 \/ y % 400 = 0)

(* monthrange(year, month)[1] *)
MonthLength(y, m) ==
    CASE m = 2 -> IF Leap(y) THEN 29 ELSE 28
      [] m \in {4, 6, 9, 11} -> 30
      [] OTHER -> 31

(* The days before each month in a year that is not a leap year. *)
DaysBefore == <<0, 31, 59, 90, 120, 151, 181, 212, 243, 273, 304, 334>>

FirstOfMonth(y, m) ==
    LET past == y - 1
    IN  365 * past + past \div 4 - past \div 100 + past \div 400
          + DaysBefore[m] + (IF m > 2 /\ Leap(y) THEN 1 ELSE 0) + 1

Ordinal(d) == FirstOfMonth(d.year, d.month) + d.day - 1

(* The dates there are. *)
CalendarDay == {d \in [year : Nat \ {0}, month : 1 .. 12, day : 1 .. 31] :
                   d.day <= MonthLength(d.year, d.month)}

(* weekday(): Monday is 0. *)
Weekday(n) == (n + 6) % 7

DayAfter(d) ==
    LET last == MonthLength(d.year, d.month)
    IN  CASE d.day < last -> [d EXCEPT !.day = @ + 1]
          [] d.day = last /\ d.month < 12 -> [d EXCEPT !.month = @ + 1, !.day = 1]
          [] OTHER -> [year |-> d.year + 1, month |-> 1, day |-> 1]

WeekEnd(today) == Ordinal(today) + (6 - Weekday(Ordinal(today)))

ThisWeek(today) == Ordinal(today) .. WeekEnd(today)

(* Faulty variant: next week starts in seven days. *)
SevenDaysOn(today) == Ordinal(today) + 7 .. Ordinal(today) + 13

NextWeek(today) == WeekEnd(today) + 1 .. WeekEnd(today) + 7

(* Faulty variant: the month is as long as the current one. *)
MonthOfSameLength(today) ==
    LET first == IF today.month = 12 THEN FirstOfMonth(today.year + 1, 1)
                 ELSE FirstOfMonth(today.year, today.month + 1)
    IN  first .. first + MonthLength(today.year, today.month) - 1

NextMonth(today) ==
    LET y == IF today.month = 12 THEN today.year + 1 ELSE today.year
        m == IF today.month = 12 THEN 1 ELSE today.month + 1
    IN  FirstOfMonth(y, m) .. FirstOfMonth(y, m) + MonthLength(y, m) - 1

Windows(today) == {ThisWeek(today), NextWeek(today), NextMonth(today)}
=============================================================================
