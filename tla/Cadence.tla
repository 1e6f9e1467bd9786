-------------------------------- MODULE Cadence --------------------------------
(***************************************************************************)
(* "Hourly, daily, weekly or monthly at HH:MM" (core/cadence.py): when a   *)
(* schedule last came round, and when it will next, computed from the      *)
(* clock's fields.  An instant is a count of minutes; the calendar's sizes *)
(* are constants: the days of a year that come before each month, and in   *)
(* the end those of the whole year.                                        *)
(***************************************************************************)
EXTENDS Integers, Sequences

CONSTANTS
    DaysBefore,     \* the calendar: the day of the year each month begins with, from 0
    WeekDays,       \* days in a week
    Hours, Minutes, \* hours in a day, minutes in an hour
    LastDay         \* the highest day of the month a schedule may name

ASSUME CalendarAssumption ==
    /\ DaysBefore \in Seq(Nat) /\ Len(DaysBefore) > 1 /\ DaysBefore[1] = 0
    /\ {WeekDays, Hours, Minutes, LastDay} \subseteq Nat \ {0}
    /\ \A m, n \in DOMAIN DaysBefore : m < n => DaysBefore[m] + LastDay <= DaysBefore[n]

Months == 1 .. (Len(DaysBefore) - 1)
YearDays == DaysBefore[Len(DaysBefore)]
DayMinutes == Hours * Minutes

\* The fields of an instant, the weekday from 0.
Fields(t) ==
    LET days == t \div DayMinutes
        day == days % YearDays
        month == CHOOSE m \in Months : DaysBefore[m] <= day /\ day < DaysBefore[m + 1]
    IN [year |-> days \div YearDays, month |-> month, day |-> day - DaysBefore[month] + 1,
        hour |-> (t \div Minutes) % Hours, minute |-> t % Minutes]

Weekday(t) == (t \div DayMinutes) % WeekDays

Instant(f) ==
    ((f.year * YearDays + DaysBefore[f.month] + f.day - 1) * Hours + f.hour) * Minutes
        + f.minute

\* What validate lets through: a field its frequency does not use is left at 0.
Cadences ==
    [frequency : {"hourly"}, minute : 0 .. (Minutes - 1),
     hour : {0}, weekday : {0}, day : {0}]
    \union [frequency : {"daily"}, hour : 0 .. (Hours - 1), minute : 0 .. (Minutes - 1),
            weekday : {0}, day : {0}]
    \union [frequency : {"weekly"}, hour : 0 .. (Hours - 1), minute : 0 .. (Minutes - 1),
            weekday : 0 .. (WeekDays - 1), day : {0}]
    \union [frequency : {"monthly"}, hour : 0 .. (Hours - 1), minute : 0 .. (Minutes - 1),
            weekday : {0}, day : 1 .. LastDay]

\* Mutant: the month before the first is the first of the year before.
MonthBeforeStuck(f) ==
    IF f.month > 1 THEN [f EXCEPT !.month = @ - 1] ELSE [f EXCEPT !.year = @ - 1]

MonthBefore(f) ==
    IF f.month > 1 THEN [f EXCEPT !.month = @ - 1]
    ELSE [f EXCEPT !.year = @ - 1, !.month = Len(DaysBefore) - 1]

MonthAfter(f) ==
    IF f.month + 1 < Len(DaysBefore) THEN [f EXCEPT !.month = @ + 1]
    ELSE [f EXCEPT !.year = @ + 1, !.month = 1]

\* A candidate, or what came before it if it is still to come.
Passed(t, before, now) == IF t <= now THEN t ELSE before

\* latest_occurrence.
LatestOccurrence(c, now) ==
    LET today == [Fields(now) EXCEPT !.hour = c.hour, !.minute = c.minute]
        thatDay == [today EXCEPT !.day = c.day]
        hour == Instant([Fields(now) EXCEPT !.minute = c.minute])
        day == Instant(today)
        weekday == day - DayMinutes * ((Weekday(day) - c.weekday) % WeekDays)
    IN CASE c.frequency = "hourly" -> Passed(hour, hour - Minutes, now)
         [] c.frequency = "daily" -> Passed(day, day - DayMinutes, now)
         [] c.frequency = "weekly" -> Passed(weekday, weekday - DayMinutes * WeekDays, now)
         [] c.frequency = "monthly" -> Passed(Instant(thatDay), Instant(MonthBefore(thatDay)), now)

\* next_occurrence.
NextOccurrence(c, now) ==
    LET last == LatestOccurrence(c, now)
    IN CASE c.frequency = "hourly" -> last + Minutes
         [] c.frequency = "daily" -> last + DayMinutes
         [] c.frequency = "weekly" -> last + DayMinutes * WeekDays
         [] c.frequency = "monthly" -> Instant(MonthAfter(Fields(last)))

-----------------------------------------------------------------------------
(* What the words mean, for the properties of the modules that use them.   *)

Occurs(c, t) ==
    LET f == Fields(t)
    IN /\ f.minute = c.minute
       /\ c.frequency # "hourly" => f.hour = c.hour
       /\ c.frequency = "weekly" => Weekday(t) = c.weekday
       /\ c.frequency = "monthly" => f.day = c.day
=============================================================================
