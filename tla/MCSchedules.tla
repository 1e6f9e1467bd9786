------------------------------ MODULE MCSchedules ------------------------------
(* An instance of Schedules for TLC: years of three short months.            *)
EXTENDS Schedules

\* Months of 3, 2 and 4 days.
ThreeMonths == <<0, 3, 5, 9>>

\* One of each frequency.
OneOfEach ==
    {[frequency |-> "hourly", minute |-> 1, hour |-> 0, weekday |-> 0, day |-> 0],
     [frequency |-> "daily", minute |-> 0, hour |-> 1, weekday |-> 0, day |-> 0],
     [frequency |-> "weekly", minute |-> 1, hour |-> 0, weekday |-> 1, day |-> 0],
     [frequency |-> "monthly", minute |-> 0, hour |-> 1, weekday |-> 0, day |-> 1]}
=============================================================================
