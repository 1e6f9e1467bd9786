---------------------------- MODULE MCSchedulerBeat ----------------------------
(* Instances of SchedulerBeat for TLC: a task of every tick, and one due    *)
(* twice a day, over a night and a day.                                     *)
EXTENDS SchedulerBeat

CONSTANTS dispatch, digest

Table == <<dispatch, digest>>
TableSlots == [t \in {dispatch, digest} |->
                 IF t = dispatch THEN [n \in Ticks |-> n]
                 ELSE [n \in Ticks |-> IF n = 0 THEN None
                                       ELSE IF n = 3 THEN None ELSE (n + 1) \div 2]]

=============================================================================
