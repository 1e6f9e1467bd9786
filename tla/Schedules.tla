------------------------------- MODULE Schedules -------------------------------
(***************************************************************************)
(* A script, or a backup, that runs by itself: the timer's tick asks the   *)
(* cadence whether it is due, makes a run, queues it and stamps last_run_at *)
(* - a script before it is queued (scripting/schedules.py), a backup after *)
(* (backups/schedules.py) - and prunes a script's old runs; and the life   *)
(* of a script's run (scripting/runner.py).                                *)
(*                                                                         *)
(* One schedule.  A backup's own run is module Backups'.  A tick is a      *)
(* oneshot unit: there is one at a time.                                   *)
(***************************************************************************)
EXTENDS Cadence, FiniteSets

CONSTANTS
    Offered,        \* the cadences this instance gives the schedule
    Start, End,     \* bounds on the clock; the schedule is made at Start
    Keep,           \* max_count of the retention
    MaxActive,      \* bound on a script's runs queued or running at a time
    MaxCrashes,     \* bound on ticks and workers that die
    MaxOutages      \* bound on enqueues the queue does not take

ASSUME OfferedAssumption == Offered \subseteq Cadences
ASSUME BoundsAssumption ==
    /\ {Start, End, Keep, MaxActive, MaxCrashes, MaxOutages} \subseteq Nat
    /\ Start <= End

VARIABLES
    clock,
    kind, cadence,  \* "script" or "backup", and when it recurs
    enabled,
    lastRun,        \* last_run_at, created_at while it has none
    tick,           \* the tick: the step it is at, and the time it began
    runs,           \* the script's runs, oldest first: its row, and its job
    fired,          \* history: the occurrence last queued
    crashes, outages

schedule == <<kind, cadence, enabled>>
vars == <<clock, schedule, lastRun, tick, runs, fired, crashes, outages>>

Instants == Start .. End
Run == [status : {"queued", "running", "ended", "canceled"},
        job : {"none", "queued", "running"}]
Steps == {"idle", "create", "stamp", "enqueue", "inline", "prune"}

Idle == [step |-> "idle", at |-> Start]

Active(i) == runs[i].status \in {"queued", "running"}

\* What the cadences give, once for every time.
Latest == [c \in Offered |-> [t \in Instants |-> LatestOccurrence(c, t)]]

Occurrence == Latest[cadence][tick.at]

\* is_due.
Due == lastRun < Latest[cadence][clock]

-----------------------------------------------------------------------------
(* The tick.                                                               *)

To(step) == tick' = [tick EXCEPT !.step = step]
Pruning == tick' = [Idle EXCEPT !.step = "prune"]

\* due_scripts, due_schedules: with the time the tick began.  A schedule that is
\* switched off is not visited, not to prune either.
TickBegins ==
    /\ tick = Idle /\ enabled
    /\ IF Due THEN tick' = [step |-> "create", at |-> clock] ELSE kind = "script" /\ Pruning
    /\ UNCHANGED <<clock, schedule, lastRun, runs, fired, crashes, outages>>

\* create_run, create_backup: queued, with no job yet.
Create ==
    /\ tick.step = "create"
    /\ IF kind = "script"
       THEN /\ Cardinality({i \in DOMAIN runs : Active(i) \/ runs[i].job # "none"}) < MaxActive
            /\ runs' = Append(runs, [status |-> "queued", job |-> "none"])
            /\ To("stamp")
       ELSE To("enqueue") /\ UNCHANGED runs
    /\ UNCHANGED <<clock, schedule, lastRun, fired, crashes, outages>>

\* Mutant: the stamp is of the time it is made.
StampTimeNow == clock

\* The stamp is of the time the tick began.
StampTime == tick.at

Stamp ==
    /\ tick.step = "stamp"
    /\ lastRun' = StampTime
    /\ IF kind = "script" THEN To("enqueue") ELSE tick' = Idle
    /\ UNCHANGED <<clock, schedule, runs, fired, crashes, outages>>

\* The last run's job.
Job(job) ==
    runs' = IF kind = "script" THEN [runs EXCEPT ![Len(runs)].job = job] ELSE runs

Enqueue ==
    /\ tick.step = "enqueue"
    /\ Job("queued") /\ fired' = Occurrence
    /\ IF kind = "script" THEN Pruning ELSE To("stamp")
    /\ UNCHANGED <<clock, schedule, lastRun, crashes, outages>>

\* Mutant: a script's run the queue does not take is left as it is.
EnqueueFailsQuietly ==
    /\ tick.step = "enqueue"
    /\ outages < MaxOutages /\ outages' = outages + 1
    /\ tick' = Idle
    /\ UNCHANGED <<clock, schedule, lastRun, runs, fired, crashes>>

\* The queue is down: a script is run by the tick itself; a backup's row goes
\* again, and the schedule stays due.
EnqueueFails ==
    /\ tick.step = "enqueue"
    /\ outages < MaxOutages /\ outages' = outages + 1
    /\ IF kind = "script"
       THEN Job("queued") /\ fired' = Occurrence /\ To("inline")
       ELSE tick' = Idle /\ UNCHANGED <<runs, fired>>
    /\ UNCHANGED <<clock, schedule, lastRun, crashes>>

\* What the tick runs itself has ended.
InlineEnds ==
    /\ tick.step = "inline" /\ runs[Len(runs)].job = "none"
    /\ Pruning
    /\ UNCHANGED <<clock, schedule, lastRun, runs, fired, crashes, outages>>

\* Mutant: an age is all that is asked.
PastCountNever(i) == FALSE

\* A finished run with Keep newer ones.
PastCount(i) == Keep <= Cardinality({j \in (i + 1) .. Len(runs) : ~Active(j)})

\* The runs at these places, in their order.
Kept(places) ==
    LET order == CHOOSE f \in [1 .. Cardinality(places) -> places] :
                    \A j, k \in DOMAIN f : j < k => f[j] < f[k]
    IN [k \in DOMAIN order |-> runs[order[k]]]

\* prune: Retention.expired of the finished runs, those past the count and, from
\* some run back, those past the age.
Prune ==
    /\ tick.step = "prune"
    /\ \E aged \in 0 .. Len(runs) :
          runs' = Kept({i \in DOMAIN runs : Active(i) \/ (aged < i /\ ~PastCount(i))})
    /\ tick' = Idle
    /\ UNCHANGED <<clock, schedule, lastRun, fired, crashes, outages>>

TickDies ==
    /\ tick # Idle /\ tick' = Idle
    /\ crashes < MaxCrashes /\ crashes' = crashes + 1
    /\ UNCHANGED <<clock, schedule, lastRun, runs, fired, outages>>

-----------------------------------------------------------------------------
(* A run of the script.                                                    *)

\* run_script: running, whatever the row said.
RunStarts(i) ==
    /\ runs[i].job = "queued"
    /\ runs' = [runs EXCEPT ![i] = [status |-> "running", job |-> "running"]]
    /\ UNCHANGED <<clock, schedule, lastRun, tick, fired, crashes, outages>>

\* It succeeds, fails or runs out of time; the row says so, whatever it said.
RunEnds(i) ==
    /\ runs[i].job = "running"
    /\ runs' = [runs EXCEPT ![i] = [status |-> "ended", job |-> "none"]]
    /\ UNCHANGED <<clock, schedule, lastRun, tick, fired, crashes, outages>>

WorkerDies(i) ==
    /\ runs[i].job = "running"
    /\ crashes < MaxCrashes /\ crashes' = crashes + 1
    /\ runs' = [runs EXCEPT ![i].job = "none"]
    /\ UNCHANGED <<clock, schedule, lastRun, tick, fired, outages>>

\* cancel: the job is known, and can be stopped, only once it has started.
Cancel(i) ==
    /\ Active(i)
    /\ \E job \in IF runs[i].job = "running" THEN {"running", "none"} ELSE {runs[i].job} :
          runs' = [runs EXCEPT ![i] = [status |-> "canceled", job |-> job]]
    /\ UNCHANGED <<clock, schedule, lastRun, tick, fired, crashes, outages>>

\* The schedule is switched off, or on again.
ToggleEnabled ==
    /\ enabled' = ~enabled
    /\ UNCHANGED <<clock, kind, cadence, lastRun, tick, runs, fired, crashes, outages>>

TimePasses ==
    /\ clock < End /\ clock' = clock + 1
    /\ UNCHANGED <<schedule, lastRun, tick, runs, fired, crashes, outages>>

-----------------------------------------------------------------------------

Init ==
    /\ clock = Start /\ lastRun = Start
    /\ kind \in {"script", "backup"} /\ cadence \in Offered /\ enabled \in BOOLEAN
    /\ tick = Idle /\ runs = <<>>
    /\ fired = LatestOccurrence(cadence, Start)
    /\ crashes = 0 /\ outages = 0

TickStep == Create \/ Stamp \/ Enqueue \/ EnqueueFails \/ InlineEnds \/ Prune
RunStep(i) == RunStarts(i) \/ RunEnds(i)

Next ==
    \/ TickBegins \/ TickStep \/ TickDies \/ ToggleEnabled \/ TimePasses
    \/ \E i \in DOMAIN runs : RunStep(i) \/ WorkerDies(i) \/ Cancel(i)

Spec == Init /\ [][Next]_vars

\* The timer ticks, and a worker takes jobs and ends them: a run has a timeout.
Fairness ==
    /\ WF_vars(TickBegins) /\ WF_vars(TickStep)
    /\ WF_vars(\E i \in DOMAIN runs : RunStep(i))

FairSpec == Spec /\ Fairness

-----------------------------------------------------------------------------

\* Types; and a script's runs do not pile up: each tick prunes, and only a tick
\* that died has left one more (schedules.py:62).
TypeOK ==
    /\ clock \in Instants /\ enabled \in BOOLEAN
    /\ kind \in {"script", "backup"} /\ cadence \in Offered
    /\ lastRun \in Start .. clock /\ fired \in Int /\ fired <= clock
    /\ tick \in [step : Steps, at : Start .. clock]
    /\ runs \in Seq(Run)
    /\ Len(runs) <= Keep + MaxActive + crashes + (IF tick = Idle THEN 0 ELSE 1)
    /\ crashes \in 0 .. MaxCrashes /\ outages \in 0 .. MaxOutages

\* last and next are occurrences on either side of now, and none is between.
Around(c, last, now, next) ==
    /\ last <= now /\ now < next
    /\ \A t \in last .. next : Occurs(c, t) <=> t \in {last, next}

\* In that many days every day of a week has met every day of a year.
CycleDays == WeekDays * YearDays

Right ==
    [t \in Start .. End + CycleDays * DayMinutes |->
        \A c \in Cadences : Around(c, LatestOccurrence(c, t), t, NextOccurrence(c, t))]

\* latest_occurrence is the last moment the cadence names at or before now, and
\* next_occurrence the first after it, across the ends of weeks, months and
\* years (cadence.py:77, cadence.py:98): at this time of each day of a cycle.
OccurrencesRight == \A day \in 0 .. CycleDays : Right[clock + day * DayMinutes]

\* "A scheduler that slept through an occurrence runs it once on wake and never
\* twice" (cadence.py:10): no occurrence is queued again, for a script whatever
\* dies between its statements, for a backup unless its tick dies ...
NeverTwice ==
    [][/\ tick.step = "enqueue" /\ tick'.step \in {"stamp", "prune", "inline"}
       /\ crashes = 0 \/ kind = "script"
       => fired < Occurrence]_vars

\* ... nor is one missed, though it comes round while a tick is at work: it is
\* queued, or a later one is, or the schedule is switched off; a backup's even
\* if the tick dies or the queue is down (backups/schedules.py:41).
NothingMissed ==
    []<>(\/ ~enabled \/ Latest[cadence][clock] <= fired
         \/ kind = "script" /\ crashes > 0)

\* Each occurrence of a schedule is queued, once.
OncePerOccurrence == NeverTwice /\ NothingMissed

\* A run ends, even if there was no queue to put it in, unless the tick or its
\* worker died: nothing takes such a run up again.
RunsSettle == <>[](crashes > 0 \/ \A i \in DOMAIN runs : ~Active(i))
=============================================================================
