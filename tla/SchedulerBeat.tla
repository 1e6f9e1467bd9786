----------------------------- MODULE SchedulerBeat -----------------------------
(***************************************************************************)
(* The periodic beat of an install without systemd: one or more            *)
(* run_scheduler processes walk the table of tasks, each claiming the slot *)
(* of a task with a GETSET in Redis before running it                      *)
(* (core/management/commands/run_scheduler.py, core/schedule.py).          *)
(*                                                                         *)
(* Time is a count of ticks; SlotOf says which slot of a task a tick is    *)
(* in, None before the first wall-clock time of a day.                     *)
(***************************************************************************)
EXTENDS Naturals, Sequences

CONSTANTS
    Replicas,       \* scheduler processes
    Tasks,          \* the table's rows
    Order,          \* the table: a sequence of its rows
    SlotOf,         \* the slot of a task at a tick
    None,           \* no slot, or no key
    MaxTick,        \* bound on time
    MaxLag,         \* bound: how many ticks a pass may take
    MaxRestarts,    \* bound on processes that die and are started again
    MaxOutages      \* bound on failures of Redis

Ticks == 0..MaxTick

ASSUME TableAssumption == Order \in Seq(Tasks)
ASSUME LimitsAssumption ==
    MaxTick \in Nat /\ MaxLag \in Nat /\ MaxRestarts \in Nat /\ MaxOutages \in Nat
ASSUME SlotAssumption == SlotOf \in [Tasks -> [Ticks -> Nat \union {None}]] /\ None \notin Nat
\* Slots grow with time (schedule.py:41).
ASSUME SlotsGrowAssumption ==
    \A t \in Tasks, m, n \in Ticks :
        m <= n /\ SlotOf[t][m] # None /\ SlotOf[t][n] # None => SlotOf[t][m] <= SlotOf[t][n]

VARIABLES
    clock,
    stage,          \* each process: between passes, walking, or running a command
    now,            \* the time each took at the start of its pass
    at,             \* its place in the table
    key,            \* the slot keys in Redis
    offline,        \* processes that gave Redis up
    memory,         \* their slots in memory
    started, done,  \* history: occurrences of each task begun, and finished
    overtaken,      \* history: a pass began while an older one was on its way
    restarts, outages

process == <<stage, now, at>>
history == <<started, done, overtaken>>
mishaps == <<restarts, outages>>
vars == <<clock, process, key, offline, memory, history, mishaps>>

Task(r) == Order[at[r]]

\* The slot this process would claim: of the time its pass began.
Slot(r) == SlotOf[Task(r)][now[r]]

LastClaimed(r) == IF r \in offline THEN memory[r][Task(r)] ELSE key[Task(r)]

\* Mutant: a slot is due whenever there is one.
DueAlways(r) == Slot(r) # None

Due(r) == Slot(r) # None /\ LastClaimed(r) # Slot(r)

\* Mutant: the time is taken once, when the process starts.
BeginPassUntimed(r) ==
    /\ stage[r] = "idle"
    /\ stage' = [stage EXCEPT ![r] = "walking"]
    /\ at' = [at EXCEPT ![r] = 1]
    /\ UNCHANGED <<clock, now, key, offline, memory, history, mishaps>>

\* Some process is still in a pass that began before this tick.
Overtakes == \E q \in Replicas : stage[q] # "idle" /\ now[q] < clock

BeginPass(r) ==
    /\ stage[r] = "idle"
    /\ stage' = [stage EXCEPT ![r] = "walking"]
    /\ now' = [now EXCEPT ![r] = clock]
    /\ at' = [at EXCEPT ![r] = 1]
    /\ overtaken' = (overtaken \/ Overtakes)
    /\ UNCHANGED <<clock, key, offline, memory, started, done, mishaps>>

\* The slot is stored by whoever asks: GETSET, or the process's own memory.
Stored(r) ==
    IF Slot(r) = None THEN UNCHANGED <<key, memory>>
    ELSE IF r \in offline
      THEN /\ memory' = [memory EXCEPT ![r] = [@ EXCEPT ![Task(r)] = Slot(r)]]
           /\ UNCHANGED key
      ELSE /\ key' = [key EXCEPT ![Task(r)] = Slot(r)]
           /\ UNCHANGED memory

Claim(r) ==
    /\ stage[r] = "walking" /\ at[r] <= Len(Order)
    /\ Due(r)
    /\ Stored(r)
    /\ started' = [started EXCEPT ![Task(r)] = @ \union {Slot(r)}]
    /\ stage' = [stage EXCEPT ![r] = "running"]
    /\ UNCHANGED <<clock, now, at, offline, done, overtaken, mishaps>>

Pass(r) ==
    /\ stage[r] = "walking" /\ at[r] <= Len(Order)
    /\ ~Due(r)
    /\ Stored(r)
    /\ at' = [at EXCEPT ![r] = @ + 1]
    /\ UNCHANGED <<clock, stage, now, offline, history, mishaps>>

\* Mutant: the row after a task that ran is skipped.
FinishSkips(r) ==
    /\ stage[r] = "running"
    /\ done' = [done EXCEPT ![Task(r)] = @ \union {Slot(r)}]
    /\ at' = [at EXCEPT ![r] = @ + 2]
    /\ stage' = [stage EXCEPT ![r] = "walking"]
    /\ UNCHANGED <<clock, now, key, offline, memory, started, overtaken, mishaps>>

\* The commands end; one that fails ends too.
Finish(r) ==
    /\ stage[r] = "running"
    /\ done' = [done EXCEPT ![Task(r)] = @ \union {Slot(r)}]
    /\ at' = [at EXCEPT ![r] = @ + 1]
    /\ stage' = [stage EXCEPT ![r] = "walking"]
    /\ UNCHANGED <<clock, now, key, offline, memory, started, overtaken, mishaps>>

EndPass(r) ==
    /\ stage[r] = "walking" /\ at[r] > Len(Order)
    /\ stage' = [stage EXCEPT ![r] = "idle"]
    /\ UNCHANGED <<clock, now, at, key, offline, memory, history, mishaps>>

Empty == [t \in Tasks |-> None]

\* The claim finds Redis unavailable, before or after its GETSET (the EXPIRE may
\* fail): from now on, memory.
GiveRedisUp(r) ==
    /\ stage[r] = "walking" /\ at[r] <= Len(Order) /\ Slot(r) # None
    /\ r \notin offline
    /\ outages < MaxOutages /\ outages' = outages + 1
    /\ offline' = offline \union {r}
    /\ key' \in {key, [key EXCEPT ![Task(r)] = Slot(r)]}
    /\ UNCHANGED <<clock, process, memory, history, restarts>>

\* The process dies and is started again, with its memory empty; Redis may be back,
\* or may be gone when it looks.
Restart(r) ==
    /\ restarts < MaxRestarts /\ restarts' = restarts + 1
    /\ \/ offline' \in {offline, offline \ {r}} /\ UNCHANGED outages
       \/ /\ outages < MaxOutages /\ outages' = outages + 1
          /\ offline' = offline \union {r}
    /\ stage' = [stage EXCEPT ![r] = "idle"]
    /\ memory' = [memory EXCEPT ![r] = Empty]
    /\ UNCHANGED <<clock, now, at, key, history>>

Tick ==
    /\ clock < MaxTick
    /\ \A r \in Replicas : stage[r] # "idle" => clock < now[r] + MaxLag
    /\ clock' = clock + 1
    /\ UNCHANGED <<process, key, offline, memory, history, mishaps>>

Init ==
    /\ clock = 0
    /\ stage = [r \in Replicas |-> "idle"]
    /\ now = [r \in Replicas |-> 0]
    /\ at = [r \in Replicas |-> 1]
    /\ key = Empty
    /\ offline = {}
    /\ memory = [r \in Replicas |-> Empty]
    /\ started = [t \in Tasks |-> {}] /\ done = [t \in Tasks |-> {}]
    /\ overtaken = FALSE
    /\ restarts = 0 /\ outages = 0

Step(r) ==
    BeginPass(r) \/ Claim(r) \/ Pass(r) \/ Finish(r) \/ EndPass(r)

Next ==
    \/ \E r \in Replicas : Step(r) \/ GiveRedisUp(r) \/ Restart(r)
    \/ Tick

Spec == Init /\ [][Next]_vars

\* A process keeps passing (every command ends), and time goes on.
FairSpec == Spec /\ (\A r \in Replicas : WF_vars(Step(r))) /\ WF_vars(Tick)

-----------------------------------------------------------------------------

\* Types; a running process is at a task that had a slot when its pass began.
TypeOK ==
    /\ clock \in Ticks
    /\ stage \in [Replicas -> {"idle", "walking", "running"}]
    /\ now \in [Replicas -> Ticks]
    /\ at \in [Replicas -> 1..Len(Order) + 1]
    /\ key \in [Tasks -> Nat \union {None}]
    /\ offline \subseteq Replicas
    /\ memory \in [Replicas -> [Tasks -> Nat \union {None}]]
    /\ started \in [Tasks -> SUBSET Nat] /\ done \in [Tasks -> SUBSET Nat]
    /\ overtaken \in BOOLEAN
    /\ restarts \in Nat /\ outages \in Nat
    /\ \A r \in Replicas : stage[r] = "running" => at[r] <= Len(Order)

\* A scheduler that restarted, or was late, "runs each occurrence once and never
\* twice" (run_scheduler.py:13): as long as no pass overtakes another and Redis
\* stays up, an occurrence that was begun is never begun again.
NeverTwice ==
    [][~overtaken /\ outages = 0 =>
          \A r \in Replicas : Claim(r) => Slot(r) \notin started[Task(r)]]_vars

\* What is due now is run, by a late process, beside another one or without
\* Redis: once time stops, the current occurrence of every task has been run,
\* unless a process was killed.
LatestRuns ==
    \A t \in Tasks :
        SlotOf[t][MaxTick] # None => <>(SlotOf[t][MaxTick] \in done[t] \/ restarts > 0)

\* "Running two replicas does not send it twice" (run_scheduler.py:15).
SentOnce ==
    [][\A r \in Replicas : Claim(r) => Slot(r) \notin started[Task(r)]]_vars
=============================================================================
