-------------------------- MODULE SchedulerBeatProofs --------------------------
(***************************************************************************)
(* Theorems about SchedulerBeat, for every table of tasks, every slot      *)
(* function that grows with time, and every bound; and about Materialise,  *)
(* the rows that one of the tasks of that table makes.                     *)
(***************************************************************************)
EXTENDS SchedulerBeat, Materialise, TLAPS

\* A process that runs a task runs it for a slot.
BInv == TypeOK /\ \A r \in Replicas : stage[r] = "running" => Slot(r) # None

LEMMA TaskInTable ==
    ASSUME TypeOK, NEW r \in Replicas, at[r] <= Len(Order)
    PROVE  Task(r) \in Tasks /\ Slot(r) \in Nat \union {None}
<1>1. at[r] \in 1..Len(Order)
  BY TableAssumption DEF TypeOK
<1>2. Order[at[r]] \in Tasks
  BY <1>1, TableAssumption
<1>3. SlotOf[Order[at[r]]][now[r]] \in Nat \union {None}
  BY <1>2, SlotAssumption DEF TypeOK
<1> QED
  BY <1>2, <1>3 DEF Task, Slot

LEMMA StoredTypes ==
    ASSUME TypeOK, NEW r \in Replicas, at[r] <= Len(Order), Stored(r)
    PROVE  /\ key' \in [Tasks -> Nat \union {None}]
           /\ memory' \in [Replicas -> [Tasks -> Nat \union {None}]]
<1>1. Task(r) \in Tasks /\ Slot(r) \in Nat \union {None}
  BY TaskInTable
<1>2. CASE Slot(r) = None
  BY <1>2 DEF Stored, TypeOK
<1>3. CASE Slot(r) # None /\ r \in offline
  <2>1. [memory[r] EXCEPT ![Task(r)] = Slot(r)] \in [Tasks -> Nat \union {None}]
    BY <1>1 DEF TypeOK
  <2> QED
    BY <1>3, <2>1 DEF Stored, TypeOK
<1>4. CASE Slot(r) # None /\ r \notin offline
  BY <1>1, <1>4 DEF Stored, TypeOK
<1> QED
  BY <1>2, <1>3, <1>4

LEMMA InitBInv == Init => BInv
<1> SUFFICES ASSUME Init PROVE BInv
  OBVIOUS
<1>1. overtaken \in BOOLEAN
  BY DEF Init
<1> QED
  BY <1>1, LimitsAssumption, TableAssumption DEF Init, BInv, TypeOK, Ticks, Empty

LEMMA StepBInv ==
    ASSUME NEW r \in Replicas, BInv, Step(r) PROVE BInv'
<1> USE DEF BInv, TypeOK
<1>0. Len(Order) \in Nat
  BY TableAssumption
<1>1. CASE BeginPass(r)
  BY <1>0, <1>1 DEF BeginPass, history, mishaps, Slot, Task
<1>2. CASE Claim(r)
  <2>1. Task(r) \in Tasks /\ Slot(r) \in Nat
    BY <1>2, TaskInTable DEF Claim, Due
  <2>2. /\ key' \in [Tasks -> Nat \union {None}]
        /\ memory' \in [Replicas -> [Tasks -> Nat \union {None}]]
    BY <1>2, StoredTypes DEF Claim
  <2>3. started' \in [Tasks -> SUBSET Nat]
    BY <1>2, <2>1 DEF Claim
  <2>4. stage' = [stage EXCEPT ![r] = "running"] /\ at[r] <= Len(Order)
        /\ UNCHANGED <<clock, now, at, offline, done, overtaken, restarts, outages>>
    BY <1>2 DEF Claim, mishaps
  <2>5. Slot(r) # None
    BY <1>2 DEF Claim, Due
  <2> QED
    BY <2>2, <2>3, <2>4, <2>5 DEF Slot, Task
<1>3. CASE Pass(r)
  <2>1. /\ key' \in [Tasks -> Nat \union {None}]
        /\ memory' \in [Replicas -> [Tasks -> Nat \union {None}]]
    BY <1>3, StoredTypes DEF Pass
  <2>2. at' \in [Replicas -> 1..Len(Order) + 1]
    BY <1>0, <1>3 DEF Pass
  <2> QED
    BY <1>3, <2>1, <2>2 DEF Pass, history, mishaps, Slot, Task
<1>4. CASE Finish(r)
  <2>1. Task(r) \in Tasks /\ Slot(r) \in Nat
    BY <1>4, TaskInTable DEF Finish
  <2>2. done' \in [Tasks -> SUBSET Nat]
    BY <1>4, <2>1 DEF Finish
  <2>3. at' \in [Replicas -> 1..Len(Order) + 1]
    BY <1>0, <1>4 DEF Finish
  <2> QED
    BY <1>4, <2>2, <2>3 DEF Finish, mishaps, Slot, Task
<1>5. CASE EndPass(r)
  BY <1>5 DEF EndPass, history, mishaps, Slot, Task
<1> QED
  BY <1>1, <1>2, <1>3, <1>4, <1>5 DEF Step

LEMMA NextBInv == BInv /\ [Next]_vars => BInv'
<1> SUFFICES ASSUME BInv, [Next]_vars PROVE BInv'
  OBVIOUS
<1>1. ASSUME NEW r \in Replicas, Step(r) PROVE BInv'
  BY <1>1, StepBInv
<1>2. ASSUME NEW r \in Replicas, GiveRedisUp(r) PROVE BInv'
  <2>1. Task(r) \in Tasks /\ Slot(r) \in Nat \union {None}
    BY <1>2, TaskInTable DEF GiveRedisUp, BInv
  <2>2. key' \in [Tasks -> Nat \union {None}]
    BY <1>2, <2>1 DEF GiveRedisUp, BInv, TypeOK
  <2> QED
    BY <1>2, <2>2 DEF GiveRedisUp, BInv, TypeOK, process, history, Slot, Task
<1>3. ASSUME NEW r \in Replicas, Restart(r) PROVE BInv'
  <2>1. Empty \in [Tasks -> Nat \union {None}]
    BY DEF Empty
  <2> QED
    BY <1>3, <2>1 DEF Restart, BInv, TypeOK, history, Slot, Task
<1>4. CASE Tick
  <2>1. clock' \in Ticks
    BY <1>4, LimitsAssumption DEF Tick, BInv, TypeOK, Ticks
  <2> QED
    BY <1>4, <2>1 DEF Tick, BInv, TypeOK, process, history, mishaps, Slot, Task
<1>5. CASE UNCHANGED vars
  BY <1>5 DEF vars, BInv, TypeOK, process, history, mishaps, Slot, Task
<1> QED
  BY <1>1, <1>2, <1>3, <1>4, <1>5 DEF Next

LEMMA BInductive == Spec => []BInv
  BY InitBInv, NextBInv, PTL DEF Spec

\* The variables keep their types whatever dies, and a process that runs is at
\* a row of the table.
THEOREM BeatTypeCorrect == Spec => []TypeOK
<1>1. BInv => TypeOK
  BY DEF BInv
<1> QED
  BY <1>1, BInductive, PTL

-----------------------------------------------------------------------------
(* As long as no pass overtakes another and Redis stays up: the passes on    *)
(* their way are of one tick, what is claimed is of no later tick, and what  *)
(* was begun is no later than what is claimed.                               *)

\* The slot claimed for t is of a tick that every pass on its way has reached.
Behind(t) ==
    \E m \in Ticks :
        /\ SlotOf[t][m] = key[t] /\ m <= clock
        /\ \A r \in Replicas : stage[r] # "idle" => m <= now[r]

OneTick ==
    \A q, r \in Replicas : stage[q] # "idle" /\ stage[r] # "idle" => now[q] = now[r]

BegunBefore(t) == \A s \in started[t] : key[t] # None /\ s <= key[t]

Orderly ==
    /\ offline = {}
    /\ \A r \in Replicas : now[r] <= clock
    /\ OneTick
    /\ \A t \in Tasks : BegunBefore(t)
    /\ \A t \in Tasks : key[t] # None => Behind(t)

Calm == ~overtaken /\ outages = 0

OInv == Calm => Orderly

\* What is due is newer than all that was begun.
LEMMA DueIsNew ==
    ASSUME BInv, Orderly, NEW r \in Replicas, at[r] <= Len(Order), Due(r),
           stage[r] # "idle"
    PROVE  \A s \in started[Task(r)] : s < Slot(r)
<1> DEFINE t == Task(r)
<1>1. t \in Tasks /\ Slot(r) \in Nat
  BY TaskInTable DEF BInv, Due
<1>2. key[t] # Slot(r)
  BY DEF Due, LastClaimed, Orderly
<1>3. SUFFICES ASSUME NEW s \in started[t] PROVE s < Slot(r)
  OBVIOUS
<1>4. s \in Nat /\ key[t] \in Nat /\ s <= key[t] /\ Behind(t)
  BY <1>1, <1>3 DEF BInv, TypeOK, Orderly, BegunBefore
<1>5. PICK m \in Ticks : m <= now[r] /\ SlotOf[t][m] = key[t]
  BY <1>4 DEF Behind
<1>6. now[r] \in Ticks /\ SlotOf[t][now[r]] = Slot(r) /\ None \notin Nat
  BY SlotAssumption DEF BInv, TypeOK, Slot
<1>7. key[t] <= Slot(r)
  BY <1>1, <1>4, <1>5, <1>6, SlotsGrowAssumption
<1> QED
  BY <1>1, <1>2, <1>4, <1>7

\* A step that begins no pass and claims nothing leaves the order as it is.
LEMMA OrderlyKept ==
    ASSUME BInv, Orderly, UNCHANGED <<now, key, started>>,
           offline' \subseteq offline, clock' \in Ticks, clock <= clock',
           \A r \in Replicas : stage'[r] # "idle" => stage[r] # "idle"
    PROVE  Orderly'
<1>1. clock \in Ticks /\ \A r \in Replicas : now[r] \in Ticks
  BY DEF BInv, TypeOK
<1>2. offline' = {} /\ \A r \in Replicas : now'[r] <= clock'
  BY <1>1 DEF Orderly, Ticks
<1>3. OneTick' /\ \A t \in Tasks : BegunBefore(t)'
  BY DEF Orderly, OneTick, BegunBefore
<1>4. ASSUME NEW t \in Tasks, key'[t] # None PROVE Behind(t)'
  <2>1. PICK m \in Ticks : /\ SlotOf[t][m] = key[t] /\ m <= clock
                           /\ \A r \in Replicas : stage[r] # "idle" => m <= now[r]
    BY <1>4 DEF Orderly, Behind
  <2>2. m <= clock'
    BY <1>1, <2>1 DEF Ticks
  <2> QED
    BY <2>1, <2>2 DEF Behind
<1> QED
  BY <1>2, <1>3, <1>4 DEF Orderly

LEMMA BeginOrderly ==
    ASSUME BInv, Orderly, NEW r \in Replicas, BeginPass(r), ~Overtakes PROVE Orderly'
<1>1. clock \in Ticks /\ \A q \in Replicas : now[q] \in Ticks /\ now[q] <= clock
  BY DEF BInv, TypeOK, Orderly
<1>2. /\ now' = [now EXCEPT ![r] = clock] /\ stage' = [stage EXCEPT ![r] = "walking"]
      /\ UNCHANGED <<clock, key, offline, started>>
  BY DEF BeginPass
<1>3. \A q \in Replicas : stage'[q] # "idle" => now'[q] = clock
  <2>1. ASSUME NEW q \in Replicas, stage[q] # "idle" PROVE now[q] = clock
    BY <1>1, <2>1 DEF Overtakes, Ticks
  <2> QED
    BY <1>2, <2>1 DEF BInv, TypeOK
<1>4. \A q \in Replicas : now'[q] <= clock'
  BY <1>1, <1>2 DEF BInv, TypeOK, Ticks
<1>5. OneTick' /\ \A t \in Tasks : BegunBefore(t)'
  BY <1>2, <1>3 DEF Orderly, OneTick, BegunBefore
<1>6. \A t \in Tasks : key'[t] # None => Behind(t)'
  BY <1>2, <1>3 DEF Orderly, Behind
<1> QED
  BY <1>2, <1>4, <1>5, <1>6 DEF Orderly

LEMMA ClaimOrderly ==
    ASSUME BInv, Orderly, NEW r \in Replicas, Claim(r) PROVE Orderly'
<1> DEFINE u == Task(r)
<1>1. u \in Tasks /\ Slot(r) \in Nat /\ Slot(r) # None
  BY TaskInTable DEF Claim, Due, BInv
<1>2. /\ key' = [key EXCEPT ![u] = Slot(r)]
      /\ started' = [started EXCEPT ![u] = started[u] \union {Slot(r)}]
      /\ stage' = [stage EXCEPT ![r] = "running"] /\ stage[r] # "idle"
      /\ UNCHANGED <<clock, now, offline>>
  BY <1>1 DEF Claim, Stored, Orderly
<1>3. \A s \in started[u] : s < Slot(r) /\ s \in Nat
  BY <1>1, DueIsNew DEF Claim, BInv, TypeOK
<1>4. SlotOf[u][now[r]] = Slot(r) /\ now[r] \in Ticks /\ now[r] <= clock
  BY DEF Slot, BInv, TypeOK, Orderly
<1> HIDE DEF u
<1>5. key'[u] = Slot(r) /\ started'[u] = started[u] \union {Slot(r)}
  BY <1>1, <1>2 DEF BInv, TypeOK
<1>6. \A q \in Replicas : stage'[q] # "idle" => stage[q] # "idle"
  BY <1>2 DEF BInv, TypeOK
<1>7. \A q \in Replicas : stage'[q] # "idle" => now[r] <= now[q]
  BY <1>2, <1>6 DEF Orderly, OneTick, BInv, TypeOK, Ticks
<1>8. \A s \in started'[u] : key'[u] # None /\ s <= key'[u]
  BY <1>1, <1>3, <1>5
<1>9. ASSUME NEW t \in Tasks PROVE BegunBefore(t)' /\ (key'[t] # None => Behind(t)')
  <2>1. CASE t = u
    BY <1>2, <1>4, <1>5, <1>7, <1>8, <2>1 DEF BegunBefore, Behind
  <2>2. CASE t # u
    <3>1. key'[t] = key[t] /\ started'[t] = started[t]
      BY <1>1, <1>2, <2>2 DEF BInv, TypeOK
    <3> QED
      BY <1>2, <1>6, <3>1 DEF Orderly, BegunBefore, Behind
  <2> QED
    BY <2>1, <2>2
<1>10. OneTick'
  BY <1>2, <1>6 DEF Orderly, OneTick
<1> QED
  BY <1>2, <1>9, <1>10 DEF Orderly

LEMMA StepOrderly ==
    ASSUME BInv, Orderly, NEW r \in Replicas, Step(r), Calm' PROVE Orderly'
<1>1. CASE BeginPass(r)
  BY <1>1, BeginOrderly DEF BeginPass, Calm
<1>2. CASE Claim(r)
  BY <1>2, ClaimOrderly
<1>3. CASE Pass(r)
  <2>1. LastClaimed(r) = key[Task(r)] /\ r \notin offline
    BY DEF LastClaimed, Orderly
  <2>2. Slot(r) = None \/ key[Task(r)] = Slot(r)
    BY <1>3, <2>1 DEF Pass, Due
  <2>3. key' = key
    BY <1>3, <2>1, <2>2 DEF Pass, Stored, BInv, TypeOK
  <2> QED
    BY <1>3, <2>3, OrderlyKept DEF Pass, history, BInv, TypeOK, Ticks
<1>4. CASE Finish(r)
  BY <1>4, OrderlyKept DEF Finish, BInv, TypeOK, Ticks
<1>5. CASE EndPass(r)
  BY <1>5, OrderlyKept DEF EndPass, history, BInv, TypeOK, Ticks
<1> QED
  BY <1>1, <1>2, <1>3, <1>4, <1>5 DEF Step

\* Neither an overtaking nor an outage is ever undone.
LEMMA CalmBefore == BInv /\ [Next]_vars /\ Calm' => Calm
  BY DEF BInv, TypeOK, Calm, Next, vars, Step, BeginPass, Claim, Pass, Finish, EndPass,
     GiveRedisUp, Restart, Tick, history, mishaps

LEMMA NextOInv == BInv /\ OInv /\ [Next]_vars => OInv'
<1> SUFFICES ASSUME BInv, OInv, [Next]_vars, Calm' PROVE Orderly'
  BY DEF OInv
<1>1. Orderly /\ clock \in Ticks
  BY CalmBefore DEF OInv, BInv, TypeOK
<1>2. ASSUME NEW r \in Replicas, Step(r) PROVE Orderly'
  BY <1>1, <1>2, StepOrderly
<1>3. ASSUME NEW r \in Replicas, GiveRedisUp(r) PROVE FALSE
  BY <1>3 DEF GiveRedisUp, Calm, BInv, TypeOK
<1>4. ASSUME NEW r \in Replicas, Restart(r) PROVE Orderly'
  <2>1. outages' = 0 /\ outages \in Nat
    BY DEF Calm, BInv, TypeOK
  <2>2. offline' \subseteq offline
    BY <1>4, <2>1 DEF Restart
  <2>3. UNCHANGED <<now, key, started, clock>>
    BY <1>4 DEF Restart, history
  <2>4. \A q \in Replicas : stage'[q] # "idle" => stage[q] # "idle"
    BY <1>4 DEF Restart, BInv, TypeOK
  <2> QED
    BY <1>1, <2>2, <2>3, <2>4, OrderlyKept DEF Ticks
<1>5. CASE Tick
  BY <1>1, <1>5, OrderlyKept, LimitsAssumption DEF Tick, process, history, Ticks
<1>6. CASE UNCHANGED vars
  BY <1>1, <1>6, OrderlyKept DEF vars, process, history, Ticks
<1> QED
  BY <1>2, <1>3, <1>4, <1>5, <1>6 DEF Next

LEMMA OInductive == Spec => []OInv
<1>1. Init => OInv
  BY DEF Init, OInv, Orderly, OneTick, BegunBefore, Empty
<1> QED
  BY <1>1, BInductive, NextOInv, PTL DEF Spec

\* Whatever the table, the number of schedulers, the length of their passes and
\* the restarts: no occurrence is begun again while no pass has overtaken
\* another and Redis has stayed up.
THEOREM NeverTwiceThm == Spec => NeverTwice
<1>1. BInv /\ OInv /\ [Next]_vars =>
        [~overtaken /\ outages = 0 =>
            \A r \in Replicas : Claim(r) => Slot(r) \notin started[Task(r)]]_vars
  <2> SUFFICES ASSUME BInv, OInv, Calm, NEW r \in Replicas, Claim(r),
                      Slot(r) \in started[Task(r)]
               PROVE  FALSE
    BY DEF Calm
  <2>1. Slot(r) < Slot(r) /\ Slot(r) \in Nat
    BY DueIsNew, TaskInTable DEF Claim, Due, BInv, OInv
  <2> QED
    BY <2>1
<1> QED
  BY <1>1, BInductive, OInductive, PTL DEF Spec, NeverTwice

\* A scheduler alone, with Redis, sends nothing twice: run_scheduler.py:15 holds
\* of one replica, killed and started again as often as one likes.
THEOREM SentOnceAlone ==
    ASSUME \A q, r \in Replicas : q = r, MaxOutages = 0
    PROVE  Spec => SentOnce
<1>1. Init => Calm
  BY DEF Init, Calm
<1>2. BInv /\ Calm /\ [Next]_vars => Calm'
  <2> SUFFICES ASSUME BInv, Calm, [Next]_vars PROVE Calm'
    OBVIOUS
  <2>1. ASSUME NEW r \in Replicas, BeginPass(r) PROVE Calm'
    <3>1. ~Overtakes
      BY <2>1 DEF BeginPass, Overtakes
    <3> QED
      BY <2>1, <3>1 DEF BeginPass, Calm, mishaps
  <2>2. ASSUME NEW r \in Replicas, Step(r) PROVE Calm'
    BY <2>1, <2>2 DEF Step, Claim, Pass, Finish, EndPass, Calm, history, mishaps
  <2>3. ASSUME NEW r \in Replicas, GiveRedisUp(r) \/ Restart(r) PROVE Calm'
    BY <2>3 DEF GiveRedisUp, Restart, Calm, history, BInv, TypeOK
  <2>4. CASE Tick \/ UNCHANGED vars
    BY <2>4 DEF Tick, vars, Calm, history, mishaps
  <2> QED
    BY <2>2, <2>3, <2>4 DEF Next
<1>3. BInv /\ OInv /\ Calm /\ [Next]_vars =>
        [\A r \in Replicas : Claim(r) => Slot(r) \notin started[Task(r)]]_vars
  <2> SUFFICES ASSUME BInv, OInv, Calm, NEW r \in Replicas, Claim(r),
                      Slot(r) \in started[Task(r)]
               PROVE  FALSE
    OBVIOUS
  <2>1. Slot(r) < Slot(r) /\ Slot(r) \in Nat
    BY DueIsNew, TaskInTable DEF Claim, Due, BInv, OInv
  <2> QED
    BY <2>1
<1> QED
  BY <1>1, <1>2, <1>3, BInductive, OInductive, PTL DEF Spec, SentOnce

-----------------------------------------------------------------------------
(* The rows that the passes of the beat make (module Materialise): for any  *)
(* checks, walks and requests, whatever overlaps and whatever dies.         *)

Schedule == {"null", "due", "later"}

Coherent(v) == v.todo \subseteq v.keep /\ v.new \subseteq v.keep

\* What RowsTypeOK says of the walks.
WalksCoherent ==
    \A v \in Walkers : /\ walk[v].todo \subseteq walk[v].keep
                       /\ walk[v].new \subseteq walk[v].keep \intersect exists

\* A walk that has not resolved yet has made no row.
FreshWalks == \A w \in Walkers : walk[w].stage \in {"idle", "load", "resolve"} => walk[w].new = {}

RowsInv == RowsTypeOK /\ FreshWalks

\* A column overwritten on some rows.
LEMMA OnTyped ==
    \A V : \A S, column, value :
        column \in [Checks -> V] /\ value \in V => On(S, column, value) \in [Checks -> V]
BY DEF On

LEMMA IdleTyped ==
    /\ Idle \in Walk /\ Coherent(Idle) /\ Idle.new = {}
    /\ \A stg \in {"load", "resolve"}, sw \in BOOLEAN :
          LET v == [Idle EXCEPT !.stage = stg, !.excluded = sw]
          IN v \in Walk /\ Coherent(v) /\ v.new = {}
BY DEF Idle, Walk, Coherent

\* One walk moves: the others stay as they were, and so do their rows.
LEMMA OneWalkMoves ==
    ASSUME RowsInv, NEW w \in Walkers, NEW next \in Walk, Coherent(next),
           next.stage \in {"idle", "load", "resolve"} => next.new = {},
           next.new \subseteq exists', exists \subseteq exists',
           walk' = [walk EXCEPT ![w] = next]
    PROVE  walk' \in [Walkers -> Walk] /\ WalksCoherent' /\ FreshWalks'
BY DEF RowsInv, RowsTypeOK, FreshWalks, Coherent, WalksCoherent

LEMMA RowsInitInv == RowsInit => RowsInv
<1> SUFFICES ASSUME RowsInit PROVE RowsInv
  OBVIOUS
<1>1. walk = [w \in Walkers |-> Idle] /\ Idle \in Walk /\ Coherent(Idle) /\ Idle.new = {}
  BY IdleTyped DEF RowsInit
<1>2. walk \in [Walkers -> Walk] /\ \A w \in Walkers : Coherent(walk[w]) /\ walk[w].new = {}
  BY <1>1
<1> QED
  BY <1>2 DEF RowsInit, RowsInv, RowsTypeOK, FreshWalks, Status, Coherent

\* What a step of a walk may do.
WalkMoves(w) ==
    /\ \E next \in Walk :
          /\ Coherent(next)
          /\ next.stage \in {"idle", "load", "resolve"} => next.new = {}
          /\ next.new \subseteq exists'
          /\ walk' = [walk EXCEPT ![w] = next]
    /\ exists \subseteq exists' /\ unarmed' \subseteq exists'
    /\ status' \in [Checks -> Status] /\ nextRun' \in [Checks -> Schedule]
    /\ exists' \subseteq Checks /\ firing' \subseteq Checks /\ crashes' \in Nat
    /\ UNCHANGED <<scene, assignments, excluded, request>>

\* A walk's steps, the first and the last of them included.
LEMMA WalkRowsInv ==
    ASSUME RowsInv, NEW w \in Walkers, WalkStep(w) \/ WalkerDies(w) \/ PassLoads(w)
    PROVE  RowsInv'
<1> DEFINE here == walk[w]
<1>1. /\ here \in Walk /\ here.todo \subseteq here.keep /\ here.new \subseteq here.keep
      /\ here.keep \subseteq Checks /\ here.new \subseteq exists
      /\ here.stage = "resolve" => here.new = {}
  BY DEF RowsInv, RowsTypeOK, FreshWalks, Walk
<1>2. /\ status \in [Checks -> Status] /\ nextRun \in [Checks -> Schedule]
      /\ exists \subseteq Checks /\ firing \subseteq Checks /\ unarmed \subseteq exists
      /\ crashes \in Nat /\ excluded \in BOOLEAN
      /\ assigned \subseteq Checks /\ disabled \subseteq Checks /\ scene \in Scenes
      /\ request \in [Requests -> SUBSET Checks]
  BY DEF RowsInv, RowsTypeOK, Schedule
<1>3. \A S, value :
         /\ value \in {"unknown", "skipped"} => On(S, status, value) \in [Checks -> Status]
         /\ value \in {"null", "due"} => On(S, nextRun, value) \in [Checks -> Schedule]
  <2>1. {"unknown", "skipped"} \subseteq Status /\ {"null", "due"} \subseteq Schedule
    BY DEF Status, Schedule
  <2> QED
    BY <1>2, <2>1, OnTyped
<1>4. WalkMoves(w) => RowsInv'
  <2> SUFFICES ASSUME WalkMoves(w) PROVE RowsInv'
    OBVIOUS
  <2>1. PICK next \in Walk :
           /\ Coherent(next)
           /\ next.stage \in {"idle", "load", "resolve"} => next.new = {}
           /\ next.new \subseteq exists'
           /\ walk' = [walk EXCEPT ![w] = next]
    BY DEF WalkMoves
  <2>2. walk' \in [Walkers -> Walk] /\ WalksCoherent' /\ FreshWalks'
    BY <2>1, OneWalkMoves DEF WalkMoves
  <2> QED
    BY <1>2, <2>2 DEF WalkMoves, WalksCoherent, RowsInv, RowsTypeOK, assignments, Schedule
<1>5. CASE PassLoads(w) \/ EditLoads(w)
  <2> DEFINE next == [Idle EXCEPT !.stage = "resolve", !.excluded = excluded]
  <2>1. next \in Walk /\ Coherent(next) /\ next.new = {}
    BY <1>2, IdleTyped
  <2>2. walk' = [walk EXCEPT ![w] = next]
    BY <1>5 DEF PassLoads, EditLoads, Load
  <2> HIDE DEF next
  <2> QED
    BY <1>2, <1>4, <1>5, <2>1, <2>2 DEF PassLoads, EditLoads, WalkMoves, rows
<1>6. CASE Resolve(w)
  <2> DEFINE next == [here EXCEPT !.stage = "create", !.keep = Effective, !.todo = Effective]
  <2>1. /\ next \in Walk /\ Coherent(next) /\ next.stage = "create"
        /\ walk' = [walk EXCEPT ![w] = next]
    BY <1>1, <1>2, <1>6 DEF Resolve, Walk, Coherent, Effective
  <2>2. next.new = {}
    BY <1>1, <1>6 DEF Resolve
  <2> HIDE DEF next
  <2> QED
    BY <1>2, <1>4, <1>6, <2>1, <2>2 DEF Resolve, WalkMoves, rows
<1>7. ASSUME NEW c \in Checks, UpdateOrCreate(w, c) PROVE RowsInv'
  <2>1. CASE c \in exists
    <3> DEFINE next == [here EXCEPT !.todo = @ \ {c}]
    <3>1. here.stage = "create" /\ walk' = [walk EXCEPT ![w] = next]
      BY <1>7, <2>1 DEF UpdateOrCreate
    <3>2. here.todo \ {c} \subseteq here.todo
      OBVIOUS
    <3>3. /\ next \in Walk /\ Coherent(next) /\ next.stage = "create"
          /\ next.new \subseteq exists
      BY <1>1, <3>1, <3>2 DEF Walk, Coherent
    <3> HIDE DEF next
    <3> QED
      BY <1>2, <1>4, <1>7, <2>1, <3>1, <3>3 DEF UpdateOrCreate, WalkMoves
  <2>2. CASE c \notin exists
    <3> DEFINE next == [here EXCEPT !.todo = @ \ {c}, !.new = @ \union {c},
                                    !.stage = IF Arms(w) THEN "arm" ELSE "create"]
    <3>1. c \in here.todo /\ walk' = [walk EXCEPT ![w] = next]
      BY <1>7, <2>2 DEF UpdateOrCreate
    <3>2. /\ here.todo \ {c} \subseteq here.todo
          /\ here.new \union {c} \subseteq here.keep
      BY <1>1, <3>1
    <3>3. /\ next \in Walk /\ Coherent(next) /\ next.stage \in {"arm", "create"}
          /\ next.new \subseteq exists \union {c}
      BY <1>1, <3>2 DEF Walk, Coherent
    <3> HIDE DEF next
    <3>4. status' \in [Checks -> Status] /\ nextRun' \in [Checks -> Schedule]
      BY <1>2, <1>7, <2>2 DEF UpdateOrCreate, Status, Schedule
    <3> QED
      BY <1>2, <1>4, <1>7, <3>1, <3>3, <3>4 DEF UpdateOrCreate, WalkMoves
  <2> QED
    BY <2>1, <2>2
<1>8. CASE Arm(w)
  <2>1. CASE here.new # {}
    <3> DEFINE next == [here EXCEPT !.stage = "create", !.new = {}]
    <3>1. /\ next \in Walk /\ Coherent(next) /\ next.stage = "create"
          /\ next.new = {} /\ walk' = [walk EXCEPT ![w] = next]
      BY <1>1, <1>8, <2>1 DEF Arm, Walk, Coherent
    <3> HIDE DEF next
    <3>2. nextRun' \in [Checks -> Schedule]
      BY <1>3, <1>8, <2>1 DEF Arm
    <3> QED
      BY <1>2, <1>4, <1>8, <2>1, <3>1, <3>2 DEF Arm, WalkMoves
  <2>2. CASE here.new = {}
    BY <1>2, <1>4, <1>8, <2>2, IdleTyped DEF Arm, WalkMoves
  <2> QED
    BY <2>1, <2>2
<1>9. CASE ParkRead(w)
  <2> DEFINE next == [here EXCEPT !.stage = "park", !.new = ParkedNew(@)]
  <2>1. /\ next \in Walk /\ Coherent(next) /\ next.stage = "park"
        /\ next.new \subseteq exists
        /\ walk' = [walk EXCEPT ![w] = next]
    <3>1. walk' = [walk EXCEPT ![w] = next]
      BY <1>9 DEF ParkRead
    <3>2. ParkedNew(here.new) \subseteq here.new
      BY DEF ParkedNew
    <3> QED
      BY <1>1, <3>1, <3>2 DEF Walk, Coherent
  <2> HIDE DEF next
  <2> QED
    BY <1>1, <1>2, <1>4, <1>9, <2>1 DEF ParkRead, Unscheduled, WalkMoves
<1>10. CASE ParkWrite(w)
  <2> DEFINE next == [here EXCEPT !.stage = "delete", !.new = {}]
  <2>1. /\ next \in Walk /\ Coherent(next) /\ next.stage = "delete"
        /\ next.new = {} /\ walk' = [walk EXCEPT ![w] = next]
    BY <1>1, <1>2, <1>10 DEF ParkWrite, Walk, Coherent
  <2> HIDE DEF next
  <2>2. /\ status' \in [Checks -> Status] /\ nextRun' \in [Checks -> Schedule]
        /\ firing' \subseteq Checks
    BY <1>2, <1>3, <1>10 DEF ParkWrite
  <2> QED
    BY <1>2, <1>4, <1>10, <2>1, <2>2 DEF ParkWrite, WalkMoves
<1>11. CASE DeleteStale(w)
  <2> DEFINE stale == Stale(here.keep)
  <2>1. status' \in [Checks -> Status] /\ nextRun' \in [Checks -> Schedule]
    BY <1>3, <1>11 DEF DeleteStale
  <2>2. /\ exists' = exists \ stale /\ unarmed' = unarmed \ stale
        /\ walk' = [v \in Walkers |-> IF v = w THEN Idle
                                      ELSE [walk[v] EXCEPT !.new = @ \ stale]]
        /\ UNCHANGED <<scene, assignments, excluded, firing, request, crashes>>
    BY <1>11 DEF DeleteStale
  <2>3. ASSUME NEW v \in Walkers, v # w
        PROVE  LET next == [walk[v] EXCEPT !.new = @ \ stale]
               IN /\ next \in Walk /\ Coherent(next) /\ next.stage = walk[v].stage
                  /\ next.new = walk[v].new \ stale
    BY DEF RowsInv, RowsTypeOK, Walk, Coherent
  <2>4. ASSUME NEW v \in Walkers
        PROVE  /\ walk'[v] \in Walk /\ Coherent(walk'[v])
               /\ walk'[v].new \subseteq exists'
               /\ walk'[v].stage \in {"idle", "load", "resolve"} => walk'[v].new = {}
    <3>1. CASE v = w
      BY <2>2, <3>1, IdleTyped
    <3>2. CASE v # w
      <4>1. walk[v].new \subseteq exists
        BY DEF RowsInv, RowsTypeOK
      <4>2. walk[v].stage \in {"idle", "load", "resolve"} => walk[v].new = {}
        BY DEF RowsInv, FreshWalks
      <4>3. walk'[v] = [walk[v] EXCEPT !.new = @ \ stale]
        BY <2>2, <3>2
      <4> HIDE DEF stale
      <4> QED
        BY <2>2, <2>3, <3>2, <4>1, <4>2, <4>3
    <3> QED
      BY <3>1, <3>2
  <2>5. walk' \in [Walkers -> Walk] /\ WalksCoherent' /\ FreshWalks'
    BY <2>2, <2>4 DEF WalksCoherent, FreshWalks, Coherent
  <2> HIDE DEF stale
  <2> QED
    BY <1>2, <2>1, <2>2, <2>5 DEF WalksCoherent, RowsInv, RowsTypeOK, assignments, Schedule
<1>12. CASE WalkerDies(w)
  <2>1. walk' = [walk EXCEPT ![w] = Idle] /\ crashes' = crashes + 1
        /\ unarmed' = unarmed \union Unscheduled(w)
        /\ UNCHANGED <<scene, assignments, excluded, exists, status, nextRun, firing, request>>
    BY <1>12 DEF WalkerDies
  <2>2. crashes' \in Nat
    BY <1>2, <2>1
  <2> QED
    BY <1>1, <1>2, <1>4, <2>1, <2>2, IdleTyped DEF Unscheduled, WalkMoves
<1> QED
  BY <1>5, <1>6, <1>7, <1>8, <1>9, <1>10, <1>11, <1>12 DEF WalkStep

\* A request has saved an edit: its walk begins, if there is one.
LEMMA FollowInv ==
    ASSUME RowsInv, NEW c \in Checks, Follow(c), exists' = exists
    PROVE  walk' \in [Walkers -> Walk] /\ WalksCoherent' /\ FreshWalks'
<1>1. CASE walk' = walk
  BY <1>1 DEF RowsInv, RowsTypeOK, FreshWalks, WalksCoherent
<1>2. ASSUME NEW edit \in Edits, Edited(edit)
      PROVE  walk' \in [Walkers -> Walk] /\ WalksCoherent' /\ FreshWalks'
  <2> DEFINE next == [Idle EXCEPT !.stage = "load"]
  <2>1. next \in Walk /\ Coherent(next) /\ next.new = {}
    BY DEF Idle, Walk, Coherent
  <2>2. edit \in Walkers /\ walk' = [walk EXCEPT ![edit] = next]
    BY <1>2 DEF Edited, Walkers
  <2> HIDE DEF next
  <2> QED
    BY <2>1, <2>2, OneWalkMoves
<1> QED
  BY <1>1, <1>2 DEF Follow

LEMMA OperatorRowsInv == ASSUME RowsInv, OperatorStep PROVE RowsInv'
<1>1. \A S, value :
         /\ value \in {"unknown", "skipped"} => On(S, status, value) \in [Checks -> Status]
         /\ value \in {"null", "due"} => On(S, nextRun, value) \in [Checks -> Schedule]
  <2>1. {"unknown", "skipped"} \subseteq Status /\ {"null", "due"} \subseteq Schedule
    BY DEF Status, Schedule
  <2> QED
    BY <2>1, OnTyped DEF RowsInv, RowsTypeOK, Schedule
<1>2. ASSUME NEW c \in Checks, Assign(c) \/ Unassign(c) \/ ToggleEnabled(c)
      PROVE  RowsInv'
  <2>1. Follow(c)
    BY <1>2 DEF Assign, Unassign, ToggleEnabled
  <2>2. /\ assigned' \subseteq Checks /\ disabled' \subseteq Checks
        /\ UNCHANGED <<scene, excluded, rows, request, crashes>>
    BY <1>2 DEF Assign, Unassign, ToggleEnabled, RowsInv, RowsTypeOK
  <2> QED
    BY <2>1, <2>2, FollowInv DEF RowsInv, RowsTypeOK, WalksCoherent, rows
<1>3. CASE Exclude \/ Include
  <2>1. status' \in [Checks -> Status] /\ nextRun' \in [Checks -> Schedule]
    BY <1>1, <1>3 DEF Exclude, Include, RowsInv, RowsTypeOK, Schedule
  <2>2. firing' \subseteq Checks /\ excluded' \in BOOLEAN /\ unarmed' = {}
    BY <1>3 DEF Exclude, Include, RowsInv, RowsTypeOK
  <2>3. UNCHANGED <<scene, assignments, exists, walk, request, crashes>>
    BY <1>3 DEF Exclude, Include
  <2> QED
    BY <2>1, <2>2, <2>3 DEF RowsInv, RowsTypeOK, FreshWalks, assignments, Schedule
<1>4. ASSUME NEW q \in Requests, CheckNowAsk(q) PROVE RowsInv'
  <2>1. request' \in [Requests -> SUBSET Checks]
    BY <1>4 DEF CheckNowAsk, Effective, RowsInv, RowsTypeOK
  <2> QED
    BY <1>4, <2>1 DEF CheckNowAsk, RowsInv, RowsTypeOK, FreshWalks, assignments, rows
<1> QED
  BY <1>2, <1>3, <1>4 DEF OperatorStep

LEMMA EngineRowsInv ==
    ASSUME RowsInv,
           \/ \E q \in Requests : CheckNowWrite(q)
           \/ \E c \in Checks : RunCheck(c)
           \/ HealOrphans
    PROVE  RowsInv'
<1>1. ASSUME NEW q \in Requests, CheckNowWrite(q) PROVE RowsInv'
  <2>1. request' \in [Requests -> SUBSET Checks] /\ request[q] \subseteq Checks
    BY <1>1 DEF CheckNowWrite, RowsInv, RowsTypeOK
  <2>2. CASE excluded
    BY <1>1, <2>1, <2>2
       DEF CheckNowWrite, RowsInv, RowsTypeOK, FreshWalks, assignments, rows
  <2>3. CASE ~excluded
    <3>1. PICK down \in SUBSET request[q] :
             /\ exists' = exists \union request[q]
             /\ status' = [c \in Checks |-> IF c \in down THEN "down"
                                            ELSE IF c \in request[q] THEN "up"
                                            ELSE status[c]]
             /\ nextRun' = On(request[q] \ exists, nextRun, "null")
             /\ firing' = (firing \ request[q]) \union down
      BY <1>1, <2>3 DEF CheckNowWrite
    <3>2. /\ exists' \subseteq Checks /\ firing' \subseteq Checks
          /\ status' \in [Checks -> Status]
      BY <2>1, <3>1 DEF RowsInv, RowsTypeOK, Status
    <3>4. exists \subseteq exists' /\ unarmed' \subseteq exists'
      BY <1>1, <2>3, <3>1 DEF CheckNowWrite, RowsInv, RowsTypeOK
    <3>3. nextRun' \in [Checks -> {"null", "due", "later"}]
      BY <3>1, OnTyped DEF RowsInv, RowsTypeOK
    <3> QED
      BY <1>1, <2>1, <3>2, <3>3, <3>4
         DEF CheckNowWrite, RowsInv, RowsTypeOK, FreshWalks, assignments
  <2> QED
    BY <2>2, <2>3
<1>2. ASSUME NEW c \in Checks, RunCheck(c) PROVE RowsInv'
  BY <1>2 DEF RunCheck, Verdict, Status, RowsInv, RowsTypeOK, FreshWalks, assignments
<1>3. CASE HealOrphans
  <2>1. nextRun' \in [Checks -> {"null", "due", "later"}]
    BY <1>3, OnTyped DEF HealOrphans, RowsInv, RowsTypeOK
  <2> QED
    BY <1>3, <2>1 DEF HealOrphans, RowsInv, RowsTypeOK, FreshWalks, assignments
<1> QED
  BY <1>1, <1>2, <1>3

LEMMA NextRowsInv == RowsInv /\ [RowsNext]_rowVars => RowsInv'
<1> SUFFICES ASSUME RowsInv, [RowsNext]_rowVars PROVE RowsInv'
  OBVIOUS
<1>1. CASE UNCHANGED rowVars
  BY <1>1 DEF rowVars, assignments, rows, RowsInv, RowsTypeOK, FreshWalks
<1>2. CASE \E w \in Passes : PassLoads(w)
  BY <1>2, WalkRowsInv DEF Walkers
<1> QED
  BY <1>1, <1>2, WalkRowsInv, OperatorRowsInv, EngineRowsInv DEF RowsNext

\* The sets and columns of Materialise keep their types, and a walk makes,
\* arms and parks only rows of checks it resolved, whatever walks, edits and
\* requests overlap and wherever they die (scheduler.py:99).
THEOREM RowsTypeCorrect == RowsSpec => []RowsTypeOK
<1>1. RowsInv => RowsTypeOK
  BY DEF RowsInv
<1> QED
  BY <1>1, RowsInitInv, NextRowsInv, PTL DEF RowsSpec
=============================================================================
