# Danbyte, specified

TLA+ modules for the parts of Danbyte whose correctness depends on order: the
monitoring engine that keeps checks running, with its fast lane and its remote
engines; the materialisation of checks and the verdict hysteresis; the beat that
drives periodic tasks, and the schedules of scripts and backups; backups and
restores; the slot that upgrades and restores share, and the upgrade itself with
its recovery. TLC checks them on small instances, TLAPS proves the main safety
properties and one refinement for every value of the constants. `PROJECT.json`
lists components, runs, mutants, the source lines behind every definition,
hazards and theorems.

    tlc -workers 2 -config CheckEngine_Exclusion.cfg MCCheckEngine
    tlapm CheckEngineProofs.tla

The runs of a component `X` are `X.cfg` and `X_*.cfg`, on module `MCX`.

## 1. Inventory

### How the system runs

Danbyte is a Django application over PostgreSQL, with Redis for queues (RQ) and
short-lived keys. Nothing in it is a server loop of its own except the fast lane
and the container scheduler: periodic work is management commands started by
systemd timers (`services/*.timer`) or by `run_scheduler`. Requests, timers and
workers meet only in the database, in Redis and in files, so every hazard is one
of

* two statements of one process with a statement of another between them,
* a process that dies between two statements,
* a list, a row or a switch read some time before it is used,
* a clock that decides somebody else is dead.

Default isolation is READ COMMITTED with autocommit: each statement sees what is
committed when it starts, an `UPDATE` that waited for a row lock tests its `WHERE`
again on the *locked row*, but not on the rows it joined or the subquery it read.
The models take exactly this granularity. The upgrade stage is a shell script;
its steps are what outlives a process: journal lines, renames, unit starts and
stops, statements on the database.

### Components

| component | state | operations | hard part |
|---|---|---|---|
| Verdict hysteresis (`monitoring/state.py`) | per check: status, consecutive counters, since | fold an outcome; skip; arm; settings edited | long sequences, limits moved under running counters |
| Check engine (`scheduler.py`, `worker.py`) | `CheckState`: `next_run`, `in_flight`, `in_flight_since`; RQ jobs | reap, select, claim, enqueue, run, guard, write back, heal | dead and slow workers, two dispatchers, stale copies |
| Exclusion (`exclusion.py`) | `IPAddress.monitoring_excluded`, parked rows | switch on/off, park, repark, heal orphans | everything the engine has in hand when the switch is thrown |
| Check now (`runner.py`, `views.py`) | transient | probe and roll up under the address lock; bulk arm and dispatch | a click against the engine and the switch |
| Alerts (`alerts.py`, `escalation.py`) | firing `Alert` per check | open, resolve, close on excluded addresses | the alert is a second statement after the status |
| Materialisation (`scheduler.py`, `resolver.py`, `viewsets.py`) | the set of `CheckState` rows | periodic pass, walk on edit, create, arm, park, delete | overlapping walks with different resolutions |
| Scheduler beat (`run_scheduler.py`, `core/schedule.py`) | slot keys in Redis, or in memory | pass, claim, run | replicas, restarts, Redis outages |
| Fast lane (`fastlane.py`) | in-memory entries and copies, flushed; a heartbeat | reload, fold, flush, heartbeat, hand-over to the beat and back | stale memory, two owners |
| Outposts (`outpost_views.py`, `outpost_ssh.py`), Zabbix (`zabbix/driver.py`) | claims held by a remote agent, or a driver | pull work, push results and samples, unconditional claim | reports late, lost, doubled |
| Flapping (`flapping.py`) | sticky flag per check | sweep, clear | sweep against an operator |
| Cadence, scheduled scripts (`core/cadence.py`, `scripting/`) | last-run stamp, run rows, queued jobs | due test, create, stamp, queue, run, cancel, prune | calendar edges, a tick that dies between two of these |
| Backups, restore (`backups/`) | archive and restore rows, files on targets | run, reap, prune, delete, scan, restore in place | the rows that describe the work are part of what is restored |
| Upgrade slot (`core/upgrade.py`, `core/auto_upgrade.py`) | lock file, status file | acquire, launch, confirm, release, cancel | a file that outlives its owner, a silent systemd |
| Upgrade stage, recovery (`scripts/upgrade/`) | journal, marker, directories, units, snapshot | stage, swap, migrate, roll back, recover, retry | death between any two steps |
| Planned changes (`planning/`) | staged edits with a premise | apply, refuse when stale | two appliers |
| SLA, rollups, notifications, discovery, SNMP, ACME, inventory, audit, permissions, search, compliance, presence, web client | records, logs, outside services | CRUD, aggregation, network I/O | little ordering of their own; see `PROJECT.json` |

How they meet:

* The *dispatch* timer (every minute) reaps and claims, and queues jobs; RQ
  workers run them and open or resolve alerts; the fast lane writes the rows of
  sub-minute checks; Outposts and the Zabbix driver bring results in through the
  same write-back; the *materialise* timer heals orphans and walks the addresses;
  the *alert-maintenance* timer closes alerts on excluded addresses; API requests
  throw the exclusion switch, edit assignments, save addresses and ask for checks.
  All of it writes the same `CheckState` row.
* The *scripts* and *backups* ticks ask the cadence what is due and queue it.
* A restore holds the upgrade slot while it replaces the database, in which the
  rows of schedules, backups and restores live. An upgrade holds the same slot
  from the request that launches it to the end of its unit.

### What makes each correct

* Hysteresis: no status changes before it is earned, counted on what was really
  observed; stale is earned, and ends only by the right door.
* Check engine: a check has one holder; a claim is never replaced while it lasts;
  whatever dies or is late, an included check is run again and again.
* Exclusion: an excluded address ends up parked and quiet for good, an included
  one is not left parked.
* Materialisation: rows converge to the effective checks, and are scheduled.
* Beat, schedules: an occurrence is begun once; what is due is run.
* Fast lane, remote engines: one owner per check at a time, no verdict over a
  newer one, none of them lost between two owners.
* Backups: at every point the database, or an archive of it, is there; what lies
  on a target is known; the site comes back.
* Upgrades: one at a time; one release on disk and in the database when units
  run; what users wrote stays; the host settles and says the truth.

## 2. Plan

Done, in this order: **`Hysteresis`** the verdict alone, **`CheckEngine`**,
**`Materialise`**, **`SchedulerBeat`**; **`CheckService`**, what the engine
promises, which `CheckEngine` implements (`INSTANCE ... WITH`); **`FastLane`**,
**`RemoteEngines`**; **`Cadence`** as pure operators and **`Schedules`** on top of
it; **`Backups`**; **`UpgradeLock`** and **`UpgradeStage`**. Proofs:
**`CheckEngineProofs`** (the refinement is in it, and `Hysteresis`),
**`SchedulerBeatProofs`** (and `Materialise`), **`FastLaneProofs`**,
**`RemoteEnginesProofs`**, **`SchedulesProofs`** (and `Cadence`),
**`UpgradeLockProofs`**, **`BackupsProofs`**, **`UpgradeStageProofs`**. Two modules
that share a proof module have no name in common, hence `VerdictSpec`,
`RowsTypeOK` and the like.

Composition: `CheckEngine` takes its verdicts from what `Hysteresis` allows;
`Materialise`, `FastLane` and `RemoteEngines` reduce what the engine does to a
row to single steps, whose detail is in `CheckEngine`; `Schedules` extends
`Cadence` and leaves a backup's own run to `Backups`; `UpgradeLock` has the stage
as a unit that marks, ends and dies, `UpgradeStage` has the rest of it.

Not planned: `Flapping` and `PlannedChanges` (section 7). Every invariant that a
run checks is proved; what is left to the runs is liveness (section 5).

## 3. Modules and the code

### Hysteresis

`state` is the row (status, both counters, age in days), `policy` the settings in
force. `Observe(o)` is `apply_outcome` whole: `Counted` (lines 42-55), `Verdict`
(57-71), `Escalated` (73-93), `WithStatus` (95-111). `Skip` and `Arm` are the
other writers of these columns (`_mark_skipped`, `_arm`); `Reconfigure` is an
edit of the settings; `DayPasses` is time. `streak` and `bad` are history, what an
observer would have counted; the properties are stated on them and not on the
code's own counters. Abstracted: latency, detail, the transition rows, and time
below a day.

### CheckEngine

`status`, `nextRun`, `inFlight`, `since` are the columns; `overdue` says which
claims are older than `MONITORING_INFLIGHT_DEADLINE_SECONDS` (600 s); `firing` the
alerts; `excluded`, `skipListed`, `scheduled` the switches; `selected` and `won`
what a dispatcher has read and claimed; `run` each job or request with what it has
read; `arming`, `healing`, `closing`, `copy` what other readers hold. Each action
is one statement or one transaction:

| code | actions |
|---|---|
| `reap_stale_in_flight` | `Reap` |
| `dispatch`, `claim_states` | `Select`, `Claim`, `Enqueue` |
| job start, `_without_excluded`, `_partition_skipped` | `Start` |
| `_mark_skipped` | `MarkSkipped` |
| `_finalise` | `Guard`, then `Write` |
| `_heal_excluded`, `repark` | `Heal`, `ReparkRead`, `ReparkWrite` |
| `process_transitions` | `AlertRead`, `AlertOpen` |
| `check_now`, `_rollup_states` | `Ask`, `CheckNowLock`, `CheckNowWrite` |
| `bulk_check_now_view` | `BulkArmRead`, `BulkArmWrite` (then a dispatcher) |
| `set_excluded` | `Exclude`, `Include` |
| `IPAddress.save` of an older copy | `LoadCopy`, `SaveCopy` |
| `heal_orphans`, `_close_excluded` | `HealRead/Write`, `CloseRead/Write` |
| death of a worker, request or dispatcher | `RunDies`, `DispatcherDies` |

A shard of checks in one job is one run per check, "down" stands for every status
that alerts, `nextRun` is null, due or later. `Verdicts` is what `apply_outcome`
may return. A change from one status that alerts to another is no change here: the
alert stays open (`alerts.py:157`) and its severity is left out. A member of
`Profiles` is what operators do in a behaviour of an instance.

### CheckService

What `CheckEngine` promises of the checks together: `Take`, `Report`, `Lose`,
`Recover`. It has no code of its own; `taken` is what is in flight and in the hands
of a dispatcher, the queue or a worker, `lost` what is in flight and in nobody's.

### Materialise

One address. `walk[w]` is a call of `materialise_ip` between two statements:
load, resolve, create (and arm) each row, park, delete. The periodic pass and an
edit's own walk run beside each other. Inheritance, overrides and deny policies
are abstracted to `assigned` and `disabled`, with `Direct` naming the checks
assigned to the address itself: only those are materialised by the request that
edits them. A walk arms or parks the row it made, not the one that has its place
by then: a deleted row leaves every other walk's hands. The engine is one step,
`RunCheck`. `unarmed` is history: the rows left unscheduled by the end of a walk
that made them, or by a Check now (section 6); what arms, parks or deletes a row
takes it out.

### SchedulerBeat

`clock` counts ticks, `SlotOf` gives each task's slot at a tick (a constant
function; the run uses a task of every tick and one that is due twice a day and
not at all before the first time). A process is between passes, walking the
table, or in a command. `Claim`/`Pass` are `_claim` with a due or a claimed slot,
`GiveRedisUp` the exception path (after GETSET or before), `Restart` a kill; a
process that comes back finds Redis up, or down and remembers nothing.
`overtaken` is history: a pass began while an older one was on its way.

### FastLane

One check at a time is what matters; the lane is `up`, its heartbeat `fresh`, its
memory `entries`, `copies` and `dirty`, what a reload or a flush has in hand
`reading` and `flush`. The beat's jobs are `Dispatch`, `JobStep`, `JobDies`;
`Dispatch` has the filter of `scheduler.py` that leaves owned rows alone while the
heartbeat is fresh.

| code | actions |
|---|---|
| start, `reload` | `LaneStart`, `ReloadRead`, `ReloadWrite` (take over and hand back) |
| an entry dropped, a sample folded | `Forget`, `Fold` |
| `flush`, `_persist`, `_heal_excluded` | `FlushRead`, `FlushStep`, `FlushFails` |
| heartbeat key and its expiry | `Heartbeat`, `Lapse` |
| stop and death of the process | `LaneStop`, `LaneDies` |

### RemoteEngines

One row of each kind of engine: `pull` an Outpost asks for, `fast` an Outpost with
a lane of its own, `driver`. `owed` counts the answers on their way; they name
the check and not the claim, as in the protocol. `PullRead`/`PullClaim` are the
due query and `claim_states` (or the driver's unconditional update, `Wins`),
`Deliver`, `DeliverAgain`, `Lose` the network, `LoadSamples` the fast batch,
`Guard`, `Write`, `Heal` the write-back of `_finalise` and `_persist`, `Hello` and
`FastWork` the agent's start and set, `TickDies`, `IngestDies`, `Reap` what fails.
`held` is the agent's set; that `FastWork` stamps `fast_owned` on the rows it hands
over, one excluded meanwhile included (`outpost_views.py:388`), is not seen.

### Cadence and Schedules

`LatestOccurrence` and `NextOccurrence` compute from the fields of an instant as
`core/cadence.py` does; `Occurs` says what the words of a cadence mean, and
`OccurrencesRight` compares them. The calendar is a constant: `DaysBefore` lists
the day of the year each month begins with, and every month has the days a cadence
may name (`validate` stops at 28). Every year is alike, leap years are left out.
`Schedules` is the tick: `TickBegins` (the due test), `TickStep` (create, stamp,
enqueue and prune for a script; enqueue, then stamp, for a backup; inline when the
queue is down), `TickDies`; and a script's run: `RunStep`, `WorkerDies`,
`Cancel`. A disabled schedule is not visited, and not pruned (`run_scripts.py:21`).
`fired` is history, the occurrence last queued.

### Backups

`db` is what the tables say of archives and restores, `content` what each archive
holds of the same: restoring brings back rows as they were in the middle of a
dump. `BackupStep`, `Fails`, `WorkerDies`, `Reap` are a backup's job and its
reaper (`engine.py`); `Fire` a schedule, `DeleteLoad`/`DeleteFinish` a delete by
hand, `Request`/`RestoreStep`/`RestoreRaises`/`RestoreDies` a restore
(`restore.py`): safety backup, protection, flag, drop, load, write-back, scan.
`DeleteArchives` is the target's part of every delete and prune: it may refuse,
which is logged, and the row goes all the same (`engine.py:456-460`); `refused` is
history, the archives left so.
`Scan` is the adoption of archives no row names. `LockLapses` and `FlagLapses` are
the lock and the maintenance flag without their holder.

### UpgradeLock

`lock` is the file with its owner, phase and age, `status` the status file, `unit`
and `marker` what systemd and the stage's marker say, `bus` whether systemd
answers. `Acquire`/`Refused` judge an existing lock as `_lock_is_active` does, by
the process table, the unit, the ages and the status; `Step` goes through launch
to the recorded hand-over or the failure path; `CancelLooks`/`CancelClears` are
"Clear a stuck upgrade"; `UnitMarks`, `UnitEnds`, `UnitDies`, `Recover` the stage
as the lock sees it. A stage or a recovery may end `Over`, its marker gone, or in
`RestoreFailed`: then the marker stays and is `waiting` for a person, whose
`danbyte-admin upgrade recover` is `Retry`; until then the recovery unit comes and
goes without doing anything (`recover.sh:59-63`).

### UpgradeStage

`at` is the next step of the process at work (the stage, its signal handler, the
recovery unit, an administrator's `--retry`). `journal` holds the keys of the
journal, `live` and `kept` the directory swapped in and the one put aside,
`schema`, `newer`, `lost` the database and what users wrote after the snapshot,
`up`, `enabled`, `queued` the units, `ticking` the timers and the jobs they start,
`held` the maintenance flag, `report` the outcome. `StopAll` stops services and
timers, `StartTimers` starts the timers last; at a boot the services wait for the
recovery unit and the timers do not (`Reboots`). `ProcessStep` is one step of
`stage.sh`, of `lib.sh`'s rollback or of `recover.sh`; `Fails` a step that fails,
`Interrupted` a signal, `Dies`, `Reboots` the end of a process or of the boot,
`Recover`, `Retry`, `BootGoesOn`, `Starts` what comes after. The six `Scenes` are
the hosts and releases that differ in what is to be done: a directory that was
there before or not; no migrations, ones that can be undone from the snapshot,
ones that cannot. `cut` is history, the steps at which a process was cut short:
the properties name the windows in which they do not hold.

## 4. Runs

| run | instance | what it shows |
|---|---|---|
| `Hysteresis` | 4 policies an operator switches between, runs to 5, ages to 3 | a status is earned by the observed run; stale by failures or down time, and left only by recovery, degraded or skip |
| `CheckEngine_Claims` | 1 check, 2 dispatchers, 2 jobs, 3 stamps, bulk arm, skip and schedule switches, 1 crash | one holder per check, no claim replaced, `CheckService` implemented |
| `CheckEngine_Exclusion` | 1 check, 1 job, 1 request; either a stale save, skip and 1 overdue live claim, or Check now and bulk arm; 1 crash | parked for good, alerts closed for good, otherwise written back again and again; claim columns agree |
| `Materialise` | a direct and an inherited check assigned and disabled; each alone with all of it: edits, the switch, Check now and 1 crash | rows converge to the effective checks, run (but for those left unscheduled in the four ways of section 6), and are parked where excluded |
| `SchedulerBeat` | 2 processes, 2 tasks, 4 ticks, passes up to 2 ticks, 1 restart, 1 outage | nothing begun twice until a pass overtakes another; the current occurrence runs |
| `FastLane` | 1 check, 2 jobs, 3 stamps, 1 failure, heartbeats that lapse at any time | no job over what the lane wrote; probed by one of the two, or parked |
| `RemoteEngines` | a row of each kind of engine, 2 requests, 2 reports, 2 answers owed, 1 loss, 1 death | handed out once; answered again and again, or parked |
| `Schedules` | years of 3+2+4 days, weeks of 2, days of 2 hours of 2 minutes; one cadence of each frequency, nine minutes over the turn of a year; 1 crash, 1 outage | each occurrence queued once, runs end; every cadence right on every day of a cycle of weeks and years |
| `Backups` | 3 identifiers, 2 restores of 1 archive, 1 failure, death or refusal of the target, 1 delete | what was replaced can be restored, archives are known, everything ends |
| `UpgradeLock` | 3 processes, 2 deaths, 1 outage of systemd, cancels, restores that fail | one at a time, recovery first, the slot comes back unless a failed restore waits for a person |
| `UpgradeStage` | 6 scenes, 2 failures, kills, signals or reboots | one release when units run, nothing lost, true report, settles |
| `UpgradeStage_Twice` | violation, 1 mishap | a second recovery restores over what users wrote since |

### Bounds, and why they are enough

* One check and one address: rows do not interact except through the address (its
  switch and its lock) and through a shared worker, which only delays. A single
  address row already makes every race between a run and the switch. The same for
  one schedule, one remote row and one check of the lane.
* Two jobs and two dispatchers are enough to hold one check twice, which is what
  `OneHolder` forbids; three stamps let each have its own and leave one fresh.
* In `CheckEngine_Exclusion` a job that was overtaken by the reaper is still there
  when its check is claimed and listed again, but waits for its slot to be given
  out; a second *running* job is in `Claims`, in `FastLane` and in the theorems.
  Stamps are reused once no row and no run remembers them.
* One crash and one slow claim: each is at any point of any process; the recovery
  paths (reaper, healer, maintenance) do not depend on how many there were.
* One bulk Check now is between its read and its write at a time.
* Four ticks hold both occurrences of the daily task and a night between them;
  passes of two ticks allow one to overtake another.
* `Materialise`: the races are between two walks, or a walk and the switch, about
  one row; so the scene with both checks has edits only, and the scenes with one
  check have everything.
* `Hysteresis`: runs to 5 exceed every rise, fall and scan limit in use by one;
  ages to 3 exceed the largest day limit by one.
* `RemoteEngines`: two answers owed are the one that is late and the one of the
  next hand-out; two reports overlap.
* `Schedules`: months of three different lengths, a week whose length divides
  neither the months nor the year, a cycle of two years: every day of a week
  meets every day of a year. The clock of the tick crosses one year's end.
* `Backups`: the archive restored, the safety backup of the restore and a third
  one (a schedule's, or the second restore's); two restores for one that begins
  while another ended badly. A target's refusal counts with failures and deaths.
* `UpgradeLock`: an owner, the one who finds its lock, and a third who comes
  between them; two deaths for an owner and its unit.
* `UpgradeStage`: the second mishap hits the recovery of the first. Two are not
  enough for everything: a recovery that gives up beside units of a boot it could
  not stop, and a person's retry over what users wrote then, takes three
  (`NothingLost` names that window, `"booting"`). Beyond two there are the
  theorems, whose invariant does not count mishaps.

`CHECK_DEADLOCK FALSE` stands where the system may stop: when the identifiers of
`Backups` are used up, when every process of `UpgradeLock` is dead or done, and
when the upgrade of `UpgradeStage` is over.

### Fairness

* `Reap`, `Select`, `Claim`, `Enqueue`: the dispatch timer is `OnCalendar=*:0/1`.
  A dispatcher that starts goes on or dies, a death counts as `crashes`.
* A job's and a request's steps: RQ workers drain their queue, every probe has a
  timeout, so a run reaches its next statement.
* `HealRead/Write`, `CloseRead/Write`: the materialise and alert-maintenance
  timers.
* `BecomesDue`, and `BecomesOverdue` of a claim nobody holds: clock time.
* `Materialise`: the pass by its timer, walks and requests to their end.
* `SchedulerBeat`: every command ends and the process loops; time goes on.
* `FastLane`: the beat as above; the lane's loop takes flush, heartbeat and
  reload in turn, whose guards the other two switch off for a while (`SF` on
  `ReloadRead` and `FlushRead`); the heartbeat's key expires once the lane is down.
* `RemoteEngines`: the core's timers; the agent keeps asking and reporting, and
  what it owes arrives or is lost; a free slot for a fast batch comes again and
  again (`SF`).
* `Schedules`: the tick's timer, its steps, and workers that end what they have
  taken (by the job's timeout at the latest).
* `Backups`: jobs and restores go on to their end or fail, the reaper's timer, a
  delete request that has begun; the lock and the flag lapse by their ages.
* `UpgradeLock`: requests end, locks and status files grow old, a stage ends, the
  recovery timer (every 5 minutes) has its turn where no restore has failed,
  systemd answers again. `Retry` has no fairness.
* `UpgradeStage`: a process goes on, the recovery unit has its turn at boot and by
  its timer, queued units start.
* Nothing is assumed of operators: no switch needs to be thrown, no request made,
  no retry typed (`SlotComesBack` has the slot wait for one after a failed
  restore), and a stale save or a bulk write may never come.

Weak fairness unless said otherwise: each of these stays enabled until it is
taken, or somebody else has done the work.

## 5. Proofs

For every value of the constants that satisfies the modules' named assumptions.

**CheckEngineProofs.** `IInv` is the rows (`RowsOK`: types and `ClaimsAreStamped`,
needed as a type of the claim) with the rest (`RestOK`). One lemma per
actor says the step keeps it. Results: `TypeOK`, `ClaimsAreStamped` and
`LiveClaimKept` without any assumption on features, crashes or slowness. For
`OneHolder` the invariant `HInv` adds `NobodySwitches` (no address is excluded, no
copy would exclude one, so no run is parking) and `OverdueIsDropped` (a claim that
is overdue has no holder, so the reaper robs nobody); it is proved where no
profile has `"exclude"` and `MaxSlow = 0`. Neither can be dropped: with either, a
check is given out while its former job still works on it, and that is what the
write guard is for.

In the same module `CheckEngine` implements `CheckService`, under the same
assumptions and with no synchronous Check now (`Requests = {}`: its roll-up writes
a status that no claim was taken for). `taken` is what is in flight and held,
`lost` what is in flight and not held, `status` itself. One lemma per
action finds the abstract step: a claim takes, a write reports, a death loses, the
reaper recovers, the rest stutters (`FewerLoses` is what they share). Beside
`HInv` it needs `OneBatch`, that a dispatcher lists nothing while it still has
checks to queue, so that what it claims is all that it has.

Of `Hysteresis`, `VerdictInv == VerdictTypeOK /\ CountersMatch /\ AgeIsDownTime`.
The action properties speak of the history, the code decides on its counters, so the
invariant ties them: `state.fail` is the length of the run of failures and
`state.success` of successes (`CountersMatch`); while a check is down or stale its
age is no more than the days it has been so (`AgeIsDownTime`). The first two are the
theorem `VerdictTypeCorrect`: no counter outlives its run. From all three follow
`StatusIsEarned` (a status turns bad or good only after the run its policy asks
for) and `StaleIsEarned` (stale is chronic when it begins and ends by rising), for
any set of policies; the bounds play no part. `VerdictsAreApplied` joins the two
modules: the statuses `Verdicts` lets a run of the engine write over an older one
are those that `ApplyOutcome` gives for some counters, settings and outcome, none
more and none less.

**SchedulerBeatProofs.** `BInv` is the types. `OInv` says that as long as no pass
overtook another and Redis stayed up (`Calm`) the state is `Orderly`: the passes on
their way are of one tick, a claimed slot is of a tick that all of them have
reached, and what was begun is no later than what is claimed. With
`SlotsGrowAssumption` (slots grow with time: `slot` divides the timestamp, or
names a day and a time of a UTC clock, `settings.py:575`) a due slot is then
newer than all that was begun, hence `NeverTwice` for any number of replicas, any
table and any number of restarts. `SentOnceAlone`: one process alone never
overtakes, so the sentence that fails for replicas holds for one.

Of `Materialise`, the types. They say that a walk looks at, and keeps to arm or to
park, only rows of checks it resolved and that are still there, which is not
inductive: resolving again must not find rows left from before. `FreshWalks` says
that there are none until a walk has resolved.

**FastLaneProofs.** A job of the beat and the lane may both think a check theirs:
the heartbeat lies when the loop is held up. `LappedLostClaim` says that a job
whose row the lane has flushed since it started does not find its claim there
again: the flush drops it, and a later claim is a new stamp. With the write guard
that is `LaneOutranksJobs`. It says nothing of a job that found no claim when it
started, and that one may write (section 6).

**RemoteEnginesProofs.** `HeldIsClaimed`: a check that an Outpost has been handed
and has not answered is claimed, though a report that is being taken in may be
about another hand-out. `SamplesAreFast` is needed because samples write back the
claim they loaded. With the test of the locked row in `claim_states` this is
`HandedOutOnce`.

**SchedulesProofs.** First the calendar, for any lengths of the week and of the
months, with no hypothesis but `CalendarAssumption`: `CalendarRight` says that
`LatestOccurrence` and `NextOccurrence` are on the cadence, one not after now and
one after it, and nothing on the cadence is between. The fields of an instant and
the instant of its fields are inverse (`FieldsOfInstant`, `InstantOfFields`), by
quotients and remainders. An hourly, daily or weekly cadence occurs at the instants
of one remainder (`Periodic`, `PeriodAround`); for a monthly one, months are put in
order by year and month (`MonthsInOrder`), the month before and the month after
are neighbours in it, and every month has the day. `OccurrencesRight` follows at
each instant of the run. Two facts need induction over numbers, that a day falls
in one month and that the places a prune keeps can be put in order (`InOrder`);
both are proved from the least counterexample (`LeastNatural`).

Then the schedule, where `IInv == TypeOK /\ RunsInv /\ DueInv`. The bound on the
rows in `TypeOK` says that runs do not pile up, and is not inductive: a tick
prunes only at its end. `RunsInv` counts the places that are taken - runs that are
active or hold a job, and the run the tick is making - and says that a tick that
is about to create finds the rows within the retention, but for one that each dead
tick left. `DueInv` orders the occurrence queued, the stamp and the occurrence the
tick has in hand at each of its steps; a script's is stamped before it is queued
and a backup's after, so they differ, and so does what a death may do. From it
`QueuedOnce`: a script's occurrence is never queued twice whatever dies, a
backup's unless its tick dies.

**UpgradeLockProofs.** Who takes the slot judges a file, and the invariant says
what the file tells of its owner: whoever is at work has the lock in the phase of
its stage, and within its grace while it calls systemd-run (`LockFollows`); from
launch to outcome the status file has no outcome (`StatusWaits`), which is what
decides when systemd is silent; the unit runs under a launched lock whose owner is
done (`UnitHasSlot`); a marker stands alone (`MarkerAlone`), one that waits for a
person included. `FreeIsFree` turns the judgement into the fact, and `Exclusive`
and `RecoveryFirst` follow for any number of processes, deaths and outages. All of
it is under `~robbed`: a cancel that cleared somebody's lock ends the promise.

**BackupsProofs.** `Recoverable` needs the safety backup followed from its first
row, through the target and the drop, into a database that has never heard of it,
up to the scan. `Alone` makes that possible: one restore at a time is at work
(`LockHeld`), and while the schema is dropped nobody else writes a row, because
its sessions are cut (`WhileDropped`, `DropTears`). `Jobs` says what a job can
still do to an archive: identifiers are not given out again (`UsedOnce`), an
archive that can be read or was named is dumped no more (`JobsOver`), and what a
restore loads does not hold its own safety backup (`RestoreRefs`), so that no row
brought back prunes it. On these `SafetyKept` is inductive: from its success to
the scan the safety backup is on the target, is not what a delete has loaded, and
where a row names it the row is protected - or a delete had loaded it before
(`early`, section 6). `InventoryKept` needs the same facts, for an archive whose
row a restore took away: it is named by a row again, or was left by a target that
refused to delete it (`refused`), which the invariant carries through every delete
and prune. Any number of backups, restores, failures, deaths and deletes.

**UpgradeStageProofs.** `IInv == Consistent /\ Serving /\ Keeping`. Of a stage
that has met no mishap `Forward` tells what is written, moved, migrated and
stopped at each step; `Chain`, `Place` and `Seats` what any process may count on
at its step; `Guarded` that marker and recovery units outlive what needs them;
`Abandoned` that only a person goes on once `restore_failed` is written. The parts
`Venv`, `Tree`, `Dir` and `Base` are what makes a recovery right wherever the last
process ended: read with the journal, each says what is live and what is kept, so
that an undo that runs twice, or after half an undo, puts the same thing back;
`Done` is the end of the way back. With `Reports` they give `Truthful`. `Serving`
adds the units - no service runs or waits to start and no timer runs (`Halted`),
or files and database agree, but for the timers of a boot while its services wait
(`ServesOneRelease`) - and `Keeping` that what users wrote after the snapshot lies
under no restore still to come; both only for behaviours that were not cut short
in the windows the properties name. A step is first told apart by what it changes
(`Frames`, `Entries`, `Writers`, `GoesOn`), so that each part meets only the
actions that can disturb it. No conjunct of the invariant but the type of `count`
mentions `MaxMishaps`. The attempt found that two mishaps had hidden a way to lose
writes: a reboot in the middle of `migrate` queues the units, the recovery cannot
stop them and its reload fails, the queued web unit starts and users write, and a
retry restores over them. `NothingLost` now names that window, `"booting"`, and
`Truthful` no longer needs to except a second retry.

**Only model-checked.** All liveness (`EffectiveChecksRun`, `Settles` and the like):
the prover does not reach `ENABLED` and fairness. So of `OncePerOccurrence` only the
half `NeverTwice` is proved, and of `Materialise`, whose other properties are all
about what the rows come to, only the types.

## 6. Where the code disagrees with its words

Shown by a violation run (quoted in `PROJECT.json`):

* `scripts/upgrade/recover.sh:16` "Running this twice does no harm" - a rollback
  that dies after it has started the units again, and before its marker is gone,
  is begun again by the next recovery, which puts the snapshot back once more over
  what users wrote in between.

Seen while modelling, with these models or smaller ones, and not kept as runs.

Check engine and exclusion:

* `worker.py:350` "only the claim this job was handed may write back": the job
  takes `in_flight_since` from the row when it starts, so a job queued beyond the
  deadline adopts its successor's claim.
* `docs/features/monitoring.md:194` "Runs (or pauses) ...": the pause is for ever
  for a check that ran during it: `next_run` stays NULL (`worker.py:419`).
* `scheduler.py:366` "for exactly one dispatcher": `claim_states` tests
  `in_flight` on the locked row but not `next_run <= now` (line 389), so an old
  list runs a check again that has just been run and rescheduled.
* `state.py:16` "unknown ... leaves the counters and the current status
  untouched": the escalation at line 82 tests the new status and not the outcome,
  so an unknown (or a success short of rise, against `state.py:73`) on a check
  that is down long enough turns it stale. For the properties here this is
  harmless: stale is still earned by down time.
* `exclusion.py:249` "Re-arm checks left parked": a Check now on such a row
  replaces the status "skipped" the healer looks for. Together with a stale save,
  or a repark whose UPDATE comes after the address was included again, this leaves
  a row of an included address unscheduled.
* `alerts.py:4`: a worker that dies between the commit of the status and the
  alerts (`worker.py:508`) leaves the two apart for good.
* `scheduler.py:139`: a row deleted with a firing alert leaves the alert firing.

Materialisation and the beat:

* `scheduler.py:99` "New states are scheduled to run immediately": not those
  Check now made first (`runner.py:181`), or those whose "skipped" it overwrites
  before the healer comes; not one whose walk dies before it arms or parks it; and
  not one whose walk loaded the address excluded and comes to park it after the
  address was included: line 130 looks at the address as loaded, so the row is not
  armed, and `park_new` at the address as it is, so it is not parked either. Nothing
  schedules these rows later (`unarmed` in `EffectiveChecksRun`).
* `scheduler.py:100` "stale states ... are deleted": not once no assignment
  touches the address (`scheduler.py:57`, `viewsets.py:1557`).
* `run_scheduler.py:15` "running two replicas does not send it twice": it does
  when one is late in its pass (line 129).
* `core/schedule.py:45` "still runs each occurrence once": the slot is stored
  before the command runs, so a kill in between loses the occurrence.

Fast lane and remote engines:

* A beat's job that starts after the lane cleared its claim reads no claim, and
  the guard lets it write (`LaneOutranksJobs` is about jobs that read one). A
  flush that fails loses its results; a reload beside the switch can leave
  `fast_owned` on a parked row.
* The driver's claim is unconditional (`driver.py:68`): two ticks that overlap
  answer a row twice, and a row parked in between is claimed again until the
  write-back parks it; a tick that dies there leaves it.
* A report that comes after its claim was reaped and given out again is accepted
  (`worker.py:350`), a batch of samples sent again is folded twice
  (`fastlane.py:376`), and samples write back the claim columns they loaded.

Schedules:

* A death between making a script's run and the stamp leaves a queued run nobody
  takes, and a second run; a death between stamp and queue loses the occurrence.
* Cancelling a queued run changes the row only (`rq_job_id` is not set before it
  starts, `runner.py:352`): the worker runs it all the same and overwrites
  "canceled". A schedule that is created or enabled late fires at once. An
  exception in one schedule ends the tick for the rest.

Backups and restores:

* `docs/getting-started/backup-restore.md:230` "right there in the list": the
  backup made before a restore can be deleted between its success and its
  protection (`restore.py:319-322`); `Recoverable` names this window (`early`).
* A restored row of a restore that was running blocks further ones for ever
  (`api_views.py:62`). The restored tables list archives deleted since.
* `delete_backup` of an archive that was restored removes the file and then
  keeps the row (`engine.py:452`, `models.py:153`); retention meets it too.
* `delete_backup` logs a target that will not delete an archive and drops its row
  (`engine.py:456-460`): the archive lies there unnamed until the next scan adopts
  it again, a deleted backup that comes back (`refused` in `InventoryKept`).
* What is written between the safety dump and the drop is in neither.

Upgrade slot and stage:

* A cancel looks and clears in two steps, so it can take the slot from somebody
  who has just begun (`robbed` in the properties). Without a cancel, a lock whose
  unit's state can never be judged keeps the slot.
* A restore of the database that fails leaves the marker (`lib.sh:797`,
  `lib.sh:840`), and the recovery unit leaves it too (`recover.sh:59-63`): the slot
  is gone, for upgrades and for a cancel, until a person runs `danbyte-admin upgrade
  recover` and it succeeds. The message says so (`upgrade.py:1026`).
* `lib.sh:536` "before any app unit or timer starts at boot": not the timers. The
  recovery unit is `Before=` the services and `timers.target`, which orders it
  against the target and no `danbyte-*.timer`; these are `Persistent`, so after a
  reboot in the middle of a swap a job of theirs can run on half-swapped files until
  the recovery stops them.
* A stop between the journal lines `moving` and `had` (`lib.sh:605-607`) makes the
  rollback delete the old directory; a reboot between `restore_failed` and the
  disabling of units (`lib.sh:832`) brings them up on it, and a later `--retry`
  restores over what they wrote; a recovery unit killed at boot lets the queued
  units start; `--retry` stops no units. A death before the recovery units are
  armed, or after they are removed, is left to a person. The report says "database
  unchanged" though bootstrap's seeds stay when nothing was pending.

## 7. What is not modelled

Within the modelled components: probes and their results, latency, alert rules,
severities and escalation timing, tenants (rows of different tenants never meet),
the shard layout of jobs, the progress keys of a bulk check, permissions, the
health sweep over engines; what the lane folds (windows of samples) and its
statistics; what Zabbix answers; authentication and updates of Outposts; time
zones and daylight saving; the sandbox and log of a script; the media trees of a
restore (`swap_tree`, `restore.py:214-220`: a death between its renames leaves no
live tree and nothing renames it back), configuration files, uploads and archive
formats, and taking a backup's protection off by hand (`api_views.py:219`); a script
that is switched off as a whole; a scheduler whose first start finds no Redis (a
restart may); the choice of an upgrade's target, downloads, health probes, unit links
and `legacy-resume.sh`.

What the models of upgrades assume: the marker check and the lock are one step; a
launch answers (15 s) before its grace ends (120 s), and no unit starts later; a
kill takes the whole control group; the maintenance flag does not lapse (900 s)
within a restart, and clearing it and the renames of a rollback do not fail; units
a rollback restarts do start; one upgrade per behaviour.

Whole components: `Flapping` is one count and one conditional save, with one race
(listed as a hazard). Planned changes are staged edits applied by the inventory's
own serializers: the content is the inventory's. SLA and rollups are SQL
aggregation; inventory, its forms and its API are CRUD over some hundred record
types, which is most of the repository's code and has no order to get wrong that
a database transaction does not settle; discovery, SNMP, topology, ACME,
integrations and notifications talk to outside systems; audit, permissions,
search, compliance and presence are records and queries; the web client is
presentation. Each is listed in `PROJECT.json` with its reason.
