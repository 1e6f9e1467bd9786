----------------------------- MODULE UpgradeLock -----------------------------
(***************************************************************************)
(* The one slot that upgrades and restores share.  A lock file names the   *)
(* process that took it and how far it has come; an upgrade goes on in a   *)
(* systemd unit after the process that launched it has answered, or died,  *)
(* so the file outlives its owner, and who comes next has to judge from    *)
(* the file, the process table and systemd whether the slot is free        *)
(* (core/upgrade.py).                                                      *)
(*                                                                         *)
(* Reads and writes of the file are made under an flock, one at a time.    *)
(* The stage script that the unit runs, its journal and its recovery are   *)
(* modelled by what the lock sees of them.                                 *)
(***************************************************************************)
EXTENDS Naturals

CONSTANTS
    Procs,          \* web workers, the auto-upgrade timer, restore jobs
    None,           \* no lock file
    MaxDeaths,      \* bound on processes and units that die
    MaxOutages      \* bound on the times systemd does not answer

ASSUME BoundsAssumption == MaxDeaths \in Nat /\ MaxOutages \in Nat

VARIABLES
    stage,      \* each process: where it is in its request
    alive,      \* the processes that exist
    lock,       \* the lock file
    status,     \* what the status file says
    unit,       \* danbyte-upgrade.service runs
    marker,     \* a stage has begun and neither ended nor been recovered
    waiting,    \* ... because its database could not be restored: for a person
    bus,        \* systemd answers
    cancel,     \* "Clear a stuck upgrade": has it looked and not yet cleared?
    robbed,     \* history: a cancel has taken the lock from somebody at work
    deaths, outages

external == <<unit, marker, waiting, bus>>
bounds == <<deaths, outages>>
vars == <<stage, alive, lock, status, external, cancel, robbed, bounds>>

Stage == {"idle", "restoring", "preparing", "launching", "recorded", "failing", "done"}
Phase == {"preparing", "launching", "launched"}
Lock == [owner : Procs, phase : Phase, old : BOOLEAN]
Status == {"idle", "unlaunched", "running", "done", "failed", "longFailed"}

ASSUME NoneAssumption == None \notin Lock

\* It is in possession of the slot.
Working == {p \in Procs : stage[p] \in {"restoring", "preparing", "launching", "recorded"}}

Owns(p) == lock # None /\ lock.owner = p

To(p, s) == stage' = [stage EXCEPT ![p] = s]

-----------------------------------------------------------------------------
(* Is the slot taken?                                                      *)

\* A process keeps its slot while it is there; what it has launched, while the
\* unit runs.  If systemd does not say, the status file decides.  A grace
\* protects both for a while.
LockActive(l) ==
    IF l.phase # "launched" THEN l.owner \in alive \/ ~l.old
    ELSE IF bus THEN unit \/ ~l.old
    ELSE status \notin {"done", "failed", "longFailed"} \/ ~l.old

\* With no lock file: what systemd and the status file say.  A process of an
\* older release may be behind a status of "running".
LegacyRunning ==
    \/ bus /\ unit
    \/ status = "running"
    \/ status = "failed"
    \/ status = "longFailed" /\ ~bus

\* Mutant: a stage that was interrupted is nobody's business.
SlotFreeUnrecovered ==
    IF lock = None THEN ~LegacyRunning ELSE ~LockActive(lock)

SlotFree ==
    /\ ~marker
    /\ IF lock = None THEN ~LegacyRunning ELSE ~LockActive(lock)

-----------------------------------------------------------------------------
(* The processes.                                                          *)

\* _acquire_upgrade_lock, for a restore or for an upgrade.  A lock that is not
\* active is replaced.
Acquire(p, work) ==
    /\ stage[p] = "idle" /\ p \in alive
    /\ SlotFree
    /\ lock' = [owner |-> p, phase |-> "preparing", old |-> FALSE]
    /\ To(p, work)
    /\ UNCHANGED <<alive, status, external, cancel, robbed, bounds>>

Refused(p) ==
    /\ stage[p] = "idle" /\ p \in alive /\ ~SlotFree
    /\ To(p, "done")
    /\ UNCHANGED <<alive, lock, status, external, cancel, robbed, bounds>>

\* Mutant: whoever fails removes the lock that is there.
ReleasedAny(p) == None

\* The lock, once p has released it if it is its own.
Released(p) == IF Owns(p) THEN None ELSE lock

\* The restore is over.
RestoreEnds(p) ==
    /\ stage[p] = "restoring"
    /\ lock' = Released(p)
    /\ To(p, "done")
    /\ UNCHANGED <<alive, status, external, cancel, robbed, bounds>>

\* Enter a phase, which is for the owner to do: anyone else fails.
Enter(p, phase, s) ==
    IF Owns(p)
    THEN lock' = [owner |-> p, phase |-> phase, old |-> FALSE] /\ To(p, s)
    ELSE UNCHANGED lock /\ To(p, "failing")

\* _write_start_status.
WriteStartStatus(p) ==
    /\ stage[p] = "preparing"
    /\ Enter(p, "launching", "launching")
    /\ status' = IF Owns(p) THEN "running" ELSE status
    /\ UNCHANGED <<alive, external, cancel, robbed, bounds>>

\* The bundle could not be downloaded or stored.
DownloadFails(p) ==
    /\ stage[p] \in {"preparing", "launching"}
    /\ To(p, "failing")
    /\ UNCHANGED <<alive, lock, status, external, cancel, robbed, bounds>>

\* Mutant: the launch is recorded once it has succeeded.
RecordNothing(p) == To(p, "recorded") /\ UNCHANGED lock

\* The launch is recorded before it is made.
Record(p) == Enter(p, "launched", "recorded")

RecordLaunch(p) ==
    /\ stage[p] = "launching"
    /\ Record(p)
    /\ UNCHANGED <<alive, status, external, cancel, robbed, bounds>>

\* systemd-run is called, and takes the unit, or does not; there is one of that
\* name.  The caller keeps the lock if the unit runs or nobody knows, and gives
\* up if it knows that there is none.
Launch(p) ==
    /\ stage[p] = "recorded"
    /\ \E takes \in BOOLEAN :
          /\ unit' = (unit \/ takes)
          /\ To(p, IF unit' \/ ~bus THEN "done" ELSE "failing")
    /\ UNCHANGED <<alive, lock, status, marker, waiting, bus, cancel, robbed, bounds>>

\* _record_launch_failure, and the lock is released.
GiveUp(p) ==
    /\ stage[p] = "failing"
    /\ status' = "unlaunched"
    /\ lock' = Released(p)
    /\ To(p, "done")
    /\ UNCHANGED <<alive, external, cancel, robbed, bounds>>

\* A process dies; systemd may still get the call it was making.  Web workers go
\* on to exist when their request is answered, and die too.
Dies(p) ==
    /\ p \in alive /\ deaths < MaxDeaths /\ deaths' = deaths + 1
    /\ alive' = alive \ {p}
    /\ To(p, "done")
    /\ \E takes \in BOOLEAN : unit' = (unit \/ (takes /\ stage[p] = "recorded"))
    /\ UNCHANGED <<lock, status, marker, waiting, bus, cancel, robbed, outages>>

\* The grace of the lock's phase is over; it is longer than a call of systemd-run
\* may last.
GrowsOld ==
    /\ lock # None /\ ~lock.old
    /\ ~(lock.owner \in alive /\ stage[lock.owner] = "recorded")
    /\ lock' = [lock EXCEPT !.old = TRUE]
    /\ UNCHANGED <<stage, alive, status, external, cancel, robbed, bounds>>

\* A failure is six hours old.
StatusGrowsOld ==
    /\ status = "failed" /\ status' = "longFailed"
    /\ UNCHANGED <<stage, alive, lock, external, cancel, robbed, bounds>>

-----------------------------------------------------------------------------
(* The unit and systemd.                                                   *)

\* The stage keeps a journal from before its first change on; its marker replaces
\* one that is there.
UnitMarks ==
    /\ unit /\ (marker => waiting)
    /\ marker' = TRUE /\ waiting' = FALSE
    /\ UNCHANGED <<stage, alive, lock, status, unit, bus, cancel, robbed, bounds>>

\* The upgrade is over: done, or rolled back, and its marker is gone.
Over ==
    /\ marker' = FALSE /\ waiting' = FALSE
    /\ status' \in {"done", "failed"}

\* restore_failed: the database could not be restored, and the marker stays.
RestoreFailed ==
    /\ marker /\ UNCHANGED marker /\ waiting' = TRUE
    /\ status' = "failed"

\* A stage that ends before its own marker is there leaves one that waits.
UnitEnds ==
    /\ unit /\ unit' = FALSE
    /\ \/ ~waiting /\ (Over \/ RestoreFailed)
       \/ waiting /\ UNCHANGED <<marker, waiting>> /\ status' = "failed"
    /\ UNCHANGED <<stage, alive, lock, bus, cancel, robbed, bounds>>

UnitDies ==
    /\ unit /\ unit' = FALSE
    /\ deaths < MaxDeaths /\ deaths' = deaths + 1
    /\ UNCHANGED <<stage, alive, lock, status, marker, waiting, bus, cancel, robbed, outages>>

\* The recovery unit, or a person: it does not begin where a restore has failed,
\* and may come to fail at one itself.
Recover ==
    /\ marker /\ ~waiting /\ ~unit
    /\ Over \/ RestoreFailed
    /\ UNCHANGED <<stage, alive, lock, unit, bus, cancel, robbed, bounds>>

\* danbyte-admin upgrade recover: the restore is tried again.  If it fails again
\* nothing changes.
Retry ==
    /\ waiting /\ ~unit
    /\ marker' = FALSE /\ waiting' = FALSE /\ status' = "failed"
    /\ UNCHANGED <<stage, alive, lock, unit, bus, cancel, robbed, bounds>>

BusGoes ==
    /\ bus /\ outages < MaxOutages /\ outages' = outages + 1
    /\ bus' = FALSE
    /\ UNCHANGED <<stage, alive, lock, status, unit, marker, waiting, cancel, robbed, deaths>>

BusComes ==
    /\ ~bus /\ bus' = TRUE
    /\ UNCHANGED <<stage, alive, lock, status, unit, marker, waiting, cancel, robbed, bounds>>

-----------------------------------------------------------------------------
(* "Clear a stuck upgrade".                                                *)

\* Mutant: what may be there is taken to be.
ProcessAliveUnknown ==
    IF lock = None THEN LegacyRunning ELSE LockActive(lock)

\* _upgrade_process_alive: somebody is positively there.
ProcessAlive ==
    lock # None /\ (lock.owner \in alive \/ (lock.phase = "launched" /\ bus /\ unit))

Cancellable == ~marker /\ ~ProcessAlive

CancelLooks ==
    /\ ~cancel /\ Cancellable
    /\ cancel' = TRUE
    /\ UNCHANGED <<stage, alive, lock, status, external, robbed, bounds>>

\* The lock goes, whoever has it by now, and the status file.
CancelClears ==
    /\ cancel /\ cancel' = FALSE
    /\ lock' = None /\ status' = "idle"
    /\ robbed' = (robbed \/ Working # {} \/ unit)
    /\ UNCHANGED <<stage, alive, external, bounds>>

-----------------------------------------------------------------------------

Init ==
    /\ stage = [p \in Procs |-> "idle"] /\ alive = Procs
    /\ lock = None /\ status = "idle"
    /\ unit = FALSE /\ marker = FALSE /\ waiting = FALSE /\ bus = TRUE
    /\ cancel = FALSE /\ robbed = FALSE
    /\ deaths = 0 /\ outages = 0

Step(p) ==
    \/ RestoreEnds(p) \/ WriteStartStatus(p) \/ DownloadFails(p)
    \/ RecordLaunch(p) \/ Launch(p) \/ GiveUp(p)

Next ==
    \/ \E p \in Procs : \/ \E work \in {"restoring", "preparing"} : Acquire(p, work)
                        \/ Refused(p) \/ Step(p) \/ Dies(p)
    \/ GrowsOld \/ StatusGrowsOld
    \/ UnitMarks \/ UnitEnds \/ UnitDies \/ Recover \/ Retry \/ BusGoes \/ BusComes
    \/ CancelLooks \/ CancelClears

Spec == Init /\ [][Next]_vars

\* Requests and jobs come to an end, time passes, a stage ends, what it leaves
\* is recovered (a timer of five minutes) unless a restore has failed, and systemd
\* answers again.  Nobody has to retry.
Fairness ==
    /\ \A p \in Procs : WF_vars(Step(p))
    /\ WF_vars(GrowsOld) /\ WF_vars(StatusGrowsOld)
    /\ WF_vars(UnitEnds) /\ WF_vars(Recover) /\ WF_vars(BusComes)

FairSpec == Spec /\ Fairness

-----------------------------------------------------------------------------

\* Types; the dead take no step; and who is at work has the lock, unless a cancel
\* took it.
TypeOK ==
    /\ stage \in [Procs -> Stage] /\ alive \subseteq Procs
    /\ \A p \in Procs \ alive : stage[p] = "done"
    /\ lock \in Lock \union {None} /\ status \in Status
    /\ unit \in BOOLEAN /\ marker \in BOOLEAN /\ bus \in BOOLEAN
    /\ waiting \in {FALSE, marker}
    /\ cancel \in BOOLEAN /\ robbed \in BOOLEAN
    /\ deaths \in Nat /\ outages \in Nat
    /\ ~robbed => \A p \in Working : Owns(p)

\* Two upgrades, or an upgrade and a restore, are never at work at once, through
\* deaths, hand-overs to the unit and silence of systemd, unless an operator's
\* cancel has taken the slot from somebody (upgrade.py:311: a lock is replaced
\* that was found not to be active).
Exclusive ==
    ~robbed => /\ \A p, q \in Working : p = q
               /\ unit => Working = {}

\* Nobody begins before an interrupted stage is recovered: "until it is gone
\* nothing may start an upgrade" (upgrade.py:370).
RecoveryFirst == ~robbed /\ marker => Working = {}

\* Whatever dies, the slot is there again for the next, or for an operator who
\* clears it, again and again - or there came a restore of the database that failed
\* and that nobody has made good since: then neither an upgrade nor a cancel gets by
\* the marker, and only `danbyte-admin upgrade recover` does (upgrade.py:1026).
SlotComesBack == []<>(SlotFree \/ Cancellable) \/ <>[]waiting
=============================================================================
