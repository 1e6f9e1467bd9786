--------------------------- MODULE UpgradeLockProofs ---------------------------
(***************************************************************************)
(* One upgrade or restore at a time, for any number of processes, deaths   *)
(* and outages of systemd.                                                 *)
(*                                                                         *)
(* Who finds the slot free has judged a file and not its owner.  That the  *)
(* judgement is right rests on what the file says at each stage: the phase *)
(* of the lock follows its owner, a recorded launch is within its grace    *)
(* while it is made, and the unit runs under a lock that is launched, with *)
(* a status that is not an outcome.                                        *)
(***************************************************************************)
EXTENDS UpgradeLock, TLAPS

\* The phase the file shows while its owner is at a stage.
PhaseOf(s) ==
    CASE s \in {"restoring", "preparing"} -> "preparing"
      [] s = "launching" -> "launching"
      [] OTHER -> "launched"

\* Who is at work has its phase in the file, and has not outstayed its grace
\* when it calls systemd-run.
LockFollows ==
    \A p \in Working :
        /\ Owns(p)
        /\ lock.phase = PhaseOf(stage[p])
        /\ stage[p] = "recorded" => ~lock.old

\* Until its unit has an outcome, a launch has none.
StatusWaits ==
    \A p \in Procs :
        stage[p] \in {"launching", "recorded"} => status \in {"running", "unlaunched"}

\* The unit has the slot from the process that launched it.
UnitHasSlot ==
    unit => /\ Working = {}
            /\ lock # None /\ lock.phase = "launched" /\ stage[lock.owner] = "done"
            /\ status \notin {"done", "failed", "longFailed"}

MarkerAlone == marker => Working = {}

\* Types, without what TypeOK says of the lock's owner.
Types ==
    /\ stage \in [Procs -> Stage] /\ alive \subseteq Procs
    /\ \A p \in Procs \ alive : stage[p] = "done"
    /\ lock \in Lock \union {None} /\ status \in Status
    /\ unit \in BOOLEAN /\ marker \in BOOLEAN /\ bus \in BOOLEAN
    /\ waiting \in {FALSE, marker}
    /\ cancel \in BOOLEAN /\ robbed \in BOOLEAN
    /\ deaths \in Nat /\ outages \in Nat

Slot == LockFollows /\ StatusWaits /\ UnitHasSlot /\ MarkerAlone

IInv == Types /\ (~robbed => Slot)

-----------------------------------------------------------------------------

\* The invariant implies what the runs check.
LEMMA InvImplies == IInv => TypeOK /\ Exclusive /\ RecoveryFirst
BY DEF IInv, Types, Slot, LockFollows, UnitHasSlot, MarkerAlone, TypeOK, Exclusive,
       RecoveryFirst, Owns

LEMMA InitInv == Init => IInv
<1> SUFFICES ASSUME Init PROVE IInv
  OBVIOUS
<1>1. Working = {}
  BY DEF Init, Working
<1>2. Types
  BY DEF Init, Types, Stage, Status
<1>3. Slot
  BY <1>1 DEF Init, Slot, LockFollows, StatusWaits, UnitHasSlot, MarkerAlone
<1> QED
  BY <1>2, <1>3 DEF IInv

\* Entering a phase leaves a lock, or what was there.
LEMMA EnterTypes ==
    ASSUME NEW p \in Procs, NEW phase \in Phase, NEW s, Enter(p, phase, s),
           lock \in Lock \union {None}
    PROVE  lock' \in Lock \union {None}
<1>1. [owner |-> p, phase |-> phase, old |-> FALSE] \in Lock
  BY DEF Lock
<1>2. lock' \in {lock, [owner |-> p, phase |-> phase, old |-> FALSE]}
  BY DEF Enter
<1> QED
  BY <1>1, <1>2

\* The owner enters its phase.
LEMMA OwnerEnters ==
    ASSUME NEW p \in Procs, NEW phase \in Phase, NEW s, Enter(p, phase, s),
           Owns(p), stage \in [Procs -> Stage]
    PROVE  /\ lock' = [owner |-> p, phase |-> phase, old |-> FALSE] /\ lock' \in Lock
           /\ stage'[p] = s
<1>1. [owner |-> p, phase |-> phase, old |-> FALSE] \in Lock
  BY DEF Lock
<1> QED
  BY <1>1 DEF Enter, To

\* Types are kept by every step.
LEMMA StepTypes == Types /\ [Next]_vars => Types'
<1> SUFFICES ASSUME Types, [Next]_vars PROVE Types'
  OBVIOUS
<1> USE DEF Types
<1>1. ASSUME NEW p \in Procs, NEW work \in {"restoring", "preparing"}, Acquire(p, work)
      PROVE  Types'
  BY <1>1 DEF Acquire, To, Stage, Lock, Phase, external, bounds
<1>2. ASSUME NEW p \in Procs, Refused(p) PROVE Types'
  BY <1>2 DEF Refused, To, Stage, external, bounds
<1>3. ASSUME NEW p \in Procs, Step(p) PROVE Types'
  <2>1. CASE RestoreEnds(p)
    BY <2>1 DEF RestoreEnds, Released, To, Stage, external, bounds
  <2>2. CASE WriteStartStatus(p)
    <3>1. p \in alive /\ stage' \in [Procs -> Stage] /\ stage'[p] # "restoring"
      BY <2>2 DEF WriteStartStatus, Enter, To, Stage
    <3>2. \A q \in Procs \ alive : stage'[q] = "done"
      BY <2>2, <3>1 DEF WriteStartStatus, Enter, To
    <3>3. lock' \in Lock \union {None} /\ status' \in Status
      BY <2>2, EnterTypes DEF WriteStartStatus, Status, Phase
    <3> QED
      BY <2>2, <3>1, <3>2, <3>3 DEF WriteStartStatus, external, bounds
  <2>3. CASE DownloadFails(p)
    BY <2>3 DEF DownloadFails, To, Stage, external, bounds
  <2>4. CASE RecordLaunch(p)
    <3>1. p \in alive /\ stage' \in [Procs -> Stage] /\ stage'[p] # "restoring"
      BY <2>4 DEF RecordLaunch, Record, Enter, To, Stage
    <3>2. \A q \in Procs \ alive : stage'[q] = "done"
      BY <2>4, <3>1 DEF RecordLaunch, Record, Enter, To
    <3>3. lock' \in Lock \union {None}
      BY <2>4, EnterTypes DEF RecordLaunch, Record, Phase
    <3> QED
      BY <2>4, <3>1, <3>2, <3>3 DEF RecordLaunch, external, bounds
  <2>5. CASE Launch(p)
    BY <2>5 DEF Launch, To, Stage, bounds
  <2>6. CASE GiveUp(p)
    BY <2>6 DEF GiveUp, Released, To, Stage, Status, external, bounds
  <2> QED
    BY <1>3, <2>1, <2>2, <2>3, <2>4, <2>5, <2>6 DEF Step
<1>4. ASSUME NEW p \in Procs, Dies(p) PROVE Types'
  <2>1. unit' \in BOOLEAN
    BY <1>4, Zenon DEF Dies
  <2>2. /\ stage' \in [Procs -> Stage] /\ alive' \subseteq Procs
        /\ \A q \in Procs \ alive' : stage'[q] = "done"
        /\ deaths' \in Nat
    BY <1>4 DEF Dies, To, Stage
  <2>3. UNCHANGED <<lock, status, marker, waiting, bus, cancel, robbed, outages>>
    BY <1>4 DEF Dies
  <2> QED
    BY <2>1, <2>2, <2>3
<1>5. CASE GrowsOld \/ StatusGrowsOld
  <2>1. CASE GrowsOld
    BY <2>1 DEF GrowsOld, Lock, external, bounds
  <2>2. CASE StatusGrowsOld
    BY <2>2 DEF StatusGrowsOld, Status, external, bounds
  <2> QED
    BY <1>5, <2>1, <2>2
<1>6. CASE UnitMarks \/ UnitEnds \/ UnitDies \/ Recover \/ Retry
  <2>1. UNCHANGED <<stage, alive, lock, bus, cancel, robbed>>
    BY <1>6 DEF UnitMarks, UnitEnds, UnitDies, Recover, Retry
  <2>2. unit' \in BOOLEAN /\ marker' \in BOOLEAN /\ status' \in Status
    BY <1>6 DEF UnitMarks, UnitEnds, UnitDies, Recover, Retry, Over, RestoreFailed, Status
  <2>3. deaths' \in Nat /\ outages' \in Nat
    BY <1>6 DEF UnitMarks, UnitEnds, UnitDies, Recover, Retry, bounds
  <2>4. waiting' \in {FALSE, marker'}
    BY <1>6 DEF UnitMarks, UnitEnds, UnitDies, Recover, Retry, Over, RestoreFailed
  <2> QED
    BY <2>1, <2>2, <2>3, <2>4
<1>7. CASE BusGoes \/ BusComes
  <2>1. UNCHANGED <<stage, alive, lock, status, unit, marker, waiting, cancel, robbed>>
    BY <1>7 DEF BusGoes, BusComes
  <2>2. bus' \in BOOLEAN
    BY <1>7 DEF BusGoes, BusComes
  <2>3. deaths' \in Nat /\ outages' \in Nat
    BY <1>7 DEF BusGoes, BusComes, bounds
  <2> QED
    BY <2>1, <2>2, <2>3
<1>8. CASE CancelLooks \/ CancelClears
  BY <1>8 DEF CancelLooks, CancelClears, Status, external, bounds
<1>9. CASE UNCHANGED vars
  BY <1>9 DEF vars, external, bounds
<1> QED
  BY <1>1, <1>2, <1>3, <1>4, <1>5, <1>6, <1>7, <1>8, <1>9 DEF Next
-----------------------------------------------------------------------------

\* At work is one process, which has the lock and lives.
LEMMA OneWorks ==
    ASSUME Types, LockFollows
    PROVE  /\ \A p, q \in Working : p = q
           /\ Working \subseteq alive
BY DEF Types, LockFollows, Owns, Working

\* The slot is judged free only when nobody is at work and no unit runs.
LEMMA FreeIsFree ==
    ASSUME Types, Slot, SlotFree
    PROVE  Working = {} /\ ~unit /\ ~marker
<1>1. ~marker /\ IF lock = None THEN ~LegacyRunning ELSE ~LockActive(lock)
  BY DEF SlotFree
<1>2. ~unit
  BY <1>1 DEF Types, Slot, UnitHasSlot, LockActive
<1>3. ASSUME NEW p \in Working PROVE FALSE
  <2>1. lock # None /\ lock.owner = p /\ p \in alive
    BY <1>3, OneWorks DEF Slot, LockFollows, Owns
  <2>2. lock.phase = "launched" /\ lock.old
    BY <1>1, <2>1 DEF LockActive, Types
  <2>3. stage[p] = "recorded"
    BY <1>3, <2>2 DEF Slot, LockFollows, PhaseOf, Working
  <2> QED
    BY <1>3, <2>2, <2>3 DEF Slot, LockFollows
<1> QED
  BY <1>1, <1>2, <1>3

\* While no cancel robs anybody, every step keeps the slot: a process at work
\* moves alone, and what systemd does is done while nobody is at work.
LEMMA StepSlot == IInv /\ [Next]_vars /\ ~robbed' => Slot'
<1> SUFFICES ASSUME IInv, [Next]_vars, ~robbed' PROVE Slot'
  OBVIOUS
<1>a. Types /\ Types'
  BY StepTypes DEF IInv
<1>b. ~robbed
  BY DEF Next, Acquire, Refused, Step, RestoreEnds, WriteStartStatus, DownloadFails,
         RecordLaunch, Launch, GiveUp, Dies, GrowsOld, StatusGrowsOld, UnitMarks, UnitEnds,
         UnitDies, Recover, Retry, BusGoes, BusComes, CancelLooks, CancelClears, vars
<1>c. Slot
  BY <1>b DEF IInv
<1>d. /\ \A p, q \in Working : p = q
      /\ Working \subseteq alive
  BY <1>a, <1>c, OneWorks DEF Slot
<1>1. ASSUME NEW p \in Procs, NEW work \in {"restoring", "preparing"}, Acquire(p, work)
      PROVE  Slot'
  <2>1. Working = {} /\ ~unit /\ ~marker
    BY <1>1, <1>a, <1>c, FreeIsFree DEF Acquire
  <2>2. lock' \in Lock /\ lock'.owner = p /\ lock'.phase = "preparing"
    BY <1>1 DEF Acquire, Lock, Phase
  <2>3. \A q \in Working' : q = p
    BY <1>1, <2>1, <1>a DEF Acquire, To, Working, Types
  <2>4. stage'[p] = work
    BY <1>1, <1>a DEF Acquire, To, Types
  <2>5. LockFollows'
    BY <2>2, <2>3, <2>4, NoneAssumption DEF LockFollows, Owns, PhaseOf
  <2>6. StatusWaits'
    BY <2>3, <2>4 DEF StatusWaits, Working
  <2> QED
    BY <1>1, <2>1, <2>5, <2>6 DEF Acquire, external, Slot, UnitHasSlot, MarkerAlone
<1>2. ASSUME NEW p \in Procs, Refused(p) PROVE Slot'
  <2>1. Working' = Working /\ \A q \in Procs : q # p => stage'[q] = stage[q]
    BY <1>2, <1>a DEF Refused, To, Working, Types
  <2>2. \A q \in Working : q # p
    BY <1>2 DEF Refused, Working
  <2>3. stage'[p] = "done" /\ UNCHANGED <<lock, status, unit, marker>>
    BY <1>2, <1>a DEF Refused, To, Types, external
  <2> QED
    BY <1>c, <1>a, <2>1, <2>2, <2>3 DEF Slot, LockFollows, StatusWaits, UnitHasSlot,
       MarkerAlone, Owns, PhaseOf, Types, Lock, Working
<1>3. ASSUME NEW p \in Procs, Step(p) PROVE Slot'
  <2>a. CASE stage[p] = "failing"
    <3>1. GiveUp(p)
      BY <1>3, <2>a DEF Step, RestoreEnds, WriteStartStatus, DownloadFails, RecordLaunch,
         Launch, GiveUp
    <3>2. Working' = Working /\ p \notin Working
      BY <3>1, <1>a DEF GiveUp, To, Working, Types
    <3>3. \A q \in Procs : q # p => stage'[q] = stage[q]
      BY <3>1, <1>a DEF GiveUp, To, Types
    <3>4. Working # {} \/ unit => UNCHANGED lock
      BY <3>1, <3>2, <2>a, <1>c DEF GiveUp, Released, Owns, Slot, LockFollows, UnitHasSlot
    <3>5. stage'[p] = "done" /\ status' = "unlaunched" /\ UNCHANGED <<unit, marker>>
      BY <3>1, <1>a DEF GiveUp, To, Types, external
    <3>6. LockFollows'
      BY <3>2, <3>3, <3>4, <1>c DEF Slot, LockFollows, Owns, PhaseOf, Working
    <3>7. UnitHasSlot'
      BY <3>2, <3>3, <3>4, <3>5, <1>c, <1>a DEF Slot, UnitHasSlot, Types, Lock
    <3> QED
      BY <3>2, <3>5, <3>6, <3>7, <1>c DEF Slot, StatusWaits, MarkerAlone
  <2>b. CASE stage[p] # "failing"
    <3>1. p \in Working
      BY <1>3, <2>b DEF Step, RestoreEnds, WriteStartStatus, DownloadFails, RecordLaunch,
         Launch, GiveUp, Working
    <3>2. /\ Working = {p} /\ Owns(p) /\ ~unit /\ ~marker
          /\ lock \in Lock /\ lock # None
      BY <3>1, <1>a, <1>c, <1>d DEF Slot, LockFollows, UnitHasSlot, MarkerAlone, Owns, Types
    <3>3. Working' \subseteq {p}
      BY <1>3, <1>a, <3>2 DEF Step, RestoreEnds, WriteStartStatus, DownloadFails,
         RecordLaunch, Record, Launch, GiveUp, Enter, To, Working, Types
    <3>4. CASE RestoreEnds(p) \/ DownloadFails(p)
      <4>1. Working' = {} /\ UNCHANGED <<unit, marker>>
        BY <3>3, <3>4, <1>a DEF RestoreEnds, DownloadFails, To, Working, Types, external
      <4> QED
        BY <4>1, <3>2 DEF Slot, LockFollows, StatusWaits, UnitHasSlot, MarkerAlone, Working
    <3>5. CASE WriteStartStatus(p)
      <4>1. /\ stage'[p] = "launching" /\ status' = "running" /\ UNCHANGED <<unit, marker>>
            /\ lock' = [owner |-> p, phase |-> "launching", old |-> FALSE] /\ lock' \in Lock
        BY <3>2, <3>5, <1>a, OwnerEnters DEF WriteStartStatus, Types, external, Phase
      <4>2. LockFollows'
        BY <4>1, <3>3, NoneAssumption DEF LockFollows, Owns, PhaseOf
      <4> QED
        BY <4>1, <4>2, <3>2, <1>a, <1>c, <3>3 DEF Slot, StatusWaits, UnitHasSlot, MarkerAlone
    <3>6. CASE RecordLaunch(p)
      <4>1. /\ stage'[p] = "recorded" /\ UNCHANGED <<status, unit, marker>>
            /\ lock' = [owner |-> p, phase |-> "launched", old |-> FALSE] /\ lock' \in Lock
        BY <3>2, <3>6, <1>a, OwnerEnters DEF RecordLaunch, Record, Types, external, Phase
      <4>2. LockFollows'
        BY <4>1, <3>3, NoneAssumption DEF LockFollows, Owns, PhaseOf
      <4>3. status \in {"running", "unlaunched"}
        BY <3>6, <1>c DEF RecordLaunch, Slot, StatusWaits
      <4> QED
        BY <4>1, <4>2, <4>3, <3>2 DEF Slot, StatusWaits, UnitHasSlot, MarkerAlone
    <3>7. CASE Launch(p)
      <4>1. /\ Working' = {} /\ UNCHANGED <<lock, status, marker>>
            /\ unit' => stage'[p] = "done"
        BY <3>3, <3>7, <1>a DEF Launch, To, Working, Types
      <4>2. status \in {"running", "unlaunched"} /\ lock.phase = "launched"
        BY <3>1, <3>7, <1>c DEF Launch, Slot, StatusWaits, LockFollows, PhaseOf
      <4> QED
        BY <4>1, <4>2, <3>2 DEF Slot, LockFollows, StatusWaits, UnitHasSlot, MarkerAlone,
           Owns, Working
    <3> QED
      BY <1>3, <2>b, <3>4, <3>5, <3>6, <3>7 DEF Step, GiveUp
  <2> QED
    BY <2>a, <2>b
<1>4. ASSUME NEW p \in Procs, Dies(p) PROVE Slot'
  <2>1. /\ Working' = Working \ {p} /\ stage'[p] = "done"
        /\ \A q \in Procs : q # p => stage'[q] = stage[q]
        /\ UNCHANGED <<lock, status, marker>>
    BY <1>4, <1>a DEF Dies, To, Working, Types
  <2>2. LockFollows' /\ StatusWaits'
    BY <2>1, <1>c DEF Slot, LockFollows, StatusWaits, Owns, Working
  <2>3. CASE unit
    BY <2>1, <2>2, <2>3, <1>a, <1>c DEF Slot, UnitHasSlot, MarkerAlone, Types, Lock
  <2>4. CASE ~unit /\ unit'
    <3>1. stage[p] = "recorded" /\ p \in Working
      BY <1>4, <2>4 DEF Dies, Working
    <3>2. Working' = {} /\ Owns(p) /\ lock.phase = "launched"
      BY <3>1, <2>1, <1>c, <1>d DEF Slot, LockFollows, PhaseOf
    <3>3. status \in {"running", "unlaunched"}
      BY <3>1, <1>c DEF Slot, StatusWaits
    <3> QED
      BY <2>1, <2>2, <3>2, <3>3 DEF Slot, UnitHasSlot, MarkerAlone, Owns
  <2>5. CASE ~unit /\ ~unit'
    BY <2>1, <2>2, <2>5, <1>c DEF Slot, UnitHasSlot, MarkerAlone
  <2> QED
    BY <2>3, <2>4, <2>5, <1>a DEF Types
<1>5. CASE GrowsOld
  <2>1. /\ lock' = [lock EXCEPT !.old = TRUE] /\ lock \in Lock
        /\ UNCHANGED <<stage, status, unit, marker>>
    BY <1>5, <1>a DEF GrowsOld, external, Types
  <2>2. lock'.owner = lock.owner /\ lock'.phase = lock.phase /\ lock' \in Lock
    BY <2>1 DEF Lock
  <2>3. \A p \in Working : stage[p] # "recorded"
    BY <1>5, <1>c, <1>d DEF GrowsOld, Slot, LockFollows, Owns
  <2>4. LockFollows'
    BY <2>1, <2>2, <2>3, <1>c, NoneAssumption DEF Slot, LockFollows, Owns, PhaseOf, Working
  <2>5. UnitHasSlot'
    BY <2>1, <2>2, <1>c, NoneAssumption DEF Slot, UnitHasSlot, Working
  <2> QED
    BY <2>1, <2>4, <2>5, <1>c DEF Slot, StatusWaits, MarkerAlone, Working
<1>6. CASE StatusGrowsOld
  BY <1>6, <1>c DEF StatusGrowsOld, Slot, LockFollows, StatusWaits, UnitHasSlot,
     MarkerAlone, Owns, PhaseOf, Working, external
<1>7. CASE UnitMarks \/ UnitEnds \/ UnitDies \/ Recover \/ Retry
  <2>1. /\ unit \/ marker => Working = {}
        /\ waiting => marker
    <3>1. waiting = FALSE \/ waiting = marker
      BY <1>a DEF Types
    <3>2. waiting => marker
      BY <3>1, Zenon
    <3> QED
      BY <1>c, <3>2 DEF Slot, UnitHasSlot, MarkerAlone
  <2>2. Working = {} /\ UNCHANGED <<stage, lock>> /\ (unit' => UnitMarks)
    BY <1>7, <2>1 DEF UnitMarks, UnitEnds, UnitDies, Recover, Retry
  <2>3. LockFollows' /\ StatusWaits' /\ MarkerAlone'
    BY <2>2 DEF LockFollows, StatusWaits, MarkerAlone, Working
  <2>4. UnitHasSlot'
    BY <2>2, <1>c DEF UnitMarks, Slot, UnitHasSlot, Working
  <2> QED
    BY <2>3, <2>4 DEF Slot
<1>8. CASE BusGoes \/ BusComes \/ CancelLooks \/ UNCHANGED vars
  <2>1. UNCHANGED <<stage, lock, status, unit, marker>>
    BY <1>8 DEF BusGoes, BusComes, CancelLooks, vars, external
  <2> QED
    BY <2>1, <1>c DEF Slot, LockFollows, StatusWaits, UnitHasSlot, MarkerAlone, Owns,
       PhaseOf, Working
<1>9. CASE CancelClears
  <2>1. Working = {} /\ ~unit
    BY <1>9 DEF CancelClears
  <2>2. Working' = {} /\ ~unit'
    BY <1>9, <2>1 DEF CancelClears, Working, external
  <2> QED
    BY <2>2 DEF Slot, LockFollows, StatusWaits, UnitHasSlot, MarkerAlone, Working
<1> QED
  BY <1>1, <1>2, <1>3, <1>4, <1>5, <1>6, <1>7, <1>8, <1>9 DEF Next

LEMMA StepInv == IInv /\ [Next]_vars => IInv'
BY StepTypes, StepSlot DEF IInv

LEMMA Invariant == Spec => []IInv
BY InitInv, StepInv, PTL DEF Spec

-----------------------------------------------------------------------------

\* Variables keep their types, and who is at work has the lock unless a cancel
\* took it (upgrade.py:287, upgrade.py:340).
THEOREM TypeCorrect == Spec => []TypeOK
BY Invariant, InvImplies, PTL

\* Any number of web workers, timers and restore jobs, dying at any time, beside
\* a systemd that does not always answer: one upgrade or restore is at work,
\* unless a cancel intervened (upgrade.py:240).
THEOREM ExclusiveThm == Spec => []Exclusive
BY Invariant, InvImplies, PTL

\* Nor does any of them begin before an interrupted stage is recovered
\* (upgrade.py:370).
THEOREM RecoveryFirstThm == Spec => []RecoveryFirst
BY Invariant, InvImplies, PTL
=============================================================================
