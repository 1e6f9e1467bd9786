------------------------------ MODULE CheckEngine ------------------------------
(***************************************************************************)
(* The engine that keeps checks running: dispatchers claim due CheckState  *)
(* rows and queue jobs, workers run them and write the verdict back, the   *)
(* reaper takes back the claims of the dead, an operator asks for a check  *)
(* at once or switches an address off and on, and every change of status   *)
(* opens or resolves an alert (monitoring/scheduler.py, worker.py,         *)
(* exclusion.py, runner.py, alerts.py, escalation.py).                     *)
(*                                                                         *)
(* Each action is one statement or one transaction of the code; between    *)
(* two of them anybody may act.  A job's shard of checks is one run per    *)
(* check.  Clock time is abstracted: next_run is "due" or "later", a claim *)
(* is within the in-flight deadline or overdue.                            *)
(***************************************************************************)
EXTENDS Naturals, FiniteSets

CONSTANTS
    Checks,         \* CheckState rows
    Addresses,
    AddressOf,      \* the address each check targets
    Jobs,           \* slots for jobs, queued or in a worker
    Requests,       \* slots for "Check now" requests
    Dispatchers,    \* the beat, and views that dispatch themselves
    Stamps,         \* claim times
    None,           \* NULL
    Profiles,       \* what operators may do: one of these sets of features
    MaxCrashes,     \* bound on processes that die
    MaxSlow         \* bound on claims that outlive the deadline in a live run

Runs == Jobs \union Requests
AllFeatures == {"exclude", "stale_save", "skip", "schedule", "check_now", "arm",
                "slow_run"}

ASSUME SetsAssumption ==
    /\ Checks # {} /\ AddressOf \in [Checks -> Addresses]
    /\ Jobs \intersect Requests = {}
    /\ None \notin Stamps
ASSUME BoundsAssumption ==
    Profiles \subseteq SUBSET AllFeatures /\ MaxCrashes \in Nat /\ MaxSlow \in Nat

VARIABLES
    status, nextRun,    \* columns of the rows
    inFlight, since,    \* in_flight, in_flight_since
    overdue,            \* claims older than the in-flight deadline
    firing,             \* checks with a firing alert
    excluded,           \* addresses switched off
    skipListed,         \* addresses whose status is in the tenant's skip list
    scheduled,          \* checks whose effective_interval is not None
    selected, won,      \* each dispatcher's due list, and its claims to enqueue
    run,                \* each run's progress and what it has read
    arming,             \* rows a bulk "Check now" has read
    healing, closing,   \* rows read by heal_orphans, alerts by the maintenance
    copy,               \* the switch in an address loaded by someone to save it
    crashes, slow,      \* mishaps so far
    features            \* the profile of this behaviour

claim == <<inFlight, since, overdue>>
row == <<status, nextRun, claim>>
switches == <<excluded, skipListed, scheduled>>
dispatch == <<selected, won>>
sweeps == <<healing, closing>>
readers == <<arming, sweeps, copy>>
mishaps == <<crashes, slow, features>>
vars == <<row, firing, switches, dispatch, run, readers, mishaps>>

\* "down" stands for every status that alerts: down, stale, degraded.
Status == {"unknown", "up", "down", "skipped"}
Stage == {"free", "queued", "running", "skipping", "guarded", "written",
          "stray", "parking", "changed", "opening", "asked", "locked"}
Run == [stage : Stage, check : Checks, old : Status,
        stamp : Stamps \union {None}, on : BOOLEAN, to : Status \union {"same"}]

Excluded(c) == AddressOf[c] \in excluded
At(r, stage) == run[r].stage = stage

\* A run that has read nothing, or no longer needs what it read.
Fresh(stage, c, to) ==
    [stage |-> stage, check |-> c, old |-> "unknown", stamp |-> None,
     on |-> FALSE, to |-> to]
Free == Fresh("free", CHOOSE c \in Checks : TRUE, "same")

Become(r, state) == run' = [run EXCEPT ![r] = state]
End(r) == Become(r, Free)
Carry(r, stage, to) == Become(r, Fresh(stage, run[r].check, to))

\* Set a column of the rows in S.
On(S, column, value) == [c \in Checks |-> IF c \in S THEN value ELSE column[c]]

-----------------------------------------------------------------------------
(* The dispatcher.                                                         *)

NextAfter(on) == IF on THEN "later" ELSE "null"

\* Mutant: only unstamped claims are reaped; a dead worker's stays.
StuckUnstamped(c) == c \in inFlight /\ since[c] = None

Stuck(c) == c \in inFlight /\ (since[c] = None \/ c \in overdue)

\* reap_stale_in_flight: one UPDATE.
Reap ==
    LET stuck == {c \in Checks : Stuck(c)}
    IN /\ stuck # {}
       /\ inFlight' = inFlight \ stuck
       /\ since' = On(stuck, since, None)
       /\ overdue' = overdue \ stuck
       /\ nextRun' = On(stuck, nextRun, "due")
       /\ UNCHANGED <<status, firing, switches, dispatch, run, readers, mishaps>>

\* dispatch reads the due rows ...
Select(d) ==
    LET due == {c \in Checks : nextRun[c] = "due" /\ c \notin inFlight}
    IN /\ selected[d] = {} /\ won[d] = {} /\ due # {}
       /\ selected' = [selected EXCEPT ![d] = due]
       /\ UNCHANGED <<row, firing, switches, won, run, readers, mishaps>>

\* Mutant: the locked row is not tested again.
ClaimableUnchecked(c) == nextRun[c] # "null"

Claimable(c) == c \notin inFlight /\ nextRun[c] # "null"

\* The time of a claim is new to the rows and to the runs that remember one.
NewStamps == Stamps \ ({since[c] : c \in Checks} \union {run[r].stamp : r \in Runs})

\* ... and claims those that, once locked, still may be.
Claim(d) ==
    LET mine == {c \in selected[d] : Claimable(c)}
        now == CHOOSE t \in NewStamps : TRUE
    IN /\ selected[d] # {} /\ NewStamps # {}
       /\ selected' = [selected EXCEPT ![d] = {}]
       /\ won' = [won EXCEPT ![d] = mine]
       /\ inFlight' = inFlight \union mine
       /\ since' = On(mine, since, now)
       /\ overdue' = overdue \ mine
       /\ nextRun' = On(mine, nextRun, "later")
       /\ UNCHANGED <<status, firing, switches, run, readers, mishaps>>

Enqueue(d, c, j) ==
    /\ c \in won[d] /\ At(j, "free")
    /\ won' = [won EXCEPT ![d] = @ \ {c}]
    /\ Become(j, Fresh("queued", c, "same"))
    /\ UNCHANGED <<row, firing, switches, selected, readers, mishaps>>

-----------------------------------------------------------------------------
(* Parking (exclusion.py).                                                 *)

\* Mutant: parking forgets when the claim it drops was taken.
ParkStampKept(S) ==
    /\ status' = On(S, status, "skipped")
    /\ nextRun' = On(S, nextRun, "null")
    /\ inFlight' = inFlight \ S
    /\ since' = since
    /\ overdue' = overdue \ S
    /\ firing' = firing \ S

Park(S) ==
    /\ status' = On(S, status, "skipped")
    /\ nextRun' = On(S, nextRun, "null")
    /\ inFlight' = inFlight \ S
    /\ since' = On(S, since, None)
    /\ overdue' = overdue \ S
    /\ firing' = firing \ S

\* Mutant: a row already "skipped" is taken for parked.
StrayByStatus(c) == status[c] # "skipped"

Stray(c) == nextRun[c] # "null" \/ status[c] # "skipped" \/ c \in inFlight

\* What a run does once the row of an excluded address is parked again: a
\* skip is announced all the same (it can only close an alert).
AfterRepark(r) ==
    IF run[r].to = "skipped" THEN Carry(r, "changed", "skipped") ELSE End(r)

\* repark: the statement reads which rows are stray on an excluded address ...
ReparkRead(r) ==
    LET c == run[r].check
    IN /\ At(r, "stray")
       /\ IF Excluded(c) /\ Stray(c) THEN Carry(r, "parking", run[r].to)
          ELSE AfterRepark(r)
       /\ UNCHANGED <<row, firing, switches, dispatch, readers, mishaps>>

\* ... and may wait for the row lock, which set_excluded takes too: the row is
\* read again once locked, the address is not.
ReparkWrite(r) ==
    /\ At(r, "parking")
    /\ IF Stray(run[r].check) THEN Park({run[r].check}) ELSE UNCHANGED <<row, firing>>
    /\ AfterRepark(r)
    /\ UNCHANGED <<switches, dispatch, readers, mishaps>>

-----------------------------------------------------------------------------
(* A job, for one check of its shard (worker.py).                          *)

\* The job loads the row, the address and the settings.
StartStage(c) ==
    IF Excluded(c) THEN "stray"
    ELSE IF AddressOf[c] \in skipListed THEN "skipping" ELSE "running"

Start(r) ==
    LET c == run[r].check
    IN /\ At(r, "queued")
       /\ Become(r, IF Excluded(c) THEN Fresh("stray", c, "same")
                    ELSE [stage |-> StartStage(c), check |-> c, old |-> status[c],
                          stamp |-> since[c], on |-> c \in scheduled, to |-> "same"])
       /\ UNCHANGED <<row, firing, switches, dispatch, readers, mishaps>>

\* Mutant: the verdict is written, the claim is not given back.
WriteBackClaimKept(r, new) ==
    LET mine == {run[r].check}
    IN /\ status' = On(mine, status, new)
       /\ nextRun' = On(mine, nextRun, NextAfter(run[r].on))
       /\ UNCHANGED claim

\* The columns a run writes when it gives its check back.
WriteBack(r, new) ==
    LET mine == {run[r].check}
    IN /\ status' = On(mine, status, new)
       /\ nextRun' = On(mine, nextRun, NextAfter(run[r].on))
       /\ inFlight' = inFlight \ mine
       /\ since' = On(mine, since, None)
       /\ overdue' = overdue \ mine

Change(old, new) == IF new = old THEN "same" ELSE new

\* _mark_skipped: not dialled, written without the guard.
MarkSkipped(r) ==
    /\ At(r, "skipping")
    /\ WriteBack(r, "skipped")
    /\ Carry(r, "written", Change(run[r].old, "skipped"))
    /\ UNCHANGED <<firing, switches, dispatch, readers, mishaps>>

Holds(r) == since[run[r].check] = run[r].stamp

\* _finalise, once the probes are back: the write guard.
Guard(r) ==
    /\ At(r, "running")
    /\ IF ~Holds(r) THEN End(r)
       ELSE IF Excluded(run[r].check) THEN Carry(r, "stray", "same")
       ELSE Become(r, [run[r] EXCEPT !.stage = "guarded"])
    /\ UNCHANGED <<row, firing, switches, dispatch, readers, mishaps>>

\* Mutant: the engine's own word is stored untranslated.
VerdictsRaw(old) == {old, "up", "down", "timeout"}

\* What apply_outcome may make of an outcome (module Hysteresis).
Verdicts(old) ==
    {old, "up", "down"} \union (IF old = "skipped" THEN {"unknown"} ELSE {})

\* _finalise and _persist: the states are written, from the copies loaded.
Write(r, new) ==
    /\ At(r, "guarded")
    /\ WriteBack(r, new)
    /\ Carry(r, "written", Change(run[r].old, new))
    /\ UNCHANGED <<firing, switches, dispatch, readers, mishaps>>

\* _heal_excluded: was the address excluded since?
Heal(r) ==
    LET c == run[r].check
    IN /\ At(r, "written")
       /\ IF Excluded(c)
          THEN IF Stray(c) THEN Carry(r, "stray", run[r].to) ELSE AfterRepark(r)
          ELSE IF run[r].to = "same" THEN End(r) ELSE Carry(r, "changed", run[r].to)
       /\ UNCHANGED <<row, firing, switches, dispatch, readers, mishaps>>

\* process_transitions: a clearing change resolves the firing alert, a bad one
\* first reads whether the address is excluded ...
AlertRead(r) ==
    LET c == run[r].check
        opens == run[r].to = "down" /\ ~Excluded(c)
    IN /\ At(r, "changed")
       /\ IF opens THEN Carry(r, "opening", "down") ELSE End(r)
       /\ firing' = IF run[r].to \in {"up", "skipped"} THEN firing \ {c} ELSE firing
       /\ UNCHANGED <<row, switches, dispatch, readers, mishaps>>

\* ... then opens its alert.
AlertOpen(r) ==
    /\ At(r, "opening")
    /\ firing' = firing \union {run[r].check}
    /\ End(r)
    /\ UNCHANGED <<row, switches, dispatch, readers, mishaps>>

-----------------------------------------------------------------------------
(* "Check now" for one address (runner.check_now), per check.              *)

Ask(r, c) ==
    /\ "check_now" \in features
    /\ At(r, "free") /\ ~Excluded(c)
    /\ Become(r, Fresh("asked", c, "same"))
    /\ UNCHANGED <<row, firing, switches, dispatch, readers, mishaps>>

LockHeld(a) == \E r \in Requests : At(r, "locked") /\ AddressOf[run[r].check] = a

\* The transaction takes the address row's lock and reads the state.
CheckNowLock(r) ==
    LET c == run[r].check
    IN /\ At(r, "asked") /\ ~LockHeld(AddressOf[c])
       /\ Become(r, IF Excluded(c) THEN Free
                    ELSE [Fresh("locked", c, "same") EXCEPT !.old = status[c]])
       /\ UNCHANGED <<row, firing, switches, dispatch, readers, mishaps>>

\* _rollup_states writes the verdict and leaves the schedule and claim alone.
CheckNowWrite(r, new) ==
    LET c == run[r].check
        to == Change(run[r].old, new)
    IN /\ At(r, "locked")
       /\ status' = [status EXCEPT ![c] = new]
       /\ IF to = "same" THEN End(r) ELSE Carry(r, "changed", to)
       /\ UNCHANGED <<nextRun, claim, firing, switches, dispatch, readers, mishaps>>

\* bulk_check_now_view, before it dispatches: one UPDATE reads what nobody holds
\* on addresses that are not excluded ...
BulkArmRead(S) ==
    /\ "arm" \in features
    /\ arming = {}
    /\ arming' = {c \in S : ~Excluded(c) /\ c \notin inFlight}
    /\ arming' # {}
    /\ UNCHANGED <<row, firing, switches, dispatch, run, sweeps, copy, mishaps>>

\* Mutant: a running check is taken from its worker, as before #220.
ClaimsTaken(S) == inFlight \ S

ClaimsLeft(S) == inFlight

\* ... and, the rows locked, arms those that nobody holds still.
BulkArmWrite ==
    /\ arming # {}
    /\ nextRun' = On(arming \ inFlight, nextRun, "due")
    /\ inFlight' = ClaimsLeft(arming)
    /\ arming' = {}
    /\ UNCHANGED <<status, since, overdue, firing, switches, dispatch, run, sweeps,
                   copy, mishaps>>

-----------------------------------------------------------------------------
(* The switches.                                                           *)

ChecksAt(a) == {c \in Checks : AddressOf[c] = a}

\* set_excluded(True): one transaction.
Exclude(a) ==
    /\ "exclude" \in features
    /\ a \notin excluded /\ ~LockHeld(a)
    /\ excluded' = excluded \union {a}
    /\ Park(ChecksAt(a))
    /\ UNCHANGED <<skipListed, scheduled, dispatch, run, readers, mishaps>>

\* set_excluded(False): armed, with the status left as it is.
Include(a) ==
    /\ "exclude" \in features
    /\ a \in excluded /\ ~LockHeld(a)
    /\ excluded' = excluded \ {a}
    /\ nextRun' = [c \in Checks |-> IF AddressOf[c] # a THEN nextRun[c]
                                    ELSE IF c \in scheduled THEN "due" ELSE "null"]
    /\ inFlight' = inFlight \ ChecksAt(a)
    /\ since' = On(ChecksAt(a), since, None)
    /\ overdue' = overdue \ ChecksAt(a)
    /\ UNCHANGED <<status, firing, skipListed, scheduled, dispatch, run, readers, mishaps>>

\* Someone loads the address to edit something else ...
LoadCopy(a) ==
    /\ "stale_save" \in features
    /\ copy[a] = "none"
    /\ copy' = [copy EXCEPT ![a] = IF a \in excluded THEN "on" ELSE "off"]
    /\ UNCHANGED <<row, firing, switches, dispatch, run, arming, sweeps, mishaps>>

\* ... and saves it whole: the switch is written back as it was read
\* (exclusion.py:250).
SaveCopy(a) ==
    /\ copy[a] # "none" /\ ~LockHeld(a)
    /\ excluded' = IF copy[a] = "on" THEN excluded \union {a} ELSE excluded \ {a}
    /\ copy' = [copy EXCEPT ![a] = "none"]
    /\ UNCHANGED <<row, firing, skipListed, scheduled, dispatch, run, arming, sweeps,
                   mishaps>>

\* The address gets, or loses, a status of the tenant's skip list.
ToggleSkip(a) ==
    /\ "skip" \in features
    /\ skipListed' = (skipListed \ {a}) \union ({a} \ skipListed)
    /\ UNCHANGED <<row, firing, excluded, scheduled, dispatch, run, readers, mishaps>>

\* The check's schedule, or the tenant's switch it follows, goes off or on.
ToggleSchedule(c) ==
    /\ "schedule" \in features
    /\ scheduled' = (scheduled \ {c}) \union ({c} \ scheduled)
    /\ UNCHANGED <<row, firing, excluded, skipListed, dispatch, run, readers, mishaps>>

\* A row left parked on an address that is not excluded.
Orphan(c) ==
    /\ status[c] = "skipped" /\ nextRun[c] = "null" /\ c \notin inFlight
    /\ ~Excluded(c) /\ c \in scheduled

\* heal_orphans, with materialisation: reads such rows ...
HealRead ==
    /\ healing = {}
    /\ healing' = {c \in Checks : Orphan(c)}
    /\ healing' # {}
    /\ UNCHANGED <<row, firing, switches, dispatch, run, arming, closing, copy, mishaps>>

\* ... and arms them.
HealWrite ==
    /\ healing # {}
    /\ nextRun' = On(healing, nextRun, "due")
    /\ healing' = {}
    /\ UNCHANGED <<status, claim, firing, switches, dispatch, run, arming, closing,
                   copy, mishaps>>

Closable(c) == c \in firing /\ Excluded(c)

\* The alert maintenance reads the firing alerts on excluded addresses ...
CloseRead ==
    /\ closing = {}
    /\ closing' = {c \in Checks : Closable(c)}
    /\ closing' # {}
    /\ UNCHANGED <<row, firing, switches, dispatch, run, arming, healing, copy, mishaps>>

\* ... and closes them.
CloseWrite ==
    /\ closing # {}
    /\ firing' = firing \ closing
    /\ closing' = {}
    /\ UNCHANGED <<row, switches, dispatch, run, arming, healing, copy, mishaps>>

-----------------------------------------------------------------------------
(* Time and mishaps.                                                       *)

BecomesDue(c) ==
    /\ nextRun[c] = "later"
    /\ nextRun' = [nextRun EXCEPT ![c] = "due"]
    /\ UNCHANGED <<status, claim, firing, switches, dispatch, run, readers, mishaps>>

\* Who has a claim of c in hand and has not written it back.
HoldingRuns(c) ==
    {r \in Jobs : run[r].check = c /\ run[r].stage \in
                      {"queued", "running", "skipping", "guarded"}}
HoldingDispatchers(c) == {d \in Dispatchers : c \in won[d]}
Held(c) == HoldingRuns(c) # {} \/ HoldingDispatchers(c) # {}

MaySlow == "slow_run" \in features /\ slow < MaxSlow

\* A claim outlives the deadline: for want of a holder, or (within the bound)
\* because its holder is slow.
BecomesOverdue(c) ==
    /\ c \in inFlight \ overdue
    /\ overdue' = overdue \union {c}
    /\ IF Held(c) THEN MaySlow /\ slow' = slow + 1 ELSE slow' = slow
    /\ UNCHANGED <<status, nextRun, inFlight, since, firing, switches, dispatch,
                   run, readers, crashes, features>>

RunDies(r) ==
    /\ ~At(r, "free")
    /\ crashes < MaxCrashes /\ crashes' = crashes + 1
    /\ End(r)
    /\ UNCHANGED <<row, firing, switches, dispatch, readers, slow, features>>

DispatcherDies(d) ==
    /\ selected[d] # {} \/ won[d] # {}
    /\ crashes < MaxCrashes /\ crashes' = crashes + 1
    /\ selected' = [selected EXCEPT ![d] = {}]
    /\ won' = [won EXCEPT ![d] = {}]
    /\ UNCHANGED <<row, firing, switches, run, readers, slow, features>>

-----------------------------------------------------------------------------

\* Rows just materialised: due at once (scheduler.py:133).
Init ==
    /\ status = [c \in Checks |-> "unknown"]
    /\ nextRun = [c \in Checks |-> "due"]
    /\ inFlight = {} /\ overdue = {}
    /\ since = [c \in Checks |-> None]
    /\ firing = {}
    /\ excluded = {} /\ skipListed = {} /\ scheduled = Checks
    /\ selected = [d \in Dispatchers |-> {}]
    /\ won = [d \in Dispatchers |-> {}]
    /\ run = [r \in Runs |-> Free]
    /\ arming = {} /\ healing = {} /\ closing = {}
    /\ copy = [a \in Addresses |-> "none"]
    /\ crashes = 0 /\ slow = 0 /\ features \in Profiles

DispatcherStep(d) ==
    Select(d) \/ Claim(d) \/ \E c \in Checks, j \in Jobs : Enqueue(d, c, j)

JobStep(r) ==
    \/ Start(r)
    \/ MarkSkipped(r)
    \/ Guard(r)
    \/ \E new \in Verdicts(run[r].old) : Write(r, new)
    \/ Heal(r)

RequestStep(r) ==
    CheckNowLock(r) \/ \E new \in Verdicts(run[r].old) : CheckNowWrite(r, new)

AnyRunStep(r) ==
    ReparkRead(r) \/ ReparkWrite(r) \/ AlertRead(r) \/ AlertOpen(r)

SweepStep == HealRead \/ HealWrite \/ CloseRead \/ CloseWrite

OperatorStep ==
    \/ \E a \in Addresses : Exclude(a) \/ Include(a) \/ ToggleSkip(a)
    \/ \E a \in Addresses : LoadCopy(a) \/ SaveCopy(a)
    \/ \E c \in Checks : ToggleSchedule(c)
    \/ \E r \in Requests, c \in Checks : Ask(r, c)
    \/ BulkArmWrite \/ \E S \in SUBSET Checks : BulkArmRead(S)

Next ==
    \/ Reap
    \/ \E d \in Dispatchers : DispatcherStep(d) \/ DispatcherDies(d)
    \/ \E r \in Jobs : JobStep(r)
    \/ \E r \in Requests : RequestStep(r)
    \/ \E r \in Runs : AnyRunStep(r) \/ RunDies(r)
    \/ SweepStep
    \/ OperatorStep
    \/ \E c \in Checks : BecomesDue(c) \/ BecomesOverdue(c)

Spec == Init /\ [][Next]_vars

\* The beat and the sweeps are timers, the workers drain their queue, a run
\* ends (every probe has a timeout) and time passes.  Nothing is asked of the
\* operator.
Fairness ==
    /\ WF_vars(Reap)
    /\ \A d \in Dispatchers :
          /\ WF_vars(Select(d))
          /\ WF_vars(Claim(d))
          /\ WF_vars(\E c \in Checks, j \in Jobs : Enqueue(d, c, j))
    /\ \A r \in Jobs : WF_vars(JobStep(r))
    /\ \A r \in Requests : WF_vars(RequestStep(r))
    /\ \A r \in Runs : WF_vars(AnyRunStep(r))
    /\ WF_vars(HealRead) /\ WF_vars(HealWrite)
    /\ WF_vars(CloseRead) /\ WF_vars(CloseWrite)
    /\ \A c \in Checks : WF_vars(BecomesDue(c)) /\ WF_vars(~Held(c) /\ BecomesOverdue(c))

FairSpec == Spec /\ Fairness

-----------------------------------------------------------------------------

\* Columns, switches and runs have their types; only a claim can be overdue.
TypeOK ==
    /\ status \in [Checks -> Status]
    /\ nextRun \in [Checks -> {"null", "due", "later"}]
    /\ inFlight \subseteq Checks /\ overdue \subseteq inFlight
    /\ since \in [Checks -> Stamps \union {None}]
    /\ firing \subseteq Checks
    /\ excluded \subseteq Addresses /\ skipListed \subseteq Addresses
    /\ scheduled \subseteq Checks
    /\ selected \in [Dispatchers -> SUBSET Checks]
    /\ won \in [Dispatchers -> SUBSET Checks]
    /\ run \in [Runs -> Run]
    /\ arming \subseteq Checks /\ healing \subseteq Checks /\ closing \subseteq Checks
    /\ copy \in [Addresses -> {"none", "on", "off"}]
    /\ crashes \in Nat /\ slow \in Nat /\ features \in Profiles

\* in_flight and in_flight_since agree in every row, whoever wrote it last: the
\* dispatcher, a worker from its own copy, the reaper, either switch or a bulk
\* "Check now".  The write guard reads the one, the dispatcher the other.
ClaimsAreStamped == \A c \in Checks : c \in inFlight <=> since[c] # None

\* A claim is never replaced by another: it is given back, reaped or parked
\* first ("one it has already claimed no longer matches", scheduler.py:375).
LiveClaimKept ==
    [][\A c \in Checks : c \in inFlight /\ c \in inFlight' => since'[c] = since[c]]_vars

\* A claim has one holder while no address is switched and no run outlives the
\* deadline: however dispatchers, clicks and crashes interleave, no check is in
\* the hands of two dispatchers or workers ("Claim these due states for exactly
\* one dispatcher", scheduler.py:366), and what they hold is in flight.
OneHolder ==
    \A c \in Checks :
        /\ Held(c) => c \in inFlight
        /\ \A r, s \in HoldingRuns(c) : r = s
        /\ \A d, e \in HoldingDispatchers(c) : d = e
        /\ HoldingRuns(c) = {} \/ HoldingDispatchers(c) = {}

Service ==
    INSTANCE CheckService WITH taken <- {c \in inFlight : Held(c)},
                               lost <- {c \in inFlight : ~Held(c)}

\* While addresses are not switched and nobody clicks "Check now", the rows, the
\* queue and the workers together are a service that takes each check for one
\* holder, writes a status only in the step that gives the check back, and
\* takes back only what a dead holder left.
ImplementsService == Service!Spec

Parked(c) == status[c] = "skipped" /\ nextRun[c] = "null" /\ c \notin inFlight

\* The checks of an address that stays excluded end up parked for good,
\* whatever was in flight, queued or half written when it was switched off,
\* and even if the run that should park them again dies (exclusion.py:16); and
\* their alerts end up closed for good, those opened by a verdict that raced the
\* switch included (escalation.py:140).
ExcludedGoesQuiet ==
    \A c \in Checks : <>[]Excluded(c) => <>[](Parked(c) /\ c \notin firing)

\* A job has just written a verdict, or a skip, to the check.
Written(c) == \E r \in Jobs : At(r, "written") /\ run[r].check = c

\* A check whose address stays included and whose schedule stays on is run and
\* written back again and again: no crash, lost job, late run, stale save or
\* race with the switch leaves it stuck in flight or parked (scheduler.py:175,
\* exclusion.py:249).  (It fails when the schedule was off in between, though
\* inherited monitoring "runs (or pauses) according to the tenant's global
\* monitoring switch", docs/features/monitoring.md:194.)
KeepsBeingChecked ==
    \A c \in Checks :
        <>[](~Excluded(c) /\ c \in scheduled /\ "check_now" \notin features) =>
            []<>Written(c)
=============================================================================
