--------------------------- MODULE CheckEngineProofs ---------------------------
(***************************************************************************)
(* Theorems about CheckEngine, for every number of checks, addresses,      *)
(* jobs, requests and dispatchers, and every bound: what its rows and runs *)
(* keep, and that it implements the service of CheckService.               *)
(***************************************************************************)
EXTENDS CheckEngine, Hysteresis, TLAPS

\* What a run becomes is a run.
LEMMA FreshIsRun ==
    ASSUME NEW stage \in Stage, NEW c \in Checks, NEW to \in Status \union {"same"}
    PROVE  Fresh(stage, c, to) \in Run
  BY DEF Fresh, Run, Status

LEMMA FreeIsRun == Free \in Run
<1>1. (CHOOSE c \in Checks : TRUE) \in Checks
  BY SetsAssumption
<1> QED
  BY <1>1, FreshIsRun DEF Free, Stage, Status

LEMMA BecomeIsRun ==
    ASSUME run \in [Runs -> Run], NEW r \in Runs, NEW after \in Run, Become(r, after)
    PROVE  run' \in [Runs -> Run]
  BY DEF Become

LEMMA EndIsRun ==
    ASSUME run \in [Runs -> Run], NEW r \in Runs, End(r)
    PROVE  run' \in [Runs -> Run]
  BY FreeIsRun, BecomeIsRun DEF End

LEMMA CarryIsRun ==
    ASSUME run \in [Runs -> Run], NEW r \in Runs, NEW stage \in Stage,
           NEW to \in Status \union {"same"}, Carry(r, stage, to)
    PROVE  run' \in [Runs -> Run]
<1>1. run[r].check \in Checks
  BY DEF Run
<1> QED
  BY <1>1, FreshIsRun, BecomeIsRun DEF Carry

LEMMA RunFields ==
    ASSUME run \in [Runs -> Run], NEW r \in Runs
    PROVE  /\ run[r].check \in Checks /\ run[r].old \in Status
           /\ run[r].to \in Status \union {"same"} /\ run[r].on \in BOOLEAN
           /\ run[r].stage \in Stage
  BY DEF Run

-----------------------------------------------------------------------------

\* The inductive invariant of the unconditional theorems, in two parts: the
\* columns of the rows, and the rest of the state.
RowsOK ==
    /\ status \in [Checks -> Status]
    /\ nextRun \in [Checks -> {"null", "due", "later"}]
    /\ inFlight \subseteq Checks /\ overdue \subseteq inFlight
    /\ since \in [Checks -> Stamps \union {None}]
    /\ ClaimsAreStamped

RestOK ==
    /\ firing \subseteq Checks
    /\ excluded \subseteq Addresses /\ skipListed \subseteq Addresses
    /\ scheduled \subseteq Checks
    /\ selected \in [Dispatchers -> SUBSET Checks]
    /\ won \in [Dispatchers -> SUBSET Checks]
    /\ run \in [Runs -> Run]
    /\ arming \subseteq Checks /\ healing \subseteq Checks /\ closing \subseteq Checks
    /\ copy \in [Addresses -> {"none", "on", "off"}]
    /\ crashes \in Nat /\ slow \in Nat /\ features \in Profiles

IInv == RowsOK /\ RestOK

LEMMA IInvMeans == IInv <=> TypeOK /\ ClaimsAreStamped
  BY DEF IInv, RowsOK, RestOK, TypeOK

\* Most actions leave the rows alone.
LEMMA RowsKept == RowsOK /\ UNCHANGED row => RowsOK'
  BY DEF RowsOK, row, claim, ClaimsAreStamped

\* A claim is stamped with a time that no row has and that is not NULL.
LEMMA NewStamp ==
    NewStamps # {} => (CHOOSE t \in NewStamps : TRUE) \in Stamps \ {None}
  BY SetsAssumption DEF NewStamps

\* The rows the dispatcher takes back, claims, parks or gets back.
LEMMA ReapRows == RowsOK /\ Reap => RowsOK'
<1> SUFFICES ASSUME RowsOK, Reap PROVE RowsOK'
  OBVIOUS
<1> DEFINE stuck == {c \in Checks : Stuck(c)}
<1>1. /\ inFlight' = inFlight \ stuck /\ overdue' = overdue \ stuck
      /\ since' = On(stuck, since, None) /\ nextRun' = On(stuck, nextRun, "due")
      /\ status' = status
  BY DEF Reap
<1> HIDE DEF stuck
<1>2. nextRun' \in [Checks -> {"null", "due", "later"}]
  BY <1>1 DEF RowsOK, On
<1>3. since' \in [Checks -> Stamps \union {None}]
  BY <1>1 DEF RowsOK, On
<1>4. ClaimsAreStamped'
  BY <1>1 DEF RowsOK, ClaimsAreStamped, On
<1> QED
  BY <1>1, <1>2, <1>3, <1>4 DEF RowsOK

LEMMA ClaimRows ==
    ASSUME NEW d \in Dispatchers, RowsOK, RestOK, Claim(d) PROVE RowsOK'
<1> DEFINE mine == {c \in selected[d] : Claimable(c)}
           now == CHOOSE t \in NewStamps : TRUE
<1>1. /\ inFlight' = inFlight \union mine /\ overdue' = overdue \ mine
      /\ since' = On(mine, since, now) /\ nextRun' = On(mine, nextRun, "later")
      /\ status' = status
  BY DEF Claim
<1>2. mine \subseteq Checks
  BY DEF RestOK
<1>3. now \in Stamps /\ now # None
  BY NewStamp DEF Claim
<1> HIDE DEF mine, now
<1>4. nextRun' \in [Checks -> {"null", "due", "later"}]
  BY <1>1 DEF RowsOK, On
<1>5. since' \in [Checks -> Stamps \union {None}]
  BY <1>1, <1>3 DEF RowsOK, On
<1>6. ClaimsAreStamped'
  BY <1>1, <1>2, <1>3 DEF RowsOK, ClaimsAreStamped, On
<1> QED
  BY <1>1, <1>2, <1>4, <1>5, <1>6 DEF RowsOK

LEMMA ParkRows ==
    ASSUME NEW S, RowsOK, Park(S) PROVE RowsOK' /\ firing' \subseteq firing
<1>1. status' \in [Checks -> Status]
  BY DEF Park, RowsOK, On, Status
<1>2. nextRun' \in [Checks -> {"null", "due", "later"}]
  BY DEF Park, RowsOK, On
<1>3. since' \in [Checks -> Stamps \union {None}]
  BY DEF Park, RowsOK, On
<1>4. ClaimsAreStamped'
  BY DEF Park, RowsOK, ClaimsAreStamped, On
<1> QED
  BY <1>1, <1>2, <1>3, <1>4 DEF Park, RowsOK

LEMMA WriteBackRows ==
    ASSUME NEW r, NEW new \in Status, RowsOK, WriteBack(r, new) PROVE RowsOK'
<1> DEFINE mine == {run[r].check}
           next == NextAfter(run[r].on)
<1>1. next \in {"null", "due", "later"}
  BY DEF NextAfter
<1>2. /\ status' = On(mine, status, new) /\ nextRun' = On(mine, nextRun, next)
      /\ inFlight' = inFlight \ mine /\ since' = On(mine, since, None)
      /\ overdue' = overdue \ mine
  BY DEF WriteBack
<1> HIDE DEF mine, next
<1>3. status' \in [Checks -> Status]
  BY <1>2 DEF RowsOK, On
<1>4. nextRun' \in [Checks -> {"null", "due", "later"}]
  BY <1>1, <1>2 DEF RowsOK, On
<1>5. since' \in [Checks -> Stamps \union {None}]
  BY <1>2 DEF RowsOK, On
<1>6. ClaimsAreStamped'
  BY <1>2 DEF RowsOK, ClaimsAreStamped, On
<1> QED
  BY <1>2, <1>3, <1>4, <1>5, <1>6 DEF RowsOK

LEMMA IncludeRows ==
    ASSUME NEW a, RowsOK, Include(a) PROVE RowsOK'
<1>1. nextRun' \in [Checks -> {"null", "due", "later"}]
  BY DEF Include, RowsOK
<1>2. since' \in [Checks -> Stamps \union {None}]
  BY DEF Include, RowsOK, On
<1>3. ClaimsAreStamped'
  BY DEF Include, RowsOK, ClaimsAreStamped, On, ChecksAt
<1> QED
  BY <1>1, <1>2, <1>3 DEF Include, RowsOK

\* Steps that arm rows, or only change what nextRun or overdue says.
LEMMA ArmRows == RowsOK /\ RestOK /\ HealWrite => RowsOK'
<1> SUFFICES ASSUME RowsOK, RestOK, HealWrite PROVE RowsOK'
  OBVIOUS
<1>1. nextRun' \in [Checks -> {"null", "due", "later"}]
  BY DEF HealWrite, RowsOK, On
<1> QED
  BY <1>1 DEF HealWrite, RowsOK, claim, ClaimsAreStamped

LEMMA BulkArmRows == ASSUME RowsOK, BulkArmWrite PROVE RowsOK'
<1>1. nextRun' \in [Checks -> {"null", "due", "later"}]
  BY DEF BulkArmWrite, RowsOK, On
<1> QED
  BY <1>1 DEF BulkArmWrite, ClaimsLeft, RowsOK, ClaimsAreStamped

LEMMA TimeRows ==
    ASSUME NEW c \in Checks, RowsOK, BecomesDue(c) \/ BecomesOverdue(c) PROVE RowsOK'
<1>1. CASE BecomesDue(c)
  BY <1>1 DEF BecomesDue, RowsOK, claim, ClaimsAreStamped
<1>2. CASE BecomesOverdue(c)
  BY <1>2 DEF BecomesOverdue, RowsOK, ClaimsAreStamped
<1> QED
  BY <1>1, <1>2

LEMMA VerdictsAreStatus ==
    ASSUME NEW old \in Status PROVE Verdicts(old) \subseteq Status
  BY DEF Verdicts, Status

-----------------------------------------------------------------------------

LEMMA DispatcherRows ==
    ASSUME NEW d \in Dispatchers, RowsOK, RestOK,
           DispatcherStep(d) \/ DispatcherDies(d)
    PROVE  RowsOK'
<1>1. CASE Claim(d)
  BY <1>1, ClaimRows
<1>2. CASE Select(d) \/ DispatcherDies(d)
  BY <1>2, RowsKept DEF Select, DispatcherDies
<1>3. CASE \E c \in Checks, j \in Jobs : Enqueue(d, c, j)
  BY <1>3, RowsKept DEF Enqueue
<1> QED
  BY <1>1, <1>2, <1>3 DEF DispatcherStep

LEMMA JobRows ==
    ASSUME NEW r \in Jobs, RowsOK, RestOK, JobStep(r) PROVE RowsOK'
<1>1. CASE Start(r)
  BY <1>1, RowsKept DEF Start
<1>2. CASE MarkSkipped(r)
  BY <1>2, WriteBackRows DEF MarkSkipped, Status
<1>3. CASE Guard(r)
  BY <1>3, RowsKept DEF Guard
<1>4. ASSUME NEW new \in Verdicts(run[r].old), Write(r, new) PROVE RowsOK'
  <2>1. run[r].old \in Status
    BY RunFields DEF RestOK, Runs
  <2>2. new \in Status
    BY <1>4, <2>1, VerdictsAreStatus
  <2> QED
    BY <1>4, <2>2, WriteBackRows DEF Write
<1>5. CASE Heal(r)
  BY <1>5, RowsKept DEF Heal
<1> QED
  BY <1>1, <1>2, <1>3, <1>4, <1>5 DEF JobStep

LEMMA RequestRows ==
    ASSUME NEW r \in Requests, RowsOK, RestOK, RequestStep(r) PROVE RowsOK'
<1>1. CASE CheckNowLock(r)
  BY <1>1, RowsKept DEF CheckNowLock
<1>2. ASSUME NEW new \in Verdicts(run[r].old), CheckNowWrite(r, new) PROVE RowsOK'
  <2>1. run[r].old \in Status
    BY RunFields DEF RestOK, Runs
  <2>2. new \in Status
    BY <1>2, <2>1, VerdictsAreStatus
  <2>3. status' \in [Checks -> Status] /\ UNCHANGED <<nextRun, inFlight, since, overdue>>
    BY <1>2, <2>2 DEF CheckNowWrite, RowsOK, claim
  <2> QED
    BY <2>3 DEF RowsOK, ClaimsAreStamped
<1> QED
  BY <1>1, <1>2 DEF RequestStep

LEMMA AnyRunRows ==
    ASSUME NEW r \in Runs, RowsOK, RestOK, AnyRunStep(r) \/ RunDies(r) PROVE RowsOK'
<1>1. CASE ReparkRead(r) \/ AlertRead(r) \/ AlertOpen(r) \/ RunDies(r)
  BY <1>1, RowsKept DEF ReparkRead, AlertRead, AlertOpen, RunDies
<1>2. CASE ReparkWrite(r)
  BY <1>2, ParkRows, RowsKept DEF ReparkWrite
<1> QED
  BY <1>1, <1>2 DEF AnyRunStep

LEMMA OperatorRows == ASSUME RowsOK, RestOK, OperatorStep PROVE RowsOK'
<1>1. ASSUME NEW a \in Addresses, Exclude(a) PROVE RowsOK'
  BY <1>1, ParkRows DEF Exclude
<1>2. ASSUME NEW a \in Addresses, Include(a) PROVE RowsOK'
  BY <1>2, IncludeRows
<1>3. ASSUME NEW a \in Addresses, ToggleSkip(a) \/ LoadCopy(a) \/ SaveCopy(a)
      PROVE  RowsOK'
  BY <1>3, RowsKept DEF ToggleSkip, LoadCopy, SaveCopy
<1>4. ASSUME NEW c \in Checks, ToggleSchedule(c) PROVE RowsOK'
  BY <1>4, RowsKept DEF ToggleSchedule
<1>5. ASSUME NEW r \in Requests, NEW c \in Checks, Ask(r, c) PROVE RowsOK'
  BY <1>5, RowsKept DEF Ask
<1>6. ASSUME NEW S \in SUBSET Checks, BulkArmRead(S) \/ BulkArmWrite PROVE RowsOK'
  BY <1>6, BulkArmRows, RowsKept DEF BulkArmRead
<1> QED
  BY <1>1, <1>2, <1>3, <1>4, <1>5, <1>6 DEF OperatorStep

LEMMA StepRows == RowsOK /\ RestOK /\ [Next]_vars => RowsOK'
<1> SUFFICES ASSUME RowsOK, RestOK, [Next]_vars PROVE RowsOK'
  OBVIOUS
<1>1. CASE Reap
  BY <1>1, ReapRows
<1>2. ASSUME NEW d \in Dispatchers, DispatcherStep(d) \/ DispatcherDies(d) PROVE RowsOK'
  BY <1>2, DispatcherRows
<1>3. ASSUME NEW r \in Jobs, JobStep(r) PROVE RowsOK'
  BY <1>3, JobRows
<1>4. ASSUME NEW r \in Requests, RequestStep(r) PROVE RowsOK'
  BY <1>4, RequestRows
<1>5. ASSUME NEW r \in Runs, AnyRunStep(r) \/ RunDies(r) PROVE RowsOK'
  BY <1>5, AnyRunRows
<1>6. CASE SweepStep
  BY <1>6, ArmRows, RowsKept DEF SweepStep, HealRead, CloseRead, CloseWrite
<1>7. CASE OperatorStep
  BY <1>7, OperatorRows
<1>8. ASSUME NEW c \in Checks, BecomesDue(c) \/ BecomesOverdue(c) PROVE RowsOK'
  BY <1>8, TimeRows
<1>9. CASE UNCHANGED vars
  BY <1>9, RowsKept DEF vars
<1> QED
  BY <1>1, <1>2, <1>3, <1>4, <1>5, <1>6, <1>7, <1>8, <1>9 DEF Next

-----------------------------------------------------------------------------

\* The rest of the state keeps its type: what dispatchers select and win ...
LEMMA DispatcherRest ==
    ASSUME NEW d \in Dispatchers, RestOK, DispatcherStep(d) \/ DispatcherDies(d)
    PROVE  RestOK'
<1> USE DEF RestOK, switches, dispatch, readers, sweeps, mishaps
<1>1. CASE Select(d)
  BY <1>1 DEF Select
<1>2. CASE Claim(d)
  <2> DEFINE mine == {c \in selected[d] : Claimable(c)}
  <2>1. /\ selected' = [selected EXCEPT ![d] = {}] /\ won' = [won EXCEPT ![d] = mine]
        /\ UNCHANGED <<firing, switches, run, readers, mishaps>>
    BY <1>2 DEF Claim
  <2>2. mine \subseteq Checks
    OBVIOUS
  <2> HIDE DEF mine
  <2> QED
    BY <2>1, <2>2
<1>3. ASSUME NEW c \in Checks, NEW j \in Jobs, Enqueue(d, c, j) PROVE RestOK'
  <2>1. Fresh("queued", c, "same") \in Run
    BY FreshIsRun DEF Stage
  <2>2. run' \in [Runs -> Run]
    BY <1>3, <2>1, BecomeIsRun DEF Enqueue, Runs
  <2>3. won' \in [Dispatchers -> SUBSET Checks]
    BY <1>3 DEF Enqueue
  <2> QED
    BY <1>3, <2>2, <2>3 DEF Enqueue
<1>4. CASE DispatcherDies(d)
  BY <1>4 DEF DispatcherDies
<1> QED
  BY <1>1, <1>2, <1>3, <1>4 DEF DispatcherStep

\* ... and what a job, a request or either of them becomes.
LEMMA StartIsRun ==
    ASSUME NEW r \in Runs, RowsOK, RestOK, Start(r) PROVE run' \in [Runs -> Run]
<1> DEFINE c == run[r].check
           loaded == [stage |-> StartStage(c), check |-> c, old |-> status[c],
                      stamp |-> since[c], on |-> c \in scheduled, to |-> "same"]
<1>1. run \in [Runs -> Run] /\ c \in Checks
  BY RunFields DEF RestOK
<1>2. Fresh("stray", c, "same") \in Run
  BY <1>1, FreshIsRun DEF Stage
<1>3. StartStage(c) \in Stage
  BY DEF StartStage, Stage
<1>4. status[c] \in Status /\ since[c] \in Stamps \union {None}
  BY <1>1 DEF RowsOK
<1>5. loaded \in Run
  BY <1>1, <1>3, <1>4 DEF Run
<1>6. Become(r, Fresh("stray", c, "same")) \/ Become(r, loaded)
  BY DEF Start
<1> HIDE DEF c, loaded
<1> QED
  BY <1>1, <1>2, <1>5, <1>6, BecomeIsRun

LEMMA JobRest ==
    ASSUME NEW r \in Jobs, RowsOK, RestOK, JobStep(r) PROVE RestOK'
<1>1. r \in Runs /\ run \in [Runs -> Run]
  BY DEF Runs, RestOK
<1>2. /\ run[r].old \in Status /\ run[r].to \in Status \union {"same"}
  BY <1>1, RunFields
<1>3. ASSUME NEW new \in Status
      PROVE  Change(run[r].old, new) \in Status \union {"same"}
  BY DEF Change
<1>4. {"stray", "written", "changed", "guarded"} \subseteq Stage
  BY DEF Stage
<1>5. run' \in [Runs -> Run]
  <2>1. CASE Start(r)
    BY <1>1, <2>1, StartIsRun
  <2>2. CASE MarkSkipped(r)
    <3>1. "skipped" \in Status /\ "written" \in Stage
      BY DEF Status, Stage
    <3> QED
      BY <1>1, <1>3, <2>2, <3>1, CarryIsRun DEF MarkSkipped
  <2>3. CASE Guard(r)
    <3>1. [run[r] EXCEPT !.stage = "guarded"] \in Run
      BY <1>1, <1>4 DEF Run
    <3>2. \/ End(r) \/ Carry(r, "stray", "same")
          \/ Become(r, [run[r] EXCEPT !.stage = "guarded"])
      BY <2>3 DEF Guard
    <3> QED
      BY <1>1, <1>4, <3>1, <3>2, EndIsRun, CarryIsRun, BecomeIsRun
  <2>4. ASSUME NEW new \in Verdicts(run[r].old), Write(r, new)
        PROVE  run' \in [Runs -> Run]
    <3>1. new \in Status
      BY <1>2, VerdictsAreStatus
    <3> QED
      BY <1>1, <1>3, <1>4, <2>4, <3>1, CarryIsRun DEF Write
  <2>5. CASE Heal(r)
    <3>1. \/ End(r) \/ Carry(r, "stray", run[r].to)
          \/ Carry(r, "changed", "skipped") \/ Carry(r, "changed", run[r].to)
      BY <2>5 DEF Heal, AfterRepark
    <3>2. "skipped" \in Status
      BY DEF Status
    <3> QED
      BY <1>1, <1>2, <1>4, <3>1, <3>2, EndIsRun, CarryIsRun
  <2> QED
    BY <2>1, <2>2, <2>3, <2>4, <2>5 DEF JobStep
<1>6. UNCHANGED <<firing, switches, dispatch, readers, mishaps>>
  BY DEF JobStep, Start, MarkSkipped, Guard, Write, Heal
<1> QED
  BY <1>5, <1>6 DEF RestOK, switches, dispatch, readers, sweeps, mishaps

LEMMA RequestRest ==
    ASSUME NEW r \in Requests, RowsOK, RestOK, RequestStep(r) PROVE RestOK'
<1>1. r \in Runs /\ run \in [Runs -> Run]
  BY DEF Runs, RestOK
<1>2. run[r].old \in Status /\ run[r].check \in Checks
  BY <1>1, RunFields
<1>3. {"locked", "changed"} \subseteq Stage
  BY DEF Stage
<1>4. run' \in [Runs -> Run]
  <2>1. CASE CheckNowLock(r)
    <3> DEFINE c == run[r].check
               read == [Fresh("locked", c, "same") EXCEPT !.old = status[c]]
    <3>1. Fresh("locked", c, "same") \in Run
      BY <1>2, <1>3, FreshIsRun
    <3>2. status[c] \in Status
      BY <1>2 DEF RowsOK
    <3>3. read \in Run
      BY <3>1, <3>2 DEF Run
    <3>4. Become(r, Free) \/ Become(r, read)
      BY <2>1 DEF CheckNowLock
    <3> HIDE DEF read
    <3> QED
      BY <1>1, <3>3, <3>4, FreeIsRun, BecomeIsRun
  <2>2. ASSUME NEW new \in Verdicts(run[r].old), CheckNowWrite(r, new)
        PROVE  run' \in [Runs -> Run]
    <3> DEFINE to == Change(run[r].old, new)
    <3>1. to \in Status \union {"same"}
      BY <1>2, VerdictsAreStatus DEF Change
    <3>2. End(r) \/ Carry(r, "changed", to)
      BY <2>2 DEF CheckNowWrite
    <3> HIDE DEF to
    <3> QED
      BY <1>1, <1>3, <3>1, <3>2, EndIsRun, CarryIsRun
  <2> QED
    BY <2>1, <2>2 DEF RequestStep
<1>5. UNCHANGED <<firing, switches, dispatch, readers, mishaps>>
  BY DEF RequestStep, CheckNowLock, CheckNowWrite
<1> QED
  BY <1>4, <1>5 DEF RestOK, switches, dispatch, readers, sweeps, mishaps

LEMMA AnyRunRest ==
    ASSUME NEW r \in Runs, RowsOK, RestOK, AnyRunStep(r) \/ RunDies(r) PROVE RestOK'
<1>1. /\ run \in [Runs -> Run] /\ run[r].check \in Checks
      /\ run[r].to \in Status \union {"same"}
  BY RunFields DEF RestOK
<1>2. /\ {"parking", "changed", "opening"} \subseteq Stage
      /\ {"skipped", "down"} \subseteq Status
  BY DEF Stage, Status
<1>3. /\ \/ End(r) \/ Carry(r, "parking", run[r].to) \/ Carry(r, "changed", "skipped")
         \/ Carry(r, "opening", "down")
      /\ UNCHANGED <<switches, dispatch, readers>>
      /\ firing' \subseteq firing \union {run[r].check}
      /\ crashes' \in {crashes, crashes + 1} /\ UNCHANGED <<slow, features>>
  <2>1. CASE ReparkRead(r)
    BY <2>1 DEF ReparkRead, AfterRepark, mishaps, row
  <2>2. CASE ReparkWrite(r)
    <3>1. firing' \subseteq firing
      BY <2>2, ParkRows DEF ReparkWrite
    <3> QED
      BY <2>2, <3>1 DEF ReparkWrite, AfterRepark, mishaps
  <2>3. CASE AlertRead(r)
    BY <2>3 DEF AlertRead, mishaps
  <2>4. CASE AlertOpen(r)
    BY <2>4 DEF AlertOpen, mishaps
  <2>5. CASE RunDies(r)
    BY <2>5 DEF RunDies
  <2> QED
    BY <2>1, <2>2, <2>3, <2>4, <2>5 DEF AnyRunStep
<1>4. run' \in [Runs -> Run]
  BY <1>1, <1>2, <1>3, EndIsRun, CarryIsRun
<1> QED
  BY <1>1, <1>3, <1>4 DEF RestOK, switches, dispatch, readers, sweeps

LEMMA OperatorRest == ASSUME RowsOK, RestOK, OperatorStep PROVE RestOK'
<1> USE DEF RestOK, switches, dispatch, readers, sweeps, mishaps
<1>1. ASSUME NEW a \in Addresses, Exclude(a) PROVE RestOK'
  <2>1. firing' \subseteq firing
    BY <1>1, ParkRows DEF Exclude
  <2> QED
    BY <1>1, <2>1 DEF Exclude
<1>2. ASSUME NEW a \in Addresses, Include(a) PROVE RestOK'
  BY <1>2 DEF Include
<1>3. ASSUME NEW a \in Addresses, ToggleSkip(a) \/ LoadCopy(a) \/ SaveCopy(a)
      PROVE  RestOK'
  BY <1>3 DEF ToggleSkip, LoadCopy, SaveCopy
<1>4. ASSUME NEW c \in Checks, ToggleSchedule(c) PROVE RestOK'
  BY <1>4 DEF ToggleSchedule
<1>5. ASSUME NEW r \in Requests, NEW c \in Checks, Ask(r, c) PROVE RestOK'
  <2>1. Fresh("asked", c, "same") \in Run
    BY FreshIsRun DEF Stage
  <2>2. run' \in [Runs -> Run]
    BY <1>5, <2>1, BecomeIsRun DEF Ask, Runs
  <2> QED
    BY <1>5, <2>2 DEF Ask
<1>6. ASSUME NEW S \in SUBSET Checks, BulkArmRead(S) \/ BulkArmWrite PROVE RestOK'
  BY <1>6 DEF BulkArmRead, BulkArmWrite
<1> QED
  BY <1>1, <1>2, <1>3, <1>4, <1>5, <1>6 DEF OperatorStep

LEMMA StepRest == RowsOK /\ RestOK /\ [Next]_vars => RestOK'
<1> SUFFICES ASSUME RowsOK, RestOK, [Next]_vars PROVE RestOK'
  OBVIOUS
<1>1. CASE Reap
  BY <1>1 DEF Reap, RestOK, switches, dispatch, readers, sweeps, mishaps
<1>2. ASSUME NEW d \in Dispatchers, DispatcherStep(d) \/ DispatcherDies(d) PROVE RestOK'
  BY <1>2, DispatcherRest
<1>3. ASSUME NEW r \in Jobs, JobStep(r) PROVE RestOK'
  BY <1>3, JobRest
<1>4. ASSUME NEW r \in Requests, RequestStep(r) PROVE RestOK'
  BY <1>4, RequestRest
<1>5. ASSUME NEW r \in Runs, AnyRunStep(r) \/ RunDies(r) PROVE RestOK'
  BY <1>5, AnyRunRest
<1>6. CASE SweepStep
  BY <1>6 DEF SweepStep, HealRead, HealWrite, CloseRead, CloseWrite, RestOK,
              switches, dispatch, readers, sweeps, mishaps
<1>7. CASE OperatorStep
  BY <1>7, OperatorRest
<1>8. ASSUME NEW c \in Checks, BecomesDue(c) \/ BecomesOverdue(c) PROVE RestOK'
  BY <1>8 DEF BecomesDue, BecomesOverdue, RestOK, switches, dispatch, readers, sweeps, mishaps
<1>9. CASE UNCHANGED vars
  BY <1>9 DEF vars, RestOK, switches, dispatch, readers, sweeps, mishaps
<1> QED
  BY <1>1, <1>2, <1>3, <1>4, <1>5, <1>6, <1>7, <1>8, <1>9 DEF Next

LEMMA InitIInv == Init => IInv
<1> SUFFICES ASSUME Init PROVE IInv
  OBVIOUS
<1>1. RowsOK
  BY DEF Init, RowsOK, ClaimsAreStamped, Status
<1>2. RestOK
  BY FreeIsRun DEF Init, RestOK
<1> QED
  BY <1>1, <1>2 DEF IInv

LEMMA Inductive == Spec => []IInv
<1>1. IInv /\ [Next]_vars => IInv'
  BY StepRows, StepRest DEF IInv
<1> QED
  BY <1>1, InitIInv, PTL DEF Spec

\* Every column, switch and run keeps its type, whatever the engine does.
THEOREM TypeCorrect == Spec => []TypeOK
<1>1. IInv => TypeOK
  BY IInvMeans
<1> QED
  BY <1>1, Inductive, PTL

\* in_flight and in_flight_since agree in every row: the write guard and the
\* dispatcher, which each read only one of them, read the same claim.
THEOREM ClaimsStamped == Spec => []ClaimsAreStamped
<1>1. IInv => ClaimsAreStamped
  BY IInvMeans
<1> QED
  BY <1>1, Inductive, PTL

-----------------------------------------------------------------------------

\* A step that gives rows back, or leaves them, does not re-stamp a claim.
StampsKept == \A c \in Checks : c \in inFlight /\ c \in inFlight' => since'[c] = since[c]

LEMMA StepStamps == IInv /\ [Next]_vars => StampsKept
<1> SUFFICES ASSUME IInv, [Next]_vars PROVE StampsKept
  OBVIOUS
<1> USE DEF StampsKept
<1>1. CASE UNCHANGED claim
  BY <1>1 DEF claim
<1>2. CASE Reap
  BY <1>2 DEF Reap, On
<1>3. ASSUME NEW d \in Dispatchers, Claim(d) PROVE StampsKept
  BY <1>3 DEF Claim, Claimable, On
<1>4. ASSUME NEW S, Park(S) PROVE StampsKept
  BY <1>4 DEF Park, On
<1>5. ASSUME NEW r \in Jobs, NEW new, WriteBack(r, new) PROVE StampsKept
  BY <1>5 DEF WriteBack, On
<1>6. ASSUME NEW a \in Addresses, Include(a) PROVE StampsKept
  BY <1>6 DEF Include, On
<1>7. ASSUME NEW c \in Checks, BecomesOverdue(c) PROVE StampsKept
  BY <1>7 DEF BecomesOverdue
<1>8. ASSUME BulkArmWrite PROVE StampsKept
  BY <1>8 DEF BulkArmWrite
<1>9. CASE \/ SweepStep
           \/ \E d \in Dispatchers : DispatcherStep(d) \/ DispatcherDies(d)
  BY <1>1, <1>3, <1>9 DEF SweepStep, HealRead, HealWrite, CloseRead, CloseWrite,
     DispatcherStep, Select, Enqueue, DispatcherDies, row
<1>10. CASE \E r \in Jobs : JobStep(r)
  BY <1>1, <1>5, <1>10 DEF JobStep, Start, MarkSkipped, Guard, Write, Heal, row
<1>11. CASE \/ \E r \in Requests : RequestStep(r)
            \/ \E r \in Runs : AnyRunStep(r) \/ RunDies(r)
  BY <1>1, <1>4, <1>11 DEF RequestStep, CheckNowLock, CheckNowWrite, AnyRunStep,
     ReparkRead, ReparkWrite, AlertRead, AlertOpen, RunDies, row
<1>12. CASE OperatorStep
  BY <1>1, <1>4, <1>6, <1>8, <1>12 DEF OperatorStep, Exclude, ToggleSkip, LoadCopy,
     SaveCopy, ToggleSchedule, Ask, BulkArmRead, row
<1>13. CASE \E c \in Checks : BecomesDue(c) \/ BecomesOverdue(c)
  BY <1>1, <1>7, <1>13 DEF BecomesDue
<1> QED
  BY <1>1, <1>2, <1>9, <1>10, <1>11, <1>12, <1>13 DEF Next, vars, row

\* A claim is never replaced by another one: in between, the check is given
\* back, taken back or parked.
THEOREM LiveClaimKeptThm == Spec => LiveClaimKept
<1>1. IInv /\ [Next]_vars =>
        [\A c \in Checks : c \in inFlight /\ c \in inFlight' => since'[c] = since[c]]_vars
  BY StepStamps DEF StampsKept
<1> QED
  BY <1>1, Inductive, PTL DEF Spec, LiveClaimKept

-----------------------------------------------------------------------------
(* One holder.  No address is ever switched off, so no run is parking a row, *)
(* and what is overdue has no holder left for the reaper to rob.             *)

NobodySwitches ==
    /\ excluded = {} /\ \A a \in Addresses : copy[a] # "on"
    /\ \A r \in Runs : run[r].stage \notin {"stray", "parking"}

OverdueIsDropped == slow = 0 /\ \A c \in overdue : ~Held(c)

HInv == NobodySwitches /\ OverdueIsDropped /\ OneHolder

Holding == {"queued", "running", "skipping", "guarded"}

\* A step that hands no check to anybody new.
FewerHolders ==
    \A c \in Checks :
        /\ HoldingRuns(c)' \subseteq HoldingRuns(c)
        /\ HoldingDispatchers(c)' \subseteq HoldingDispatchers(c)

LEMMA SameHolders == UNCHANGED <<run, won>> => FewerHolders
  BY DEF FewerHolders, HoldingRuns, HoldingDispatchers

\* A run that becomes something else holds no more than it did.
LEMMA BecomeFewer ==
    ASSUME run \in [Runs -> Run], NEW r \in Runs, NEW after, Become(r, after),
           UNCHANGED won,
           \/ after.stage \notin Holding
           \/ r \notin Jobs
           \/ run[r].stage \in Holding /\ after.check = run[r].check
    PROVE  FewerHolders
<1>1. run' = [run EXCEPT ![r] = after]
  BY DEF Become
<1>2. \A s \in Jobs : s \in Runs
  BY DEF Runs
<1>3. ASSUME NEW c \in Checks PROVE HoldingRuns(c)' \subseteq HoldingRuns(c)
  BY <1>1, <1>2 DEF HoldingRuns, Holding
<1>4. ASSUME NEW c \in Checks
      PROVE  HoldingDispatchers(c)' \subseteq HoldingDispatchers(c)
  BY DEF HoldingDispatchers
<1> QED
  BY <1>3, <1>4 DEF FewerHolders

LEMMA EndFewer ==
    ASSUME run \in [Runs -> Run], NEW r \in Runs, End(r), UNCHANGED won
    PROVE  FewerHolders
<1>1. Free.stage = "free"
  BY DEF Free, Fresh
<1> QED
  BY <1>1, BecomeFewer DEF End, Holding

LEMMA CarryFewer ==
    ASSUME run \in [Runs -> Run], NEW r \in Runs, NEW stage, NEW to,
           stage \notin Holding, Carry(r, stage, to), UNCHANGED won
    PROVE  FewerHolders
<1>1. Fresh(stage, run[r].check, to).stage = stage
  BY DEF Fresh
<1> QED
  BY <1>1, BecomeFewer DEF Carry

\* Nobody new holds a check, and no claim is dropped from under its holder.
LEMMA FewerIsOne ==
    ASSUME OneHolder, FewerHolders,
           \A c \in Checks : Held(c)' => (c \in inFlight => c \in inFlight')
    PROVE  OneHolder'
<1> SUFFICES ASSUME NEW c \in Checks
    PROVE  /\ Held(c)' => c \in inFlight'
           /\ \A r, s \in HoldingRuns(c)' : r = s
           /\ \A d, e \in HoldingDispatchers(c)' : d = e
           /\ HoldingRuns(c)' = {} \/ HoldingDispatchers(c)' = {}
  BY DEF OneHolder
<1>1. /\ HoldingRuns(c)' \subseteq HoldingRuns(c)
      /\ HoldingDispatchers(c)' \subseteq HoldingDispatchers(c)
  BY DEF FewerHolders
<1>2. Held(c)' => Held(c)
  BY <1>1 DEF Held
<1> QED
  BY <1>1, <1>2 DEF OneHolder

\* ... and what is overdue stays dropped.
LEMMA FewerOverdue ==
    ASSUME OverdueIsDropped, FewerHolders, overdue' \subseteq overdue,
           overdue' \subseteq Checks, slow' = slow
    PROVE  OverdueIsDropped'
<1>1. \A c \in Checks : Held(c)' => Held(c)
  BY DEF FewerHolders, Held
<1> QED
  BY <1>1 DEF OverdueIsDropped

\* The common case: both follow.
LEMMA FewerKeeps ==
    ASSUME IInv, HInv, FewerHolders, UNCHANGED <<inFlight, overdue, slow>>
    PROVE  OverdueIsDropped' /\ OneHolder'
<1>1. overdue' \subseteq Checks
  BY DEF IInv, RowsOK
<1> QED
  BY <1>1, FewerIsOne, FewerOverdue DEF HInv

LEMMA ReapHolders == ASSUME IInv, HInv, Reap PROVE OverdueIsDropped' /\ OneHolder'
<1>1. FewerHolders
  BY SameHolders DEF Reap, dispatch
<1>2. ASSUME NEW c \in Checks, Held(c)', c \in inFlight PROVE c \in inFlight'
  <2>1. Held(c)
    BY <1>1, <1>2 DEF FewerHolders, Held
  <2>2. ~Stuck(c)
    BY <1>2, <2>1 DEF Stuck, HInv, OverdueIsDropped, IInv, RowsOK, ClaimsAreStamped
  <2> QED
    BY <1>2, <2>2 DEF Reap
<1>3. overdue' \subseteq overdue /\ overdue' \subseteq Checks /\ slow' = slow
  BY DEF Reap, IInv, RowsOK, mishaps
<1> QED
  BY <1>1, <1>2, <1>3, FewerIsOne, FewerOverdue DEF HInv

LEMMA ClaimHolders ==
    ASSUME NEW d \in Dispatchers, IInv, HInv, Claim(d)
    PROVE  OverdueIsDropped' /\ OneHolder'
<1> DEFINE mine == {c \in selected[d] : Claimable(c)}
<1>1. /\ won' = [won EXCEPT ![d] = mine] /\ inFlight' = inFlight \union mine
      /\ overdue' = overdue \ mine /\ run' = run /\ slow' = slow
  BY DEF Claim, mishaps
<1>2. \A c \in mine : c \notin inFlight
  BY DEF Claimable
<1>3. won \in [Dispatchers -> SUBSET Checks] /\ overdue \subseteq Checks
  BY DEF IInv, RowsOK, RestOK
<1> HIDE DEF mine
<1>4. ASSUME NEW c \in Checks PROVE HoldingRuns(c)' = HoldingRuns(c)
  BY <1>1 DEF HoldingRuns
<1>5. ASSUME NEW c \in Checks, c \notin mine
      PROVE  HoldingDispatchers(c)' \subseteq HoldingDispatchers(c)
  BY <1>1, <1>3, <1>5 DEF HoldingDispatchers
<1>6. ASSUME NEW c \in mine, c \in Checks
      PROVE  HoldingRuns(c) = {} /\ HoldingDispatchers(c) = {}
  BY <1>2, <1>6 DEF HInv, OneHolder, Held
<1>7. ASSUME NEW c \in mine, c \in Checks PROVE HoldingDispatchers(c)' \subseteq {d}
  BY <1>1, <1>3, <1>6, <1>7 DEF HoldingDispatchers
<1>8. ASSUME NEW c \in Checks
      PROVE  /\ Held(c)' => c \in inFlight'
             /\ \A r, s \in HoldingRuns(c)' : r = s
             /\ \A e, f \in HoldingDispatchers(c)' : e = f
             /\ HoldingRuns(c)' = {} \/ HoldingDispatchers(c)' = {}
  <2>1. CASE c \in mine
    BY <1>1, <1>4, <1>6, <1>7, <2>1
  <2>2. CASE c \notin mine
    <3>1. Held(c)' => Held(c)
      BY <1>4, <1>5, <2>2 DEF Held
    <3> QED
      BY <1>1, <1>4, <1>5, <2>2, <3>1 DEF HInv, OneHolder
  <2> QED
    BY <2>1, <2>2
<1>9. ASSUME NEW c \in overdue' PROVE ~Held(c)'
  <2>1. c \in Checks /\ c \notin mine /\ ~Held(c)
    BY <1>1, <1>3 DEF HInv, OverdueIsDropped
  <2> QED
    BY <1>4, <1>5, <2>1 DEF Held
<1> QED
  BY <1>1, <1>8, <1>9 DEF OneHolder, OverdueIsDropped, HInv

LEMMA EnqueueHolders ==
    ASSUME NEW d \in Dispatchers, NEW c \in Checks, NEW j \in Jobs, IInv, HInv,
           Enqueue(d, c, j)
    PROVE  OverdueIsDropped' /\ OneHolder'
<1> DEFINE queued == Fresh("queued", c, "same")
<1>1. /\ c \in won[d] /\ won' = [won EXCEPT ![d] = won[d] \ {c}]
      /\ run' = [run EXCEPT ![j] = queued] /\ UNCHANGED <<inFlight, overdue, slow>>
  BY DEF Enqueue, Become, row, claim, mishaps
<1>2. queued.stage = "queued" /\ queued.check = c
  BY DEF Fresh
<1>3. /\ won \in [Dispatchers -> SUBSET Checks] /\ run \in [Runs -> Run]
      /\ overdue \subseteq Checks /\ Jobs \subseteq Runs
  BY DEF IInv, RowsOK, RestOK, Runs
<1> HIDE DEF queued
<1>4. d \in HoldingDispatchers(c)
  BY <1>1 DEF HoldingDispatchers
<1>5. HoldingRuns(c) = {} /\ HoldingDispatchers(c) = {d} /\ c \in inFlight
  BY <1>4 DEF HInv, OneHolder, Held
<1>6. HoldingRuns(c)' \subseteq {j}
  BY <1>1, <1>3, <1>5 DEF HoldingRuns
<1>7. HoldingDispatchers(c)' = {}
  BY <1>1, <1>3, <1>5 DEF HoldingDispatchers
<1>8. ASSUME NEW b \in Checks, b # c
      PROVE  /\ HoldingRuns(b)' \subseteq HoldingRuns(b)
             /\ HoldingDispatchers(b)' \subseteq HoldingDispatchers(b)
  <2>1. HoldingRuns(b)' \subseteq HoldingRuns(b)
    BY <1>1, <1>2, <1>3, <1>8 DEF HoldingRuns
  <2>2. HoldingDispatchers(b)' \subseteq HoldingDispatchers(b)
    BY <1>1, <1>3, <1>8 DEF HoldingDispatchers
  <2> QED
    BY <2>1, <2>2
<1>9. ASSUME NEW b \in Checks
      PROVE  /\ Held(b)' => Held(b)
             /\ Held(b)' => b \in inFlight'
             /\ \A r, s \in HoldingRuns(b)' : r = s
             /\ \A e, f \in HoldingDispatchers(b)' : e = f
             /\ HoldingRuns(b)' = {} \/ HoldingDispatchers(b)' = {}
  <2>1. CASE b = c
    BY <1>1, <1>5, <1>6, <1>7, <2>1 DEF Held
  <2>2. CASE b # c
    <3>1. Held(b)' => Held(b)
      BY <1>8, <2>2 DEF Held
    <3> QED
      BY <1>1, <1>8, <2>2, <3>1 DEF HInv, OneHolder
  <2> QED
    BY <2>1, <2>2
<1> QED
  BY <1>1, <1>3, <1>9 DEF OneHolder, OverdueIsDropped, HInv

\* A job that writes its check back was its only holder.
LEMMA WriteBackHolders ==
    ASSUME NEW r \in Jobs, NEW new, NEW to, IInv, HInv,
           run[r].stage \in Holding, WriteBack(r, new), Carry(r, "written", to),
           UNCHANGED <<won, slow>>
    PROVE  OverdueIsDropped' /\ OneHolder'
<1>1. /\ run \in [Runs -> Run] /\ r \in Runs /\ overdue \subseteq Checks
  BY DEF IInv, RowsOK, RestOK, Runs
<1>2. FewerHolders
  BY <1>1, CarryFewer DEF Holding
<1>3. /\ inFlight' = inFlight \ {run[r].check} /\ overdue' = overdue \ {run[r].check}
  BY DEF WriteBack
<1>4. run' = [run EXCEPT ![r] = Fresh("written", run[r].check, to)]
  BY DEF Carry, Become
<1>5. Fresh("written", run[r].check, to).stage = "written"
  BY DEF Fresh
<1>6. ASSUME NEW c \in Checks, Held(c)', c \in inFlight PROVE c \in inFlight'
  <2>1. CASE c = run[r].check
    <3>1. r \in HoldingRuns(c)
      BY <2>1 DEF HoldingRuns, Holding
    <3>2. HoldingRuns(c) \subseteq {r} /\ HoldingDispatchers(c) = {}
      BY <3>1 DEF HInv, OneHolder
    <3>3. r \notin HoldingRuns(c)'
      BY <1>1, <1>4, <1>5 DEF HoldingRuns
    <3>4. ~Held(c)'
      BY <1>2, <3>2, <3>3 DEF FewerHolders, Held
    <3> QED
      BY <1>6, <3>4
  <2>2. CASE c # run[r].check
    BY <1>3, <1>6, <2>2
  <2> QED
    BY <2>1, <2>2
<1> QED
  BY <1>1, <1>2, <1>3, <1>6, FewerIsOne, FewerOverdue DEF HInv

LEMMA JobHolders ==
    ASSUME NEW r \in Jobs, IInv, HInv, JobStep(r)
    PROVE  OverdueIsDropped' /\ OneHolder'
<1>1. r \in Runs /\ run \in [Runs -> Run]
  BY DEF Runs, IInv, RestOK
<1>2. UNCHANGED <<won, slow>>
  BY DEF JobStep, Start, MarkSkipped, Guard, Write, Heal, dispatch, mishaps
<1>3. CASE Start(r)
  <2> DEFINE c == run[r].check
             loaded == [stage |-> StartStage(c), check |-> c, old |-> status[c],
                        stamp |-> since[c], on |-> c \in scheduled, to |-> "same"]
  <2>1. /\ run[r].stage \in Holding /\ ~Excluded(c)
    BY <1>3 DEF Start, At, Holding, HInv, NobodySwitches, Excluded
  <2>2. Become(r, loaded)
    BY <1>3, <2>1 DEF Start
  <2>3. loaded.check = c
    OBVIOUS
  <2> HIDE DEF loaded
  <2>4. FewerHolders
    BY <1>1, <1>2, <2>1, <2>2, <2>3, BecomeFewer
  <2> QED
    BY <1>2, <1>3, <2>4, FewerKeeps DEF Start, row, claim
<1>4. CASE MarkSkipped(r)
  BY <1>2, <1>4, WriteBackHolders DEF MarkSkipped, At, Holding
<1>5. CASE Guard(r)
  <2> DEFINE guarded == [run[r] EXCEPT !.stage = "guarded"]
  <2>1. guarded.check = run[r].check
    BY <1>1 DEF Run
  <2>2. End(r) \/ Carry(r, "stray", "same") \/ Become(r, guarded)
    BY <1>5 DEF Guard
  <2>3. run[r].stage \in Holding
    BY <1>5 DEF Guard, At, Holding
  <2> HIDE DEF guarded
  <2>4. FewerHolders
    BY <1>1, <1>2, <2>1, <2>2, <2>3, EndFewer, CarryFewer, BecomeFewer DEF Holding
  <2> QED
    BY <1>2, <1>5, <2>4, FewerKeeps DEF Guard, row, claim
<1>6. ASSUME NEW new \in Verdicts(run[r].old), Write(r, new)
      PROVE  OverdueIsDropped' /\ OneHolder'
  BY <1>2, <1>6, WriteBackHolders DEF Write, At, Holding
<1>7. CASE Heal(r)
  <2>1. FewerHolders
    BY <1>1, <1>2, <1>7, EndFewer, CarryFewer DEF Heal, AfterRepark, Holding
  <2> QED
    BY <1>2, <1>7, <2>1, FewerKeeps DEF Heal, row, claim
<1> QED
  BY <1>3, <1>4, <1>5, <1>6, <1>7 DEF JobStep

LEMMA RequestHolders ==
    ASSUME NEW r \in Requests, IInv, HInv, RequestStep(r)
    PROVE  OverdueIsDropped' /\ OneHolder'
<1>1. r \in Runs /\ r \notin Jobs /\ run \in [Runs -> Run]
  BY SetsAssumption DEF Runs, IInv, RestOK
<1>2. UNCHANGED <<inFlight, overdue, won, slow>>
  BY DEF RequestStep, CheckNowLock, CheckNowWrite, row, claim, dispatch, mishaps
<1>3. \E after : Become(r, after)
  BY DEF RequestStep, CheckNowLock, CheckNowWrite, End, Carry
<1>4. FewerHolders
  BY <1>1, <1>2, <1>3, BecomeFewer
<1> QED
  BY <1>2, <1>4, FewerKeeps

\* Nobody is parking: a run that is not a job's only ends or moves on.
LEMMA AnyRunHolders ==
    ASSUME NEW r \in Runs, IInv, HInv, AnyRunStep(r) \/ RunDies(r)
    PROVE  OverdueIsDropped' /\ OneHolder'
<1>1. run \in [Runs -> Run]
  BY DEF IInv, RestOK
<1>2. AlertRead(r) \/ AlertOpen(r) \/ RunDies(r)
  BY DEF AnyRunStep, ReparkRead, ReparkWrite, At, HInv, NobodySwitches
<1>3. UNCHANGED <<inFlight, overdue, won, slow>>
  BY <1>2 DEF AlertRead, AlertOpen, RunDies, row, claim, dispatch, mishaps
<1>4. FewerHolders
  BY <1>1, <1>2, <1>3, EndFewer, CarryFewer DEF AlertRead, AlertOpen, RunDies, Holding
<1> QED
  BY <1>3, <1>4, FewerKeeps

LEMMA OperatorHolders ==
    ASSUME "exclude" \notin features, IInv, HInv, OperatorStep
    PROVE  OverdueIsDropped' /\ OneHolder'
<1>1. CASE UNCHANGED <<inFlight, overdue, slow, run, won>>
  BY <1>1, FewerKeeps, SameHolders
<1>2. ASSUME NEW r \in Requests, NEW c \in Checks, Ask(r, c)
      PROVE  OverdueIsDropped' /\ OneHolder'
  <2>1. r \in Runs /\ r \notin Jobs /\ run \in [Runs -> Run]
    BY SetsAssumption DEF Runs, IInv, RestOK
  <2>2. FewerHolders
    BY <1>2, <2>1, BecomeFewer DEF Ask, dispatch
  <2> QED
    BY <1>2, <2>2, FewerKeeps DEF Ask, row, claim, mishaps
<1>3. ASSUME NEW a \in Addresses, Exclude(a) \/ Include(a) PROVE FALSE
  BY <1>3 DEF Exclude, Include
<1>4. ASSUME NEW a \in Addresses, ToggleSkip(a) \/ LoadCopy(a) \/ SaveCopy(a)
      PROVE  UNCHANGED <<inFlight, overdue, slow, run, won>>
  BY <1>4 DEF ToggleSkip, LoadCopy, SaveCopy, row, claim, dispatch, mishaps
<1>5. ASSUME NEW c \in Checks, ToggleSchedule(c)
      PROVE  UNCHANGED <<inFlight, overdue, slow, run, won>>
  BY <1>5 DEF ToggleSchedule, row, claim, dispatch, mishaps
<1>6. ASSUME NEW S \in SUBSET Checks, BulkArmRead(S) \/ BulkArmWrite
      PROVE  UNCHANGED <<inFlight, overdue, slow, run, won>>
  BY <1>6 DEF BulkArmRead, BulkArmWrite, ClaimsLeft, row, claim, dispatch, mishaps
<1> QED
  BY <1>1, <1>2, <1>3, <1>4, <1>5, <1>6 DEF OperatorStep

\* A claim with a holder does not become overdue where no run is slow.
LEMMA TimeHolders ==
    ASSUME MaxSlow = 0, NEW c \in Checks, IInv, HInv, BecomesDue(c) \/ BecomesOverdue(c)
    PROVE  OverdueIsDropped' /\ OneHolder'
<1>1. CASE BecomesDue(c)
  BY <1>1, FewerKeeps, SameHolders DEF BecomesDue, claim, dispatch, mishaps
<1>2. CASE BecomesOverdue(c)
  <2>1. ~Held(c)
    BY <1>2 DEF BecomesOverdue, MaySlow, HInv, OverdueIsDropped
  <2>2. /\ overdue' = overdue \union {c} /\ slow' = slow
        /\ UNCHANGED <<inFlight, run, won>>
    BY <1>2, <2>1 DEF BecomesOverdue, dispatch
  <2>3. \A b \in Checks : Held(b)' => Held(b)
    BY <2>2, SameHolders DEF FewerHolders, Held
  <2>4. overdue \subseteq Checks
    BY DEF IInv, RowsOK
  <2>5. OverdueIsDropped'
    BY <2>1, <2>2, <2>3, <2>4 DEF HInv, OverdueIsDropped
  <2>6. OneHolder'
    BY <2>2, SameHolders, FewerIsOne DEF HInv
  <2> QED
    BY <2>5, <2>6
<1> QED
  BY <1>1, <1>2

\* No address is switched: stale copies say "off" too, and no run parks.
LEMMA SwitchesStay ==
    ASSUME "exclude" \notin features, IInv, HInv, [Next]_vars
    PROVE  NobodySwitches'
<1>1. run \in [Runs -> Run] /\ Jobs \subseteq Runs /\ Requests \subseteq Runs
  BY DEF IInv, RestOK, Runs
<1>2. \A c : ~Excluded(c)
  BY DEF HInv, NobodySwitches, Excluded
<1>3. \A a \in Addresses : copy[a] # "on"
  BY DEF HInv, NobodySwitches
<1>4. /\ excluded = {} /\ copy \in [Addresses -> {"none", "on", "off"}]
  BY DEF HInv, NobodySwitches, IInv, RestOK
<1> DEFINE Still == /\ excluded' = {} /\ UNCHANGED copy
           Onward(r) == \E after : /\ Become(r, after)
                                   /\ after.stage \notin {"stray", "parking"}
<1>5. \A stage, c, to : Fresh(stage, c, to).stage = stage
  BY DEF Fresh
<1>6. Free.stage = "free"
  BY DEF Free, Fresh
<1>7. ASSUME NEW r \in Runs, Onward(r), Still PROVE NobodySwitches'
  BY <1>1, <1>7 DEF Become, HInv, NobodySwitches
<1>8. CASE UNCHANGED run /\ Still
  BY <1>8 DEF HInv, NobodySwitches
<1>9. ASSUME NEW r \in Runs, NEW stage, NEW to, stage \notin {"stray", "parking"},
             End(r) \/ Carry(r, stage, to)
      PROVE  Onward(r)
  BY <1>5, <1>6, <1>9 DEF End, Carry
<1> HIDE DEF Onward
<1>10. ASSUME NEW r \in Runs, NEW after, Become(r, after),
              after.stage \notin {"stray", "parking"}
       PROVE  Onward(r)
  BY <1>10 DEF Onward
<1>11. CASE \/ Reap \/ SweepStep
            \/ \E d \in Dispatchers : Select(d) \/ Claim(d) \/ DispatcherDies(d)
            \/ \E c \in Checks : BecomesDue(c) \/ BecomesOverdue(c)
  BY <1>4, <1>8, <1>11 DEF Reap, SweepStep, HealRead, HealWrite, CloseRead, CloseWrite,
     Select, Claim, DispatcherDies, BecomesDue, BecomesOverdue, switches, readers, sweeps
<1>12. ASSUME NEW d \in Dispatchers, NEW c \in Checks, NEW j \in Jobs, Enqueue(d, c, j)
       PROVE  NobodySwitches'
  <2>1. Onward(j) /\ Still
    BY <1>1, <1>4, <1>5, <1>10, <1>12 DEF Enqueue, switches, readers, sweeps
  <2> QED
    BY <1>1, <1>7, <2>1
<1>13. ASSUME NEW r \in Jobs, JobStep(r) PROVE NobodySwitches'
  <2> DEFINE c == run[r].check
             loaded == [stage |-> StartStage(c), check |-> c, old |-> status[c],
                        stamp |-> since[c], on |-> c \in scheduled, to |-> "same"]
             guarded == [run[r] EXCEPT !.stage = "guarded"]
  <2>1. Still
    BY <1>4, <1>13 DEF JobStep, Start, MarkSkipped, Guard, Write, Heal, switches, readers, sweeps
  <2>2. Start(r) => Become(r, loaded)
    BY <1>2 DEF Start
  <2>3. loaded.stage \notin {"stray", "parking"}
    BY <1>2 DEF StartStage
  <2>4. guarded.stage = "guarded"
    BY <1>1 DEF Run
  <2>5. Guard(r) => End(r) \/ Become(r, guarded)
    BY <1>2 DEF Guard
  <2>6. Heal(r) => End(r) \/ Carry(r, "changed", run[r].to)
    BY <1>2 DEF Heal
  <2> HIDE DEF loaded, guarded
  <2>7. Onward(r)
    <3>1. CASE Start(r)
      BY <1>1, <1>10, <2>2, <2>3, <3>1
    <3>2. CASE Guard(r)
      BY <1>1, <1>9, <1>10, <2>4, <2>5, <3>2
    <3>3. CASE Heal(r)
      BY <1>1, <1>9, <2>6, <3>3
    <3>4. CASE MarkSkipped(r)
      BY <1>1, <1>9, <3>4 DEF MarkSkipped
    <3>5. ASSUME NEW new, Write(r, new) PROVE Onward(r)
      BY <1>1, <1>9, <3>5 DEF Write
    <3> QED
      BY <1>13, <3>1, <3>2, <3>3, <3>4, <3>5 DEF JobStep
  <2> QED
    BY <1>1, <1>7, <2>1, <2>7
<1>14. ASSUME NEW r \in Requests, RequestStep(r) PROVE NobodySwitches'
  <2> DEFINE read == [Fresh("locked", run[r].check, "same")
                        EXCEPT !.old = status[run[r].check]]
  <2>1. Still
    BY <1>4, <1>14 DEF RequestStep, CheckNowLock, CheckNowWrite, switches, readers, sweeps
  <2>2. read.stage = "locked"
    BY DEF Fresh
  <2>3. CheckNowLock(r) => Become(r, read)
    BY <1>2 DEF CheckNowLock
  <2> HIDE DEF read
  <2>4. Onward(r)
    <3>1. CASE CheckNowLock(r)
      BY <1>1, <1>10, <2>2, <2>3, <3>1
    <3>2. ASSUME NEW new, CheckNowWrite(r, new) PROVE Onward(r)
      BY <1>1, <1>9, <3>2 DEF CheckNowWrite
    <3> QED
      BY <1>14, <3>1, <3>2 DEF RequestStep
  <2> QED
    BY <1>1, <1>7, <2>1, <2>4
<1>15. ASSUME NEW r \in Runs, AnyRunStep(r) \/ RunDies(r) PROVE NobodySwitches'
  <2>1. AlertRead(r) \/ AlertOpen(r) \/ RunDies(r)
    BY <1>15 DEF AnyRunStep, ReparkRead, ReparkWrite, At, HInv, NobodySwitches
  <2>2. Still
    BY <1>4, <2>1 DEF AlertRead, AlertOpen, RunDies, switches, readers, sweeps
  <2>3. Onward(r)
    BY <1>9, <2>1 DEF AlertRead, AlertOpen, RunDies
  <2> QED
    BY <1>7, <2>2, <2>3
<1>16. CASE OperatorStep
  <2>1. ASSUME NEW a \in Addresses, LoadCopy(a) \/ SaveCopy(a) PROVE NobodySwitches'
    <3>1. excluded' = {} /\ run' = run
      BY <1>3, <1>4, <2>1 DEF LoadCopy, SaveCopy, switches
    <3>2. \A b \in Addresses : copy'[b] # "on"
      BY <1>3, <1>4, <2>1 DEF LoadCopy, SaveCopy
    <3> QED
      BY <3>1, <3>2 DEF HInv, NobodySwitches
  <2>2. ASSUME NEW a \in Addresses, Exclude(a) \/ Include(a) PROVE FALSE
    BY <2>2 DEF Exclude, Include
  <2>3. ASSUME NEW a \in Addresses, ToggleSkip(a) PROVE NobodySwitches'
    BY <1>4, <1>8, <2>3 DEF ToggleSkip, readers, sweeps
  <2>4. ASSUME NEW c \in Checks, ToggleSchedule(c) PROVE NobodySwitches'
    BY <1>4, <1>8, <2>4 DEF ToggleSchedule, readers, sweeps
  <2>5. ASSUME NEW r \in Requests, NEW c \in Checks, Ask(r, c) PROVE NobodySwitches'
    <3>1. Onward(r) /\ Still
      BY <1>1, <1>4, <1>5, <1>10, <2>5 DEF Ask, switches, readers, sweeps
    <3> QED
      BY <1>1, <1>7, <3>1
  <2>6. ASSUME NEW S, BulkArmRead(S) \/ BulkArmWrite PROVE NobodySwitches'
    BY <1>4, <1>8, <2>6 DEF BulkArmRead, BulkArmWrite, switches
  <2> QED
    BY <1>16, <2>1, <2>2, <2>3, <2>4, <2>5, <2>6 DEF OperatorStep
<1>17. CASE UNCHANGED vars
  BY <1>4, <1>8, <1>17 DEF vars, switches, readers, sweeps
<1> QED
  BY <1>11, <1>12, <1>13, <1>14, <1>15, <1>16, <1>17 DEF Next, DispatcherStep

LEMMA StepHInv ==
    "exclude" \notin features /\ MaxSlow = 0 /\ IInv /\ HInv /\ [Next]_vars => HInv'
<1> SUFFICES ASSUME "exclude" \notin features, MaxSlow = 0, IInv, HInv, [Next]_vars
             PROVE  OverdueIsDropped' /\ OneHolder'
  BY SwitchesStay DEF HInv
<1>1. CASE Reap
  BY <1>1, ReapHolders
<1>2. ASSUME NEW d \in Dispatchers, DispatcherStep(d) \/ DispatcherDies(d)
      PROVE  OverdueIsDropped' /\ OneHolder'
  <2>1. CASE Claim(d)
    BY <2>1, ClaimHolders
  <2>2. ASSUME NEW c \in Checks, NEW j \in Jobs, Enqueue(d, c, j)
        PROVE  OverdueIsDropped' /\ OneHolder'
    BY <2>2, EnqueueHolders
  <2>3. CASE Select(d)
    BY <2>3, FewerKeeps, SameHolders DEF Select, row, claim, mishaps
  <2>4. CASE DispatcherDies(d)
    <3>1. won \in [Dispatchers -> SUBSET Checks]
      BY DEF IInv, RestOK
    <3>2. run' = run /\ won' = [won EXCEPT ![d] = {}]
      BY <2>4 DEF DispatcherDies
    <3>3. FewerHolders
      BY <3>1, <3>2 DEF FewerHolders, HoldingRuns, HoldingDispatchers
    <3> QED
      BY <2>4, <3>3, FewerKeeps DEF DispatcherDies, row, claim
  <2> QED
    BY <1>2, <2>1, <2>2, <2>3, <2>4 DEF DispatcherStep
<1>3. ASSUME NEW r \in Jobs, JobStep(r) PROVE OverdueIsDropped' /\ OneHolder'
  BY <1>3, JobHolders
<1>4. ASSUME NEW r \in Requests, RequestStep(r) PROVE OverdueIsDropped' /\ OneHolder'
  BY <1>4, RequestHolders
<1>5. ASSUME NEW r \in Runs, AnyRunStep(r) \/ RunDies(r)
      PROVE  OverdueIsDropped' /\ OneHolder'
  BY <1>5, AnyRunHolders
<1>6. CASE SweepStep \/ UNCHANGED vars
  BY <1>6, FewerKeeps, SameHolders DEF SweepStep, HealRead, HealWrite, CloseRead,
     CloseWrite, vars, row, claim, dispatch, mishaps
<1>7. CASE OperatorStep
  BY <1>7, OperatorHolders
<1>8. ASSUME NEW c \in Checks, BecomesDue(c) \/ BecomesOverdue(c)
      PROVE  OverdueIsDropped' /\ OneHolder'
  BY <1>8, TimeHolders
<1> QED
  BY <1>1, <1>2, <1>3, <1>4, <1>5, <1>6, <1>7, <1>8 DEF Next

LEMMA InitHInv == Init => HInv
<1>1. Free.stage = "free"
  BY DEF Free, Fresh
<1>2. ASSUME Init PROVE \A c \in Checks : ~Held(c)
  BY <1>1, <1>2 DEF Init, Held, HoldingRuns, HoldingDispatchers, Runs
<1>3. ASSUME Init PROVE OneHolder
  BY <1>1, <1>3 DEF Init, OneHolder, Held, HoldingRuns, HoldingDispatchers, Runs
<1>4. Init => NobodySwitches
  BY <1>1 DEF Init, NobodySwitches
<1> QED
  BY <1>2, <1>3, <1>4 DEF HInv, OverdueIsDropped, Init

\* While no address is switched and no run outlives the deadline, no check is
\* in the hands of two dispatchers or workers and no held check is out of
\* flight, however clicks, crashes, reaps and stale saves interleave.
THEOREM OneHolderThm ==
    ASSUME \A f \in Profiles : "exclude" \notin f, MaxSlow = 0
    PROVE  Spec => []OneHolder
<1>1. Init => HInv
  BY InitHInv
<1>2. IInv /\ HInv /\ [Next]_vars => HInv'
  BY StepHInv DEF IInv, RestOK
<1>3. HInv => OneHolder
  BY DEF HInv
<1> QED
  BY <1>1, <1>2, <1>3, Inductive, PTL DEF Spec

-----------------------------------------------------------------------------
(* The service.                                                            *)

Taken == {c \in inFlight : Held(c)}
Lost == {c \in inFlight : ~Held(c)}
ServiceStep == [Service!Next]_(Service!vars)

\* The four steps of the service, and its stutter, as steps of the rows.
LEMMA Stutters ==
    ASSUME Taken' = Taken, Lost' = Lost, status' = status
    PROVE  ServiceStep
  BY DEF ServiceStep, Service!vars, Taken, Lost

LEMMA Takes ==
    ASSUME NEW S \in SUBSET Checks, S \intersect (Taken \union Lost) = {},
           Taken' = Taken \union S, Lost' = Lost, status' = status
    PROVE  ServiceStep
<1>1. Service!Take(S)
  BY DEF Service!Take, Taken, Lost
<1> QED
  BY <1>1 DEF ServiceStep, Service!Next

LEMMA Loses ==
    ASSUME NEW S \in SUBSET Checks, S \subseteq Taken,
           Taken' = Taken \ S, Lost' = Lost \union S, status' = status
    PROVE  ServiceStep
<1>1. Service!Lose(S)
  BY DEF Service!Lose, Taken, Lost
<1> QED
  BY <1>1 DEF ServiceStep, Service!Next

LEMMA Recovers ==
    ASSUME NEW S \in SUBSET Checks, S \subseteq Lost,
           Taken' = Taken, Lost' = Lost \ S, status' = status
    PROVE  ServiceStep
<1>1. Service!Recover(S)
  BY DEF Service!Recover, Taken, Lost
<1> QED
  BY <1>1 DEF ServiceStep, Service!Next

LEMMA Reports ==
    ASSUME NEW c \in Checks, NEW new \in Status, c \in Taken,
           Taken' = Taken \ {c}, Lost' = Lost, status' = [status EXCEPT ![c] = new]
    PROVE  ServiceStep
<1>1. Service!Report(c, new)
  BY DEF Service!Report, Taken, Lost
<1> QED
  BY <1>1 DEF ServiceStep, Service!Next

-----------------------------------------------------------------------------

\* A step that neither claims nor reports can only lose what a holder had.
LEMMA FewerLoses ==
    ASSUME IInv, FewerHolders, UNCHANGED <<inFlight, status>>
    PROVE  ServiceStep
<1> DEFINE S == Taken \ Taken'
<1>1. inFlight \subseteq Checks
  BY DEF IInv, RowsOK
<1>2. \A c \in Checks : Held(c)' => Held(c)
  BY DEF FewerHolders, Held
<1>3. Taken' \subseteq Taken /\ Lost' = Lost \union S
  BY <1>1, <1>2 DEF Taken, Lost
<1>4. S \in SUBSET Checks
  BY <1>1 DEF Taken
<1>5. Taken' = Taken \ S
  BY <1>3
<1> HIDE DEF S
<1>6. S \subseteq Taken
  BY DEF S
<1> QED
  BY <1>3, <1>4, <1>5, <1>6, Loses

\* The reaper recovers what nobody holds: what is overdue was dropped.
LEMMA ReapRecovers == ASSUME IInv, HInv, Reap PROVE ServiceStep
<1> DEFINE S == {c \in Checks : Stuck(c)}
<1>1. inFlight' = inFlight \ S /\ status' = status /\ UNCHANGED <<run, won>>
  BY DEF Reap, dispatch
<1>2. \A c \in Checks : Stuck(c) => c \in inFlight /\ c \in overdue
  BY DEF Stuck, IInv, RowsOK, ClaimsAreStamped
<1>3. S \subseteq Lost
  BY <1>2 DEF Lost, HInv, OverdueIsDropped
<1>4. \A c \in Checks : Held(c)' <=> Held(c)
  BY <1>1 DEF Held, HoldingRuns, HoldingDispatchers
<1>5. inFlight \subseteq Checks
  BY DEF IInv, RowsOK
<1> HIDE DEF S
<1>6. Taken' = Taken
  BY <1>1, <1>3, <1>4, <1>5 DEF Taken, Lost
<1>7. Lost' = Lost \ S
  BY <1>1, <1>4, <1>5 DEF Lost
<1>8. S \in SUBSET Checks
  BY DEF S
<1> QED
  BY <1>1, <1>3, <1>6, <1>7, <1>8, Recovers

\* A dispatcher has claimed and not enqueued, or read and not claimed: its claim
\* overwrites nothing.
OneBatch == \A d \in Dispatchers : selected[d] = {} \/ won[d] = {}

LEMMA StepBatch == IInv /\ OneBatch /\ [Next]_vars => OneBatch'
<1> SUFFICES ASSUME IInv, OneBatch, [Next]_vars PROVE OneBatch'
  OBVIOUS
<1>1. /\ won \in [Dispatchers -> SUBSET Checks]
      /\ selected \in [Dispatchers -> SUBSET Checks]
  BY DEF IInv, RestOK
<1>2. CASE UNCHANGED <<selected, won>>
  BY <1>2 DEF OneBatch
<1>3. ASSUME NEW d \in Dispatchers, Select(d) \/ Claim(d) \/ DispatcherDies(d)
      PROVE  OneBatch'
  BY <1>1, <1>3 DEF OneBatch, Select, Claim, DispatcherDies
<1>4. ASSUME NEW d \in Dispatchers, NEW c \in Checks, NEW j \in Jobs, Enqueue(d, c, j)
      PROVE  OneBatch'
  BY <1>1, <1>4 DEF OneBatch, Enqueue
<1>5. Reap \/ SweepStep => UNCHANGED <<selected, won>>
  BY DEF Reap, SweepStep, HealRead, HealWrite, CloseRead, CloseWrite, dispatch
<1>6. ASSUME NEW r \in Jobs PROVE JobStep(r) => UNCHANGED <<selected, won>>
  BY DEF JobStep, Start, MarkSkipped, Guard, Write, Heal, dispatch
<1>7. ASSUME NEW r \in Requests PROVE RequestStep(r) => UNCHANGED <<selected, won>>
  BY DEF RequestStep, CheckNowLock, CheckNowWrite, dispatch
<1>8. ASSUME NEW r \in Runs PROVE AnyRunStep(r) \/ RunDies(r) => UNCHANGED <<selected, won>>
  BY DEF AnyRunStep, ReparkRead, ReparkWrite, AlertRead, AlertOpen, RunDies, dispatch
<1>9. OperatorStep => UNCHANGED <<selected, won>>
  BY DEF OperatorStep, Exclude, Include, ToggleSkip, LoadCopy, SaveCopy, ToggleSchedule,
         Ask, BulkArmRead, BulkArmWrite, dispatch
<1>10. ASSUME NEW c \in Checks
       PROVE  BecomesDue(c) \/ BecomesOverdue(c) => UNCHANGED <<selected, won>>
  BY DEF BecomesDue, BecomesOverdue, dispatch
<1>11. UNCHANGED vars => UNCHANGED <<selected, won>>
  BY DEF vars, dispatch
<1> QED
  BY <1>2, <1>3, <1>4, <1>5, <1>6, <1>7, <1>8, <1>9, <1>10, <1>11 DEF Next, DispatcherStep

\* A dispatcher takes what it claims: it was in nobody's hands.
LEMMA ClaimTakes ==
    ASSUME NEW d \in Dispatchers, IInv, HInv, OneBatch, Claim(d)
    PROVE  ServiceStep
<1> DEFINE mine == {c \in selected[d] : Claimable(c)}
<1>1. /\ won' = [won EXCEPT ![d] = mine] /\ inFlight' = inFlight \union mine
      /\ run' = run /\ status' = status /\ won[d] = {} /\ selected[d] \subseteq Checks
  BY DEF Claim, IInv, RestOK, OneBatch
<1>2. /\ \A c \in mine : c \notin inFlight
      /\ mine \in SUBSET Checks
  BY <1>1 DEF Claimable
<1>3. won \in [Dispatchers -> SUBSET Checks] /\ inFlight \subseteq Checks
  BY DEF IInv, RowsOK, RestOK
<1> HIDE DEF mine
<1>4. ASSUME NEW c \in mine PROVE Held(c)'
  BY <1>1, <1>3, <1>4 DEF Held, HoldingDispatchers
<1>5. ASSUME NEW c \in Checks, c \notin mine PROVE Held(c)' <=> Held(c)
  <2>1. HoldingRuns(c)' = HoldingRuns(c)
    BY <1>1 DEF HoldingRuns
  <2>2. HoldingDispatchers(c)' = HoldingDispatchers(c)
    BY <1>1, <1>3, <1>5 DEF HoldingDispatchers
  <2> QED
    BY <2>1, <2>2 DEF Held
<1>6. Taken' = Taken \union mine
  BY <1>1, <1>2, <1>3, <1>4, <1>5 DEF Taken
<1>7. Lost' = Lost
  BY <1>1, <1>2, <1>3, <1>4, <1>5 DEF Lost
<1>8. mine \intersect (Taken \union Lost) = {}
  BY <1>2 DEF Taken, Lost
<1> QED
  BY <1>1, <1>2, <1>6, <1>7, <1>8, Takes

\* What is enqueued passes from the dispatcher to a job: it stays taken.
LEMMA EnqueueStutters ==
    ASSUME NEW d \in Dispatchers, NEW c \in Checks, NEW j \in Jobs, IInv, HInv,
           Enqueue(d, c, j)
    PROVE  ServiceStep
<1> DEFINE queued == Fresh("queued", c, "same")
<1>1. /\ c \in won[d] /\ won' = [won EXCEPT ![d] = won[d] \ {c}] /\ run[j].stage = "free"
      /\ run' = [run EXCEPT ![j] = queued] /\ UNCHANGED <<inFlight, status>>
  BY DEF Enqueue, Become, At, row, claim
<1>2. queued.stage = "queued" /\ queued.check = c
  BY DEF Fresh
<1>3. /\ won \in [Dispatchers -> SUBSET Checks] /\ run \in [Runs -> Run]
      /\ inFlight \subseteq Checks /\ j \in Runs
  BY DEF IInv, RowsOK, RestOK, Runs
<1> HIDE DEF queued
<1>4. Held(c) /\ Held(c)'
  BY <1>1, <1>2, <1>3 DEF Held, HoldingRuns, HoldingDispatchers
<1>5. ASSUME NEW b \in Checks, b # c PROVE Held(b)' <=> Held(b)
  <2>1. HoldingRuns(b)' = HoldingRuns(b)
    BY <1>1, <1>2, <1>3, <1>5 DEF HoldingRuns
  <2>2. HoldingDispatchers(b)' = HoldingDispatchers(b)
    BY <1>1, <1>3, <1>5 DEF HoldingDispatchers
  <2> QED
    BY <2>1, <2>2 DEF Held
<1>6. Taken' = Taken /\ Lost' = Lost
  BY <1>1, <1>3, <1>4, <1>5 DEF Taken, Lost
<1> QED
  BY <1>1, <1>6, Stutters

\* A job that writes its check back reports it, and was its only holder.
LEMMA WriteBackReports ==
    ASSUME NEW r \in Jobs, NEW new \in Status, NEW to, IInv, HInv,
           run[r].stage \in Holding, WriteBack(r, new), Carry(r, "written", to),
           UNCHANGED won
    PROVE  ServiceStep
<1> DEFINE c == run[r].check
<1>1. /\ run \in [Runs -> Run] /\ r \in Runs /\ inFlight \subseteq Checks
      /\ status \in [Checks -> Status]
  BY DEF IInv, RowsOK, RestOK, Runs
<1>2. c \in Checks
  BY <1>1, RunFields
<1>3. inFlight' = inFlight \ {c}
  BY DEF WriteBack
<1>4. status' = [status EXCEPT ![c] = new]
  BY <1>1 DEF WriteBack, On
<1>5. FewerHolders
  BY <1>1, CarryFewer DEF Holding
<1>6. run' = [run EXCEPT ![r] = Fresh("written", c, to)]
  BY DEF Carry, Become
<1>7. r \in HoldingRuns(c)
  BY DEF HoldingRuns, Holding
<1> HIDE DEF c
<1>8. c \in Taken
  BY <1>2, <1>7 DEF Taken, Held, HInv, OneHolder
<1>9. ASSUME NEW b \in Checks, b # c PROVE Held(b)' <=> Held(b)
  <2>1. HoldingRuns(b)' = HoldingRuns(b)
    BY <1>1, <1>6, <1>9 DEF HoldingRuns, Fresh, c
  <2>2. HoldingDispatchers(b)' = HoldingDispatchers(b)
    BY DEF HoldingDispatchers
  <2> QED
    BY <2>1, <2>2 DEF Held
<1>10. Taken' = Taken \ {c} /\ Lost' = Lost
  BY <1>1, <1>3, <1>8, <1>9 DEF Taken, Lost
<1> QED
  BY <1>2, <1>4, <1>8, <1>10, Reports

-----------------------------------------------------------------------------

LEMMA JobServes ==
    ASSUME NEW r \in Jobs, IInv, HInv, JobStep(r)
    PROVE  ServiceStep
<1>1. r \in Runs /\ run \in [Runs -> Run] /\ status \in [Checks -> Status]
  BY DEF Runs, IInv, RowsOK, RestOK
<1>2. UNCHANGED won
  BY DEF JobStep, Start, MarkSkipped, Guard, Write, Heal, dispatch
<1>3. run[r].old \in Status
  BY <1>1, RunFields
<1>4. CASE Start(r)
  <2> DEFINE c == run[r].check
             loaded == [stage |-> StartStage(c), check |-> c, old |-> status[c],
                        stamp |-> since[c], on |-> c \in scheduled, to |-> "same"]
  <2>1. /\ run[r].stage \in Holding /\ ~Excluded(c)
    BY <1>4 DEF Start, At, Holding, HInv, NobodySwitches, Excluded
  <2>2. Become(r, loaded)
    BY <1>4, <2>1 DEF Start
  <2>3. loaded.check = c
    OBVIOUS
  <2> HIDE DEF loaded
  <2>4. FewerHolders
    BY <1>1, <1>2, <2>1, <2>2, <2>3, BecomeFewer
  <2> QED
    BY <1>4, <2>4, FewerLoses DEF Start, row, claim
<1>5. CASE MarkSkipped(r)
  BY <1>2, <1>5, WriteBackReports DEF MarkSkipped, At, Holding, Status
<1>6. CASE Guard(r)
  <2> DEFINE guarded == [run[r] EXCEPT !.stage = "guarded"]
  <2>1. guarded.check = run[r].check
    BY <1>1 DEF Run
  <2>2. End(r) \/ Carry(r, "stray", "same") \/ Become(r, guarded)
    BY <1>6 DEF Guard
  <2>3. run[r].stage \in Holding
    BY <1>6 DEF Guard, At, Holding
  <2> HIDE DEF guarded
  <2>4. FewerHolders
    BY <1>1, <1>2, <2>1, <2>2, <2>3, EndFewer, CarryFewer, BecomeFewer DEF Holding
  <2> QED
    BY <1>6, <2>4, FewerLoses DEF Guard, row, claim
<1>7. ASSUME NEW new \in Verdicts(run[r].old), Write(r, new) PROVE ServiceStep
  <2>1. new \in Status
    BY <1>3, <1>7 DEF Verdicts, Status
  <2> QED
    BY <1>2, <1>7, <2>1, WriteBackReports DEF Write, At, Holding
<1>8. CASE Heal(r)
  <2>1. FewerHolders
    BY <1>1, <1>2, <1>8, EndFewer, CarryFewer DEF Heal, AfterRepark, Holding
  <2> QED
    BY <1>8, <2>1, FewerLoses DEF Heal, row, claim
<1> QED
  BY <1>4, <1>5, <1>6, <1>7, <1>8 DEF JobStep

LEMMA AnyRunServes ==
    ASSUME NEW r \in Runs, IInv, HInv, AnyRunStep(r) \/ RunDies(r)
    PROVE  ServiceStep
<1>1. run \in [Runs -> Run]
  BY DEF IInv, RestOK
<1>2. AlertRead(r) \/ AlertOpen(r) \/ RunDies(r)
  BY DEF AnyRunStep, ReparkRead, ReparkWrite, At, HInv, NobodySwitches
<1>3. UNCHANGED <<inFlight, status, won>>
  BY <1>2 DEF AlertRead, AlertOpen, RunDies, row, claim, dispatch
<1>4. FewerHolders
  BY <1>1, <1>2, <1>3, EndFewer, CarryFewer DEF AlertRead, AlertOpen, RunDies, Holding
<1> QED
  BY <1>3, <1>4, FewerLoses

LEMMA DispatcherServes ==
    ASSUME NEW d \in Dispatchers, IInv, HInv, OneBatch,
           DispatcherStep(d) \/ DispatcherDies(d)
    PROVE  ServiceStep
<1>1. won \in [Dispatchers -> SUBSET Checks]
  BY DEF IInv, RestOK
<1>2. CASE Select(d)
  BY <1>2, FewerLoses, SameHolders DEF Select, row, claim
<1>3. CASE DispatcherDies(d)
  <2>1. run' = run /\ won' = [won EXCEPT ![d] = {}]
    BY <1>3 DEF DispatcherDies
  <2>2. FewerHolders
    BY <1>1, <2>1 DEF FewerHolders, HoldingRuns, HoldingDispatchers
  <2> QED
    BY <1>3, <2>2, FewerLoses DEF DispatcherDies, row, claim
<1> QED
  BY <1>2, <1>3, ClaimTakes, EnqueueStutters DEF DispatcherStep

LEMMA OperatorServes ==
    ASSUME "exclude" \notin features, Requests = {}, IInv, OperatorStep
    PROVE  ServiceStep
<1>1. ASSUME NEW a \in Addresses, Exclude(a) \/ Include(a) PROVE FALSE
  BY <1>1 DEF Exclude, Include
<1>2. ASSUME NEW a \in Addresses, ToggleSkip(a) \/ LoadCopy(a) \/ SaveCopy(a)
      PROVE  UNCHANGED <<inFlight, status, run, won>>
  BY <1>2 DEF ToggleSkip, LoadCopy, SaveCopy, row, claim, dispatch
<1>3. ASSUME NEW c \in Checks, ToggleSchedule(c)
      PROVE  UNCHANGED <<inFlight, status, run, won>>
  BY <1>3 DEF ToggleSchedule, row, claim, dispatch
<1>4. ASSUME NEW S \in SUBSET Checks, BulkArmRead(S) \/ BulkArmWrite
      PROVE  UNCHANGED <<inFlight, status, run, won>>
  BY <1>4 DEF BulkArmRead, BulkArmWrite, ClaimsLeft, row, claim, dispatch
<1>5. UNCHANGED <<inFlight, status, run, won>>
  BY <1>1, <1>2, <1>3, <1>4 DEF OperatorStep
<1> QED
  BY <1>5, FewerLoses, SameHolders

LEMMA StepServes ==
    ASSUME "exclude" \notin features, Requests = {}, IInv, HInv, OneBatch, [Next]_vars
    PROVE  ServiceStep
<1>1. CASE Reap
  BY <1>1, ReapRecovers
<1>2. ASSUME NEW d \in Dispatchers, DispatcherStep(d) \/ DispatcherDies(d)
      PROVE  ServiceStep
  BY <1>2, DispatcherServes
<1>3. ASSUME NEW r \in Jobs, JobStep(r) PROVE ServiceStep
  BY <1>3, JobServes
<1>4. ASSUME NEW r \in Runs, AnyRunStep(r) \/ RunDies(r) PROVE ServiceStep
  BY <1>4, AnyRunServes
<1>5. CASE SweepStep \/ UNCHANGED vars
  BY <1>5, FewerLoses, SameHolders DEF SweepStep, HealRead, HealWrite, CloseRead,
     CloseWrite, vars, row, claim, dispatch
<1>6. CASE OperatorStep
  BY <1>6, OperatorServes
<1>7. ASSUME NEW c \in Checks, BecomesDue(c) \/ BecomesOverdue(c) PROVE ServiceStep
  BY <1>7, FewerLoses, SameHolders DEF BecomesDue, BecomesOverdue, claim, dispatch
<1> QED
  BY <1>1, <1>2, <1>3, <1>4, <1>5, <1>6, <1>7 DEF Next

\* While no address is switched, no run outlives the deadline and nobody has a
\* request slot, dispatchers, queue, workers and reaper implement the service:
\* one holder takes a check, a status is written in the step that gives it back,
\* and only what a dead holder left is recovered.
THEOREM ImplementsServiceThm ==
    ASSUME \A f \in Profiles : "exclude" \notin f, MaxSlow = 0, Requests = {}
    PROVE  Spec => ImplementsService
<1>1. Init => HInv /\ OneBatch /\ Service!Init
  <2>1. Init => OneBatch
    BY DEF Init, OneBatch
  <2>2. Init => Service!Init
    BY DEF Init, Service!Init, Status
  <2> QED
    BY <2>1, <2>2, InitHInv
<1>2. IInv => "exclude" \notin features
  BY DEF IInv, RestOK
<1>3. IInv /\ HInv /\ OneBatch /\ [Next]_vars => HInv' /\ OneBatch'
  BY <1>2, StepHInv, StepBatch
<1>4. IInv /\ HInv /\ OneBatch /\ [Next]_vars => [Service!Next]_(Service!vars)
  BY <1>2, StepServes DEF ServiceStep
<1> QED
  BY <1>1, <1>3, <1>4, Inductive, PTL DEF Spec, ImplementsService, Service!Spec

-----------------------------------------------------------------------------
(* The hysteresis, for every set of settings and every bound.               *)

\* What folding an outcome does to the counters and the age of a check.
LEMMA ApplyFacts ==
    ASSUME NEW s \in CheckState, NEW p \in Policy, NEW o \in Outcome
    PROVE  /\ Counted(s, o) \in CheckState
           /\ ApplyOutcome(s, p, o) \in CheckState
           /\ ApplyOutcome(s, p, o).fail = FailAfter(s.fail, o)
           /\ ApplyOutcome(s, p, o).success = SuccessAfter(s.success, o)
           /\ ApplyOutcome(s, p, o).status
                = Escalated(Counted(s, o), p, Verdict(Counted(s, o), p, o))
           /\ ApplyOutcome(s, p, o).age
                = IF ApplyOutcome(s, p, o).status = s.status THEN s.age ELSE 0
  <1> DEFINE c == Counted(s, o)
             new == Escalated(c, p, Verdict(c, p, o))
  <1>1. /\ c \in CheckState /\ c.status = s.status /\ c.age = s.age
        /\ c.fail = FailAfter(s.fail, o) /\ c.success = SuccessAfter(s.success, o)
    BY DEF Counted, SuccessAfter, FailAfter, CheckState
  <1>2. new \in CheckStatus
    BY <1>1 DEF Verdict, Escalated, CheckState, CheckStatus, Outcome
  <1>3. ApplyOutcome(s, p, o) = WithStatus(c, new)
    BY DEF ApplyOutcome
  <1> HIDE DEF c, new
  <1>4. QED
    BY <1>1, <1>2, <1>3 DEF WithStatus, CheckState, c, new

\* The inductive invariant is preserved by folding in an outcome.
LEMMA ObserveInv ==
    ASSUME VerdictInv, NEW o \in Outcome, Observe(o)
    PROVE  VerdictInv'
  <1>1. state \in CheckState /\ policy \in Policy /\ streak \in Streak /\ bad \in Nat
    BY PoliciesAssumption DEF VerdictInv, VerdictTypeOK
  <1>2. state' = ApplyOutcome(state, policy, o) /\ streak' = NextStreak(o)
    BY DEF Observe
  <1>3. state' \in CheckState /\ streak' \in Streak /\ bad' \in Nat /\ policy' \in Policies
    BY <1>1, <1>2, ApplyFacts DEF Observe, NextStreak, NextBad, Streak, VerdictInv, VerdictTypeOK
  <1>4. CountersMatch'
    <2>1. /\ state'.fail = FailAfter(state.fail, o)
          /\ state'.success = SuccessAfter(state.success, o)
      BY <1>1, <1>2, ApplyFacts
    <2>2. CountersMatch
      BY DEF VerdictInv
    <2>3. QED
      BY <1>1, <1>2, <2>1, <2>2
         DEF CountersMatch, SuccessAfter, FailAfter, Reachable, NextStreak, Streak, Outcome
  <1>5. AgeIsDownTime'
    <2>1. ASSUME IsBad(state'.status)
          PROVE  state'.age <= bad'
      <3>1. bad' = bad
        BY <2>1 DEF Observe, NextBad
      <3>2. CASE state'.status = state.status
        BY <3>1, <3>2, <2>1, <1>1, <1>2, ApplyFacts DEF VerdictInv, AgeIsDownTime
      <3>3. CASE state'.status # state.status
        BY <3>1, <3>3, <1>1, <1>2, ApplyFacts
      <3>4. QED
        BY <3>2, <3>3
    <2>2. QED
      BY <2>1 DEF AgeIsDownTime, IsBad
  <1>6. QED
    BY <1>3, <1>4, <1>5 DEF VerdictInv, VerdictTypeOK

\* Every reachable state satisfies the inductive invariant.
THEOREM VerdictInductive == VerdictSpec => []VerdictInv
  <1>1. VerdictInit => VerdictInv
    BY PoliciesAssumption
       DEF VerdictInit, VerdictInv, VerdictTypeOK, CountersMatch, AgeIsDownTime, IsBad,
           CheckState, CheckStatus, Outcome, Streak
  <1>2. VerdictInv /\ [VerdictNext]_verdictVars => VerdictInv'
    <2> SUFFICES ASSUME VerdictInv, [VerdictNext]_verdictVars PROVE VerdictInv'
      OBVIOUS
    <2> USE HorizonAssumption
        DEF VerdictInv, VerdictTypeOK, CountersMatch, AgeIsDownTime, IsBad, CheckState, Streak
    <2>1. CASE \E o \in Outcome : Observe(o)
      BY <2>1, ObserveInv
    <2>2. CASE Skip
      BY <2>2 DEF Skip, WithStatus, CheckStatus
    <2>3. CASE Arm
      BY <2>3 DEF Arm
    <2>4. CASE \E p \in Policies : Reconfigure(p)
      BY <2>4 DEF Reconfigure
    <2>5. CASE DayPasses
      BY <2>5 DEF DayPasses
    <2>6. CASE UNCHANGED verdictVars
      BY <2>6 DEF verdictVars
    <2>7. QED
      BY <2>1, <2>2, <2>3, <2>4, <2>5, <2>6 DEF VerdictNext
  <1>3. QED
    BY <1>1, <1>2, PTL DEF VerdictSpec

\* For every set of settings the columns keep their types, and each consecutive
\* counter is the length of the run of outcomes it counts: whatever sequence of
\* outcomes, skips, arms and edits went before, none outlives its run.
THEOREM VerdictTypeCorrect == VerdictSpec => [](VerdictTypeOK /\ CountersMatch)
  <1>1. VerdictInv => VerdictTypeOK /\ CountersMatch
    BY DEF VerdictInv
  <1>2. QED
    BY <1>1, VerdictInductive, PTL

\* Only folding in an outcome changes the status to anything but "skipped".
LEMMA StatusChange ==
    ASSUME VerdictInv, VerdictNext, state'.status \notin {state.status, "skipped"}
    PROVE  \E o \in Outcome :
             LET c == Counted(state, o)
             IN  /\ state'.status = Escalated(c, policy, Verdict(c, policy, o))
                 /\ streak' = NextStreak(o)
  <1>1. state \in CheckState /\ policy \in Policy
    BY PoliciesAssumption DEF VerdictInv, VerdictTypeOK
  <1>2. CASE \E o \in Outcome : Observe(o)
    BY <1>1, <1>2, ApplyFacts DEF Observe
  <1>3. CASE Skip
    BY <1>3 DEF Skip, WithStatus
  <1>4. CASE Arm \/ DayPasses \/ \E p \in Policies : Reconfigure(p)
    BY <1>1, <1>4 DEF Arm, DayPasses, Reconfigure, CheckState
  <1>5. QED
    BY <1>2, <1>3, <1>4 DEF VerdictNext

\* The same, with everything about the outcome a property needs.
LEMMA StatusChangeFacts ==
    ASSUME VerdictInv, VerdictNext, state'.status \notin {state.status, "skipped"}
    PROVE  \E o \in Outcome, c \in CheckState :
             /\ state'.status = Escalated(c, policy, Verdict(c, policy, o))
             /\ c.status = state.status /\ c.age = state.age
             /\ o = "down" => streak'.kind = "bad" /\ c.fail = streak'.n
             /\ o \in Reachable => streak'.kind = "good" /\ c.success = streak'.n
             /\ c.fail > 0 => streak'.kind = "bad" /\ c.fail = streak'.n
  <1>1. PICK o \in Outcome :
          /\ state'.status = Escalated(Counted(state, o), policy,
                                       Verdict(Counted(state, o), policy, o))
          /\ streak' = NextStreak(o)
    BY StatusChange
  <1>2. state \in CheckState /\ policy \in Policy /\ streak \in Streak /\ CountersMatch
    BY PoliciesAssumption DEF VerdictInv, VerdictTypeOK
  <1> DEFINE c == Counted(state, o)
  <1>3. /\ c \in CheckState /\ c.status = state.status /\ c.age = state.age
        /\ c.fail = FailAfter(state.fail, o)
        /\ c.success = SuccessAfter(state.success, o)
    BY <1>2 DEF Counted, SuccessAfter, FailAfter, CheckState
  <1> HIDE DEF c
  <1>4. /\ o = "down" => streak'.kind = "bad" /\ c.fail = streak'.n
        /\ o \in Reachable => streak'.kind = "good" /\ c.success = streak'.n
        /\ c.fail > 0 => streak'.kind = "bad" /\ c.fail = streak'.n
    BY <1>1, <1>2, <1>3
       DEF NextStreak, CountersMatch, SuccessAfter, FailAfter, Reachable, Streak,
           CheckState, Outcome
  <1>5. QED
    BY <1>1, <1>3, <1>4 DEF c

\* A check turns down only on fall failures in a row, for every fall and every
\* edit of it.
THEOREM DownIsEarnedThm == VerdictSpec => DownIsEarned
  <1> DEFINE A == state.status # "down" /\ state'.status = "down" =>
                  streak'.kind = "bad" /\ streak'.n >= AtLeastOne(policy.fall)
  <1>1. VerdictInv /\ [VerdictNext]_verdictVars => [A]_verdictVars
    <2> SUFFICES ASSUME VerdictInv, VerdictNext, state.status # "down" /\ state'.status = "down"
                 PROVE  streak'.kind = "bad" /\ streak'.n >= AtLeastOne(policy.fall)
      BY DEF verdictVars
    <2>1. policy \in Policy
      BY PoliciesAssumption DEF VerdictInv, VerdictTypeOK
    <2>2. QED
      BY <2>1, StatusChangeFacts
         DEF Escalated, Verdict, Reachable, AtLeastOne, CheckState, Policy
  <1>2. QED
    BY <1>1, VerdictInductive, PTL DEF VerdictSpec, DownIsEarned

\* A check that was not reachable turns up only on rise successes in a row.
THEOREM UpIsEarnedThm == VerdictSpec => UpIsEarned
  <1> DEFINE A == state.status \notin {"up", "degraded"} /\ state'.status = "up" =>
                  streak'.kind = "good" /\ streak'.n >= AtLeastOne(policy.rise)
  <1>1. VerdictInv /\ [VerdictNext]_verdictVars => [A]_verdictVars
    <2> SUFFICES ASSUME VerdictInv, VerdictNext, state.status \notin {"up", "degraded"} /\ state'.status = "up"
                 PROVE  streak'.kind = "good" /\ streak'.n >= AtLeastOne(policy.rise)
      BY DEF verdictVars
    <2>1. policy \in Policy
      BY PoliciesAssumption DEF VerdictInv, VerdictTypeOK
    <2>2. QED
      BY <2>1, StatusChangeFacts
         DEF Escalated, Verdict, Reachable, AtLeastOne, CheckState, Policy
  <1>2. QED
    BY <1>1, VerdictInductive, PTL DEF VerdictSpec, UpIsEarned

\* With a stale limit on, no failure and no edit takes a check out of stale.
THEOREM StaleEndsByRisingThm == VerdictSpec => StaleEndsByRising
  <1> DEFINE A == state.status = "stale" /\ (policy.scans > 0 \/ policy.days > 0) =>
                  state'.status \in {"stale", "up", "degraded", "skipped"}
  <1>1. VerdictInv /\ [VerdictNext]_verdictVars => [A]_verdictVars
    <2> SUFFICES ASSUME VerdictInv, VerdictNext, state.status = "stale" /\ (policy.scans > 0 \/ policy.days > 0)
                 PROVE  state'.status \in {"stale", "up", "degraded", "skipped"}
      BY DEF verdictVars
    <2>1. policy \in Policy
      BY PoliciesAssumption DEF VerdictInv, VerdictTypeOK
    <2>2. QED
      BY <2>1, StatusChangeFacts
         DEF Escalated, Verdict, Chronic, Reachable, CheckState, Policy
  <1>2. QED
    BY <1>1, VerdictInductive, PTL DEF VerdictSpec, StaleEndsByRising

\* A check turns stale only on enough failures in a row or enough days down.
THEOREM StaleIsChronicThm == VerdictSpec => StaleIsChronic
  <1> DEFINE A == state.status # "stale" /\ state'.status = "stale" =>
                  (policy.scans > 0 /\ streak'.kind = "bad" /\ streak'.n >= policy.scans)
                  \/ (policy.days > 0 /\ bad >= policy.days)
  <1>1. VerdictInv /\ [VerdictNext]_verdictVars => [A]_verdictVars
    <2> SUFFICES ASSUME VerdictInv, VerdictNext, state.status # "stale" /\ state'.status = "stale"
                 PROVE  (policy.scans > 0 /\ streak'.kind = "bad" /\ streak'.n >= policy.scans)
                  \/ (policy.days > 0 /\ bad >= policy.days)
      BY DEF verdictVars
    <2>1. policy \in Policy
      BY PoliciesAssumption DEF VerdictInv, VerdictTypeOK
    <2>2. state \in CheckState /\ bad \in Nat /\ AgeIsDownTime
      BY DEF VerdictInv, VerdictTypeOK
    <2>3. PICK o \in Outcome, c \in CheckState :
            /\ state'.status = Escalated(c, policy, Verdict(c, policy, o))
            /\ c.status = state.status /\ c.age = state.age
            /\ c.fail > 0 => streak'.kind = "bad" /\ c.fail = streak'.n
      BY StatusChangeFacts
    <2>4. Chronic(c, policy)
      BY <2>3 DEF Escalated, Verdict
    <2>5. CASE policy.scans > 0 /\ c.fail >= policy.scans
      BY <2>1, <2>3, <2>5 DEF CheckState, Policy
    <2>6. CASE policy.days > 0 /\ c.status \in {"down", "stale"} /\ c.age >= policy.days
      BY <2>1, <2>2, <2>3, <2>6 DEF AgeIsDownTime, IsBad, CheckState, Policy
    <2>7. QED
      BY <2>3, <2>4, <2>5, <2>6 DEF Chronic
  <1>2. QED
    BY <1>1, VerdictInductive, PTL DEF VerdictSpec, StaleIsChronic

\* No status turns up or down before it is earned.
THEOREM StatusIsEarnedThm == VerdictSpec => StatusIsEarned
  BY DownIsEarnedThm, UpIsEarnedThm DEF StatusIsEarned

\* Stale is entered and left only as the history allows.
THEOREM StaleIsEarnedThm == VerdictSpec => StaleIsEarned
  BY StaleIsChronicThm, StaleEndsByRisingThm DEF StaleIsEarned

-----------------------------------------------------------------------------
(* What the engine writes, and the hysteresis that says it.                 *)

\* The engine's one word for the statuses that alert.
Simple(word) == IF word \in {"down", "stale", "degraded"} THEN "down" ELSE word

\* A word the engine may write back is one that folding an outcome gives some
\* check of the same old word, under some settings, and there is no other: what
\* CheckEngine chooses from is what apply_outcome may say (worker.py, state.py).
THEOREM VerdictsAreApplied ==
    ASSUME NEW old \in Status, NEW new
    PROVE  new \in Verdicts(old) <=>
             \E s \in CheckState, p \in Policy, o \in Outcome :
                Simple(s.status) = old /\ new = Simple(ApplyOutcome(s, p, o).status)
<1>1. ASSUME NEW s \in CheckState, NEW p \in Policy, NEW o \in Outcome, Simple(s.status) = old
      PROVE  Simple(ApplyOutcome(s, p, o).status) \in Verdicts(old)
  <2> DEFINE c == Counted(s, o)
  <2>1. /\ c \in CheckState /\ c.status = s.status
        /\ ApplyOutcome(s, p, o).status = Escalated(c, p, Verdict(c, p, o))
    BY ApplyFacts DEF Counted
  <2> HIDE DEF c
  <2>2. s.status \in CheckStatus
    BY DEF CheckState
  <2>3. \/ Verdict(c, p, o) \in {s.status, "up", "degraded", "down"}
        \/ Verdict(c, p, o) = "unknown" /\ s.status = "skipped"
    BY <2>1 DEF Verdict
  <2>4. Escalated(c, p, Verdict(c, p, o)) \in {Verdict(c, p, o), "stale"}
        /\ (Escalated(c, p, Verdict(c, p, o)) # Verdict(c, p, o) => Verdict(c, p, o) = "down")
    BY DEF Escalated
  <2> QED
    BY <1>1, <2>1, <2>2, <2>3, <2>4 DEF Simple, Verdicts, CheckStatus, Outcome
<1>2. ASSUME new \in Verdicts(old)
      PROVE  \E s \in CheckState, p \in Policy, o \in Outcome :
                Simple(s.status) = old /\ new = Simple(ApplyOutcome(s, p, o).status)
  <2> DEFINE s == [status |-> old, success |-> 0, fail |-> 0, age |-> 0]
             P(n) == [rise |-> n, fall |-> 1, scans |-> 0, days |-> 0]
  <2>1. s \in CheckState /\ P(1) \in Policy /\ P(2) \in Policy /\ Simple(s.status) = old
    <3>1. old \in CheckStatus /\ Simple(old) = old
      BY DEF CheckStatus, Outcome, Status, Simple
    <3>2. s \in CheckState
      BY <3>1 DEF CheckState
    <3>3. P(1) \in Policy /\ P(2) \in Policy
      BY DEF Policy
    <3> QED
      BY <3>1, <3>2, <3>3
  <2>2. CASE new = "up"
    <3>1. Simple(ApplyOutcome(s, P(1), "up").status) = "up"
      BY DEF ApplyOutcome, WithStatus, Counted, SuccessAfter, FailAfter, Verdict, Escalated,
             Reachable, AtLeastOne, Simple
    <3> QED
      BY <2>1, <2>2, <3>1 DEF Outcome
  <2>3. CASE new = "down"
    <3>1. Simple(ApplyOutcome(s, P(1), "down").status) = "down"
      BY DEF ApplyOutcome, WithStatus, Counted, SuccessAfter, FailAfter, Verdict, Escalated,
             Reachable, AtLeastOne, Simple
    <3> QED
      BY <2>1, <2>3, <3>1 DEF Outcome
  <2>4. CASE new = old
    <3>1. Simple(ApplyOutcome(s, P(2), "up").status) = old
      BY DEF ApplyOutcome, WithStatus, Counted, SuccessAfter, FailAfter, Verdict, Escalated,
             Reachable, AtLeastOne, Simple, Status
    <3> QED
      BY <2>1, <2>4, <3>1 DEF Outcome
  <2>5. CASE new = "unknown" /\ old = "skipped"
    <3>1. Simple(ApplyOutcome(s, P(1), "unknown").status) = "unknown"
      BY <2>5 DEF ApplyOutcome, WithStatus, Counted, SuccessAfter, FailAfter, Verdict, Escalated,
                  Reachable, AtLeastOne, Simple
    <3> QED
      BY <2>1, <2>5, <3>1 DEF Outcome
  <2> QED
    BY <1>2, <2>2, <2>3, <2>4, <2>5 DEF Verdicts
<1> QED
  BY <1>1, <1>2
=============================================================================
