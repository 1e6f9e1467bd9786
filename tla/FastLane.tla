------------------------------- MODULE FastLane -------------------------------
(***************************************************************************)
(* The fast lane beside the minute beat: one long-lived process probes the *)
(* checks with an interval below a minute from memory and writes a batch   *)
(* every second.  While its heartbeat is fresh the beat leaves the rows it *)
(* owns alone; when it is not, the beat runs them at their fallback        *)
(* interval (monitoring/fastlane.py, the filter in scheduler.py).          *)
(*                                                                         *)
(* Every check here is a fast one of the core.  What a status says is left *)
(* out, but for "skipped"; claiming, running and parking a row are one     *)
(* step each (module CheckEngine has the detail), and what the lane does   *)
(* is statement by statement.                                              *)
(***************************************************************************)
EXTENDS Naturals, FiniteSets

CONSTANTS
    Checks,         \* CheckState rows with an interval_ms
    Jobs,           \* slots for the beat's jobs
    Stamps,         \* claim times
    None,           \* NULL
    MaxFailures     \* bound on jobs that die and flushes that raise

ASSUME ChecksAssumption == Checks # {}
ASSUME StampsAssumption == None \notin Stamps
ASSUME FailuresAssumption == MaxFailures \in Nat

VARIABLES
    skipped, nextRun, since,    \* status = "skipped", next_run, in_flight_since
    owned,          \* fast_owned
    excluded,       \* checks whose address is switched off
    overCap,        \* checks past their tenant's cap
    up,             \* the lane: "down", "started" or, its set loaded, "up"
    fresh,          \* its heartbeat is younger than STALE_AFTER
    entries,        \* the checks it schedules
    copies,         \* the rows it has a copy of
    dirty,          \* the copies to write at the next flush
    reading,        \* what a reload has read of each row
    flush,          \* a flush: where it is, and its batch
    job,            \* each job: where it is, its check, the claim it read
    lapped,         \* history: jobs whose row the lane has written since
    failures

row == <<skipped, nextRun, since, owned>>
switches == <<excluded, overCap>>
memory == <<entries, copies, dirty>>
lane == <<up, memory, reading, flush>>
beat == <<job, lapped>>
vars == <<row, switches, lane, fresh, beat, failures>>

Reading == {"nothing", "unlisted", "release", "run"}
Flush == [stage : {"none", "read", "written"}, batch : SUBSET Checks]
Job == [stage : {"free", "queued", "running"}, check : Checks, stamp : Stamps \union {None}]

NoFlush == [stage |-> "none", batch |-> {}]
NothingRead == [c \in Checks |-> "nothing"]
Free == [stage |-> "free", check |-> CHOOSE c \in Checks : TRUE, stamp |-> None]

InFlight(c) == since[c] # None

\* Set a column of the rows in S.
On(S, column, value) == [c \in Checks |-> IF c \in S THEN value ELSE column[c]]

-----------------------------------------------------------------------------
(* The beat.                                                               *)

\* Mutant: what the lane owns is left alone even when nobody hears of the lane.
LeftToLaneAlways(c) == c \in owned

\* The due query leaves out what a live lane owns.
LeftToLane(c) == fresh /\ c \in owned

\* A claim time is new to the rows and to the jobs that remember one.
NewStamps ==
    Stamps \ ({since[c] : c \in Checks} \union {job[j].stamp : j \in Jobs})

\* dispatch: claimed and queued.
Dispatch(c, j) ==
    /\ nextRun[c] = "due" /\ ~InFlight(c) /\ ~LeftToLane(c)
    /\ job[j].stage = "free" /\ NewStamps # {}
    /\ since' = [since EXCEPT ![c] = CHOOSE t \in NewStamps : TRUE]
    /\ nextRun' = [nextRun EXCEPT ![c] = "later"]
    /\ job' = [job EXCEPT ![j] = [stage |-> "queued", check |-> c, stamp |-> None]]
    /\ lapped' = lapped \ {j}
    /\ UNCHANGED <<skipped, owned, switches, lane, fresh, failures>>

\* Park the rows in S (exclusion.park): the lane gives them up too.
Park(S) ==
    /\ skipped' = skipped \union S
    /\ nextRun' = On(S, nextRun, "null")
    /\ since' = On(S, since, None)
    /\ owned' = owned \ S

\* The job loads the row.
Start(j) ==
    LET c == job[j].check
    IN /\ job[j].stage = "queued"
       /\ IF c \in excluded
          THEN Park({c}) /\ job' = [job EXCEPT ![j] = Free]
          ELSE /\ job' = [job EXCEPT ![j] = [@ EXCEPT !.stage = "running", !.stamp = since[c]]]
               /\ UNCHANGED row
       /\ lapped' = lapped \ {j}
       /\ UNCHANGED <<switches, lane, fresh, failures>>

\* _finalise: the write guard, and the row given back.
Finalise(j) ==
    LET c == job[j].check
    IN /\ job[j].stage = "running"
       /\ job' = [job EXCEPT ![j] = Free]
       /\ IF since[c] # job[j].stamp THEN UNCHANGED row
          ELSE IF c \in excluded THEN Park({c})
          ELSE /\ skipped' = skipped \ {c}
               /\ nextRun' = [nextRun EXCEPT ![c] = "later"]
               /\ since' = [since EXCEPT ![c] = None]
               /\ UNCHANGED owned
       /\ UNCHANGED <<switches, lane, fresh, lapped, failures>>

JobDies(j) ==
    /\ job[j].stage # "free"
    /\ failures < MaxFailures /\ failures' = failures + 1
    /\ job' = [job EXCEPT ![j] = Free]
    /\ UNCHANGED <<row, switches, lane, fresh, lapped>>

Holds(j, c) == job[j].stage # "free" /\ job[j].check = c

\* The reaper, for a claim nobody works on any more.
Reap(c) ==
    /\ InFlight(c) /\ ~\E j \in Jobs : Holds(j, c)
    /\ since' = [since EXCEPT ![c] = None]
    /\ nextRun' = [nextRun EXCEPT ![c] = "due"]
    /\ UNCHANGED <<skipped, owned, switches, lane, fresh, beat, failures>>

BecomesDue(c) ==
    /\ nextRun[c] = "later"
    /\ nextRun' = [nextRun EXCEPT ![c] = "due"]
    /\ UNCHANGED <<skipped, since, owned, switches, lane, fresh, beat, failures>>

-----------------------------------------------------------------------------
(* The lane: its set.                                                      *)

\* One loop: no reload while a flush is under way, and the other way round.
LoopFree == flush = NoFlush /\ reading = NothingRead

LaneStart ==
    /\ up = "down" /\ up' = "started"
    /\ UNCHANGED <<row, switches, memory, reading, flush, fresh, beat, failures>>

\* reload reads the rows of addresses that are not excluded, and splits them by
\* their tenant's cap ...
ReloadRead ==
    /\ up # "down" /\ LoopFree
    /\ reading' = [c \in Checks |-> IF c \in excluded THEN "unlisted"
                                    ELSE IF c \in overCap THEN "release" ELSE "run"]
    /\ UNCHANGED <<row, switches, up, memory, flush, fresh, beat, failures>>

Runnable == {c \in Checks : reading[c] = "run"}

Releases == {c \in Checks : reading[c] = "release"}

\* ... makes entries of the runnable ones, drops the others, and marks on the
\* rows what it owns.
ReloadWrite ==
    /\ reading # NothingRead
    /\ entries' = Runnable
    /\ copies' = copies \union Runnable
    /\ owned' = (owned \union Runnable) \ Releases
    /\ reading' = NothingRead
    /\ up' = "up"
    /\ UNCHANGED <<skipped, nextRun, since, switches, dirty, flush, fresh, beat, failures>>

\* Mutant: a copy goes with its entry, dirty or not.
ForgetDirty(c) ==
    /\ c \in copies \ entries
    /\ copies' = copies \ {c}
    /\ UNCHANGED <<row, switches, up, entries, dirty, reading, flush, fresh, beat, failures>>

\* A copy outlives its entry while a probe of it is on its way, or it is dirty.
Forget(c) ==
    /\ c \in copies \ (entries \union dirty \union flush.batch)
    /\ copies' = copies \ {c}
    /\ UNCHANGED <<row, switches, up, entries, dirty, reading, flush, fresh, beat, failures>>

-----------------------------------------------------------------------------
(* The lane: probes and flushes.                                           *)

\* A probe that changes the status, or closes a recording window, is folded into
\* the copy.
Fold(c) ==
    /\ c \in copies \ dirty
    /\ dirty' = dirty \union {c}
    /\ UNCHANGED <<row, switches, up, entries, copies, reading, flush, fresh, beat, failures>>

\* flush takes the batch and reads who is excluded; _persist drops what was said
\* of those and parks them again (rows that are stray, owned ones included).
FlushRead ==
    LET gone == dirty \intersect excluded
    IN /\ dirty # {} /\ LoopFree
       /\ dirty' = {}
       /\ Park(gone)
       /\ flush' = [stage |-> "read", batch |-> dirty \ excluded]
       /\ UNCHANGED <<switches, up, entries, copies, reading, fresh, beat, failures>>

\* Mutant: a flush leaves the beat's claim on the row.
Unclaimed(S) == since

\* A flush leaves no claim on the rows it writes.
Cleared(S) == On(S, since, None)

\* The copies are written: no claim, and a next_run that is never NULL.
FlushWrite ==
    /\ flush.stage = "read"
    /\ skipped' = skipped \ flush.batch
    /\ nextRun' = On(flush.batch, nextRun, "later")
    /\ since' = Cleared(flush.batch)
    /\ lapped' = lapped \union {j \in Jobs : job[j].stage = "running"
                                             /\ job[j].check \in flush.batch}
    /\ flush' = [flush EXCEPT !.stage = "written"]
    /\ UNCHANGED <<owned, switches, up, memory, reading, fresh, job, failures>>

\* Rows of the batch whose address was excluded since the flush read it.
Healed == flush.batch \intersect excluded

\* _heal_excluded.
FlushHeal ==
    /\ flush.stage = "written"
    /\ Park(Healed)
    /\ flush' = NoFlush
    /\ UNCHANGED <<switches, up, memory, reading, fresh, beat, failures>>

\* A flush that raises has lost its batch; the loop goes on.
FlushFails ==
    /\ flush.stage # "none"
    /\ failures < MaxFailures /\ failures' = failures + 1
    /\ flush' = NoFlush
    /\ UNCHANGED <<row, switches, up, memory, reading, fresh, beat>>

Gone ==
    /\ up' = "down" /\ entries' = {} /\ copies' = {} /\ dirty' = {}
    /\ reading' = NothingRead /\ flush' = NoFlush

LaneDies ==
    /\ up # "down" /\ Gone
    /\ UNCHANGED <<row, switches, fresh, beat, failures>>

\* A clean stop, after its last flush: release_all.
LaneStop ==
    /\ up = "up" /\ LoopFree /\ dirty = {} /\ Gone
    /\ owned' = {} /\ fresh' = FALSE
    /\ UNCHANGED <<skipped, nextRun, since, switches, beat, failures>>

\* The heartbeat: written after the first reload, and from then on.
Heartbeat ==
    /\ up = "up" /\ ~fresh /\ fresh' = TRUE
    /\ UNCHANGED <<row, switches, lane, beat, failures>>

\* It grows old: the lane is gone, or the loop or Redis is held up.
Lapse ==
    /\ fresh /\ fresh' = FALSE
    /\ UNCHANGED <<row, switches, lane, beat, failures>>

-----------------------------------------------------------------------------
(* The operators.                                                          *)

Exclude(c) ==
    /\ c \notin excluded
    /\ excluded' = excluded \union {c}
    /\ Park({c})
    /\ UNCHANGED <<overCap, lane, fresh, beat, failures>>

\* Armed at once, with status and owner left as they are.
Include(c) ==
    /\ c \in excluded
    /\ excluded' = excluded \ {c}
    /\ nextRun' = [nextRun EXCEPT ![c] = "due"]
    /\ since' = [since EXCEPT ![c] = None]
    /\ UNCHANGED <<skipped, owned, overCap, lane, fresh, beat, failures>>

\* An older check of the tenant becomes a fast one, or ceases to be.
ToggleCap(c) ==
    /\ overCap' = (overCap \ {c}) \union ({c} \ overCap)
    /\ UNCHANGED <<row, excluded, lane, fresh, beat, failures>>

-----------------------------------------------------------------------------

\* Rows just made, before any lane has run.
Init ==
    /\ skipped = {} /\ owned = {} /\ excluded = {} /\ overCap = {}
    /\ nextRun = [c \in Checks |-> "due"]
    /\ since = [c \in Checks |-> None]
    /\ up = "down" /\ fresh = FALSE
    /\ entries = {} /\ copies = {} /\ dirty = {}
    /\ reading = NothingRead /\ flush = NoFlush
    /\ job = [j \in Jobs |-> Free] /\ lapped = {}
    /\ failures = 0

JobStep(j) == Start(j) \/ Finalise(j)
FlushStep == FlushWrite \/ FlushHeal

Next ==
    \/ \E c \in Checks, j \in Jobs : Dispatch(c, j)
    \/ \E j \in Jobs : JobStep(j) \/ JobDies(j)
    \/ \E c \in Checks : Reap(c) \/ BecomesDue(c) \/ Forget(c) \/ Fold(c)
    \/ LaneStart \/ ReloadRead \/ ReloadWrite \/ FlushRead \/ FlushStep
    \/ FlushFails \/ LaneDies \/ LaneStop \/ Heartbeat \/ Lapse
    \/ \E c \in Checks : Exclude(c) \/ Include(c) \/ ToggleCap(c)

Spec == Init /\ [][Next]_vars

\* The beat is a timer and a job ends.  The lane's loop takes flush, heartbeat
\* and reload in turn, so none is put off for good; probes are always due, and
\* a heartbeat nobody renews goes stale.
Fairness ==
    /\ \A c \in Checks :
          /\ WF_vars(\E j \in Jobs : Dispatch(c, j))
          /\ WF_vars(Reap(c)) /\ WF_vars(BecomesDue(c))
          /\ WF_vars(Fold(c)) /\ WF_vars(Forget(c))
    /\ \A j \in Jobs : WF_vars(JobStep(j))
    /\ SF_vars(ReloadRead) /\ WF_vars(ReloadWrite)
    /\ SF_vars(FlushRead) /\ WF_vars(FlushStep)
    /\ WF_vars(Heartbeat) /\ WF_vars(up = "down" /\ Lapse)

FairSpec == Spec /\ Fairness

-----------------------------------------------------------------------------

\* Types; and what the lane schedules, has to write or is writing it has a copy
\* of, though entries go and copies are dropped at their own times.
TypeOK ==
    /\ skipped \subseteq Checks /\ owned \subseteq Checks
    /\ excluded \subseteq Checks /\ overCap \subseteq Checks
    /\ nextRun \in [Checks -> {"null", "due", "later"}]
    /\ since \in [Checks -> Stamps \union {None}]
    /\ up \in {"down", "started", "up"} /\ fresh \in BOOLEAN
    /\ copies \subseteq Checks
    /\ entries \union dirty \union flush.batch \subseteq copies
    /\ reading \in [Checks -> Reading] /\ flush \in Flush
    /\ job \in [Jobs -> Job] /\ lapped \subseteq Jobs
    /\ failures \in Nat

\* A job that read its claim from the row writes nothing over what the lane has
\* flushed since: taking a check over from the beat, the lane drops the claim
\* the write guard asks for (fastlane.py:607, worker.py:350).
LaneOutranksJobs ==
    [][\A j \in Jobs :
          Finalise(j) /\ job[j].stamp # None /\ j \in lapped => UNCHANGED row]_vars

\* Somebody is about to write what the check said: the beat's job, or the lane.
Written(c) ==
    \/ \E j \in Jobs : job[j].stage = "running" /\ job[j].check = c
    \/ flush.stage = "written" /\ c \in flush.batch

\* A fast check of an included address is run again and again, "rather than not
\* at all" (scheduler.py:430): once the lane is up or down for good, and the
\* check within the cap or past it, nobody leaves it to the other, whatever the
\* heartbeat says meanwhile.
KeepsBeingProbed ==
    \A c \in Checks :
        /\ <>[](c \notin excluded)
        /\ <>[](c \in overCap) \/ <>[](c \notin overCap)
        /\ <>[](up = "up") \/ <>[](up = "down")
        => []<>Written(c)

Parked(c) == c \in skipped /\ nextRun[c] = "null" /\ ~InFlight(c)

\* A check whose address stays excluded ends up parked for good, though the lane
\* probes it until its next reload and a flush may be past its own look at the
\* switch ("Never an excluded address's", fastlane.py:264).
ExcludedStaysParked == \A c \in Checks : <>[](c \in excluded) => <>[]Parked(c)

\* So a fast check follows the exclusion switch.
ProbedOrParked == KeepsBeingProbed /\ ExcludedStaysParked
=============================================================================
