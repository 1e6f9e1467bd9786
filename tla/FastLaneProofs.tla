---------------------------- MODULE FastLaneProofs ----------------------------
(***************************************************************************)
(* For any number of checks, jobs and failures: a job of the beat that the *)
(* lane overtook writes nothing.  The lane and the beat exclude each other *)
(* only by a heartbeat that may lie; what keeps the two apart is the claim *)
(* the lane drops when it writes, and that no later claim of the row is    *)
(* taken for the job's own (LappedLostClaim).                              *)
(***************************************************************************)
EXTENDS FastLane, TLAPS

LappedLostClaim ==
    \A j \in lapped :
        job[j].stage = "running" /\ job[j].stamp # None => since[job[j].check] # job[j].stamp

IInv == TypeOK /\ LappedLostClaim

-----------------------------------------------------------------------------

LEMMA FreeIsJob == Free \in Job
<1>1. (CHOOSE c \in Checks : TRUE) \in Checks
  BY ChecksAssumption
<1> QED
  BY <1>1 DEF Free, Job

LEMMA InitInv == Init => IInv
<1> SUFFICES ASSUME Init PROVE IInv
  OBVIOUS
<1>1. job \in [Jobs -> Job] /\ lapped = {} /\ LappedLostClaim
  BY FreeIsJob DEF Init, LappedLostClaim
<1>2. flush \in Flush /\ flush.batch = {} /\ reading \in [Checks -> Reading]
  BY DEF Init, NoFlush, Flush, NothingRead, Reading
<1> QED
  BY <1>1, <1>2 DEF Init, IInv, TypeOK

\* Columns keep their types when set on some rows.
LEMMA OnTypes ==
    ASSUME NEW S, NEW T, NEW column \in [Checks -> T], NEW value \in T
    PROVE  On(S, column, value) \in [Checks -> T]
BY DEF On

\* Dropping claims leaves the lapped jobs without theirs.
LEMMA DropsKeep ==
    ASSUME IInv, job' = job, lapped' \subseteq lapped,
           \A c \in Checks : since'[c] \in {since[c], None}
    PROVE  LappedLostClaim'
BY DEF IInv, TypeOK, LappedLostClaim, Job

\* A job that goes back to its slot, or starts, does not count as lapped.
LEMMA JobMoves ==
    ASSUME IInv, NEW j \in Jobs, NEW new \in Job, job' = [job EXCEPT ![j] = new],
           \/ new.stage = "free" /\ lapped' \subseteq lapped
           \/ lapped' = lapped \ {j},
           \A c \in Checks : since'[c] \in {since[c], None}
    PROVE  job' \in [Jobs -> Job] /\ lapped' \subseteq Jobs /\ LappedLostClaim'
BY DEF IInv, TypeOK, LappedLostClaim, Job

\* Parking.
LEMMA ParkTypes ==
    ASSUME TypeOK, NEW S \in SUBSET Checks, Park(S)
    PROVE  /\ skipped' \subseteq Checks /\ owned' \subseteq Checks
           /\ nextRun' \in [Checks -> {"null", "due", "later"}]
           /\ since' \in [Checks -> Stamps \union {None}]
           /\ \A c \in Checks : since'[c] \in {since[c], None}
BY DEF TypeOK, Park, On

LEMMA StepInv == IInv /\ [Next]_vars => IInv'
<1> SUFFICES ASSUME IInv, [Next]_vars PROVE IInv'
  OBVIOUS
<1>a. TypeOK /\ LappedLostClaim
  BY DEF IInv
<1>1. ASSUME NEW c \in Checks, NEW j \in Jobs, Dispatch(c, j) PROVE IInv'
  <2> DEFINE t == CHOOSE t \in NewStamps : TRUE
             new == [stage |-> "queued", check |-> c, stamp |-> None]
  <2>1. t \in NewStamps
    BY <1>1 DEF Dispatch
  <2>2. t \in Stamps /\ \A k \in Jobs : job[k].stamp # t
    BY <2>1 DEF NewStamps
  <2>3. /\ since' = [since EXCEPT ![c] = t] /\ job' = [job EXCEPT ![j] = new]
        /\ lapped' = lapped \ {j}
    BY <1>1 DEF Dispatch
  <2>4. new \in Job
    BY DEF Job
  <2> HIDE DEF t, new
  <2>5. /\ since' \in [Checks -> Stamps \union {None}] /\ job' \in [Jobs -> Job]
        /\ lapped' \subseteq Jobs
    BY <2>2, <2>3, <2>4, <1>a DEF TypeOK
  <2>6. LappedLostClaim'
    BY <2>2, <2>3, <1>a DEF LappedLostClaim, TypeOK, Job
  <2>7. nextRun' \in [Checks -> {"null", "due", "later"}]
    BY <1>1, <1>a DEF Dispatch, TypeOK
  <2> QED
    BY <1>1, <2>5, <2>6, <2>7, <1>a DEF Dispatch, IInv, TypeOK, switches, lane, memory
<1>2. ASSUME NEW j \in Jobs, Start(j) PROVE IInv'
  <2> DEFINE c == job[j].check
  <2>1. c \in Checks /\ since[c] \in Stamps \union {None} /\ lapped' = lapped \ {j}
    BY <1>2, <1>a DEF Start, TypeOK, Job
  <2>2. CASE c \in excluded
    <3>1. Park({c}) /\ job' = [job EXCEPT ![j] = Free]
      BY <1>2, <2>2 DEF Start
    <3>2. job' \in [Jobs -> Job] /\ lapped' \subseteq Jobs /\ LappedLostClaim'
      BY <2>1, <3>1, <1>a, FreeIsJob, ParkTypes, JobMoves
    <3> QED
      BY <1>2, <2>1, <3>1, <3>2, <1>a, ParkTypes DEF Start, IInv, TypeOK, switches, lane, memory
  <2>3. CASE c \notin excluded
    <3> DEFINE new == [job[j] EXCEPT !.stage = "running", !.stamp = since[c]]
    <3>1. UNCHANGED row /\ job' = [job EXCEPT ![j] = new]
      BY <1>2, <2>3 DEF Start
    <3>2. new \in Job
      BY <2>1, <1>a DEF TypeOK, Job
    <3> HIDE DEF new
    <3>3. job' \in [Jobs -> Job] /\ lapped' \subseteq Jobs /\ LappedLostClaim'
      BY <2>1, <3>1, <3>2, JobMoves DEF row
    <3> QED
      BY <1>2, <3>1, <3>3, <1>a DEF Start, IInv, TypeOK, row, switches, lane, memory
  <2> QED
    BY <2>2, <2>3
<1>3. ASSUME NEW j \in Jobs, Finalise(j) PROVE IInv'
  <2> DEFINE c == job[j].check
  <2>1. c \in Checks /\ job' = [job EXCEPT ![j] = Free] /\ lapped' = lapped
    BY <1>3, <1>a DEF Finalise, TypeOK, Job
  <2>2. /\ skipped' \subseteq Checks /\ owned' \subseteq Checks
        /\ nextRun' \in [Checks -> {"null", "due", "later"}]
        /\ since' \in [Checks -> Stamps \union {None}]
        /\ \A d \in Checks : since'[d] \in {since[d], None}
    <3>1. CASE UNCHANGED row
      BY <3>1, <1>a DEF row, TypeOK
    <3>2. CASE Park({c})
      BY <2>1, <3>2, <1>a, ParkTypes
    <3>3. CASE /\ skipped' = skipped \ {c} /\ nextRun' = [nextRun EXCEPT ![c] = "later"]
               /\ since' = [since EXCEPT ![c] = None] /\ UNCHANGED owned
      BY <2>1, <3>3, <1>a DEF TypeOK
    <3> QED
      BY <1>3, <3>1, <3>2, <3>3 DEF Finalise
  <2>3. Free.stage = "free"
    BY DEF Free
  <2>4. job' \in [Jobs -> Job] /\ lapped' \subseteq Jobs /\ LappedLostClaim'
    BY <2>1, <2>2, <2>3, FreeIsJob, JobMoves
  <2> QED
    BY <1>3, <2>2, <2>4, <1>a DEF Finalise, IInv, TypeOK, switches, lane, memory
<1>4. ASSUME NEW j \in Jobs, JobDies(j) PROVE IInv'
  <2>1. Free.stage = "free" /\ UNCHANGED row /\ job' = [job EXCEPT ![j] = Free]
        /\ lapped' = lapped
    BY <1>4 DEF Free, JobDies
  <2>2. job' \in [Jobs -> Job] /\ lapped' \subseteq Jobs /\ LappedLostClaim'
    BY <2>1, FreeIsJob, JobMoves DEF row
  <2> QED
    BY <1>4, <2>1, <2>2, <1>a, FailuresAssumption
    DEF JobDies, IInv, TypeOK, row, switches, lane, memory
<1>5. ASSUME NEW c \in Checks, Reap(c) PROVE IInv'
  <2>1. /\ since' \in [Checks -> Stamps \union {None}]
        /\ nextRun' \in [Checks -> {"null", "due", "later"}]
        /\ \A d \in Checks : since'[d] \in {since[d], None}
        /\ job' = job /\ lapped' = lapped
    BY <1>5, <1>a DEF Reap, TypeOK, beat
  <2>2. LappedLostClaim'
    BY <2>1, DropsKeep
  <2> QED
    BY <1>5, <2>1, <2>2, <1>a DEF Reap, IInv, TypeOK, switches, lane, memory
<1>6. ASSUME NEW c \in Checks, BecomesDue(c) \/ Forget(c) \/ Fold(c) PROVE IInv'
  <2>1. UNCHANGED <<since, job, lapped>>
    BY <1>6 DEF BecomesDue, Forget, Fold, row, beat
  <2>2. nextRun' \in [Checks -> {"null", "due", "later"}]
    BY <1>6, <1>a DEF BecomesDue, Forget, Fold, row, TypeOK
  <2>3. copies' \subseteq Checks /\ entries' \union dirty' \union flush'.batch \subseteq copies'
    BY <1>6, <1>a DEF BecomesDue, Forget, Fold, lane, memory, TypeOK
  <2>4. UNCHANGED <<skipped, owned, switches, up, reading, flush, fresh, failures>>
    BY <1>6 DEF BecomesDue, Forget, Fold, lane, row
  <2> QED
    BY <2>1, <2>2, <2>3, <2>4, <1>a DEF IInv, TypeOK, LappedLostClaim, switches
<1>7. CASE LaneStart \/ ReloadRead \/ ReloadWrite
  <2>1. UNCHANGED <<skipped, nextRun, since, switches, flush, fresh, job, lapped, failures>>
    BY <1>7 DEF LaneStart, ReloadRead, ReloadWrite, row, beat
  <2>2. up' \in {"down", "started", "up"} /\ owned' \subseteq Checks
    BY <1>7, <1>a DEF LaneStart, ReloadRead, ReloadWrite, row, TypeOK, Runnable
  <2>3. reading' \in [Checks -> Reading]
    BY <1>7, <1>a DEF LaneStart, ReloadRead, ReloadWrite, TypeOK, NothingRead, Reading
  <2>4. copies' \subseteq Checks /\ entries' \union dirty' \union flush.batch \subseteq copies'
    BY <1>7, <1>a DEF LaneStart, ReloadRead, ReloadWrite, TypeOK, memory, Runnable
  <2> QED
    BY <2>1, <2>2, <2>3, <2>4, <1>a DEF IInv, TypeOK, LappedLostClaim, switches
<1>8. CASE FlushRead
  <2> DEFINE gone == dirty \intersect excluded
  <2>1. gone \in SUBSET Checks /\ Park(gone) /\ job' = job /\ lapped' = lapped
    BY <1>8, <1>a DEF FlushRead, TypeOK, beat
  <2>2. LappedLostClaim'
    BY <2>1, <1>a, ParkTypes, DropsKeep
  <2>3. /\ dirty' = {} /\ flush' = [stage |-> "read", batch |-> dirty \ excluded]
        /\ flush' \in Flush /\ flush'.batch \subseteq dirty
    BY <1>8, <1>a DEF FlushRead, TypeOK, Flush
  <2> HIDE DEF gone
  <2> QED
    BY <1>8, <2>1, <2>2, <2>3, <1>a, ParkTypes DEF FlushRead, IInv, TypeOK, switches
<1>9. CASE FlushWrite
  <2>1. /\ flush.batch \in SUBSET Checks /\ flush' \in Flush /\ flush'.batch = flush.batch
    BY <1>9, <1>a DEF FlushWrite, TypeOK, Flush
  <2>2. /\ since' = On(flush.batch, since, None) /\ nextRun' = On(flush.batch, nextRun, "later")
        /\ job' = job /\ skipped' \subseteq skipped
        /\ lapped' = lapped \union {j \in Jobs : job[j].stage = "running"
                                                 /\ job[j].check \in flush.batch}
    BY <1>9 DEF FlushWrite, Cleared
  <2>3. since' \in [Checks -> Stamps \union {None}]
        /\ nextRun' \in [Checks -> {"null", "due", "later"}]
    BY <2>2, <1>a, OnTypes DEF TypeOK
  <2>4. LappedLostClaim'
    BY <2>1, <2>2, <1>a DEF LappedLostClaim, On, TypeOK, Job
  <2> QED
    BY <1>9, <2>1, <2>2, <2>3, <2>4, <1>a DEF FlushWrite, IInv, TypeOK, switches, memory
<1>10. CASE FlushHeal
  <2>1. Healed \in SUBSET Checks /\ Park(Healed) /\ job' = job /\ lapped' = lapped
    BY <1>10, <1>a DEF FlushHeal, Healed, TypeOK, beat
  <2>2. LappedLostClaim'
    BY <2>1, <1>a, ParkTypes, DropsKeep
  <2>3. flush' \in Flush /\ flush'.batch = {}
    BY <1>10 DEF FlushHeal, NoFlush, Flush
  <2> QED
    BY <1>10, <2>1, <2>2, <2>3, <1>a, ParkTypes DEF FlushHeal, IInv, TypeOK, switches, memory
<1>11. CASE FlushFails
  <2>1. flush' \in Flush /\ flush'.batch = {} /\ failures' \in Nat
    BY <1>11, <1>a DEF FlushFails, NoFlush, Flush, TypeOK
  <2> QED
    BY <1>11, <2>1, <1>a DEF FlushFails, IInv, TypeOK, LappedLostClaim, row, switches, memory,
       beat
<1>12. CASE LaneDies \/ LaneStop
  <2>1. /\ up' = "down" /\ entries' = {} /\ copies' = {} /\ dirty' = {}
        /\ flush' \in Flush /\ flush'.batch = {} /\ reading' \in [Checks -> Reading]
    BY <1>12 DEF LaneDies, LaneStop, Gone, NoFlush, Flush, NothingRead, Reading
  <2>2. /\ UNCHANGED <<skipped, nextRun, since, switches, job, lapped, failures>>
        /\ owned' \subseteq owned /\ fresh' \in BOOLEAN
    BY <1>12, <1>a DEF LaneDies, LaneStop, row, beat, TypeOK
  <2> QED
    BY <2>1, <2>2, <1>a DEF IInv, TypeOK, LappedLostClaim, switches
<1>13. CASE Heartbeat \/ Lapse
  <2>1. UNCHANGED <<row, switches, lane, beat, failures>> /\ fresh' \in BOOLEAN
    BY <1>13 DEF Heartbeat, Lapse
  <2> QED
    BY <2>1, <1>a DEF IInv, TypeOK, LappedLostClaim, row, switches, lane, memory, beat
<1>14. ASSUME NEW c \in Checks, Exclude(c) PROVE IInv'
  <2>1. {c} \in SUBSET Checks /\ Park({c}) /\ job' = job /\ lapped' = lapped
    BY <1>14 DEF Exclude, beat
  <2>2. LappedLostClaim'
    BY <2>1, <1>a, ParkTypes, DropsKeep
  <2> QED
    BY <1>14, <2>1, <2>2, <1>a, ParkTypes DEF Exclude, IInv, TypeOK, lane, memory
<1>15. ASSUME NEW c \in Checks, Include(c) PROVE IInv'
  <2>1. /\ since' \in [Checks -> Stamps \union {None}]
        /\ nextRun' \in [Checks -> {"null", "due", "later"}]
        /\ \A d \in Checks : since'[d] \in {since[d], None}
        /\ job' = job /\ lapped' = lapped
    BY <1>15, <1>a DEF Include, TypeOK, beat
  <2>2. LappedLostClaim'
    BY <2>1, DropsKeep
  <2> QED
    BY <1>15, <2>1, <2>2, <1>a DEF Include, IInv, TypeOK, lane, memory
<1>16. ASSUME NEW c \in Checks, ToggleCap(c) PROVE IInv'
  BY <1>16, <1>a DEF ToggleCap, IInv, TypeOK, LappedLostClaim, row, lane, memory, beat
<1>17. CASE UNCHANGED vars
  BY <1>17, <1>a DEF vars, IInv, TypeOK, LappedLostClaim, row, switches, lane, memory, beat
<1> QED
  BY <1>1, <1>2, <1>3, <1>4, <1>5, <1>6, <1>7, <1>8, <1>9, <1>10, <1>11, <1>12, <1>13, <1>14,
     <1>15, <1>16, <1>17 DEF Next, JobStep, FlushStep

LEMMA Invariant == Spec => []IInv
BY InitInv, StepInv, PTL DEF Spec

-----------------------------------------------------------------------------

\* Variables keep their types, and the lane holds a copy of everything it
\* schedules, has to write or is writing (fastlane.py).
THEOREM TypeCorrect == Spec => []TypeOK
<1>1. IInv => TypeOK
  BY DEF IInv
<1> QED
  BY <1>1, Invariant, PTL

\* No job writes over a check with a claim the lane has ended, whatever lapses,
\* dies or is switched: for any number of jobs and checks (fastlane.py:607,
\* worker.py:350).
THEOREM LaneOutranksJobsThm == Spec => LaneOutranksJobs
<1>1. IInv => \A j \in Jobs :
          Finalise(j) /\ job[j].stamp # None /\ j \in lapped => UNCHANGED row
  BY DEF IInv, LappedLostClaim, Finalise
<1>2. IInv /\ [Next]_vars =>
        [\A j \in Jobs : Finalise(j) /\ job[j].stamp # None /\ j \in lapped
                         => UNCHANGED row]_vars
  BY <1>1
<1> QED
  BY <1>2, Invariant, PTL DEF Spec, LaneOutranksJobs
=============================================================================
