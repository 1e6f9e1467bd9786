------------------------------ MODULE Hysteresis ------------------------------
(***************************************************************************)
(* The verdict of one check: how a run of probe outcomes is folded into    *)
(* the status an operator sees (monitoring/state.py, apply_outcome), and   *)
(* the three other writers of that status - the skip list, the exclusion   *)
(* switch and its reverse.                                                 *)
(*                                                                         *)
(* Its names do not meet those of CheckEngine, which stands for all of this*)
(* by the words a check may be given: CheckEngineProofs relates the two.   *)
(*                                                                         *)
(* Time is abstracted to the whole days that have passed since the status  *)
(* last changed ("age"), the only thing apply_outcome compares.            *)
(***************************************************************************)
EXTENDS Naturals

CONSTANTS
    Policies,   \* the (rise, fall, stale_after_scans, stale_after_days) settings in use
    MaxRun,     \* bound: a check's counters stop the model beyond this
    MaxAge      \* bound: days are not counted beyond this

Policy == [rise : Nat, fall : Nat, scans : Nat, days : Nat]

ASSUME PoliciesAssumption == Policies \subseteq Policy /\ Policies # {}
ASSUME HorizonAssumption == MaxRun \in Nat /\ MaxAge \in Nat

VARIABLES
    state,      \* the CheckState row: status, the two counters, age
    policy,     \* the settings in force (an operator may edit them)
    streak,     \* history: the current run of like outcomes, unknowns ignored
    bad         \* history: days since the status was last not down or stale

verdictVars == <<state, policy, streak, bad>>

Outcome == {"up", "down", "degraded", "unknown"}
CheckStatus == Outcome \union {"stale", "skipped"}
CheckState == [status : CheckStatus, success : Nat, fail : Nat, age : Nat]
Streak == [kind : {"none", "good", "bad"}, n : Nat]

AtLeastOne(n) == IF n = 0 THEN 1 ELSE n

-----------------------------------------------------------------------------
(* apply_outcome, in the order of the code: counters, status, escalation.  *)

Reachable == {"up", "degraded"}

\* Mutant: a failure leaves the successes counted so far.
SuccessKept(n, o) == IF o \in Reachable THEN n + 1 ELSE n

\* consecutive_success once the outcome is counted.
SuccessAfter(n, o) ==
    IF o \in Reachable THEN n + 1 ELSE IF o = "down" THEN 0 ELSE n

\* Mutant: a success takes one failure off the count instead of clearing it.
FailLeaky(n, o) ==
    IF o = "down" THEN n + 1 ELSE IF o \in Reachable THEN n - 1 ELSE n

\* consecutive_fail once the outcome is counted.
FailAfter(n, o) ==
    IF o = "down" THEN n + 1 ELSE IF o \in Reachable THEN 0 ELSE n

\* The status before the stale escalation; c has its counters brought forward.
Verdict(c, p, o) ==
    IF o = "degraded" THEN "degraded"
    ELSE IF o = "up" /\ (c.status \in Reachable \/ c.success >= AtLeastOne(p.rise))
      THEN "up"
    ELSE IF o = "down" /\ c.fail >= AtLeastOne(p.fall) THEN "down"
    ELSE IF o = "unknown" /\ c.status = "skipped" THEN "unknown"
    ELSE c.status

\* Mutant: a stale check is not recognised as one.
ChronicForgetsStale(c, p) ==
    \/ p.scans > 0 /\ c.fail >= p.scans
    \/ p.days > 0 /\ c.status \in {"down", "stale"} /\ c.age >= p.days

\* Whether a verdict of "down" is chronic.
Chronic(c, p) ==
    \/ c.status = "stale" /\ (p.scans > 0 \/ p.days > 0)
    \/ p.scans > 0 /\ c.fail >= p.scans
    \/ p.days > 0 /\ c.status \in {"down", "stale"} /\ c.age >= p.days

Escalated(c, p, new) == IF new = "down" /\ Chronic(c, p) THEN "stale" ELSE new

\* A change of status restarts "since".
WithStatus(c, new) ==
    [status |-> new, success |-> c.success, fail |-> c.fail,
     age |-> IF new = c.status THEN c.age ELSE 0]

Counted(s, o) ==
    [status |-> s.status, success |-> SuccessAfter(s.success, o),
     fail |-> FailAfter(s.fail, o), age |-> s.age]

ApplyOutcome(s, p, o) ==
    LET c == Counted(s, o) IN WithStatus(c, Escalated(c, p, Verdict(c, p, o)))

-----------------------------------------------------------------------------
(* History, for the properties.                                            *)

NextStreak(o) ==
    LET kind == IF o = "down" THEN "bad" ELSE "good"
    IN IF o = "unknown" THEN streak
       ELSE [kind |-> kind, n |-> IF streak.kind = kind THEN streak.n + 1 ELSE 1]

IsBad(status) == status \in {"down", "stale"}

NextBad(new) == IF IsBad(new) THEN bad ELSE 0

-----------------------------------------------------------------------------

VerdictInit ==
    /\ state = [status |-> "unknown", success |-> 0, fail |-> 0, age |-> 0]
    /\ policy \in Policies
    /\ streak = [kind |-> "none", n |-> 0]
    /\ bad = 0

\* A probe came back and its outcome is folded in.
Observe(o) ==
    /\ state.success < MaxRun /\ state.fail < MaxRun /\ streak.n < MaxRun
    /\ state' = ApplyOutcome(state, policy, o)
    /\ streak' = NextStreak(o)
    /\ bad' = NextBad(state'.status)
    /\ UNCHANGED policy

\* The address is on the tenant's skip list, or was excluded from monitoring.
\* Nothing is dialled and the counters stay as they were.
Skip ==
    /\ state' = WithStatus(state, "skipped")
    /\ bad' = 0
    /\ UNCHANGED <<policy, streak>>

\* Included again: the counters start over and the status waits for a verdict.
Arm ==
    /\ state' = [status |-> state.status, success |-> 0, fail |-> 0,
                  age |-> state.age]
    /\ streak' = [kind |-> "none", n |-> 0]
    /\ UNCHANGED <<policy, bad>>

\* An operator edits the check's rise or fall, or the tenant's stale limits.
Reconfigure(p) ==
    /\ policy' = p
    /\ UNCHANGED <<state, streak, bad>>

DayPasses ==
    /\ state.age < MaxAge \/ bad < MaxAge
    /\ state' = [state EXCEPT !.age = IF @ < MaxAge THEN @ + 1 ELSE @]
    /\ bad' = IF IsBad(state.status) /\ bad < MaxAge THEN bad + 1 ELSE bad
    /\ UNCHANGED <<policy, streak>>

VerdictNext ==
    \/ \E o \in Outcome : Observe(o)
    \/ Skip
    \/ Arm
    \/ \E p \in Policies : Reconfigure(p)
    \/ DayPasses

VerdictSpec == VerdictInit /\ [][VerdictNext]_verdictVars

-----------------------------------------------------------------------------

\* The row, the settings and the histories have their types.
VerdictTypeOK ==
    /\ state \in CheckState
    /\ policy \in Policies
    /\ streak \in Streak
    /\ bad \in Nat

\* The counters are the history: the length of the current run of failures, or
\* of successes, since the check was last armed.
CountersMatch ==
    /\ state.fail = IF streak.kind = "bad" THEN streak.n ELSE 0
    /\ state.success = IF streak.kind = "good" THEN streak.n ELSE 0

\* While a check is down or stale, "since" is no earlier than its last other
\* status: what the by-days escalation measures is down time.
AgeIsDownTime == IsBad(state.status) => state.age <= bad

\* The inductive invariant of the action properties below.
VerdictInv == VerdictTypeOK /\ CountersMatch /\ AgeIsDownTime

\* "down" needs fall consecutive failures (state.py:13), whichever settings
\* edits, skips and inclusions came in between: a check that turns down has
\* just failed at least fall times in a row, by the history and not by its
\* own counter.
DownIsEarned ==
    [][state.status # "down" /\ state'.status = "down" =>
          streak'.kind = "bad" /\ streak'.n >= AtLeastOne(policy.fall)]_verdictVars

\* "up" needs rise consecutive successes (state.py:11); only a degraded check,
\* already reachable, comes up at once.
UpIsEarned ==
    [][state.status \notin {"up", "degraded"} /\ state'.status = "up" =>
          streak'.kind = "good" /\ streak'.n >= AtLeastOne(policy.rise)]_verdictVars

\* What the hysteresis promises of up and down.
StatusIsEarned == DownIsEarned /\ UpIsEarned

\* While a stale limit is on, stale ends only by rising to up, by showing
\* degraded, or by not being measured any more (state.py:19): never by a
\* failure after a success too short to rise, nor by a limit raised since.
StaleEndsByRising ==
    [][state.status = "stale" /\ (policy.scans > 0 \/ policy.days > 0) =>
          state'.status \in {"stale", "up", "degraded", "skipped"}]_verdictVars

\* A check turns stale only after enough failures in a row, or after enough
\* days without a status other than down or stale: "a long prior uptime can't
\* falsely flip it stale" (state.py:76).
StaleIsChronic ==
    [][state.status # "stale" /\ state'.status = "stale" =>
          \/ policy.scans > 0 /\ streak'.kind = "bad" /\ streak'.n >= policy.scans
          \/ policy.days > 0 /\ bad >= policy.days]_verdictVars

\* Both doors of stale: in only after a long failure, out only by recovering.
StaleIsEarned == StaleIsChronic /\ StaleEndsByRising
=============================================================================
