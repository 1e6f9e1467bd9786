----------------------------- MODULE RemoteEngines -----------------------------
(***************************************************************************)
(* A check the core does not run itself: an Outpost pulls it (outpost_views *)
(* .py; outpost_ssh.py dials out with the same two calls), probes it on a  *)
(* fast lane of its own, or the Zabbix driver answers it (zabbix/driver.py).*)
(* All three come back through the core's seams: ingest_results in         *)
(* worker.py and ingest_samples in fastlane.py.                            *)
(*                                                                         *)
(* One row: a batch is a batch of rows that do not meet.  Requests overlap, *)
(* an answer may be lost, late or sent twice, and it names the check but   *)
(* not the claim it is about.                                              *)
(***************************************************************************)
EXTENDS Naturals, FiniteSets

CONSTANTS
    Pulls,      \* slots for /work requests, SSH drives and driver ticks
    Ingests,    \* slots for reports the core is taking in
    Stamps,     \* claim times
    None,       \* NULL
    MaxOwed,    \* bound on the answers a check's engine owes at a time
    MaxLosses,  \* bound on answers lost, sent again or overtaken by the reaper
    MaxDeaths   \* bound on requests and ticks that raise or die

ASSUME StampsAssumption == None \notin Stamps
ASSUME BoundsAssumption == {MaxOwed, MaxLosses, MaxDeaths} \subseteq Nat

VARIABLES
    kind,           \* the check's engine: "pull", "fast" (with interval_ms) or "driver"
    agentFast,      \* agent_fast of the engine
    held,           \* the agent has the check in its fast set
    excluded,       \* monitoring_excluded of the address
    skipped, nextRun, since,    \* status = "skipped", next_run, in_flight_since
    pull,           \* each request for work, or tick
    owed,           \* answers to hand-outs, not yet arrived
    ingest,         \* each report: where it is, and the row as it was loaded
    out,            \* history: handed out, and not answered or taken back
    losses, deaths

row == <<skipped, nextRun, since>>
engine == <<kind, agentFast, held>>
faults == <<losses, deaths>>
vars == <<engine, excluded, row, pull, owed, ingest, out, faults>>

NextRun == {"null", "due", "later"}
Ingest == [stage : {"free", "loaded", "guarded", "written"},
           via : {"report", "samples"},
           stamp : Stamps \union {None}, next : NextRun]

Free == [stage |-> "free", via |-> "report", stamp |-> None, next |-> "null"]

InFlight == since # None

-----------------------------------------------------------------------------
(* Work is handed out.                                                     *)

\* The due query; a fast check is left to an agent with a lane of its own.
Listed ==
    /\ nextRun = "due" /\ ~InFlight /\ ~excluded
    /\ ~(kind = "fast" /\ agentFast)

\* A request reads what is due ...
PullRead(p) ==
    /\ pull[p] = "free" /\ Listed
    /\ pull' = [pull EXCEPT ![p] = "read"]
    /\ UNCHANGED <<engine, excluded, row, owed, ingest, out, faults>>

\* Mutant: what was read due is claimed, whoever has claimed it since.
WinsAlways == TRUE

\* claim_states looks again, at the locked row; the driver does not.
Wins == kind = "driver" \/ (~InFlight /\ nextRun # "null")

\* A claim time is new to the row and to the reports that have loaded it.
NewStamps == Stamps \ ({since} \union {ingest[i].stamp : i \in Ingests})

\* ... and claims it, and the engine has the work.
PullClaim(p) ==
    /\ pull[p] = "read"
    /\ pull' = [pull EXCEPT ![p] = "free"]
    /\ IF Wins
       THEN /\ NewStamps # {} /\ owed < MaxOwed
            /\ since' = CHOOSE t \in NewStamps : TRUE
            /\ nextRun' = "later"
            /\ owed' = owed + 1
            /\ out' = TRUE
       ELSE UNCHANGED <<since, nextRun, owed, out>>
    /\ UNCHANGED <<engine, excluded, skipped, ingest, faults>>

BecomesDue ==
    /\ nextRun = "later" /\ nextRun' = "due"
    /\ UNCHANGED <<engine, excluded, skipped, since, pull, owed, ingest, out, faults>>

-----------------------------------------------------------------------------
(* Answers come back.                                                      *)

\* ingest_results loads the row if it is claimed, by whichever claim.
LoadReport(i) ==
    /\ ingest[i].stage = "free"
    /\ ingest' = IF InFlight
                 THEN [ingest EXCEPT ![i] = [Free EXCEPT !.stage = "loaded", !.stamp = since]]
                 ELSE ingest
    /\ UNCHANGED <<engine, excluded, row, pull, out, deaths>>

Deliver(i) ==
    /\ owed > 0 /\ owed' = owed - 1
    /\ LoadReport(i) /\ UNCHANGED losses

\* The agent did not hear that it was heard.
DeliverAgain(i) ==
    /\ owed > 0 /\ kind # "driver"
    /\ losses < MaxLosses /\ losses' = losses + 1
    /\ LoadReport(i) /\ UNCHANGED owed

Lose ==
    /\ kind # "driver" /\ owed > 0 /\ owed' = owed - 1
    /\ losses < MaxLosses /\ losses' = losses + 1
    /\ UNCHANGED <<engine, excluded, row, pull, ingest, out, deaths>>

\* A driver tick that raises or dies with the row claimed.
TickDies ==
    /\ kind = "driver" /\ owed > 0 /\ owed' = owed - 1
    /\ deaths < MaxDeaths /\ deaths' = deaths + 1
    /\ UNCHANGED <<engine, excluded, row, pull, ingest, out, losses>>

\* ingest_samples loads the fast rows of included addresses, claimed or not.
LoadSamples(i) ==
    /\ held /\ ingest[i].stage = "free" /\ ~excluded
    /\ ingest' = [ingest EXCEPT ![i] = [stage |-> "loaded", via |-> "samples",
                                        stamp |-> since, next |-> nextRun]]
    /\ UNCHANGED <<engine, excluded, row, pull, owed, out, faults>>

Park ==
    /\ skipped' = TRUE /\ nextRun' = "null" /\ since' = None
    /\ out' = FALSE

Done(i) == ingest' = [ingest EXCEPT ![i] = Free]

\* _finalise's write guard, for a report ...
Stale(i) == ingest[i].via = "report" /\ since # ingest[i].stamp

\* ... and its look at the switch; samples have _persist's.
Guard(i) ==
    /\ ingest[i].stage = "loaded"
    /\ IF Stale(i) THEN Done(i) /\ UNCHANGED <<row, out>>
       ELSE IF excluded THEN Done(i) /\ Park
       ELSE /\ ingest' = [ingest EXCEPT ![i].stage = "guarded"]
            /\ UNCHANGED <<row, out>>
    /\ UNCHANGED <<engine, excluded, pull, owed, faults>>

\* A report frees the row and sets its next run; samples write what was loaded.
Write(i) ==
    /\ ingest[i].stage = "guarded"
    /\ skipped' = FALSE
    /\ IF ingest[i].via = "report"
       THEN since' = None /\ nextRun' = "later" /\ out' = FALSE
       ELSE since' = ingest[i].stamp /\ nextRun' = ingest[i].next /\ out' = out
    /\ ingest' = [ingest EXCEPT ![i] = [Free EXCEPT !.stage = "written"]]
    /\ UNCHANGED <<engine, excluded, pull, owed, faults>>

\* Mutant: a write is not looked at again.
HealsNever == FALSE

Heals == excluded

\* _heal_excluded.
Heal(i) ==
    /\ ingest[i].stage = "written" /\ Done(i)
    /\ IF Heals THEN Park ELSE UNCHANGED <<row, out>>
    /\ UNCHANGED <<engine, excluded, pull, owed, faults>>

IngestDies(i) ==
    /\ ingest[i].stage # "free" /\ Done(i)
    /\ deaths < MaxDeaths /\ deaths' = deaths + 1
    /\ UNCHANGED <<engine, excluded, row, pull, owed, out, losses>>

\* A claim past its deadline.
Stuck == InFlight

Quiet == owed = 0 /\ \A i \in Ingests : ingest[i].stage = "free"

\* The reaper; while an answer is on its way, that answer is late.
Reap ==
    /\ Stuck
    /\ IF Quiet THEN UNCHANGED losses ELSE losses < MaxLosses /\ losses' = losses + 1
    /\ since' = None /\ nextRun' = "due" /\ out' = FALSE
    /\ UNCHANGED <<engine, excluded, skipped, pull, owed, ingest, deaths>>

-----------------------------------------------------------------------------
(* The agent's own lane, and the operators.                                *)

\* Mutant: the agent keeps its set when it starts as an older one.
HelloKeeps ==
    /\ kind # "driver" /\ agentFast' \in BOOLEAN
    /\ UNCHANGED <<kind, held, excluded, row, pull, owed, ingest, out, faults>>

\* The agent starts, with a lane of its own or from before there was one.
Hello ==
    /\ kind # "driver"
    /\ agentFast' \in BOOLEAN /\ held' = FALSE
    /\ UNCHANGED <<kind, excluded, row, pull, owed, ingest, out, faults>>

\* /fast-work: the agent's set is what it is told.
FastWork ==
    /\ kind = "fast" /\ agentFast /\ held # ~excluded
    /\ held' = ~excluded
    /\ UNCHANGED <<kind, agentFast, excluded, row, pull, owed, ingest, out, faults>>

Exclude ==
    /\ ~excluded /\ excluded' = TRUE /\ Park
    /\ UNCHANGED <<engine, pull, owed, ingest, faults>>

Include ==
    /\ excluded /\ excluded' = FALSE
    /\ nextRun' = "due" /\ since' = None /\ out' = FALSE
    /\ UNCHANGED <<engine, skipped, pull, owed, ingest, faults>>

-----------------------------------------------------------------------------

\* A row just made.
Init ==
    /\ kind \in {"pull", "fast", "driver"} /\ agentFast = FALSE /\ held = FALSE
    /\ excluded = FALSE
    /\ skipped = FALSE /\ nextRun = "due" /\ since = None
    /\ pull = [p \in Pulls |-> "free"] /\ owed = 0
    /\ ingest = [i \in Ingests |-> Free]
    /\ out = FALSE /\ losses = 0 /\ deaths = 0

IngestStep(i) == Guard(i) \/ Write(i) \/ Heal(i)

Next ==
    \/ \E p \in Pulls : PullRead(p) \/ PullClaim(p)
    \/ \E i \in Ingests :
          \/ Deliver(i) \/ DeliverAgain(i) \/ LoadSamples(i)
          \/ IngestStep(i) \/ IngestDies(i)
    \/ BecomesDue \/ Lose \/ TickDies \/ Reap
    \/ Hello \/ FastWork \/ Exclude \/ Include

Spec == Init /\ [][Next]_vars

\* The core's timers run, and an agent that is up keeps pulling, probing and
\* reporting.
Fairness ==
    /\ WF_vars(\E p \in Pulls : PullRead(p)) /\ \A p \in Pulls : WF_vars(PullClaim(p))
    /\ WF_vars(\E i \in Ingests : Deliver(i))
    /\ \A i \in Ingests : WF_vars(IngestStep(i))
    /\ SF_vars(\E i \in Ingests : LoadSamples(i))
    /\ WF_vars(BecomesDue) /\ WF_vars(Quiet /\ Reap) /\ WF_vars(FastWork)

FairSpec == Spec /\ Fairness

-----------------------------------------------------------------------------

\* Types; and only a fast check on an agent with a lane is in its set.
TypeOK ==
    /\ kind \in {"pull", "fast", "driver"} /\ agentFast \in BOOLEAN
    /\ held \in BOOLEAN /\ (held => kind = "fast" /\ agentFast)
    /\ excluded \in BOOLEAN /\ skipped \in BOOLEAN
    /\ nextRun \in NextRun /\ since \in Stamps \union {None}
    /\ pull \in [Pulls -> {"free", "read"}] /\ owed \in 0 .. MaxOwed
    /\ ingest \in [Ingests -> Ingest]
    /\ out \in BOOLEAN
    /\ losses \in 0 .. MaxLosses /\ deaths \in 0 .. MaxDeaths

\* "An agent's retried or overlapping pull cannot hand the same check out twice"
\* (outpost_views.py:68): until it is answered, reaped or excluded, nobody else is
\* handed it, though both requests read it due.
HandedOutOnce == [][kind = "pull" /\ owed' > owed => ~out]_vars

\* A check of an included address is answered again and again, whichever engine
\* has it: lost answers and dead ticks are made up for by the reaper
\* (scheduler.py:173), and a fast check goes back to /work with an agent that
\* has no lane.
KeepsBeingAnswered ==
    <>[]~excluded /\ <>[][~Hello]_vars
    => []<>(\E i \in Ingests : ingest[i].stage = "written")

Parked == skipped /\ nextRun = "null" /\ ~InFlight

\* "Whatever still arrives for it ... is discarded, and the check is parked
\* again" (docs/monitoring/outposts.md:136), though the switch is thrown between
\* the read of a tick and its claim, or the look at it and the write (unless the
\* process that should park it again died, or the reaper overtook a driver's).
ExcludedStaysParked ==
    <>[](excluded /\ deaths = 0 /\ (kind = "driver" => losses = 0)) => <>[]Parked

\* So a check of a remote engine follows the exclusion switch.
AnsweredOrParked == KeepsBeingAnswered /\ ExcludedStaysParked
=============================================================================
