------------------------------ MODULE Materialise ------------------------------
(***************************************************************************)
(* How assignments become CheckState rows and rows come and go             *)
(* (monitoring/scheduler.py, materialise_ip), for one address: the         *)
(* periodic pass and the requests that edit an assignment walk the address *)
(* statement by statement, beside each other, beside "Check now" - which   *)
(* makes the rows it misses - and beside the exclusion switch.             *)
(*                                                                         *)
(* What the engine does with a due row is one step here (RunCheck); module *)
(* CheckEngine has the detail.                                             *)
(*                                                                         *)
(* Its names do not meet those of SchedulerBeat, whose proofs stand beside *)
(* its own.                                                                *)
(***************************************************************************)
EXTENDS Naturals, FiniteSets

CONSTANTS
    Checks,         \* templates that may apply to the address
    Direct,         \* those assigned to it directly; the others by its prefix
    Passes,         \* slots for the periodic pass
    Edits,          \* slots for requests that edit an assignment
    Requests,       \* slots for "Check now" requests
    Scenes,         \* what this instance covers: which checks, and what happens
    MaxCrashes      \* bound on processes that die

Walkers == Passes \union Edits

ASSUME CheckSetsAssumption ==
    Direct \subseteq Checks /\ Passes \intersect Edits = {}
ASSUME ScenesAssumption ==
    /\ Scenes \subseteq [checks : SUBSET Checks,
                         features : SUBSET {"assign", "disable", "exclude", "check_now",
                                            "crash"}]
    /\ MaxCrashes \in Nat

VARIABLES
    scene,              \* the one of Scenes this behaviour is in
    assigned,           \* checks an assignment covering the address names
    disabled,           \* checks whose winning assignment is disabled
    excluded,           \* monitoring_excluded of the address
    exists,             \* checks that have a row
    status, nextRun,    \* columns of the rows
    firing,             \* checks with a firing alert
    unarmed,            \* history: rows left with no next_run and not parked, that
                        \* nothing has scheduled or parked since
    walk,               \* each materialisation: where it is and what it read
    request,            \* each "Check now": the checks it resolved and runs
    crashes

assignments == <<assigned, disabled>>
rows == <<exists, status, nextRun, firing, unarmed>>
rowVars == <<scene, assignments, excluded, rows, walk, request, crashes>>

Status == {"unknown", "up", "down", "skipped"}
Walk == [stage : {"idle", "load", "resolve", "create", "arm", "park", "delete"},
         excluded : BOOLEAN,        \* the address as it was loaded
         keep : SUBSET Checks,      \* the checks it resolved
         todo : SUBSET Checks,      \* those not looked at yet
         new : SUBSET Checks]       \* rows it made: to arm, or to park at the end

Idle == [stage |-> "idle", excluded |-> FALSE, keep |-> {}, todo |-> {}, new |-> {}]

\* resolve_effective_checks.
Effective == assigned \ disabled

\* _candidate_ips: some assignment could touch the address.
Candidate == assigned # {}

On(S, column, value) == [c \in Checks |-> IF c \in S THEN value ELSE column[c]]

-----------------------------------------------------------------------------
(* materialise_ip.                                                         *)

Load(w) ==
    walk' = [walk EXCEPT ![w] = [Idle EXCEPT !.stage = "resolve", !.excluded = excluded]]

\* The periodic pass comes to the address ...
PassLoads(w) ==
    /\ walk[w].stage = "idle" /\ Candidate
    /\ Load(w)
    /\ UNCHANGED <<scene, assignments, excluded, rows, request, crashes>>

\* ... or a request that has saved its edit loads it.
EditLoads(w) ==
    /\ walk[w].stage = "load"
    /\ Load(w)
    /\ UNCHANGED <<scene, assignments, excluded, rows, request, crashes>>

Resolve(w) ==
    /\ walk[w].stage = "resolve"
    /\ walk' = [walk EXCEPT ![w] = [@ EXCEPT !.stage = "create", !.keep = Effective,
                                             !.todo = Effective]]
    /\ UNCHANGED <<scene, assignments, excluded, rows, request, crashes>>

\* Mutant: a new row keeps the next_run it was made with.
ArmsNever(w) == FALSE

\* Whether a row the walk has just made is to be armed.
Arms(w) == ~walk[w].excluded

\* update_or_create for one check: a new row has no next_run yet.
UpdateOrCreate(w, c) ==
    /\ walk[w].stage = "create" /\ c \in walk[w].todo
    /\ exists' = exists \union {c}
    /\ IF c \in exists
       THEN /\ walk' = [walk EXCEPT ![w].todo = @ \ {c}]
            /\ UNCHANGED <<status, nextRun>>
       ELSE /\ status' = [status EXCEPT ![c] = "unknown"]
            /\ nextRun' = [nextRun EXCEPT ![c] = "null"]
            /\ walk' = [walk EXCEPT ![w].todo = @ \ {c}, ![w].new = @ \union {c},
                                      ![w].stage = IF Arms(w) THEN "arm" ELSE "create"]
    /\ UNCHANGED <<scene, assignments, excluded, firing, unarmed, request, crashes>>

\* save(update_fields=["next_run"]): raises, and ends the walk, when the row
\* has been deleted meanwhile.
Arm(w) ==
    /\ walk[w].stage = "arm"
    /\ IF walk[w].new # {}
       THEN /\ nextRun' = On(walk[w].new, nextRun, "due")
            /\ unarmed' = unarmed \ walk[w].new
            /\ walk' = [walk EXCEPT ![w] = [@ EXCEPT !.stage = "create", !.new = {}]]
       ELSE /\ walk' = [walk EXCEPT ![w] = Idle]
            /\ UNCHANGED <<nextRun, unarmed>>
    /\ UNCHANGED <<scene, assignments, excluded, exists, status, firing, request, crashes>>

\* Mutant: a row made on an excluded address is left as it was made.
ParkedNone(S) == {}

\* The rows park_new finds on an excluded address.
ParkedNew(S) == IF excluded THEN S ELSE {}

\* Rows that have no next_run yet, of those a walk has made.
Unscheduled(w) == {c \in walk[w].new : nextRun[c] = "null"}

\* park_new: the statement reads the switch again, and leaves what was to be
\* parked as it was made if the address has been included meanwhile ...
ParkRead(w) ==
    /\ walk[w].stage = "create" /\ walk[w].todo = {}
    /\ walk' = [walk EXCEPT ![w].stage = "park", ![w].new = ParkedNew(@)]
    /\ unarmed' = IF walk[w].excluded /\ ~excluded
                  THEN unarmed \union Unscheduled(w) ELSE unarmed
    /\ UNCHANGED <<scene, assignments, excluded, exists, status, nextRun, firing, request,
                   crashes>>

\* ... and may wait for the rows' locks, which set_excluded takes too.
ParkWrite(w) ==
    LET parked == walk[w].new
    IN /\ walk[w].stage = "park"
       /\ status' = On(parked, status, "skipped")
       /\ nextRun' = On(parked, nextRun, "null")
       /\ firing' = firing \ parked
       /\ unarmed' = unarmed \ parked
       /\ walk' = [walk EXCEPT ![w] = [@ EXCEPT !.stage = "delete", !.new = {}]]
       /\ UNCHANGED <<scene, assignments, excluded, exists, request, crashes>>

\* Mutant: only the address's own assignments keep a row.
StaleInherited(keep) == exists \ (keep \intersect Direct)

Stale(keep) == exists \ keep

\* A walk that was to arm or park a deleted row no longer finds it, whoever makes
\* a row for the check again.
DeleteStale(w) ==
    LET stale == Stale(walk[w].keep)
    IN /\ walk[w].stage = "delete"
       /\ exists' = exists \ stale
       /\ status' = On(stale, status, "unknown")
       /\ nextRun' = On(stale, nextRun, "null")
       /\ unarmed' = unarmed \ stale
       /\ walk' = [v \in Walkers |-> IF v = w THEN Idle
                                     ELSE [walk[v] EXCEPT !.new = @ \ stale]]
       /\ UNCHANGED <<scene, assignments, excluded, firing, request, crashes>>

WalkerDies(w) ==
    /\ "crash" \in scene.features
    /\ walk[w].stage # "idle"
    /\ crashes < MaxCrashes /\ crashes' = crashes + 1
    /\ unarmed' = unarmed \union Unscheduled(w)
    /\ walk' = [walk EXCEPT ![w] = Idle]
    /\ UNCHANGED <<scene, assignments, excluded, exists, status, nextRun, firing, request>>

-----------------------------------------------------------------------------
(* Edits of the assignments.                                               *)

Edited(edit) ==
    /\ walk[edit].stage = "idle"
    /\ walk' = [walk EXCEPT ![edit] = [Idle EXCEPT !.stage = "load"]]

\* An assignment on the address itself is materialised by the request that
\* saves it; one on the prefix is left to the pass.
Follow(c) ==
    IF c \in Direct THEN \E edit \in Edits : Edited(edit) ELSE UNCHANGED walk

Assign(c) ==
    /\ "assign" \in scene.features /\ c \in scene.checks \ assigned
    /\ assigned' = assigned \union {c}
    /\ Follow(c)
    /\ UNCHANGED <<scene, disabled, excluded, rows, request, crashes>>

Unassign(c) ==
    /\ "assign" \in scene.features /\ c \in assigned
    /\ assigned' = assigned \ {c}
    /\ Follow(c)
    /\ UNCHANGED <<scene, disabled, excluded, rows, request, crashes>>

\* perform_update: enabled is switched.
ToggleEnabled(c) ==
    /\ "disable" \in scene.features /\ c \in assigned
    /\ disabled' = (disabled \ {c}) \union ({c} \ disabled)
    /\ Follow(c)
    /\ UNCHANGED <<scene, assigned, excluded, rows, request, crashes>>

-----------------------------------------------------------------------------
(* The rest of the system, as far as it touches the rows' lifetime.        *)

\* set_excluded, either way.
Exclude ==
    /\ "exclude" \in scene.features /\ ~excluded
    /\ excluded' = TRUE
    /\ status' = On(exists, status, "skipped")
    /\ nextRun' = On(exists, nextRun, "null")
    /\ firing' = firing \ exists
    /\ unarmed' = {}
    /\ UNCHANGED <<scene, assignments, exists, walk, request, crashes>>

Include ==
    /\ "exclude" \in scene.features /\ excluded
    /\ excluded' = FALSE
    /\ nextRun' = On(exists, nextRun, "due")
    /\ unarmed' = {}
    /\ UNCHANGED <<scene, assignments, exists, status, firing, walk, request, crashes>>

\* A row left parked on an address that is not excluded.
Orphaned(c) == c \in exists /\ ~excluded /\ status[c] = "skipped" /\ nextRun[c] = "null"

\* heal_orphans, before the pass.
HealOrphans ==
    LET orphans == {c \in Checks : Orphaned(c)}
    IN /\ orphans # {}
       /\ nextRun' = On(orphans, nextRun, "due")
       /\ unarmed' = unarmed \ orphans
       /\ UNCHANGED <<scene, assignments, excluded, exists, status, firing, walk, request,
                      crashes>>

\* check_now resolves the checks and runs them ...
CheckNowAsk(q) ==
    /\ "check_now" \in scene.features /\ ~excluded
    /\ request[q] = {} /\ Effective # {}
    /\ request' = [request EXCEPT ![q] = Effective]
    /\ UNCHANGED <<scene, assignments, excluded, rows, walk, crashes>>

\* ... then, under the address lock, folds the verdicts in: get_or_create makes
\* the rows there are none of, with no next_run.
CheckNowWrite(q) ==
    LET found == request[q]
    IN /\ found # {}
       /\ request' = [request EXCEPT ![q] = {}]
       /\ IF excluded
          THEN UNCHANGED rows
          ELSE \E down \in SUBSET found :
                  /\ exists' = exists \union found
                  /\ status' = [c \in Checks |-> IF c \in down THEN "down"
                                                 ELSE IF c \in found THEN "up"
                                                 ELSE status[c]]
                  /\ nextRun' = On(found \ exists, nextRun, "null")
                  /\ unarmed' = unarmed \union {c \in found : c \notin exists \/ Orphaned(c)}
                  /\ firing' = (firing \ found) \union down
       /\ UNCHANGED <<scene, assignments, excluded, walk, crashes>>

\* Mutant: the engine's own word is stored untranslated.
VerdictRaw == {"up", "down", "timeout"}

\* The verdicts told apart here (module Hysteresis has them all).
Verdict == {"up", "down"}

Scheduled(c) == c \in exists /\ nextRun[c] # "null"

\* The engine runs a scheduled check, or parks it on an excluded address.
RunCheck(c) ==
    /\ Scheduled(c)
    /\ IF excluded
       THEN /\ status' = [status EXCEPT ![c] = "skipped"]
            /\ nextRun' = [nextRun EXCEPT ![c] = "null"]
            /\ firing' = firing \ {c}
       ELSE \E new \in Verdict :
               /\ status' = [status EXCEPT ![c] = new]
               /\ nextRun' = [nextRun EXCEPT ![c] = IF @ = "due" THEN "later" ELSE "due"]
               /\ firing' = IF new = "down" THEN firing \union {c} ELSE firing \ {c}
    /\ UNCHANGED <<scene, assignments, excluded, exists, unarmed, walk, request, crashes>>

-----------------------------------------------------------------------------

RowsInit ==
    /\ scene \in Scenes
    /\ assigned = {} /\ disabled = {} /\ excluded = FALSE
    /\ exists = {} /\ firing = {} /\ unarmed = {}
    /\ status = [c \in Checks |-> "unknown"]
    /\ nextRun = [c \in Checks |-> "null"]
    /\ walk = [w \in Walkers |-> Idle]
    /\ request = [q \in Requests |-> {}]
    /\ crashes = 0

WalkStep(w) ==
    \/ EditLoads(w)
    \/ Resolve(w)
    \/ \E c \in Checks : UpdateOrCreate(w, c)
    \/ Arm(w)
    \/ ParkRead(w)
    \/ ParkWrite(w)
    \/ DeleteStale(w)

OperatorStep ==
    \/ \E c \in Checks : Assign(c) \/ Unassign(c) \/ ToggleEnabled(c)
    \/ Exclude \/ Include
    \/ \E q \in Requests : CheckNowAsk(q)

RowsNext ==
    \/ \E w \in Passes : PassLoads(w)
    \/ \E w \in Walkers : WalkStep(w) \/ WalkerDies(w)
    \/ \E q \in Requests : CheckNowWrite(q)
    \/ \E c \in Checks : RunCheck(c)
    \/ HealOrphans
    \/ OperatorStep

RowsSpec == RowsInit /\ [][RowsNext]_rowVars

\* The pass and the beat are timers; requests and walks run to their end.
Fairness ==
    /\ \A w \in Passes : WF_rowVars(PassLoads(w))
    /\ \A w \in Walkers : WF_rowVars(WalkStep(w))
    /\ \A q \in Requests : WF_rowVars(CheckNowWrite(q))
    /\ \A c \in Checks : WF_rowVars(RunCheck(c))
    /\ WF_rowVars(HealOrphans)

RowsFairSpec == RowsSpec /\ Fairness

-----------------------------------------------------------------------------

\* The sets and columns have their types; a walk keeps to what it resolved, and
\* has in hand only rows that are there.
RowsTypeOK ==
    /\ scene \in Scenes
    /\ assigned \subseteq Checks /\ disabled \subseteq Checks /\ excluded \in BOOLEAN
    /\ exists \subseteq Checks /\ firing \subseteq Checks /\ unarmed \subseteq exists
    /\ status \in [Checks -> Status]
    /\ nextRun \in [Checks -> {"null", "due", "later"}]
    /\ walk \in [Walkers -> Walk]
    /\ \A w \in Walkers :
          /\ walk[w].todo \subseteq walk[w].keep
          /\ walk[w].new \subseteq walk[w].keep \intersect exists
    /\ request \in [Requests -> SUBSET Checks]
    /\ crashes \in Nat

\* Rows follow the assignments, for good and whatever walks overlap: a check
\* that stays in effect ends up with a row, though a slower walk that resolved
\* the address before it was assigned still deletes it; and one whose assignment
\* stays disabled, on an address some assignment still touches, ends up with
\* none, whoever makes it again meanwhile.
RowsFollowAssignments ==
    \A c \in Checks :
        /\ <>[](c \in Effective) => <>[](c \in exists)
        /\ <>[](assigned # {} /\ c \notin Effective) => <>[](c \notin exists)

\* "New states are scheduled to run immediately" (scheduler.py:99), and whatever
\* the switch, overlapping walks, Check now and dying processes do to a row later:
\* a check that stays in effect on an address that stays included ends up with a
\* scheduled row - but for a row left unscheduled in one of four ways.  Check now
\* makes it (runner.py:181), or writes its verdict over the "skipped" by which the
\* healer would have found it; the walk that makes it dies before it arms or parks
\* it; or that walk loaded the address while it was excluded and comes to park the
\* row after it was included (scheduler.py:130 looks at the address as loaded,
\* park_new at the address as it is).
EffectiveChecksRun ==
    \A c \in Checks :
        <>[](c \in Effective /\ ~excluded) =>
            <>[](c \in exists /\ (nextRun[c] # "null" \/ c \in unarmed))

\* "A check that appears on an excluded address starts parked" (scheduler.py:107):
\* a check that stays in effect on an address that stays excluded ends up with
\* its row parked for good, though the address was loaded before it was excluded
\* (unless a process died: nothing parks a row made just before).
ExcludedRowsPark ==
    \A c \in Checks :
        <>[](excluded /\ c \in Effective /\ crashes = 0) =>
            <>[](c \in exists /\ status[c] = "skipped" /\ nextRun[c] = "null")
=============================================================================
