------------------------------ MODULE UpgradeStage -----------------------------
(***************************************************************************)
(* The upgrade stage, its journal and its recovery (scripts/upgrade/       *)
(* stage.sh, lib.sh, recover.sh): one upgrade of one host, from its marker *)
(* to its end, where a step may fail, the stage may be told to stop, and   *)
(* the stage, the recovery or the host may die between any two steps.      *)
(*                                                                         *)
(* Each action is one change that outlives the process: a line of the      *)
(* journal, a rename, a stop or start of units, a statement on the         *)
(* database.  What is swapped is one directory, the source tree and the    *)
(* virtualenv.  Of the services, "web" serves users and "work" stands for  *)
(* the workers and the fast lane; the timers, which run jobs of the same   *)
(* release, are ordered differently at a boot and are kept apart.          *)
(***************************************************************************)
EXTENDS Naturals

CONSTANT MaxMishaps     \* bound on steps that fail, kills and reboots

ASSUME BoundsAssumption == MaxMishaps \in Nat

VARIABLES
    scene,          \* what this host and this release are like
    who, at,        \* the process at work, and its next step
    journal,        \* the keys written to $WORK/journal
    marker, armed,  \* the file "active"; the recovery unit and timer
    live, kept,     \* each part in the app directory, and aside in prev
    schema,         \* whose the database is
    snapshot,       \* its dump exists ...
    newer, lost,    \* users wrote after it; a restore threw that away
    up, enabled,    \* services that run; what starts at boot
    queued,         \* services whose start waits for the recovery unit
    ticking,        \* the timers run, and the jobs they start
    booting,        \* at this boot the recovery unit is still to come
    held,           \* the maintenance flag
    report,         \* the status file
    count, cut      \* mishaps so far; the steps at which a process was cut short

process == <<who, at>>
recovery == <<marker, armed>>
files == <<live, kept>>
database == <<schema, snapshot, newer, lost>>
site == <<up, queued, ticking, held>>
host == <<enabled, booting>>
mishaps == <<count, cut>>
vars == <<scene, process, journal, recovery, files, database, site, host, report, mishaps>>

\* Was the directory there before?  Has the release migrations to apply, and is
\* the database one that could be restored (db_rollback)?
Scenes == [had : BOOLEAN, migrations : {"none", "undoable", "final"}]
Pending == scene.migrations # "none"

Parts == {"dir", "tree", "venv"}
Units == {"web", "work"}
Installed == Units \union {"timers"}

\* The steps that lead to "resume", and the rest.
Upgrading ==
    {"mark", "arm", "keep_venv", "quiesce", "stop", "moving", "had", "move_out",
     "move_in", "save_tree", "apply_tree", "deps", "install", "snapshot", "migrating",
     "migrate", "migrated", "verify", "hold", "flag", "serve", "work", "resume"}
Restoring ==
    {"unchanged", "rollback", "halt", "undo_venv", "venv_aside", "undo_tree", "undo_dir",
     "dir_aside", "undo_database", "reload", "enable", "unflag", "restart_web",
     "restart_work", "restart_timers", "failed", "disable"}
Ending == {"open", "timers", "disarm", "unmark", "finish", "cleanup"}
Steps == Upgrading \union Restoring \union Ending \union {"none"}

Keys ==
    {"quiesced", "moving", "had", "tree_saved", "deps_started", "migrating",
     "migrate_unchanged", "started", "resumed", "restore_failed", "finished"}

Written(key) == key \in journal
At(step) == who # "nobody" /\ at = step
Go(step) == at' = step /\ UNCHANGED who

\* Mutant: a process that ended is still at its step.
LeaveAtStep == who' = "nobody" /\ UNCHANGED at

Leave == who' = "nobody" /\ at' = "none"

Put(p, value) == live' = [live EXCEPT ![p] = value]

Old == [p \in Parts |-> IF p = "dir" /\ ~scene.had THEN "none" ELSE "old"]
New == [p \in Parts |-> "new"]

\* Mutant: a migrate with nothing to apply counts as one that ran (#278).
TouchedAlways == Written("migrating") /\ ~Written("migrate_unchanged")

\* db_touched: the database may differ from its snapshot.
Touched == Written("migrating") /\ ~Written("migrate_unchanged") /\ Pending

-----------------------------------------------------------------------------
(* The stage.                                                              *)

\* The lines of the journal the stage writes before what they announce.
Announced ==
    [quiesce |-> [key |-> "quiesced", then |-> "stop"],
     moving |-> [key |-> "moving", then |-> "had"],
     deps |-> [key |-> "deps_started", then |-> "install"],
     migrating |-> [key |-> "migrating", then |-> "migrate"],
     hold |-> [key |-> "started", then |-> "flag"],
     resume |-> [key |-> "resumed", then |-> "open"],
     unchanged |-> [key |-> "migrate_unchanged", then |-> "rollback"]]

Announce(step) ==
    /\ At(step)
    /\ journal' = journal \union {Announced[step].key}
    /\ Go(Announced[step].then)
    /\ UNCHANGED <<scene, recovery, files, database, site, host, report, mishaps>>

\* Preflight: the marker, then the recovery units.
Mark ==
    /\ At("mark") /\ marker' = TRUE /\ Go("arm")
    /\ UNCHANGED <<scene, journal, armed, files, database, site, host, report, mishaps>>

Arm ==
    /\ At("arm") /\ armed' = "yes" /\ Go("keep_venv")
    /\ UNCHANGED <<scene, journal, marker, files, database, site, host, report, mishaps>>

KeepVenv ==
    /\ At("keep_venv") /\ kept' = [kept EXCEPT !["venv"] = live["venv"]] /\ Go("quiesce")
    /\ UNCHANGED <<scene, journal, recovery, live, database, site, host, report, mishaps>>

\* stop_all, with the starts still queued at boot and the jobs of the timers.
StopAll == up' = {} /\ queued' = {} /\ ticking' = FALSE

Stop ==
    /\ At("stop") /\ StopAll /\ Go("moving")
    /\ UNCHANGED <<scene, journal, recovery, files, database, held, host, report, mishaps>>

\* move_in: "had" is written only for a directory that was there.
Had ==
    /\ At("had")
    /\ IF live["dir"] # "none"
       THEN journal' = journal \union {"had"} /\ Go("move_out")
       ELSE UNCHANGED journal /\ Go("move_in")
    /\ UNCHANGED <<scene, recovery, files, database, site, host, report, mishaps>>

MoveOut ==
    /\ At("move_out")
    /\ kept' = [kept EXCEPT !["dir"] = live["dir"]] /\ Put("dir", "none")
    /\ Go("move_in")
    /\ UNCHANGED <<scene, journal, recovery, database, site, host, report, mishaps>>

MoveIn ==
    /\ At("move_in") /\ Put("dir", "new") /\ Go("save_tree")
    /\ UNCHANGED <<scene, journal, recovery, kept, database, site, host, report, mishaps>>

\* The tar of what is overwritten, or the commit to go back to.
SaveTree ==
    /\ At("save_tree")
    /\ kept' = [kept EXCEPT !["tree"] = live["tree"]]
    /\ journal' = journal \union {"tree_saved"}
    /\ Go("apply_tree")
    /\ UNCHANGED <<scene, recovery, live, database, site, host, report, mishaps>>

\* The new files over the old tree, and the new packages in the virtualenv: a
\* process that dies meanwhile leaves a mixture.
Overwrite(p, step, then) ==
    /\ At(step)
    /\ \/ Put(p, "mixed") /\ Go(step)
       \/ Put(p, "new") /\ Go(then)
    /\ UNCHANGED <<scene, journal, recovery, kept, database, site, host, report, mishaps>>

\* Only with migrations pending, and where the database can be restored.
Snapshot ==
    /\ At("snapshot")
    /\ snapshot' = (scene.migrations = "undoable")
    /\ newer' = FALSE
    /\ Go("migrating")
    /\ UNCHANGED <<scene, journal, recovery, files, schema, lost, site, host, report, mishaps>>

\* upgrade_migrate: still at it, done (exit 0), rolled back in full (3), or failed
\* and perhaps partly applied.
Migrate ==
    /\ At("migrate")
    /\ \/ Pending /\ schema' = "mixed" /\ Go("migrate")
       \/ Pending /\ schema' = "new" /\ Go("migrated")
       \/ ~Pending /\ UNCHANGED schema /\ Go("migrated")
       \/ schema = "old" /\ UNCHANGED schema /\ Go("unchanged")
       \/ UNCHANGED schema /\ Go("rollback")
    /\ UNCHANGED <<scene, journal, recovery, files, snapshot, newer, lost, site, host,
                   report, mishaps>>

Migrated ==
    /\ At("migrated")
    /\ journal' = IF Pending THEN journal ELSE journal \union {"migrate_unchanged"}
    /\ Go("verify")
    /\ UNCHANGED <<scene, recovery, files, database, site, host, report, mishaps>>

Verify ==
    /\ At("verify") /\ Go("hold")
    /\ UNCHANGED <<scene, journal, recovery, files, database, site, host, report, mishaps>>

\* Mutant: the site starts without the maintenance flag.
HoldNot == UNCHANGED held

Hold == held' = TRUE

Flag ==
    /\ At("flag") /\ Hold /\ Go("serve")
    /\ UNCHANGED <<scene, journal, recovery, files, database, up, queued, ticking, host,
                   report, mishaps>>

\* start_units for services: the stage waits for them; a recovery queues them, for
\* they are ordered after its own unit.
Begin(u) ==
    IF who = "stage" THEN up' = up \union {u} /\ UNCHANGED queued
    ELSE queued' = queued \union {u} /\ UNCHANGED up

Serve ==
    /\ At("serve") /\ Begin("web") /\ Go("work")
    /\ UNCHANGED <<scene, journal, recovery, files, database, ticking, held, host, report,
                   mishaps>>

Work ==
    /\ At("work") /\ Begin("work") /\ Go("resume")
    /\ UNCHANGED <<scene, journal, recovery, files, database, ticking, held, host, report,
                   mishaps>>

\* After "resume": users are back.
Open ==
    /\ At("open") /\ held' = FALSE /\ Go("timers")
    /\ UNCHANGED <<scene, journal, recovery, files, database, up, queued, ticking, host,
                   report, mishaps>>

\* start_units for the timers, which wait for no other unit.
StartTimers(step) ==
    /\ At(step) /\ ticking' = TRUE /\ Go("disarm")
    /\ UNCHANGED <<scene, journal, recovery, files, database, up, queued, held, host, report,
                   mishaps>>

-----------------------------------------------------------------------------
(* Failure: rollback_all, by the stage or by the recovery.                 *)

\* The steps with a command that may fail before "resume".
Fallible ==
    {"arm", "keep_venv", "stop", "move_out", "apply_tree", "install", "snapshot",
     "verify", "flag", "serve", "work"}

\* Noted in "cut": units wait for this recovery, which no longer comes to stop them.
BootQueue == {note \in {"booting"} : queued # {} /\ who = "unit"}

OneMore == count < MaxMishaps /\ count' = count + 1

\* fail, or the EXIT trap.
Fails ==
    /\ who = "stage" /\ at \in Fallible
    /\ OneMore /\ Go("rollback")
    /\ UNCHANGED <<scene, journal, recovery, files, database, site, host, report, cut>>

\* on_signal: the restore of the database is not done under a stop timeout.
Interrupted ==
    /\ who = "stage" /\ at \in (Upgrading \ {"mark"}) \union {"open", "timers"}
    /\ IF Touched /\ ~Written("resumed") THEN who' = "signal" /\ at' = "halt"
       ELSE Go("rollback")
    /\ cut' = cut \union {at}
    /\ UNCHANGED <<scene, journal, recovery, files, database, site, host, report, count>>

\* From "resumed" on the new release stays (finish_forward); before "quiesced"
\* nothing was changed.
Rollback ==
    /\ At("rollback")
    /\ \/ Written("resumed") /\ Go("unflag") /\ UNCHANGED report
       \/ ~Written("resumed") /\ ~Written("quiesced") /\ Go("disarm") /\ UNCHANGED report
       \/ ~Written("resumed") /\ Written("quiesced") /\ Go("halt") /\ report' = "running"
    /\ UNCHANGED <<scene, journal, recovery, files, database, site, host, mishaps>>

\* stop_all: that some units do not stop is only logged.
Halt ==
    /\ At("halt") /\ Go("undo_venv")
    /\ \/ StopAll /\ UNCHANGED mishaps
       \/ /\ OneMore /\ cut' = cut \union {"halt"} \union BootQueue
          /\ UNCHANGED <<up, queued, ticking>>
    /\ UNCHANGED <<scene, journal, recovery, files, database, held, host, report>>

\* rollback_files: the virtualenv ...
UndoVenv ==
    /\ At("undo_venv")
    /\ IF Written("deps_started") /\ kept["venv"] # "none"
       THEN Put("venv", "none") /\ Go("venv_aside")
       ELSE UNCHANGED live /\ Go("undo_tree")
    /\ UNCHANGED <<scene, journal, recovery, kept, database, site, host, report, mishaps>>

\* Put back what was kept of a part.
PutBack(p, step, then) ==
    /\ At(step)
    /\ Put(p, kept[p]) /\ kept' = [kept EXCEPT ![p] = "none"]
    /\ Go(then)
    /\ UNCHANGED <<scene, journal, recovery, database, site, host, report, mishaps>>

\* ... the tree, again as often as asked ...
UndoTree ==
    /\ At("undo_tree")
    /\ IF Written("tree_saved") THEN Put("tree", kept["tree"]) ELSE UNCHANGED live
    /\ Go("undo_dir")
    /\ UNCHANGED <<scene, journal, recovery, kept, database, site, host, report, mishaps>>

\* Mutant: what the release brought is not told from what was there.
BroughtAlways == TRUE

\* The release brought the directory: the one before had none.
Brought == ~Written("had")

\* ... and the directory (restore_dir).
UndoDir ==
    /\ At("undo_dir")
    /\ IF Written("moving") /\ kept["dir"] # "none"
       THEN Put("dir", "none") /\ Go("dir_aside")
       ELSE /\ Go("undo_database")
            /\ IF Written("moving") /\ Brought THEN Put("dir", "none") ELSE UNCHANGED live
    /\ UNCHANGED <<scene, journal, recovery, kept, database, site, host, report, mishaps>>

\* After a signal the rest is left to the recovery.
SignalLeaves ==
    /\ At("undo_database") /\ who = "signal" /\ Leave /\ report' = "running"
    /\ UNCHANGED <<scene, journal, recovery, files, database, site, host, mishaps>>

\* Mutant: a second attempt leaves the units disabled.
AfterDatabaseNotEnabled == "unflag"

AfterDatabase == IF Written("restore_failed") THEN "enable" ELSE "unflag"

\* db_restore: the schema is dropped ...
UndoDatabase ==
    /\ At("undo_database") /\ who # "signal"
    /\ IF ~Touched THEN Go(AfterDatabase) /\ UNCHANGED database
       ELSE /\ snapshot
            /\ schema' = "none" /\ lost' = (lost \/ newer) /\ newer' = FALSE
            /\ Go("reload")
            /\ UNCHANGED snapshot
    /\ UNCHANGED <<scene, journal, recovery, files, site, host, report, mishaps>>

\* ... and loaded from the snapshot.
Reload ==
    /\ At("reload") /\ schema' = "old" /\ Go(AfterDatabase)
    /\ UNCHANGED <<scene, journal, recovery, files, snapshot, newer, lost, site, host,
                   report, mishaps>>

\* It cannot be: no snapshot, no answer, or both tries fail.  A second attempt
\* (--retry) then just ends.
RestoreFails ==
    /\ At("reload") \/ (At("undo_database") /\ who # "signal" /\ Touched)
    /\ IF at = "undo_database" /\ ~snapshot THEN UNCHANGED count ELSE OneMore
    /\ IF Written("restore_failed") THEN Leave ELSE Go("failed")
    /\ UNCHANGED <<scene, journal, recovery, files, database, site, host, report, cut>>

\* restore_failed: nothing may start on this database, not even at a boot.
Failed ==
    /\ At("failed")
    /\ journal' = journal \union {"restore_failed"}
    /\ Go("disable")
    /\ UNCHANGED <<scene, recovery, files, database, site, host, report, mishaps>>

Disable ==
    /\ At("disable")
    /\ \/ \E u \in enabled : enabled' = enabled \ {u} /\ UNCHANGED <<process, report>>
       \/ enabled = {} /\ UNCHANGED enabled /\ Leave /\ report' = "restore_failed"
    /\ UNCHANGED <<scene, journal, recovery, files, database, site, booting, mishaps>>

\* A second attempt has restored the database.
Enable ==
    /\ At("enable") /\ enabled' = Installed /\ Go("unflag")
    /\ UNCHANGED <<scene, journal, recovery, files, database, site, booting, report, mishaps>>

Unflag ==
    /\ At("unflag") /\ Go("restart_web")
    /\ held' = (held /\ ~Written("started"))
    /\ UNCHANGED <<scene, journal, recovery, files, database, up, queued, ticking, host,
                   report, mishaps>>

Restart(u, step, then) ==
    /\ At(step) /\ Begin(u) /\ Go(then)
    /\ UNCHANGED <<scene, journal, recovery, files, database, ticking, held, host, report,
                   mishaps>>

-----------------------------------------------------------------------------
(* Every ending: remove_recover, finish, cleanup_work.                     *)

Disarm ==
    /\ At("disarm") /\ armed' = "removed" /\ Go("unmark")
    /\ UNCHANGED <<scene, journal, marker, files, database, site, host, report, mishaps>>

Unmark ==
    /\ At("unmark") /\ marker' = FALSE /\ Go("finish")
    /\ UNCHANGED <<scene, journal, armed, files, database, site, host, report, mishaps>>

Outcome ==
    IF Written("resumed") THEN "new" ELSE IF Written("quiesced") THEN "restored" ELSE "unchanged"

Finish ==
    /\ At("finish")
    /\ report' = Outcome /\ journal' = journal \union {"finished"}
    /\ Go("cleanup")
    /\ UNCHANGED <<scene, recovery, files, database, site, host, mishaps>>

Cleanup ==
    /\ At("cleanup") /\ Leave
    /\ kept' = [p \in Parts |-> "none"] /\ snapshot' = FALSE /\ newer' = FALSE
    /\ UNCHANGED <<scene, journal, recovery, live, schema, lost, site, host, report, mishaps>>

-----------------------------------------------------------------------------
(* Death and recovery (recover.sh).                                        *)

\* Where it was, and whether the recovery units were there to come back to it.
Mishap ==
    /\ OneMore
    /\ cut' = cut \union {at}
            \union {note \in {"unarmed"} : who # "nobody" /\ armed # "yes"}
            \union BootQueue

Dies ==
    /\ who # "nobody" /\ Mishap
    /\ Leave
    /\ UNCHANGED <<scene, journal, recovery, files, database, site, host, report>>

\* The host goes down and comes up: of what is enabled, the services are queued to
\* start after the recovery unit, and the timers run, for it is ordered before
\* timers.target and not before them.
Reboots ==
    /\ Mishap /\ Leave
    /\ up' = {} /\ queued' = enabled \intersect Units /\ booting' = TRUE
    /\ ticking' = ("timers" \in enabled)
    /\ UNCHANGED <<scene, journal, recovery, files, database, enabled, held, report>>

Unfinished == marker /\ armed = "yes" /\ ~Written("restore_failed")

\* The recovery unit, at boot before any service, when the stage's unit fails
\* and every five minutes.
Recover ==
    /\ who = "nobody" /\ Unfinished
    /\ who' = "unit" /\ at' = "rollback" /\ booting' = FALSE
    /\ UNCHANGED <<scene, journal, recovery, files, database, site, enabled, report, mishaps>>

\* danbyte-admin upgrade recover.
Retry ==
    /\ who = "nobody" /\ marker /\ armed # "no" /\ ~booting
    /\ who' = "admin"
    /\ at' = IF Written("restore_failed") THEN "undo_database" ELSE "rollback"
    /\ UNCHANGED <<scene, journal, recovery, files, database, site, host, report, mishaps>>

\* There was nothing to recover at this boot.
BootGoesOn ==
    /\ booting /\ ~Unfinished /\ booting' = FALSE
    /\ UNCHANGED <<scene, process, journal, recovery, files, database, site, enabled, report,
                   mishaps>>

\* A queued service starts, once the recovery unit has ended.
Starts(u) ==
    /\ u \in queued /\ ~booting /\ who # "unit"
    /\ up' = up \union {u} /\ queued' = queued \ {u}
    /\ UNCHANGED <<scene, process, journal, recovery, files, database, ticking, held, host,
                   report, mishaps>>

UserWrites ==
    /\ "web" \in up /\ ~held /\ snapshot /\ ~newer
    /\ newer' = TRUE
    /\ UNCHANGED <<scene, process, journal, recovery, files, schema, snapshot, lost, site,
                   host, report, mishaps>>

-----------------------------------------------------------------------------

Init ==
    /\ scene \in Scenes
    /\ who = "stage" /\ at = "mark"
    /\ journal = {} /\ marker = FALSE /\ armed = "no"
    /\ live = Old /\ kept = [p \in Parts |-> "none"]
    /\ schema = "old" /\ snapshot = FALSE /\ newer = FALSE /\ lost = FALSE
    /\ up = Units /\ enabled = Installed /\ queued = {} /\ ticking = TRUE
    /\ booting = FALSE /\ held = FALSE
    /\ report = "running"
    /\ count = 0 /\ cut = {}

StageStep ==
    \/ Mark \/ Arm \/ KeepVenv \/ Stop \/ Had \/ MoveOut \/ MoveIn \/ SaveTree
    \/ Overwrite("tree", "apply_tree", "deps") \/ Overwrite("venv", "install", "snapshot")
    \/ Snapshot \/ Migrate \/ Migrated \/ Verify \/ Flag \/ Serve \/ Work \/ Open
    \/ StartTimers("timers")
    \/ \E step \in DOMAIN Announced : Announce(step)

UndoStep ==
    \/ Rollback \/ Halt \/ UndoVenv \/ UndoTree \/ UndoDir
    \/ PutBack("venv", "venv_aside", "undo_tree") \/ PutBack("dir", "dir_aside", "undo_database")
    \/ SignalLeaves \/ UndoDatabase \/ Reload \/ RestoreFails \/ Failed \/ Disable \/ Enable
    \/ Unflag
    \/ Restart("web", "restart_web", "restart_work")
    \/ Restart("work", "restart_work", "restart_timers")
    \/ StartTimers("restart_timers")

EndStep == Disarm \/ Unmark \/ Finish \/ Cleanup

ProcessStep == StageStep \/ UndoStep \/ EndStep

Next ==
    \/ ProcessStep \/ Fails \/ Interrupted
    \/ Dies \/ Reboots \/ Recover \/ Retry \/ BootGoesOn
    \/ \E u \in Units : Starts(u)
    \/ UserWrites

Spec == Init /\ [][Next]_vars

\* A process goes on, the recovery unit has its turn, and a queued unit starts.
\* Nothing is asked of a person.
Fairness ==
    /\ WF_vars(ProcessStep)
    /\ WF_vars(Recover) /\ WF_vars(BootGoesOn)
    /\ \A u \in Units : WF_vars(Starts(u))

FairSpec == Spec /\ Fairness

-----------------------------------------------------------------------------
(* Properties.                                                             *)

TypeOK ==
    /\ scene \in Scenes
    /\ who \in {"stage", "signal", "unit", "admin", "nobody"} /\ at \in Steps
    /\ (who = "nobody") = (at = "none")
    /\ journal \subseteq Keys
    /\ marker \in BOOLEAN /\ armed \in {"no", "yes", "removed"}
    /\ live \in [Parts -> {"none", "old", "mixed", "new"}]
    /\ kept \in [Parts -> {"none", "old", "mixed", "new"}]
    /\ schema \in {"old", "mixed", "new", "none"}
    /\ snapshot \in BOOLEAN /\ newer \in BOOLEAN /\ lost \in BOOLEAN
    /\ up \subseteq Units /\ queued \subseteq Units /\ enabled \subseteq Installed
    /\ ticking \in BOOLEAN
    /\ booting \in BOOLEAN /\ held \in BOOLEAN
    /\ report \in {"running", "new", "restored", "unchanged", "restore_failed"}
    /\ count \in 0..MaxMishaps /\ cut \subseteq Steps \union {"unarmed", "booting"}

\* The windows the journal leaves open.  The properties below are claimed for
\* every behaviour that is not cut short in the windows they name.
Cut(steps) == cut \intersect steps # {}

\* After the database was put back, before the marker is gone: nothing keeps
\* the next recovery from putting it back again.
Again ==
    {"enable", "unflag", "restart_web", "restart_work", "restart_timers", "disarm", "unmark"}
SecondRetry == Cut(Again) /\ Written("restore_failed")

Before == live = Old /\ schema = "old"
After == live = New /\ schema = IF Pending THEN "new" ELSE "old"

\* Services only ever run on one release, its files and its database together: not
\* on a mixture, nor on files put back under a database that was not (the swap,
\* rollback_files and db_restore).  So do the timers, except between a boot and the
\* recovery's stop_all, while services still wait: "before any app unit or timer
\* starts at boot" (lib.sh:536) is true of services only.  Open are a stop between
\* the two lines of a directory ("had"), units that did not stop, and a boot whose
\* recovery dies or no longer comes.
ServesOneRelease ==
    ~Cut({"had", "halt", "disable", "booting", "unmark"}) /\ ~SecondRetry =>
        (up # {} \/ (ticking /\ queued = {}) => Before \/ After)

\* What users wrote after the snapshot is never thrown away by its restore: they
\* are kept out (stop_all, the maintenance flag) until "resumed" rules it out.  Open
\* are a second restore, and units a boot had queued that the recovery did not stop.
NothingLost == lost => Cut(Again \union {"disable", "booting"})

\* The outcome reported is the one on disk, and only a release that had
\* migrations to apply ends with a database that "could not be restored" (#278).
Truthful ==
    ~Cut({"had"}) =>
        /\ report = "new" => After
        /\ report \in {"unchanged", "restored"} => Before
        /\ report = "restore_failed" => Pending

\* Every upgrade ends: with all units running and starting at boot, users let in
\* and an outcome, or stopped and waiting for a person.  A death before the
\* recovery units are there, or after they are gone, needs a person too.
Over ==
    /\ who = "nobody" /\ ~marker /\ report # "running"
    /\ up = Units /\ ticking /\ enabled = Installed /\ ~held
Waiting == Written("restore_failed") /\ up = {} /\ ~ticking /\ report = "restore_failed"
Settles == <>[](Over \/ Waiting \/ SecondRetry \/ Cut({"halt", "disable", "unarmed"}))

\* "Running this twice does no harm" (recover.sh:16): no second recovery throws
\* away what users wrote after the first.
TwiceDoesNoHarm == lost => Cut({"disable", "booting"})
=============================================================================
