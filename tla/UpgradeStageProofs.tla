--------------------------- MODULE UpgradeStageProofs --------------------------
(***************************************************************************)
(* Proofs about UpgradeStage, for any number of mishaps: the types, that   *)
(* units run on one release at a time, that no restore throws away what    *)
(* users wrote, and that the outcome reported is the one on disk.          *)
(*                                                                         *)
(* The invariant IInv has a table of the way forward (what the stage has   *)
(* written, moved and stopped at each of its steps, Forward), what the     *)
(* journal then tells a recovery that starts anywhere (Venv, Tree, Dir,    *)
(* Base, Done), and, where no process was cut short in the windows the     *)
(* properties name, which units run or wait meanwhile (Serving, Keeping).  *)
(* A step is first told apart by what it changes (Frames, Writers, Parts), *)
(* so that each part of the invariant meets only the actions that can      *)
(* disturb it.                                                             *)
(***************************************************************************)
EXTENDS UpgradeStage, TLAPS

\* The end of an upgrade that was put back, from the first step that may rely on
\* each part of it.
Back ==
    {"enable", "unflag", "restart_web", "restart_work", "restart_timers", "disarm", "unmark",
     "finish", "cleanup"}
AfterDir == Back \union {"undo_database", "reload", "failed", "disable"}
AfterTree == AfterDir \union {"undo_dir", "dir_aside"}
AfterVenv == AfterTree \union {"undo_tree"}
Undoing == (AfterVenv \ Back) \union {"undo_venv", "venv_aside"}

\* What a part may be.
Versions == {"none", "old", "mixed", "new"}

\* The new release stays; the restore was given up.
Resumed == Written("resumed")
GivenUp == Written("restore_failed")

-----------------------------------------------------------------------------
(* What a step changes.                                                    *)

ChangesFiles ==
    \/ KeepVenv \/ MoveOut \/ MoveIn \/ SaveTree
    \/ Overwrite("tree", "apply_tree", "deps") \/ Overwrite("venv", "install", "snapshot")
    \/ UndoVenv \/ UndoTree \/ UndoDir
    \/ PutBack("venv", "venv_aside", "undo_tree")
    \/ PutBack("dir", "dir_aside", "undo_database")
    \/ Cleanup

ChangesDatabase ==
    Snapshot \/ Migrate \/ UndoDatabase \/ Reload \/ Cleanup \/ UserWrites

ChangesJournal ==
    \/ \E step \in DOMAIN Announced : Announce(step)
    \/ Had \/ SaveTree \/ Migrated \/ Failed \/ Finish

ChangesRecovery == Mark \/ Arm \/ Disarm \/ Unmark

ChangesSite ==
    \/ Stop \/ Flag \/ Serve \/ Work \/ Open \/ Halt \/ Unflag
    \/ Restart("web", "restart_web", "restart_work")
    \/ Restart("work", "restart_work", "restart_timers")
    \/ StartTimers("timers") \/ StartTimers("restart_timers")
    \/ Reboots \/ \E u \in Units : Starts(u)

ChangesHost == Disable \/ Enable \/ Reboots \/ Recover \/ BootGoesOn

ChangesReport == Rollback \/ SignalLeaves \/ Disable \/ Finish

ChangesMishaps == Fails \/ Interrupted \/ Halt \/ RestoreFails \/ Dies \/ Reboots

Frames ==
    /\ UNCHANGED scene
    /\ UNCHANGED files \/ ChangesFiles
    /\ UNCHANGED database \/ ChangesDatabase
    /\ UNCHANGED journal \/ ChangesJournal
    /\ UNCHANGED recovery \/ ChangesRecovery
    /\ UNCHANGED site \/ ChangesSite
    /\ UNCHANGED host \/ ChangesHost
    /\ UNCHANGED report \/ ChangesReport
    /\ UNCHANGED mishaps \/ ChangesMishaps

\* No step changes more than these say.
LEMMA StepFrames == [Next]_vars => Frames
<1> SUFFICES ASSUME [Next]_vars PROVE Frames
  OBVIOUS
<1> USE DEF Frames, process, recovery, files, database, site, host, mishaps, ChangesFiles,
        ChangesDatabase, ChangesJournal, ChangesRecovery, ChangesSite, ChangesHost,
        ChangesReport, ChangesMishaps
<1>1. CASE StageStep
  <2>1. CASE \E step \in DOMAIN Announced : Announce(step)
    BY <2>1 DEF Announce, Announced
  <2> QED
    BY <1>1, <2>1 DEF StageStep, Mark, Arm, KeepVenv, Stop, Had, MoveOut, MoveIn, SaveTree,
       Overwrite, Snapshot, Migrate, Migrated, Verify, Flag, Hold, Serve, Work, Open,
       StartTimers
<1>2. CASE UndoStep
  BY <1>2 DEF UndoStep, Rollback, Halt, UndoVenv, UndoTree, UndoDir, PutBack, SignalLeaves,
     UndoDatabase, Reload, RestoreFails, AfterDatabase, Failed, Disable, Enable, Unflag,
     Restart, StartTimers
<1>3. CASE EndStep
  BY <1>3 DEF EndStep, Disarm, Unmark, Finish, Cleanup
<1>4. CASE Fails \/ Interrupted \/ Dies \/ Reboots \/ Recover \/ Retry
  BY <1>4 DEF Fails, Fallible, Interrupted, Dies, Reboots, Recover, Retry
<1>5. CASE BootGoesOn \/ (\E u \in Units : Starts(u)) \/ UserWrites \/ UNCHANGED vars
  BY <1>5 DEF BootGoesOn, Starts, UserWrites, vars
<1> QED
  BY <1>1, <1>2, <1>3, <1>4, <1>5 DEF Next, ProcessStep

\* How a process comes to a step.
Entries ==
    /\ at' \in AfterVenv \ AfterTree =>
         UNCHANGED at \/ UndoVenv \/ PutBack("venv", "venv_aside", "undo_tree")
    /\ at' \in AfterTree \ AfterDir => at \in AfterTree \/ UndoTree
    /\ at' \in AfterDir \ Back =>
         at \in AfterDir \/ UndoDir \/ PutBack("dir", "dir_aside", "undo_database") \/ Retry
    /\ at' \in Back => at \in Back \/ UndoDatabase \/ Reload \/ Rollback
         \/ StartTimers("timers")
    /\ at' \in Undoing => at \in Undoing \/ Halt \/ Retry
    /\ at' = "venv_aside" => UNCHANGED at \/ UndoVenv
    /\ at' = "dir_aside" => UNCHANGED at \/ UndoDir
    /\ at' = "unchanged" => UNCHANGED at \/ Migrate
    /\ at' \in Upgrading => at \in Upgrading

\* The entries are the only ones.
LEMMA StepEntries == [Next]_vars => Entries
<1> SUFFICES ASSUME [Next]_vars PROVE Entries
  OBVIOUS
<1> USE DEF Entries, process, At, Go, Leave, Back, AfterDir, AfterTree, AfterVenv, Undoing,
        Upgrading
<1>1. CASE StageStep
  <2>1. CASE \E step \in DOMAIN Announced : Announce(step)
    BY <2>1 DEF Announce, Announced
  <2> QED
    BY <1>1, <2>1 DEF StageStep, Mark, Arm, KeepVenv, Stop, Had, MoveOut, MoveIn, SaveTree,
       Overwrite, Snapshot, Migrate, Migrated, Verify, Flag, Hold, Serve, Work, Open,
       StartTimers
<1>2. CASE UndoStep
  BY <1>2 DEF UndoStep, Rollback, Halt, UndoVenv, UndoTree, UndoDir, PutBack, SignalLeaves,
     UndoDatabase, Reload, RestoreFails, AfterDatabase, Failed, Disable, Enable, Unflag,
     Restart, StartTimers
<1>3. CASE EndStep
  BY <1>3 DEF EndStep, Disarm, Unmark, Finish, Cleanup
<1>4. CASE Fails \/ Interrupted \/ Dies \/ Reboots \/ Recover \/ Retry
  BY <1>4 DEF Fails, Fallible, Interrupted, Dies, Reboots, Recover, Retry
<1>5. CASE BootGoesOn \/ (\E u \in Units : Starts(u)) \/ UserWrites \/ UNCHANGED vars
  BY <1>5 DEF BootGoesOn, Starts, UserWrites, vars
<1> QED
  BY <1>1, <1>2, <1>3, <1>4, <1>5 DEF Next, ProcessStep

-----------------------------------------------------------------------------
(* Types.                                                                  *)

\* A process is at a step, and nobody is at none.
WhoOK ==
    /\ who \in {"stage", "signal", "unit", "admin", "nobody"} /\ at \in Steps
    /\ (who = "nobody") = (at = "none")

\* The process and its step keep their types.
LEMMA StepWho == WhoOK /\ [Next]_vars => WhoOK'
<1> SUFFICES ASSUME WhoOK, [Next]_vars PROVE WhoOK'
  OBVIOUS
<1> USE DEF WhoOK, process, At, Go, Leave, Steps, Upgrading, Restoring, Ending
<1>1. CASE StageStep
  <2>1. CASE \E step \in DOMAIN Announced : Announce(step)
    BY <2>1 DEF Announce, Announced
  <2> QED
    BY <1>1, <2>1 DEF StageStep, Mark, Arm, KeepVenv, Stop, Had, MoveOut, MoveIn, SaveTree,
       Overwrite, Snapshot, Migrate, Migrated, Verify, Flag, Hold, Serve, Work, Open,
       StartTimers
<1>2. CASE UndoStep
  BY <1>2 DEF UndoStep, Rollback, Halt, UndoVenv, UndoTree, UndoDir, PutBack, SignalLeaves,
     UndoDatabase, Reload, RestoreFails, AfterDatabase, Failed, Disable, Enable, Unflag,
     Restart, StartTimers
<1>3. CASE EndStep
  BY <1>3 DEF EndStep, Disarm, Unmark, Finish, Cleanup
<1>4. CASE Fails \/ Interrupted \/ Dies \/ Reboots \/ Recover \/ Retry
  BY <1>4 DEF Fails, Fallible, Interrupted, Dies, Reboots, Recover, Retry
<1>5. CASE BootGoesOn \/ (\E u \in Units : Starts(u)) \/ UserWrites \/ UNCHANGED vars
  BY <1>5 DEF BootGoesOn, Starts, UserWrites, vars
<1> QED
  BY <1>1, <1>2, <1>3, <1>4, <1>5 DEF Next, ProcessStep

\* A step keeps the types.
LEMMA StepTypes == TypeOK /\ [Next]_vars => TypeOK'
<1> SUFFICES ASSUME TypeOK, [Next]_vars PROVE TypeOK'
  OBVIOUS
<1>a. Frames
  BY StepFrames
<1>1. scene' \in Scenes
  BY <1>a DEF Frames, TypeOK
<1>2. WhoOK'
  BY StepWho DEF TypeOK, WhoOK
<1>3. journal' \subseteq Keys
  <2>1. journal \subseteq Keys
    BY DEF TypeOK
  <2>2. CASE \E step \in DOMAIN Announced : Announce(step)
    <3>1. PICK step \in DOMAIN Announced : Announce(step)
      BY <2>2
    <3>2. Announced[step].key \in Keys
      BY <3>1 DEF Announced, Keys
    <3> QED
      BY <2>1, <3>1, <3>2 DEF Announce
  <2>3. CASE Had \/ SaveTree \/ Migrated \/ Failed \/ Finish
    BY <2>1, <2>3 DEF Had, SaveTree, Migrated, Failed, Finish, Keys
  <2> QED
    BY <2>1, <2>2, <2>3, <1>a DEF Frames, ChangesJournal
<1>4. marker' \in BOOLEAN /\ armed' \in {"no", "yes", "removed"}
  <2>1. CASE ChangesRecovery
    BY <2>1 DEF ChangesRecovery, Mark, Arm, Disarm, Unmark, TypeOK
  <2> QED
    BY <2>1, <1>a DEF Frames, recovery, TypeOK
<1>5. /\ live' \in [Parts -> {"none", "old", "mixed", "new"}]
      /\ kept' \in [Parts -> {"none", "old", "mixed", "new"}]
  <2> SUFFICES live' \in [Parts -> Versions] /\ kept' \in [Parts -> Versions]
    BY DEF Versions
  <2>1. live \in [Parts -> Versions] /\ kept \in [Parts -> Versions]
    BY DEF TypeOK, Versions
  <2>2. ASSUME NEW p \in Parts, NEW v \in Versions
        PROVE  /\ [live EXCEPT ![p] = v] \in [Parts -> Versions]
               /\ [kept EXCEPT ![p] = v] \in [Parts -> Versions]
    BY <2>1
  <2>3. /\ "dir" \in Parts /\ "tree" \in Parts /\ "venv" \in Parts
        /\ "none" \in Versions /\ "new" \in Versions /\ "mixed" \in Versions
    BY DEF Parts, Versions
  <2>4. ASSUME NEW p \in Parts PROVE live[p] \in Versions /\ kept[p] \in Versions
    BY <2>1
  <2>5. CASE KeepVenv \/ SaveTree
    BY <2>1, <2>2, <2>3, <2>4, <2>5 DEF KeepVenv, SaveTree
  <2>6. CASE MoveOut \/ MoveIn
    BY <2>1, <2>2, <2>3, <2>4, <2>6 DEF MoveOut, MoveIn, Put
  <2>7. CASE \/ Overwrite("tree", "apply_tree", "deps")
             \/ Overwrite("venv", "install", "snapshot")
    BY <2>1, <2>2, <2>3, <2>7 DEF Overwrite, Put
  <2>8. CASE \/ PutBack("venv", "venv_aside", "undo_tree")
             \/ PutBack("dir", "dir_aside", "undo_database")
    BY <2>1, <2>2, <2>3, <2>4, <2>8 DEF PutBack, Put
  <2>9. CASE UndoVenv
    BY <2>1, <2>2, <2>3, <2>9 DEF UndoVenv, Put
  <2>10. CASE UndoTree
    BY <2>1, <2>2, <2>3, <2>4, <2>10 DEF UndoTree, Put
  <2>11. CASE UndoDir
    BY <2>1, <2>2, <2>3, <2>11 DEF UndoDir, Put
  <2>12. CASE Cleanup
    <3>1. live' = live /\ kept' = [p \in Parts |-> "none"]
      BY <2>12 DEF Cleanup
    <3> QED
      BY <2>1, <2>3, <3>1
  <2> QED
    BY <2>1, <2>5, <2>6, <2>7, <2>8, <2>9, <2>10, <2>11, <2>12, <1>a DEF Frames, ChangesFiles,
       files
<1>6. /\ schema' \in {"old", "mixed", "new", "none"}
      /\ snapshot' \in BOOLEAN /\ newer' \in BOOLEAN /\ lost' \in BOOLEAN
  <2>1. /\ schema \in {"old", "mixed", "new", "none"}
        /\ snapshot \in BOOLEAN /\ newer \in BOOLEAN /\ lost \in BOOLEAN
    BY DEF TypeOK
  <2>2. CASE Snapshot
    BY <2>1, <2>2 DEF Snapshot
  <2>3. CASE Migrate
    BY <2>1, <2>3 DEF Migrate
  <2>4. CASE UndoDatabase
    BY <2>1, <2>4 DEF UndoDatabase, database
  <2>5. CASE Reload \/ Cleanup \/ UserWrites
    BY <2>1, <2>5 DEF Reload, Cleanup, UserWrites
  <2> QED
    BY <2>1, <2>2, <2>3, <2>4, <2>5, <1>a DEF Frames, ChangesDatabase, database
<1>7. /\ up' \subseteq Units /\ queued' \subseteq Units
      /\ held' \in BOOLEAN /\ ticking' \in BOOLEAN
  <2>1. /\ up \subseteq Units /\ queued \subseteq Units
        /\ held \in BOOLEAN /\ ticking \in BOOLEAN
    BY DEF TypeOK
  <2>2. CASE Stop \/ Flag \/ Open \/ Halt
    BY <2>1, <2>2 DEF Stop, StopAll, Flag, Hold, Open, Halt
  <2>3. CASE Unflag
    BY <2>1, <2>3 DEF Unflag
  <2>4. CASE \/ Serve \/ Work \/ Restart("web", "restart_web", "restart_work")
             \/ Restart("work", "restart_work", "restart_timers")
    BY <2>1, <2>4 DEF Serve, Work, Restart, Begin, Units
  <2>5. CASE \E u \in Units : Starts(u)
    BY <2>1, <2>5 DEF Starts
  <2>6. CASE StartTimers("timers") \/ StartTimers("restart_timers")
    BY <2>1, <2>6 DEF StartTimers
  <2>7. CASE Reboots
    <3>1. up' = {} /\ queued' = enabled \intersect Units /\ held' = held
      BY <2>7 DEF Reboots
    <3>2. ticking' = ("timers" \in enabled)
      BY <2>7 DEF Reboots
    <3>3. ticking' = TRUE \/ ticking' = FALSE
      <4>1. CASE "timers" \in enabled
        BY <3>2, <4>1
      <4>2. CASE "timers" \notin enabled
        BY <3>2, <4>2
      <4> QED
        BY <4>1, <4>2
    <3> QED
      BY <2>1, <3>1, <3>3
  <2> QED
    BY <2>1, <2>2, <2>3, <2>4, <2>5, <2>6, <2>7, <1>a DEF Frames, ChangesSite, site
<1>8. enabled' \subseteq Installed /\ booting' \in BOOLEAN
  BY <1>a DEF Frames, ChangesHost, host, TypeOK, Disable, Enable, Reboots, Recover, BootGoesOn
<1>9. report' \in {"running", "new", "restored", "unchanged", "restore_failed"}
  BY <1>a DEF Frames, ChangesReport, TypeOK, Rollback, SignalLeaves, Disable, Finish, Outcome
<1>10. count' \in 0..MaxMishaps
  <2>1. OneMore => count' \in 0..MaxMishaps
    BY BoundsAssumption DEF OneMore, TypeOK
  <2>2. CASE Fails \/ Interrupted \/ Halt \/ RestoreFails \/ Dies \/ Reboots
    BY <2>1, <2>2 DEF Fails, Interrupted, Halt, RestoreFails, Dies, Reboots, Mishap, TypeOK,
       mishaps
  <2> QED
    BY <2>2, <1>a DEF Frames, ChangesMishaps, mishaps, TypeOK
<1>11. cut' \subseteq Steps \union {"unarmed", "booting"}
  <2>1. cut \subseteq Steps \union {"unarmed", "booting"} /\ at \in Steps
    BY DEF TypeOK
  <2>2. CASE Fails \/ RestoreFails
    BY <2>1, <2>2 DEF Fails, RestoreFails
  <2>3. CASE Interrupted
    BY <2>1, <2>3 DEF Interrupted
  <2>4. CASE Halt
    BY <2>1, <2>4 DEF Halt, BootQueue, mishaps, Steps, Restoring
  <2>5. CASE Dies \/ Reboots
    BY <2>1, <2>5 DEF Dies, Reboots, Mishap, BootQueue
  <2> QED
    BY <2>1, <2>2, <2>3, <2>4, <2>5, <1>a DEF Frames, ChangesMishaps, mishaps
<1> QED
  BY <1>1, <1>2, <1>3, <1>4, <1>5, <1>6, <1>7, <1>8, <1>9, <1>10, <1>11 DEF TypeOK, WhoOK

-----------------------------------------------------------------------------
(* The inductive invariant: where the upgrade is.                          *)

\* The stage's steps, by what it has not done yet.
Early == {"mark", "arm", "keep_venv", "quiesce"}
Unstopped == Early \union {"stop"}
Unmoved == Unstopped \union {"moving", "had", "move_out"}
Unsaved == Unmoved \union {"move_in", "save_tree"}
Uninstalled == Unsaved \union {"apply_tree", "deps"}
Unmigrated == Uninstalled \union {"install", "snapshot", "migrating"}
Verifying == {"verify", "hold", "flag", "serve", "work", "resume"}

\* A line of the journal is written only after those before it.
Chain ==
    /\ Written("moving") => Written("quiesced")
    /\ Written("had") => Written("moving")
    /\ Written("tree_saved") => Written("moving")
    /\ Written("deps_started") => Written("tree_saved")
    /\ Written("migrating") => Written("deps_started")
    /\ Written("migrate_unchanged") => Written("migrating")
    /\ Written("started") => Written("migrating")
    /\ Resumed => Written("started")

\* Which process may be at which step.
Seats ==
    /\ at \in Upgrading \union {"open", "timers", "unchanged"} => who = "stage"
    /\ who = "signal" => at \in (Undoing \union {"halt"}) \ {"reload", "failed", "disable"}
    /\ booting => who = "nobody"

\* What must be written at a step.
Place ==
    /\ Resumed => at \in (Back \ {"enable"}) \union {"open", "timers", "rollback", "none"}
    /\ at \in {"open", "timers"} => Resumed
    /\ at \in {"reload", "failed"} => Touched
    /\ at = "unchanged" => Written("migrating") /\ ~Written("started")
    /\ at \in Undoing
          \union {"halt", "enable", "unflag", "restart_web", "restart_work", "restart_timers"} =>
         Written("quiesced")

\* Given up: the database may differ, and only a person's retry goes on.
Abandoned ==
    /\ GivenUp =>
         /\ Touched /\ ~Resumed
         /\ at \in Back \union {"none", "disable", "undo_database", "reload"}
         /\ at \in {"undo_database", "reload", "enable"} => who = "admin"
    /\ at \in {"enable", "disable"} => GivenUp

\* The marker and the recovery units outlive everything that needs them.
Guarded ==
    /\ ~marker => at \in {"mark", "finish", "cleanup", "none"}
    /\ at \in {"finish", "cleanup"} => ~marker
    /\ armed = "no" => journal = {} /\ at \in {"mark", "arm", "rollback", "disarm", "none"}
    /\ armed = "no" /\ ~marker => at \in {"mark", "none"}

\* Until "resume" the stage has met no mishap, and what it wrote tells its step.
ForwardJournal ==
    /\ ~GivenUp /\ ~Resumed
    /\ Written("quiesced") = (at \notin Early)
    /\ Written("moving") = (at \notin Unstopped \union {"moving"})
    /\ Written("had") = (scene.had /\ at \notin Unstopped \union {"moving", "had"})
    /\ Written("tree_saved") = (at \notin Unsaved)
    /\ Written("deps_started") = (at \notin Uninstalled)
    /\ Written("migrating") = (at \notin Unmigrated)
    /\ Written("migrate_unchanged") = (at \in Verifying /\ ~Pending)
    /\ Written("started") = (at \in {"flag", "serve", "work", "resume"})

ForwardFiles ==
    /\ at = "move_out" => scene.had
    /\ at \in Unmoved => live["dir"] = Old["dir"] /\ kept["dir"] = "none"
    /\ at = "move_in" => live["dir"] = "none"
    /\ at \notin Unmoved =>
         kept["dir"] = IF scene.had THEN "old" ELSE "none"
    /\ at \notin Unmoved \union {"move_in"} => live["dir"] = "new"
    /\ at \in Unsaved => live["tree"] = "old"
    /\ at \notin Unsaved => kept["tree"] = "old"
    /\ at \notin Unsaved \union {"apply_tree"} => live["tree"] = "new"
    /\ at \in Uninstalled => live["venv"] = "old"
    /\ at \notin Uninstalled \union {"install"} => live["venv"] = "new"
    /\ kept["venv"] = IF at \in {"mark", "arm", "keep_venv"} THEN "none" ELSE "old"

ForwardBase ==
    /\ ~newer /\ ~lost
    /\ at \in Unmigrated \/ ~Pending => schema = "old"
    /\ at \in Verifying \union {"migrated"} /\ Pending => schema = "new"
    /\ snapshot => at \in {"migrating", "migrate", "migrated"} \union Verifying

ForwardSite ==
    /\ cut = {} /\ queued = {} /\ enabled = Installed
    /\ ticking <=> at \in Unstopped
    /\ marker <=> at # "mark"
    /\ armed = IF at \in {"mark", "arm"} THEN "no" ELSE "yes"
    /\ at \in Unstopped => up = Units
    /\ at \notin Unstopped \union {"work", "resume"} => up = {}
    /\ held <=> at \in {"serve", "work", "resume"}

Forward ==
    at \in Upgrading => ForwardJournal /\ ForwardFiles /\ ForwardBase /\ ForwardSite

-----------------------------------------------------------------------------
(* What is written in the journal, and where.                              *)

\* Each line is written at one step, and none is ever taken back.
Writers ==
    /\ journal \subseteq journal'
    /\ "quiesced" \in journal' => Written("quiesced") \/ at = "quiesce"
    /\ "moving" \in journal' => Written("moving") \/ at = "moving"
    /\ "had" \in journal' => Written("had") \/ (at = "had" /\ live["dir"] # "none")
    /\ "tree_saved" \in journal' => Written("tree_saved") \/ at = "save_tree"
    /\ "deps_started" \in journal' => Written("deps_started") \/ at = "deps"
    /\ "migrating" \in journal' => Written("migrating") \/ at = "migrating"
    /\ "migrate_unchanged" \in journal' =>
         \/ Written("migrate_unchanged")
         \/ at = "unchanged" \/ (at = "migrated" /\ ~Pending)
    /\ "started" \in journal' => Written("started") \/ at = "hold"
    /\ "resumed" \in journal' => Written("resumed") \/ at = "resume"
    /\ "restore_failed" \in journal' => Written("restore_failed") \/ at = "failed"
    /\ "finished" \in journal' => Written("finished") \/ at = "finish"

\* No other step writes a line.
LEMMA StepWriters == [Next]_vars => Writers
<1> SUFFICES ASSUME [Next]_vars PROVE Writers
  OBVIOUS
<1>1. Frames
  BY StepFrames
<1>2. CASE UNCHANGED journal
  BY <1>2 DEF Writers, Written
<1>3. CASE \E step \in DOMAIN Announced : Announce(step)
  <2>1. PICK step \in DOMAIN Announced : Announce(step)
    BY <1>3
  <2>2. at = step /\ journal' = journal \union {Announced[step].key}
    BY <2>1 DEF Announce, At
  <2>3. step \in {"quiesce", "moving", "deps", "migrating", "hold", "resume", "unchanged"}
    BY <2>1 DEF Announced
  <2> QED
    BY <2>2, <2>3 DEF Announced, Writers, Written
<1>4. CASE Had
  BY <1>4 DEF Had, At, Writers, Written
<1>5. CASE SaveTree \/ Failed \/ Finish
  BY <1>5 DEF SaveTree, Failed, Finish, At, Writers, Written
<1>6. CASE Migrated
  BY <1>6 DEF Migrated, At, Writers, Written
<1> QED
  BY <1>1, <1>2, <1>3, <1>4, <1>5, <1>6 DEF Frames, ChangesJournal

\* Forward, the journal is what the stage wrote, in order.
LEMMA StepChain == Chain /\ Place /\ Forward /\ [Next]_vars => Chain'
<1> SUFFICES ASSUME Chain, Place, Forward, [Next]_vars PROVE Chain'
  OBVIOUS
<1>1. Writers
  BY StepWriters
<1>2. at \in {"quiesce", "moving", "had", "save_tree", "deps", "migrating", "hold", "resume"} =>
        ForwardJournal
  BY DEF Forward, Upgrading
<1>3. at = "migrated" => Written("migrating")
  BY DEF Forward, ForwardJournal, Upgrading, Unmigrated, Uninstalled, Unsaved, Unmoved,
     Unstopped, Early
<1> QED
  BY <1>1, <1>2, <1>3 DEF Writers, Chain, Place, Written, Resumed, ForwardJournal, Unmigrated,
     Uninstalled, Unsaved, Unmoved, Unstopped, Early

\* A step keeps who may be where.
LEMMA StepSeats == WhoOK /\ Seats /\ [Next]_vars => Seats'
<1> SUFFICES ASSUME WhoOK, Seats, [Next]_vars PROVE Seats'
  OBVIOUS
<1> USE DEF WhoOK, Seats, process, host, At, Go, Leave, Back, AfterDir, AfterTree, AfterVenv,
        Undoing, Upgrading
<1>1. CASE StageStep
  <2>1. CASE \E step \in DOMAIN Announced : Announce(step)
    BY <2>1 DEF Announce, Announced
  <2> QED
    BY <1>1, <2>1 DEF StageStep, Mark, Arm, KeepVenv, Stop, Had, MoveOut, MoveIn, SaveTree,
       Overwrite, Snapshot, Migrate, Migrated, Verify, Flag, Serve, Work, Open, Hold,
       StartTimers
<1>2. CASE UndoStep
  BY <1>2 DEF UndoStep, Rollback, Halt, UndoVenv, UndoTree, UndoDir, PutBack, SignalLeaves,
     UndoDatabase, Reload, RestoreFails, AfterDatabase, Failed, Disable, Enable, Unflag,
     Restart, StartTimers
<1>3. CASE EndStep
  BY <1>3 DEF EndStep, Disarm, Unmark, Finish, Cleanup
<1>4. CASE Fails \/ Interrupted \/ Dies \/ Reboots \/ Recover \/ Retry
  BY <1>4 DEF Fails, Fallible, Interrupted, Dies, Reboots, Recover, Retry, Unfinished
<1>5. CASE BootGoesOn \/ (\E u \in Units : Starts(u)) \/ UserWrites \/ UNCHANGED vars
  BY <1>5 DEF BootGoesOn, Starts, UserWrites, vars
<1> QED
  BY <1>1, <1>2, <1>3, <1>4, <1>5 DEF Next, ProcessStep

\* A step keeps what must be written where.
LEMMA StepPlace == Chain /\ Place /\ Abandoned /\ Forward /\ [Next]_vars => Place'
<1> SUFFICES ASSUME Chain, Place, Abandoned, Forward, [Next]_vars PROVE Place'
  OBVIOUS
<1>a. Frames /\ Writers
  BY StepFrames, StepWriters
<1>b. UNCHANGED Pending
  BY <1>a DEF Frames, Pending
<1>c. at \in Upgrading => ~GivenUp /\ ~Resumed
  BY DEF Forward, ForwardJournal
<1>d. at = "migrate" => Written("migrating") /\ ~Written("started")
  BY DEF Forward, ForwardJournal, Upgrading, Unmigrated, Uninstalled, Unsaved, Unmoved,
     Unstopped, Early
<1> USE <1>a, <1>b, <1>c, <1>d DEF Chain, Place, Abandoned, Writers, Touched, Written,
        Resumed, GivenUp, process, At, Go, Leave, Back, AfterDir, AfterTree, AfterVenv,
        Undoing, Upgrading
<1>1. CASE StageStep
  <2>1. CASE \E step \in DOMAIN Announced : Announce(step)
    BY <2>1 DEF Announce, Announced
  <2> QED
    BY <1>1, <2>1 DEF StageStep, Mark, Arm, KeepVenv, Stop, Had, MoveOut, MoveIn, SaveTree,
       Overwrite, Snapshot, Migrate, Migrated, Verify, Flag, Serve, Work, Open, Hold,
       StartTimers
<1>2. CASE UndoStep
  BY <1>2 DEF UndoStep, Rollback, Halt, UndoVenv, UndoTree, UndoDir, PutBack, SignalLeaves,
     UndoDatabase, Reload, RestoreFails, AfterDatabase, Failed, Disable, Enable, Unflag,
     Restart, StartTimers
<1>3. CASE EndStep
  BY <1>3 DEF EndStep, Disarm, Unmark, Finish, Cleanup
<1>4. CASE Fails \/ Interrupted \/ Dies \/ Reboots \/ Recover \/ Retry
  BY <1>4 DEF Fails, Fallible, Interrupted, Dies, Reboots, Recover, Retry, Unfinished
<1>5. CASE BootGoesOn \/ (\E u \in Units : Starts(u)) \/ UserWrites \/ UNCHANGED vars
  BY <1>5 DEF BootGoesOn, Starts, UserWrites, vars
<1> QED
  BY <1>1, <1>2, <1>3, <1>4, <1>5 DEF Next, ProcessStep

\* Nothing but a retry leaves an upgrade that was given up.
LEMMA StepAbandoned ==
    Seats /\ Chain /\ Place /\ Abandoned /\ Forward /\ [Next]_vars => Abandoned'
<1> SUFFICES ASSUME Seats, Chain, Place, Abandoned, Forward, [Next]_vars PROVE Abandoned'
  OBVIOUS
<1>a. Frames /\ Writers
  BY StepFrames, StepWriters
<1>b. UNCHANGED Pending
  BY <1>a DEF Frames, Pending
<1>c. at \in Upgrading => ~GivenUp /\ ~Resumed
  BY DEF Forward, ForwardJournal
<1>d. at = "migrate" => Written("migrating") /\ ~Written("started")
  BY DEF Forward, ForwardJournal, Upgrading, Unmigrated, Uninstalled, Unsaved, Unmoved,
     Unstopped, Early
<1> USE <1>a, <1>b, <1>c, <1>d DEF Seats, Chain, Place, Abandoned, Writers, Touched, Written,
        Resumed, GivenUp, process, At, Go, Leave, Back, AfterDir, AfterTree, AfterVenv,
        Undoing, Upgrading
<1>1. CASE StageStep
  <2>1. CASE \E step \in DOMAIN Announced : Announce(step)
    BY <2>1 DEF Announce, Announced
  <2> QED
    BY <1>1, <2>1 DEF StageStep, Mark, Arm, KeepVenv, Stop, Had, MoveOut, MoveIn, SaveTree,
       Overwrite, Snapshot, Migrate, Migrated, Verify, Flag, Serve, Work, Open, Hold,
       StartTimers
<1>2. CASE UndoStep
  BY <1>2 DEF UndoStep, Rollback, Halt, UndoVenv, UndoTree, UndoDir, PutBack, SignalLeaves,
     UndoDatabase, Reload, RestoreFails, AfterDatabase, Failed, Disable, Enable, Unflag,
     Restart, StartTimers
<1>3. CASE EndStep
  BY <1>3 DEF EndStep, Disarm, Unmark, Finish, Cleanup
<1>4. CASE Fails \/ Interrupted \/ Dies \/ Reboots \/ Recover \/ Retry
  BY <1>4 DEF Fails, Fallible, Interrupted, Dies, Reboots, Recover, Retry, Unfinished
<1>5. CASE BootGoesOn \/ (\E u \in Units : Starts(u)) \/ UserWrites \/ UNCHANGED vars
  BY <1>5 DEF BootGoesOn, Starts, UserWrites, vars
<1> QED
  BY <1>1, <1>2, <1>3, <1>4, <1>5 DEF Next, ProcessStep

\* The marker goes after all that needs it.
LEMMA StepGuarded == Guarded /\ [Next]_vars => Guarded'
<1> SUFFICES ASSUME Guarded, [Next]_vars PROVE Guarded'
  OBVIOUS
<1>a. Frames /\ Writers
  BY StepFrames, StepWriters
<1> USE <1>a DEF Guarded, Touched, Frames, recovery, ChangesRecovery, Written, Resumed,
        GivenUp, process, At, Go, Leave, Back, AfterDir, AfterTree, AfterVenv, Undoing,
        Upgrading
<1>1. CASE StageStep
  <2>1. CASE \E step \in DOMAIN Announced : Announce(step)
    BY <2>1 DEF Announce, Announced
  <2> QED
    BY <1>1, <2>1 DEF StageStep, Mark, Arm, KeepVenv, Stop, Had, MoveOut, MoveIn, SaveTree,
       Overwrite, Snapshot, Migrate, Migrated, Verify, Flag, Serve, Work, Open, Hold,
       StartTimers
<1>2. CASE UndoStep
  BY <1>2 DEF UndoStep, Rollback, Halt, UndoVenv, UndoTree, UndoDir, PutBack, SignalLeaves,
     UndoDatabase, Reload, RestoreFails, AfterDatabase, Failed, Disable, Enable, Unflag,
     Restart, StartTimers
<1>3. CASE EndStep
  BY <1>3 DEF EndStep, Disarm, Unmark, Finish, Cleanup
<1>4. CASE Fails \/ Interrupted \/ Dies \/ Reboots \/ Recover \/ Retry
  BY <1>4 DEF Fails, Fallible, Interrupted, Dies, Reboots, Recover, Retry, Unfinished
<1>5. CASE BootGoesOn \/ (\E u \in Units : Starts(u)) \/ UserWrites \/ UNCHANGED vars
  BY <1>5 DEF BootGoesOn, Starts, UserWrites, vars
<1> QED
  BY <1>1, <1>2, <1>3, <1>4, <1>5 DEF Next, ProcessStep

\* What can happen while the stage upgrades.
LEMMA StepOnward ==
    [Next]_vars /\ at' \in Upgrading =>
      /\ at \in Upgrading
      /\ StageStep \/ BootGoesOn \/ (\E u \in Units : Starts(u)) \/ UserWrites \/ UNCHANGED vars
<1> SUFFICES ASSUME [Next]_vars, at' \in Upgrading,
                    ~(StageStep \/ BootGoesOn \/ (\E u \in Units : Starts(u)) \/ UserWrites
                        \/ UNCHANGED vars)
             PROVE  FALSE
  BY StepEntries DEF Entries
<1> USE DEF At, Go, Leave, Upgrading, process
<1>1. CASE UndoStep
  BY <1>1, StepEntries DEF Entries, UndoStep, Rollback, Halt, UndoVenv, UndoTree, UndoDir,
     PutBack, SignalLeaves, UndoDatabase, Reload, RestoreFails, Failed, Disable, Enable,
     Unflag, Restart, StartTimers
<1>2. CASE EndStep
  BY <1>2 DEF EndStep, Disarm, Unmark, Finish, Cleanup
<1>3. CASE Fails \/ Interrupted \/ Dies \/ Reboots \/ Recover \/ Retry
  BY <1>3 DEF Fails, Fallible, Interrupted, Dies, Reboots, Recover, Retry
<1> QED
  BY <1>1, <1>2, <1>3 DEF Next, ProcessStep

\* Each line is written at the step the table gives.
LEMMA StepForwardJournal == Forward /\ [Next]_vars /\ at' \in Upgrading => ForwardJournal'
<1> SUFFICES ASSUME Forward, [Next]_vars, at' \in Upgrading PROVE ForwardJournal'
  OBVIOUS
<1>a. Frames /\ at \in Upgrading
  BY StepFrames, StepOnward
<1>b. ForwardJournal /\ ForwardFiles /\ UNCHANGED scene
  BY <1>a DEF Forward, Frames
<1> USE <1>a, <1>b DEF ForwardJournal, Written, Resumed, GivenUp, Pending, process, At, Go,
        Upgrading, Unmigrated, Uninstalled, Unsaved, Unmoved, Unstopped, Early, Verifying
<1>1. CASE \E step \in DOMAIN Announced : Announce(step)
  BY <1>1 DEF Announce, Announced
<1>2. CASE Mark \/ Arm \/ KeepVenv \/ Stop \/ MoveOut \/ MoveIn
  BY <1>2 DEF Mark, Arm, KeepVenv, Stop, MoveOut, MoveIn
<1>3. CASE Had
  <2>1. at = "had" /\ at' \in {"move_out", "move_in"}
    BY <1>3 DEF Had
  <2>2. live["dir"] # "none" <=> scene.had
    BY <2>1 DEF ForwardFiles, Old, Parts
  <2>3. journal' = IF scene.had THEN journal \union {"had"} ELSE journal
    BY <1>3, <2>2 DEF Had
  <2> QED
    BY <2>1, <2>3
<1>4. CASE SaveTree
  BY <1>4 DEF SaveTree
<1>5. CASE Overwrite("tree", "apply_tree", "deps") \/ Overwrite("venv", "install", "snapshot")
  BY <1>5 DEF Overwrite
<1>6. CASE Snapshot \/ Migrate
  BY <1>6 DEF Snapshot, Migrate
<1>7. CASE Migrated
  BY <1>7 DEF Migrated
<1>8. CASE Verify \/ Flag \/ Serve \/ Work \/ Open \/ StartTimers("timers")
  BY <1>8 DEF Verify, Flag, Serve, Work, Open, StartTimers
<1>9. CASE BootGoesOn \/ (\E u \in Units : Starts(u)) \/ UserWrites
  BY <1>9 DEF BootGoesOn, Starts, UserWrites
<1>10. CASE UNCHANGED vars
  BY <1>10 DEF vars
<1> QED
  BY <1>1, <1>2, <1>3, <1>4, <1>5, <1>6, <1>7, <1>8, <1>9, <1>10, StepOnward DEF StageStep

\* Each part is new from the step the table gives.
LEMMA StepForwardFiles ==
    TypeOK /\ Forward /\ [Next]_vars /\ at' \in Upgrading => ForwardFiles'
<1> SUFFICES ASSUME TypeOK, Forward, [Next]_vars, at' \in Upgrading PROVE ForwardFiles'
  OBVIOUS
<1>a. Frames /\ at \in Upgrading
  BY StepFrames, StepOnward
<1>b. ForwardFiles /\ UNCHANGED scene /\ Old' = Old
  BY <1>a DEF Forward, Frames, Old
<1>c. /\ live \in [Parts -> Versions] /\ kept \in [Parts -> Versions]
      /\ Old["dir"] = IF scene.had THEN "old" ELSE "none"
  BY DEF TypeOK, Versions, Old, Parts
<1> USE <1>a, <1>b DEF ForwardFiles, process, files, At, Go, Upgrading, Unmigrated,
        Uninstalled, Unsaved, Unmoved, Unstopped, Early, Verifying
<1>1. CASE (\E step \in DOMAIN Announced : Announce(step)) \/ Mark \/ Arm \/ Stop \/ Verify
  BY <1>1 DEF Announce, Announced, Mark, Arm, Stop, Verify
<1>2. CASE KeepVenv
  <2>1. \A q \in Parts : kept'[q] = IF q = "venv" THEN "old" ELSE kept[q]
    BY <1>c, <1>2 DEF KeepVenv, Parts
  <2> QED
    BY <2>1, <1>2 DEF KeepVenv, Parts
<1>3. CASE Had
  BY <1>3, <1>c DEF Had
<1>4. CASE MoveOut
  <2>1. \A q \in Parts : kept'[q] = IF q = "dir" THEN "old" ELSE kept[q]
    BY <1>c, <1>4 DEF MoveOut, Parts
  <2>2. \A q \in Parts : live'[q] = IF q = "dir" THEN "none" ELSE live[q]
    BY <1>c, <1>4 DEF MoveOut, Put, Parts
  <2> QED
    BY <2>1, <2>2, <1>4 DEF MoveOut, Parts
<1>5. CASE MoveIn
  <2>1. \A q \in Parts : live'[q] = IF q = "dir" THEN "new" ELSE live[q]
    BY <1>c, <1>5 DEF MoveIn, Put, Parts
  <2> QED
    BY <2>1, <1>5 DEF MoveIn, Parts
<1>6. CASE SaveTree
  <2>1. \A q \in Parts : kept'[q] = IF q = "tree" THEN "old" ELSE kept[q]
    BY <1>c, <1>6 DEF SaveTree, Parts
  <2> QED
    BY <2>1, <1>6 DEF SaveTree, Parts
<1>7. CASE Overwrite("tree", "apply_tree", "deps")
  <2>1. PICK v \in {"mixed", "new"} :
          /\ \A q \in Parts : live'[q] = IF q = "tree" THEN v ELSE live[q]
          /\ at' = IF v = "mixed" THEN "apply_tree" ELSE "deps"
    BY <1>c, <1>7 DEF Overwrite, Put, Parts
  <2> QED
    BY <2>1, <1>7 DEF Overwrite, Parts
<1>8. CASE Overwrite("venv", "install", "snapshot")
  <2>1. PICK v \in {"mixed", "new"} :
          /\ \A q \in Parts : live'[q] = IF q = "venv" THEN v ELSE live[q]
          /\ at' = IF v = "mixed" THEN "install" ELSE "snapshot"
    BY <1>c, <1>8 DEF Overwrite, Put, Parts
  <2> QED
    BY <2>1, <1>8 DEF Overwrite, Parts
<1>9. CASE Snapshot \/ Migrate \/ Migrated
  BY <1>9 DEF Snapshot, Migrate, Migrated
<1>10. CASE Flag \/ Serve \/ Work \/ Open \/ StartTimers("timers")
  BY <1>10 DEF Flag, Serve, Work, Open, StartTimers
<1>11. CASE BootGoesOn \/ (\E u \in Units : Starts(u)) \/ UserWrites
  BY <1>11 DEF BootGoesOn, Starts, UserWrites
<1>12. CASE UNCHANGED vars
  BY <1>12 DEF vars
<1> QED
  BY <1>1, <1>2, <1>3, <1>4, <1>5, <1>6, <1>7, <1>8, <1>9, <1>10, <1>11, <1>12, StepOnward DEF
     StageStep

\* The database is as the step says, and users write nothing.
LEMMA StepForwardBase ==
    Forward /\ [Next]_vars /\ at' \in Upgrading => ForwardBase'
<1> SUFFICES ASSUME Forward, [Next]_vars, at' \in Upgrading PROVE ForwardBase'
  OBVIOUS
<1>a. Frames /\ at \in Upgrading
  BY StepFrames, StepOnward
<1>b. ForwardBase /\ ForwardSite /\ UNCHANGED scene
  BY <1>a DEF Forward, Frames
<1> USE <1>a, <1>b DEF ForwardBase, process, database, At, Go, Pending, Upgrading, Unmigrated,
        Uninstalled, Unsaved, Unmoved, Unstopped, Early, Verifying
<1>1. CASE (\E step \in DOMAIN Announced : Announce(step)) \/ Mark \/ Arm \/ Stop \/ Verify
  BY <1>1 DEF Announce, Announced, Mark, Arm, Stop, Verify
<1>2. CASE KeepVenv \/ Had \/ MoveOut \/ MoveIn \/ SaveTree
  BY <1>2 DEF KeepVenv, Had, MoveOut, MoveIn, SaveTree
<1>3. CASE Overwrite("tree", "apply_tree", "deps") \/ Overwrite("venv", "install", "snapshot")
  BY <1>3 DEF Overwrite
<1>4. CASE Snapshot
  BY <1>4 DEF Snapshot
<1>5. CASE Migrate \/ Migrated
  BY <1>5 DEF Migrate, Migrated
<1>6. CASE Flag \/ Serve \/ Work \/ Open \/ StartTimers("timers")
  BY <1>6 DEF Flag, Serve, Work, Open, StartTimers
<1>7. CASE UserWrites
  BY <1>7 DEF UserWrites, ForwardSite
<1>8. CASE BootGoesOn \/ \E u \in Units : Starts(u)
  BY <1>8 DEF BootGoesOn, Starts
<1>9. CASE UNCHANGED vars
  BY <1>9 DEF vars
<1> QED
  BY <1>1, <1>2, <1>3, <1>4, <1>5, <1>6, <1>7, <1>8, <1>9, StepOnward DEF StageStep

\* Nothing runs between "stop" and "serve", and then behind the flag.
LEMMA StepForwardSite ==
    Seats /\ Forward /\ [Next]_vars /\ at' \in Upgrading => ForwardSite'
<1> SUFFICES ASSUME Seats, Forward, [Next]_vars, at' \in Upgrading PROVE ForwardSite'
  OBVIOUS
<1>a. Frames /\ at \in Upgrading
  BY StepFrames, StepOnward
<1>b. ForwardSite /\ who = "stage"
  BY <1>a DEF Forward, Seats
<1> USE <1>a, <1>b DEF ForwardSite, process, site, host, recovery, mishaps, At, Go, Upgrading,
        Unmigrated, Uninstalled, Unsaved, Unmoved, Unstopped, Early, Verifying
<1>1. CASE \E step \in DOMAIN Announced : Announce(step)
  <2>1. PICK step \in DOMAIN Announced : Announce(step)
    BY <1>1
  <2>2. /\ UNCHANGED <<marker, armed, up, queued, ticking, held, enabled, cut>>
        /\ at = step /\ at' = Announced[step].then
    BY <2>1 DEF Announce
  <2>3. /\ at = "quiesce" => at' = "stop"
        /\ at = "moving" => at' = "had"
        /\ at = "deps" => at' = "install"
        /\ at = "migrating" => at' = "migrate"
        /\ at = "hold" => at' = "flag"
    BY <2>2 DEF Announced
  <2>4. at \in {"quiesce", "moving", "deps", "migrating", "hold"}
    <3>1. step \in {"quiesce", "moving", "deps", "migrating", "hold", "resume", "unchanged"}
      BY <2>1 DEF Announced
    <3>2. step = "resume" => at' = "open"
      BY <2>2 DEF Announced
    <3>3. step = "unchanged" => at' = "rollback"
      BY <2>2 DEF Announced
    <3> QED
      BY <2>2, <3>1, <3>2, <3>3
  <2>5. CASE at = "quiesce"
    BY <2>2, <2>3, <2>5
  <2>6. CASE at # "quiesce"
    <3>1. at' \in {"had", "install", "migrate", "flag"}
      BY <2>3, <2>4, <2>6
    <3>2. up = {} /\ ~held /\ ~ticking
      BY <2>4, <2>6
    <3>3. at' \notin Unstopped \union {"work", "resume"} /\ at' # "serve"
      BY <3>1
    <3>4. up' = {} /\ ~held' /\ ~ticking'
      BY <2>2, <3>2
    <3>5. cut' = {} /\ queued' = {} /\ enabled' = Installed /\ marker' /\ armed' = "yes"
      BY <2>2, <2>4, <2>6, Zenon
    <3> QED
      BY <3>1, <3>3, <3>4, <3>5
  <2> QED
    BY <2>5, <2>6
<1>2. CASE Mark \/ Arm \/ Stop \/ Verify
  BY <1>2 DEF Mark, Arm, Stop, StopAll, Verify
<1>3. CASE KeepVenv \/ Had \/ MoveOut \/ MoveIn \/ SaveTree
  BY <1>3 DEF KeepVenv, Had, MoveOut, MoveIn, SaveTree
<1>4. CASE Overwrite("tree", "apply_tree", "deps") \/ Overwrite("venv", "install", "snapshot")
  BY <1>4 DEF Overwrite
<1>5. CASE Snapshot \/ Migrate \/ Migrated
  BY <1>5 DEF Snapshot, Migrate, Migrated
<1>6. CASE Flag \/ Serve \/ Work \/ Open \/ StartTimers("timers")
  <2>1. CASE Flag
    BY <2>1 DEF Flag, Hold
  <2>2. CASE Serve
    BY <2>2 DEF Serve, Begin
  <2>3. CASE Work
    BY <2>3 DEF Work, Begin
  <2>4. CASE Open \/ StartTimers("timers")
    BY <2>4 DEF Open, StartTimers
  <2> QED
    BY <1>6, <2>1, <2>2, <2>3, <2>4
<1>7. CASE BootGoesOn \/ UserWrites \/ \E u \in Units : Starts(u)
  BY <1>7 DEF BootGoesOn, UserWrites, Starts
<1>8. CASE UNCHANGED vars
  BY <1>8 DEF vars
<1> QED
  BY <1>1, <1>2, <1>3, <1>4, <1>5, <1>6, <1>7, <1>8, StepOnward DEF StageStep

\* A step of the stage keeps the whole table.
LEMMA StepForward == TypeOK /\ Seats /\ Forward /\ [Next]_vars => Forward'
<1> SUFFICES ASSUME TypeOK, Seats, Forward, [Next]_vars, at' \in Upgrading
             PROVE  (ForwardJournal /\ ForwardFiles /\ ForwardBase /\ ForwardSite)'
  BY DEF Forward, Upgrading
<1> QED
  BY StepForwardJournal, StepForwardFiles, StepForwardBase, StepForwardSite

-----------------------------------------------------------------------------
(* Each part of the release, in the app directory and aside.               *)

VenvStep ==
    \/ live'["venv"] = live["venv"] /\ kept'["venv"] = kept["venv"]
    \/ /\ at = "keep_venv"
       /\ live'["venv"] = live["venv"] /\ kept'["venv"] = live["venv"]
    \/ /\ at = "install" /\ at' \in {"install", "snapshot"}
       /\ kept'["venv"] = kept["venv"]
    \/ /\ at = "undo_venv" /\ at' = "venv_aside"
       /\ Written("deps_started") /\ kept["venv"] # "none"
       /\ kept'["venv"] = kept["venv"]
    \/ /\ at = "venv_aside" /\ at' = "undo_tree"
       /\ live'["venv"] = kept["venv"] /\ kept'["venv"] = "none"
    \/ /\ at = "cleanup" /\ at' = "none"
       /\ live'["venv"] = live["venv"] /\ kept'["venv"] = "none"

TreeStep ==
    \/ live'["tree"] = live["tree"] /\ kept'["tree"] = kept["tree"]
    \/ /\ at = "save_tree" /\ at' = "apply_tree"
       /\ live'["tree"] = live["tree"] /\ kept'["tree"] = live["tree"]
    \/ /\ at = "apply_tree" /\ at' \in {"apply_tree", "deps"}
       /\ kept'["tree"] = kept["tree"]
    \/ /\ at = "undo_tree" /\ at' = "undo_dir" /\ Written("tree_saved")
       /\ live'["tree"] = kept["tree"] /\ kept'["tree"] = kept["tree"]
    \/ /\ at = "cleanup" /\ at' = "none"
       /\ live'["tree"] = live["tree"]

DirStep ==
    \/ live'["dir"] = live["dir"] /\ kept'["dir"] = kept["dir"]
    \/ /\ at = "move_out" /\ at' = "move_in"
       /\ live'["dir"] = "none" /\ kept'["dir"] = live["dir"]
    \/ /\ at = "move_in" /\ at' = "save_tree"
       /\ live'["dir"] = "new" /\ kept'["dir"] = kept["dir"]
    \/ /\ at = "undo_dir" /\ at' = "dir_aside"
       /\ Written("moving") /\ kept["dir"] # "none"
       /\ live'["dir"] = "none" /\ kept'["dir"] = kept["dir"]
    \/ /\ at = "undo_dir" /\ at' = "undo_database"
       /\ Written("moving") /\ ~Written("had") /\ kept["dir"] = "none"
       /\ live'["dir"] = "none" /\ kept'["dir"] = kept["dir"]
    \/ /\ at = "dir_aside" /\ at' = "undo_database"
       /\ live'["dir"] = kept["dir"] /\ kept'["dir"] = "none"
    \/ /\ at = "cleanup" /\ at' = "none"
       /\ live'["dir"] = live["dir"] /\ kept'["dir"] = "none"

\* No step changes a part in another way.
LEMMA StepParts == TypeOK /\ [Next]_vars => VenvStep /\ TreeStep /\ DirStep
<1> SUFFICES ASSUME TypeOK, [Next]_vars PROVE VenvStep /\ TreeStep /\ DirStep
  OBVIOUS
<1>a. live \in [Parts -> Versions] /\ kept \in [Parts -> Versions]
  BY DEF TypeOK, Versions
<1>b. "dir" \in Parts /\ "tree" \in Parts /\ "venv" \in Parts
  BY DEF Parts
<1> USE <1>b DEF VenvStep, TreeStep, DirStep, At, Go, Leave, Put
<1>1. CASE UNCHANGED files
  BY <1>1 DEF files
<1>2. CASE KeepVenv
  BY <1>a, <1>2 DEF KeepVenv
<1>3. CASE MoveOut
  BY <1>a, <1>3 DEF MoveOut
<1>4. CASE MoveIn
  BY <1>a, <1>4 DEF MoveIn
<1>5. CASE SaveTree
  BY <1>a, <1>5 DEF SaveTree
<1>6. CASE Overwrite("tree", "apply_tree", "deps")
  BY <1>a, <1>6 DEF Overwrite
<1>7. CASE Overwrite("venv", "install", "snapshot")
  BY <1>a, <1>7 DEF Overwrite
<1>8. CASE UndoVenv
  BY <1>a, <1>8 DEF UndoVenv
<1>9. CASE UndoTree
  BY <1>a, <1>9 DEF UndoTree
<1>10. CASE UndoDir
  BY <1>a, <1>10 DEF UndoDir, Brought
<1>11. CASE PutBack("venv", "venv_aside", "undo_tree")
  BY <1>a, <1>11 DEF PutBack
<1>12. CASE PutBack("dir", "dir_aside", "undo_database")
  BY <1>a, <1>12 DEF PutBack
<1>13. CASE Cleanup
  BY <1>a, <1>13 DEF Cleanup
<1> QED
  BY <1>1, <1>2, <1>3, <1>4, <1>5, <1>6, <1>7, <1>8, <1>9, <1>10, <1>11, <1>12, <1>13,
     StepFrames DEF Frames, ChangesFiles

\* From where a step may rely on a part that was put back, or was never touched.
Relied(steps) == at \in steps \/ GivenUp \/ ~marker

NewlyRelied ==
    /\ at' \in AfterVenv \/ GivenUp' \/ ~marker' =>
         \/ Relied(AfterVenv) \/ UndoVenv \/ PutBack("venv", "venv_aside", "undo_tree")
         \/ Rollback /\ ~Written("quiesced")
    /\ at' \in AfterTree \/ GivenUp' \/ ~marker' =>
         \/ Relied(AfterTree) \/ UndoTree
         \/ Rollback /\ ~Written("quiesced")
    /\ at' \in AfterDir \/ GivenUp' \/ ~marker' =>
         \/ Relied(AfterDir) \/ UndoDir \/ PutBack("dir", "dir_aside", "undo_database")
         \/ Rollback /\ ~Written("quiesced")

\* No step comes to rely on a part in another way.
LEMMA StepRelied == Place /\ ~Resumed /\ [Next]_vars => NewlyRelied
<1> SUFFICES ASSUME Place, ~Resumed, [Next]_vars PROVE NewlyRelied
  OBVIOUS
<1>1. Entries /\ Writers
  BY StepEntries, StepWriters
<1>2. ~marker' => ~marker \/ at = "unmark"
  BY StepFrames DEF Frames, recovery, ChangesRecovery, Mark, Arm, Disarm, Unmark, At
<1>3. GivenUp' => GivenUp \/ at = "failed"
  BY <1>1 DEF Writers, GivenUp, Written
<1>4. at' \in AfterDir \ Back =>
        Relied(AfterDir) \/ UndoDir \/ PutBack("dir", "dir_aside", "undo_database")
  <2>1. Retry /\ at' \in AfterDir \ Back => GivenUp
    BY DEF Retry, GivenUp, AfterDir, Back
  <2> QED
    BY <1>1, <2>1 DEF Entries, Relied
<1>5. at' \in Back => at \in AfterDir \/ (Rollback /\ ~Written("quiesced"))
  <2>1. StartTimers("timers") => Resumed
    BY DEF StartTimers, At, Place
  <2>2. UndoDatabase \/ Reload => at \in AfterDir
    BY DEF UndoDatabase, Reload, At, AfterDir
  <2>3. Rollback /\ at' \in Back => ~Written("quiesced")
    BY DEF Rollback, Go, Back, Resumed
  <2> QED
    BY <1>1, <2>1, <2>2, <2>3 DEF Entries, AfterDir
<1>6. at' \in AfterTree \ AfterDir => Relied(AfterTree) \/ UndoTree
  BY <1>1 DEF Entries, Relied
<1>7. at' \in AfterVenv \ AfterTree =>
        Relied(AfterVenv) \/ UndoVenv \/ PutBack("venv", "venv_aside", "undo_tree")
  BY <1>1 DEF Entries, Relied
<1>8. UndoDir \/ PutBack("dir", "dir_aside", "undo_database") => at \in AfterTree
  BY DEF UndoDir, PutBack, At, AfterTree
<1>9. UndoTree => at \in AfterVenv
  BY DEF UndoTree, At, AfterVenv
<1>10. {"unmark", "failed"} \subseteq AfterDir
  BY DEF AfterDir, Back
<1>11. AfterDir \subseteq AfterTree /\ AfterTree \subseteq AfterVenv /\ Back \subseteq AfterDir
  BY DEF AfterDir, AfterTree, AfterVenv
<1>12. at' \in AfterDir \/ GivenUp' \/ ~marker' =>
         \/ Relied(AfterDir) \/ UndoDir \/ PutBack("dir", "dir_aside", "undo_database")
         \/ Rollback /\ ~Written("quiesced")
  BY <1>2, <1>3, <1>4, <1>5, <1>10, <1>11 DEF Relied
<1>13. at' \in AfterTree \/ GivenUp' \/ ~marker' =>
         \/ Relied(AfterTree) \/ UndoTree
         \/ Rollback /\ ~Written("quiesced")
  BY <1>2, <1>3, <1>6, <1>8, <1>10, <1>11, <1>12 DEF Relied
<1>14. at' \in AfterVenv \/ GivenUp' \/ ~marker' =>
         \/ Relied(AfterVenv) \/ UndoVenv \/ PutBack("venv", "venv_aside", "undo_tree")
         \/ Rollback /\ ~Written("quiesced")
  BY <1>2, <1>3, <1>7, <1>9, <1>10, <1>11, <1>13 DEF Relied
<1> QED
  BY <1>12, <1>13, <1>14 DEF NewlyRelied

\* What was kept of the virtualenv is the old one, and it is back when it is said to be.
Venv ==
    /\ kept["venv"] \in {"none", "old"}
    /\ at = "venv_aside" => kept["venv"] = "old"
    /\ ~Written("deps_started") => live["venv"] = "old"
    /\ ~Resumed /\ (kept["venv"] = "none" \/ Relied(AfterVenv)) => live["venv"] = "old"

\* The virtualenv is moved back once, and only where it was kept.
LEMMA StepVenv ==
    TypeOK /\ Chain /\ Place /\ Abandoned /\ Guarded /\ Forward /\ Venv /\ [Next]_vars => Venv'
<1> SUFFICES ASSUME TypeOK, Chain, Place, Abandoned, Guarded, Forward, Venv, [Next]_vars
             PROVE  Venv'
  OBVIOUS
<1>1. Entries /\ Writers /\ VenvStep
  BY StepEntries, StepWriters, StepParts
<1>2. at = "keep_venv" => live["venv"] = "old"
  BY DEF Forward, ForwardFiles, Upgrading, Uninstalled, Unsaved, Unmoved, Unstopped, Early
<1>3. at = "install" =>
        Written("deps_started") /\ ~GivenUp /\ marker /\ kept["venv"] = "old"
  BY DEF Forward, ForwardJournal, ForwardFiles, ForwardSite, Upgrading, Uninstalled, Unsaved,
     Unmoved, Unstopped, Early
<1>4. kept'["venv"] \in {"none", "old"}
  BY <1>1, <1>2 DEF VenvStep, Venv
<1>5. at' = "venv_aside" => kept'["venv"] = "old"
  <2>1. CASE UNCHANGED at
    BY <1>1, <2>1 DEF VenvStep, Venv
  <2>2. CASE UndoVenv /\ at' = "venv_aside"
    <3>1. kept["venv"] # "none" /\ kept' = kept
      BY <2>2 DEF UndoVenv, Go
    <3> QED
      BY <3>1 DEF Venv
  <2> QED
    BY <1>1, <2>1, <2>2 DEF Entries
<1>6. "deps_started" \notin journal' => live'["venv"] = "old"
  <2>1. CASE at = "venv_aside"
    BY <1>1, <2>1 DEF VenvStep, Venv, Writers, Written
  <2> QED
    BY <1>1, <1>3, <2>1 DEF VenvStep, Venv, Writers, Written
<1>7. ASSUME ~Resumed, kept'["venv"] = "none" PROVE live'["venv"] = "old"
  <2>1. at = "cleanup" => Relied(AfterVenv)
    BY DEF Relied, AfterVenv, AfterTree, AfterDir, Back
  <2> QED
    BY <1>1, <1>2, <1>3, <1>7, <2>1 DEF VenvStep, Venv
<1>8. ASSUME ~Resumed, at' \in AfterVenv \/ GivenUp' \/ ~marker' PROVE live'["venv"] = "old"
  <2>1. CASE Relied(AfterVenv)
    <3>1. at \notin {"install", "undo_venv", "venv_aside"}
      BY <1>3, <2>1 DEF Relied, AfterVenv, AfterTree, AfterDir, Back, Guarded, Abandoned
    <3> QED
      BY <1>1, <1>2, <1>8, <2>1, <3>1 DEF VenvStep, Venv
  <2>2. CASE UndoVenv
    <3>1. at = "undo_venv" /\ UNCHANGED <<journal, marker>>
      BY <2>2 DEF UndoVenv, At, recovery
    <3>2. ~GivenUp' /\ marker'
      BY <3>1 DEF Abandoned, Guarded, Back, GivenUp, Written
    <3>3. at' # "venv_aside"
      BY <1>8, <3>2 DEF AfterVenv, AfterTree, AfterDir, Back
    <3> QED
      BY <1>8, <2>2, <3>3 DEF UndoVenv, Go, Venv
  <2>3. CASE PutBack("venv", "venv_aside", "undo_tree")
    <3>1. at = "venv_aside" /\ at' = "undo_tree"
      BY <2>3 DEF PutBack, At, Go
    <3>2. live' = [live EXCEPT !["venv"] = kept["venv"]]
      BY <2>3 DEF PutBack, Put
    <3>3. live'["venv"] = kept["venv"]
      BY <3>2 DEF TypeOK, Parts
    <3> QED
      BY <3>1, <3>3 DEF Venv
  <2>4. CASE Rollback /\ ~Written("quiesced")
    BY <1>1, <2>4 DEF Rollback, At, VenvStep, Venv, Chain
  <2> QED
    BY <1>8, <2>1, <2>2, <2>3, <2>4, StepRelied DEF NewlyRelied
<1>9. Resumed => Resumed'
  BY <1>1 DEF Writers, Resumed, Written
<1> QED
  BY <1>4, <1>5, <1>6, <1>7, <1>8, <1>9 DEF Venv, Relied, Written

\* The tree that was saved is the old one, for as long as it may be asked back.
Tree ==
    /\ ~Written("tree_saved") => live["tree"] = "old"
    /\ Written("tree_saved") /\ marker => kept["tree"] = "old"
    /\ ~Resumed /\ Relied(AfterTree) => live["tree"] = "old"

\* The tree may be put back as often as asked.
LEMMA StepTree ==
    TypeOK /\ Chain /\ Place /\ Abandoned /\ Guarded /\ Forward /\ Tree /\ [Next]_vars => Tree'
<1> SUFFICES ASSUME TypeOK, Chain, Place, Abandoned, Guarded, Forward, Tree, [Next]_vars
             PROVE  Tree'
  OBVIOUS
<1>1. Writers /\ TreeStep
  BY StepWriters, StepParts
<1>2. at = "save_tree" => live["tree"] = "old" /\ ~Resumed
  BY DEF Forward, ForwardJournal, ForwardFiles, Upgrading, Unsaved
<1>3. at = "apply_tree" => Written("tree_saved") /\ ~GivenUp /\ marker
  BY DEF Forward, ForwardJournal, ForwardSite, Upgrading, Unsaved, Unmoved, Unstopped, Early
<1>4. at = "undo_tree" => ~GivenUp /\ marker
  BY DEF Abandoned, Guarded, Back
<1>5. at = "cleanup" => Relied(AfterTree)
  BY DEF Relied, AfterTree, AfterDir, Back
<1>6. marker' => marker \/ at = "mark"
  BY StepFrames DEF Frames, recovery, ChangesRecovery, Mark, Arm, Disarm, Unmark, At
<1>7. "tree_saved" \notin journal' => live'["tree"] = "old"
  BY <1>1, <1>3 DEF TreeStep, Tree, Writers, Written
<1>8. "tree_saved" \in journal' /\ marker' => kept'["tree"] = "old"
  <2>1. at = "mark" => ~Written("tree_saved")
    BY DEF Forward, ForwardJournal, Upgrading, Unsaved, Unmoved, Unstopped, Early
  <2>2. CASE at = "save_tree"
    <3>1. marker
      BY <2>2 DEF Forward, ForwardSite, Upgrading
    <3>2. CASE SaveTree
      BY <3>2, <1>2, <2>2 DEF SaveTree, TypeOK, Parts
    <3>3. CASE ~SaveTree
      <4>1. "tree_saved" \notin journal'
        <5>1. ~Written("tree_saved")
          BY <2>2 DEF Forward, ForwardJournal, Upgrading, Unsaved
        <5>2. CASE UNCHANGED journal
          BY <5>1, <5>2 DEF Written
        <5>3. CASE ChangesJournal
          BY <2>2, <3>3, <5>3 DEF ChangesJournal, Announce, Announced, Had, Migrated, Failed,
             Finish, At
        <5> QED
          BY <5>2, <5>3, StepFrames DEF Frames
      <4> QED
        BY <4>1
    <3> QED
      BY <3>2, <3>3
  <2>3. at = "cleanup" => ~marker'
    BY <1>6 DEF Guarded
  <2>4. CASE Written("tree_saved") /\ marker' /\ at # "save_tree"
    <3>1. marker /\ kept["tree"] = "old" /\ at # "cleanup"
      BY <1>6, <2>1, <2>3, <2>4 DEF Tree
    <3> QED
      BY <1>1, <2>4, <3>1 DEF TreeStep
  <2>5. "tree_saved" \in journal' => Written("tree_saved") \/ at = "save_tree"
    BY <1>1 DEF Writers
  <2> QED
    BY <2>2, <2>4, <2>5 DEF Written
<1>9. ASSUME ~Resumed, at' \in AfterTree \/ GivenUp' \/ ~marker' PROVE live'["tree"] = "old"
  <2>1. CASE Relied(AfterTree)
    <3>1. at \notin {"apply_tree", "undo_tree"}
      BY <1>3, <1>4, <2>1 DEF Relied, AfterTree, AfterDir, Back
    <3> QED
      BY <1>1, <1>9, <2>1, <3>1 DEF TreeStep, Tree
  <2>2. CASE UndoTree
    <3>1. marker
      BY <1>4, <2>2 DEF UndoTree, At
    <3>2. live' = IF Written("tree_saved") THEN [live EXCEPT !["tree"] = kept["tree"]] ELSE live
      BY <2>2 DEF UndoTree, Put
    <3>3. live'["tree"] = IF Written("tree_saved") THEN kept["tree"] ELSE live["tree"]
      BY <3>2 DEF TypeOK, Parts
    <3> QED
      BY <3>1, <3>3 DEF Tree
  <2>3. CASE Rollback /\ ~Written("quiesced")
    BY <1>1, <2>3 DEF Rollback, At, TreeStep, Tree, Chain
  <2> QED
    BY <1>9, <2>1, <2>2, <2>3, StepRelied DEF NewlyRelied
<1>10. Resumed => Resumed'
  BY <1>1 DEF Writers, Resumed, Written
<1> QED
  BY <1>7, <1>8, <1>9, <1>10 DEF Tree, Relied, Written

\* As for the directory, which the release may also bring where there was none.
\* A stop between the two lines written about it leaves it open.
Dir ==
    ~Cut({"had"}) =>
      /\ ~scene.had =>
           /\ kept["dir"] = "none" /\ ~Written("had")
           /\ ~Written("moving") => live["dir"] = "none"
      /\ scene.had =>
           /\ kept["dir"] \in {"none", "old"}
           /\ ~Written("had") => live["dir"] = "old" /\ kept["dir"] = "none"
           /\ Written("moving") /\ at # "had" => Written("had")
           /\ kept["dir"] = "none" /\ ~Resumed => live["dir"] = "old"
      /\ at = "dir_aside" => kept["dir"] = "old"
      /\ ~Resumed /\ Relied(AfterDir) => live["dir"] = Old["dir"]

\* A step at which a process was cut short is noted for good.
LEMMA StepCut ==
    ASSUME Seats, [Next]_vars
    PROVE  /\ cut \subseteq cut'
           /\ at = "had" => UNCHANGED at \/ Had \/ "had" \in cut'
<1>1. cut \subseteq cut'
  <2>1. CASE ChangesMishaps
    BY <2>1 DEF ChangesMishaps, Fails, Interrupted, Halt, RestoreFails, Dies, Reboots, Mishap,
       mishaps
  <2> QED
    BY <2>1, StepFrames DEF Frames, mishaps
<1>2. ASSUME at = "had", at' # at, ~Had PROVE "had" \in cut'
  <2> USE <1>2 DEF At, process
  <2>1. CASE StageStep
    <3>1. CASE \E step \in DOMAIN Announced : Announce(step)
      BY <3>1 DEF Announce, Announced
    <3> QED
      BY <2>1, <3>1 DEF StageStep, Mark, Arm, KeepVenv, Stop, MoveOut, MoveIn, SaveTree,
         Overwrite, Snapshot, Migrate, Migrated, Verify, Flag, Serve, Work, Open, StartTimers
  <2>2. CASE UndoStep
    BY <2>2 DEF UndoStep, Rollback, Halt, UndoVenv, UndoTree, UndoDir, PutBack, SignalLeaves,
       UndoDatabase, Reload, RestoreFails, Failed, Disable, Enable, Unflag, Restart, StartTimers
  <2>3. CASE EndStep
    BY <2>3 DEF EndStep, Disarm, Unmark, Finish, Cleanup
  <2>4. CASE Fails \/ Interrupted \/ Dies \/ Reboots
    BY <2>4 DEF Fails, Fallible, Interrupted, Dies, Reboots, Mishap
  <2>5. CASE Recover \/ Retry
    BY <2>5 DEF Recover, Retry, Seats, Upgrading
  <2>6. CASE BootGoesOn \/ (\E u \in Units : Starts(u)) \/ UserWrites \/ UNCHANGED vars
    BY <2>6 DEF BootGoesOn, Starts, UserWrites, vars
  <2> QED
    BY <2>1, <2>2, <2>3, <2>4, <2>5, <2>6 DEF Next, ProcessStep
<1> QED
  BY <1>1, <1>2

\* The directory is put back, or taken away where there was none.
LEMMA StepDir ==
    /\ TypeOK /\ Seats /\ Chain /\ Place /\ Abandoned /\ Guarded /\ Forward /\ Dir
    /\ [Next]_vars
    => Dir'
<1> SUFFICES ASSUME TypeOK, Seats, Chain, Place, Abandoned, Guarded, Forward, Dir, [Next]_vars,
                    ~Cut({"had"})'
             PROVE  Dir'
  BY DEF Dir
<1>1. Entries /\ Writers /\ DirStep
  BY StepEntries, StepWriters, StepParts
<1>2. ~Cut({"had"}) /\ (at = "had" => UNCHANGED at \/ Had)
  BY StepCut DEF Cut
<1>3. /\ Resumed => Resumed'
      /\ UNCHANGED scene /\ Old' = Old
      /\ Old["dir"] = IF scene.had THEN "old" ELSE "none"
  BY <1>1, StepFrames DEF Frames, Writers, Resumed, Written, Old, Parts
<1>4. at = "move_out" =>
        /\ scene.had /\ live["dir"] = "old" /\ kept["dir"] = "none"
        /\ Written("had") /\ marker /\ ~GivenUp
  BY <1>3 DEF Forward, ForwardFiles, ForwardJournal, ForwardSite, Upgrading, Unmoved,
     Unstopped, Early
<1>5. at = "move_in" =>
        /\ kept["dir"] = (IF scene.had THEN "old" ELSE "none")
        /\ Written("moving") /\ (Written("had") <=> scene.had) /\ marker /\ ~GivenUp
  BY <1>3 DEF Forward, ForwardFiles, ForwardJournal, ForwardSite, Upgrading, Unmoved,
     Unstopped, Early
<1>6. at = "had" => live["dir"] = Old["dir"]
  BY DEF Forward, ForwardFiles, Upgrading, Unmoved
<1>7. at \in {"undo_dir", "dir_aside"} => marker /\ ~GivenUp
  BY DEF Guarded, Abandoned, Back
<1>8. at = "cleanup" => Relied(AfterDir)
  BY DEF Relied, AfterDir, Back
<1>9. ASSUME ~scene.had
      PROVE  /\ kept'["dir"] = "none" /\ ~("had" \in journal')
             /\ "moving" \notin journal' => live'["dir"] = "none"
  <2>1. kept["dir"] = "none" /\ ~Written("had") /\ (~Written("moving") => live["dir"] = "none")
    BY <1>2, <1>9 DEF Dir
  <2>2. kept'["dir"] = "none"
    BY <1>1, <1>4, <1>9, <2>1 DEF DirStep
  <2>3. "had" \notin journal'
    BY <1>1, <1>3, <1>6, <1>9, <2>1 DEF Writers
  <2>4. "moving" \notin journal' => live'["dir"] = "none"
    BY <1>1, <1>4, <1>5, <1>9, <2>1 DEF DirStep, Writers, Written
  <2> QED
    BY <2>2, <2>3, <2>4
<1>10. ASSUME scene.had
       PROVE  /\ kept'["dir"] \in {"none", "old"}
              /\ "had" \notin journal' => live'["dir"] = "old" /\ kept'["dir"] = "none"
              /\ "moving" \in journal' /\ at' # "had" => "had" \in journal'
              /\ kept'["dir"] = "none" /\ ~Resumed' => live'["dir"] = "old"
  <2>1. /\ kept["dir"] \in {"none", "old"}
        /\ ~Written("had") => live["dir"] = "old" /\ kept["dir"] = "none"
        /\ Written("moving") /\ at # "had" => Written("had")
        /\ kept["dir"] = "none" /\ ~Resumed => live["dir"] = "old"
        /\ at = "dir_aside" => kept["dir"] = "old"
        /\ ~Resumed /\ at = "cleanup" => live["dir"] = "old"
    BY <1>2, <1>3, <1>8, <1>10 DEF Dir
  <2>2. kept'["dir"] \in {"none", "old"}
    BY <1>1, <1>4, <2>1 DEF DirStep
  <2>3. "had" \notin journal' => live'["dir"] = "old" /\ kept'["dir"] = "none"
    BY <1>1, <1>4, <1>5, <1>10, <2>1 DEF DirStep, Writers, Written
  <2>4. ASSUME "moving" \in journal', at' # "had" PROVE "had" \in journal'
    <3>1. CASE at = "had"
      <4>1. Had /\ live["dir"] # "none"
        BY <1>2, <1>3, <1>6, <1>10, <2>4, <3>1
      <4> QED
        BY <4>1 DEF Had
    <3>2. CASE at = "moving"
      <4>1. ~Written("moving")
        BY <3>2 DEF Forward, ForwardJournal, Upgrading, Unstopped, Early
      <4>2. ChangesJournal
        BY <2>4, <4>1, StepFrames DEF Frames, Written
      <4>3. at' = "had"
        BY <3>2, <4>2 DEF ChangesJournal, Announce, Announced, Had, SaveTree, Migrated,
           Failed, Finish, At, Go
      <4> QED
        BY <2>4, <4>3
    <3>3. CASE at \notin {"had", "moving"}
      BY <1>1, <2>1, <2>4, <3>3 DEF Writers, Written
    <3> QED
      BY <3>1, <3>2, <3>3
  <2>5. kept'["dir"] = "none" /\ ~Resumed' => live'["dir"] = "old"
    BY <1>1, <1>3, <1>4, <1>5, <1>10, <2>1 DEF DirStep
  <2> QED
    BY <2>2, <2>3, <2>4, <2>5
<1>11. at' = "dir_aside" => kept'["dir"] = "old"
  <2>1. kept["dir"] \in {"none", "old"} /\ (at = "dir_aside" => kept["dir"] = "old")
    BY <1>2 DEF Dir
  <2>2. CASE UNCHANGED at
    BY <1>1, <2>1, <2>2 DEF DirStep
  <2>3. CASE UndoDir /\ at' = "dir_aside"
    <3>1. kept["dir"] # "none" /\ kept' = kept
      BY <2>3 DEF UndoDir, Go
    <3> QED
      BY <2>1, <3>1
  <2> QED
    BY <1>1, <2>2, <2>3 DEF Entries
<1>12. ASSUME ~Resumed, at' \in AfterDir \/ GivenUp' \/ ~marker' PROVE live'["dir"] = Old["dir"]
  <2>1. CASE Relied(AfterDir)
    <3>1. at \notin {"move_out", "move_in", "undo_dir", "dir_aside"}
      BY <1>4, <1>5, <1>7, <2>1 DEF Relied, AfterDir, Back
    <3>2. live["dir"] = Old["dir"]
      BY <1>2, <1>12, <2>1 DEF Dir
    <3> QED
      BY <1>1, <3>1, <3>2 DEF DirStep
  <2>2. CASE UndoDir
    <3>1. at = "undo_dir" /\ UNCHANGED <<journal, marker>>
      BY <2>2 DEF UndoDir, At, recovery
    <3>2. at' # "dir_aside"
      BY <1>7, <1>12, <3>1 DEF AfterDir, Back, GivenUp, Written
    <3>3. /\ ~(Written("moving") /\ kept["dir"] # "none")
          /\ live' = IF Written("moving") /\ ~Written("had")
                     THEN [live EXCEPT !["dir"] = "none"] ELSE live
      BY <2>2, <3>2 DEF UndoDir, Go, Put, Brought
    <3>4. live'["dir"] = IF Written("moving") /\ ~Written("had") THEN "none" ELSE live["dir"]
      BY <3>3 DEF TypeOK, Parts
    <3> QED
      BY <1>2, <1>3, <1>12, <3>1, <3>3, <3>4 DEF Dir, Chain
  <2>3. CASE PutBack("dir", "dir_aside", "undo_database")
    <3>1. at = "dir_aside" /\ live' = [live EXCEPT !["dir"] = kept["dir"]]
      BY <2>3 DEF PutBack, At, Put
    <3>2. live'["dir"] = kept["dir"]
      BY <3>1 DEF TypeOK, Parts
    <3> QED
      BY <1>2, <1>3, <3>1, <3>2 DEF Dir
  <2>4. CASE Rollback /\ ~Written("quiesced")
    <3>1. live'["dir"] = live["dir"] /\ ~Written("moving") /\ ~Written("had")
      BY <1>1, <2>4 DEF Rollback, At, DirStep, Chain
    <3> QED
      BY <1>2, <1>3, <3>1 DEF Dir
  <2> QED
    BY <1>12, <2>1, <2>2, <2>3, <2>4, StepRelied DEF NewlyRelied
<1> QED
  BY <1>3, <1>9, <1>10, <1>11, <1>12 DEF Dir, Relied, Written

-----------------------------------------------------------------------------
(* The database, the end, and the outcome.                                 *)

\* Where it was not touched or was put back, the database is the old release's.
Base ==
    /\ ~Touched \/ at = "unchanged" => schema = "old"
    /\ ~Resumed /\ (at \in Back \/ ~marker) => schema = "old"

\* The database is migrated after it is touched, and trusted after it is back.
LEMMA StepBase ==
    Chain /\ Place /\ Guarded /\ Forward /\ Base /\ [Next]_vars => Base'
<1> SUFFICES ASSUME Chain, Place, Guarded, Forward, Base, [Next]_vars PROVE Base'
  OBVIOUS
<1>1. Entries /\ Writers /\ UNCHANGED Pending
  BY StepEntries, StepWriters, StepFrames DEF Frames, Pending
<1>2. at = "migrate" =>
        ~Resumed /\ marker /\ Written("migrating") /\ ~Written("migrate_unchanged")
  BY DEF Forward, ForwardJournal, ForwardSite, Upgrading, Unmigrated, Uninstalled, Unsaved,
     Unmoved, Unstopped, Early, Verifying
<1>3. at = "migrated" /\ ~Pending => schema = "old"
  BY DEF Forward, ForwardBase, Upgrading
<1>4. ~marker' => ~marker \/ at = "unmark"
  BY StepFrames DEF Frames, recovery, ChangesRecovery, Mark, Arm, Disarm, Unmark, At
<1>5. Resumed => Resumed'
  BY <1>1 DEF Writers, Resumed, Written
<1>6. CASE UNCHANGED schema
  <2>1. ~Touched' => schema' = "old"
    BY <1>1, <1>3, <1>6 DEF Writers, Touched, Written, Base
  <2>2. at' = "unchanged" => schema' = "old"
    <3>1. Migrate /\ at' = "unchanged" => schema = "old"
      BY DEF Migrate, Go
    <3> QED
      BY <1>1, <1>6, <3>1 DEF Entries, Base
  <2>3. ASSUME ~Resumed, ~marker' PROVE schema' = "old"
    BY <1>4, <1>6, <2>3 DEF Base, Back
  <2>4. ASSUME ~Resumed, at' \in Back PROVE schema' = "old"
    <3>1. CASE at \in Back
      BY <1>6, <2>4, <3>1 DEF Base
    <3>2. CASE UndoDatabase
      BY <1>6, <2>4, <3>2 DEF UndoDatabase, Base, Go, Back
    <3>3. CASE Reload
      BY <3>3 DEF Reload
    <3>4. CASE Rollback
      BY <1>6, <2>4, <3>4 DEF Rollback, Base, Go, Back, Resumed, Chain, Touched
    <3>5. CASE StartTimers("timers")
      BY <2>4, <3>5 DEF StartTimers, At, Place
    <3> QED
      BY <1>1, <2>4, <3>1, <3>2, <3>3, <3>4, <3>5 DEF Entries
  <2> QED
    BY <1>5, <2>1, <2>2, <2>3, <2>4 DEF Base
<1>7. CASE Migrate
  <2>1. CASE Pending /\ at' \in {"migrate", "migrated"} /\ UNCHANGED <<journal, marker>>
    <3>1. Touched' /\ marker'
      BY <1>1, <1>2, <1>7, <2>1 DEF Migrate, At, Touched, Written
    <3> QED
      BY <2>1, <3>1 DEF Base, Back
  <2> QED
    BY <1>6, <1>7, <2>1 DEF Migrate, Go, recovery
<1>8. CASE UndoDatabase /\ schema' # schema
  <2>1. at' = "reload" /\ Touched /\ UNCHANGED <<journal, marker>> /\ at = "undo_database"
    BY <1>8 DEF UndoDatabase, database, Go, At, recovery
  <2>2. Touched' /\ marker'
    BY <1>1, <2>1 DEF Touched, Written, Guarded
  <2> QED
    BY <2>1, <2>2 DEF Base, Back
<1>9. CASE Reload
  BY <1>9 DEF Reload, Base
<1> QED
  BY <1>6, <1>7, <1>8, <1>9, StepFrames DEF Frames, ChangesDatabase, database, Snapshot,
     Cleanup, UserWrites

\* From "resume" on the new release is there, files and database.
Done ==
    Resumed =>
      /\ live["dir"] = "new" /\ live["tree"] = "new" /\ live["venv"] = "new"
      /\ schema = IF Pending THEN "new" ELSE "old"

\* Nothing of the new release changes any more.
LEMMA StepDone == TypeOK /\ Place /\ Forward /\ Done /\ [Next]_vars => Done'
<1> SUFFICES ASSUME TypeOK, Place, Forward, Done, [Next]_vars, Resumed' PROVE Done'
  BY DEF Done
<1>1. Writers /\ VenvStep /\ TreeStep /\ DirStep /\ UNCHANGED Pending
  BY StepWriters, StepParts, StepFrames DEF Frames, Pending
<1>2. at = "resume" =>
        /\ live["dir"] = "new" /\ live["tree"] = "new" /\ live["venv"] = "new"
        /\ schema = IF Pending THEN "new" ELSE "old"
  BY DEF Forward, ForwardFiles, ForwardBase, Upgrading, Unmigrated, Uninstalled, Unsaved,
     Unmoved, Unstopped, Early, Verifying
<1>3. Resumed \/ at = "resume"
  BY <1>1 DEF Writers, Resumed, Written
<1>4. at \in (Back \ {"enable"}) \union {"open", "timers", "rollback", "none", "resume"}
  BY <1>3 DEF Place
<1>5. /\ live'["venv"] = live["venv"] /\ live'["tree"] = live["tree"]
      /\ live'["dir"] = live["dir"]
  BY <1>1, <1>4 DEF VenvStep, TreeStep, DirStep, Back
<1>6. UNCHANGED schema
  BY <1>4, StepFrames DEF Frames, ChangesDatabase, database, Snapshot, Migrate, UndoDatabase,
     Reload, Cleanup, UserWrites, At, Back
<1> QED
  BY <1>1, <1>2, <1>3, <1>5, <1>6 DEF Done

\* What an outcome that was reported says of the journal and the marker.
Reports ==
    /\ report = "new" => Resumed
    /\ report \in {"unchanged", "restored"} => ~marker /\ ~Resumed /\ at \notin Upgrading
    /\ report = "restore_failed" => Pending

\* An outcome is reported where it holds, and goes on to hold.
LEMMA StepReports ==
    Place /\ Abandoned /\ Guarded /\ Forward /\ Reports /\ [Next]_vars => Reports'
<1> SUFFICES ASSUME Place, Abandoned, Guarded, Forward, Reports, [Next]_vars PROVE Reports'
  OBVIOUS
<1>1. Entries /\ Writers /\ UNCHANGED Pending
  BY StepEntries, StepWriters, StepFrames DEF Frames, Pending
<1>2. marker' => marker \/ at = "mark"
  BY StepFrames DEF Frames, recovery, ChangesRecovery, Mark, Arm, Disarm, Unmark, At
<1>3. {"mark", "resume"} \subseteq Upgrading /\ "finish" \notin Upgrading
  BY DEF Upgrading
<1>4. (Resumed => Resumed') /\ (Resumed' => Resumed \/ at = "resume")
  BY <1>1 DEF Writers, Resumed, Written
<1>5. CASE UNCHANGED report
  <2>1. report' \in {"unchanged", "restored"} => ~marker' /\ ~Resumed' /\ at' \notin Upgrading
    BY <1>1, <1>2, <1>3, <1>4, <1>5 DEF Entries, Reports
  <2> QED
    BY <1>1, <1>4, <1>5, <2>1 DEF Reports
<1>6. CASE Rollback \/ SignalLeaves
  <2>1. UNCHANGED report \/ report' = "running"
    BY <1>6 DEF Rollback, SignalLeaves
  <2> QED
    BY <1>5, <2>1 DEF Reports
<1>7. CASE Disable
  <2>1. UNCHANGED report \/ (at = "disable" /\ report' = "restore_failed")
    BY <1>7 DEF Disable, At
  <2> QED
    BY <1>1, <1>5, <2>1 DEF Reports, Abandoned, Touched
<1>8. CASE Finish
  <2>1. report' = Outcome /\ at = "finish" /\ at' = "cleanup" /\ UNCHANGED marker
    BY <1>8 DEF Finish, At, Go, recovery
  <2>2. Resumed' <=> Resumed
    BY <1>4, <2>1
  <2> QED
    BY <2>1, <2>2 DEF Reports, Outcome, Guarded, Resumed, Upgrading
<1> QED
  BY <1>5, <1>6, <1>7, <1>8, StepFrames DEF Frames, ChangesReport

-----------------------------------------------------------------------------
(* Units that run, and units that wait for the recovery.                   *)

\* Nothing runs, and nothing waits to start.
Halted == up = {} /\ queued = {} /\ ~ticking

\* The queued units have a recovery before them, or one that has not yet stopped them.
BeingRecovered == (booting /\ Unfinished) \/ (who = "unit" /\ at \in {"rollback", "halt"})

\* Nothing of the old release is missing, or the new one stays.
OneRelease == Before \/ (Resumed /\ After)

\* Where all is back, or nothing was touched, or the new release stays.
LEMMA AtRest ==
    ASSUME TypeOK, Chain, Guarded, Venv, Tree, Dir, Base, Done, ~Cut({"had"}),
           Resumed \/ at \in Back \/ ~marker \/ ~Written("quiesced")
    PROVE  OneRelease
<1>1. CASE Resumed
  <2>1. live = [p \in Parts |-> "new"]
    <3>1. live = [p \in Parts |-> live[p]]
      BY DEF TypeOK
    <3> QED
      BY <1>1, <3>1 DEF Done, Parts
  <2> QED
    BY <1>1, <2>1 DEF Done, OneRelease, After, New
<1>2. CASE ~Resumed
  <2>1. live["venv"] = "old"
    BY <1>2 DEF Venv, Relied, AfterVenv, AfterTree, AfterDir, Chain
  <2>2. live["tree"] = "old"
    BY <1>2 DEF Tree, Relied, AfterTree, AfterDir, Chain
  <2>3. live["dir"] = Old["dir"]
    <3>1. CASE ~Written("quiesced")
      BY <3>1 DEF Dir, Chain, Old, Parts, TypeOK
    <3>2. CASE at \in Back \/ ~marker
      BY <1>2, <3>2 DEF Dir, Relied, AfterDir
    <3> QED
      BY <1>2, <3>1, <3>2
  <2>4. schema = "old"
    BY <1>2 DEF Base, Chain, Touched
  <2>5. live = Old
    <3>1. live = [p \in Parts |-> live[p]]
      BY DEF TypeOK
    <3>2. \A p \in Parts : live[p] = Old[p]
      BY <2>1, <2>2, <2>3 DEF Parts, Old
    <3> QED
      BY <3>1, <3>2 DEF Old
  <2> QED
    BY <2>4, <2>5 DEF OneRelease, Before
<1> QED
  BY <1>1, <1>2

\* The steps that change what units would run on.
LEMMA StepRelease ==
    ASSUME [Next]_vars, at \notin Undoing,
           at \notin {"move_out", "move_in", "apply_tree", "install", "migrate"}
    PROVE  UNCHANGED <<scene, live, schema>>
<1> USE DEF At, Undoing, AfterVenv, AfterTree, AfterDir, Back
<1>1. UNCHANGED live
  BY StepFrames DEF Frames, ChangesFiles, files, KeepVenv, MoveOut, MoveIn, SaveTree,
     Overwrite, UndoVenv, UndoTree, UndoDir, PutBack, Cleanup
<1>2. UNCHANGED schema
  BY StepFrames DEF Frames, ChangesDatabase, database, Snapshot, Migrate, UndoDatabase,
     Reload, Cleanup, UserWrites
<1> QED
  BY <1>1, <1>2, StepFrames DEF Frames

\* How a recovery that queued units wait for goes on.
LEMMA StepBeingRecovered ==
    ASSUME WhoOK, Seats, BeingRecovered, queued # {}, [Next]_vars, "booting" \notin cut'
    PROVE  /\ up' = up \/ up' = {}
           /\ \/ BeingRecovered'
              \/ Halt /\ up' = {} /\ queued' = {}
              \/ Rollback /\ (Resumed \/ ~Written("quiesced")) /\ at' \in Back
<1> USE DEF At, process, recovery, site
<1>1. \/ booting /\ Unfinished /\ who = "nobody"
      \/ ~booting /\ who = "unit" /\ at \in {"rollback", "halt"}
  BY DEF BeingRecovered, Seats, WhoOK
<1>2. CASE StageStep \/ EndStep
  <2>1. CASE \E step \in DOMAIN Announced : Announce(step)
    BY <1>1, <2>1 DEF Announce, Announced
  <2> QED
    BY <1>1, <1>2, <2>1 DEF StageStep, Mark, Arm, KeepVenv, Stop, Had, MoveOut, MoveIn,
       SaveTree, Overwrite, Snapshot, Migrate, Migrated, Verify, Flag, Serve, Work, Open,
       StartTimers, EndStep, Disarm, Unmark, Finish, Cleanup
<1>3. CASE UndoStep
  <2>1. CASE Rollback
    BY <1>1, <2>1 DEF Rollback, Go, BeingRecovered, Back, Resumed
  <2>2. CASE Halt
    BY <1>1, <2>2 DEF Halt, StopAll, BootQueue
  <2> QED
    BY <1>1, <1>3, <2>1, <2>2 DEF UndoStep, UndoVenv, UndoTree, UndoDir, PutBack,
       SignalLeaves, UndoDatabase, Reload, RestoreFails, Failed, Disable, Enable, Unflag,
       Restart, StartTimers
<1>4. CASE Fails \/ Interrupted \/ Dies
  BY <1>1, <1>4 DEF Fails, Interrupted, Dies, Mishap, BootQueue
<1>5. CASE Reboots
  BY <1>1, <1>5 DEF Reboots, Mishap, BootQueue, BeingRecovered, Unfinished, Written
<1>6. CASE Recover \/ Retry \/ BootGoesOn
  BY <1>1, <1>6 DEF Recover, Retry, BootGoesOn, BeingRecovered
<1>7. CASE \E u \in Units : Starts(u)
  BY <1>1, <1>7 DEF Starts
<1>8. CASE UserWrites \/ UNCHANGED vars
  BY <1>1, <1>8 DEF UserWrites, vars, host, BeingRecovered, Unfinished, Written
<1> QED
  BY <1>2, <1>3, <1>4, <1>5, <1>6, <1>7, <1>8 DEF Next, ProcessStep

\* Past the restore for good: users may be back.
Late ==
    {"restart_web", "restart_work", "restart_timers", "disarm", "unmark", "finish", "cleanup"}

\* How the steps that matter below go on, where no process is cut short.
GoesOn ==
    /\ at \in Back => at' \in Back \/ at = "cleanup" \/ at \in cut'
    /\ at \in Late => at' \in Late \/ at = "cleanup" \/ at \in cut'
    /\ at = "unmark" => at' \in {"unmark", "finish"} \/ at \in cut'
    /\ at = "disable" => at' = "disable" \/ enabled' = {} \/ at \in cut'
    /\ enabled = {} => enabled' = {} \/ at = "enable"
    /\ at # "disable" => UNCHANGED enabled \/ enabled' = Installed
    /\ marker' => marker \/ at = "mark"
    /\ armed' = "removed" => armed = "removed" \/ (at = "disarm" /\ at' = "unmark")

\* The steps go on in no other way.
LEMMA StepGoesOn == WhoOK /\ [Next]_vars => GoesOn
<1> SUFFICES ASSUME WhoOK, [Next]_vars PROVE GoesOn
  OBVIOUS
<1>1. marker' => marker \/ at = "mark"
  BY StepFrames DEF Frames, recovery, ChangesRecovery, Mark, Arm, Disarm, Unmark, At
<1>2. armed' = "removed" => armed = "removed" \/ (at = "disarm" /\ at' = "unmark")
  BY StepFrames DEF Frames, recovery, ChangesRecovery, Mark, Arm, Disarm, Unmark, At, Go
<1>3. enabled = {} => enabled' = {} \/ at = "enable"
  BY StepFrames DEF Frames, host, ChangesHost, Disable, Enable, Reboots, Recover, BootGoesOn,
     At
<1>a. at # "disable" => UNCHANGED enabled \/ enabled' = Installed
  BY StepFrames DEF Frames, host, ChangesHost, Disable, Enable, Reboots, Recover, BootGoesOn,
     At
<1>4. at = "disable" => at' = "disable" \/ enabled' = {} \/ at \in cut'
  <2> USE DEF At, process, WhoOK
  <2>1. CASE StageStep \/ EndStep
    <3>1. CASE \E step \in DOMAIN Announced : Announce(step)
      BY <3>1 DEF Announce, Announced
    <3> QED
      BY <2>1, <3>1 DEF StageStep, Mark, Arm, KeepVenv, Stop, Had, MoveOut, MoveIn, SaveTree,
         Overwrite, Snapshot, Migrate, Migrated, Verify, Flag, Serve, Work, Open,
         StartTimers, EndStep, Disarm, Unmark, Finish, Cleanup
  <2>2. CASE UndoStep
    BY <2>2 DEF UndoStep, Rollback, Halt, UndoVenv, UndoTree, UndoDir, PutBack, SignalLeaves,
       UndoDatabase, Reload, RestoreFails, Failed, Disable, Enable, Unflag, Restart, StartTimers
  <2>3. CASE Fails \/ Interrupted \/ Dies \/ Reboots \/ Recover \/ Retry
    BY <2>3 DEF Fails, Fallible, Interrupted, Upgrading, Dies, Reboots, Mishap, Recover, Retry
  <2>4. CASE BootGoesOn \/ (\E u \in Units : Starts(u)) \/ UserWrites \/ UNCHANGED vars
    BY <2>4 DEF BootGoesOn, Starts, UserWrites, vars
  <2> QED
    BY <2>1, <2>2, <2>3, <2>4 DEF Next, ProcessStep
<1>5. ASSUME at \in Back
      PROVE  /\ at' \in Back \/ at = "cleanup" \/ at \in cut'
             /\ at \in Late => at' \in Late \/ at = "cleanup" \/ at \in cut'
             /\ at = "unmark" => at' \in {"unmark", "finish"} \/ at \in cut'
  <2> USE <1>5 DEF At, Go, process, WhoOK, Back, Late
  <2>1. CASE StageStep \/ EndStep
    <3>1. CASE \E step \in DOMAIN Announced : Announce(step)
      BY <3>1 DEF Announce, Announced
    <3> QED
      BY <2>1, <3>1 DEF StageStep, Mark, Arm, KeepVenv, Stop, Had, MoveOut, MoveIn, SaveTree,
         Overwrite, Snapshot, Migrate, Migrated, Verify, Flag, Serve, Work, Open,
         StartTimers, EndStep, Disarm, Unmark, Finish, Cleanup
  <2>2. CASE UndoStep
    BY <2>2 DEF UndoStep, Rollback, Halt, UndoVenv, UndoTree, UndoDir, PutBack, SignalLeaves,
       UndoDatabase, Reload, RestoreFails, Failed, Disable, Enable, Unflag, Restart, StartTimers
  <2>3. CASE Fails \/ Interrupted \/ Dies \/ Reboots \/ Recover \/ Retry
    BY <2>3 DEF Fails, Fallible, Interrupted, Upgrading, Dies, Reboots, Mishap, Recover, Retry
  <2>4. CASE BootGoesOn \/ (\E u \in Units : Starts(u)) \/ UserWrites \/ UNCHANGED vars
    BY <2>4 DEF BootGoesOn, Starts, UserWrites, vars
  <2> QED
    BY <2>1, <2>2, <2>3, <2>4 DEF Next, ProcessStep
<1>6. at \in Late => at \in Back
  BY DEF Late, Back
<1>7. "unmark" \in Back
  BY DEF Back
<1> QED
  BY <1>1, <1>2, <1>3, <1>a, <1>4, <1>5, <1>6, <1>7 DEF GoesOn

\* How units come to run, or to be queued.
UnitsStep ==
    \/ up' \subseteq up /\ queued' \subseteq queued
    \/ at \in {"serve", "work"} /\ queued' = queued
    \/ at \in {"restart_web", "restart_work"}
    \/ Reboots
    \/ \E u \in Units : Starts(u)

\* Units come to run in no other way.
LEMMA StepUnits == Seats /\ [Next]_vars => UnitsStep
<1>1. ASSUME [Next]_vars, UNCHANGED site PROVE UnitsStep
  BY <1>1 DEF site, UnitsStep
<1>2. ASSUME Seats, ChangesSite PROVE UnitsStep
  BY <1>2 DEF Seats, Upgrading, ChangesSite, Stop, StopAll, Flag, Serve, Work, Begin, Open,
     Halt, Unflag, Restart, StartTimers, At, UnitsStep
<1> QED
  BY <1>1, <1>2, StepFrames DEF Frames

\* How the timers come to run, or to run with nothing queued.
TimersStep ==
    /\ ticking' => ticking \/ at \in {"timers", "restart_timers"} \/ Reboots
    /\ ticking' /\ queued' = {} => queued = {} \/ Reboots \/ \E u \in Units : Starts(u)

\* They do in no other way.
LEMMA StepTimers == [Next]_vars => TimersStep
<1>1. ASSUME UNCHANGED site PROVE TimersStep
  BY <1>1 DEF site, TimersStep
<1>2. ASSUME Stop \/ Halt PROVE TimersStep
  BY <1>2 DEF Stop, Halt, StopAll, TimersStep
<1>3. ASSUME ChangesSite, ~Stop, ~Halt PROVE TimersStep
  <2>1. CASE \/ Serve \/ Work \/ Restart("web", "restart_web", "restart_work")
             \/ Restart("work", "restart_work", "restart_timers")
    <3>1. UNCHANGED ticking /\ queued \subseteq queued'
      BY <2>1 DEF Serve, Work, Restart, Begin
    <3> QED
      BY <3>1 DEF TimersStep
  <2>2. CASE Flag \/ Open \/ Unflag \/ StartTimers("timers") \/ StartTimers("restart_timers")
    BY <2>2 DEF Flag, Open, Unflag, StartTimers, At, TimersStep
  <2>3. CASE Reboots
    BY <2>3 DEF TimersStep
  <2>4. CASE \E u \in Units : Starts(u)
    BY <2>4 DEF Starts, TimersStep
  <2> QED
    BY <1>3, <2>1, <2>2, <2>3, <2>4 DEF ChangesSite
<1> QED
  BY <1>1, <1>2, <1>3, StepFrames DEF Frames

-----------------------------------------------------------------------------
(* One release at a time.                                                  *)

\* What the windows below do not enter into.
Consistent ==
    /\ TypeOK /\ Seats /\ Chain /\ Place /\ Abandoned /\ Guarded /\ Forward
    /\ Venv /\ Tree /\ Dir /\ Base /\ Done /\ Reports

\* A step keeps all of it.
LEMMA StepConsistent == Consistent /\ [Next]_vars => Consistent'
<1> SUFFICES ASSUME Consistent, [Next]_vars PROVE Consistent'
  OBVIOUS
<1> USE DEF Consistent
<1>1. TypeOK' /\ Seats' /\ Chain' /\ Place'
  BY StepTypes, StepSeats, StepChain, StepPlace DEF TypeOK, WhoOK
<1>2. Abandoned' /\ Guarded' /\ Forward'
  BY StepAbandoned, StepGuarded, StepForward
<1>3. Venv' /\ Tree' /\ Dir'
  BY StepVenv, StepTree, StepDir
<1>4. Base' /\ Done' /\ Reports'
  BY StepBase, StepDone, StepReports
<1> QED
  BY <1>1, <1>2, <1>3, <1>4

\* No process was cut short in a window ServesOneRelease leaves open.
Careful == ~Cut({"had", "halt", "disable", "booting", "unmark"}) /\ ~SecondRetry

Serving ==
    Careful =>
      /\ up # {} \/ (ticking /\ queued = {}) => Before \/ After
      /\ at = "disable" \/ enabled \in {{}, Installed}
      /\ at \in Undoing => Halted
      /\ queued # {} => OneRelease \/ BeingRecovered
      /\ armed = "removed" => OneRelease /\ (at \in {"unmark", "finish", "cleanup"} \/ ~marker)
      /\ GivenUp => at \in Back \/ ~marker \/ (Halted /\ (at = "disable" \/ enabled = {}))

\* A step keeps the units on one release.
LEMMA StepServing == Consistent /\ Serving /\ [Next]_vars => Serving'
<1> SUFFICES ASSUME Consistent, Serving, [Next]_vars, Careful' PROVE Serving'
  BY DEF Serving
<1>1. /\ TypeOK /\ WhoOK /\ Seats /\ Chain /\ Place /\ Abandoned /\ Guarded /\ Forward
      /\ Entries /\ Writers /\ GoesOn /\ UnitsStep /\ TimersStep
  BY StepEntries, StepWriters, StepGoesOn, StepUnits, StepTimers DEF Consistent, TypeOK, WhoOK
<1>2. /\ Careful /\ ~Cut({"had"}) /\ cut \subseteq cut'
      /\ cut' \intersect {"had", "halt", "disable", "booting", "unmark"} = {}
      /\ GivenUp => cut' \intersect Again = {}
  BY <1>1, StepCut DEF Careful, SecondRetry, Cut, Writers, Written, GivenUp
<1>3. /\ up # {} \/ (ticking /\ queued = {}) => Before \/ After
      /\ at = "disable" \/ enabled \in {{}, Installed}
      /\ at \in Undoing => Halted
      /\ queued # {} => OneRelease \/ BeingRecovered
      /\ armed = "removed" => OneRelease /\ (at \in {"unmark", "finish", "cleanup"} \/ ~marker)
      /\ GivenUp => at \in Back \/ ~marker \/ (Halted /\ (at = "disable" \/ enabled = {}))
  BY <1>2 DEF Serving
<1>4. Resumed \/ at \in Back \/ ~marker \/ ~Written("quiesced") => OneRelease
  BY <1>2, AtRest DEF Consistent
<1>5. ( \/ up # {} \/ queued # {} \/ ticking \/ armed = "removed"
        \/ at \in Back \union {"serve", "work", "timers", "rollback", "none"} )
      => UNCHANGED <<scene, live, schema>>
  <2>1. at \in {"move_out", "move_in", "apply_tree", "install", "migrate"} =>
          up = {} /\ queued = {} /\ ~ticking /\ armed = "yes"
    BY <1>1 DEF Forward, ForwardSite, Upgrading, Unstopped, Early
  <2>2. at \in Undoing => armed # "removed"
    BY <1>1, <1>3 DEF Guarded, Undoing, AfterVenv, AfterTree, AfterDir, Back
  <2>3. at \in Back \union {"serve", "work", "timers", "rollback", "none"} =>
          at \notin Undoing \union {"move_out", "move_in", "apply_tree", "install", "migrate"}
    BY DEF Undoing, AfterVenv, AfterTree, AfterDir, Back
  <2> QED
    BY <1>3, <2>1, <2>2, <2>3, StepRelease DEF Halted
<1>6. UNCHANGED <<scene, live, schema>> =>
        (Before => Before') /\ (After => After') /\ (OneRelease => OneRelease')
  BY <1>1 DEF Before, After, Old, New, Pending, OneRelease, Resumed, Writers, Written
<1>7. up' # {} => Before' \/ After'
  <2>1. CASE up' \subseteq up
    <3>1. up' # {} => up # {}
      BY <2>1
    <3> QED
      BY <1>3, <1>5, <1>6, <3>1
  <2>2. CASE at \in {"serve", "work"}
    <3>1. /\ live["dir"] = "new" /\ live["tree"] = "new" /\ live["venv"] = "new"
          /\ schema = IF Pending THEN "new" ELSE "old"
      BY <1>1, <2>2 DEF Forward, ForwardFiles, ForwardBase, Upgrading, Unmigrated,
         Uninstalled, Unsaved, Unmoved, Unstopped, Early, Verifying
    <3>2. live = New
      <4>1. live = [p \in Parts |-> live[p]]
        BY <1>1 DEF TypeOK
      <4> QED
        BY <3>1, <4>1 DEF New, Parts
    <3> QED
      BY <1>5, <1>6, <2>2, <3>1, <3>2 DEF After
  <2>3. CASE at \in {"restart_web", "restart_work"}
    BY <1>4, <1>5, <1>6, <2>3 DEF Back, OneRelease
  <2>4. CASE Reboots
    BY <2>4 DEF Reboots
  <2>5. CASE \E u \in Units : Starts(u)
    <3>1. queued # {} /\ ~booting /\ who # "unit"
      BY <2>5 DEF Starts
    <3> QED
      BY <1>3, <1>5, <1>6, <3>1 DEF BeingRecovered, OneRelease
  <2> QED
    BY <1>1, <2>1, <2>2, <2>3, <2>4, <2>5 DEF UnitsStep
<1>b. ticking' /\ queued' = {} => Before' \/ After'
  <2> SUFFICES ASSUME ticking', queued' = {} PROVE Before' \/ After'
    OBVIOUS
  <2>1. ~Reboots
    <3>1. SUFFICES ASSUME Reboots PROVE FALSE
      OBVIOUS
    <3>2. "timers" \in enabled /\ enabled \intersect Units = {} /\ at \in cut'
      BY <3>1 DEF Reboots, Mishap
    <3>3. at = "disable"
      BY <1>3, <3>2 DEF Installed, Units
    <3> QED
      BY <1>2, <3>2, <3>3
  <2>2. CASE at \in {"timers", "restart_timers"}
    <3>1. OneRelease
      BY <1>1, <1>4, <2>2 DEF Place, Back
    <3>2. at \in Back \union {"timers"}
      BY <2>2 DEF Back
    <3> QED
      BY <1>5, <1>6, <3>1, <3>2 DEF OneRelease
  <2>3. CASE ticking /\ queued = {}
    BY <1>3, <1>5, <1>6, <2>3
  <2>4. CASE \E u \in Units : Starts(u)
    <3>1. queued # {} /\ ~booting /\ who # "unit"
      BY <2>4 DEF Starts
    <3> QED
      BY <1>3, <1>5, <1>6, <3>1 DEF BeingRecovered, OneRelease
  <2> QED
    BY <1>1, <2>1, <2>2, <2>3, <2>4 DEF TimersStep
<1>c. at' = "disable" \/ enabled' \in {{}, Installed}
  BY <1>1, <1>2, <1>3 DEF GoesOn
<1>8. at' \in Undoing => Halted'
  <2> SUFFICES ASSUME at' \in Undoing PROVE Halted'
    OBVIOUS
  <2>1. CASE at \in Undoing
    <3>1. /\ Halted
          /\ at \notin {"serve", "work", "timers", "restart_web", "restart_work",
                       "restart_timers"}
      BY <1>3, <2>1 DEF Undoing, AfterVenv, AfterTree, AfterDir, Back
    <3>3. ~Reboots
      BY DEF Reboots, Leave, Undoing, AfterVenv, AfterTree, AfterDir, Back
    <3>4. ~(\E u \in Units : Starts(u))
      BY <3>1 DEF Halted, Starts
    <3>5. ~ticking'
      BY <1>1, <3>1, <3>3 DEF TimersStep, Halted
    <3>2. CASE up' \subseteq up /\ queued' \subseteq queued
      BY <3>1, <3>2, <3>5 DEF Halted
    <3> QED
      BY <1>1, <3>1, <3>2, <3>3, <3>4 DEF UnitsStep
  <2>2. CASE Halt
    BY <1>2, <2>2 DEF Halt, StopAll, Halted
  <2>3. CASE Retry
    <3>1. GivenUp /\ at = "none" /\ marker /\ UNCHANGED <<up, queued, ticking>>
      BY <1>1, <2>3 DEF Retry, WhoOK, GivenUp, site, Undoing, AfterVenv, AfterTree, AfterDir,
         Back
    <3>2. Halted
      BY <1>3, <3>1 DEF Back
    <3> QED
      BY <3>1, <3>2 DEF Halted
  <2> QED
    BY <1>1, <2>1, <2>2, <2>3 DEF Entries
<1>9. queued' # {} => OneRelease' \/ BeingRecovered'
  <2> SUFFICES ASSUME queued' # {} PROVE OneRelease' \/ BeingRecovered'
    OBVIOUS
  <2>1. CASE Reboots
    <3>1. /\ booting' /\ at \in cut'
          /\ UNCHANGED <<journal, marker, armed, scene, live, schema>>
      BY <2>1 DEF Reboots, Mishap, recovery, files, database
    <3>2. CASE Unfinished
      BY <3>1, <3>2 DEF Unfinished, BeingRecovered, Written
    <3>3. CASE armed = "no"
      BY <1>1, <1>4, <1>6, <3>1, <3>3 DEF Guarded, Written
    <3>4. CASE armed = "removed"
      BY <1>3, <1>6, <3>1, <3>4
    <3>5. CASE ~marker
      BY <1>4, <1>6, <3>1, <3>5
    <3>6. CASE GivenUp
      <4>1. at # "disable"
        BY <1>2, <3>1
      <4>2. at \in Back \/ ~marker
        BY <1>3, <2>1, <3>6, <4>1 DEF Reboots
      <4> QED
        BY <1>4, <1>6, <3>1, <4>2
    <3> QED
      BY <1>1, <3>2, <3>3, <3>4, <3>5, <3>6 DEF TypeOK, Unfinished, GivenUp
  <2>2. CASE queued # {}
    <3>1. CASE OneRelease
      BY <1>5, <1>6, <2>2, <3>1
    <3>2. CASE BeingRecovered
      <4>1. "booting" \notin cut'
        BY <1>2
      <4>2. CASE Rollback /\ (Resumed \/ ~Written("quiesced"))
        BY <1>4, <1>5, <1>6, <2>2, <4>2
      <4> QED
        BY <1>1, <2>2, <3>2, <4>1, <4>2, StepBeingRecovered
    <3> QED
      BY <1>3, <2>2, <3>1, <3>2
  <2>3. CASE queued = {} /\ ~Reboots
    <3>1. ~(\E u \in Units : Starts(u))
      BY <2>3 DEF Starts
    <3>2. at \in {"restart_web", "restart_work"}
      BY <1>1, <2>3, <3>1 DEF UnitsStep
    <3> QED
      BY <1>4, <1>5, <1>6, <3>2 DEF Back
  <2> QED
    BY <2>1, <2>2, <2>3
<1>10. armed' = "removed" =>
         OneRelease' /\ (at' \in {"unmark", "finish", "cleanup"} \/ ~marker')
  <2>1. CASE armed = "removed"
    <3>1. OneRelease'
      BY <1>3, <1>5, <1>6, <2>1
    <3>2. ~marker => ~marker'
      BY <1>1, <2>1 DEF GoesOn, Forward, ForwardSite, Upgrading
    <3>3. CASE at = "unmark"
      BY <1>1, <1>2, <3>1, <3>3 DEF GoesOn
    <3> QED
      BY <1>1, <1>3, <2>1, <3>1, <3>2, <3>3 DEF Guarded
  <2>2. CASE at = "disarm" /\ at' = "unmark"
    BY <1>4, <1>5, <1>6, <2>2 DEF Back
  <2> QED
    BY <1>1, <2>1, <2>2 DEF GoesOn
<1>11. GivenUp' => at' \in Back \/ ~marker' \/ (Halted' /\ (at' = "disable" \/ enabled' = {}))
  <2> SUFFICES ASSUME GivenUp', at' \notin Back, marker'
               PROVE  Halted' /\ (at' = "disable" \/ enabled' = {})
    OBVIOUS
  <2>1. CASE ~GivenUp
    <3>1. at = "failed" /\ Failed
      <4>1. at = "failed" /\ ~UNCHANGED journal
        BY <1>1, <2>1 DEF Writers, GivenUp, Written
      <4> QED
        BY <4>1, StepFrames DEF Frames, ChangesJournal, Announce, Announced, Had, SaveTree,
           Migrated, Finish, At
    <3>2. at' = "disable" /\ UNCHANGED <<up, queued, ticking>>
      BY <3>1 DEF Failed, Go, site
    <3>3. Halted
      BY <1>3, <3>1 DEF Undoing, AfterVenv, AfterTree, AfterDir, Back
    <3> QED
      BY <3>2, <3>3 DEF Halted
  <2>2. CASE GivenUp
    <3>1. marker
      BY <1>1, <2>2 DEF GoesOn, Abandoned, Back
    <3>2. at \notin Back
      <4>1. at \in Back => at \in Again \/ ~marker
        BY <1>1 DEF Back, Again, Guarded
      <4>2. at # "cleanup"
        BY <1>1, <3>1 DEF Guarded
      <4> QED
        BY <1>1, <1>2, <2>2, <3>1, <4>1, <4>2 DEF GoesOn
    <3>3. Halted /\ (at = "disable" \/ enabled = {})
      BY <1>3, <2>2, <3>1, <3>2
    <3>4. at' = "disable" \/ enabled' = {}
      BY <1>1, <1>2, <3>2, <3>3 DEF GoesOn, Back
    <3>5. Halted'
      <4>1. at \notin {"serve", "work", "timers", "restart_web", "restart_work",
                       "restart_timers"}
        BY <1>1, <2>2, <3>2 DEF Abandoned, Back
      <4>2. CASE up' \subseteq up /\ queued' \subseteq queued /\ ~Reboots
        BY <1>1, <3>3, <4>1, <4>2 DEF Halted, TimersStep
      <4>3. CASE Reboots
        <5>1. enabled = {}
          BY <1>2, <3>3, <4>3 DEF Reboots, Mishap
        <5> QED
          BY <4>3, <5>1 DEF Reboots, Halted
      <4>4. ~(\E u \in Units : Starts(u))
        BY <3>3 DEF Halted, Starts
      <4> QED
        BY <1>1, <4>1, <4>2, <4>3, <4>4 DEF UnitsStep
    <3> QED
      BY <3>4, <3>5
  <2> QED
    BY <2>1, <2>2
<1> QED
  BY <1>7, <1>b, <1>c, <1>8, <1>9, <1>10, <1>11 DEF Serving

-----------------------------------------------------------------------------
(* What users write.                                                       *)

\* Users write after the snapshot only once no restore is to come: until then the
\* units do not run, or the flag is up.  So it is where no process was cut short in a
\* window NothingLost leaves open.
Keeping ==
    ~Cut(Again \union {"disable", "booting"}) =>
      /\ ~lost
      /\ snapshot => Written("quiesced")
      /\ ~Resumed =>
           /\ newer => at \in Late \/ ~marker
           /\ snapshot /\ ~held /\ at \notin Late /\ marker =>
                up = {} /\ (queued = {} \/ BeingRecovered)
           /\ armed = "removed" => at \in Late \/ ~marker
           /\ GivenUp => at \in Back \/ ~marker \/ at = "disable" \/ enabled = {}

\* How the snapshot, what was written after it, and the flag change.
NewerStep ==
    /\ lost' => lost \/ (newer /\ at = "undo_database")
    /\ newer' => newer \/ UserWrites
    /\ snapshot' => snapshot \/ at = "snapshot"
    /\ ~held' => ~held \/ at = "open" \/ at' = "restart_web"

\* They change in no other way.
LEMMA StepNewer == TypeOK /\ [Next]_vars => NewerStep
<1> SUFFICES ASSUME TypeOK, [Next]_vars PROVE NewerStep
  OBVIOUS
<1>1. lost' => lost \/ (newer /\ at = "undo_database")
  <2>1. CASE UndoDatabase
    BY <2>1 DEF UndoDatabase, At, database, TypeOK
  <2> QED
    BY <2>1, StepFrames DEF Frames, ChangesDatabase, database, Snapshot, Migrate, Reload,
       Cleanup, UserWrites
<1>2. newer' => newer \/ UserWrites
  BY StepFrames DEF Frames, ChangesDatabase, database, Snapshot, Migrate, UndoDatabase,
     Reload, Cleanup
<1>3. snapshot' => snapshot \/ at = "snapshot"
  BY StepFrames DEF Frames, ChangesDatabase, database, Snapshot, Migrate, UndoDatabase,
     Reload, Cleanup, UserWrites, At
<1>4. ~held' => ~held \/ at = "open" \/ at' = "restart_web"
  BY StepFrames DEF Frames, ChangesSite, site, Stop, Flag, Hold, Serve, Work, Open, Halt,
     Unflag, Restart, StartTimers, Reboots, Starts, At, Go
<1> QED
  BY <1>1, <1>2, <1>3, <1>4 DEF NewerStep

\* A step keeps what users wrote.
LEMMA StepKeeping == Consistent /\ Keeping /\ [Next]_vars => Keeping'
<1> SUFFICES ASSUME Consistent, Keeping, [Next]_vars, ~Cut(Again \union {"disable", "booting"})'
             PROVE  Keeping'
  BY DEF Keeping
<1>1. /\ TypeOK /\ WhoOK /\ Seats /\ Chain /\ Place /\ Abandoned /\ Guarded /\ Forward
      /\ Entries /\ Writers /\ GoesOn /\ UnitsStep /\ NewerStep
  BY StepEntries, StepWriters, StepGoesOn, StepUnits, StepNewer DEF Consistent, TypeOK, WhoOK
<1>2. /\ ~Cut(Again \union {"disable", "booting"}) /\ cut \subseteq cut'
      /\ cut' \intersect (Again \union {"disable", "booting"}) = {}
  BY <1>1, StepCut DEF Cut
<1>3. /\ ~lost
      /\ snapshot => Written("quiesced")
      /\ ~Resumed =>
           /\ newer => at \in Late \/ ~marker
           /\ snapshot /\ ~held /\ at \notin Late /\ marker =>
                up = {} /\ (queued = {} \/ BeingRecovered)
           /\ armed = "removed" => at \in Late \/ ~marker
           /\ GivenUp => at \in Back \/ ~marker \/ at = "disable" \/ enabled = {}
  BY <1>2 DEF Keeping
<1>4. Resumed => Resumed'
  BY <1>1 DEF Writers, Resumed, Written
<1>5. at \in Late /\ marker => at' \in Late \/ ~marker'
  <2>1. at \in Late /\ marker => at \in Again
    BY <1>1 DEF Late, Again, Guarded
  <2> QED
    BY <1>1, <1>2, <2>1 DEF GoesOn, Again
<1>6. at \in Back /\ marker => at' \in Back \/ ~marker'
  <2>1. at \in Back /\ marker => at \in Again
    BY <1>1 DEF Back, Again, Guarded
  <2> QED
    BY <1>1, <1>2, <2>1 DEF GoesOn, Again
<1>7. ~marker /\ marker' =>
        at = "mark" /\ at' = "arm" /\ ~newer' /\ ~snapshot' /\ armed' # "removed"
  <2> SUFFICES ASSUME ~marker, marker'
               PROVE  at = "mark" /\ at' = "arm" /\ ~newer' /\ ~snapshot' /\ armed' # "removed"
    OBVIOUS
  <2>1. Mark
    BY StepFrames DEF Frames, recovery, ChangesRecovery, Arm, Disarm, Unmark
  <2>2. at = "mark" /\ at' = "arm" /\ UNCHANGED <<newer, snapshot, armed>>
    BY <2>1 DEF Mark, At, Go, database
  <2> QED
    BY <1>1, <2>2 DEF Forward, ForwardBase, ForwardSite, Upgrading, Unmigrated, Uninstalled,
       Unsaved, Unmoved, Unstopped, Early, Verifying
<1>8. ~lost'
  <2>1. at = "undo_database" => marker /\ at \notin Late /\ ~Resumed
    BY <1>1 DEF Guarded, Late, Place, Back
  <2> QED
    BY <1>1, <1>3, <2>1 DEF NewerStep
<1>9. snapshot' => "quiesced" \in journal'
  <2>1. at = "snapshot" => Written("quiesced")
    BY <1>1 DEF Forward, ForwardJournal, Upgrading, Early
  <2> QED
    BY <1>1, <1>3, <2>1 DEF NewerStep, Writers, Written
<1>10. ASSUME ~Resumed', newer' PROVE at' \in Late \/ ~marker'
  <2>1. CASE newer
    BY <1>3, <1>4, <1>5, <1>7, <1>10, <2>1
  <2>2. CASE UserWrites
    <3>1. up # {} /\ snapshot /\ ~held /\ UNCHANGED <<at, marker>>
      BY <2>2 DEF UserWrites, process, recovery
    <3> QED
      BY <1>3, <1>4, <1>10, <3>1
  <2> QED
    BY <1>1, <1>10, <2>1, <2>2 DEF NewerStep
<1>11. ASSUME ~Resumed', snapshot', ~held', at' \notin Late, marker'
       PROVE  up' = {} /\ (queued' = {} \/ BeingRecovered')
  <2>1. snapshot \/ at = "snapshot"
    BY <1>1, <1>11 DEF NewerStep
  <2>2. marker /\ at \notin Late /\ ~Resumed
    BY <1>4, <1>5, <1>7, <1>11
  <2>3. CASE at \in Upgrading /\ at' \in Upgrading
    <3>1. Forward'
      BY <1>1, StepForward
    <3>2. (ForwardBase /\ ForwardSite)'
      BY <2>3, <3>1 DEF Forward
    <3>3. at' \notin Unstopped \union {"work", "resume"}
      BY <1>11, <3>2 DEF ForwardBase, ForwardSite, Unstopped, Early, Verifying
    <3> QED
      BY <3>2, <3>3 DEF ForwardSite
  <2>4. CASE at \in Upgrading /\ at' \notin Upgrading
    <3>1. ForwardBase /\ ForwardSite /\ ForwardJournal
      BY <1>1, <2>4 DEF Forward
    <3>2. ~held
      BY <1>1, <1>11, <2>2, <2>4 DEF NewerStep, Late, Upgrading
    <3>3. at \notin Unstopped \union {"serve", "work", "resume"}
      BY <2>1, <3>1, <3>2 DEF ForwardBase, ForwardSite, Unstopped, Early, Verifying
    <3>4. up = {} /\ queued = {} /\ marker /\ armed = "yes" /\ ~GivenUp
      BY <3>1, <3>3 DEF ForwardSite, ForwardJournal, Unstopped, Early
    <3>5. CASE up' \subseteq up /\ queued' \subseteq queued
      BY <3>4, <3>5
    <3>6. CASE Reboots
      BY <3>4, <3>6 DEF Reboots, recovery, BeingRecovered, Unfinished, GivenUp, Written
    <3>7. at \notin {"restart_web", "restart_work"} /\ ~(\E u \in Units : Starts(u))
      BY <2>4, <3>4 DEF Upgrading, Starts
    <3> QED
      BY <1>1, <3>3, <3>5, <3>6, <3>7 DEF UnitsStep
  <2>5. CASE at \notin Upgrading
    <3>1. ~held
      <4>1. at # "open"
        BY <1>1, <2>2 DEF Place
      <4> QED
        BY <1>1, <1>11, <4>1 DEF NewerStep, Late
    <3>2. snapshot /\ Written("quiesced")
      BY <1>3, <2>1, <2>5 DEF Upgrading
    <3>3. up = {} /\ (queued = {} \/ BeingRecovered)
      BY <1>3, <2>2, <3>1, <3>2
    <3>4. CASE up' \subseteq up /\ queued' \subseteq queued
      <4>1. CASE queued = {}
        BY <3>3, <3>4, <4>1
      <4>2. CASE queued # {}
        <5>1. "booting" \notin cut'
          BY <1>2
        <5> QED
          BY <1>1, <2>2, <3>2, <3>3, <3>4, <4>2, <5>1, StepBeingRecovered
      <4> QED
        BY <4>1, <4>2
    <3>5. CASE Reboots
      <4>1. /\ up' = {} /\ queued' = enabled \intersect Units /\ booting' /\ at \in cut'
            /\ UNCHANGED <<journal, marker, armed>>
        BY <3>5 DEF Reboots, Mishap, recovery
      <4>2. armed = "yes"
        BY <1>1, <1>3, <2>2, <3>2 DEF TypeOK, Guarded, Written
      <4>3. GivenUp => enabled = {}
        <5>1. at \in Back => at \in Again
          BY <1>1, <2>2 DEF Back, Again, Guarded
        <5> QED
          BY <1>2, <1>3, <2>2, <4>1, <5>1
      <4> QED
        BY <2>2, <4>1, <4>2, <4>3 DEF BeingRecovered, Unfinished, GivenUp, Written
    <3>6. ~(\E u \in Units : Starts(u))
      BY <3>3 DEF Starts, BeingRecovered
    <3>7. at \notin {"serve", "work", "restart_web", "restart_work"}
      BY <2>2, <2>5 DEF Late, Upgrading
    <3> QED
      BY <1>1, <3>4, <3>5, <3>6, <3>7 DEF UnitsStep
  <2> QED
    BY <2>3, <2>4, <2>5
<1>12. ASSUME ~Resumed', armed' = "removed" PROVE at' \in Late \/ ~marker'
  <2>1. CASE armed = "removed"
    BY <1>3, <1>4, <1>5, <1>7, <1>12, <2>1
  <2>2. CASE at' = "unmark"
    BY <2>2 DEF Late
  <2> QED
    BY <1>1, <1>12, <2>1, <2>2 DEF GoesOn
<1>13. ASSUME ~Resumed', GivenUp'
       PROVE  at' \in Back \/ ~marker' \/ at' = "disable" \/ enabled' = {}
  <2>1. CASE ~GivenUp
    <3>1. at = "failed" /\ ~UNCHANGED journal
      BY <1>1, <1>13, <2>1 DEF Writers, GivenUp, Written
    <3>2. Failed
      BY <3>1, StepFrames DEF Frames, ChangesJournal, Announce, Announced, Had, SaveTree,
         Migrated, Finish, At
    <3> QED
      BY <3>2 DEF Failed, Go
  <2>2. CASE GivenUp
    <3>1. ~marker => ~marker'
      BY <1>1, <1>7, <2>2 DEF Abandoned, Back
    <3>2. CASE at = "disable"
      BY <1>1, <1>2, <3>2 DEF GoesOn
    <3>3. CASE enabled = {}
      <4>1. at = "enable" => at \in Back
        BY DEF Back
      <4> QED
        BY <1>1, <1>6, <3>1, <3>3, <4>1 DEF GoesOn
    <3> QED
      BY <1>3, <1>4, <1>6, <1>13, <2>2, <3>1, <3>2, <3>3
  <2> QED
    BY <2>1, <2>2
<1> QED
  BY <1>8, <1>9, <1>10, <1>11, <1>12, <1>13 DEF Keeping, Written

-----------------------------------------------------------------------------
(* The theorems.                                                           *)

\* The inductive invariant.
IInv == Consistent /\ Serving /\ Keeping

\* It holds at the start, ...
LEMMA InitIInv == Init => IInv
<1> SUFFICES ASSUME Init PROVE IInv
  OBVIOUS
<1>1. TypeOK
  <2>1. /\ Old \in [Parts -> {"none", "old", "mixed", "new"}]
        /\ [p \in Parts |-> "none"] \in [Parts -> {"none", "old", "mixed", "new"}]
    BY DEF Old
  <2>2. scene \in Scenes /\ count \in 0..MaxMishaps
    BY BoundsAssumption DEF Init
  <2> QED
    BY <2>1, <2>2 DEF Init, TypeOK, Steps, Upgrading, Units, Keys
<1>2. Seats /\ Chain /\ Place /\ Abandoned /\ Guarded
  BY DEF Init, Seats, Chain, Place, Abandoned, Guarded, Written, Resumed, GivenUp, Upgrading,
     Undoing, AfterVenv, AfterTree, AfterDir, Back
<1>3. /\ live["dir"] = Old["dir"] /\ live["tree"] = "old" /\ live["venv"] = "old"
      /\ Old["dir"] = IF scene.had THEN "old" ELSE "none"
      /\ kept["dir"] = "none" /\ kept["tree"] = "none" /\ kept["venv"] = "none"
  BY DEF Init, Old, Parts
<1>4. Forward
  <2>1. ForwardJournal
    BY DEF Init, ForwardJournal, Written, Resumed, GivenUp, Unmigrated, Uninstalled, Unsaved,
       Unmoved, Unstopped, Early, Verifying
  <2>2. ForwardFiles
    BY <1>3 DEF Init, ForwardFiles, Uninstalled, Unsaved, Unmoved, Unstopped, Early
  <2>3. ForwardBase /\ ForwardSite
    BY DEF Init, ForwardBase, ForwardSite, Unmigrated, Uninstalled, Unsaved, Unmoved,
       Unstopped, Early, Verifying
  <2> QED
    BY <2>1, <2>2, <2>3 DEF Forward
<1>5. Venv /\ Tree /\ Dir
  BY <1>3 DEF Init, Venv, Tree, Dir, Written
<1>6. Base /\ Done /\ Reports
  BY DEF Init, Base, Done, Reports, Resumed, Written
<1>7. Serving
  BY DEF Init, Serving, Before, Resumed, Written, GivenUp, Undoing, AfterVenv, AfterTree,
     AfterDir, Back
<1>8. Keeping
  BY DEF Init, Keeping, GivenUp, Written
<1> QED
  BY <1>1, <1>2, <1>4, <1>5, <1>6, <1>7, <1>8 DEF IInv, Consistent

\* ... every step keeps it, ...
LEMMA StepIInv == IInv /\ [Next]_vars => IInv'
  BY StepConsistent, StepServing, StepKeeping DEF IInv

\* ... so it holds of every behaviour.
LEMMA Inductive == Spec => []IInv
  BY InitIInv, StepIInv, PTL DEF Spec

\* Every variable keeps its type.
THEOREM TypeCorrect == Spec => []TypeOK
<1>1. IInv => TypeOK
  BY DEF IInv, Consistent
<1> QED
  BY <1>1, Inductive, PTL

\* For any number of mishaps: services run on one release, its files and its
\* database together, and so do the timers but between a boot and the recovery's
\* stop_all - unless a process was cut short in one of the windows (the swap,
\* rollback_files and db_restore).
THEOREM ServesOneReleaseThm == Spec => []ServesOneRelease
<1>1. IInv => ServesOneRelease
  BY DEF IInv, Serving, Careful, ServesOneRelease
<1> QED
  BY <1>1, Inductive, PTL

\* For any number of mishaps: a restore never throws away what users wrote, unless a
\* process was cut short in one of the windows (stop_all, the maintenance flag,
\* db_restore).
THEOREM NothingLostThm == Spec => []NothingLost
<1>1. IInv => NothingLost
  BY DEF IInv, Keeping, NothingLost
<1> QED
  BY <1>1, Inductive, PTL

\* For any number of mishaps: the outcome reported is the one on disk (write_status,
\* db_touched), unless a process was cut short at the line "had".
THEOREM TruthfulThm == Spec => []Truthful
<1>1. IInv => Truthful
  <2> SUFFICES ASSUME IInv, ~Cut({"had"})
               PROVE  /\ report = "new" => After
                      /\ report \in {"unchanged", "restored"} => Before
                      /\ report = "restore_failed" => Pending
    BY DEF Truthful
  <2>1. Reports
    BY DEF IInv, Consistent
  <2>2. Resumed \/ ~marker => OneRelease
    BY AtRest DEF IInv, Consistent
  <2>3. Resumed => After
    <3>1. live = [p \in Parts |-> live[p]]
      BY DEF IInv, Consistent, TypeOK
    <3> QED
      BY <3>1 DEF IInv, Consistent, Done, After, New, Parts
  <2> QED
    BY <2>1, <2>2, <2>3 DEF Reports, OneRelease
<1> QED
  BY <1>1, Inductive, PTL

=============================================================================
