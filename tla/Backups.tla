------------------------------- MODULE Backups -------------------------------
(***************************************************************************)
(* Backups, and restoring one in place.  A backup dumps the database and   *)
(* puts the archive on a target; a restore makes a backup of its own,      *)
(* drops the schema, loads the archive and writes back the rows that       *)
(* describe what it is doing (backups/engine.py, restore.py).              *)
(*                                                                         *)
(* The rows that describe archives and restores are part of the database   *)
(* that is archived and replaced: a restore brings back rows as they were  *)
(* in the middle of a dump, and loses rows of archives made since.  There  *)
(* is one target, and every backup and restore has the database in it; a   *)
(* row and an archive go by the identifier of the backup that made them.   *)
(***************************************************************************)
EXTENDS Naturals, FiniteSets

CONSTANTS
    Backups,        \* identifiers of backups
    Restorable,     \* those a restore may be asked for: what others hold is not kept
    Restores,       \* identifiers of restores
    None,           \* no restore, no backup
    MaxFailures,    \* bound on jobs that fail or die, and on a target's refusals
    MaxDeletes      \* bound on deletes

ASSUME NoneAssumption == None \notin Backups \union Restores
ASSUME RestorableAssumption == Restorable \subseteq Backups
ASSUME BoundsAssumption == MaxFailures \in Nat /\ MaxDeletes \in Nat

VARIABLES
    db,         \* the tables: see Database
    tables,     \* FALSE while the schema is dropped
    files,      \* archives on the target
    content,    \* what each archive holds
    used,       \* identifiers given out
    job,        \* each backup's job
    restore,    \* each restore's job: its stage, its archive, its safety backup
    lock,       \* the restore that holds the upgrade lock, or None
    maintenance,    \* the maintenance flag
    deleting,   \* the archive whose row a delete has loaded and not yet removed
    known,      \* history: archives on the target that a row has named
    torn,       \* history: the last restore that dropped the tables, until the
                \* target has been scanned again
    early,      \* history: safety backups whose delete was ahead of protecting
    refused,    \* history: archives the target would not delete, whose rows went
                \* all the same, until the target has been scanned again
    failures, deletes

target == <<files, content, used>>
history == <<known, torn, early, refused>>
bounds == <<failures, deletes>>
vars == <<db, tables, target, job, restore, lock, maintenance, deleting, history, bounds>>

RowStatus == {"absent", "queued", "running", "success", "failed"}
Database == [row : [Backups -> RowStatus], run : [Restores -> RowStatus],
             listed : SUBSET Backups,       \* archives that a row names
             protected : SUBSET Backups]    \* those that are protected
JobStage == {"none", "queued", "started", "dumped", "cut", "uploaded"}
RestoreStage == {"none", "queued", "safety", "safe", "ready", "dropped", "loaded",
                 "reinstated", "adopted", "done"}
Restore == [stage : RestoreStage, of : Backups \union {None}, safety : Backups \union {None}]

EmptyDatabase == [row |-> [b \in Backups |-> "absent"], run |-> [r \in Restores |-> "absent"],
                  listed |-> {}, protected |-> {}]
NoRestore == [stage |-> "none", of |-> None, safety |-> None]

Moving == {"queued", "running"}

\* Archives of kind pre_restore.
PreRestore == {restore[r].safety : r \in Restores} \ {None}

\* A new identifier: any of those nobody restores from, or any of the others.
New(b) == b \in {CHOOSE a \in ids : TRUE :
                    ids \in {Restorable \ used, Backups \ (Restorable \union used)} \ {{}}}

Fault == failures < MaxFailures /\ failures' = failures + 1 /\ UNCHANGED deletes

-----------------------------------------------------------------------------
(* A backup.                                                               *)

\* A tick of the schedules, or somebody, makes a row and queues the job; the tick
\* does not ask whether a restore is running.
Fire(b) ==
    /\ tables /\ New(b) /\ used' = used \union {b}
    /\ db' = [db EXCEPT !.row[b] = "queued"]
    /\ job' = [job EXCEPT ![b] = "queued"]
    /\ UNCHANGED <<tables, files, content, restore, lock, maintenance, deleting, history, bounds>>

\* The job starts; a job whose row is not in this database ends there.
Start(b) ==
    /\ job[b] = "queued"
    /\ IF tables /\ db.row[b] # "absent"
       THEN /\ db' = [db EXCEPT !.row[b] = "running"]
            /\ job' = [job EXCEPT ![b] = "started"]
       ELSE /\ job' = [job EXCEPT ![b] = "none"]
            /\ UNCHANGED db
    /\ UNCHANGED <<tables, target, restore, lock, maintenance, deleting, history, bounds>>

\* The dump: the tables as they are, with this row and every restore's in them.
Dump(b) ==
    /\ job[b] = "started"
    /\ content' = [content EXCEPT ![b] = IF b \in Restorable THEN db ELSE @]
    /\ job' = [job EXCEPT ![b] = "dumped"]
    /\ UNCHANGED <<db, tables, files, used, restore, lock, maintenance, deleting, history, bounds>>

\* The archive is on the target before a row names it.
Upload(b) ==
    /\ job[b] = "dumped"
    /\ files' = files \union {b}
    /\ job' = [job EXCEPT ![b] = "uploaded"]
    /\ UNCHANGED <<db, tables, content, used, restore, lock, maintenance, deleting, history, bounds>>

\* A job whose session a restore ended in the middle of its upload: the archive
\* may land, the next save of the row raises.
UploadCut(b) ==
    /\ job[b] = "cut"
    /\ \E landed \in SUBSET {b} : files' = files \union landed
    /\ job' = [job EXCEPT ![b] = "none"]
    /\ UNCHANGED <<db, tables, content, used, restore, lock, maintenance, deleting, history, bounds>>

\* Rows that refer to an archive's row keep it from being deleted (PROTECT).
Referred(b) == \E r \in Restores : restore[r].of = b /\ db.run[r] # "absent"

\* What retention may take: finished, not protected, made by the schedule.
Prunable == {b \in db.listed \ (db.protected \union PreRestore) : db.row[b] = "success"}

\* delete_backup of some archives, of which the rows of some are gone after it: the
\* target may refuse to delete an archive, which is logged and keeps no row.  Save
\* has named one more.
DeleteArchives(archives, gone, named) ==
    \E stay \in SUBSET (archives \intersect files) :
        /\ files' = files \ (archives \ stay)
        /\ known' = (known \union named) \ (archives \ stay)
        /\ refused' = refused \union (stay \intersect gone)
        /\ IF stay = {} THEN UNCHANGED bounds ELSE Fault

\* The row names the archive and is saved; then retention.  delete_backup removes
\* the archive, then the row, and a row that is referred to raises: the backup
\* that has just succeeded is marked failed, the rest is not pruned.
Save(b) ==
    /\ job[b] = "uploaded"
    /\ \E gone \in SUBSET Prunable, kept \in SUBSET Prunable :
          /\ b \in PreRestore => gone = {} /\ kept = {}
          /\ \A p \in gone : ~Referred(p)
          /\ \A p \in kept : Referred(p)
          /\ Cardinality(kept) <= 1
          /\ DeleteArchives(gone \union kept, gone, {b})
          /\ db' = [db EXCEPT
                !.row = [p \in Backups |-> CASE p \in gone -> "absent"
                                             [] p = b -> IF kept = {} THEN "success" ELSE "failed"
                                             [] OTHER -> @[p]],
                !.listed = (@ \union {b}) \ gone]
    /\ job' = [job EXCEPT ![b] = "none"]
    /\ UNCHANGED <<tables, content, used, restore, lock, maintenance, deleting, torn, early>>

\* A step of the job raises, and the row says so; what was uploaded stays.
Fails(b) ==
    /\ job[b] \in {"started", "dumped", "uploaded"} /\ Fault
    /\ db' = [db EXCEPT !.row[b] = "failed"]
    /\ job' = [job EXCEPT ![b] = "none"]
    /\ UNCHANGED <<tables, target, restore, lock, maintenance, deleting, history>>

\* The worker dies, and with it the job; the worker of a restore is RestoreDies'.
WorkerDies(b) ==
    /\ job[b] \in {"started", "dumped", "uploaded"} /\ b \notin PreRestore /\ Fault
    /\ job' = [job EXCEPT ![b] = "none"]
    /\ UNCHANGED <<db, tables, target, restore, lock, maintenance, deleting, history>>

\* A row nobody has worked on may have been still for an hour.
Stale(b) == db.row[b] \in Moving /\ job[b] \in {"none", "queued"}

\* reap_stale.
Reap(b) ==
    /\ tables /\ Stale(b)
    /\ db' = [db EXCEPT !.row[b] = "failed"]
    /\ UNCHANGED <<tables, target, job, restore, lock, maintenance, deleting, history, bounds>>

-----------------------------------------------------------------------------
(* The archives.                                                           *)

\* Mutant: whoever can see a backup can delete it.
DeletableAny(b) ==
    /\ b \in db.listed
    /\ ~\E r \in Restores : restore[r].of = b /\ db.run[r] \in Moving

\* A row that is not protected, and that no restore is running from.
Deletable(b) ==
    /\ b \in db.listed \ db.protected
    /\ ~\E r \in Restores : restore[r].of = b /\ db.run[r] \in Moving

\* destroy: the row is loaded and looked at ...
DeleteLoad(b) ==
    /\ tables /\ ~maintenance
    /\ deleting = None /\ Deletable(b)
    /\ deleting' = b
    /\ deletes < MaxDeletes /\ deletes' = deletes + 1
    /\ early' = IF \E r \in Restores : restore[r].safety = b /\ restore[r].stage = "safety"
                THEN early \union {b} ELSE early
    /\ UNCHANGED <<db, tables, target, job, restore, lock, maintenance, known, torn, refused,
                   failures>>

\* ... delete_backup: the archive goes, and the row if nothing refers to it.
DeleteFinish(b) ==
    /\ deleting = b /\ deleting' = None
    /\ DeleteArchives({b}, IF Referred(b) THEN {} ELSE {b}, {})
    /\ db' = IF Referred(b) THEN db
             ELSE [db EXCEPT !.listed = @ \ {b}, !.protected = @ \ {b},
                             !.row[b] = IF @ \in Moving THEN @ ELSE "absent"]
    /\ UNCHANGED <<tables, content, used, job, restore, lock, maintenance, torn, early>>

\* Mutant: what the database had under another status is taken for known.
OrphansAbsent == {b \in files : db.row[b] = "absent"}

\* Archives on the target that no row names.
Orphans == files \ db.listed

\* adopt_orphans: a row for each, protected if it was made before a restore.
AdoptOrphans ==
    /\ db' = [db EXCEPT !.listed = @ \union Orphans,
                        !.protected = @ \union (Orphans \intersect PreRestore)]
    /\ known' = known \union Orphans
    /\ torn' = None /\ refused' = {}

\* "Scan target".
Scan ==
    /\ tables /\ ~maintenance /\ Orphans # {}
    /\ AdoptOrphans
    /\ UNCHANGED <<tables, target, job, restore, lock, maintenance, deleting, early, bounds>>

-----------------------------------------------------------------------------
(* A restore.                                                              *)

To(r, stage) == restore' = [restore EXCEPT ![r].stage = stage]

\* The command makes a row for a named archive that can be read, while nobody
\* holds the lock.  The API does so too, and before that asks for less than it
\* gets: no restore in the rows, no flag and no backup in progress, all of which
\* may have changed when it makes the row.
Request(b) ==
    LET r == CHOOSE q \in Restores : restore[q] = NoRestore
    IN /\ tables /\ lock = None
       /\ \E q \in Restores : restore[q] = NoRestore
       /\ b \in Restorable \intersect db.listed \intersect files
       /\ db' = [db EXCEPT !.run[r] = "queued"]
       /\ restore' = [restore EXCEPT ![r] = [stage |-> "queued", of |-> b, safety |-> None]]
       /\ UNCHANGED <<tables, target, job, lock, maintenance, deleting, history, bounds>>

\* A job whose row is in no table ends.
RestoreMissing(r) ==
    /\ restore[r].stage = "queued"
    /\ ~tables \/ db.run[r] = "absent"
    /\ To(r, "done")
    /\ UNCHANGED <<db, tables, target, job, lock, maintenance, deleting, history, bounds>>

\* "An upgrade or another restore is running", or the archive cannot be read.
RestoreRefused(r) ==
    /\ restore[r].stage = "queued" /\ tables /\ db.run[r] # "absent"
    /\ lock # None \/ restore[r].of \notin files
    /\ db' = [db EXCEPT !.run[r] = "failed"]
    /\ To(r, "done")
    /\ UNCHANGED <<tables, target, job, lock, maintenance, deleting, history, bounds>>

\* The lock, and the safety backup, which runs here and not in a job of its own.
RestoreStart(r, s) ==
    /\ restore[r].stage = "queued" /\ tables /\ db.run[r] # "absent"
    /\ lock = None /\ restore[r].of \in files
    /\ New(s) /\ used' = used \union {s}
    /\ lock' = r
    /\ db' = [db EXCEPT !.run[r] = "running", !.row[s] = "running"]
    /\ job' = [job EXCEPT ![s] = "started"]
    /\ restore' = [restore EXCEPT ![r].stage = "safety", ![r].safety = s]
    /\ UNCHANGED <<tables, files, content, maintenance, deleting, history, bounds>>

\* The safety backup has succeeded and is protected; a row that is gone already
\* cannot be referred to, and the restore fails.
Protect(r) ==
    LET s == restore[r].safety
    IN /\ restore[r].stage = "safety" /\ job[s] = "none" /\ db.row[s] = "success"
       /\ db' = [db EXCEPT !.protected = @ \union {s}]
       /\ To(r, "safe")
       /\ UNCHANGED <<tables, target, job, lock, maintenance, deleting, history, bounds>>

\* The members are extracted, and the maintenance flag goes up.
Download(r) ==
    /\ restore[r].stage = "safe" /\ restore[r].of \in files
    /\ maintenance' = TRUE
    /\ To(r, "ready")
    /\ UNCHANGED <<db, tables, target, job, lock, deleting, history, bounds>>

\* Mutant: sessions are left alone.
CutNone(stage) == stage

\* What becomes of a job when its session is ended.
Cut(stage) ==
    CASE stage \in {"started", "uploaded"} -> "none"
      [] stage = "dumped" -> "cut"
      [] OTHER -> stage

\* Every other session ends, those of requests under way too, and the schema goes.
Drop(r) ==
    /\ restore[r].stage = "ready"
    /\ tables' = FALSE /\ db' = EmptyDatabase
    /\ job' = [b \in Backups |-> Cut(job[b])]
    /\ deleting' = None
    /\ torn' = r
    /\ To(r, "dropped")
    /\ UNCHANGED <<target, lock, maintenance, known, early, refused, bounds>>

\* pg_restore and migrate.
Load(r) ==
    /\ restore[r].stage = "dropped"
    /\ tables' = TRUE /\ db' = content[restore[r].of]
    /\ To(r, "loaded")
    /\ UNCHANGED <<target, job, lock, maintenance, deleting, history, bounds>>

\* _reinstate: the rows of the archive, of the safety backup and of the run.
Reinstate(r) ==
    LET of == restore[r].of
        s == restore[r].safety
    IN /\ restore[r].stage = "loaded"
       /\ db' = [db EXCEPT !.row[s] = "success", !.run[r] = "running",
                           !.listed = @ \union {of, s},
                           !.protected = @ \union {s} \union ({of} \intersect PreRestore)]
       /\ To(r, "reinstated")
       /\ UNCHANGED <<tables, target, job, lock, maintenance, deleting, history, bounds>>

Adopt(r) ==
    /\ restore[r].stage = "reinstated"
    /\ AdoptOrphans
    /\ To(r, "adopted")
    /\ UNCHANGED <<tables, target, job, lock, maintenance, deleting, early, bounds>>

\* The flag and the lock at the end of a restore, however it ended.
Leave == lock' = None /\ maintenance' = FALSE

\* Queued jobs go, since they mean nothing in this database.
Finish(r) ==
    /\ restore[r].stage = "adopted"
    /\ db' = [db EXCEPT !.run[r] = "success"]
    /\ job' = [b \in Backups |-> IF job[b] = "queued" THEN "none" ELSE job[b]]
    /\ restore' = [q \in Restores |->
                      IF q = r \/ restore[q].stage = "queued"
                      THEN [restore[q] EXCEPT !.stage = "done"] ELSE restore[q]]
    /\ Leave
    /\ UNCHANGED <<tables, target, deleting, history, bounds>>

\* The run is marked failed where there is a row to mark: between the drop and
\* _reinstate there is none, and one that is saved anew refers to rows that are
\* not there.
RestoreFails(r) ==
    /\ db' = IF db.run[r] = "absent" THEN db ELSE [db EXCEPT !.run[r] = "failed"]
    /\ To(r, "done")
    /\ Leave
    /\ UNCHANGED <<tables, target, job, deleting, history>>

\* The safety backup did not succeed or is gone, or so is the archive.
RestoreCannot(r) ==
    LET s == restore[r].safety
    IN /\ \/ restore[r].stage = "safety" /\ job[s] = "none" /\ db.row[s] # "success"
          \/ restore[r].stage = "safe" /\ restore[r].of \notin files
       /\ RestoreFails(r)
       /\ UNCHANGED bounds

\* A step raises: pg_restore, migrate, the write of a row, the target.
RestoreRaises(r) ==
    /\ restore[r].stage \in {"safe", "ready", "dropped", "loaded", "reinstated", "adopted"}
    /\ Fault
    /\ RestoreFails(r)

\* The worker dies; the lock and the flag stay.
RestoreDies(r) ==
    /\ restore[r].stage \notin {"none", "queued", "done"}
    /\ Fault
    /\ job' = [b \in Backups |-> IF b = restore[r].safety THEN "none" ELSE job[b]]
    /\ To(r, "done")
    /\ UNCHANGED <<db, tables, target, lock, maintenance, deleting, history>>

\* Mutant: a lock is judged by what the row of the restore says.
LockDeadByRow == lock # None /\ db.run[lock] \notin Moving

\* The lock of a process that is gone is anybody's.
LockDead == lock # None /\ restore[lock].stage = "done"

LockLapses ==
    /\ LockDead
    /\ lock' = None
    /\ UNCHANGED <<db, tables, target, job, restore, maintenance, deleting, history, bounds>>

\* The flag has a TTL, longer than a restore.
FlagLapses ==
    /\ maintenance
    /\ \A r \in Restores : restore[r].stage \in {"none", "queued", "safety", "safe", "done"}
    /\ maintenance' = FALSE
    /\ UNCHANGED <<db, tables, target, job, restore, lock, deleting, history, bounds>>

-----------------------------------------------------------------------------

\* A new deployment.
Init ==
    /\ db = EmptyDatabase /\ tables = TRUE
    /\ files = {} /\ content = [b \in Backups |-> EmptyDatabase] /\ used = {}
    /\ job = [b \in Backups |-> "none"]
    /\ restore = [r \in Restores |-> NoRestore]
    /\ lock = None /\ maintenance = FALSE
    /\ deleting = None
    /\ known = {} /\ torn = None /\ early = {} /\ refused = {}
    /\ failures = 0 /\ deletes = 0

BackupStep(b) == Start(b) \/ Dump(b) \/ Upload(b) \/ UploadCut(b) \/ Save(b)

RestoreStep(r) ==
    \/ RestoreMissing(r) \/ RestoreRefused(r)
    \/ \E s \in Backups : RestoreStart(r, s)
    \/ Protect(r) \/ Download(r) \/ Drop(r) \/ Load(r) \/ Reinstate(r)
    \/ Adopt(r) \/ Finish(r) \/ RestoreCannot(r)

Next ==
    \/ \E b \in Backups : \/ Fire(b) \/ BackupStep(b) \/ Fails(b) \/ WorkerDies(b)
                          \/ Reap(b) \/ DeleteLoad(b) \/ DeleteFinish(b) \/ Request(b)
    \/ \E r \in Restores : RestoreStep(r) \/ RestoreRaises(r) \/ RestoreDies(r)
    \/ Scan \/ LockLapses \/ FlagLapses

Spec == Init /\ [][Next]_vars

\* Some job goes on while one can, the reaper is a timer, a request is answered,
\* and locks and flags that nobody holds lapse.  Nobody has to ask for anything.
Fairness ==
    /\ WF_vars(\E b \in Backups : BackupStep(b))
    /\ WF_vars(\E r \in Restores : RestoreStep(r))
    /\ WF_vars(\E b \in Backups : Reap(b))
    /\ WF_vars(\E b \in Backups : DeleteFinish(b))
    /\ WF_vars(LockLapses) /\ WF_vars(FlagLapses)

FairSpec == Spec /\ Fairness

-----------------------------------------------------------------------------

\* Types; and nobody writes a row between the drop of the schema and the load.
TypeOK ==
    /\ db \in Database /\ tables \in BOOLEAN
    /\ ~tables => db = EmptyDatabase
    /\ files \subseteq Backups /\ content \in [Backups -> Database]
    /\ used \subseteq Backups
    /\ job \in [Backups -> JobStage] /\ restore \in [Restores -> Restore]
    /\ lock \in Restores \union {None} /\ maintenance \in BOOLEAN
    /\ deleting \in Backups \union {None}
    /\ known \subseteq Backups /\ early \subseteq Backups /\ refused \subseteq Backups
    /\ torn \in Restores \union {None}
    /\ failures \in Nat /\ deletes \in Nat

\* From the drop of the tables on, whatever then fails or dies, the backup the
\* restore made of what it replaced is on the target - unless somebody's delete
\* of it had loaded its row before restore.py:321 protected it (api_views.py:206
\* looks at the flag it loaded, delete_backup does not look again).
Recoverable == torn # None => restore[torn].safety \in files \union early

\* Every archive on the target that a row ever named is named by a row, once a
\* restore has been through its scan: "Nothing on disk is lost by restoring"
\* (docs/getting-started/backup-restore.md:220) - except, until the next scan, an
\* archive whose row was deleted while the target would not delete the archive
\* (engine.py:456-460 logs that and drops the row).
InventoryKept ==
    tables /\ torn = None => known \intersect files \subseteq db.listed \union refused

\* A row that is queued or running does not stay so, not even one a restore
\* brings back from the middle of a dump or whose queued job a restore drops:
\* "must not block anything" (engine.py:397).
BackupsSettle == \A b \in Backups : db.row[b] \in Moving ~> db.row[b] \notin Moving

\* The flag comes down and the lock comes free, wherever a restore ends or dies.
SiteComesBack == []<>(lock = None /\ ~maintenance)

\* Whatever a backup or a restore went through, it is over some day.
EverythingEnds == BackupsSettle /\ SiteComesBack
=============================================================================
