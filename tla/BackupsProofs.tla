----------------------------- MODULE BackupsProofs -----------------------------
(***************************************************************************)
(* What a restore replaced can be restored again, and the inventory of the *)
(* target is whole after a scan, for any number of backups and restores,   *)
(* wherever they fail or die.                                              *)
(*                                                                         *)
(* One restore at a time is past its lock, and while the schema is dropped *)
(* nobody else touches a row: so the safety backup is followed from its    *)
(* first row to the target, through the drop, into a database that has not *)
(* heard of it, up to the scan.  All along it is not what a delete has     *)
(* loaded, and where a row names it the row is protected.                  *)
(***************************************************************************)
EXTENDS Backups, TLAPS

\* Stages at which a restore holds the lock.
Active == {"safety", "safe", "ready", "dropped", "loaded", "reinstated", "adopted"}

\* Types, without what TypeOK says of the dropped tables.
Types ==
    /\ db \in Database /\ tables \in BOOLEAN
    /\ files \subseteq Backups /\ content \in [Backups -> Database]
    /\ used \subseteq Backups
    /\ job \in [Backups -> JobStage] /\ restore \in [Restores -> Restore]
    /\ lock \in Restores \union {None} /\ maintenance \in BOOLEAN
    /\ deleting \in Backups \union {None}
    /\ known \subseteq Backups /\ early \subseteq Backups /\ refused \subseteq Backups
    /\ torn \in Restores \union {None}
    /\ failures \in Nat /\ deletes \in Nat

\* The lock of a restore at work is never another's.
LockHeld == \A r \in Restores : restore[r].stage \in Active => lock = r

\* While the schema is dropped nothing is written: sessions are cut, and the one
\* restore at work has yet to load.
WhileDropped ==
    ~tables => /\ db = EmptyDatabase
               /\ \A b \in Backups : job[b] \in {"none", "queued", "cut"}
               /\ deleting = None
               /\ \A r \in Restores : restore[r].stage \notin Active \ {"dropped"}

DropTears == \A r \in Restores : restore[r].stage = "dropped" => ~tables /\ torn = r

Alone == LockHeld /\ WhileDropped /\ DropTears

\* What is written anywhere is an identifier that was given out.
UsedOnce ==
    /\ files \subseteq used /\ known \subseteq used /\ db.listed \subseteq used
    /\ \A b \in Backups : content[b].listed \subseteq used
    /\ deleting \in used \union {None}
    /\ \A b \in Backups \ used : job[b] = "none"
    /\ \A r \in Restores : {restore[r].of, restore[r].safety} \subseteq used \union {None}

\* An archive that can be read or was named is not dumped any more.
JobsOver == \A b \in files \union known : job[b] \in {"none", "uploaded"}

\* A restore is from an archive that is finished; its safety backup is over when
\* it goes on, and not in the archive it is about to load.
RestoreRefs ==
    \A r \in Restores :
        LET w == restore[r]
        IN /\ w.stage # "none" => w.of \in Backups /\ job[w.of] \in {"none", "uploaded"}
           /\ w.stage \in Active => w.safety \in Backups
           /\ w.stage \in {"none", "queued"} => w.safety = None
           /\ w.stage # "safety" /\ w.safety # None => job[w.safety] = "none"
           /\ w.stage \in {"safety", "safe", "ready", "dropped"} =>
                w.safety \notin content[w.of].listed

Jobs == UsedOnce /\ JobsOver /\ RestoreRefs

\* Nothing that deletes can take it, or a delete was there before.
Guarded(s) ==
    s \in early \/ (s \in files /\ deleting # s /\ (s \in db.listed => s \in db.protected))

SafetyKept ==
    \A r \in Restores :
        LET s == restore[r].safety
        IN /\ restore[r].stage = "safety" =>
                /\ deleting = s => s \in early
                /\ job[s] = "uploaded" \/ db.row[s] = "success" => s \in files \union early
           /\ restore[r].stage \in {"safe", "ready"} \/ torn = r =>
                restore[r].stage # "safety" /\ s # None /\ Guarded(s)

IInv == Types /\ Alone /\ Jobs /\ SafetyKept /\ InventoryKept

-----------------------------------------------------------------------------

\* The invariant implies what the runs check.
LEMMA InvImplies == IInv => TypeOK /\ Recoverable /\ InventoryKept
<1> SUFFICES ASSUME IInv PROVE TypeOK /\ Recoverable
  BY DEF IInv
<1>1. TypeOK
  BY DEF IInv, Types, Alone, WhileDropped, TypeOK
<1>2. Recoverable
  BY DEF IInv, Types, SafetyKept, Guarded, Recoverable
<1> QED
  BY <1>1, <1>2

LEMMA EmptyTypes == EmptyDatabase \in Database
BY DEF EmptyDatabase, Database, RowStatus

LEMMA InitInv == Init => IInv
<1> SUFFICES ASSUME Init PROVE IInv
  OBVIOUS
<1>1. Types
  <2>1. NoRestore \in Restore
    BY DEF NoRestore, Restore, RestoreStage
  <2> QED
    BY <2>1, EmptyTypes DEF Init, Types, JobStage
<1>2. Alone
  BY DEF Init, Alone, LockHeld, WhileDropped, DropTears, NoRestore, Active
<1>3. Jobs
  BY DEF Init, Jobs, UsedOnce, JobsOver, RestoreRefs, NoRestore, Active, EmptyDatabase
<1>4. SafetyKept /\ InventoryKept
  BY NoneAssumption DEF Init, SafetyKept, InventoryKept, NoRestore
<1> QED
  BY <1>1, <1>2, <1>3, <1>4 DEF IInv

-----------------------------------------------------------------------------
(* What the parts of a step do.                                            *)

\* A row of a backup, or of a restore, is written.
LEMMA RowWritten ==
    ASSUME NEW d \in Database, NEW b \in Backups, NEW s \in RowStatus
    PROVE  LET e == [d EXCEPT !.row[b] = s]
           IN /\ e \in Database /\ e.listed = d.listed /\ e.protected = d.protected
              /\ e.row[b] = s /\ \A c \in Backups \ {b} : e.row[c] = d.row[c]
              /\ e.run = d.run
BY DEF Database

LEMMA RunWritten ==
    ASSUME NEW d \in Database, NEW r \in Restores, NEW s \in RowStatus
    PROVE  LET e == [d EXCEPT !.run[r] = s]
           IN /\ e \in Database /\ e.listed = d.listed /\ e.protected = d.protected
              /\ e.row = d.row
BY DEF Database

\* A restore takes a step.
LEMMA Moves ==
    ASSUME NEW r \in Restores, NEW s \in RestoreStage, To(r, s),
           restore \in [Restores -> Restore]
    PROVE  /\ restore' \in [Restores -> Restore]
           /\ restore'[r].stage = s
           /\ \A q \in Restores \ {r} : restore'[q] = restore[q]
           /\ \A q \in Restores : /\ restore'[q].of = restore[q].of
                                  /\ restore'[q].safety = restore[q].safety
BY DEF To, Restore

\* A new identifier was never given out.
LEMMA NewIsUnused == ASSUME NEW b, New(b) PROVE b \in Backups \ used
<1>1. PICK ids \in {Restorable \ used, Backups \ (Restorable \union used)} \ {{}} :
        b = CHOOSE a \in ids : TRUE
  BY DEF New
<1>2. b \in ids
  BY <1>1
<1> QED
  BY <1>1, <1>2, RestorableAssumption

\* A request gives a restore that nobody asked for its archive.
LEMMA RequestMakes ==
    ASSUME NEW b \in Backups, Request(b)
    PROVE  \E r \in Restores :
              /\ restore[r] = NoRestore
              /\ db' = [db EXCEPT !.run[r] = "queued"]
              /\ restore' = [restore EXCEPT ![r] = [stage |-> "queued", of |-> b, safety |-> None]]
<1> DEFINE r == CHOOSE q \in Restores : restore[q] = NoRestore
<1>1. r \in Restores /\ restore[r] = NoRestore
  BY DEF Request
<1> QED
  BY <1>1 DEF Request

-----------------------------------------------------------------------------
(* Types.                                                                  *)

\* Every archive found gets its row.
LEMMA AdoptTypes ==
    ASSUME Types, AdoptOrphans
    PROVE  /\ db' \in Database /\ known' \subseteq Backups /\ torn' = None /\ refused' = {}
           /\ db'.row = db.row /\ db'.run = db.run
           /\ db'.listed = db.listed \union files
           /\ db'.protected = db.protected \union ((files \ db.listed) \intersect PreRestore)
           /\ known' = known \union (files \ db.listed)
BY DEF Types, AdoptOrphans, Orphans, Database

\* What is deleted is what the target does not refuse to delete.
LEMMA DeletedTypes ==
    ASSUME Types, NEW archives \in SUBSET Backups, NEW gone, NEW named \in SUBSET Backups,
           DeleteArchives(archives, gone, named)
    PROVE  /\ known' \subseteq Backups /\ files' \subseteq Backups /\ refused' \subseteq Backups
           /\ failures' \in Nat /\ deletes' \in Nat
BY DEF Types, DeleteArchives, Fault, bounds

LEMMA Deleted ==
    ASSUME NEW archives, NEW gone, NEW named, DeleteArchives(archives, gone, named)
    PROVE  /\ files' \subseteq files /\ files \ archives \subseteq files'
           /\ known' \subseteq known \union named
           /\ refused \subseteq refused'
           /\ gone \intersect archives \intersect files' \subseteq refused'
BY DEF DeleteArchives

\* What a backup does.
LEMMA BackupTypes ==
    ASSUME Types, NEW b \in Backups,
           Fire(b) \/ BackupStep(b) \/ Fails(b) \/ WorkerDies(b) \/ Reap(b)
           \/ DeleteLoad(b) \/ DeleteFinish(b)
    PROVE  Types'
<1> USE DEF Types, target, history, bounds
<1>a. \A s \in RowStatus : [db EXCEPT !.row[b] = s] \in Database
  BY RowWritten
<1>b. \A s \in JobStage : [job EXCEPT ![b] = s] \in [Backups -> JobStage]
  OBVIOUS
<1>1. CASE Fire(b)
  <2>1. db' \in Database /\ job' \in [Backups -> JobStage]
    BY <1>1, <1>a, <1>b DEF Fire, RowStatus, JobStage
  <2> QED
    BY <1>1, <2>1 DEF Fire
<1>2. CASE Start(b)
  <2>1. db' \in Database /\ job' \in [Backups -> JobStage]
    BY <1>2, <1>a, <1>b DEF Start, RowStatus, JobStage
  <2> QED
    BY <1>2, <2>1 DEF Start
<1>3. CASE Dump(b)
  BY <1>3 DEF Dump, JobStage
<1>4. CASE Upload(b) \/ UploadCut(b)
  BY <1>4 DEF Upload, UploadCut, JobStage
<1>5. CASE Save(b)
  <2>1. PICK gone \in SUBSET Prunable, kept \in SUBSET Prunable :
          /\ DeleteArchives(gone \union kept, gone, {b})
          /\ db' = [db EXCEPT
                !.row = [p \in Backups |-> CASE p \in gone -> "absent"
                                             [] p = b -> IF kept = {} THEN "success" ELSE "failed"
                                             [] OTHER -> @[p]],
                !.listed = (@ \union {b}) \ gone]
    BY <1>5 DEF Save
  <2>2. db' \in Database
    BY <2>1 DEF Database, RowStatus
  <2>3. job' \in [Backups -> JobStage]
    BY <1>5 DEF Save, JobStage
  <2>4. UNCHANGED <<tables, content, used, restore, lock, maintenance, deleting, torn, early>>
    BY <1>5 DEF Save
  <2>5. /\ known' \subseteq Backups /\ files' \subseteq Backups /\ refused' \subseteq Backups
        /\ failures' \in Nat /\ deletes' \in Nat
    <3>1. gone \union kept \in SUBSET Backups
      BY DEF Prunable, Database
    <3> QED
      BY <2>1, <3>1, DeletedTypes
  <2> QED
    BY <2>2, <2>3, <2>4, <2>5
<1>6. CASE Fails(b) \/ WorkerDies(b)
  <2>1. db' \in Database /\ job' \in [Backups -> JobStage]
    BY <1>6, <1>a, <1>b DEF Fails, WorkerDies, RowStatus, JobStage
  <2> QED
    BY <1>6, <2>1 DEF Fails, WorkerDies, Fault
<1>7. CASE Reap(b)
  BY <1>7, <1>a DEF Reap, RowStatus
<1>8. CASE DeleteLoad(b)
  BY <1>8 DEF DeleteLoad
<1>9. CASE DeleteFinish(b)
  <2>1. db' \in Database
    BY <1>9 DEF DeleteFinish, Database, RowStatus
  <2>2. /\ known' \subseteq Backups /\ files' \subseteq Backups /\ refused' \subseteq Backups
        /\ failures' \in Nat /\ deletes' \in Nat
    BY <1>9, DeletedTypes DEF DeleteFinish
  <2>3. UNCHANGED <<tables, content, used, job, restore, lock, maintenance, torn, early>>
    BY <1>9 DEF DeleteFinish
  <2>4. deleting' = None
    BY <1>9 DEF DeleteFinish
  <2> QED
    BY <2>1, <2>2, <2>3, <2>4
<1> QED
  BY <1>1, <1>2, <1>3, <1>4, <1>5, <1>6, <1>7, <1>8, <1>9 DEF BackupStep

\* What a restore does.
LEMMA RestoreTypes ==
    ASSUME Types, RestoreRefs, NEW r \in Restores,
           RestoreStep(r) \/ RestoreRaises(r) \/ RestoreDies(r)
    PROVE  Types'
<1> USE DEF Types, target, history, bounds
<1>a. RestoreFails(r) => db' \in Database /\ restore' \in [Restores -> Restore]
  BY RunWritten, Moves DEF RestoreFails, RestoreStage, RowStatus
<1>b. restore[r].stage \in Active => restore[r].safety \in Backups /\ restore[r].of \in Backups
  BY DEF RestoreRefs, Active
<1>1. CASE RestoreMissing(r)
  BY <1>1, Moves DEF RestoreMissing, RestoreStage
<1>2. CASE RestoreRefused(r)
  BY <1>2, Moves, RunWritten DEF RestoreRefused, RestoreStage, RowStatus
<1>3. ASSUME NEW s \in Backups, RestoreStart(r, s) PROVE Types'
  <2>1. db' \in Database
    BY <1>3 DEF RestoreStart, Database, RowStatus
  <2>2. restore' \in [Restores -> Restore]
    BY <1>3 DEF RestoreStart, Restore, RestoreStage
  <2> QED
    BY <1>3, <2>1, <2>2 DEF RestoreStart, JobStage
<1>4. CASE Protect(r)
  <2>1. db' \in Database
    BY <1>4, <1>b DEF Protect, Database, Active
  <2> QED
    BY <1>4, <2>1, Moves DEF Protect, RestoreStage
<1>5. CASE Download(r)
  BY <1>5, Moves DEF Download, RestoreStage
<1>6. CASE Drop(r)
  BY <1>6, Moves, EmptyTypes DEF Drop, RestoreStage, JobStage, Cut
<1>7. CASE Load(r)
  BY <1>7, <1>b, Moves DEF Load, RestoreStage, Active
<1>8. CASE Reinstate(r)
  <2>1. db' \in Database
    BY <1>8, <1>b DEF Reinstate, Database, RowStatus, Active
  <2> QED
    BY <1>8, <2>1, Moves DEF Reinstate, RestoreStage
<1>9. CASE Adopt(r)
  BY <1>9, Moves, AdoptTypes DEF Adopt, RestoreStage
<1>10. CASE Finish(r)
  <2>1. db' \in Database
    BY <1>10, RunWritten DEF Finish, RowStatus
  <2>2. restore' \in [Restores -> Restore]
    BY <1>10 DEF Finish, Restore, RestoreStage
  <2>3. job' \in [Backups -> JobStage]
    BY <1>10 DEF Finish, JobStage
  <2> QED
    BY <1>10, <2>1, <2>2, <2>3 DEF Finish, Leave
<1>11. CASE RestoreCannot(r) \/ RestoreRaises(r)
  <2>1. RestoreFails(r)
    BY <1>11 DEF RestoreCannot, RestoreRaises
  <2>2. failures' \in Nat /\ deletes' \in Nat
    BY <1>11 DEF RestoreCannot, RestoreRaises, Fault
  <2> QED
    BY <2>1, <2>2, <1>a DEF RestoreFails, Leave
<1>12. CASE RestoreDies(r)
  BY <1>12, Moves DEF RestoreDies, Fault, RestoreStage, JobStage
<1> QED
  BY <1>1, <1>2, <1>3, <1>4, <1>5, <1>6, <1>7, <1>8, <1>9, <1>10, <1>11, <1>12
  DEF RestoreStep

LEMMA StepTypes == Types /\ RestoreRefs /\ [Next]_vars => Types'
<1> SUFFICES ASSUME Types, RestoreRefs, [Next]_vars PROVE Types'
  OBVIOUS
<1> USE DEF Types, target, history, bounds
<1>1. ASSUME NEW b \in Backups, Request(b) PROVE Types'
  <2>1. PICK r \in Restores :
          /\ db' = [db EXCEPT !.run[r] = "queued"]
          /\ restore' = [restore EXCEPT ![r] = [stage |-> "queued", of |-> b, safety |-> None]]
    BY <1>1, RequestMakes
  <2>2. [stage |-> "queued", of |-> b, safety |-> None] \in Restore
    BY DEF Restore, RestoreStage
  <2>3. db' \in Database /\ restore' \in [Restores -> Restore]
    BY <2>1, <2>2, RunWritten DEF RowStatus
  <2> QED
    BY <1>1, <2>3 DEF Request
<1>2. CASE Scan
  BY <1>2, AdoptTypes DEF Scan
<1>3. CASE LockLapses \/ FlagLapses
  BY <1>3 DEF LockLapses, FlagLapses
<1>4. CASE UNCHANGED vars
  BY <1>4 DEF vars
<1> QED
  BY <1>1, <1>2, <1>3, <1>4, BackupTypes, RestoreTypes DEF Next

-----------------------------------------------------------------------------
(* One restore at a time, alone while the schema is dropped.               *)

\* A backup does nothing that a restore would see, and next to nothing while the
\* schema is dropped.
LEMMA BackupAlone ==
    ASSUME Types, Alone, NEW b \in Backups,
           Fire(b) \/ BackupStep(b) \/ Fails(b) \/ WorkerDies(b) \/ Reap(b)
           \/ DeleteLoad(b) \/ DeleteFinish(b)
    PROVE  Alone'
<1> USE DEF target, history, bounds
<1>1. UNCHANGED <<tables, restore, lock, torn>>
  <2>1. CASE Fire(b) \/ BackupStep(b)
    BY <2>1 DEF Fire, BackupStep, Start, Dump, Upload, UploadCut, Save
  <2>2. CASE Fails(b) \/ WorkerDies(b) \/ Reap(b) \/ DeleteLoad(b) \/ DeleteFinish(b)
    BY <2>2 DEF Fails, WorkerDies, Reap, DeleteLoad, DeleteFinish
  <2> QED
    BY <2>1, <2>2
<1>2. ASSUME ~tables PROVE Start(b) \/ UploadCut(b)
  <2>1. job[b] \in {"none", "queued", "cut"} /\ deleting = None
    BY <1>2 DEF Alone, WhileDropped
  <2> QED
    BY <1>2, <2>1, NoneAssumption DEF Fire, BackupStep, Dump, Upload, Save, Fails,
       WorkerDies, Reap, DeleteLoad, DeleteFinish
<1>3. ASSUME ~tables
      PROVE  /\ UNCHANGED <<db, deleting>>
             /\ \A c \in Backups : job'[c] \in {job[c], "none"}
  BY <1>2, <1>3 DEF Start, UploadCut, Types
<1>4. WhileDropped'
  BY <1>1, <1>3 DEF Alone, WhileDropped
<1> QED
  BY <1>1, <1>4 DEF Alone, LockHeld, DropTears

\* A restore at work is alone.
LEMMA OneActive ==
    ASSUME LockHeld, NEW r \in Restores, restore[r].stage \in Active
    PROVE  /\ lock = r
           /\ \A q \in Restores \ {r} : restore[q].stage \notin Active
BY DEF LockHeld

\* One that goes on stays alone, and one that ends frees the lock.
LEMMA MovesLock ==
    ASSUME Types, LockHeld, NEW r \in Restores, NEW s \in RestoreStage, To(r, s),
           \/ restore[r].stage \in Active /\ s \in Active /\ lock' = lock
           \/ restore[r].stage \in Active /\ s \notin Active
           \/ s \notin Active /\ lock' = lock
    PROVE  LockHeld'
<1>1. /\ restore'[r].stage = s
      /\ \A q \in Restores \ {r} : restore'[q] = restore[q]
  BY Moves DEF Types
<1> QED
  BY <1>1 DEF LockHeld

\* While the tables are there and nothing is dropped, there is little to show.
LEMMA TablesAlone ==
    ASSUME LockHeld', tables', \A r \in Restores : restore'[r].stage # "dropped"
    PROVE  Alone'
BY DEF Alone, WhileDropped, DropTears

LEMMA RestoreAlone ==
    ASSUME Types, Alone, NEW r \in Restores,
           RestoreStep(r) \/ RestoreRaises(r) \/ RestoreDies(r)
    PROVE  Alone'
<1> USE DEF target, history, bounds
<1> DEFINE stage == restore[r].stage
<1>a. LockHeld /\ WhileDropped /\ DropTears
  BY DEF Alone
<1>b. \A s \in RestoreStage : To(r, s) =>
         /\ restore'[r].stage = s
         /\ \A q \in Restores \ {r} : restore'[q] = restore[q]
  BY Moves DEF Types
<1>1. CASE RestoreMissing(r)
  <2>1. To(r, "done") /\ UNCHANGED <<db, tables, job, lock, deleting, torn>>
    BY <1>1 DEF RestoreMissing
  <2>2. LockHeld'
    BY <2>1, <1>a, MovesLock DEF RestoreStage, Active
  <2>3. WhileDropped' /\ DropTears'
    BY <2>1, <1>a, <1>b DEF WhileDropped, DropTears, RestoreStage, Active
  <2> QED
    BY <2>2, <2>3 DEF Alone
<1>2. ASSUME tables, tables', stage # "dropped",
             NEW s \in RestoreStage \ {"dropped"}, To(r, s), LockHeld'
      PROVE  Alone'
  <2>1. \A q \in Restores : restore'[q].stage # "dropped"
    BY <1>2, <1>a, <1>b DEF DropTears
  <2> QED
    BY <1>2, <2>1, TablesAlone
<1>3. CASE RestoreRefused(r)
  <2>1. To(r, "done") /\ tables /\ tables' /\ lock' = lock /\ stage = "queued"
    BY <1>3 DEF RestoreRefused
  <2> QED
    BY <2>1, <1>2, <1>a, MovesLock DEF RestoreStage, Active
<1>4. ASSUME NEW s \in Backups, RestoreStart(r, s) PROVE Alone'
  <2>1. /\ tables /\ tables' /\ lock = None /\ lock' = r
        /\ restore' = [restore EXCEPT ![r].stage = "safety", ![r].safety = s]
    BY <1>4 DEF RestoreStart
  <2>2. \A q \in Restores : restore[q].stage \notin Active
    BY <2>1, <1>a, NoneAssumption DEF LockHeld
  <2>3. /\ restore'[r].stage = "safety"
        /\ \A q \in Restores \ {r} : restore'[q] = restore[q]
    BY <2>1 DEF Types, Restore
  <2>4. LockHeld'
    BY <2>1, <2>2, <2>3 DEF LockHeld
  <2> QED
    BY <2>1, <2>2, <2>3, <2>4, TablesAlone DEF Active
<1>5. CASE Protect(r) \/ Download(r) \/ Reinstate(r) \/ Adopt(r)
  <2>1. PICK s \in Active \ {"dropped"} : To(r, s)
    BY <1>5 DEF Protect, Download, Reinstate, Adopt, Active
  <2>2. UNCHANGED <<tables, lock>> /\ stage \in Active \ {"dropped"}
    BY <1>5 DEF Protect, Download, Reinstate, Adopt, Active
  <2>3. tables
    BY <2>2, <1>a DEF WhileDropped
  <2> QED
    BY <2>1, <2>2, <2>3, <1>2, <1>a, MovesLock DEF Active, RestoreStage
<1>6. CASE Drop(r)
  <2>1. /\ stage = "ready" /\ ~tables' /\ db' = EmptyDatabase /\ torn' = r
        /\ job' = [b \in Backups |-> Cut(job[b])]
        /\ deleting' = None /\ lock' = lock /\ To(r, "dropped")
    BY <1>6 DEF Drop
  <2>2. LockHeld'
    BY <2>1, <1>a, MovesLock DEF RestoreStage, Active
  <2>3. /\ restore'[r].stage = "dropped"
        /\ \A q \in Restores \ {r} : restore'[q].stage \notin Active
    BY <2>1, <1>a, <1>b, OneActive DEF RestoreStage, Active
  <2>4. \A b \in Backups : job'[b] \in {"none", "queued", "cut"}
    BY <2>1 DEF Cut, Types, JobStage
  <2> QED
    BY <2>1, <2>2, <2>3, <2>4 DEF Alone, WhileDropped, DropTears, Active
<1>7. CASE Load(r)
  <2>1. stage = "dropped" /\ tables' /\ lock' = lock /\ To(r, "loaded")
    BY <1>7 DEF Load
  <2>2. LockHeld'
    BY <2>1, <1>a, MovesLock DEF RestoreStage, Active
  <2>3. \A q \in Restores : restore'[q].stage # "dropped"
    BY <2>1, <1>a, <1>b, OneActive DEF RestoreStage, Active
  <2> QED
    BY <2>1, <2>2, <2>3, TablesAlone
<1>8. CASE Finish(r)
  <2>1. /\ stage = "adopted" /\ tables' = tables
        /\ restore' = [q \in Restores |->
                          IF q = r \/ restore[q].stage = "queued"
                          THEN [restore[q] EXCEPT !.stage = "done"] ELSE restore[q]]
    BY <1>8 DEF Finish
  <2>2. \A q \in Restores : restore'[q].stage \in {"done", restore[q].stage}
    BY <2>1 DEF Types, Restore
  <2>3. restore'[r].stage = "done"
    BY <2>1 DEF Types, Restore
  <2>4. \A q \in Restores : restore'[q].stage \notin Active
    BY <2>1, <2>2, <2>3, <1>a, OneActive DEF Active
  <2>5. tables
    BY <2>1, <1>a DEF WhileDropped, Active
  <2> QED
    BY <2>1, <2>4, <2>5, TablesAlone DEF LockHeld, Active
<1>9. ASSUME stage \in Active, To(r, "done"), UNCHANGED <<tables, deleting, torn>>,
             ~tables => db' = db, \A b \in Backups : job'[b] \in {job[b], "none"}
      PROVE  Alone'
  <2>1. LockHeld'
    BY <1>9, <1>a, MovesLock DEF RestoreStage, Active
  <2>2. \A q \in Restores : restore'[q].stage \in {restore[q].stage, "done"}
    BY <1>9, <1>b DEF RestoreStage
  <2> QED
    BY <1>9, <2>1, <2>2, <1>a DEF Alone, WhileDropped, DropTears, Active
<1>10. CASE RestoreCannot(r) \/ RestoreRaises(r)
  <2>1. RestoreFails(r) /\ stage \in Active
    BY <1>10 DEF RestoreCannot, RestoreRaises, Active
  <2>2. ~tables => db' = db
    BY <2>1, <1>a DEF RestoreFails, WhileDropped, EmptyDatabase
  <2> QED
    BY <2>1, <2>2, <1>9 DEF RestoreFails
<1>11. CASE RestoreDies(r)
  <2>1. stage \in Active
    BY <1>11 DEF RestoreDies, Types, Restore, RestoreStage, Active
  <2>2. \A b \in Backups : job'[b] \in {job[b], "none"}
    BY <1>11 DEF RestoreDies
  <2> QED
    BY <1>11, <2>1, <2>2, <1>9 DEF RestoreDies
<1> QED
  BY <1>1, <1>3, <1>4, <1>5, <1>6, <1>7, <1>8, <1>10, <1>11 DEF RestoreStep

LEMMA StepAlone == Types /\ Alone /\ [Next]_vars => Alone'
<1> SUFFICES ASSUME Types, Alone, [Next]_vars PROVE Alone'
  OBVIOUS
<1> USE DEF target, history, bounds
<1>1. ASSUME NEW b \in Backups, Request(b) PROVE Alone'
  <2>1. PICK r \in Restores :
          restore' = [restore EXCEPT ![r] = [stage |-> "queued", of |-> b, safety |-> None]]
    BY <1>1, RequestMakes
  <2>2. tables /\ tables' /\ lock' = lock
    BY <1>1 DEF Request
  <2>3. \A q \in Restores : restore'[q].stage \in {"queued", restore[q].stage}
    BY <2>1 DEF Types
  <2> QED
    BY <2>2, <2>3, TablesAlone DEF Alone, LockHeld, DropTears, Active
<1>2. CASE Scan
  BY <1>2, TablesAlone DEF Scan, Alone, LockHeld, DropTears
<1>3. CASE LockLapses
  <2>1. \A q \in Restores : restore[q].stage \notin Active
    BY <1>3 DEF LockLapses, LockDead, Alone, LockHeld, Active
  <2> QED
    BY <1>3, <2>1 DEF LockLapses, Alone, LockHeld, WhileDropped, DropTears
<1>4. CASE FlagLapses \/ UNCHANGED vars
  BY <1>4 DEF FlagLapses, vars, Alone, LockHeld, WhileDropped, DropTears
<1> QED
  BY <1>1, <1>2, <1>3, <1>4, BackupAlone, RestoreAlone DEF Next

-----------------------------------------------------------------------------
(* Identifiers, jobs and archives.                                         *)

\* What a restore refers to stays as it is when jobs that are over stay over, and
\* archives that are made keep their content.
LEMMA RefsKept ==
    ASSUME UsedOnce, RestoreRefs, UNCHANGED restore,
           \A c \in used : job[c] = "none" => job'[c] = "none",
           \A c \in used : job[c] = "uploaded" => job'[c] \in {"none", "uploaded"},
           \A c \in Backups : job[c] # "started" => content'[c] = content[c]
    PROVE  RestoreRefs'
<1> SUFFICES ASSUME NEW r \in Restores
             PROVE  LET w == restore[r]
                    IN /\ w.stage # "none" =>
                            w.of \in Backups /\ job'[w.of] \in {"none", "uploaded"}
                       /\ w.stage \in Active => w.safety \in Backups
                       /\ w.stage \in {"none", "queued"} => w.safety = None
                       /\ w.stage # "safety" /\ w.safety # None => job'[w.safety] = "none"
                       /\ w.stage \in {"safety", "safe", "ready", "dropped"} =>
                            w.safety \notin content'[w.of].listed
  BY DEF RestoreRefs
<1>1. {restore[r].of, restore[r].safety} \subseteq used \union {None}
  BY DEF UsedOnce
<1>2. None \notin Backups
  BY NoneAssumption
<1> QED
  BY <1>1, <1>2 DEF RestoreRefs

\* The job of a backup goes on, from a stage where it is not over, to another.
LEMMA JobMoves ==
    ASSUME Types, Jobs, NEW b \in Backups, UNCHANGED restore,
           used' \in SUBSET Backups, used \subseteq used', b \in used',
           \A c \in Backups \ {b} : job'[c] = job[c],
           \A c \in Backups : job[c] # "started" => content'[c] = content[c],
           \A c \in Backups : content'[c].listed \subseteq used',
           b \in used => job[b] # "none" \/ job'[b] = "none",
           b \in used => (job[b] = "uploaded" => job'[b] \in {"none", "uploaded"}),
           files' \subseteq used', known' \subseteq used', db'.listed \subseteq used',
           deleting' \in used' \union {None},
           files' \union known' \subseteq files \union known \union {b},
           b \in files' \union known' => job'[b] \in {"none", "uploaded"}
    PROVE  Jobs'
<1>1. \A c \in Backups \ used' : job'[c] = "none"
  BY DEF Jobs, UsedOnce
<1>2. UsedOnce'
  BY <1>1 DEF Jobs, UsedOnce
<1>3. JobsOver'
  BY DEF Jobs, JobsOver, Types
<1>4. RestoreRefs'
  BY RefsKept DEF Jobs, Types
<1> QED
  BY <1>2, <1>3, <1>4 DEF Jobs

LEMMA BackupJobs ==
    ASSUME Types, Jobs, NEW b \in Backups,
           Fire(b) \/ BackupStep(b) \/ Fails(b) \/ WorkerDies(b) \/ Reap(b)
           \/ DeleteLoad(b) \/ DeleteFinish(b)
    PROVE  Jobs'
<1> USE DEF target, history, bounds
<1>a. /\ files \subseteq used /\ known \subseteq used /\ db.listed \subseteq used
      /\ \A c \in Backups : content[c].listed \subseteq used
      /\ deleting \in used \union {None} /\ used \subseteq Backups
      /\ db \in Database /\ job \in [Backups -> JobStage]
  BY DEF Jobs, UsedOnce, Types
<1>b. job[b] # "none" => b \in used
  BY DEF Jobs, UsedOnce
<1>c. b \in files \union known => job[b] \in {"none", "uploaded"}
  BY DEF Jobs, JobsOver
<1>d. \A s \in RowStatus : [db EXCEPT !.row[b] = s].listed = db.listed
  BY <1>a, RowWritten
<1>1. CASE Fire(b)
  <2>1. b \notin used /\ used' = used \union {b}
    BY <1>1, NewIsUnused DEF Fire
  <2>2. db'.listed = db.listed
    BY <1>1, <1>d DEF Fire, RowStatus
  <2>3. /\ UNCHANGED <<files, content, restore, deleting, known>>
        /\ \A c \in Backups \ {b} : job'[c] = job[c]
    BY <1>1, <1>a DEF Fire
  <2> QED
    BY <2>1, <2>2, <2>3, <1>a, JobMoves
<1>2. CASE Start(b)
  <2>1. b \in used /\ job[b] = "queued" /\ \A c \in Backups \ {b} : job'[c] = job[c]
    BY <1>2, <1>a, <1>b DEF Start
  <2>2. db'.listed = db.listed
    BY <1>2, <1>d DEF Start, RowStatus
  <2>3. UNCHANGED <<files, content, restore, deleting, known, used>>
    BY <1>2 DEF Start
  <2> QED
    BY <2>1, <2>2, <2>3, <1>a, <1>c, JobMoves
<1>3. CASE Dump(b)
  <2>1. /\ b \in used /\ job[b] = "started" /\ \A c \in Backups \ {b} : job'[c] = job[c]
        /\ UNCHANGED <<db, files, restore, deleting, known, used>>
    BY <1>3, <1>a, <1>b DEF Dump
  <2>2. \A c \in Backups : content'[c] = content[c] \/ (c = b /\ content'[c] = db)
    BY <1>3 DEF Dump, Types
  <2>3. \A c \in Backups : content'[c].listed \subseteq used
    BY <2>2, <1>a
  <2> QED
    BY <2>1, <2>2, <2>3, <1>a, <1>c, JobMoves
<1>4. CASE Upload(b)
  <2>1. /\ b \in used /\ job[b] = "dumped" /\ job'[b] = "uploaded"
        /\ \A c \in Backups \ {b} : job'[c] = job[c]
        /\ UNCHANGED <<db, content, restore, deleting, known, used>>
        /\ files' = files \union {b}
    BY <1>4, <1>a, <1>b DEF Upload
  <2> QED
    BY <2>1, <1>a, JobMoves
<1>5. CASE UploadCut(b)
  <2>1. /\ b \in used /\ job[b] = "cut" /\ job'[b] = "none"
        /\ \A c \in Backups \ {b} : job'[c] = job[c]
        /\ UNCHANGED <<db, content, restore, deleting, known, used>>
        /\ files' \subseteq files \union {b}
    BY <1>5, <1>a, <1>b DEF UploadCut
  <2> QED
    BY <2>1, <1>a, JobMoves
<1>6. CASE Save(b)
  <2>1. /\ b \in used /\ job[b] = "uploaded" /\ job'[b] = "none"
        /\ \A c \in Backups \ {b} : job'[c] = job[c]
        /\ UNCHANGED <<content, restore, deleting, used>>
    BY <1>6, <1>a, <1>b DEF Save
  <2>2. files' \subseteq files /\ known' \subseteq known \union {b}
    BY <1>6, Deleted DEF Save
  <2>3. db'.listed \subseteq db.listed \union {b}
    BY <1>6, <1>a DEF Save, Database
  <2> QED
    BY <2>1, <2>2, <2>3, <1>a, JobMoves
<1>7. CASE Fails(b) \/ WorkerDies(b)
  <2>1. /\ b \in used /\ job[b] # "none" /\ job'[b] = "none"
        /\ \A c \in Backups \ {b} : job'[c] = job[c]
        /\ UNCHANGED <<files, content, used, restore, deleting, known>>
    BY <1>7, <1>a, <1>b DEF Fails, WorkerDies
  <2>2. db'.listed = db.listed
    BY <1>7, <1>d DEF Fails, WorkerDies, RowStatus
  <2> QED
    BY <2>1, <2>2, <1>a, JobMoves
<1>8. ASSUME UNCHANGED <<restore, used, job, content>>,
             files' \subseteq files, known' \subseteq known, db'.listed \subseteq db.listed,
             deleting' \in db.listed \union {deleting, None}
      PROVE  Jobs'
  <2>1. UsedOnce'
    BY <1>8, <1>a DEF Jobs, UsedOnce
  <2>2. JobsOver' /\ RestoreRefs'
    BY <1>8 DEF Jobs, JobsOver, RestoreRefs
  <2> QED
    BY <2>1, <2>2 DEF Jobs
<1>9. CASE Reap(b)
  <2>1. db'.listed = db.listed
    BY <1>9, <1>d DEF Reap, RowStatus
  <2> QED
    BY <1>9, <2>1, <1>8 DEF Reap
<1>10. CASE DeleteLoad(b)
  BY <1>10, <1>8 DEF DeleteLoad, Deletable
<1>11. CASE DeleteFinish(b)
  <2>1. db'.listed \subseteq db.listed
    BY <1>11, <1>a DEF DeleteFinish, Database
  <2>2. files' \subseteq files /\ known' \subseteq known
    BY <1>11, Deleted DEF DeleteFinish
  <2> QED
    BY <1>11, <2>1, <2>2, <1>8 DEF DeleteFinish
<1> QED
  BY <1>1, <1>2, <1>3, <1>4, <1>5, <1>6, <1>7, <1>9, <1>10, <1>11 DEF BackupStep

\* A restore that goes on, or ends, refers to what it did.
LEMMA RefsMove ==
    ASSUME Types, UsedOnce, RestoreRefs, NEW r \in Restores,
           NEW s \in RestoreStage \ {"none", "queued", "safety"}, To(r, s),
           UNCHANGED content,
           \A c \in used : job[c] = "none" => job'[c] = "none",
           \A c \in used : job[c] = "uploaded" => job'[c] \in {"none", "uploaded"},
           restore[r].stage # "none",
           restore[r].stage = "safety" => job'[restore[r].safety] = "none",
           s \in Active => restore[r].stage \in Active,
           s \in {"safe", "ready", "dropped"} =>
               restore[r].stage \in {"safety", "safe", "ready", "dropped"}
    PROVE  RestoreRefs'
<1>a. /\ restore'[r].stage = s
      /\ \A q \in Restores \ {r} : restore'[q] = restore[q]
      /\ \A q \in Restores : /\ restore'[q].of = restore[q].of
                             /\ restore'[q].safety = restore[q].safety
  BY Moves DEF Types
<1>b. \A q \in Restores : {restore[q].of, restore[q].safety} \subseteq used \union {None}
  BY DEF UsedOnce
<1>c. None \notin Backups
  BY NoneAssumption
<1> SUFFICES ASSUME NEW q \in Restores
             PROVE  LET w == restore'[q]
                    IN /\ w.stage # "none" =>
                            w.of \in Backups /\ job'[w.of] \in {"none", "uploaded"}
                       /\ w.stage \in Active => w.safety \in Backups
                       /\ w.stage \in {"none", "queued"} => w.safety = None
                       /\ w.stage # "safety" /\ w.safety # None => job'[w.safety] = "none"
                       /\ w.stage \in {"safety", "safe", "ready", "dropped"} =>
                            w.safety \notin content'[w.of].listed
  BY DEF RestoreRefs
<1>1. restore'[q].stage # "none" => restore[q].stage # "none"
  BY <1>a
<1>2. restore'[q].stage # "none" =>
        restore'[q].of \in Backups /\ job'[restore'[q].of] \in {"none", "uploaded"}
  BY <1>a, <1>b, <1>c, <1>1 DEF RestoreRefs
<1>3. restore'[q].stage \in Active => restore'[q].safety \in Backups
  BY <1>a DEF RestoreRefs
<1>4. restore'[q].stage \in {"none", "queued"} => restore'[q].safety = None
  BY <1>a DEF RestoreRefs
<1>5. restore'[q].stage # "safety" /\ restore'[q].safety # None =>
        job'[restore'[q].safety] = "none"
  BY <1>a, <1>b, <1>c DEF RestoreRefs
<1>6. restore'[q].stage \in {"safety", "safe", "ready", "dropped"} =>
        restore'[q].safety \notin content'[restore'[q].of].listed
  BY <1>a DEF RestoreRefs
<1> QED
  BY <1>2, <1>3, <1>4, <1>5, <1>6

\* What the steps of a restore that leave the jobs alone have in common.
LEMMA MovesJobs ==
    ASSUME Types, Jobs, NEW r \in Restores,
           NEW s \in RestoreStage \ {"none", "queued", "safety"}, To(r, s),
           UNCHANGED <<files, content, used>>,
           \A c \in Backups : job[c] = "none" => job'[c] = "none",
           \A c \in Backups : job[c] = "uploaded" => job'[c] \in {"none", "uploaded"},
           known' \subseteq known \union files,
           db'.listed \subseteq used, deleting' \in {deleting, None},
           restore[r].stage # "none",
           restore[r].stage = "safety" => job'[restore[r].safety] = "none",
           s \in Active => restore[r].stage \in Active,
           s \in {"safe", "ready", "dropped"} =>
               restore[r].stage \in {"safety", "safe", "ready", "dropped"}
    PROVE  Jobs'
<1>1. RestoreRefs'
  BY RefsMove DEF Jobs, Types
<1>2. \A q \in Restores : /\ restore'[q].of = restore[q].of
                          /\ restore'[q].safety = restore[q].safety
  BY Moves DEF Types
<1>3. UsedOnce'
  BY <1>2 DEF Jobs, UsedOnce
<1>4. JobsOver'
  BY DEF Jobs, JobsOver, Types
<1> QED
  BY <1>1, <1>3, <1>4 DEF Jobs

LEMMA RestoreJobs ==
    ASSUME Types, Jobs, NEW r \in Restores,
           RestoreStep(r) \/ RestoreRaises(r) \/ RestoreDies(r)
    PROVE  Jobs'
<1> USE DEF target, history, bounds
<1> DEFINE stage == restore[r].stage
           safety == restore[r].safety
<1>a. /\ files \subseteq used /\ known \subseteq used /\ db.listed \subseteq used
      /\ \A c \in Backups : content[c].listed \subseteq used
      /\ used \subseteq Backups /\ db \in Database /\ job \in [Backups -> JobStage]
      /\ {restore[r].of, safety} \subseteq used \union {None}
  BY DEF Jobs, UsedOnce, Types
<1>b. stage \in Active => safety \in used /\ restore[r].of \in used
  BY <1>a, NoneAssumption DEF Jobs, RestoreRefs, Active
<1>c. \A s \in RowStatus : [db EXCEPT !.run[r] = s].listed = db.listed
  BY <1>a, RunWritten
<1>1. CASE RestoreMissing(r)
  BY <1>1, <1>a, MovesJobs DEF RestoreMissing, RestoreStage, Active
<1>2. CASE RestoreRefused(r)
  <2>1. db'.listed = db.listed
    BY <1>2, <1>c DEF RestoreRefused, RowStatus
  <2> QED
    BY <1>2, <2>1, <1>a, MovesJobs DEF RestoreRefused, RestoreStage, Active
<1>3. ASSUME NEW s \in Backups, RestoreStart(r, s) PROVE Jobs'
  <2>1. s \notin used /\ used' = used \union {s}
    BY <1>3, NewIsUnused DEF RestoreStart
  <2>2. db'.listed = db.listed
    BY <1>3, <1>a DEF RestoreStart, Database
  <2>3. /\ stage = "queued"
        /\ \A c \in Backups \ {s} : job'[c] = job[c]
        /\ UNCHANGED <<files, content, known, deleting>>
    BY <1>3, <1>a DEF RestoreStart
  <2>4. /\ restore'[r].stage = "safety" /\ restore'[r].safety = s
        /\ restore'[r].of = restore[r].of
        /\ \A q \in Restores \ {r} : restore'[q] = restore[q]
    BY <1>3 DEF RestoreStart, Types, Restore
  <2>5. UsedOnce'
    BY <2>1, <2>2, <2>3, <2>4 DEF Jobs, UsedOnce
  <2>6. JobsOver'
    BY <2>1, <2>3, <1>a DEF Jobs, JobsOver
  <2>7. \A q \in Restores : restore[q].of # s /\ restore[q].safety # s
    BY <2>1, NoneAssumption DEF Jobs, UsedOnce
  <2>8. \A c \in Backups : s \notin content[c].listed
    BY <2>1, <1>a
  <2>9. restore[r].of \in Backups /\ job[restore[r].of] \in {"none", "uploaded"}
    BY <2>3 DEF Jobs, RestoreRefs
  <2>10. RestoreRefs'
    <3> SUFFICES ASSUME NEW q \in Restores
                 PROVE  LET w == restore'[q]
                        IN /\ w.stage # "none" =>
                                w.of \in Backups /\ job'[w.of] \in {"none", "uploaded"}
                           /\ w.stage \in Active => w.safety \in Backups
                           /\ w.stage \in {"none", "queued"} => w.safety = None
                           /\ w.stage # "safety" /\ w.safety # None =>
                                job'[w.safety] = "none"
                           /\ w.stage \in {"safety", "safe", "ready", "dropped"} =>
                                w.safety \notin content'[w.of].listed
      BY DEF RestoreRefs
    <3>1. CASE q = r
      BY <3>1, <2>3, <2>4, <2>7, <2>8, <2>9
    <3>2. CASE q # r
      <4>1. restore'[q] = restore[q]
        BY <3>2, <2>4
      <4>2. restore[q].safety \in Backups \union {None}
        BY DEF Types, Restore
      <4> QED
        BY <4>1, <4>2, <2>3, <2>7 DEF Jobs, RestoreRefs
    <3> QED
      BY <3>1, <3>2
  <2> QED
    BY <2>5, <2>6, <2>10 DEF Jobs
<1>4. CASE Protect(r)
  <2>1. db'.listed = db.listed
    BY <1>4, <1>a DEF Protect, Database
  <2> QED
    BY <1>4, <2>1, <1>a, MovesJobs DEF Protect, RestoreStage, Active
<1>5. CASE Download(r)
  BY <1>5, <1>a, MovesJobs DEF Download, RestoreStage, Active
<1>6. CASE Drop(r)
  <2>1. \A c \in Backups : job'[c] = Cut(job[c])
    BY <1>6 DEF Drop
  <2>2. db'.listed = {}
    BY <1>6 DEF Drop, EmptyDatabase
  <2> QED
    BY <1>6, <2>1, <2>2, <1>a, MovesJobs DEF Drop, Cut, RestoreStage, Active
<1>7. CASE Load(r)
  <2>1. db'.listed \subseteq used
    BY <1>7, <1>a, <1>b DEF Load, Active
  <2> QED
    BY <1>7, <2>1, <1>a, MovesJobs DEF Load, RestoreStage, Active
<1>8. CASE Reinstate(r)
  <2>1. db'.listed \subseteq used
    BY <1>8, <1>a, <1>b DEF Reinstate, Database, Active
  <2> QED
    BY <1>8, <2>1, <1>a, MovesJobs DEF Reinstate, RestoreStage, Active
<1>9. CASE Adopt(r)
  <2>1. db'.listed \subseteq used /\ known' \subseteq known \union files
    BY <1>9, <1>a, AdoptTypes DEF Adopt
  <2> QED
    BY <1>9, <2>1, <1>a, MovesJobs DEF Adopt, RestoreStage, Active
<1>10. CASE Finish(r)
  <2>1. db'.listed = db.listed
    BY <1>10, <1>c DEF Finish, RowStatus
  <2>2. /\ \A c \in Backups : job'[c] = IF job[c] = "queued" THEN "none" ELSE job[c]
        /\ UNCHANGED <<files, content, used, known, deleting>>
        /\ stage = "adopted"
    BY <1>10 DEF Finish
  <2>3. \A q \in Restores : /\ restore'[q].of = restore[q].of
                            /\ restore'[q].safety = restore[q].safety
                            /\ \/ restore'[q].stage = restore[q].stage
                               \/ restore[q].stage \in {"queued", "adopted"}
                                  /\ restore'[q].stage = "done"
    BY <1>10 DEF Finish, Types, Restore
  <2>4. UsedOnce'
    BY <2>1, <2>2, <2>3 DEF Jobs, UsedOnce
  <2>5. JobsOver'
    BY <2>2, <1>a DEF Jobs, JobsOver
  <2>6. \A q \in Restores : restore[q].safety \in Backups \union {None}
    BY DEF Types, Restore
  <2>7. RestoreRefs'
    BY <2>2, <2>3, <2>6 DEF Jobs, RestoreRefs, Active
  <2> QED
    BY <2>4, <2>5, <2>7 DEF Jobs
<1>11. CASE RestoreCannot(r) \/ RestoreRaises(r)
  <2>1. /\ RestoreFails(r) /\ stage \in Active
        /\ stage = "safety" => job[safety] = "none"
    BY <1>11 DEF RestoreCannot, RestoreRaises, Active
  <2>2. db'.listed = db.listed
    BY <2>1, <1>c DEF RestoreFails, RowStatus
  <2>3. To(r, "done") /\ UNCHANGED <<files, content, used, job, known, deleting>>
    BY <2>1 DEF RestoreFails
  <2> QED
    BY <2>1, <2>2, <2>3, <1>a, MovesJobs DEF RestoreStage, Active
<1>12. CASE RestoreDies(r)
  <2>1. stage \in Active
    BY <1>12 DEF RestoreDies, Types, Restore, RestoreStage, Active
  <2>2. /\ \A c \in Backups : job'[c] = IF c = safety THEN "none" ELSE job[c]
        /\ To(r, "done") /\ UNCHANGED <<db, files, content, used, known, deleting>>
    BY <1>12 DEF RestoreDies
  <2> QED
    BY <2>1, <2>2, <1>a, <1>b, MovesJobs DEF RestoreStage, Active
<1> QED
  BY <1>1, <1>2, <1>3, <1>4, <1>5, <1>6, <1>7, <1>8, <1>9, <1>10, <1>11, <1>12
  DEF RestoreStep

LEMMA StepJobs == Types /\ Jobs /\ [Next]_vars => Jobs'
<1> SUFFICES ASSUME Types, Jobs, [Next]_vars PROVE Jobs'
  OBVIOUS
<1> USE DEF target, history, bounds
<1>1. ASSUME NEW b \in Backups, Request(b) PROVE Jobs'
  <2>1. PICK r \in Restores :
          /\ restore[r] = NoRestore
          /\ db' = [db EXCEPT !.run[r] = "queued"]
          /\ restore' = [restore EXCEPT ![r] = [stage |-> "queued", of |-> b, safety |-> None]]
    BY <1>1, RequestMakes
  <2>2. b \in files /\ UNCHANGED <<files, content, used, job, known, deleting>>
    BY <1>1 DEF Request
  <2>3. b \in used /\ job[b] \in {"none", "uploaded"}
    BY <2>2 DEF Jobs, UsedOnce, JobsOver
  <2>4. /\ restore'[r] = [stage |-> "queued", of |-> b, safety |-> None]
        /\ \A q \in Restores \ {r} : restore'[q] = restore[q]
    BY <2>1 DEF Types
  <2>5. db'.listed = db.listed
    BY <2>1, RunWritten DEF Types, RowStatus
  <2>6. UsedOnce'
    BY <2>2, <2>3, <2>4, <2>5 DEF Jobs, UsedOnce
  <2>7. JobsOver'
    BY <2>2 DEF Jobs, JobsOver
  <2>8. RestoreRefs'
    BY <2>2, <2>3, <2>4 DEF Jobs, RestoreRefs, Active
  <2> QED
    BY <2>6, <2>7, <2>8 DEF Jobs
<1>2. CASE Scan
  <2>1. /\ db'.listed = db.listed \union files /\ known' \subseteq known \union files
        /\ UNCHANGED <<files, content, used, job, restore, deleting>>
    BY <1>2, AdoptTypes DEF Scan
  <2> QED
    BY <2>1 DEF Jobs, UsedOnce, JobsOver, RestoreRefs
<1>3. CASE LockLapses \/ FlagLapses \/ UNCHANGED vars
  <2>1. UNCHANGED <<db, files, content, used, job, restore, deleting, known>>
    BY <1>3 DEF LockLapses, FlagLapses, vars
  <2> QED
    BY <2>1 DEF Jobs, UsedOnce, JobsOver, RestoreRefs
<1> QED
  BY <1>1, <1>2, <1>3, BackupJobs, RestoreJobs DEF Next

-----------------------------------------------------------------------------
(* The safety backup, and the inventory.                                   *)

\* A guarded backup is nobody's job.
LEMMA GuardedIsOver ==
    ASSUME Types, RestoreRefs, SafetyKept, NEW r \in Restores,
           restore[r].stage \in {"safe", "ready"} \/ torn = r
    PROVE  /\ restore[r].safety \in Backups \intersect PreRestore
           /\ job[restore[r].safety] = "none"
           /\ Guarded(restore[r].safety)
BY DEF Types, Restore, RestoreRefs, SafetyKept, PreRestore

\* The same, after the step.
GuardedNext(s) ==
    s \in early' \/ (s \in files' /\ deleting' # s /\ (s \in db'.listed => s \in db'.protected))

LEMMA KeptNext ==
    ASSUME \A r \in Restores : restore'[r].stage = "safety" =>
               LET s == restore'[r].safety
               IN /\ deleting' = s => s \in early'
                  /\ job'[s] = "uploaded" \/ db'.row[s] = "success" => s \in files' \union early',
           \A r \in Restores : restore'[r].stage \in {"safe", "ready"} \/ torn' = r =>
               /\ restore'[r].stage # "safety" /\ restore'[r].safety # None
               /\ GuardedNext(restore'[r].safety)
    PROVE  SafetyKept'
BY DEF SafetyKept, Guarded, GuardedNext

\* What a step that leaves restores alone must not do.
LEMMA KeptAside ==
    ASSUME Types, RestoreRefs, SafetyKept, UNCHANGED <<restore, torn>>,
           \A r \in Restores : restore[r].stage = "safety" =>
               LET s == restore[r].safety
               IN /\ deleting' = s => s \in early'
                  /\ job'[s] = "uploaded" \/ db'.row[s] = "success" => s \in files' \union early',
           \A s \in Backups \intersect PreRestore :
               job[s] = "none" /\ Guarded(s) =>
                   GuardedNext(s)
    PROVE  SafetyKept'
<1>1. \A r \in Restores : restore[r].stage \in {"safe", "ready"} \/ torn = r =>
        /\ restore[r].stage # "safety" /\ restore[r].safety # None
        /\ GuardedNext(restore[r].safety)
  BY GuardedIsOver DEF SafetyKept
<1> QED
  BY <1>1, KeptNext

\* A step that leaves archives and names alone, and makes nothing a success.
LEMMA KeptQuietly ==
    ASSUME Types, RestoreRefs, SafetyKept, InventoryKept,
           UNCHANGED <<restore, torn, tables, files, deleting, early, known, refused>>,
           db'.listed = db.listed, db'.protected = db.protected,
           \A s \in PreRestore : /\ job'[s] = "uploaded" => job[s] = "uploaded"
                                 /\ db'.row[s] = "success" => db.row[s] = "success"
    PROVE  SafetyKept' /\ InventoryKept'
<1>1. \A r \in Restores : restore[r].stage = "safety" => restore[r].safety \in PreRestore
  BY NoneAssumption DEF RestoreRefs, Active, PreRestore
<1>2. SafetyKept'
  BY <1>1, KeptAside DEF SafetyKept, Guarded, GuardedNext
<1> QED
  BY <1>2 DEF InventoryKept

LEMMA BackupKept ==
    ASSUME Types, Jobs, SafetyKept, InventoryKept, NEW b \in Backups,
           Fire(b) \/ BackupStep(b) \/ Fails(b) \/ WorkerDies(b) \/ Reap(b)
           \/ DeleteLoad(b) \/ DeleteFinish(b)
    PROVE  SafetyKept' /\ InventoryKept'
<1> USE DEF target, history, bounds
<1>a. RestoreRefs /\ db \in Database /\ job \in [Backups -> JobStage]
  BY DEF Jobs, Types
<1>b. PreRestore \subseteq used
  BY DEF PreRestore, Jobs, UsedOnce
<1>c. used \subseteq Backups /\ PreRestore \subseteq Backups
  BY <1>b DEF Types
<1>d. \A s \in RowStatus :
        LET e == [db EXCEPT !.row[b] = s]
        IN /\ e.listed = db.listed /\ e.protected = db.protected
           /\ e.row[b] = s /\ \A c \in Backups \ {b} : e.row[c] = db.row[c]
  BY <1>a, RowWritten
<1>e. \A r \in Restores : restore[r].stage = "safety" =>
        LET s == restore[r].safety
        IN /\ s \in PreRestore
           /\ deleting = s => s \in early
           /\ job[s] = "uploaded" \/ db.row[s] = "success" => s \in files \union early
  BY <1>a, NoneAssumption DEF RestoreRefs, Active, PreRestore, SafetyKept
<1>1. CASE Fire(b)
  <2>1. b \notin used
    BY <1>1, NewIsUnused DEF Fire
  <2>2. /\ db' = [db EXCEPT !.row[b] = "queued"]
        /\ UNCHANGED <<restore, torn, tables, files, deleting, early, known, refused>>
        /\ \A c \in Backups \ {b} : job'[c] = job[c]
    BY <1>1, <1>a DEF Fire
  <2>3. /\ db'.listed = db.listed /\ db'.protected = db.protected
        /\ \A c \in Backups \ {b} : db'.row[c] = db.row[c]
    BY <2>2, <1>d DEF RowStatus
  <2> QED
    BY <2>1, <2>2, <2>3, <1>a, <1>b, <1>c, KeptQuietly
<1>2. CASE Start(b)
  <2>1. /\ UNCHANGED <<restore, torn, tables, files, deleting, early, known, refused>>
        /\ \A c \in Backups \ {b} : job'[c] = job[c]
        /\ job'[b] \in {"started", "none"}
        /\ db' = db \/ db' = [db EXCEPT !.row[b] = "running"]
    BY <1>2, <1>a DEF Start
  <2>2. /\ db'.listed = db.listed /\ db'.protected = db.protected
        /\ \A c \in Backups : db'.row[c] = "success" => db.row[c] = "success"
    <3>1. CASE db' = db
      BY <3>1
    <3>2. CASE db' = [db EXCEPT !.row[b] = "running"]
      BY <3>2, <1>d DEF RowStatus
    <3> QED
      BY <2>1, <3>1, <3>2
  <2> QED
    BY <2>1, <2>2, <1>a, <1>c, KeptQuietly
<1>3. CASE Dump(b)
  <2>1. /\ UNCHANGED <<db, restore, torn, tables, files, deleting, early, known, refused>>
        /\ \A c \in Backups : job'[c] = "uploaded" => job[c] = "uploaded"
    BY <1>3, <1>a DEF Dump
  <2> QED
    BY <2>1, <1>a, <1>c, KeptQuietly
<1>4. CASE Upload(b) \/ UploadCut(b)
  <2>1. /\ UNCHANGED <<db, restore, torn, tables, deleting, early, known, refused>>
        /\ files \subseteq files' /\ files' \subseteq files \union {b}
        /\ job[b] \in {"dumped", "cut"}
        /\ \A c \in Backups : job'[c] = "uploaded" => c \in files' \/ job[c] = "uploaded"
    BY <1>4, <1>a DEF Upload, UploadCut
  <2>2. SafetyKept'
    BY <2>1, <1>a, <1>c, <1>e, KeptAside DEF Guarded, GuardedNext
  <2>3. b \notin known
    BY <2>1 DEF Jobs, JobsOver
  <2> QED
    BY <2>1, <2>2, <2>3 DEF InventoryKept
<1>5. CASE Save(b)
  <2>1. PICK gone \in SUBSET Prunable, kept \in SUBSET Prunable :
          /\ b \in PreRestore => gone = {} /\ kept = {}
          /\ DeleteArchives(gone \union kept, gone, {b})
          /\ db' = [db EXCEPT
                !.row = [p \in Backups |-> CASE p \in gone -> "absent"
                                             [] p = b -> IF kept = {} THEN "success" ELSE "failed"
                                             [] OTHER -> @[p]],
                !.listed = (@ \union {b}) \ gone]
    BY <1>5 DEF Save
  <2>2. /\ UNCHANGED <<tables, restore, deleting, torn, early>>
        /\ job[b] = "uploaded" /\ job'[b] = "none"
        /\ \A c \in Backups \ {b} : job'[c] = job[c]
    BY <1>5, <1>a DEF Save
  <2>3. /\ db'.listed = (db.listed \union {b}) \ gone /\ db'.protected = db.protected
        /\ \A c \in Backups \ {b} : db'.row[c] = "success" => db.row[c] = "success"
    BY <2>1, <1>a DEF Database
  <2>4. (gone \union kept) \intersect PreRestore = {}
    BY DEF Prunable
  <2>d. /\ files' \subseteq files /\ files \ (gone \union kept) \subseteq files'
        /\ known' \subseteq known \union {b} /\ refused \subseteq refused'
        /\ gone \intersect files' \subseteq refused'
    BY <2>1, Deleted
  <2>5. SafetyKept'
    <3>1. ASSUME NEW r \in Restores, restore[r].stage = "safety"
          PROVE  LET s == restore[r].safety
                 IN /\ deleting' = s => s \in early'
                    /\ job'[s] = "uploaded" \/ db'.row[s] = "success" =>
                         s \in files' \union early'
      BY <3>1, <2>1, <2>2, <2>3, <2>4, <2>d, <1>c, <1>e
    <3>2. ASSUME NEW s \in Backups \intersect PreRestore, job[s] = "none", Guarded(s)
          PROVE  GuardedNext(s)
      BY <3>2, <2>2, <2>3, <2>4, <2>d DEF Guarded, GuardedNext
    <3> QED
      BY <3>1, <3>2, <2>2, <1>a, KeptAside
  <2>6. InventoryKept'
    BY <2>2, <2>3, <2>d DEF InventoryKept
  <2> QED
    BY <2>5, <2>6
<1>6. CASE Fails(b) \/ WorkerDies(b)
  <2>1. /\ UNCHANGED <<restore, torn, tables, files, deleting, early, known, refused>>
        /\ \A c \in Backups \ {b} : job'[c] = job[c]
        /\ job'[b] = "none"
        /\ db' = db \/ db' = [db EXCEPT !.row[b] = "failed"]
    BY <1>6, <1>a DEF Fails, WorkerDies
  <2>2. /\ db'.listed = db.listed /\ db'.protected = db.protected
        /\ \A c \in Backups : db'.row[c] = "success" => db.row[c] = "success"
    <3>1. CASE db' = db
      BY <3>1
    <3>2. CASE db' = [db EXCEPT !.row[b] = "failed"]
      BY <3>2, <1>d DEF RowStatus
    <3> QED
      BY <2>1, <3>1, <3>2
  <2> QED
    BY <2>1, <2>2, <1>a, <1>c, KeptQuietly
<1>7. CASE Reap(b)
  <2>1. /\ UNCHANGED <<job, restore, torn, tables, files, deleting, early, known, refused>>
        /\ db' = [db EXCEPT !.row[b] = "failed"]
    BY <1>7 DEF Reap
  <2>2. /\ db'.listed = db.listed /\ db'.protected = db.protected
        /\ \A c \in Backups : db'.row[c] = "success" => db.row[c] = "success"
    BY <2>1, <1>d DEF RowStatus
  <2> QED
    BY <2>1, <2>2, <1>a, <1>c, KeptQuietly
<1>8. CASE DeleteLoad(b)
  <2>1. /\ UNCHANGED <<db, tables, files, job, restore, known, torn, refused>>
        /\ deleting' = b /\ b \in db.listed \ db.protected
        /\ early \subseteq early'
        /\ \A r \in Restores : restore[r].stage = "safety" /\ restore[r].safety = b => b \in early'
    BY <1>8 DEF DeleteLoad, Deletable
  <2>2. SafetyKept'
    BY <2>1, <1>a, <1>e, KeptAside DEF Guarded, GuardedNext
  <2> QED
    BY <2>1, <2>2 DEF InventoryKept
<1>9. CASE DeleteFinish(b)
  <2>1. /\ UNCHANGED <<tables, job, restore, torn, early>>
        /\ deleting = b /\ deleting' = None
        /\ files' \subseteq files /\ files \ {b} \subseteq files'
        /\ known' \subseteq known /\ refused \subseteq refused'
    BY <1>9, Deleted DEF DeleteFinish
  <2>2. /\ db.listed \ {b} \subseteq db'.listed /\ db'.listed \subseteq db.listed
        /\ db.protected \ {b} \subseteq db'.protected
        /\ \A c \in Backups \ {b} : db'.row[c] = db.row[c]
    BY <1>9, <1>a DEF DeleteFinish, Database
  <2>a. db'.listed = db.listed \/ (b \in files' => b \in refused')
    <3>1. CASE Referred(b)
      BY <1>9, <3>1 DEF DeleteFinish
    <3>2. CASE ~Referred(b)
      BY <1>9, <3>2, Deleted DEF DeleteFinish
    <3> QED
      BY <3>1, <3>2
  <2>3. SafetyKept'
    <3>1. ASSUME NEW r \in Restores, restore[r].stage = "safety"
          PROVE  LET s == restore[r].safety
                 IN /\ deleting' = s => s \in early'
                    /\ job'[s] = "uploaded" \/ db'.row[s] = "success" =>
                         s \in files' \union early'
      BY <3>1, <2>1, <2>2, <1>c, <1>e, NoneAssumption
    <3>2. ASSUME NEW s \in Backups \intersect PreRestore, Guarded(s)
          PROVE  GuardedNext(s)
      BY <3>2, <2>1, <2>2, NoneAssumption DEF Guarded, GuardedNext
    <3> QED
      BY <3>1, <3>2, <2>1, <1>a, KeptAside
  <2> QED
    BY <2>1, <2>2, <2>a, <2>3 DEF InventoryKept
<1> QED
  BY <1>1, <1>2, <1>3, <1>4, <1>5, <1>6, <1>7, <1>8, <1>9 DEF BackupStep

\* A restore goes on or ends, and what guards a safety backup stays.
LEMMA KeptMoving ==
    ASSUME Types, RestoreRefs, SafetyKept, NEW r \in Restores,
           NEW s \in RestoreStage \ {"safety"}, To(r, s),
           UNCHANGED <<files, deleting, early>>, torn' \in {torn, None},
           restore[r].stage # "none",
           \A q \in Restores \ {r} : restore[q].stage = "safety" =>
               /\ job'[restore[q].safety] = "uploaded" => job[restore[q].safety] = "uploaded"
               /\ db'.row[restore[q].safety] = db.row[restore[q].safety],
           \A p \in Backups \intersect PreRestore :
               (p \in db.listed => p \in db.protected) => (p \in db'.listed => p \in db'.protected),
           s \in {"safe", "ready"} /\ restore[r].stage \notin {"safe", "ready"} =>
               restore[r].safety # None /\ GuardedNext(restore[r].safety),
           s \in {"none", "queued"} => FALSE
    PROVE  SafetyKept'
<1>1. /\ restore'[r].stage = s
      /\ \A q \in Restores \ {r} : restore'[q] = restore[q]
      /\ \A q \in Restores : restore'[q].safety = restore[q].safety
  BY Moves DEF Types
<1>2. ASSUME NEW q \in Restores, restore[q].stage \in {"safe", "ready"} \/ torn = q
      PROVE  restore'[q].stage # "safety" /\ restore'[q].safety # None
             /\ GuardedNext(restore'[q].safety)
  <2>1. /\ restore[q].safety \in Backups \intersect PreRestore
        /\ Guarded(restore[q].safety)
        /\ restore[q].stage # "safety" /\ restore[q].safety # None
    BY <1>2, GuardedIsOver DEF SafetyKept
  <2>2. GuardedNext(restore[q].safety)
    BY <2>1, <1>1 DEF Guarded, GuardedNext
  <2> QED
    BY <2>1, <2>2, <1>1
<1>3. ASSUME NEW q \in Restores, restore'[q].stage \in {"safe", "ready"} \/ torn' = q
      PROVE  restore'[q].stage # "safety" /\ restore'[q].safety # None
             /\ GuardedNext(restore'[q].safety)
  <2>1. torn' = q => torn = q
    BY NoneAssumption
  <2>2. CASE restore[q].stage \in {"safe", "ready"} \/ torn = q
    BY <2>2, <1>2
  <2>3. CASE ~(restore[q].stage \in {"safe", "ready"} \/ torn = q)
    <3>1. q = r /\ s \in {"safe", "ready"}
      BY <2>1, <2>3, <1>1, <1>3
    <3> QED
      BY <3>1, <2>3, <1>1
  <2> QED
    BY <2>2, <2>3
<1>4. ASSUME NEW q \in Restores, restore'[q].stage = "safety"
      PROVE  LET p == restore'[q].safety
             IN /\ deleting' = p => p \in early'
                /\ job'[p] = "uploaded" \/ db'.row[p] = "success" => p \in files' \union early'
  BY <1>1, <1>4 DEF SafetyKept
<1> QED
  BY <1>3, <1>4, KeptNext

LEMMA RestoreKept ==
    ASSUME Types, Alone, Jobs, SafetyKept, InventoryKept, NEW r \in Restores,
           RestoreStep(r) \/ RestoreRaises(r) \/ RestoreDies(r)
    PROVE  SafetyKept' /\ InventoryKept'
<1> USE DEF target, history, bounds
<1> DEFINE stage == restore[r].stage
           safety == restore[r].safety
<1>a. /\ LockHeld /\ WhileDropped /\ DropTears /\ RestoreRefs /\ UsedOnce
      /\ db \in Database /\ job \in [Backups -> JobStage]
      /\ restore \in [Restores -> Restore]
  BY DEF Alone, Jobs, Types
<1>b. \A s \in RowStatus :
        LET e == [db EXCEPT !.run[r] = s]
        IN e.listed = db.listed /\ e.protected = db.protected /\ e.row = db.row
  BY <1>a, RunWritten
<1>c. stage \in Active =>
        /\ safety \in Backups /\ safety \in PreRestore /\ restore[r].of \in Backups
        /\ \A q \in Restores \ {r} : restore[q].stage \notin Active
  BY <1>a, OneActive, NoneAssumption DEF RestoreRefs, PreRestore, Active
<1>1. ASSUME To(r, "done"), stage # "none",
             UNCHANGED <<files, deleting, early, torn, tables, known, refused>>,
             db'.listed = db.listed, db'.protected = db.protected, db'.row = db.row,
             \A b \in Backups : job'[b] = "uploaded" => job[b] = "uploaded"
      PROVE  SafetyKept' /\ InventoryKept'
  <2>1. \A q \in Restores \ {r} : restore[q].stage = "safety" => restore[q].safety \in Backups
    BY <1>a DEF RestoreRefs, Active
  <2>2. SafetyKept'
    BY <1>1, <1>a, <2>1, KeptMoving DEF RestoreStage
  <2> QED
    BY <1>1, <2>2 DEF InventoryKept
<1>2. CASE RestoreMissing(r)
  BY <1>2, <1>1 DEF RestoreMissing
<1>3. CASE RestoreRefused(r)
  <2>1. db'.listed = db.listed /\ db'.protected = db.protected /\ db'.row = db.row
    BY <1>3, <1>b DEF RestoreRefused, RowStatus
  <2> QED
    BY <1>3, <2>1, <1>1 DEF RestoreRefused
<1>4. CASE RestoreCannot(r) \/ RestoreRaises(r)
  <2>1. RestoreFails(r) /\ stage # "none"
    BY <1>4 DEF RestoreCannot, RestoreRaises
  <2>2. db' = db \/ db' = [db EXCEPT !.run[r] = "failed"]
    BY <2>1 DEF RestoreFails
  <2>3. db'.listed = db.listed /\ db'.protected = db.protected /\ db'.row = db.row
    BY <2>2, <1>b DEF RowStatus
  <2> QED
    BY <2>1, <2>3, <1>1 DEF RestoreFails
<1>5. CASE RestoreDies(r)
  BY <1>5, <1>1 DEF RestoreDies
<1>6. ASSUME NEW s \in Backups, RestoreStart(r, s) PROVE SafetyKept' /\ InventoryKept'
  <2>1. s \notin used
    BY <1>6, NewIsUnused DEF RestoreStart
  <2>2. /\ stage = "queued"
        /\ UNCHANGED <<files, deleting, early, torn, tables, known, refused>>
        /\ \A b \in Backups \ {s} : job'[b] = job[b]
        /\ job'[s] = "started"
    BY <1>6, <1>a DEF RestoreStart
  <2>3. /\ db'.listed = db.listed /\ db'.protected = db.protected
        /\ db'.row[s] = "running"
    BY <1>6, <1>a DEF RestoreStart, Database
  <2>4. /\ restore'[r].stage = "safety" /\ restore'[r].safety = s
        /\ \A q \in Restores \ {r} : restore'[q] = restore[q]
    BY <1>6, <1>a DEF RestoreStart, Restore
  <2>5. lock = None
    BY <1>6 DEF RestoreStart
  <2>6. \A q \in Restores \ {r} : restore'[q].stage # "safety"
    BY <2>4, <2>5, <1>a, NoneAssumption DEF LockHeld, Active
  <2>7. safety = None
    BY <2>2, <1>a DEF RestoreRefs
  <2>8. torn # r
    BY <2>7 DEF SafetyKept
  <2>9. deleting # s
    BY <2>1, <1>a, NoneAssumption DEF UsedOnce
  <2>10. \A q \in Restores \ {r} : Guarded(restore[q].safety) => GuardedNext(restore'[q].safety)
    BY <2>2, <2>3, <2>4 DEF Guarded, GuardedNext
  <2>11. SafetyKept'
    <3>1. \A q \in Restores : restore'[q].stage = "safety" =>
             LET p == restore'[q].safety
             IN /\ deleting' = p => p \in early'
                /\ job'[p] = "uploaded" \/ db'.row[p] = "success" => p \in files' \union early'
      BY <2>2, <2>3, <2>4, <2>6, <2>9
    <3>2. \A q \in Restores : restore'[q].stage \in {"safe", "ready"} \/ torn' = q =>
             /\ restore'[q].stage # "safety" /\ restore'[q].safety # None
             /\ GuardedNext(restore'[q].safety)
      BY <2>2, <2>4, <2>8, <2>10 DEF SafetyKept
    <3> QED
      BY <3>1, <3>2, KeptNext
  <2> QED
    BY <2>2, <2>3, <2>11 DEF InventoryKept
<1>7. CASE Protect(r)
  <2>1. /\ stage = "safety" /\ job[safety] = "none" /\ db.row[safety] = "success"
        /\ db' = [db EXCEPT !.protected = @ \union {safety}] /\ To(r, "safe")
        /\ UNCHANGED <<files, job, deleting, early, torn, tables, known, refused>>
    BY <1>7 DEF Protect
  <2>2. /\ db'.listed = db.listed /\ db'.protected = db.protected \union {safety}
        /\ db'.row = db.row
    BY <2>1, <1>a DEF Database
  <2>3. safety # None /\ GuardedNext(safety)
    BY <2>1, <2>2, <1>c, NoneAssumption DEF SafetyKept, Guarded, GuardedNext, Active
  <2>4. SafetyKept'
    BY <2>1, <2>2, <2>3, <1>a, KeptMoving DEF RestoreStage
  <2> QED
    BY <2>1, <2>2, <2>4 DEF InventoryKept
<1>8. CASE Download(r)
  <2>1. /\ stage = "safe" /\ To(r, "ready")
        /\ UNCHANGED <<db, files, job, deleting, early, torn, tables, known, refused>>
    BY <1>8 DEF Download
  <2>2. SafetyKept'
    BY <2>1, <1>a, KeptMoving DEF RestoreStage
  <2> QED
    BY <2>1, <2>2 DEF InventoryKept
<1>9. CASE Drop(r)
  <2>1. /\ stage = "ready" /\ To(r, "dropped") /\ ~tables' /\ db' = EmptyDatabase
        /\ deleting' = None /\ torn' = r /\ UNCHANGED <<files, early>>
    BY <1>9 DEF Drop
  <2>2. /\ restore'[r].stage = "dropped" /\ restore'[r].safety = safety
        /\ \A q \in Restores \ {r} : restore'[q] = restore[q]
    BY <2>1, <1>a, Moves DEF RestoreStage
  <2>3. safety \in Backups /\ Guarded(safety)
    BY <2>1, GuardedIsOver, <1>a
  <2>4. GuardedNext(restore'[r].safety)
    BY <2>1, <2>2, <2>3, NoneAssumption DEF Guarded, GuardedNext, EmptyDatabase
  <2>5. \A q \in Restores \ {r} : restore'[q].stage \notin Active /\ torn' # q
    BY <2>1, <2>2, <1>c DEF Active
  <2>6. SafetyKept'
    <3>1. \A q \in Restores : restore'[q].stage = "safety" =>
             LET p == restore'[q].safety
             IN /\ deleting' = p => p \in early'
                /\ job'[p] = "uploaded" \/ db'.row[p] = "success" => p \in files' \union early'
      BY <2>2, <2>5 DEF Active
    <3>2. \A q \in Restores : restore'[q].stage \in {"safe", "ready"} \/ torn' = q =>
             /\ restore'[q].stage # "safety" /\ restore'[q].safety # None
             /\ GuardedNext(restore'[q].safety)
      BY <2>2, <2>3, <2>4, <2>5, NoneAssumption DEF Active
    <3> QED
      BY <3>1, <3>2, KeptNext
  <2> QED
    BY <2>1, <2>6 DEF InventoryKept
<1>10. CASE Load(r)
  <2>1. /\ stage = "dropped" /\ To(r, "loaded") /\ db' = content[restore[r].of]
        /\ UNCHANGED <<files, deleting, early, torn>>
    BY <1>10 DEF Load
  <2>2. /\ restore'[r].stage = "loaded" /\ restore'[r].safety = safety
        /\ \A q \in Restores \ {r} : restore'[q] = restore[q]
    BY <2>1, <1>a, Moves DEF RestoreStage
  <2>3. torn = r
    BY <2>1, <1>a DEF DropTears
  <2>4. safety \notin db'.listed
    BY <2>1, <1>a DEF RestoreRefs
  <2>5. safety # None /\ GuardedNext(safety)
    BY <2>1, <2>3, <2>4 DEF SafetyKept, Guarded, GuardedNext
  <2>6. \A q \in Restores \ {r} : restore'[q].stage \notin Active /\ torn' # q
    BY <2>1, <2>2, <2>3, <1>c DEF Active
  <2>7. SafetyKept'
    <3>1. \A q \in Restores : restore'[q].stage = "safety" =>
             LET p == restore'[q].safety
             IN /\ deleting' = p => p \in early'
                /\ job'[p] = "uploaded" \/ db'.row[p] = "success" => p \in files' \union early'
      BY <2>2, <2>6 DEF Active
    <3>2. \A q \in Restores : restore'[q].stage \in {"safe", "ready"} \/ torn' = q =>
             /\ restore'[q].stage # "safety" /\ restore'[q].safety # None
             /\ GuardedNext(restore'[q].safety)
      BY <2>2, <2>5, <2>6 DEF Active
    <3> QED
      BY <3>1, <3>2, KeptNext
  <2> QED
    BY <2>1, <2>3, <2>7, NoneAssumption DEF InventoryKept, Types
<1>11. CASE Reinstate(r)
  <2>1. /\ stage = "loaded" /\ To(r, "reinstated")
        /\ UNCHANGED <<files, job, deleting, early, torn, tables, known, refused>>
    BY <1>11 DEF Reinstate
  <2>2. /\ db'.listed = db.listed \union {restore[r].of, safety}
        /\ db'.protected = db.protected \union {safety}
                             \union ({restore[r].of} \intersect PreRestore)
    BY <1>11, <1>a DEF Reinstate, Database
  <2>3. \A q \in Restores \ {r} : restore[q].stage # "safety"
    BY <2>1, <1>c DEF Active
  <2>4. SafetyKept'
    BY <2>1, <2>2, <2>3, <1>a, KeptMoving DEF RestoreStage
  <2> QED
    BY <2>1, <2>2, <2>4 DEF InventoryKept
<1>12. CASE Adopt(r)
  <2>1. /\ stage = "reinstated" /\ To(r, "adopted") /\ AdoptOrphans
        /\ UNCHANGED <<files, job, deleting, early, tables>>
    BY <1>12 DEF Adopt
  <2>2. /\ torn' = None /\ db'.listed = db.listed \union files
        /\ db'.protected = db.protected \union ((files \ db.listed) \intersect PreRestore)
    BY <2>1, AdoptTypes
  <2>3. \A q \in Restores \ {r} : restore[q].stage # "safety"
    BY <2>1, <1>c DEF Active
  <2>4. SafetyKept'
    BY <2>1, <2>2, <2>3, <1>a, KeptMoving DEF RestoreStage
  <2> QED
    BY <2>1, <2>2, <2>4 DEF InventoryKept
<1>13. CASE Finish(r)
  <2>1. /\ stage = "adopted" /\ UNCHANGED <<files, deleting, early, torn, tables, known, refused>>
        /\ db' = [db EXCEPT !.run[r] = "success"]
    BY <1>13 DEF Finish
  <2>2. db'.listed = db.listed /\ db'.protected = db.protected
    BY <2>1, <1>b DEF RowStatus
  <2>3. \A q \in Restores : /\ restore'[q].safety = restore[q].safety
                            /\ restore'[q].stage \in {restore[q].stage, "done"}
    BY <1>13, <1>a DEF Finish, Restore
  <2>4. \A q \in Restores : restore[q].stage # "safety"
    BY <2>1, <1>c DEF Active
  <2>5. \A q \in Restores : Guarded(restore[q].safety) => GuardedNext(restore'[q].safety)
    BY <2>1, <2>2, <2>3 DEF Guarded, GuardedNext
  <2>6. SafetyKept'
    <3>1. \A q \in Restores : restore'[q].stage = "safety" =>
             LET p == restore'[q].safety
             IN /\ deleting' = p => p \in early'
                /\ job'[p] = "uploaded" \/ db'.row[p] = "success" => p \in files' \union early'
      BY <2>3, <2>4
    <3>2. \A q \in Restores : restore'[q].stage \in {"safe", "ready"} \/ torn' = q =>
             /\ restore'[q].stage # "safety" /\ restore'[q].safety # None
             /\ GuardedNext(restore'[q].safety)
      BY <2>1, <2>3, <2>4, <2>5 DEF SafetyKept
    <3> QED
      BY <3>1, <3>2, KeptNext
  <2> QED
    BY <2>1, <2>2, <2>6 DEF InventoryKept
<1> QED
  BY <1>2, <1>3, <1>4, <1>5, <1>6, <1>7, <1>8, <1>9, <1>10, <1>11, <1>12, <1>13
  DEF RestoreStep

LEMMA StepKept ==
    Types /\ Alone /\ Jobs /\ SafetyKept /\ InventoryKept /\ [Next]_vars
        => SafetyKept' /\ InventoryKept'
<1> SUFFICES ASSUME Types, Alone, Jobs, SafetyKept, InventoryKept, [Next]_vars
             PROVE  SafetyKept' /\ InventoryKept'
  OBVIOUS
<1> USE DEF target, history, bounds
<1>a. RestoreRefs
  BY DEF Jobs
<1>1. ASSUME NEW b \in Backups, Request(b) PROVE SafetyKept' /\ InventoryKept'
  <2>1. PICK r \in Restores :
          /\ restore[r] = NoRestore
          /\ db' = [db EXCEPT !.run[r] = "queued"]
          /\ restore' = [restore EXCEPT ![r] = [stage |-> "queued", of |-> b, safety |-> None]]
    BY <1>1, RequestMakes
  <2>2. UNCHANGED <<files, job, deleting, early, torn, tables, known, refused>>
    BY <1>1 DEF Request
  <2>3. db'.listed = db.listed /\ db'.protected = db.protected /\ db'.row = db.row
    BY <2>1, RunWritten DEF Types, RowStatus
  <2>4. /\ restore'[r] = [stage |-> "queued", of |-> b, safety |-> None]
        /\ \A q \in Restores \ {r} : restore'[q] = restore[q]
    BY <2>1 DEF Types
  <2>5. torn # r
    BY <2>1 DEF SafetyKept, NoRestore
  <2>6. \A q \in Restores \ {r} : Guarded(restore[q].safety) => GuardedNext(restore'[q].safety)
    BY <2>2, <2>3, <2>4 DEF Guarded, GuardedNext
  <2>7. SafetyKept'
    <3>1. \A q \in Restores : restore'[q].stage = "safety" =>
             LET p == restore'[q].safety
             IN /\ deleting' = p => p \in early'
                /\ job'[p] = "uploaded" \/ db'.row[p] = "success" => p \in files' \union early'
      BY <2>2, <2>3, <2>4 DEF SafetyKept
    <3>2. \A q \in Restores : restore'[q].stage \in {"safe", "ready"} \/ torn' = q =>
             /\ restore'[q].stage # "safety" /\ restore'[q].safety # None
             /\ GuardedNext(restore'[q].safety)
      BY <2>2, <2>4, <2>5, <2>6 DEF SafetyKept
    <3> QED
      BY <3>1, <3>2, KeptNext
  <2> QED
    BY <2>2, <2>3, <2>7 DEF InventoryKept
<1>2. CASE Scan
  <2>1. /\ db'.listed = db.listed \union files
        /\ db'.protected = db.protected \union ((files \ db.listed) \intersect PreRestore)
        /\ db'.row = db.row /\ torn' = None
        /\ UNCHANGED <<tables, files, job, restore, deleting, early>>
    BY <1>2, AdoptTypes DEF Scan
  <2>2. ASSUME NEW r \in Restores, restore[r].stage \in {"safe", "ready"}
        PROVE  GuardedNext(restore[r].safety)
    <3>1. restore[r].safety \in PreRestore /\ Guarded(restore[r].safety)
      BY <2>2, <1>a, GuardedIsOver
    <3> QED
      BY <3>1, <2>1 DEF Guarded, GuardedNext
  <2>3. SafetyKept'
    <3>1. \A q \in Restores : restore'[q].stage = "safety" =>
             LET p == restore'[q].safety
             IN /\ deleting' = p => p \in early'
                /\ job'[p] = "uploaded" \/ db'.row[p] = "success" => p \in files' \union early'
      BY <2>1 DEF SafetyKept
    <3>2. \A q \in Restores : restore'[q].stage \in {"safe", "ready"} \/ torn' = q =>
             /\ restore'[q].stage # "safety" /\ restore'[q].safety # None
             /\ GuardedNext(restore'[q].safety)
      BY <2>1, <2>2, NoneAssumption DEF SafetyKept
    <3> QED
      BY <3>1, <3>2, KeptNext
  <2> QED
    BY <2>1, <2>3 DEF InventoryKept
<1>3. CASE LockLapses \/ FlagLapses \/ UNCHANGED vars
  <2>1. UNCHANGED <<db, tables, files, job, restore, deleting, known, torn, early, refused>>
    BY <1>3 DEF LockLapses, FlagLapses, vars
  <2> QED
    BY <2>1 DEF SafetyKept, Guarded, InventoryKept
<1> QED
  BY <1>1, <1>2, <1>3, BackupKept, RestoreKept DEF Next

LEMMA StepInv == IInv /\ [Next]_vars => IInv'
BY StepTypes, StepAlone, StepJobs, StepKept DEF IInv, Jobs

LEMMA Invariant == Spec => []IInv
BY InitInv, StepInv, PTL DEF Spec

-----------------------------------------------------------------------------

\* Variables keep their types, and nobody writes a row between the drop of the
\* schema and the load (restore.py:202).
THEOREM TypeCorrect == Spec => []TypeOK
BY Invariant, InvImplies, PTL

\* Any number of backups, restores, deletes, failures and deaths: from the drop of
\* the tables to the next scan, what they held is on the target, unless a delete
\* had loaded the row of the safety backup before it was protected
\* (restore.py:321, api_views.py:206).
THEOREM RecoverableThm == Spec => []Recoverable
BY Invariant, InvImplies, PTL

\* Nor is an archive that a row has named forgotten, once the target was scanned
\* (restore.py:350), unless its row was deleted while the target refused to delete
\* the archive (engine.py:456).
THEOREM InventoryKeptThm == Spec => []InventoryKept
BY Invariant, InvImplies, PTL

=============================================================================
