----------------------------- MODULE ManagerBackups -----------------------------
(***************************************************************************)
(* How the manager writes its own backups (app/backups.py:71-920, 1517-1623,*)
(* app/manager_backup_progress.py, app/main.py:4228-4376, 4485-4575).      *)
(*                                                                         *)
(* Requests are served by threads.  A manager backup and a cache backup are*)
(* tasks of a small registry which admits one at a time; a synchronous     *)
(* cache backup and the safety backup of a restore pass it by.  Each writes*)
(* temporary files in the data directory and then an artifact, whose name  *)
(* holds its kind, the second it was begun in and the user's label, in the *)
(* directory that users list, download, delete from and upload to.         *)
(*                                                                         *)
(* Encryption is abstracted to what it is for: a reader accepts an artifact*)
(* only if it is the whole output of one writer.                           *)
(***************************************************************************)
EXTENDS Integers, FiniteSets, Sequences

CONSTANTS
  Req,                 \* requests
  Offered,             \* kinds each request may be of
  Plans,               \* artifacts of a cache backup, in their order
  Labels,              \* labels the users give
  Stored,              \* artifacts in BACKUP_DIR at first
  Data,                \* what the data directory may hold at first
  Foreign,             \* what an uploaded artifact holds
  UploadName,          \* its name, unless a user takes one of the directory
  MaxTasks,            \* _MAX_TASKS
  Seconds,             \* what the clock may show when a name is made
  Restarts             \* bound on the restarts of the process

None == "none"
TaskKinds == {"manager", "cache"}
Kinds == TaskKinds \cup {"cache-sync", "upload", "restore", "cache-restore"}
Component == {"manager.db", "manager.db-wal", "settings.json", "notifications.json",
              "security", "borg-cache", "borg-security"}
Image == [Component -> STRING]
NoImage == [c \in Component |-> None]

\* Foreign is a manager backup, which holds no Borg cache.
ASSUME RequestAssumption ==
  /\ Offered \in [Req -> SUBSET Kinds]
  /\ Plans \subseteq Seq(STRING) /\ Labels \subseteq STRING
  /\ None \notin Req
  /\ Data \cup {Foreign} \subseteq Image
  /\ Foreign["borg-cache"] = None /\ Foreign["borg-security"] = None
  /\ Stored \in [DOMAIN Stored -> [by : {None}, kind : STRING, img : Image, state : STRING]]
  /\ \A n \in DOMAIN Stored : Stored[n].kind = "manager" => Stored[n].img = Foreign
ASSUME BoundAssumption == MaxTasks \in Nat \ {0} /\ Restarts \in Nat /\ Seconds # {}

VARIABLES
  tasks, current,      \* _tasks and _current_task_id
  ended,               \* tasks in the order of their finished_at
  kind,                \* what each request asks for
  pc, result,          \* where it is, what it reported
  job,                 \* local variables of its thread
  files,               \* BACKUP_DIR
  temps,               \* temporary files, with the request that made them
  live,                \* the manager's data, by component
  restarts

registry == <<tasks, current, ended>>
disk == <<files, temps>>
backupVars == <<restarts, registry, kind, pc, result, job, disk, live>>

Idle == {"new", "done", "lost"}
Terminal == {"finished", "failed"}
IsTask(r) == kind[r] \in TaskKinds
InProgress(r) == pc[r] \notin Idle

NoJob == [stamp |-> 0, label |-> None, img |-> NoImage, plan |-> <<>>, made |-> {}]
Set(r, field, value) == job' = [job EXCEPT ![r][field] = value]
Goto(r, where) == pc' = [pc EXCEPT ![r] = where]

\* borgbackup-manager-...-<stamp>-<label>: the second and the label are all
\* that tells two artifacts of one kind apart.
NameOf(r, artifact) ==
  [artifact |-> artifact, stamp |-> job[r].stamp, label |-> job[r].label]
Unlink(n) == [m \in DOMAIN files \ {n} |-> files[m]]
Put(n, f) == [m \in DOMAIN files \cup {n} |-> IF m = n THEN f ELSE files[m]]
TempsOf(r) == {t \in temps : t[1] = r}

-----------------------------------------------------------------------------
(* The registry of tasks.                                                  *)

\* _prune_locked: the tasks that ended first go, as many as there are too many.
Pruned(T, E, c) ==
  LET old == {r \in T \ {c} : \E i \in 1..Len(E) : E[i] = r}
      Older(r) == {q \in old : \E i, j \in 1..Len(E) : i < j /\ E[i] = q /\ E[j] = r}
  IN T \ {r \in old : Cardinality(Older(r)) < Cardinality(T) - MaxTasks}

TaskActive == current # None /\ result[current] \notin Terminal

BeginTask(r) ==
  /\ current' = r
  /\ tasks' = Pruned(tasks \cup {r}, ended, r)
  /\ UNCHANGED ended

\* Mutant: an ended task stays the current one.
EndTaskStays(r) ==
  IF r \in tasks
  THEN /\ ended' = Append(ended, r)
       /\ tasks' = Pruned(tasks, ended', current)
       /\ UNCHANGED current
  ELSE UNCHANGED registry

\* finish_task and fail_task, and what a request that is no task reports.
EndTask(r) ==
  IF r \in tasks
  THEN /\ ended' = Append(ended, r)
       /\ current' = IF current = r THEN None ELSE current
       /\ tasks' = Pruned(tasks, ended', current')
  ELSE UNCHANGED registry

End(r, how) ==
  /\ Goto(r, "done")
  /\ result' = [result EXCEPT ![r] = how]
  /\ job' = [job EXCEPT ![r] = NoJob]
  /\ EndTask(r)

Refuse(r) ==
  /\ Goto(r, "done") /\ result' = [result EXCEPT ![r] = "refused"]
  /\ UNCHANGED <<restarts, registry, job, disk, live>>

Ask(r, what) ==
  /\ pc[r] = "new" /\ what \in Offered[r]
  /\ kind' = [kind EXCEPT ![r] = what]

-----------------------------------------------------------------------------
InitBackups ==
  /\ restarts = 0
  /\ tasks = {} /\ current = None /\ ended = <<>>
  /\ kind = [r \in Req |-> None]
  /\ pc = [r \in Req |-> "new"]
  /\ result = [r \in Req |-> None]
  /\ job = [r \in Req |-> NoJob]
  /\ files = Stored /\ temps = {}
  /\ live \in Data

\* POST /api/backups/start.
StartManagerBackup(r, label) ==
  /\ Ask(r, "manager")
  /\ IF TaskActive THEN Refuse(r)
     ELSE /\ BeginTask(r) /\ Goto(r, "create") /\ Set(r, "label", label)
          /\ UNCHANGED <<restarts, result, disk, live>>

\* The second and the plan are fixed for the whole set.
BeginSet(r, label, plan) ==
  /\ Goto(r, "artifact")
  /\ \E now \in Seconds :
       job' = [job EXCEPT ![r].stamp = now, ![r].label = label, ![r].plan = plan]
  /\ UNCHANGED <<restarts, result, disk, live>>

\* POST /api/cache-backups/start: the look at the runs, which come and go at
\* any time, then begin_task.
StartCacheBackup(r, label, plan) ==
  /\ Ask(r, "cache")
  /\ \/ Refuse(r)
     \/ /\ ~TaskActive
        /\ BeginTask(r) /\ BeginSet(r, label, plan)

\* POST /api/cache-backups looks at the registry and does not enter it.
StartCacheBackupSync(r, label, plan) ==
  /\ Ask(r, "cache-sync")
  /\ \/ Refuse(r)
     \/ /\ current = None
        /\ BeginSet(r, label, plan) /\ UNCHANGED registry

-----------------------------------------------------------------------------
(* create_full_backup, also called for the safety backup of a restore.     *)

\* What a manager backup holds of the data directory.
Packed == {"manager.db", "settings.json", "notifications.json", "security"}
ImageOf(data) == [c \in Component |-> IF c \in Packed THEN data[c] ELSE None]

Creating == {"create", "secure", "pack", "encrypt"}

\* The name is fixed, the plain ZIP file is there, database and key pair pass
\* their check, and the database is copied.
Create(r) ==
  /\ pc[r] = "create"
  /\ live["manager.db"] # None /\ live["security"] # None
  /\ \E now \in Seconds :
       job' = [job EXCEPT ![r].stamp = now, ![r].img["manager.db"] = live["manager.db"]]
  /\ temps' = temps \cup {<<r, "zip">>, <<r, "db">>}
  /\ Goto(r, "secure")
  /\ UNCHANGED <<restarts, registry, kind, result, files, live>>

\* The settings files are packed if they exist; the security database is copied.
Secure(r) ==
  /\ pc[r] = "secure"
  /\ Set(r, "img", [job[r].img EXCEPT !["settings.json"] = live["settings.json"],
                                      !["notifications.json"] = live["notifications.json"],
                                      !["security"] = live["security"]])
  /\ temps' = temps \cup {<<r, "sec">>}
  /\ Goto(r, "pack")
  /\ UNCHANGED <<restarts, registry, kind, result, files, live>>

\* The copy agrees with the inventory, both snapshots go, and the artifact is
\* opened under its final name, which truncates what bears that name.
Opened(r, n, type) ==
  files' = Put(n, [by |-> r, kind |-> type, img |-> job[r].img,
                   state |-> IF n \in DOMAIN files /\ files[n].state = "partial"
                                /\ files[n].by \in Req \ {r} /\ InProgress(files[n].by)
                             THEN "mixed" ELSE "partial"])
Pack(r) ==
  /\ pc[r] = "pack"
  /\ live["security"] = job[r].img["security"]
  /\ Opened(r, NameOf(r, "manager"), "manager")
  /\ temps' = temps \ {<<r, "sec">>, <<r, "db">>}
  /\ Goto(r, "encrypt")
  /\ UNCHANGED <<restarts, registry, kind, result, job, live>>

\* The last block and the tag are written; the file must still exist.
Closed(r, n) ==
  files' = IF files[n].by = r /\ files[n].state = "partial"
           THEN [files EXCEPT ![n].state = "whole", ![n].by = None] ELSE files
Encrypt(r) ==
  LET n == NameOf(r, "manager") IN
  /\ pc[r] = "encrypt" /\ n \in DOMAIN files
  /\ Closed(r, n)
  /\ temps' = temps \ {<<r, "zip">>}
  /\ Goto(r, IF kind[r] = "restore" THEN "respond" ELSE "report")
  /\ UNCHANGED <<restarts, registry, kind, result, job, live>>

\* The worker looks its backup up in the directory; a user may have deleted it.
Report(r) ==
  /\ pc[r] = "report"
  /\ End(r, IF NameOf(r, "manager") \in DOMAIN files
            THEN "finished" ELSE "failed")
  /\ UNCHANGED <<restarts, kind, disk, live>>

\* Mutant: the snapshots are left behind.
CreateFailsDirty(r) ==
  LET n == NameOf(r, "manager") IN
  /\ pc[r] \in Creating \cup {"report"}
  /\ files' = IF pc[r] = "encrypt" THEN Unlink(n) ELSE files
  /\ temps' = temps \ {<<r, "zip">>}
  /\ End(r, "failed")
  /\ UNCHANGED <<restarts, kind, live>>

\* Mutant: the worker does not catch the exception.
CreateFailsUncaught(r) ==
  LET n == NameOf(r, "manager") IN
  /\ pc[r] \in Creating \cup {"report"}
  /\ files' = IF pc[r] = "encrypt" THEN Unlink(n) ELSE files
  /\ temps' = temps \ TempsOf(r)
  /\ Goto(r, "done")
  /\ UNCHANGED <<restarts, registry, kind, result, job, live>>

\* Any step raises: what was opened is deleted, and so are the temporary files,
\* with the staging directory of a restore.
CreateFails(r) ==
  LET n == NameOf(r, "manager") IN
  /\ pc[r] \in Creating \cup {"report"}
  /\ files' = IF pc[r] = "encrypt" THEN Unlink(n) ELSE files
  /\ temps' = temps \ TempsOf(r)
  /\ End(r, "failed")
  /\ UNCHANGED <<restarts, kind, live>>

-----------------------------------------------------------------------------
(* create_cache_backup_set: one artifact of the manager or a device at a time. *)

HeadName(r) == NameOf(r, Head(job[r].plan))
Rest(r) == Tail(job[r].plan)

\* A device that is gone or disabled by now is skipped with a warning.
SkipArtifact(r) ==
  /\ pc[r] = "artifact" /\ job[r].plan # <<>> /\ Head(job[r].plan) # "bbm"
  /\ Set(r, "plan", Rest(r))
  /\ UNCHANGED <<restarts, registry, kind, pc, result, disk, live>>

BeginArtifact(r) ==
  /\ pc[r] = "artifact" /\ job[r].plan # <<>>
  /\ temps' = temps \cup {<<r, "zip">>}
  /\ Goto(r, "collect")
  /\ UNCHANGED <<restarts, registry, kind, result, job, files, live>>

\* The plain ZIP file is complete, the artifact is opened.
Collect(r) ==
  /\ pc[r] = "collect"
  /\ Opened(r, HeadName(r), IF Head(job[r].plan) = "bbm" THEN "cache" ELSE "client-cache")
  /\ Goto(r, "store")
  /\ UNCHANGED <<restarts, registry, kind, result, job, temps, live>>

\* A device's artifact without any saved data is deleted again.
Store(r) ==
  LET n == HeadName(r) IN
  /\ pc[r] = "store" /\ n \in DOMAIN files
  /\ temps' = temps \ {<<r, "zip">>}
  /\ Goto(r, "artifact")
  /\ \/ /\ Closed(r, n)
        /\ job' = [job EXCEPT ![r].plan = Rest(r), ![r].made = @ \cup {n}]
     \/ /\ Head(job[r].plan) # "bbm" /\ files' = Unlink(n)
        /\ Set(r, "plan", Rest(r))
  /\ UNCHANGED <<restarts, registry, kind, result, live>>

\* One artifact fails: a device's only costs a warning unless the error is
\* unexpected, the manager's ends the set.
ArtifactFails(r) ==
  /\ pc[r] \in {"collect", "store"}
  /\ files' = IF pc[r] = "store" THEN Unlink(HeadName(r)) ELSE files
  /\ temps' = temps \ TempsOf(r)
  /\ \/ End(r, "failed")
     \/ /\ Head(job[r].plan) # "bbm"
        /\ Set(r, "plan", Rest(r)) /\ Goto(r, "artifact")
        /\ UNCHANGED <<registry, result>>
  /\ UNCHANGED <<restarts, kind, live>>

\* Without any artifact the set fails; the worker then lists the directory,
\* which fails if a file disappears under it.
FinishSet(r) ==
  /\ pc[r] = "artifact" /\ job[r].plan = <<>>
  /\ \E how \in Terminal : (job[r].made = {} => how = "failed") /\ End(r, how)
  /\ UNCHANGED <<restarts, kind, disk, live>>

-----------------------------------------------------------------------------
(* Users and their files, and the world around.                            *)

\* The stream is stored under a hidden name; only the header of an encrypted
\* upload can be checked, so a damaged one is accepted.
Upload(r) ==
  /\ Ask(r, "upload")
  /\ temps' = temps \cup {<<r, "upload">>}
  /\ Goto(r, "link")
  /\ UNCHANGED <<restarts, registry, result, job, files, live>>

\* os.link never replaces a file.
LinkUpload(r, n, img, state) ==
  /\ pc[r] = "link"
  /\ temps' = temps \ TempsOf(r)
  /\ IF n \in DOMAIN files
     THEN End(r, "refused") /\ UNCHANGED files
     ELSE /\ files' = Put(n, [by |-> None, kind |-> "manager", img |-> img, state |-> state])
          /\ End(r, "finished")
  /\ UNCHANGED <<restarts, kind, live>>

UploadFails(r) ==
  /\ pc[r] = "link"
  /\ temps' = temps \ TempsOf(r)
  /\ End(r, "failed")
  /\ UNCHANGED <<restarts, kind, files, live>>

DeleteBackup(n) ==
  /\ files' = Unlink(n)
  /\ UNCHANGED <<restarts, registry, kind, pc, result, job, temps, live>>

\* The process ends in the middle of anything; at the start only abandoned
\* snapshots of the security database are removed, if they are old enough.
Gone(R, T) ==
  /\ pc' = [r \in Req |-> IF InProgress(r) /\ r \notin R THEN "lost"
                          ELSE IF r \in R THEN "done" ELSE pc[r]]
  /\ job' = [r \in Req |-> NoJob]
  /\ tasks' = {} /\ current' = None /\ ended' = <<>>
  /\ \E old \in SUBSET {t \in T : t[2] = "sec"} : temps' = T \ old
===============================================================================
