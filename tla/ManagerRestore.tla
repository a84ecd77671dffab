----------------------------- MODULE ManagerRestore -----------------------------
(***************************************************************************)
(* Restoring the manager from one of its backups, and the manager's Borg   *)
(* cache from a cache backup (app/backups.py:958-1095, 1265-1515,          *)
(* app/main.py:4522-4563), beside everything that writes backups.          *)
(*                                                                         *)
(* A restore extracts the artifact into a staging directory, writes a      *)
(* safety backup of what there is, answers, and then exchanges the         *)
(* components of the data directory one by one inside a transaction        *)
(* directory, which keeps the originals until the exchange is complete.    *)
(* Any rename may fail, those of the roll back too, and the process may be *)
(* killed anywhere.  After a successful exchange the process exits.        *)
(***************************************************************************)
EXTENDS ManagerBackups

\* Nothing keeps two restores of one kind apart, and two at once mix what they
\* install ("the caller must quiesce database users", app/backups.py:1447):
\* the users are taken to begin one at a time.
ASSUME RestoreAssumption ==
  \A what \in {"restore", "cache-restore"} :
    \A p, q \in Req : what \in Offered[p] \cap Offered[q] => p = q

VARIABLE tx              \* staged image and transaction directory of a restore

vars == <<backupVars, tx>>

\* RESTORE_COMPONENTS as far as they are modelled and the sidecar of the old
\* database, in the order in which they are exchanged.
Order == <<"manager.db", "settings.json", "notifications.json", "security",
           "borg-cache", "borg-security", "manager.db-wal">>
First(S) ==
  CHOOSE c \in S : \E i \in 1..Len(Order) : Order[i] = c /\ \A j \in 1..(i - 1) : Order[j] \notin S
Latest(S) ==
  CHOOSE c \in S :
    \E i \in 1..Len(Order) : Order[i] = c /\ \A j \in (i + 1)..Len(Order) : Order[j] \notin S

CacheParts == {"borg-cache", "borg-security"}
\* What a restore is about.
Scope(q) == IF kind[q] = "cache-restore" THEN CacheParts ELSE Component \ CacheParts

NoTx == [img |-> NoImage, before |-> NoImage, old |-> NoImage, todo |-> {},
         changed |-> {}, installed |-> {}, error |-> FALSE]
Tx(q, record) == tx' = [tx EXCEPT ![q] = record]

Extracting == {"extract", "cache-extract"}
Swapping == {"swap", "install", "rollback"}

Init ==
  /\ InitBackups
  /\ tx = [r \in Req |-> NoTx]

-----------------------------------------------------------------------------
(* Until the answer.                                                       *)

BeginRestore(q, what, n) ==
  /\ what \in {"restore", "cache-restore"} /\ Ask(q, what)
  /\ \/ Refuse(q)
     \/ /\ Goto(q, IF what = "restore" THEN "extract" ELSE "cache-extract")
        /\ Set(q, "plan", <<n>>)
        /\ temps' = temps \cup {<<q, "staging">>, <<q, "decrypted">>}
        /\ UNCHANGED <<restarts, registry, result, files, live>>
  /\ UNCHANGED tx

\* Decryption accepts the whole output of one writer and nothing else; the
\* manifest tells manager backups from cache backups.
Readable(q, type) ==
  LET n == Head(job[q].plan) IN
  /\ n \in DOMAIN files
  /\ files[n].state = "whole"
  /\ files[n].kind = type

\* prepare_full_backup_restore succeeds, the backup holds both databases; the
\* safety backup follows.
Extract(q) ==
  /\ pc[q] = "extract" /\ Readable(q, "manager")
  /\ LET img == files[Head(job[q].plan)].img IN img["manager.db"] # None /\ img["security"] # None
  /\ Tx(q, [NoTx EXCEPT !.img = files[Head(job[q].plan)].img])
  /\ temps' = temps \ {<<q, "decrypted">>}
  /\ Goto(q, "create")
  /\ job' = [job EXCEPT ![q].plan = <<>>, ![q].label = "vor-wiederherstellung"]
  /\ UNCHANGED <<restarts, registry, kind, result, files, live>>

RestoreFails(q) ==
  /\ pc[q] \in Extracting
  /\ temps' = temps \ TempsOf(q)
  /\ End(q, "failed")
  /\ UNCHANGED <<restarts, kind, files, live, tx>>

\* The answer 202 is out; every component is copied before live data is
\* touched.  Missing notification settings are removed from the live data too,
\* and the sidecars of the old database go with it.
Copy(q) ==
  /\ pc[q] = "respond"
  /\ Tx(q, [tx[q] EXCEPT
       !.before = live,
       !.todo = {c \in Scope(q) : tx[q].img[c] # None}
                  \cup {"notifications.json", "manager.db-wal"}])
  /\ Goto(q, "swap")
  /\ UNCHANGED <<restarts, registry, kind, result, job, disk, live>>

\* A copy fails: nothing was exchanged, only the staging directory is left.
CopyFails(q) ==
  /\ pc[q] = "respond"
  /\ End(q, "failed") /\ Tx(q, NoTx)
  /\ UNCHANGED <<restarts, kind, disk, live>>

-----------------------------------------------------------------------------
(* The exchange of apply_prepared_restore.                                 *)

Current(q) == First(tx[q].todo)

\* target.replace(original_root / component), if there is a target.
SwapOut(q) ==
  /\ pc[q] = "swap" /\ tx[q].todo # {}
  /\ live' = [live EXCEPT ![Current(q)] = None]
  /\ Tx(q, [tx[q] EXCEPT !.old[Current(q)] = live[Current(q)],
                         !.changed = @ \cup {Current(q)}])
  /\ Goto(q, "install")
  /\ UNCHANGED <<restarts, registry, kind, result, job, disk>>

\* prepared.replace(target), if the backup holds the component.
SwapIn(q) ==
  /\ pc[q] = "install"
  /\ live' = [live EXCEPT ![Current(q)] = tx[q].img[Current(q)]]
  /\ Tx(q, [tx[q] EXCEPT !.todo = @ \ {Current(q)},
              !.installed = IF tx[q].img[Current(q)] = None THEN @ ELSE @ \cup {Current(q)}])
  /\ Goto(q, "swap")
  /\ UNCHANGED <<restarts, registry, kind, result, job, disk>>

\* One of the two renames fails.
SwapFails(q) ==
  /\ pc[q] \in {"swap", "install"} /\ tx[q].todo # {}
  /\ Goto(q, "rollback")
  /\ UNCHANGED <<restarts, registry, kind, result, job, disk, live, tx>>

\* Mutant: what replaced nothing is left in place.
RollBackOriginals(q) ==
  /\ pc[q] = "rollback" /\ tx[q].changed # {}
  /\ LET c == Latest(tx[q].changed) IN
     /\ live' = [live EXCEPT ![c] = IF tx[q].old[c] # None THEN tx[q].old[c] ELSE @]
     /\ Tx(q, [tx[q] EXCEPT !.old[c] = None, !.changed = @ \ {c}])
  /\ UNCHANGED <<restarts, registry, kind, pc, result, job, disk>>

\* The component exchanged last is put back.
RollBack(q) ==
  /\ pc[q] = "rollback" /\ tx[q].changed # {}
  /\ LET c == Latest(tx[q].changed) IN
     /\ live' = [live EXCEPT ![c] = IF tx[q].old[c] # None THEN tx[q].old[c]
                                    ELSE IF c \in tx[q].installed THEN None ELSE @]
     /\ Tx(q, [tx[q] EXCEPT !.old[c] = None, !.changed = @ \ {c}])
  /\ UNCHANGED <<restarts, registry, kind, pc, result, job, disk>>

\* A rename of the roll back fails: the first leaves the component as it is,
\* the second happens when the new one is already out.
RollBackFails(q) ==
  /\ pc[q] = "rollback" /\ tx[q].changed # {}
  /\ LET c == Latest(tx[q].changed) IN
     /\ \/ c \in tx[q].installed /\ UNCHANGED live
        \/ tx[q].old[c] # None /\ live' = [live EXCEPT ![c] = None]
     /\ Tx(q, [tx[q] EXCEPT !.error = TRUE, !.changed = @ \ {c}])
  /\ UNCHANGED <<restarts, registry, kind, pc, result, job, disk>>

\* Mutant: the transaction directory is deleted in any case.
EndRollBackCleans(q) ==
  /\ pc[q] = "rollback" /\ tx[q].changed = {}
  /\ End(q, "failed")
  /\ Tx(q, [tx[q] EXCEPT !.old = NoImage])
  /\ UNCHANGED <<restarts, kind, disk, live>>

\* The transaction directory is kept if the roll back had errors.  The
\* manager goes on without its scheduler, and the staging directory is left.
EndRollBack(q) ==
  /\ pc[q] = "rollback" /\ tx[q].changed = {}
  /\ End(q, "failed")
  /\ Tx(q, IF tx[q].error THEN tx[q] ELSE [tx[q] EXCEPT !.old = NoImage])
  /\ UNCHANGED <<restarts, kind, disk, live>>

\* Both directories are deleted and os._exit ends every other thread.
EndSwap(q) ==
  /\ pc[q] = "swap" /\ tx[q].todo = {}
  /\ Gone({q}, temps \ TempsOf(q))
  /\ result' = [result EXCEPT ![q] = "finished"]
  /\ Tx(q, [tx[q] EXCEPT !.old = NoImage])
  /\ UNCHANGED <<restarts, kind, files, live>>

-----------------------------------------------------------------------------
(* restore_manager_borg_cache_from_backup: the same on two directories; the *)
(* previous ones stay as safety copies.                                    *)

CacheExtract(q) ==
  /\ pc[q] = "cache-extract" /\ Readable(q, "cache")
  /\ Tx(q, [NoTx EXCEPT !.img = files[Head(job[q].plan)].img, !.before = live,
                        !.todo = CacheParts])
  /\ temps' = temps \ {<<q, "decrypted">>}
  /\ Goto(q, "cache-swap") /\ Set(q, "plan", <<>>)
  /\ UNCHANGED <<restarts, registry, kind, result, files, live>>

\* target.replace(previous) and incoming.replace(target); an archive without
\* one of the directories restores an empty one.
CacheSwap(q) ==
  /\ pc[q] = "cache-swap" /\ tx[q].todo # {}
  /\ LET c == Current(q) IN
     /\ live' = [live EXCEPT ![c] = "restored"]
     /\ Tx(q, [tx[q] EXCEPT !.old[c] = live[c], !.todo = @ \ {c},
                            !.installed = @ \cup {c}])
  /\ UNCHANGED <<restarts, registry, kind, pc, result, job, disk>>

\* The previous directories that are out of the way when a rename fails, before
\* or after the one that is next, and those whose place becomes free again.
Previous(q, out) ==
  IF out THEN [tx[q].old EXCEPT ![Current(q)] = live[Current(q)]] ELSE tx[q].old
Movable(old, stuck) == {c \in CacheParts : old[c] # None /\ c \notin stuck}

\* The data and the transaction x when the directories back are in their place.
DataUndone(x, d, old, stuck, back) ==
  [c \in Component |-> IF c \in back THEN old[c]
                       ELSE IF c \in Movable(old, stuck) \cup (x.installed \ stuck) THEN None
                       ELSE d[c]]
TxUndone(x, old, back) ==
  [x EXCEPT !.old = [c \in Component |-> IF c \in back THEN None ELSE old[c]]]

\* What is installed is removed, which may fail unnoticed, and the previous
\* directories return to the places that are free, until a rename fails.
CacheSwapFails(q) ==
  /\ pc[q] = "cache-swap" /\ tx[q].todo # {}
  /\ \E out \in BOOLEAN, stuck \in SUBSET tx[q].installed :
       \E back \in SUBSET Movable(Previous(q, out), stuck) :
          /\ "borg-cache" \in back /\ "borg-security" \in Movable(Previous(q, out), stuck)
               => "borg-security" \in back
          /\ live' = DataUndone(tx[q], live, Previous(q, out), stuck, back)
          /\ Tx(q, TxUndone(tx[q], Previous(q, out), back))
  /\ temps' = temps \ TempsOf(q)
  /\ End(q, "failed")
  /\ UNCHANGED <<restarts, kind, files>>

EndCacheSwap(q) ==
  /\ pc[q] = "cache-swap" /\ tx[q].todo = {}
  /\ temps' = temps \ TempsOf(q)
  /\ End(q, "finished")
  /\ UNCHANGED <<restarts, kind, files, live, tx>>

-----------------------------------------------------------------------------
\* The container is stopped, in the middle of anything.
Restart ==
  /\ restarts < Restarts /\ restarts' = restarts + 1
  /\ \E r \in Req : InProgress(r)
  /\ Gone({}, temps)
  /\ UNCHANGED <<kind, result, files, live, tx>>

CreateStep(r) == Create(r) \/ Secure(r) \/ Pack(r) \/ Encrypt(r)
                   \/ Report(r) \/ CreateFails(r)
SetStep(r) == SkipArtifact(r) \/ BeginArtifact(r) \/ Collect(r) \/ Store(r)
                \/ ArtifactFails(r) \/ FinishSet(r)
RestoreStep(q) == Extract(q) \/ RestoreFails(q) \/ Copy(q) \/ CopyFails(q)
                    \/ SwapOut(q) \/ SwapIn(q) \/ SwapFails(q) \/ RollBack(q)
                    \/ RollBackFails(q) \/ EndRollBack(q) \/ EndSwap(q)
                    \/ CacheExtract(q) \/ CacheSwap(q) \/ CacheSwapFails(q) \/ EndCacheSwap(q)

\* A thread that has begun goes on.
Work(r) == \/ (CreateStep(r) \/ SetStep(r)) /\ UNCHANGED tx
           \/ RestoreStep(r)

StartRequest(r) ==
  \/ \E label \in Labels : StartManagerBackup(r, label)
  \/ \E label \in Labels, plan \in Plans :
       StartCacheBackup(r, label, plan) \/ StartCacheBackupSync(r, label, plan)
  \/ Upload(r) \/ UploadFails(r)
  \/ \E n \in DOMAIN files \cup {UploadName}, state \in {"whole", "partial"} :
       LinkUpload(r, n, Foreign, state)

Users ==
  /\ \/ \E r \in Req : StartRequest(r)
     \/ \E n \in DOMAIN files : DeleteBackup(n)
  /\ UNCHANGED tx

Next ==
  \/ Users
  \/ \E r \in Req : Work(r)
  \/ \E r \in Req, n \in DOMAIN files, what \in Kinds : BeginRestore(r, what, n)
  \/ Restart

Spec == Init /\ [][Next]_vars /\ \A r \in Req : WF_vars(Work(r))

-----------------------------------------------------------------------------
(* Properties.                                                             *)

\* The registry describes the threads: a task whose thread is at work is the
\* current one, the current one is at work and still known, and the registry
\* does not outgrow its bound (begin_task, finish_task, _prune_locked; a task
\* that is pruned too early can never end and blocks all later backups).
RegistrySound ==
  /\ current # None => current \in tasks /\ InProgress(current)
  /\ \A r \in Req : IsTask(r) /\ InProgress(r) => r = current
  /\ Cardinality(tasks) <= MaxTasks

\* Temporary files with unencrypted data exist only while their request works,
\* whatever fails in it (the finally clauses of backups.py), unless the process
\* was killed.
PlaintextIsTemporary ==
  \A t \in temps : t[2] \in {"zip", "db", "sec", "decrypted"}
                     => InProgress(t[1]) \/ pc[t[1]] = "lost"

\* Until a restore has succeeded, every original file is in its place or in the
\* transaction directory (of a cache restore: in the safety copy), whatever
\* rename fails and wherever the process is killed (apply_prepared_restore,
\* restore_manager_borg_cache_from_backup).
OriginalsKept ==
  \A q \in Req : result[q] # "finished" =>
    \A c \in Scope(q) : tx[q].before[c] # None =>
       tx[q].before[c] \in {live[c], tx[q].old[c]}

\* A restore is all or nothing: it ends with every component of one backup that
\* one writer completed, or, if no rename of the roll back failed, with what
\* there was before (app/backups.py:1444-1515).
RestoreAllOrNothing ==
  \A q \in Req : kind[q] = "restore" /\ pc[q] = "done" =>
    /\ result[q] = "finished" =>
         /\ tx[q].img = Foreign \/ \E d \in Data : tx[q].img = ImageOf(d)
         /\ \A c \in Scope(q) :
              live[c] = IF tx[q].img[c] # None THEN tx[q].img[c]
                        ELSE IF c \in {"notifications.json", "manager.db-wal"} THEN None
                        ELSE tx[q].before[c]
    /\ result[q] = "failed" /\ ~tx[q].error /\ tx[q].before # NoImage =>
         \A c \in Scope(q) : live[c] = tx[q].before[c]

\* Every backup task ends, whatever fails: otherwise no other task could ever
\* be admitted.
TasksEnd == \A r \in Req : current = r ~> current # r
===============================================================================
