-------------------------------- MODULE RunTask --------------------------------
(***************************************************************************)
(* The tasks that execute runs of one repository (app/service.py:1093-1127,*)
(* 1199-1745, 2045-2190; app/runner.py:2455-2629): from the claim of the   *)
(* queue slot through the repository lock, the Borg process, the external  *)
(* storage monitor and the cleanup to the terminal status, beside          *)
(* interactive calls of the repository, which share its lock, and the      *)
(* cached archive list, which must not outlive what a run changed.         *)
(*                                                                         *)
(* A task suspends only at an await; cancel_run strikes it there, as often *)
(* as a user asks for it while the row is active.  The Borg process of a   *)
(* run lives on another machine: it can outlive its client.                *)
(***************************************************************************)
EXTENDS Integers, Sequences, FiniteSets

CONSTANTS
  Run,                 \* persisted runs of the repository
  Call,                \* requests that take the lock: calls that only read,
                       \* clearing the manager's cache, resets
  ActionOf,            \* what each run does
  Guarded,             \* backups whose storage guard is enabled
  MaxCancels,          \* bounds on the cancellations of each run
  Restarts             \* whether the manager restarts

Action == {"backup", "prune", "delete-archive", "compact", "archive-refresh"}

ASSUME RunAssumption ==
  /\ ActionOf \in [Run -> Action]
  /\ Guarded \subseteq {r \in Run : ActionOf[r] = "backup"}
  /\ Run \cap Call = {}
ASSUME BoundAssumption == MaxCancels \in [Run -> Nat] /\ Restarts \in BOOLEAN

VARIABLES
  status,              \* the run's row
  pc,                  \* where its task, or a call, is
  outcome,             \* the local variable `status` of _execute_run_inner
  lock,                \* owner and waiters of the repository lock
  alive,               \* runs whose Borg process is alive
  lost,                \* runs whose Borg process the manager lost control of
  cancels,             \* cancellations of each run so far
  failures,            \* `failures` of its storage monitor
  lastFailed,          \* history: whether the monitor's last probe failed
  cached,              \* whether the cached archive list exists
  missing              \* runs with changes the cached list does not show

rows == <<status, outcome, cancels>>
monitor == <<failures, lastFailed>>
cache == <<cached, missing>>
vars == <<rows, pc, lock, alive, lost, monitor, cache>>

PC == {"new", "queued", "lock", "prepare", "borg", "aborting", "stopping", "after",
       "cleanup", "lock2", "borg2", "stats", "statslock", "orphan", "done",
       "clearlock", "clearing", "resetlock"}
Terminal == {"success", "warning", "failed", "cancelled"}
Good == {"success", "warning"}
RepositoryActions == {"archive-refresh", "delete-archive"}

Refresh == {r \in Run : ActionOf[r] = "archive-refresh"}
Changing == {r \in Run : ActionOf[r] \in {"backup", "prune", "delete-archive"}}

Active(r) == status[r] \in {"queued", "running"}
Owns(x) == lock # <<>> /\ Head(lock) = x

\* The owner and the waiters but x, who is among them at most once.
Without(x) ==
  IF \E k \in DOMAIN lock : lock[k] = x
  THEN LET k == CHOOSE k \in DOMAIN lock : lock[k] = x
       IN  [i \in 1..(Len(lock) - 1) |-> lock[IF i < k THEN i ELSE i + 1]]
  ELSE lock

Goto(x, where) == pc' = [pc EXCEPT ![x] = where]
Result(r, s) == outcome' = [outcome EXCEPT ![r] = s]

\* The local variables of tasks are gone.
Forget(R) ==
  /\ outcome' = [r \in Run |-> IF r \in R THEN "none" ELSE outcome[r]]
  /\ failures' = [r \in Run |-> IF r \in R THEN 0 ELSE failures[r]]
  /\ lastFailed' = [r \in Run |-> r \notin R /\ lastFailed[r]]

-----------------------------------------------------------------------------
Init ==
  /\ status = [r \in Run |-> "none"]
  /\ pc = [x \in Run \cup Call |-> "new"]
  /\ outcome = [r \in Run |-> "none"]
  /\ lock = <<>>
  /\ alive = {} /\ lost = {}
  /\ cancels = [r \in Run |-> 0]
  /\ failures = [r \in Run |-> 0]
  /\ lastFailed = [r \in Run |-> FALSE]
  /\ cached \in BOOLEAN
  /\ missing = {}

Queue(r) ==
  /\ pc[r] = "new"
  /\ Goto(r, "queued")
  /\ status' = [status EXCEPT ![r] = "queued"]
  /\ UNCHANGED <<outcome, cancels, lock, alive, lost, monitor, cache>>

\* queue_job_action; the runs here are of different jobs.
QueueJobRun(r) == ActionOf[r] \notin RepositoryActions /\ Queue(r)

\* queue_repository_archive_refresh and queue_repository_action refuse beside
\* any active run of the repository.
QueueRepositoryRun(r) ==
  /\ ActionOf[r] \in RepositoryActions /\ \A s \in Run : ~Active(s)
  /\ Queue(r)

\* Admission, reduced to one repository, and the first call of acquire().
\* The planner ignores rows without a task, the wait of a refresh does not.
Claim(r) ==
  /\ pc[r] = "queued"
  /\ \A s \in Run : status[s] = "running" => pc[s] = "orphan" /\ r \notin Refresh
  /\ status' = [status EXCEPT ![r] = "running"]
  /\ Goto(r, "lock") /\ lock' = Append(lock, r)
  /\ UNCHANGED <<outcome, cancels, alive, lost, monitor, cache>>

\* The lock is owned; manager lock, cache cleanup and first probe follow.
GetLock(r) ==
  /\ pc[r] = "lock" /\ Owns(r)
  /\ Goto(r, "prepare")
  /\ UNCHANGED <<rows, lock, alive, lost, monitor, cache>>

\* The storage is over its limit or unknown, or something else is raised.
PrepareFails(r) ==
  /\ pc[r] = "prepare"
  /\ Result(r, "failed") /\ Goto(r, "cleanup")
  /\ UNCHANGED <<status, cancels, lock, alive, lost, monitor, cache>>

StartBorg(r) ==
  /\ pc[r] = "prepare"
  /\ alive' = alive \cup {r} /\ Goto(r, "borg")
  /\ UNCHANGED <<rows, lock, lost, monitor, cache>>

\* The process commits a change: the new archive, the loss of one.
BorgChanges(r) ==
  /\ r \in alive \cap Changing
  /\ missing' = IF cached THEN missing \cup {r} ELSE missing
  /\ UNCHANGED <<rows, pc, lock, alive, lost, monitor, cached>>

\* It ends by itself; its client, when there still is one, returns its code.
BorgEnds(r) ==
  /\ r \in alive
  /\ alive' = alive \ {r}
  /\ \/ /\ pc[r] = "borg" /\ r \notin Refresh
        /\ \E s \in {"success", "warning", "failed"} : Result(r, s)
        /\ Goto(r, "after")
     \/ r \in lost /\ UNCHANGED <<pc, outcome>>
  /\ UNCHANGED <<status, cancels, lock, lost, monitor, cache>>

\* "Command timed out", or the connection broke: a failure without its end.
ClientEnds(r) ==
  /\ pc[r] \in {"borg", "borg2"}
  /\ Result(r, "failed") /\ lost' = lost \cup {r}
  /\ IF r \in Refresh THEN Goto(r, "cleanup") /\ lock' = Tail(lock)
                       ELSE Goto(r, "after") /\ UNCHANGED lock
  /\ UNCHANGED <<status, cancels, alive, monitor, cache>>

-----------------------------------------------------------------------------
(* _monitor_external_repository_storage.                                   *)

Watched(r) == r \in Guarded /\ pc[r] = "borg"

\* Mutant: a good probe does not start the count anew.
ProbeGoodKeepsCount(r) ==
  /\ Watched(r)
  /\ lastFailed' = [lastFailed EXCEPT ![r] = FALSE]
  /\ UNCHANGED <<rows, pc, lock, alive, lost, failures, cache>>

ProbeGood(r) ==
  /\ Watched(r)
  /\ failures' = [failures EXCEPT ![r] = 0]
  /\ lastFailed' = [lastFailed EXCEPT ![r] = FALSE]
  /\ UNCHANGED <<rows, pc, lock, alive, lost, cache>>

\* EXTERNAL_STORAGE_MAX_CONSECUTIVE_FAILURES
MaxFailures == 2

ProbeFails(r) ==
  /\ Watched(r)
  /\ failures' = [failures EXCEPT ![r] = @ + 1]
  /\ lastFailed' = [lastFailed EXCEPT ![r] = TRUE]
  /\ IF failures'[r] >= MaxFailures THEN Goto(r, "aborting") ELSE UNCHANGED pc
  /\ UNCHANGED <<rows, lock, alive, lost, cache>>

ProbeFull(r) ==
  /\ Watched(r)
  /\ Goto(r, "aborting")
  /\ UNCHANGED <<rows, lock, alive, lost, monitor, cache>>

-----------------------------------------------------------------------------
(* stop_process_gracefully: closing the control channel, SIGINT, SIGTERM,  *)
(* SIGKILL, each with a time limit; after the last one it returns anyway.  *)

Stopped(r) ==
  \/ alive' = alive \ {r} /\ UNCHANGED lost
  \/ lost' = lost \cup {r} /\ UNCHANGED alive

\* The guard's stop returns code 75.
AbortEnds(r) ==
  /\ pc[r] = "aborting" /\ Stopped(r)
  /\ Result(r, "failed") /\ Goto(r, "after")
  /\ UNCHANGED <<status, cancels, lock, monitor, cache>>

\* Mutant: a cancelled task does not wait for the end of its process.
StopWithoutWaiting(r) ==
  /\ pc[r] = "stopping"
  /\ Result(r, "cancelled") /\ Goto(r, "cleanup")
  /\ UNCHANGED <<status, cancels, lock, alive, lost, monitor, cache>>

\* CommandCancelled
StopEnds(r) ==
  /\ pc[r] = "stopping" /\ Stopped(r)
  /\ Result(r, "cancelled") /\ Goto(r, "cleanup")
  /\ UNCHANGED <<status, cancels, lock, monitor, cache>>

\* The monitor has ended, the last probe and the last flush are done.
After(r) ==
  /\ pc[r] = "after"
  /\ Goto(r, "cleanup")
  /\ UNCHANGED <<rows, lock, alive, lost, monitor, cache>>

-----------------------------------------------------------------------------
\* Mutant: only successful runs invalidate the list.
InvalidatesWhenGood(r) == outcome[r] \in Good /\ r \in Changing

Invalidates(r) ==
  \/ outcome[r] \in Good /\ r \in Changing
  \/ ActionOf[r] = "delete-archive"

(***************************************************************************)
(* The end of the `finally` block and what follows it without a            *)
(* suspension: locks are released, the cached list is invalidated, the     *)
(* terminal status is committed.  A good run then refreshes statistics.    *)
(***************************************************************************)
Publish(r) ==
  /\ pc[r] = "cleanup"
  /\ lock' = Without(r)
  /\ status' = [status EXCEPT ![r] = outcome[r]]
  /\ cached' = (cached /\ ~Invalidates(r))
  /\ missing' = IF Invalidates(r) THEN {} ELSE missing
  /\ \/ Goto(r, "done")
     \/ outcome[r] \in Good /\ r \notin Refresh /\ Goto(r, "stats")
  /\ Forget({r})
  /\ UNCHANGED <<cancels, alive, lost>>

\* refresh_repository_statistics, an interactive call of the task itself.
StatsBegin(r) ==
  /\ pc[r] = "stats"
  /\ Goto(r, "statslock") /\ lock' = Append(lock, r)
  /\ UNCHANGED <<rows, alive, lost, monitor, cache>>

\* Mutant: the call ends without the release.
StatsEndKeepingLock(r) ==
  /\ pc[r] = "statslock" /\ Owns(r)
  /\ Goto(r, "done")
  /\ UNCHANGED <<rows, lock, alive, lost, monitor, cache>>

StatsEnd(r) ==
  /\ pc[r] = "statslock" /\ Owns(r)
  /\ Goto(r, "done") /\ lock' = Tail(lock)
  /\ UNCHANGED <<rows, alive, lost, monitor, cache>>

-----------------------------------------------------------------------------
(***************************************************************************)
(* execute_repository_archive_refresh: `borg info`, perhaps `borg list`,   *)
(* each an interactive call, then the new list is stored.                  *)
(***************************************************************************)
RefreshEnds(r) ==
  /\ pc[r] \in {"borg", "borg2"} /\ r \in Refresh
  /\ alive' = alive \ {r} /\ lock' = Tail(lock)
  /\ Goto(r, "cleanup")
  /\ \/ cached' = TRUE /\ missing' = {} /\ \E s \in Good : Result(r, s)
     \/ Result(r, "failed") /\ UNCHANGED cache
  /\ UNCHANGED <<status, cancels, lost, monitor>>

\* The information lacks archives: the lock is released and asked for again.
RefreshLists(r) ==
  /\ pc[r] = "borg" /\ r \in Refresh
  /\ alive' = alive \ {r} /\ lock' = Append(Tail(lock), r)
  /\ Goto(r, "lock2")
  /\ UNCHANGED <<rows, lost, monitor, cache>>

RefreshAgain(r) ==
  /\ pc[r] = "lock2" /\ Owns(r)
  /\ alive' = alive \cup {r} /\ Goto(r, "borg2")
  /\ UNCHANGED <<rows, lock, lost, monitor, cache>>

-----------------------------------------------------------------------------
(***************************************************************************)
(* cancel_run: CancelledError at the await the task is suspended at.       *)
(***************************************************************************)
\* Mutant: a cancellation during the final probe is swallowed.
CancelQuietlySwallowed(r) ==
  /\ pc[r] \in {"queued", "lock", "prepare", "after", "lock2"}
  /\ IF pc[r] = "after" THEN UNCHANGED outcome ELSE Result(r, "cancelled")
  /\ Goto(r, "cleanup")
  /\ lock' = IF pc[r] \in {"lock", "lock2"} THEN Without(r) ELSE lock
  /\ UNCHANGED <<alive, lost>>

\* Before Borg, or after it: the except block sets the outcome.
CancelQuietly(r) ==
  /\ pc[r] \in {"queued", "lock", "prepare", "after", "lock2"}
  /\ Result(r, "cancelled") /\ Goto(r, "cleanup")
  /\ lock' = IF pc[r] \in {"lock", "lock2"} THEN Without(r) ELSE lock
  /\ UNCHANGED <<alive, lost>>

\* While Borg works, or while the guard stops it, it is stopped.
CancelBorg(r) ==
  /\ pc[r] \in {"borg", "borg2", "aborting"}
  /\ Goto(r, "stopping")
  /\ UNCHANGED <<outcome, lock, alive, lost>>

\* During the stop: the client is killed at once, the stop is abandoned.
CancelStop(r) ==
  /\ pc[r] = "stopping"
  /\ Result(r, "cancelled") /\ Goto(r, "cleanup")
  /\ UNCHANGED <<lock, alive, lost>>

\* At an await of the `finally` block, of which a refresh has none: nothing
\* behind it is executed.
CancelCleanup(r) ==
  /\ pc[r] = "cleanup" /\ r \notin Refresh
  /\ Goto(r, "orphan")
  /\ UNCHANGED <<outcome, lock, alive, lost>>

Cancel(r) ==
  /\ Active(r) /\ cancels[r] < MaxCancels[r]
  /\ cancels' = [cancels EXCEPT ![r] = @ + 1]
  /\ CancelQuietly(r) \/ CancelBorg(r) \/ CancelStop(r) \/ CancelCleanup(r)
  /\ UNCHANGED <<status, monitor, cache>>

-----------------------------------------------------------------------------
CallBegin(c) ==
  /\ pc[c] = "new"
  /\ Goto(c, "lock") /\ lock' = Append(lock, c)
  /\ UNCHANGED <<rows, alive, lost, monitor, cache>>

CallEnd(c) ==
  /\ pc[c] = "lock" /\ Owns(c)
  /\ Goto(c, "done") /\ lock' = Tail(lock)
  /\ UNCHANGED <<rows, alive, lost, monitor, cache>>

\* clear_repository_cache: its endpoint looks for active runs, it looks again
\* when it owns the lock, and keeps that while a thread removes the cache.
ClearAsk(c) ==
  /\ pc[c] = "new" /\ ~\E r \in Run : Active(r)
  /\ Goto(c, "clearlock") /\ lock' = Append(lock, c)
  /\ UNCHANGED <<rows, alive, lost, monitor, cache>>

ClearBegin(c) ==
  /\ pc[c] = "clearlock" /\ Owns(c)
  /\ IF \E r \in Run : Active(r)
     THEN Goto(c, "done") /\ lock' = Tail(lock)
     ELSE Goto(c, "clearing") /\ UNCHANGED lock
  /\ UNCHANGED <<rows, alive, lost, monitor, cache>>

ClearEnd(c) ==
  /\ pc[c] = "clearing"
  /\ Goto(c, "done") /\ lock' = Without(c)
  /\ UNCHANGED <<rows, alive, lost, monitor, cache>>

\* reset_managed_repository_state of a repository whose directory is empty.
ResetAsk(c) ==
  /\ pc[c] = "new"
  /\ Goto(c, "resetlock") /\ lock' = Append(lock, c)
  /\ UNCHANGED <<rows, alive, lost, monitor, cache>>

Reset(c) ==
  /\ pc[c] = "resetlock" /\ Owns(c)
  /\ Goto(c, "done") /\ lock' = Tail(lock)
  /\ \/ UNCHANGED cache
     \/ (\A r \in Run : ~Active(r)) /\ cached' = FALSE /\ missing' = {}
  /\ UNCHANGED <<rows, alive, lost, monitor>>

\* The manager dies; Borg processes go on; recover_interrupted_runs.
Restart ==
  /\ Restarts
  /\ status' = [r \in Run |-> IF Active(r) THEN "failed" ELSE status[r]]
  /\ lost' = lost \cup {r \in Run : Active(r)}
  /\ pc' = [x \in Run \cup Call |-> IF pc[x] = "new" THEN "new" ELSE "done"]
  /\ lock' = <<>>
  /\ Forget(Run)
  /\ UNCHANGED <<cancels, alive, cache>>

RunStep(r) ==
  \/ Claim(r) \/ GetLock(r) \/ PrepareFails(r) \/ StartBorg(r) \/ BorgEnds(r) \/ ClientEnds(r)
  \/ AbortEnds(r) \/ StopEnds(r) \/ After(r) \/ Publish(r) \/ StatsBegin(r) \/ StatsEnd(r)
  \/ RefreshEnds(r) \/ RefreshLists(r) \/ RefreshAgain(r)

CallStep(c) == CallEnd(c) \/ ClearBegin(c) \/ ClearEnd(c) \/ Reset(c)

Next ==
  \/ \E r \in Run : QueueJobRun(r) \/ QueueRepositoryRun(r) \/ RunStep(r) \/ Cancel(r) \/ BorgChanges(r)
  \/ \E r \in Run : ProbeGood(r) \/ ProbeFails(r) \/ ProbeFull(r)
  \/ \E c \in Call : CallBegin(c) \/ ClearAsk(c) \/ ResetAsk(c) \/ CallStep(c)
  \/ Restart

Spec == Init /\ [][Next]_vars

(***************************************************************************)
(* Tasks are resumed, Borg commands and their stop have time limits.       *)
(***************************************************************************)
Fairness ==
  /\ \A r \in Run : WF_vars(RunStep(r))
  /\ \A c \in Call : WF_vars(CallStep(c))

FairSpec == Spec /\ Fairness

-----------------------------------------------------------------------------
TypeOK ==
  /\ status \in [Run -> {"none", "queued", "running"} \cup Terminal]
  /\ pc \in [Run \cup Call -> PC]
  /\ outcome \in [Run -> {"none"} \cup Terminal]
  /\ lock \in Seq(Run \cup Call)
  /\ alive \subseteq Run /\ lost \subseteq Run
  /\ cancels \in [Run -> Nat] /\ \A r \in Run : cancels[r] <= MaxCancels[r]
  /\ failures \in [Run -> 0..MaxFailures]
  /\ lastFailed \in [Run -> BOOLEAN]
  /\ cached \in BOOLEAN
  /\ missing \subseteq Run

\* Runs whose process may go on without the manager: it lost control of it,
\* or a second cancellation may have struck the stop of the process.
OutOfHand == lost \cup {r \in Run : cancels[r] > 1}

(***************************************************************************)
(* The lock goes with the process.  The end of a Borg process is awaited   *)
(* before its repository is released: one the manager has not lost control *)
(* of owns the lock, so that nothing executes beside it, unless it was     *)
(* cancelled once more while it was being stopped; nor does the manager    *)
(* remove its cache of the repository beside it.  And a task that ended    *)
(* or is between two commands, however it got there, neither owns nor      *)
(* awaits the lock, and nobody awaits it twice (only a cancellation in the *)
(* cleanup leaves an orphan that owns it).                                 *)
(***************************************************************************)
BorgUnderLock ==
  /\ \A r \in alive \ OutOfHand : Owns(r)
  /\ \A c \in Call : pc[c] = "clearing" => Owns(c)

LockReturned ==
  \A i, j \in DOMAIN lock :
    /\ pc[lock[i]] \notin {"new", "queued", "stats", "done"}
    /\ lock[i] = lock[j] => i = j

LockDiscipline == TypeOK /\ BorgUnderLock /\ LockReturned

(***************************************************************************)
(* The archive list is invalidated before the terminal status can be seen: *)
(* what a run that ended well changed, and what a deletion changed however *)
(* it ended, is never missing from the cached list.                        *)
(***************************************************************************)
PublishedIsSeen ==
  \A r \in missing \ OutOfHand :
    Active(r) \/ (status[r] \notin Good /\ ActionOf[r] # "delete-archive")

(***************************************************************************)
(* One failed probe of the external storage never stops a backup: only the *)
(* second one in a row does.                                               *)
(***************************************************************************)
AbortsForCause ==
  [][\A r \in Run :
       pc[r] = "borg" /\ pc'[r] = "aborting" /\ failures'[r] # failures[r] => lastFailed[r]]_vars

(***************************************************************************)
(* A run that a user cancelled is reported as cancelled, whatever its task *)
(* was doing and whatever its process returned meanwhile.                  *)
(***************************************************************************)
CancelledIsReported ==
  \A r \in Run \ lost : cancels[r] > 0 => Active(r) \/ status[r] = "cancelled"

(***************************************************************************)
(* Every run ends with a terminal status, unless a cancellation struck the *)
(* cleanup of one, which then keeps the lock until the next restart.       *)
(***************************************************************************)
RunsEnd ==
  \A r \in Run : Active(r) ~> (status[r] \in Terminal \/ \E s \in Run : pc[s] = "orphan")
=============================================================================
