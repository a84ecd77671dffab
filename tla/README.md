# TLA+ verification project for BorgBackup Manager

All paths are relative to the repository (`src/`). Line numbers refer to the
commit kept there (release 1.3.10).

## 1. Inventory

BorgBackup Manager (BBM) is one Python process: a FastAPI application on one
asyncio event loop, plus the worker threads FastAPI uses for synchronous
(`def`) endpoints and `asyncio.to_thread`. Persistent state is SQLite
(`manager.db`, `security.db`) and files below `/data`; everything else is lost
at a restart. Borg itself runs in child processes, often through SSH.

Two scheduling facts matter for every model:

* code on the event loop is atomic between two `await`s that suspend;
* a synchronous endpoint runs in a thread and interleaves with the loop at
  every SQLite transaction.

| Part | Source | State | Operations | Hard behaviour |
|---|---|---|---|---|
| Capacity limiter | `app/service.py:483-557` `_AdjustableCapacity` | `_limit`, `_in_use`, deque of futures | `acquire`, `release`, `set_limit`, `_wake_waiters`, cancellation inside `acquire` | cancellation or timeout racing a grant, live resize, lost wakeups, double release |
| Run queue (admission) | `app/service.py:405-480,661-945` | `runs` table, `_active_run_tasks`, `_executing_run_ids`, mount rows, settings | `_execution_plan`, `_claim_execution_turn`, `_wait_for_repository_turn`, `recover_interrupted_runs` | FIFO under five limits, two admission paths, restart, orphan rows |
| Repository chain reservation | `app/service.py:198-245`, `2549-2640` | `_repository_chain_reservations`, `_run_chain_tokens` | register, mark started, release, `_finish_manual_backup_chain` | gaps between two chain runs, a run cancelled or deleted under the chain |
| Run execution | `app/service.py:1199-1745`, `app/runner.py:2455` | run row, repository lock, manager-cache lock, child process | `execute_run`, `_execute_run_inner`, `execute`, `cancel_run` | cancel at every `await`, cleanup that suspends, lock release, terminal status, archive-cache invalidation order |
| Interactive Borg calls | `app/service.py:629-660, 946-985, 1130-1198` | same locks, mount capacity | `execute_interactive`, `clear_repository_cache`, `refresh_repository_statistics`, `reset_managed_repository_state` | lock order, check made before a wait and used after it |
| Archive refresh | `app/service.py:2045-2238` | run row, archive cache | own admission loop, two interactive calls | bypasses the planner |
| Scheduled group | `app/service.py:2641-2778`, `app/schedules.py`, `app/main.py:912` | group-local dictionaries, APScheduler jobs | backup, prune, compact phases | partial failure while queueing, one job in two schedules |
| Archive mounts | `app/main.py:938-964, 3526-3822`, `app/archive_mounts.py` | `manager_archive_mounts` rows, FUSE mounts | create, delete, list, reconcile | concurrent create/create and create/delete, row id reuse, stale rows |
| External storage guard | `app/service.py:1013-1129` | stored usage, abort event | probe, monitor loop | consecutive failures, abort racing completion |
| Manager backup task | `app/manager_backup_progress.py`, `app/main.py:4228-4390` | `_tasks`, `_current_task_id` | begin, update, finish, fail | one task at a time, idle check made only at the start |
| Manager restore | `app/backups.py:1336-1515` | live files, staged files, saved originals | prepare, apply, roll back | a rename or copy failing half way, failing rollback |
| Client cache | `app/client_cache.py`, `app/manager_cache.py`, `app/runner.py:1211-1833` | remote caches, security state | scan, clean, collect, restore | assignment changes between scan and deletion, scripts that fail or are signalled half way |
| Inventory and access | `app/main.py:711-946, 2061-3029`, `app/schedules.py`, `app/service.py:300-402` | hosts, repositories, jobs, schedules, access rows, `authorized_keys`, timers | create, update, enable, delete, bootstrap, sync | threads that commit what they read earlier, derived state in three places, reused ids |
| Security store | `app/security_store.py` | users, sessions, reload tokens, rate buckets, 2FA | log in, sessions, rate limit, last administrator | concurrent threads, idle and absolute expiry |
| Notifications | `app/notifications.py` | health state, deliveries | outage/recovery observation, dispatch | confirmations, restart |
| Run history | `app/main.py:741-812, 4578-4592`, `app/run_logs.py` | runs, log files | retention, delete, log writer | protected latest state, id reuse |
| Output filters | `app/borg_progress.py`, `app/borg_warnings.py`, `app/service.py:128-173,1288-1340` | carry buffers, counters, warning causes | `feed`, `finalize` | chunks of two streams cut anywhere |
| Borg command construction | `app/runner.py:64-2454` | none | build argv and remote scripts | pure |
| Web UI, i18n, static files | `app/static` | browser state | rendering | outside TLC's useful reach |
| Install/update scripts | `install.sh`, `update.sh`, `docker/` | files, containers | upgrade, roll back | partial failure |

What makes each part correct, in one line each:

* capacity limiter: slots are counted exactly, none is lost or given twice,
  nobody waits while one is free, nobody is overtaken;
* run queue: one run per physical repository, limits respected at every start,
  FIFO per repository, every run leaves the queue;
* chain reservation: nothing of others runs between the phases of a started
  chain, and every chain releases what it reserved;
* run execution: every exit path ends with a terminal status, released locks
  and an archive cache that is not older than the repository;
* interactive calls: they exclude each other and runs, and never execute
  beside a mounted archive;
* scheduled group: the phases keep their order, one compact per pruned repository
  and only after good prunes, every execution ends;
* archive mounts: one mount per repository, known to the database, with no
  Borg command beside it; no row stays in a transition;
* storage guard: one failed probe stops nothing, and an abort has a cause;
* manager backup: one task at a time, every task ends, no plain text is left;
* manager restore: all or nothing, and no original is lost before success;
* client cache: what an assigned repository needs survives every clean-up, and
  a replaced cache survives its restore;
* security store: someone can always administrate, sign-ins keep to their
  budget and its pauses, and no session outlives what it rests on;
* inventory and history: one enabled schedule per job, access rows, keys and
  timers follow the jobs, an archive series is never reused, baselines stay;
* output filters: what is kept does not depend on where the output was cut.

## 2. Plan

Each module models one component; a module of proofs extends it, an `MC` module
gives the names of an instance, a `.cfg` chooses the bounds.

| Order | Module | Content | State |
|---|---|---|---|
| 1 | `ElasticSemaphore` | abstract: a resizable, work-conserving semaphore | done |
| 2 | `AdjustableCapacity`, `CapacityAndCaches_proofs` | the limiter; refines 1 | done, proved |
| 3 | `RunQueue`, `RunQueue_proofs` | queue, planner, chains, refreshes, restart | done, proved |
| 4 | `ArchiveMounts`, `ArchiveMounts_proofs` | mounts beside runs and interactive calls | done, proved |
| 5 | `ScheduleGroup`, `ScheduleGroup_proofs` | executions of schedules | done, proved |
| 6 | `RunTask`, `RunTask_proofs` | the tasks of one repository from the claim to the terminal status, and the clearing of its manager cache | done, proved |
| 7 | `ManagerBackups`, `ManagerRestore`, `ManagerRestore_proofs` | the backup task, its artifacts, the restore with its roll back; the second extends the first | done, proved |
| 8 | `ClientCaches`, `CapacityAndCaches_proofs` | clean, collect and restore against changing assignments | done, proved |
| 9 | `Accounts`, `Accounts_proofs` | sign-in, sessions, rate limit, changes of accounts, in threads | done, proved |
| 10 | `Inventory`, `Inventory_proofs` | devices, repositories, jobs, schedules, access, history | done, proved |
| 11 | `OutputFilters` | the filters of a backup's output at every chunk boundary | done |
| 12 | `RestoreFilter` | the filter of restores, which adds up progress from two kinds of records | later |

The health messages are left out: one background thread with a counter of matching
checks and a record of what was sent, which no other part reads.

Composition: `ArchiveMounts` composes mounts, runs and interactive calls through
the repository lock, `RunTask` composes runs, calls, cache clearing and reset
through the same lock; both take it for a FIFO queue, which the theorems about 2
justify. `ManagerRestore` composes restores with everything that writes backups.
`ClientCaches` composes devices, the manager, the database and runs.

Section 13 says what is proved, and what stays with TLC.

## 3. The capacity limiter: `AdjustableCapacity`

`_AdjustableCapacity` (`app/service.py:483-546`) is behind every repository
lock, mount lock and manager-cache lock. `limit`, `inUse` and `waiters` are its
three attributes; a future is named by the task that created it, and `future`
and `pc` hold what asyncio keeps: the future's state and where the task is.
`mustCancel` are the tasks that were cancelled after their future had a result,
which is the case the `except` block of `acquire` tells apart from a cancelled
future.

A method is one action up to its `await`: `AcquireFast`, `AcquireWait`,
`Release`, `SetLimit`. After it come `Resume` (the await returns), `Cancel`
(a user, or the 0.25 s time limit of `_acquire_mount_capacity`), and the two
branches of the `except` block, `GiveBack` and `LeaveQueue`. `WakeWaiters` says
how many waiters the loop of `_wake_waiters` pops and what that leaves.

Run `capacity` has four tasks (one owner, one granted, one waiting and one
abandoned are enough for every interplay of the two queues' ends) and limits
-1, 1, 2, 3 (the clamp, a decrease below the owners, an increase by two).
Tasks come back, so behaviours are unbounded. It checks order
(`FirstComeFirstServed`), the refinement of `ElasticSemaphore` (`Implements`: the
counter is exact, no slot is given twice or left idle, nobody is admitted past a
lowered limit) and `WaiterServed`. The counter, lost wakeups and the deque by
themselves (`SlotAccounting`, `NoIdleSlot`, `QueueSound`) are theorems.

Fairness: the event loop resumes a task whose future is done, and an owner
releases its slot, because Borg commands have a time limit and locks are
released in `finally` blocks. Nobody must acquire, cancel or change the limit.

## 4. The run queue and its chains: `RunQueue`

A row of the table `runs` is a number, in the order of insertion. `row` holds
the columns admission reads, `status` the status column, `live` the runs whose
task exists (`_active_run_tasks`, `_executing_run_ids`): a row can be active
without a task, which is what a second cancellation and a crash leave behind.
`reserved`, `started`, `token` and `waitsFor` are the chain dictionaries of the
module and the position of `_finish_manual_backup_chain`. `repoOf` is the repository of
each job: a run keeps the one it was queued for, a follow-up run of a chain reads the job
anew (`service.py:2323`, `2570`), and `update_job` asks nobody. `archiveMounted` are the
records that the planner takes for mounted, `mountUnderWay` those whose FUSE entry is
still to come.

| Code | TLA+ |
|---|---|
| `queue_job_action`, `queue_repository_action`, `queue_manual_backup` | `QueueRun`, `QueueManualBackup` (with `AsQueued`) |
| `_execution_plan` | `Admissible`, `IsPlan` |
| `_claim_execution_turn` | `Claim` |
| `_wait_for_repository_turn` | `StartRefresh` |
| end of `execute_run`, cancellation | `End`, `EndTwiceCancelled` |
| `_finish_manual_backup_chain`, `_release_repository_chain` | `ChainContinues` (with `FollowUp`), `ChainEnds` |
| `update_job` | `MoveJob` |
| mounts, as the planner sees them | `MountArchive`, `MountAppears`, `MountFails`, `MountYields` |
| settings, start of the process | `SaveSettings`, `Restart` |

Each of these runs without a suspension point between its reads and its writes
(`_run_claim_lock` also covers threads), so each is one step.

Run `queue` follows one of three plans. *Limits*: six requests meet at each of the five
layers of the planner, two chains and an archive refresh on two records of one physical
repository, a scheduled run with a limit of one, a plain and a statistics run; both
physical repositories are on one filesystem with a limit; the global limit changes, runs
are cancelled twice and the process restarts at any time. *Mounts*: a chain whose job moves
from one physical repository to the other, a chain, a refresh and a plain run there, while an
archive of one of its two records is mounted, fails to be, becomes active although its row was marked stale,
and is unmounted. *Moved chains*: two chains in two repositories whose jobs change places.
Three rows are enough for a chain with a follow-up and one rival, or two chains that meet in
their first phase; two moved chains need four. It checks:

* `RepositoryExclusive`: whatever admitted them, two runs never execute on one
  physical repository;
* `ChainProtected`: no run that the planner admits enters a repository whose chain
  has started (the theorem `StartedChainsLead` says that there is one at most);
* `PlannerRespectsLimits`: the planner starts nothing beyond a limit as it is now;
* `OvertakesOnlyBlocked`: a run passes an older one of its repository only if that
  one is blocked for another reason;
* `QueueProgress`, `ChainReleased`: queued runs start and started chains release,
  unless something holds them for ever (below).

One fact of the code bounds the second to fourth: an archive refresh is admitted by
`_wait_for_repository_turn` (`service.py:924`), which knows neither reservations nor
limits. So a refresh enters the gap between the backup and the prune of a started
chain, against README.md:280, and starts when the global or filesystem limit is
exhausted, against INSTALLATION.md:417. These properties therefore speak of the
runs that the planner admits.

Fairness: tasks poll every 0.25 s and chain tasks every second; a running
command ends. Three things may still hold a run or a chain for ever, and the two
liveness properties name them (`HeldForEver`):

* a mounted archive, which nobody must unmount (`HeldByMount`): it holds runs of its
  record and, since a moved chain waits elsewhere than where it reserves, runs behind the
  reservation of such a chain;
* a second cancellation, which leaves a row that looks active until a restart
  (`Orphans`), and a chain waits for it;
* moved chains that wait for each other (`Entangled`), a gap of the code: `update_job`
  (`main.py:2938`) moves a job whose chain is at work, and the chain's prune is queued in
  the new repository while the reservation stays on the old one. If the jobs of two
  started chains change places, each prune waits for the reservation of the other chain,
  and only a cancellation or a restart ends this. Without the exemption TLC finds it with two
  backups, two moves and two prunes.

Not modelled: the reuse of a queued `confirm-location` run, the deletion of
finished rows from the history (see section 11), retries (a
new request), and the file system inspection by which two records are found to
be one repository (`TargetOf` is its result).

## 5. Archive mounts: `ArchiveMounts`

`row` is the table `manager_archive_mounts` (one row per repository, by its
unique constraint), `fuse` the active entries of `/proc/self/mountinfo`, `pc` and
`entry` a request's position and its local variables, `lockQueue` the repository
lock, a limiter with limit 1 and therefore a FIFO queue (section 3).

`PostBegin` ... `PostCleaned` are `create_manager_archive_mount`, cut at every
suspension; `DeleteBegin` ... `DeleteEnds` are `delete_manager_archive_mount` with
`archive_unmount_incident`; `ListRow` is one row of
`list_manager_archive_mounts`; `Restart` is the death of the process followed by
`reconcile_manager_archive_mounts`; `CallBegin`, `GetCapacity`, `Finish` are
`execute_interactive`; `Claim` is the planner as far as it reads mounts. That no run executes
beside a mount is a question about all of these, so it is asked here (`NoBorgBesideMount`) and
not of `RunQueue`, where an entry may appear beside an admitted run.
`MountAppears`, `MountLost` and `Unmounted` are the kernel and Borg: a FUSE entry
appears while the mount command runs or shortly after it, and can vanish by
itself.

A *condition* (variable `cond`, chosen at the start) says what a behaviour allows:
which requests come, whether mount and unmount requests overlap, whether a
transition lasts longer than the 30 s after which the list of mounts interferes
(`slow`), whether the unmount in the failure path of a POST fails
(`cleanupFails`), restarts, and which repositories are on a filesystem with a
parallel limit, where a call waits between its check and its command (`limited`).

Run `mounts` has three of them. *Serial*: three mounts and two unmounts on two
repositories, one after the other (a replacement within one, the reuse of a row id
across two), a run, a call, lost FUSE processes, failing commands and restarts.
*SlowSerial*: two mounts, an unmount, a run and a call, one after the other too, but
slow and on a limited filesystem. *Overlapping*: two mounts, two unmounts and a
run, with everything that is hostile above.

The two safety properties name what they need. `MountsHaveRows` (every active mount
has its row) is about `OneByOne` behaviours, in which mount and unmount requests do not
overlap and no unmount of a failed mount fails; `NoBorgBesideMount` is about
`Undisturbed` ones, in which moreover nothing is slow and no filesystem limited. The
type invariant, a conjunct of the first, and `TransitionsEnd` and `RunsStart` (no row
stays in a transition, no run is blocked for ever) hold without a premise.

Each of the premises is there because a fact of the code breaks the property
without it:

* a second POST takes the "mounting" row of the first for a leftover, because its
  path is not active yet, and deletes it (`main.py:3681`); both mounts appear,
  against README.md:343 ("At most one mount is active per repository").
* a DELETE of a row that is still mounting finds no active path and drops the
  row; the POST then answers "unmounted" while its mount is or becomes active
  (`main.py:3712`).
* the list marks a "mounting" row stale after 30 s (`main.py:3636`) while its
  command may run for 900 s; the planner then admits a run, which waits for the
  lock behind the mount command and executes beside the mount.
* `execute_interactive` looks for mounts before it waits for capacity
  (`service.py:949`), so a call on a limited filesystem executes beside a mount made
  meanwhile.
* a POST whose unmount fails deletes the row all the same.

Fairness: handlers resume, commands have time limits, queued runs poll. Nobody
must send a request or look at the list.

## 6. Executions of schedules: `ScheduleGroup`

`phase` and `todo` are the position in `_scheduled_backup_group`, `run` its
dictionaries (`backup_runs`, `prune_runs`, `compact_runs`, `prune_repository` and the
status values that `_wait_for_run` returned); a run that could not be queued is kept as
`"refused"`, for which the code records a failed row of action `schedule`.
`repoOf` is the job's repository, which `update_job` may change in a worker thread.
`QueueNext` is one iteration of any of the three loops; the order of the jobs is
fixed, for compact runs by job instead of by repository, which no property
tells apart.

Run `schedules`: one execution over two jobs of one repository with another to move
to; users start runs of the jobs and move them, which also stands for a second
execution; every run may be refused or fail. `OneActiveRunPerJob`, `PhasesInOrder`
(a prune only after all backups and a good one of its job, a compact only after
good prunes of its repository), `CompactOncePerRepository`, `GroupEnds`.

Two facts of the code bound these properties. A prune that could not even be
queued is not in `prune_repository` (`service.py:2706`) and does not hold back the
compact, against README.md:278. And the group chooses one job per repository it pruned,
but `queue_job_action` compacts the repository the job has by then (`service.py:2733`): if
a job is moved between its prune and the compact, one repository may be compacted twice and
another never, against README.md:278 and the docstring at `service.py:2650`.
`CompactOncePerRepository` counts compacts where they run and says that this is the only
way: of two compacts of an execution in one repository, one belongs to a job that was moved
since its prune (`MovedSincePrune`). Without that exemption TLC finds the two.

Fairness: the group's task is scheduled, and its runs end, which `RunQueue`
shows except for a repository whose archive stays mounted.

Not modelled: the triggers (APScheduler starts at most one instance of each,
`main.py:927-934`), the editing of schedules (section 11), and the refresh of statistics after
the last phase.

## 7. The tasks of a repository: `RunTask`

`RunQueue` knows that a run starts and ends; `RunTask` says what is in between, for
the runs and interactive calls of one repository record. `pc` is the position of a
task, cut at every `await`; `outcome` is the local variable `status` of
`_execute_run_inner`, which becomes the row's `status` at the very end. `lock` is the
repository lock. `alive` are the Borg processes that exist: on another machine they
outlive their client, and `lost` are those the manager has given up (a broken
connection, a command time limit, a stop that was not confirmed in time, a
restart). `cached` and `missing` describe the cached archive list: whether it
exists and whose changes it does not show.

| Code | TLA+ |
|---|---|
| `queue_job_action`; `queue_repository_archive_refresh`, `queue_repository_action` | `QueueJobRun`; `QueueRepositoryRun` |
| `_claim_execution_turn`, `_wait_for_repository_turn` | `Claim` |
| `_execute_run_inner` up to `execute` | `GetLock`, `PrepareFails`, `StartBorg` |
| `execute`, `stop_process_gracefully` | `BorgEnds`, `ClientEnds`, `AbortEnds`, `StopEnds` |
| `_monitor_external_repository_storage` | `ProbeGood`, `ProbeFails`, `ProbeFull` |
| the rest of `_execute_run_inner` | `After`, `Publish`, `StatsBegin`, `StatsEnd` |
| `execute_repository_archive_refresh` | `RefreshEnds`, `RefreshLists`, `RefreshAgain` |
| `cancel_run` | `Cancel`: `CancelQuietly`, `CancelBorg`, `CancelStop`, `CancelCleanup` by the `await` it strikes |
| `execute_interactive`, start of the process | `CallBegin`, `CallEnd`, `Restart` |
| `clear_repository_cache_endpoint`, `clear_repository_cache` | `ClearAsk`, `ClearBegin`, `ClearEnd` |
| `reset_managed_repository_state` | `ResetAsk`, `Reset` |

`BorgChanges` is Borg itself: an archive is committed or deleted at some moment of
the process's life, also after the manager lost it.

Run `task`: a guarded backup, cancelled up to twice, a deletion and a refresh,
cancelled once, and one process that is an interactive call, a cache clearing or a
reset; broken connections and restarts. `LockDiscipline` (Borg and the clearing work
under the lock, which comes back on every path), `PublishedIsSeen` (the archive list
is invalidated before the status shows), `CancelledIsReported`, `AbortsForCause` (one
failed probe stops nothing), `RunsEnd`.

Three runs are enough for one that ends, one that takes over its lock and one that
reads the list meanwhile. A third cancellation of a run could only combine the two
cases a second one reaches: the stop is abandoned, or the cleanup. Only the backup
has both, with the longest way through them, so only it is cancelled twice.

Four limits of these properties are facts about the code:

* a second cancellation during the controlled stop abandons it (`runner.py:2604`,
  `2619-2628`), and the lock is released while the remote Borg may still work.
  `OutOfHand` exempts such runs, as it does lost ones.
* a cancellation in the `finally` block (`service.py:1562-1585`, whose awaits are
  not shielded) ends the task with its lock owned and its row active until the
  next restart. `RunsEnd` has it as its exception (`orphan`).
* after a restart the row of an interrupted deletion is failed by
  `recover_interrupted_runs`, which leaves the archive list alone. `PublishedIsSeen`
  exempts it with the lost processes.
* a prune that fails or is cancelled after it deleted archives leaves the list as it
  was: `service.py:1594` invalidates it whatever the outcome only for
  `delete-archive`. `PublishedIsSeen` therefore asks it of prunes that ended well,
  although the comment at `service.py:1602` wants no stale list after any
  destructive command. With `Run = {pr, rf}` and without that exemption TLC finds
  the failing prune in a few steps.

Fairness: tasks are resumed; Borg commands, the stop and the probes have time
limits. Nobody must cancel, probe or queue.

Not modelled: the log and its filters, whose awaits belong to `borg`, `after` and
`cleanup`; the manager-cache lock, which is only ever taken under
the repository lock, so that the two cannot deadlock; runs without a repository.

## 8. Backups of the manager and their restore: `ManagerBackups`, `ManagerRestore`

`tasks` and `current` are the registry of `manager_backup_progress.py`, `pc` and `job` a
thread's position and locals, `files` the directory of artifacts, `temps` the temporary
files with the request that made them, `live` the manager's data by component. A file
in `files` is `partial` while its writer is at work, `whole` once one writer has
finished it, and `mixed` when two wrote to one name; encryption and the ZIP's checks
are abstracted to this. `ManagerRestore` adds `tx`, the staged image and the
transaction directory of a restore.

| Code | TLA+ |
|---|---|
| `begin_task`, `finish_task`, `fail_task`, `_prune_locked` | `BeginTask`, `EndTask`, `Pruned` |
| `create_full_backup` with `_write_plain_backup`, `_encrypt_backup` | `Create`, `Secure`, `Pack`, `Encrypt`, `CreateFails` |
| `create_cache_backup_set` and its parts | `BeginSet`, `BeginArtifact`, `Collect`, `Store`, `SkipArtifact`, `ArtifactFails`, `FinishSet` |
| upload, deletion | `Upload`, `LinkUpload`, `UploadFails`, `DeleteBackup` |
| `prepare_full_backup_restore` | `BeginRestore`, `Extract`, `RestoreFails` |
| `apply_prepared_restore` | `Copy`, `SwapOut`, `SwapIn`, `SwapFails`, `RollBack`, `RollBackFails`, `EndRollBack`, `EndSwap` |
| `restore_manager_borg_cache_from_backup` | `CacheExtract`, `CacheSwap`, `CacheSwapFails`, `EndCacheSwap` |
| death and start of the process | `Restart` |

Run `backups` lets two requests of any two kinds meet, with an old backup of another
manager in the directory, one label, one second (so that names collide) and
one restart; every step may fail. The registry keeps one task (`MaxTasks = 1`), so that
pruning happens. `RegistrySound`, `PlaintextIsTemporary`, `TasksEnd`,
`RestoreAllOrNothing` and `OriginalsKept` hold. The last says that until a restore has
succeeded every original is in its place or in the transaction directory,
whichever renames fail, those of the roll back included, and wherever the process
dies. Both speak of the components the restore is about (`Scope`); `First` and `Latest`
pick the next and the last of them in the order of `RESTORE_COMPONENTS`. A backup is
extracted only with its manager database and its security database
(`backups.py:1427-1438`), so the exchange always concerns the sidecar of the old
database. A manager backup holds no Borg cache (`backups.py:389`).

`RestoreAssumption` admits one restore of each kind, as `backups.py:1447` asks ("The
caller must quiesce database users"): nothing in the code keeps two apart, and two at
once mix what they install.

Facts the properties leave aside: a run may be queued between the idle check of a
cache backup and its work (`main.py:4230`); a restore does not consult the task
registry; artifacts of one second with one label have the same name; a failed
exchange leaves the staging directory; a second cache restore within one
second deletes the safety copy of the first (`backups.py:1304`); a crash leaves plain
temporary archives, of which only `bbm-security-*` are removed at the next start.

Fairness: threads go on (`Work`). Nobody must ask for anything.

## 9. Local Borg state of devices and manager: `ClientCaches`

A place is a device or the manager with a repository. `cache` is the directory
`repository-<id>` there (whose Borg id it names, and a mark of its contents), `copies`
its `pre-bbm-restore` copies, `security` and `legacy` Borg's own directories; `jobs`,
`enabled` and `active` are what requests read of the database. A request is cut at every
read of the database, every SSH call and every command of a script that can
fail or be interrupted.

| Code | TLA+ |
|---|---|
| `_parse_scan_output` | `View`, `IdsOf`, `Secured`, `ActiveIds`, `OrphanIds`, `Classified`, `Older` |
| `manager_borg_cache_status` | the same with `SecurityKind` |
| `cleanup_client_borg_caches`, `cleanup_orphaned_manager_borg_data` | `BeginCleanup`, `Rescan`, `Select` (with `Allowed`), `DeleteCaches`, `DeleteUserCaches`, `DeleteSecurity`, `CleanupFails` |
| `collect_client_borg_caches` | `BeginCollect`, `StreamCache`, `Resolved`, `StreamSecurity`, `CollectFails` |
| `client_borg_cache_restore_command` | `Unpack`, `MoveOut`, `Install`, `Rollback`, `RestoreFails`, `Signal` |
| `client_borg_security_restore_command` | `RestoreSecurity`, `InstallSecurity`, `SecurityFails` |
| jobs, devices and runs meanwhile | `ChangeJobs`, `SwitchHost`, `QueueRun`, `RunEnds` |

Run `caches` has one device and the manager, two repositories (the first stored by the
manager) and three Borg ids, of which "z" is an earlier repository at the
location of "x"; the initial states vary who names what, with equal, different and
missing times. A clean-up of the device meets a collection, a restore or a
clean-up of the manager, with one change of the assignments and one run.

* `CleanupSparesActive`: a cache that a job uses disappears only by a reset, a
  restore, or if the job came after the clean-up had read the assignments;
* `AssignedSecurityKept`: of an assigned repository the security state its cache
  names is kept, and the newest of each location, however times contradict;
* `ExistingStateKept`: no failure of a restore loses the cache that was there, and
  Borg's security state is never put back. Until a restore has moved it, the cache
  that was there is the one in its place, after that its copy.

Facts the properties leave aside: `rollback()` (`runner.py:1768`) does not leave the
script, so after a signal the restore goes on with stale variables and the previous
cache can be lost, against README.md:378 (`Signal` has what may become of it, and
`ExistingStateKept` exempts it); the clean-ups of orphans and of copies re-read the
assignments but do not scan again, against README.md:372; the idle check of a reset
precedes its scan through SSH; a run that creates the cache during a restore makes
`mv` put the restored one into it; cache and security state of an artifact are
read in two connections; a cache backup made by the synchronous endpoint (`main.py:4319`) is no
task of the registry and holds back no reset. `Registered` are the requests whose cache
backup is one; the run has none, which allows most.

No liveness: every request is one thread with time limits on its commands.

## 10. Accounts and sessions: `Accounts`

`account` and `session` are the tables (a session with its reload token), `bucket` the
login budget, `pc` and `row` where a request is and what it has read. A SELECT is a
step, as is a write transaction: SQLite begins a transaction only at the first write
of a connection, so what a function has read may be out of date when it writes.

| Code | TLA+ |
|---|---|
| `consume_login_attempt` | `Login` (with `Blocked`, `Exhausted`, `Consumed`, `RetryAt`) |
| `authenticate_user`, `create_session`, `create_session_reload_token` | `Verify`, `Accept`, `ClearPair`, `CreateSession`, `CreateToken` |
| `get_session_user`, `..._by_reload_token`, `require_token` | `Authenticate`, `Touch`, `Drop`; `Logout` |
| account endpoints and `recover_account` | `Look`, `Count`, `LookAgain`, `Write`, `NameInUse`, `Revoke`, `Report` |
| time, start of the process | `Tick`, `Restart` |

Three variables are history and decide nothing: `admitted` are the sign-ins let through per
bucket, `paused` the time until which the last refused one was told to wait, `outdated`
the sessions of an account, and its sign-ins that were verified already, at the moment a change
put them out of date.

Run `accounts` starts with two administrators, the second disabled or with a second
factor, and a free id. One of three teams of requests comes (`Teams`): two sign-ins; a
sign-in, requests of a session and one change at a time (`Overlap = FALSE`); or four guesses
of a password, one after the other. `Patience` says how long the clock goes on for each. With
two attempts per address and one per account, a window of two ticks and a pause of three,
four guesses fill the end of a window and the beginning of the next, exhaust a bucket and come
again before, at and after the end of the pause, which outlasts its window; two or three ticks are
enough for an idle session and an expired one, too.

* `AdministratorCanSignIn`: with changes one at a time, whatever sign-ins do beside
  them, an enabled administrator remains whose second factor has a secret;
* `LoginBudget`: no window holds more verifications than two adjacent ones may, and
  none is let through before the time a refused one was told to come again;
* `NoOrphanSessions`: a deleted account has no session;
* `ChangeEndsSessions`: after a new password, a changed second factor or a disabling, a session
  of before, also one that a sign-in verified before adds, is there only as long as the
  change has its revocation ahead. So there is none while the change writes its log,
  reads the account again and answers (`Report`), but for two cases: a sign-in still at
  work when the sessions are revoked adds its session later, and a restart between the
  change and its revocation leaves them all. Drop either from `outdated` and TLC finds it.

Run `accounts_last_admin` (finding): two overlapping changes both count two
administrators and both commit.

Facts the properties leave aside, all from overlapping requests: the list of
recovery codes is written whole, so the later of two writers restores what the
earlier removed; a confirmation that overlaps a reset switches the second factor on
without a secret; `users_update` writes a role it read earlier.

## 11. Inventory, access and history: `Inventory`

`host`, `repo`, `job`, `sched`, `run` are the tables, `reserved` the reserved job ids,
`series` the jobs after which archives have been named, `access` and `keys` the rows of `host_repository_access` and which of them hold a key,
`authorized` the file `authorized_keys`, `armed` the timers of schedules. A request is a step
that reads and checks, one that commits (writing the columns that differ from
what it loaded, failing if a row or a foreign key is gone), and then those that bring the
derived state up to date, beside the same steps of other requests: `ReadRows` reads what jobs
ask for and what there is, `WriteRows` commits the difference, `ReadKeys` reads the rows in a
session of its own, `WriteFile` replaces the file, `RemoveTimers` clears the scheduler and
reads what is due, `AddTimer` adds one timer after the other. Any of them may raise
(`SyncFails`), which ends the request and leaves the rest undone. `disturbed` are the parts
whose last update failed or met another one.

| Code | TLA+ |
|---|---|
| hosts: create, enable, edit, revoke, delete | `CreateHost`, `ReadHost`/`CommitHost`, `ReadEditHost`/`CommitEditHost`, `Revoke`, `ReadDeleteHost`/`CommitDeleteHost` |
| repositories: create, import, update, enable, delete | `CreateRepo`, `EndImport`, `ReadRepo`/`CommitRepo`, `ReadDeleteRepo`/`CommitDeleteRepo` |
| schedules | `CreateSchedule`, `ReadSchedule`/`CommitSchedule`, `DeleteSchedule`, with `TargetsExist`, `Conflict` |
| jobs | `ReadCreateJob`/`CommitCreateJob`, `ReadJob`/`CommitJob`, `ReadEnableJob`/..., `ReadDeleteJob`/..., with `Matched`, `NewJobId`, `Reserve` |
| `bootstrap_job_repository` | `ReadAccess`, `AskDevice`, `CommitAccess` |
| `sync_repository_access_assignments` with the key file | `ReadRows`, `WriteRows`, `ReadKeys`, `WriteFile` (with `Wanted`, `Authorized`) |
| `sync_schedules` | `RemoveTimers`, `AddTimer` (with `Due`) |
| both, at the start of the manager | `Reassign` |
| runs and their history | `QueueRun` (with `Ready`), `EndRun`, `ReadCleanup`/`CommitCleanup` (with `Retained`), `ReadDeleteRun`/..., `Maintain` |

`update_host` writes its columns before it looks for active runs, so it reads jobs under
the write lock (`CommitEditHost`); `set_host_enabled` reads them before (`ReadHost`).

Run `inventory` follows one of five plans, each a combination of requests of two
clients: schedules beside jobs; creation and deletion of jobs beside the history, with
runs and restarts; the same beside the database clean-up; devices and their access beside
repositories and jobs; and one client that does
everything else, with restarts, while the other creates a job. Two ids of each kind
are enough for reuse, conflict and replacement.

* `OneScheduleEach`: no job is in two enabled schedules;
* `AssignmentsInForce`: as soon as no request has access still to bring up to date, the
  access rows and the key file are what the jobs and devices ask for, and as soon as none has the
  timers, they are those of the schedules that have a job to start, also after a restart in
  the middle of anything; unless the last update of that part failed or met another one;
* `ArchiveSeriesFresh`: a new job never gets the id of a deleted one;
* `BaselineKept`: a job keeps its newest good backup run whatever is cleaned up.

That exemption is a gap of the code: nothing orders two updates. The later of two may write
what it read before the earlier, a key file older than the rows or a timer of a schedule that
another request has disabled, and a failed one leaves the state as it is; both last until
the next update or restart. Without either half of `disturbed` TLC finds it. Runs are refused
without their access row (`Ready`) in any case.

The plans exclude overlaps in which the code keeps no promise about rows; the theorems
state them as conditions. `RowsApart`, for `OneScheduleEach`: two
updates of one schedule or of one job mix their columns, and the deletion of a job
that has no runs writes a list of targets read earlier, so that a job may come into
two schedules. `HistoryApart`, for `BaselineKept`: with two clean-ups at once the second
frees a run id that a new run takes before the first deletes the rows it
selected; the database clean-up takes an old run for failed that is still at work, ends
well later, and may be on such a list too. `PlanAssumption` says what is there at first:
rows of their types, jobs with their device and repository, schedules of jobs that name
jobs, no job in two of those that are enabled.
Others concern state that is left out: ids of hosts, repositories and runs are
reused, while logs, secrets and host actions of deleted rows are removed by id after
the commit.

No liveness: every request is one thread.

## 12. The output of a backup: `OutputFilters`

A stream is a sequence of records (frame, counters, item, text), a record a sequence
of atoms, the pieces at whose ends a cut makes a difference to some filter: the number of a
frame has two, its unit, the space before its marker and the marker are one each. `rest` is
what the pipe still holds, `carry` what each filter and each buffer of the collector
holds back.

| Code | TLA+ |
|---|---|
| `pump` with `append_output_bytes` | `ReadErr`, `ReadOut` |
| `BorgProgressStreamFilter` | `ProgressFeed` with `IsFrame`, `MayBeFrame` (`MarkerAt`) |
| `BorgNetworkStreamFilter` | `NetworkFeed`, `WithoutCounters`, `NetworkFinal` |
| `BorgItemActivityStreamFilter` | `ItemFeed`, `ItemFinal` |
| `BorgWarningCollector` | `WarningFeed`, `CausesIn`, `Buffer` |
| `_BackupSqlitePreviewFilter` | `PreviewFeed`, `Readable` |
| the end of the command, a cancellation | `Finish`, `Cancelled` |

Run `filters` reads every combination of three records on stderr, or of two beside one
on stdout, or of one beside two, in chunks of any length and any interleaving, with
and without the last line end and the complete file list. The reference is written
on records, without a filter. `LogComplete`: the log of stderr is that of the uncut output;
`ReportsExact`: so are the warning causes, the counter of changed files and the newest
frame, and the preview has no path and all the text. Three records are
enough for one that is held back, one that ends it and one that follows.

Run `filters_torn` (finding): `_PREFIX_RE` (`borg_progress.py:87`) takes a tail for the beginning
of a frame if it is a number with its unit, or that with its marker. It does not know one that ends
in the number, nor one that ends in the space after the unit, before the "O". Such a chunk
is not held back, and what follows is another frame or none: digits stay before the
next line, or the whole frame gets into the log and joins it; a changed file is then not
reported. `TornFrame` is just these two cuts, and `LogComplete` and `ReportsExact`, all but the
preview, except reads that end there (`torn`); every other cut is covered.

Facts left aside: a carriage return in a file name is a line end to the preview filter
and hides an item from the counter; after a cancellation what the filters hold is
dropped, the last unfinished line of the log with it.

## 13. What is proved

TLAPS checks these theorems for all values of the constants: any number of requests,
runs, jobs, repositories, accounts and ticks. Each module of proofs has an inductive
invariant, or one per group of properties, which TLC checked on the run of its component before it was proved: the
initial states satisfy it, every action keeps it (one lemma per action or group of
actions that disturb the same conjuncts), and it implies the properties. The
assumptions are those named in the modules; TLC evaluates them on every run.

`CapacityAndCaches_proofs` holds the proofs of two components that share neither state nor
names. The limiter, from `TaskAssumption` (finitely many tasks) and `RequestAssumption` (limits are integers). `IInv` joins `TypeOK`,
`SlotAccounting`, `NoIdleSlot`, `QueueSound` and `Lifecycle`; the last ties the
future's state to the task's position (a task that waits has a future, one that
holds has none). The four properties need each other: a wakeup counts correctly
only if the deque holds no granted future, and it can stop early only if the
counter is exact. `WakeLemma` describes what `_wake_waiters` does to all of them
at once, and `WakeRestores` shows that it restores `NoIdleSlot` from any state
with a free slot. Theorems: `SlotsCounted`, `TypeCorrect`, `NoLostWakeup`,
`DequeSound`, `NoOvertaking`, and `ImplementsSemaphore`, the refinement: every step
has the shape `ElasticSemaphore!Next` allows.

Its second part is about `ClientCaches`, from `ConstantAssumption` (finitely many Borg ids,
well-formed disks and artifacts at first). `CachesInv` has types, the steps a request of a kind
can be at, and what it carries: a restore its cache, and a clean-up that is about
to delete only names that `Allowed` accepts for the assignments and the scan it has
read. The rest follows step by step. `WhoRemovesCaches` and `ActorWorks` say that a
cache disappears only by a removal or a restore, and that a request which goes on did so
itself. `ProtectedStates` takes from `Allowed` what the three clean-ups of security states may not
delete. `NewestOfLocation` is why that is enough: states of a location with equal or missing times
are never all older than another, and of finitely many one is the newest, so some kept
state is at least as new as any deleted one. Theorems: `CachesTyped`, and about steps
`CleanupsSpareActive`, `AssignedSecurityIsKept`, `RestoresKeepExisting`. They cover any number of
requests, devices, runs and changes of jobs, of which run `caches` has two, one, one and one.

The last of them was false as it was first stated: the previous cache of a restore then
counted as kept if an equal one was in its place. With two runs TLC shows how that one goes too:
a clean-up of the copies removes the previous cache, a run writes one with the same
contents, and the roll back, which finds its copy gone, removes it. The property
speaks of the copy now.

`RunQueue_proofs`, from the assumptions on topology and requests. `QueueInv` joins
`TypeOK`, the four safety properties and what they rest on: ids are given out
without gaps (`IdsInOrder`), every used id has a row (`RowsExist`), a reservation
belongs to the run that made it and its runs carry its token
(`ReservationsSound`), and only reserved roots wait (`OnlyReservedWait`). All of it holds
wherever jobs are moved, since a run and a reservation keep the repository they began with. Theorems:
`QueueTypes`, `OneRunPerRepository`, `ChainsAreProtected`, `StartedChainsLead`,
and two about steps: `LimitsRespected`
and `OvertakenAreBlocked`. The limits need that a claim counts every executing run, so
that the run it admits is the only new one; the overtaking needs `IdsInOrder`: the
planner looks at ids, the property at who came first.

`ScheduleGroup_proofs`, from the assumptions on jobs (finitely many, numbered). The
order of phases is not inductive by itself: what the next phase was decided on could
change afterwards. `GroupInv` adds that the runs of a phase that was left are over and
later phases have none (`PhasesReached`), that a prune run implies its good backup
(`PrunesFollowBackups`), and that only the lowest pruned job of a repository is
compacted (`CompactsRepresent`). The last says which repository a job was pruned in; where its
compact runs is known only of jobs that were not moved since, so of two compacts in one
repository at least one belongs to a moved job. Theorems: `OneActiveRun`, `PhasesKeepOrder`,
`OneCompactPerRepository`.

`RunTask_proofs`. `TaskInv` ties the row to the place of the task (`RowsAgree`), the
places in which the lock is held to its queue (`HoldersOwn`, `QueueInOrder`), the
processes that are under control to the places that await them
(`ProcessesControlled`), and says which outcome a task carries to its end
(`OutcomesSound`, `CountsSound`). `WithoutKeepsOrder` is the lemma on the queue: who
leaves it, as owner or as waiter, leaves the order of the others. Theorems:
`LockGoesWithProcess`, `ChangesAreSeen`, `CancelledReported`, and `ProbesStopForCause`
about steps. None of them limits the number of cancellations or calls.

`Accounts_proofs`, from `StartAssumption` (an administrator who can sign in, whoever
has a second factor has its secret, sessions have accounts). Four invariants. In
`AccountInv` the administrator needs what a change still knows when it writes
(`StillTrue`): between its read and its write nobody else took away the other
administrator it has seen. That is what `Overlap = FALSE` gives and what
`accounts_last_admin` refutes without it; the other conjuncts and `NoOrphanSessions`
hold with overlapping changes too. `OutdatedSound` says that whoever a change has put out of
date, a session or a sign-in that has verified but not yet added its session, belongs to an
account whose revocation is ahead; a sign-in adds a session under an id of its own, which is
free until then, so that none of before is confused with one of after. `BudgetInv` relates a bucket to the sign-ins it
let through (`Covered`): those since the start of its window are at most the attempts
it counted, one of which began the window, and those of the window before it
that are close enough to count with it are less than the limit. `PauseSound` adds that the row
of a bucket holds what the last refused sign-in was told, as long as that time is to come.
Theorems: `SessionsHaveAccounts`, `SomebodyAdministers`, `ChangesEndSessions`,
`LoginsAreLimited`; none but the second needs changes one at a time.

`ArchiveMounts_proofs`. `MountInv` has three layers, each with the premise it needs.
`Sound` holds for overlapping requests: types, row ids that nobody else gets, and the
queue of the lock holds everyone who waits. `Orderly`, one by one: the request in
progress finds its row as it wrote it, and every entry of the kernel has its row.
`Quiet`, undisturbed: a request that waits for the lock or executes is the last of the
queue, since its row keeps out everyone who comes later; so no run or call is left in
the queue of a repository when its mount appears. Theorems: `RowsCoverMounts`,
`NothingBesideMounts`.

`ManagerRestore_proofs`, from `RequestAssumption` (the stored manager backups came from
elsewhere, `Foreign`) and `RestoreAssumption` (one restore of each kind). `RestoreInv`
has four parts:

* `RegistryInv`: whoever is in the registry is at work and current, or ended, once. It
  implies that pruning always finds enough ended tasks (`OneTooMany`).
* `PlaintextInv`: where a request is while it has which temporary file.
* `ExchangeInv`: for every place of a restore, what its transaction and the live data
  have in common: forward, what was exchanged is installed, its original is in the
  transaction directory and the rest is untouched (`AtSwap`, `AtInstall`); backward,
  what is still to be undone has its original saved (`AtRollBack`); `AtCacheSwap` for
  the cache. One lemma per step of the exchange works on one transaction and the
  data alone; `OthersKept` frames the other restore, whose components are disjoint.
* `ReadInv`: where the backup that a restore reads comes from. Until a restore of the
  manager has read its backup, the manager has its first data (`Pristine`), every
  thread at work has collected a part of just these (`Draft`), and so every readable
  backup is `Foreign` or a consistent image of them; that holds although the threads
  copy component by component while others write.

Theorems: `RegistryIsSound`, `PlaintextEnds`, `OriginalsAreKept`, `RestoresAllOrNothing`. They
cover what run `backups` has no room for: a restore of the manager beside one of the
cache, and any number of other requests and restarts.

`Inventory_proofs`, from `SizeAssumption` (bounds are numbers, schedules are finitely many)
and `PlanAssumption`. `TablesInv` has the types, the foreign keys of jobs and what a pending
request carries; four invariants build on it.

* `DerivedInv`: for each part, access and timers (`PartInv`), its last update failed or met
  another one (`disturbed`), or some request has still to begin one (`Awaited`), or at most one
  is under way (`Alone`), whose readings are still what is wanted (`OnTheWay`), and if none is,
  the part is in force. A commit that changes what is wanted has its own update
  ahead, which makes the part `Awaited` again. The access rows are compared to jobs of which no
  device and no repository is deleted, which is why the foreign keys are needed.
* `ReservedInv`: jobs, runs and archive series refer to reserved ids only. That a new job's
  id is fresh when it commits comes from the check of the commit, not of the read.
* `ScheduleInv`: what a pending request has read still holds up to rows that were deleted
  or lost targets since (`StillRead`), so that the columns it leaves out are those
  that were checked; ids that schedules name are reserved, so no new job slips into a list.
* `HistoryInv` with `RunsSound`: a pending clean-up names runs that are over, and leaves each
  job that has a good backup run another one (`Spares`).

Theorems: `DerivedStateInForce` (of parts that are not `disturbed`) and `SeriesNeverContinued`
(about steps), for any overlap of requests; `JobsInOneSchedule` under `RowsApart`, `BaselinesStay` (about steps) under
`HistoryApart`. The conditions speak of the plan alone, which does not change, and every
plan of run `inventory` satisfies both.

Every invariant and action property of a passing run is a theorem, except `LogComplete`
and `ReportsExact` of `OutputFilters`: one of its filters is a recursive operator, the others and their references
sort and concatenate sequences of any length, and what those give for every output takes
induction over data, out of the prover's reach. All liveness (`WaiterServed`, `QueueProgress`, `ChainReleased`,
`TransitionsEnd`, `RunsStart`, `GroupEnds`, `RunsEnd`, `TasksEnd`) stays with TLC, since
the prover has neither fairness nor ENABLED.

Seven models changed for the proofs, none in what it allows on its run. `RunTask!Without`
and `ManagerBackups!Pruned` are set comprehensions instead of recursion or `SelectSeq`;
`ManagerRestore` keeps what is to be exchanged and what was exchanged as sets, which
`First` and `Latest` read in the order of `RESTORE_COMPONENTS`; the values that rows,
requests and stored files may have are named (`Accounts!Account`, `Want`, `Session`;
`ArchiveMounts!Row`, `Entry`; `ManagerBackups!Image`; `Inventory!JobRow`, `ScheduleRow`; `ClientCaches!CacheDir`, `SecurityState`), and so
is what the database clean-up makes of a schedule (`Inventory!Trimmed`); the assumptions
of `Inventory` and `ClientCaches` say more of plans and first contents. `ClientCaches!Allowed` takes
what a clean-up has read as parameters, to say of it what the deletion still knows. The properties of restores speak of
the components a restore is about (`Scope`), because a cache restore may change the
others beside it.

## 14. What the models leave out

Contents of commands, archives and logs; wall-clock time (a time limit is an
action that may happen, a polling interval is fairness); failures of SQLite
itself; everything listed as `not_modelled` or left out in a note of `PROJECT.json`.
Command construction and the parsers of Borg's output are pure functions over
text, whose properties would be about characters; the web interface, the shell scripts and the
diagnostics hold no state that the modelled parts read.

Threads matter where an endpoint is a plain `def`: accounts, inventory, backups,
caches, `update_job` and the list of mounts. There every transaction is a step; in
the endpoints on the event loop the steps are cut at the `await`s.
