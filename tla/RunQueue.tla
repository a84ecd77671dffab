------------------------------ MODULE RunQueue ------------------------------
(***************************************************************************)
(* The run queue of BorgBackup Manager (app/service.py): how persisted     *)
(* runs are queued, admitted and finished, how a manual backup reserves a  *)
(* repository for its prune and compact runs, and what a restart leaves.   *)
(*                                                                         *)
(* Every run is a row of the table `runs` and, while the process lives, a  *)
(* task.  All functions modelled here run on the event loop without a      *)
(* suspension point between their reads and their writes, so each is one   *)
(* step.  A run of kind                                                    *)
(*   "borg"     waits in _execute_run_inner for _claim_execution_turn;     *)
(*   "stats"    does so too (action source-stats) but uses no repository;  *)
(*   "refresh"  is an archive refresh, which waits in                      *)
(*              _wait_for_repository_turn instead.                         *)
(***************************************************************************)
EXTENDS Integers, FiniteSets

CONSTANTS
  Repo,                \* repository records
  Managed,             \* those with a storage path, whose archives can be mounted
  Target,              \* physical repositories
  TargetOf,            \* _repository_execution_key: two records may share one
  Mount,               \* filesystems that can have a parallel limit
  MountOf,             \* _repository_mount_key, or NoMount
  Job, Schedule,       \* backup jobs and schedules
  Home,                \* the repository a job has at first
  NoMount, NoJob, NoSchedule, NoRow,
  Request,             \* the runs users and schedules ask for
  MaxRuns,             \* bound on the rows ever created
  Plans,               \* what behaviours are considered, one of which is chosen
  MountLimits, StatsLimits,   \* values of the settings, 0 = none
  Results              \* how runs end, of the statuses in Terminal

RunId == 1..MaxRuns

\* The columns of a run that admission reads; chain and compact are the job's
\* manual_prune_after_backup and manual_compact_after_prune.
Row == [kind : {"borg", "stats", "refresh"}, job : Job \cup {NoJob}, repo : Repo,
        schedule : Schedule \cup {NoSchedule}, limit : Nat,
        chain : BOOLEAN, compact : BOOLEAN]

Status == {"none", "queued", "running", "success", "warning", "failed", "cancelled"}
Terminal == {"success", "warning", "failed", "cancelled"}

ASSUME RunBound == MaxRuns \in Nat /\ Results \subseteq Terminal
ASSUME TopologyAssumption ==
  /\ Managed \subseteq Repo
  /\ TargetOf \in [Repo -> Target]
  /\ MountOf \in [Target -> Mount \cup {NoMount}]
ASSUME RequestAssumption ==
  Request \subseteq Row /\ \A q \in Request : q.chain => q.kind = "borg"
ASSUME JobAssumption == Home \in [Job -> Repo] /\ NoJob \notin Job
ASSUME NoRowAssumption == NoRow \notin Row

\* A plan names the requests that come, the rows it lasts for, to which
\* repositories the editing of jobs moves them, the values the global limit
\* takes, and whether archives are mounted, runs are cancelled again during
\* their cleanup, and the manager restarts.
Event == {"mounts", "cancelled twice", "restart"}

ASSUME PlanAssumption ==
  Plans \subseteq [requests : SUBSET Request, rows : Nat, moves : SUBSET (Job \X Repo),
                  globalLimits : SUBSET Nat, events : SUBSET Event]
ASSUME LimitAssumption ==
  MountLimits \subseteq Nat /\ StatsLimits \subseteq Nat \ {0}

VARIABLES
  plan,                \* the plan of the behaviour
  repoOf,              \* the repository each job has now
  row,                 \* the request behind each row of `runs`
  status,              \* its status column
  live,                \* runs of _active_run_tasks and _executing_run_ids
  globalLimit, mountLimit, statsLimit,      \* the settings
  archiveMounted,      \* repositories whose mount row is "mounting" or whose path is active
  mountUnderWay,       \* those whose FUSE mount is still to become active
  reserved,            \* root runs in _repository_chain_reservations
  started,             \* those whose entry has "started" set
  token,               \* _run_chain_tokens: the root run of a run's chain, or 0
  waitsFor,            \* run each _finish_manual_backup_chain task waits for, or 0
  phase                \* the phase that run belongs to

settings == <<globalLimit, mountLimit, statsLimit>>
chains == <<reserved, started, token, waitsFor, phase>>
mounts == <<archiveMounted, mountUnderWay>>
vars == <<plan, repoOf, row, status, live, settings, mounts, chains>>

-----------------------------------------------------------------------------
Exists(r) == status[r] # "none"
Active(r) == status[r] \in {"queued", "running"}
Queued == {r \in live : status[r] = "queued"}
Running == {r \in live : status[r] = "running"}

UsesRepository(r) == row[r].kind # "stats"
TargetOfRun(r) == TargetOf[row[r].repo]
SameTarget(r, s) == UsesRepository(r) /\ UsesRepository(s) /\ TargetOfRun(r) = TargetOfRun(s)
MountOfRun(r) == MountOf[TargetOfRun(r)]

LimitOfMount(m) == IF m \in Mount THEN mountLimit[m] ELSE 0

\* The smallest positive limit snapshot among the live runs of a schedule.
ScheduleLimit(s) ==
  LET snapshots == {row[r].limit : r \in {x \in Queued \cup Running : row[x].schedule = s}} \ {0}
  IN IF s = NoSchedule \/ snapshots = {} THEN 0
     ELSE CHOOSE n \in snapshots : \A m \in snapshots : n <= m

\* Entry 0 of the target's sorted reservation list (_repository_chain_snapshot).
IsHead(root) ==
  /\ root \in reserved
  /\ \A other \in reserved : TargetOfRun(other) = TargetOfRun(root) => root <= other

\* Mutant: a started chain holds back only younger runs.
ReservedForYounger(r) ==
  UsesRepository(r) /\
  \E root \in reserved :
    IsHead(root) /\ TargetOfRun(root) = TargetOfRun(r) /\ token[r] # root /\ r > root

\* Mutant: a chain holds back its own prune and compact runs.
ReservedForAll(r) ==
  UsesRepository(r) /\
  \E root \in reserved :
    /\ IsHead(root) /\ TargetOfRun(root) = TargetOfRun(r)
    /\ root \in started \/ r > root

\* The target is held for another chain ("maintenance-chain").
ReservedForOther(r) ==
  UsesRepository(r) /\
  \E root \in reserved :
    /\ IsHead(root) /\ TargetOfRun(root) = TargetOfRun(r)
    /\ token[r] # root
    /\ root \in started \/ r > root

\* A limit leaves no room for run r beside the runs in occ.
MountFull(r, occ) ==
  /\ UsesRepository(r) /\ LimitOfMount(MountOfRun(r)) > 0
  /\ Cardinality({o \in occ : UsesRepository(o) /\ MountOfRun(o) = MountOfRun(r)})
       >= LimitOfMount(MountOfRun(r))

ScheduleFull(r, occ) ==
  LET s == row[r].schedule IN
  /\ ScheduleLimit(s) > 0
  /\ Cardinality({o \in occ : row[o].schedule = s}) >= ScheduleLimit(s)

StatsFull(r, occ) ==
  ~UsesRepository(r) /\ Cardinality({o \in occ : ~UsesRepository(o)}) >= statsLimit

\* Mutant: the global limit admits one run too many.
GlobalFullLate(occ) == globalLimit > 0 /\ Cardinality(occ) > globalLimit

GlobalFull(occ) == globalLimit > 0 /\ Cardinality(occ) >= globalLimit

\* A row that is queued takes its repository from the job as it is then.
AsQueued(q) == IF q.job = NoJob THEN q ELSE [q EXCEPT !.repo = repoOf[q.job]]

\* A chain's prune and compact run: queue_job_action reads the job anew.
FollowUp(q) == [AsQueued(q) EXCEPT !.chain = FALSE]

ArchiveMountBlocks(r) == UsesRepository(r) /\ row[r].repo \in archiveMounted

(***************************************************************************)
(* The body of the planner's loop: run r may start beside the runs in occ. *)
(***************************************************************************)
Admissible(r, occ) ==
  /\ ~ArchiveMountBlocks(r)
  /\ ~ReservedForOther(r)
  /\ \A o \in occ : ~SameTarget(r, o)
  /\ ~MountFull(r, occ)
  /\ ~ScheduleFull(r, occ)
  /\ ~StatsFull(r, occ)
  /\ ~GlobalFull(occ)

\* Mutant: queued runs are considered from the youngest to the oldest.
IsPlanYoungestFirst(S) ==
  /\ S \subseteq Queued
  /\ \A r \in Queued : r \in S <=> Admissible(r, Running \cup {s \in S : s > r})

(***************************************************************************)
(* _execution_plan: queued runs are considered in id order and a selected  *)
(* run occupies its places for all later ones.  S is such a selection.     *)
(***************************************************************************)
IsPlan(S) ==
  /\ S \subseteq Queued
  /\ \A r \in Queued : r \in S <=> Admissible(r, Running \cup {s \in S : s < r})

-----------------------------------------------------------------------------
Init ==
  /\ plan \in Plans
  /\ repoOf = Home
  /\ row = [r \in RunId |-> NoRow]
  /\ status = [r \in RunId |-> "none"]
  /\ live = {}
  /\ globalLimit \in plan.globalLimits
  /\ mountLimit \in [Mount -> MountLimits]
  /\ statsLimit \in StatsLimits
  /\ archiveMounted = {} /\ mountUnderWay = {}
  /\ reserved = {} /\ started = {}
  /\ token = [r \in RunId |-> 0]
  /\ waitsFor = [r \in RunId |-> 0]
  /\ phase = [r \in RunId |-> "none"]

\* A row is inserted with the next id, and its task is created.
Insert(r, q) ==
  /\ r <= plan.rows /\ ~Exists(r) /\ \A s \in RunId : s < r => Exists(s)
  /\ row' = [row EXCEPT ![r] = q]
  /\ status' = [status EXCEPT ![r] = "queued"]
  /\ live' = live \cup {r}

\* queue_job_action refuses a second active run of a job; actions on a
\* repository record refuse beside any active run of that record.
Refused(q) ==
  \E r \in RunId :
    /\ Active(r)
    /\ IF q.job # NoJob THEN row[r].job = q.job ELSE row[r].repo = q.repo

\* queue_job_action, queue_repository_action, queue_repository_archive_refresh.
QueueRun(r, q) ==
  /\ q \in plan.requests /\ ~q.chain /\ ~Refused(q)
  /\ Insert(r, AsQueued(q))
  /\ UNCHANGED <<plan, repoOf, settings, mounts, chains>>

\* queue_manual_backup with prune_after: the reservation starts here.
QueueManualBackup(r, q) ==
  /\ q \in plan.requests /\ q.chain /\ ~Refused(q)
  /\ Insert(r, AsQueued(q))
  /\ reserved' = reserved \cup {r}
  /\ token' = [token EXCEPT ![r] = r]
  /\ waitsFor' = [waitsFor EXCEPT ![r] = r]
  /\ phase' = [phase EXCEPT ![r] = "backup"]
  /\ UNCHANGED <<plan, repoOf, settings, mounts, started>>

\* _claim_execution_turn.
Claim(r) ==
  /\ r \in Queued /\ row[r].kind # "refresh"
  /\ \E S \in SUBSET Queued : IsPlan(S) /\ r \in S
  /\ status' = [status EXCEPT ![r] = "running"]
  /\ started' = started \cup ({r} \cap reserved)
  /\ UNCHANGED <<plan, repoOf, row, live, settings, mounts, reserved, token, waitsFor, phase>>

\* Mutant: runs are compared by repository record, not by physical repository.
RecordBlocker(r, s) ==
  /\ s # r /\ Active(s)
  /\ row[s].repo = row[r].repo
  /\ status[s] = "running" \/ s < r

\* _repository_run_blocker counts rows whose task is gone, too.
RepositoryBlocker(r, s) ==
  /\ s # r /\ Active(s)
  /\ TargetOf[row[s].repo] = TargetOf[row[r].repo]
  /\ status[s] = "running" \/ s < r

\* execute_repository_archive_refresh after _wait_for_repository_turn.
StartRefresh(r) ==
  /\ r \in Queued /\ row[r].kind = "refresh"
  /\ \A s \in RunId : ~RepositoryBlocker(r, s)
  /\ status' = [status EXCEPT ![r] = "running"]
  /\ UNCHANGED <<plan, repoOf, row, live, settings, mounts, chains>>

\* A run ends: its command ends, or it is cancelled (also while it is queued).
\* A refresh that finds its repository disabled or missing fails unstarted.
End(r, result) ==
  /\ r \in live
  /\ \/ status[r] = "running"
     \/ status[r] = "queued" /\ result = "cancelled"
     \/ status[r] = "queued" /\ result = "failed" /\ row[r].kind = "refresh"
  /\ status' = [status EXCEPT ![r] = result]
  /\ live' = live \ {r}
  /\ UNCHANGED <<plan, repoOf, row, settings, mounts, chains>>

\* A second cancellation strikes the awaits in the `finally` of
\* _execute_run_inner: the task ends and the row keeps its active status.
EndTwiceCancelled(r) ==
  /\ "cancelled twice" \in plan.events
  /\ r \in live /\ row[r].kind # "refresh"
  /\ live' = live \ {r}
  /\ UNCHANGED <<plan, repoOf, row, status, settings, mounts, chains>>

-----------------------------------------------------------------------------
(* _finish_manual_backup_chain, one step for each return of _wait_for_run. *)

\* Mutant: the reservation survives the end of its chain.
ReleaseTokensOnly(root) ==
  /\ UNCHANGED reserved
  /\ started' = started \ {root}
  /\ token' = [r \in RunId |-> IF token[r] = root THEN 0 ELSE token[r]]
  /\ waitsFor' = [waitsFor EXCEPT ![root] = 0]
  /\ phase' = [phase EXCEPT ![root] = "none"]

\* finally: _release_repository_chain.
ReleaseChain(root) ==
  /\ reserved' = reserved \ {root}
  /\ started' = started \ {root}
  /\ token' = [r \in RunId |-> IF token[r] = root THEN 0 ELSE token[r]]
  /\ waitsFor' = [waitsFor EXCEPT ![root] = 0]
  /\ phase' = [phase EXCEPT ![root] = "none"]

NextPhase(root) ==
  LET result == status[waitsFor[root]] IN
  IF phase[root] = "backup" /\ result \in {"success", "warning"} THEN "prune"
  ELSE IF phase[root] = "prune" /\ result = "success" /\ row[root].compact THEN "compact"
  ELSE "none"

ChainContinues(root, r) ==
  /\ waitsFor[root] # 0 /\ status[waitsFor[root]] \in Terminal
  /\ NextPhase(root) # "none"
  /\ LET q == FollowUp(row[root]) IN ~Refused(q) /\ Insert(r, q)
  /\ token' = [token EXCEPT ![r] = root]
  /\ waitsFor' = [waitsFor EXCEPT ![root] = r]
  /\ phase' = [phase EXCEPT ![root] = NextPhase(root)]
  /\ UNCHANGED <<plan, repoOf, settings, mounts, reserved, started>>

\* Nothing follows, or the following run is refused (the job has another
\* active run, the repository is disabled, its storage is not mounted).
ChainEnds(root) ==
  /\ waitsFor[root] # 0 /\ status[waitsFor[root]] \in Terminal
  /\ ReleaseChain(root)
  /\ UNCHANGED <<plan, repoOf, row, status, live, settings, mounts>>

-----------------------------------------------------------------------------
\* Settings may be saved at any time; the planner loads them on every call.
SaveSettings ==
  /\ globalLimit' \in plan.globalLimits
  /\ mountLimit' \in [Mount -> MountLimits]
  /\ statsLimit' \in StatsLimits
  /\ UNCHANGED <<plan, repoOf, row, status, live, mounts, chains>>

\* update_job, whatever runs and chains of the job are active.
MoveJob(j, p) ==
  /\ <<j, p>> \in plan.moves /\ p # repoOf[j]
  /\ repoOf' = [repoOf EXCEPT ![j] = p]
  /\ UNCHANGED <<plan, row, status, live, settings, mounts, chains>>

-----------------------------------------------------------------------------
(* Archive mounts, as far as the planner sees them.                        *)

Besides == UNCHANGED <<plan, repoOf, row, status, live, settings, chains>>

\* create_manager_archive_mount inserts its "mounting" row.
MountArchive(p) ==
  /\ "mounts" \in plan.events
  /\ p \in Managed \ archiveMounted
  /\ \A r \in RunId : ~(Active(r) /\ row[r].repo = p)
  /\ archiveMounted' = archiveMounted \cup {p}
  /\ mountUnderWay' = mountUnderWay \cup {p}
  /\ Besides

\* Its FUSE mount becomes active, also when runs were let in meanwhile since
\* its row had been marked stale.
MountAppears(p) ==
  /\ p \in mountUnderWay
  /\ archiveMounted' = archiveMounted \cup {p}
  /\ mountUnderWay' = mountUnderWay \ {p}
  /\ Besides

\* The mount command fails and the row is dropped.
MountFails(p) ==
  /\ p \in mountUnderWay
  /\ archiveMounted' = archiveMounted \ {p}
  /\ mountUnderWay' = mountUnderWay \ {p}
  /\ Besides

\* An archive is unmounted, or list_manager_archive_mounts marks the row of a
\* mount stale that has taken more than 30 seconds.
MountYields(p) ==
  /\ p \in archiveMounted
  /\ archiveMounted' = archiveMounted \ {p}
  /\ UNCHANGED mountUnderWay
  /\ Besides

\* The process dies and starts again: recover_interrupted_runs and
\* reconcile_manager_archive_mounts run before any request or schedule.
Restart ==
  /\ "restart" \in plan.events
  /\ status' = [r \in RunId |-> IF Active(r) THEN "failed" ELSE status[r]]
  /\ live' = {}
  /\ reserved' = {} /\ started' = {}
  /\ token' = [r \in RunId |-> 0]
  /\ waitsFor' = [r \in RunId |-> 0]
  /\ phase' = [r \in RunId |-> "none"]
  /\ archiveMounted' \in SUBSET archiveMounted /\ mountUnderWay' = {}
  /\ UNCHANGED <<plan, repoOf, row, settings>>

Ends(r) == \E result \in Results : End(r, result)
ChainStep(root) == ChainEnds(root) \/ \E r \in RunId : ChainContinues(root, r)

Next ==
  \/ \E r \in RunId, q \in Request : QueueRun(r, q) \/ QueueManualBackup(r, q)
  \/ \E r \in RunId : Claim(r) \/ StartRefresh(r) \/ Ends(r) \/ EndTwiceCancelled(r)
  \/ \E root \in RunId : ChainStep(root)
  \/ SaveSettings
  \/ \E j \in Job, p \in Repo : MoveJob(j, p)
  \/ \E p \in Repo : MountArchive(p) \/ MountAppears(p) \/ MountFails(p) \/ MountYields(p)
  \/ Restart

Spec == Init /\ [][Next]_vars

(***************************************************************************)
(* Queued tasks poll every 0.25 s and chain tasks every second; every Borg *)
(* command has a timeout.  Nobody is obliged to unmount an archive.        *)
(***************************************************************************)
Fairness ==
  /\ \A r \in RunId :
       /\ WF_vars(Claim(r))
       /\ WF_vars(StartRefresh(r))
       /\ WF_vars(status[r] = "running" /\ Ends(r))
  /\ \A root \in RunId : WF_vars(ChainStep(root))

FairSpec == Spec /\ Fairness

-----------------------------------------------------------------------------
TypeOK ==
  /\ plan \in Plans
  /\ repoOf \in [Job -> Repo]
  /\ row \in [RunId -> Row \cup {NoRow}]
  /\ status \in [RunId -> Status]
  /\ live \subseteq {r \in RunId : Active(r)}
  /\ globalLimit \in plan.globalLimits /\ statsLimit \in StatsLimits
  /\ mountLimit \in [Mount -> MountLimits]
  /\ archiveMounted \subseteq Repo /\ mountUnderWay \subseteq Repo
  /\ started \subseteq reserved /\ reserved \subseteq RunId
  /\ token \in [RunId -> 0..MaxRuns]
  /\ waitsFor \in [RunId -> 0..MaxRuns]
  /\ phase \in [RunId -> {"none", "backup", "prune", "compact"}]

(***************************************************************************)
(* Borg allows one writer: of all runs that are executing, whichever of    *)
(* the two admission paths let them in and whichever record they name, no  *)
(* two use the same physical repository.                                   *)
(***************************************************************************)
RepositoryExclusive ==
  \A r, s \in Running : SameTarget(r, s) => r = s

(***************************************************************************)
(* Once the root backup of a manual chain has started, no run that the     *)
(* planner admits enters its repository before the chain releases it, even *)
(* in the gaps in which the chain has no run of its own in the queue.      *)
(***************************************************************************)
ChainProtected ==
  \A root \in started, r \in Running :
    row[r].kind = "borg" /\ TargetOfRun(r) = TargetOfRun(root) => token[r] = root

\* At most one chain of a physical repository has started, and it is the
\* head of its reservation list, so that its own runs can pass.
StartedChainIsHead == \A root \in started : IsHead(root)

(***************************************************************************)
(* When the planner starts a run, every limit in force counts all runs     *)
(* that execute then, whoever admitted them, and none is exceeded.         *)
(***************************************************************************)
Starts(r) == status[r] = "queued" /\ status'[r] = "running"

WithinLimits(r) ==
  LET m == MountOfRun(r) IN
  /\ globalLimit > 0 => Cardinality(Running') <= globalLimit
  /\ UsesRepository(r) /\ LimitOfMount(m) > 0 =>
       Cardinality({s \in Running' : UsesRepository(s) /\ MountOfRun(s) = m}) <= LimitOfMount(m)
  /\ ~UsesRepository(r) => Cardinality({s \in Running' : ~UsesRepository(s)}) <= statsLimit

PlannerRespectsLimits ==
  [][\A r \in RunId : Starts(r) /\ row[r].kind # "refresh" => WithinLimits(r)]_vars

(***************************************************************************)
(* First in, first out per physical repository: the planner lets a run     *)
(* overtake an older one of the same repository only if the older one is   *)
(* held back by an archive mount, a chain or its schedule's own limit.     *)
(***************************************************************************)
OvertakesOnlyBlocked ==
  [][\A r, s \in RunId :
       /\ Starts(r) /\ row[r].kind = "borg"
       /\ s < r /\ s \in Queued /\ row[s].kind = "borg" /\ SameTarget(r, s)
       => \/ ArchiveMountBlocks(s)
          \/ ReservedForOther(s)
          \/ \E S \in SUBSET Queued :
               IsPlan(S) /\ ScheduleFull(s, Running \cup {t \in S : t < s})]_vars

(***************************************************************************)
(* What may hold a run back for ever.  A mounted archive does so where a   *)
(* run is waiting and, because a moved chain waits elsewhere than where it *)
(* reserves, behind the chains that reserve that repository.  A run        *)
(* cancelled twice leaves a row that looks active.  And started chains     *)
(* whose jobs were moved wait in a circle, each in a repository that       *)
(* another one of them reserves.                                           *)
(***************************************************************************)
HeldByMount(r) ==
  \A places \in SUBSET Target :
    /\ TargetOfRun(r) \in places
    /\ \A root \in reserved :
         TargetOfRun(root) \in places /\ waitsFor[root] # 0 => TargetOfRun(waitsFor[root]) \in places
    => \E p \in archiveMounted : TargetOf[p] \in places

Orphans == \E r \in RunId : Active(r) /\ r \notin live

Entangled ==
  \E circle \in SUBSET started \ {{}} :
    \A root \in circle :
      /\ waitsFor[root] \in Queued
      /\ \E other \in circle \ {root} :
           IsHead(other) /\ TargetOfRun(other) = TargetOfRun(waitsFor[root])

HeldForEver(r) == HeldByMount(r) \/ Orphans \/ Entangled

(***************************************************************************)
(* Every run the planner handles leaves the queue, however limits, older   *)
(* runs and chains delay it, unless one of these three holds it back.      *)
(***************************************************************************)
QueueProgress ==
  \A r \in RunId :
    (r \in Queued /\ row[r].kind # "refresh") ~> (r \notin Queued \/ HeldForEver(r))

(***************************************************************************)
(* A started chain releases the repository, and so lets others in, also    *)
(* when its job is moved to another repository, unless one of its own runs *)
(* is held back.                                                           *)
(***************************************************************************)
ChainReleased ==
  \A root \in RunId : (root \in started) ~> (root \notin started \/ HeldForEver(root))
=============================================================================
