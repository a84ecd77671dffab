---------------------------- MODULE ScheduleGroup ----------------------------
(***************************************************************************)
(* One execution of a backup schedule (_scheduled_backup_group and         *)
(* scheduled_schedule, app/service.py:2641-2778): all backups, then all    *)
(* prunes, then one compact per repository.  Several executions overlap    *)
(* when a schedule has several times or a backup takes long, and users     *)
(* start runs of the same jobs and edit the jobs meanwhile.                *)
(*                                                                         *)
(* An iteration of a queueing loop is one step.  The code suspends between *)
(* two iterations only after a failed one, but update_job runs in a thread *)
(* and so comes between any two.                                           *)
(***************************************************************************)
EXTENDS Integers, FiniteSets

CONSTANTS
  Job,                 \* backup jobs, named by their ids
  Repo,                \* repositories
  Group,               \* executions of schedules
  Targets,             \* the jobs of each execution's schedule
  Retention,           \* jobs with a retention rule
  HomeOf,              \* each job's repository at the start
  NoRun,
  CompactAfterPrune,   \* the setting compact_after_prune
  Manual,              \* whether users start runs of the jobs
  Moves                \* whether users move jobs to other repositories

ASSUME JobAssumption == Job \subseteq Nat /\ IsFiniteSet(Job) /\ Retention \subseteq Job
ASSUME GroupAssumption ==
  Targets \in [Group -> SUBSET Job] /\ HomeOf \in [Job -> Repo]
ASSUME SwitchAssumption == {CompactAfterPrune, Manual, Moves} \subseteq BOOLEAN

VARIABLES
  repoOf,              \* jobs.repository_id
  manual,              \* jobs with an active run of a user
  phase,               \* what each execution is doing
  todo,                \* jobs its current loop has still to consider
  run                  \* its runs, by phase and job

vars == <<repoOf, manual, phase, todo, run>>

Phases == {"backup", "prune", "compact"}
Ended == {"success", "warning", "failed", "cancelled"}
Successful == {"success", "warning"}

Status(g, ph, j) == IF run[g][ph][j] = NoRun THEN "none" ELSE run[g][ph][j].status
Active(g, ph, j) == Status(g, ph, j) = "active"

\* A job may have one queued or running execution, of whatever origin.
JobBusy(j) == j \in manual \/ \E g \in Group, ph \in Phases : Active(g, ph, j)

-----------------------------------------------------------------------------
Init ==
  /\ repoOf = HomeOf
  /\ manual = {}
  /\ phase = [g \in Group |-> "idle"]
  /\ todo = [g \in Group |-> {}]
  /\ run = [g \in Group |-> [ph \in Phases |-> [j \in Job |-> NoRun]]]

\* The scheduler starts the group with the jobs its schedule targets now.
Begin(g) ==
  /\ phase[g] = "idle" /\ Targets[g] # {}
  /\ phase' = [phase EXCEPT ![g] = "backup"]
  /\ todo' = [todo EXCEPT ![g] = Targets[g]]
  /\ UNCHANGED <<repoOf, manual, run>>

\* The loops go over jobs in a fixed order; which one does not matter here.
Lowest(S) == CHOOSE j \in S : \A k \in S : j <= k

\* prune: jobs whose backup failed or that have no retention are passed over.
Skipped(g, j) ==
  phase[g] = "prune" /\ ~(Status(g, "backup", j) \in Successful /\ j \in Retention)

SetRun(g, j, status) ==
  run' = [run EXCEPT ![g][phase[g]][j] = [status |-> status, repo |-> repoOf[j]]]

\* Mutant: a job's own active run is not looked for.
QueueNextBusy(g) ==
  /\ todo[g] # {}
  /\ LET j == Lowest(todo[g]) IN
     /\ todo' = [todo EXCEPT ![g] = @ \ {j}]
     /\ IF Skipped(g, j) THEN UNCHANGED run ELSE SetRun(g, j, "active")
  /\ UNCHANGED <<repoOf, manual, phase>>

(***************************************************************************)
(* One iteration: queue_job_action for the next job.  It refuses a busy    *)
(* job, and it may refuse for other reasons (storage guard, access not set *)
(* up, repository disabled); the group records the error and goes on.      *)
(***************************************************************************)
QueueNext(g) ==
  /\ todo[g] # {}
  /\ LET j == Lowest(todo[g]) IN
     /\ todo' = [todo EXCEPT ![g] = @ \ {j}]
     /\ \/ Skipped(g, j) /\ UNCHANGED run
        \/ ~Skipped(g, j) /\ ~JobBusy(j) /\ SetRun(g, j, "active")
        \/ ~Skipped(g, j) /\ SetRun(g, j, "refused")
  /\ UNCHANGED <<repoOf, manual, phase>>

\* A run ends; a run deleted from the history counts as failed.
RunEnds(g, ph, j) ==
  /\ Active(g, ph, j)
  /\ \E result \in Ended : run' = [run EXCEPT ![g][ph][j].status = result]
  /\ UNCHANGED <<repoOf, manual, phase, todo>>

\* Mutant: the wait knows only the good ends of a run.
PhaseOverUnlessFailed(g) ==
  todo[g] = {} /\ \A j \in Job : Status(g, phase[g], j) \notin {"active", "failed"}

\* gather(_wait_for_run ...) returns: the phase's runs are terminal.
PhaseOver(g) == todo[g] = {} /\ \A j \in Job : ~Active(g, phase[g], j)

PrunesBegin(g) ==
  /\ phase[g] = "backup" /\ PhaseOver(g)
  /\ phase' = [phase EXCEPT ![g] = "prune"]
  /\ todo' = [todo EXCEPT ![g] = {j \in Job : Status(g, "backup", j) \in Ended}]
  /\ UNCHANGED <<repoOf, manual, run>>

\* Jobs whose prune was queued, by the repository it was queued for.
PrunedIn(g, r) == {j \in Job : Status(g, "prune", j) \in Ended /\ run[g]["prune"][j].repo = r}

\* Mutant: every job with a prune run compacts its repository.
RepresentativesAll(g) == {j \in Job : Status(g, "prune", j) = "success"}

\* Mutant: one successful prune is enough.
RepresentativesAny(g) ==
  {j \in Job : \E r \in Repo :
     /\ j \in PrunedIn(g, r) /\ \A k \in PrunedIn(g, r) : j <= k
     /\ \E k \in PrunedIn(g, r) : Status(g, "prune", k) = "success"}

\* The lowest job of every repository whose prune runs all succeeded.
Representatives(g) ==
  {j \in Job : \E r \in Repo :
     /\ j \in PrunedIn(g, r) /\ \A k \in PrunedIn(g, r) : j <= k
     /\ \A k \in PrunedIn(g, r) : Status(g, "prune", k) = "success"}

CompactsBegin(g) ==
  /\ phase[g] = "prune" /\ PhaseOver(g)
  /\ phase' = [phase EXCEPT ![g] = "compact"]
  /\ todo' = [todo EXCEPT ![g] = IF CompactAfterPrune THEN Representatives(g) ELSE {}]
  /\ UNCHANGED <<repoOf, manual, run>>

GroupDone(g) ==
  /\ phase[g] = "compact" /\ PhaseOver(g)
  /\ phase' = [phase EXCEPT ![g] = "done"]
  /\ UNCHANGED <<repoOf, manual, todo, run>>

-----------------------------------------------------------------------------
\* Users queue a run of a job, and such a run ends.
ManualBegins(j) ==
  /\ Manual /\ ~JobBusy(j)
  /\ manual' = manual \cup {j}
  /\ UNCHANGED <<repoOf, phase, todo, run>>

ManualEnds(j) ==
  /\ j \in manual
  /\ manual' = manual \ {j}
  /\ UNCHANGED <<repoOf, phase, todo, run>>

\* update_job does not look at the job's runs.
MoveJob(j, r) ==
  /\ Moves
  /\ repoOf' = [repoOf EXCEPT ![j] = r]
  /\ UNCHANGED <<manual, phase, todo, run>>

GroupStep(g) == QueueNext(g) \/ PrunesBegin(g) \/ CompactsBegin(g) \/ GroupDone(g)

Next ==
  \/ \E g \in Group : Begin(g) \/ GroupStep(g)
  \/ \E g \in Group, ph \in Phases, j \in Job : RunEnds(g, ph, j)
  \/ \E j \in Job : ManualBegins(j) \/ ManualEnds(j)
  \/ \E j \in Job, r \in Repo : MoveJob(j, r)

Spec == Init /\ [][Next]_vars

\* The group's task polls its runs; runs end (see RunQueue, QueueProgress).
Fairness ==
  /\ \A g \in Group : WF_vars(GroupStep(g))
  /\ \A g \in Group, ph \in Phases, j \in Job : WF_vars(RunEnds(g, ph, j))

FairSpec == Spec /\ Fairness

-----------------------------------------------------------------------------
Run == [status : {"active", "refused"} \cup Ended, repo : Repo]

TypeOK ==
  /\ repoOf \in [Job -> Repo]
  /\ manual \subseteq Job
  /\ phase \in [Group -> Phases \cup {"idle", "done"}]
  /\ todo \in [Group -> SUBSET Job]
  /\ run \in [Group -> [Phases -> [Job -> Run \cup {NoRun}]]]

(***************************************************************************)
(* A job never has two active runs, although executions of schedules, the  *)
(* three phases of each and users compete for it.                          *)
(***************************************************************************)
OneActiveRunPerJob ==
  \A j \in Job :
    /\ j \in manual => \A g \in Group, ph \in Phases : ~Active(g, ph, j)
    /\ \A g, h \in Group, p, q \in Phases :
         Active(g, p, j) /\ Active(h, q, j) => g = h /\ p = q

(***************************************************************************)
(* "Compact is executed at most once per repository" (docstring).  The     *)
(* group chooses one job of each repository it pruned, but a compact runs  *)
(* where its job is when it is queued.  So two of them meet in one         *)
(* repository only if a job was moved there after its prune.               *)
(***************************************************************************)
Compacted(g, j) == Status(g, "compact", j) \notin {"none", "refused"}

CompactsIn(g, r) == {j \in Job : Compacted(g, j) /\ run[g]["compact"][j].repo = r}

MovedSincePrune(g, j) == run[g]["compact"][j].repo # run[g]["prune"][j].repo

CompactOncePerRepository ==
  \A g \in Group, r \in Repo, i, j \in Job :
    i \in CompactsIn(g, r) /\ j \in CompactsIn(g, r) /\ i # j
      => MovedSincePrune(g, i) \/ MovedSincePrune(g, j)

(***************************************************************************)
(* The phases keep their order, whatever failed to be queued meanwhile.  A *)
(* group prunes only after all its backups ended and only where the backup *)
(* of that job succeeded.  It compacts a repository "only after all prune  *)
(* runs for that repository finished successfully" (docstring): none of    *)
(* them failed, warned or is still active.                                 *)
(***************************************************************************)
CompactsFor(g, r) == {j \in Job : Compacted(g, j) /\ run[g]["prune"][j].repo = r}

PrunesFollowBackups ==
  \A g \in Group, j \in Job :
    Status(g, "prune", j) \notin {"none", "refused"} =>
      /\ Status(g, "backup", j) \in Successful
      /\ \A k \in Job : ~Active(g, "backup", k)

CompactsFollowPrunes ==
  \A g \in Group, r \in Repo :
    CompactsFor(g, r) # {} =>
      \A k \in Job :
        Status(g, "prune", k) \in Ended \cup {"active"} /\ run[g]["prune"][k].repo = r
          => Status(g, "prune", k) = "success"

PhasesInOrder == TypeOK /\ PrunesFollowBackups /\ CompactsFollowPrunes

(***************************************************************************)
(* Every execution ends, so that the scheduler, which runs one instance of *)
(* a trigger at a time, can start the next one.                            *)
(***************************************************************************)
GroupEnds == \A g \in Group : phase[g] # "idle" ~> phase[g] = "done"
=============================================================================
