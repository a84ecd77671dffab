------------------------------- MODULE Inventory -------------------------------
(***************************************************************************)
(* Devices, repositories, backup jobs, schedules and the run history of the *)
(* manager (app/main.py:711-946, 2061-2163, 2351-3029, 4161-4591,          *)
(* app/schedules.py, app/service.py:349-402, app/database_maintenance.py). *)
(*                                                                         *)
(* Endpoints are served by threads and open a session each.  What a session*)
(* selects before its first write may be out of date when it commits; from *)
(* the first write to the commit no other session writes.  So a request is *)
(* a step that reads and checks, a step that commits, and further ones that*)
(* bring the derived state up to date: the access rows of devices, the     *)
(* authorized_keys of the repository server and the timers of schedules.   *)
(* A session writes the columns that differ from what it loaded; a row that*)
(* is gone then, or a foreign key, makes it fail.                          *)
(*                                                                         *)
(* Left out: names, texts, secrets, sizes, initialisation, archive mounts, *)
(* external repositories.                                                  *)
(***************************************************************************)
EXTENDS Integers, FiniteSets, FiniteSetsExt

CONSTANTS
  MaxHost, MaxRepo, MaxJob, MaxRun,   \* bounds on the ids given out
  Schedule, Client,
  Plans                      \* what may happen, one of which a behaviour follows

Host == 1..MaxHost
Repo == 1..MaxRepo
JobId == 1..MaxJob
RunId == 1..MaxRun

Gone == "gone"
NoJob == [host |-> 0, repo |-> 0, on |-> FALSE]
NoSchedule == [mode |-> Gone, ids |-> {}, on |-> FALSE]
NoRun == [job |-> 0, series |-> 0, repo |-> 0, kind |-> Gone, status |-> Gone, live |-> FALSE]

Kinds == {"create host", "host", "edit host", "delete host",
          "create repo", "import", "repo", "delete repo",
          "create schedule", "schedule", "delete schedule",
          "create job", "job", "enable job", "delete job", "access",
          "cleanup", "delete run", "maintain"}

Mode == {"hosts", "repository", "jobs"}

\* Rows of jobs and schedules; ids are numbers of what the mode names.
JobRow == [host : 0..MaxHost, repo : 0..MaxRepo, on : BOOLEAN]
ScheduleRow == [mode : Mode \cup {Gone}, ids : SUBSET Nat, on : BOOLEAN]

\* schedule_target_job_ids of a schedule t, with job rows js.
Targets(t, js) ==
  {j \in JobId : js[j] # NoJob /\
     \/ t.mode = "hosts" /\ js[j].host \in t.ids
     \/ t.mode = "repository" /\ js[j].repo \in t.ids
     \/ t.mode = "jobs" /\ j \in t.ids}

ASSUME SizeAssumption == {MaxHost, MaxRepo, MaxJob, MaxRun} \subseteq Nat /\ IsFiniteSet(Schedule)

(***************************************************************************)
(* A plan says what is there at first, which requests each client makes and*)
(* how many, the schedules and jobs they ask for, whether jobs run, and    *)
(* whether the manager restarts.  At first jobs have their device and their*)
(* repository, schedules of jobs name jobs, and no job is in two of those  *)
(* that are enabled.                                                       *)
(***************************************************************************)
ASSUME PlanAssumption ==
  \A p \in Plans :
    /\ p.host \in [Host -> {Gone, "on", "off"}] /\ p.repo \in [Repo -> {Gone, "on", "off"}]
    /\ p.kinds \in [Client -> SUBSET Kinds] /\ p.requests \in [Client -> Nat]
    /\ {p.runs, p.restarts} \subseteq BOOLEAN
    /\ p.job \in [JobId -> JobRow] /\ p.jobs \subseteq JobRow
    /\ p.sched \in [Schedule -> ScheduleRow]
    /\ p.schedules \subseteq ScheduleRow /\ \A t \in p.schedules : t.mode \in Mode
    /\ \A j \in JobId : p.job[j] # NoJob =>
         /\ p.job[j].host \in Host /\ p.host[p.job[j].host] # Gone
         /\ p.job[j].repo \in Repo /\ p.repo[p.job[j].repo] # Gone
    /\ \A s \in Schedule : p.sched[s].mode = "jobs" =>
         \A j \in p.sched[s].ids : j \in JobId /\ p.job[j] # NoJob
    /\ \A s, t \in Schedule : p.sched[s].on /\ p.sched[t].on /\ s # t =>
         Targets(p.sched[s], p.job) \cap Targets(p.sched[t], p.job) = {}

VARIABLES
  plan,
  host, repo,          \* whether each exists and is enabled
  job, sched,          \* rows of jobs and backup_schedules
  reserved,            \* rows of job_id_reservations
  run,                 \* rows of runs; live: its task is at work
  access, keys,        \* rows of host_repository_access, those with a key
  authorized,          \* entries of the repository server's authorized_keys
  armed,               \* schedules with a timer in the scheduler
  disturbed,           \* parts of it whose last update failed or met another one
  series,              \* jobs after which archives of the repositories are named
  at, left             \* of each client: its request, how many are left

rows == <<host, repo, job, sched, reserved>>
derived == <<access, keys, authorized, armed, disturbed>>
vars == <<plan, rows, run, derived, series, at, left>>

Hosts == {h \in Host : host[h] # Gone}
Repos == {r \in Repo : repo[r] # Gone}
Jobs == {j \in JobId : job[j] # NoJob}
Schedules == {s \in Schedule : sched[s] # NoSchedule}
Runs == {i \in RunId : run[i] # NoRun}

Active(i) == run[i].status = "active"
RunsOf(j) == {i \in Runs : run[i].job = j}
Busy(j) == \E i \in RunsOf(j) : Active(i)
JobsOn(h) == {j \in Jobs : job[j].host = h}
JobsIn(r) == {j \in Jobs : job[j].repo = r}

\* SQLite and allocate_job_id number rows by the largest id there is.
NextId(S) == 1 + Max(S \cup {0})

\* What there is to name in each mode.
Named(mode) == CASE mode = "hosts" -> Hosts [] mode = "repository" -> Repos
                 [] mode = "jobs" -> Jobs [] OTHER -> {}

TargetsExist(t) == t.ids \subseteq Named(t.mode)

\* A schedule that lost its last target is disabled.
Trimmed(t) ==
  LET ids == t.ids \cap Named(t.mode) IN
  [t EXCEPT !.ids = ids, !.on = t.on /\ (ids = t.ids \/ ids # {})]

\* validate_schedule_conflicts.
Conflict(s, t) ==
  t.on /\ \E u \in Schedules \ {s} :
            sched[u].on /\ Targets(t, job) \cap Targets(sched[u], job) # {}

\* Mutant: a schedule of named jobs is not looked at.
MatchedByPlace(j, new) ==
  {s \in Schedules : sched[s].on /\ sched[s].mode # "jobs" /\ j \in Targets(sched[s], [job EXCEPT ![j] = new])}

\* validate_job_schedule_conflicts of the job row that would be written.
Matched(j, new) == {s \in Schedules : sched[s].on /\ j \in Targets(sched[s], [job EXCEPT ![j] = new])}

\* The row that is written if only the columns that differ from seen are.
Written(now, seen, new) == [f \in DOMAIN now |-> IF new[f] = seen[f] THEN now[f] ELSE new[f]]

\* What sync_repository_access_assignments and sync_schedules are to reach.
Wanted == {<<job[j].host, job[j].repo>> : j \in Jobs}
\* rebuild_repository_authorized_keys.
Authorized(K) == {p \in K : host[p[1]] = "on" /\ repo[p[2]] = "on"}
\* repository_access_ready.
Ready(h, r) == <<h, r>> \in keys /\ repo[r] = "on"

Runnable(j) == job[j].on /\ host[job[j].host] = "on" /\ repo[job[j].repo] = "on"
Due == {s \in Schedules : sched[s].on /\ \E j \in Targets(sched[s], job) : Runnable(j)}

\* Both of them, at the start of the manager and beside nothing else.
Reassign ==
  /\ access' = Wanted /\ keys' = keys \cap Wanted
  /\ authorized' = Authorized(keys') /\ armed' = Due /\ disturbed' = {}

Without(mode, i, from) ==
  [s \in Schedule |->
     IF from[s].mode # mode \/ i \notin from[s].ids THEN sched[s]
     ELSE IF from[s].ids = {i} THEN NoSchedule
     ELSE IF sched[s].mode # mode THEN sched[s]
     ELSE [sched[s] EXCEPT !.ids = from[s].ids \ {i}]]

-----------------------------------------------------------------------------
(* Requests.                                                               *)

Idle == [step |-> "idle"]
May(c, kind) == at[c] = Idle /\ left[c] > 0 /\ kind \in plan.kinds[c]
Count(c) == left' = [left EXCEPT ![c] = @ - 1]
Goto(c, r) == at' = [at EXCEPT ![c] = r]

\* What a request brings up to date: access and timers, access alone and then
\* what comes next, or timers alone.
Timers == [step |-> "timers"]
Assign(c, next) == Goto(c, [step |-> "assign", next |-> next])
SyncAll(c) == Assign(c, Timers)
SyncTimers(c) == Goto(c, Timers)

Read(c, kind, id, new, seen) ==
  /\ Count(c)
  /\ Goto(c, [step |-> "commit", kind |-> kind, id |-> id, new |-> new, seen |-> seen])
  /\ UNCHANGED <<plan, rows, run, derived, series>>

AtCommit(c, kind) ==
  at[c].step = "commit" /\ at[c].kind = kind /\ UNCHANGED <<plan, left, series>>

\* The request is answered with an error and changes nothing.
Refuse(c) == Goto(c, Idle) /\ UNCHANGED <<rows, run, derived>>

Init ==
  /\ plan \in Plans
  /\ host = plan.host /\ repo = plan.repo
  /\ job = plan.job /\ sched = plan.sched
  /\ reserved = {j \in JobId : plan.job[j] # NoJob}
  /\ run = [i \in RunId |-> NoRun] /\ series = {}
  /\ access = Wanted /\ keys = Wanted /\ authorized = Authorized(Wanted) /\ armed = Due
  /\ disturbed = {}
  /\ at = [c \in Client |-> Idle] /\ left = plan.requests

-----------------------------------------------------------------------------
(* Devices.                                                                *)

CreateHost(c) ==
  /\ May(c, "create host")
  /\ \E h \in Host \cap {NextId(Hosts)}, s \in {"on", "off"} : host' = [host EXCEPT ![h] = s]
  /\ Count(c)
  /\ UNCHANGED <<plan, repo, job, sched, reserved, run, derived, series, at>>

\* _apply_host_enabled_state of a device: jobs are those it finds enabled.
SetEnabled(h, s, seen, jobs) ==
  /\ host' = [host EXCEPT ![h] = IF s = seen THEN @ ELSE s]
  /\ job' = [j \in JobId |-> IF j \in jobs THEN [job[j] EXCEPT !.on = FALSE] ELSE job[j]]
  /\ UNCHANGED <<repo, sched, reserved, run, derived>>

DisabledBy(h, s) == IF s = "off" THEN {j \in JobsOn(h) : job[j].on} ELSE {}

\* set_host_enabled, and update_host where nothing else changes.
ReadHost(c) ==
  \E h \in Hosts, s \in {"on", "off"} :
    /\ May(c, "host")
    /\ s = "on" \/ \A j \in JobsOn(h) : ~Busy(j)
    /\ Read(c, "host", h, s, [on |-> host[h], jobs |-> DisabledBy(h, s)])

CommitHost(c) ==
  LET h == at[c].id  s == at[c].new  seen == at[c].seen IN
  /\ AtCommit(c, "host")
  /\ IF h \notin Hosts \/ ~(seen.jobs \subseteq Jobs) THEN Refuse(c)
     ELSE /\ SetEnabled(h, s, seen.on, seen.jobs)
          /\ SyncAll(c) \/ (s = seen.on /\ s = "on" /\ Assign(c, Idle))

\* update_host where something else changes, which is written first.
ReadEditHost(c) ==
  \E h \in Hosts, s \in {"on", "off"} : May(c, "edit host") /\ Read(c, "edit host", h, s, host[h])

\* The keys of a device are revoked if its connection changes.
CommitEditHost(c) ==
  LET h == at[c].id  s == at[c].new
      next == IF s # at[c].seen \/ s = "off" THEN Timers ELSE Idle IN
  /\ AtCommit(c, "edit host")
  /\ IF h \notin Hosts \/ (s = "off" /\ \E j \in JobsOn(h) : Busy(j)) THEN Refuse(c)
     ELSE /\ SetEnabled(h, s, at[c].seen, DisabledBy(h, s))
          /\ Assign(c, next) \/ Goto(c, [step |-> "revoke", id |-> h, next |-> next])

\* Mutant: nothing is assigned anew after the revocation.
RevokeOnly(c) ==
  /\ at[c].step = "revoke"
  /\ access' = {p \in access : p[1] # at[c].id}
  /\ keys' = {p \in keys : p[1] # at[c].id}
  /\ Goto(c, at[c].next)
  /\ UNCHANGED <<plan, rows, run, authorized, armed, disturbed, series, left>>

\* revoke_host_repository_access up to its own synchronisation.
Revoke(c) ==
  /\ at[c].step = "revoke"
  /\ access' = {p \in access : p[1] # at[c].id}
  /\ keys' = {p \in keys : p[1] # at[c].id}
  /\ Assign(c, at[c].next)
  /\ UNCHANGED <<plan, rows, run, authorized, armed, disturbed, series, left>>

ReadDeleteHost(c) ==
  \E h \in Hosts :
    May(c, "delete host") /\ JobsOn(h) = {} /\ Read(c, "delete host", h, Gone, host[h])

CommitDeleteHost(c) ==
  LET h == at[c].id IN
  /\ AtCommit(c, "delete host")
  /\ IF h \notin Hosts \/ JobsOn(h) # {} THEN Refuse(c)
     ELSE /\ host' = [host EXCEPT ![h] = Gone]
          /\ sched' = Without("hosts", h, sched)
          /\ access' = {p \in access : p[1] # h} /\ keys' = {p \in keys : p[1] # h}
          /\ SyncAll(c)
          /\ UNCHANGED <<repo, job, reserved, run, authorized, armed, disturbed>>

\* bootstrap_host_repository: synchronise, ask the device, store its key.
ReadAccess(c) ==
  /\ May(c, "access")
  /\ \E p \in Wanted : Assign(c, [step |-> "ask", id |-> p])
  /\ Count(c) /\ UNCHANGED <<plan, rows, run, derived, series>>

AskDevice(c) ==
  LET p == at[c].id IN
  /\ at[c].step = "ask"
  /\ IF p \in access /\ repo[p[2]] = "on"
     THEN Goto(c, [step |-> "commit", kind |-> "access", id |-> p]) \/ Goto(c, Idle)
     ELSE Goto(c, Idle)
  /\ UNCHANGED <<plan, rows, run, derived, series, left>>

CommitAccess(c) ==
  /\ AtCommit(c, "access")
  /\ keys' = keys \cup ({at[c].id} \cap access) /\ Assign(c, Idle)
  /\ UNCHANGED <<rows, run, access, authorized, armed, disturbed>>

-----------------------------------------------------------------------------
(* Repositories.                                                           *)

CreateRepo(c) ==
  \E r \in Repo \cap {NextId(Repos)}, kind \in {"create repo", "import"}, s \in {"on", "off"} :
    /\ May(c, kind) /\ Count(c)
    /\ repo' = [repo EXCEPT ![r] = s]
    /\ IF kind = "import" THEN Goto(c, [step |-> "import", id |-> r]) ELSE UNCHANGED at
    /\ UNCHANGED <<plan, host, job, sched, reserved, run, derived, series>>

\* A repository that cannot be opened is deleted again, unless it is in use.
EndImport(c) ==
  LET r == at[c].id IN
  /\ at[c].step = "import" /\ Goto(c, Idle)
  /\ \/ UNCHANGED repo
     \/ /\ JobsIn(r) = {} /\ \A i \in Runs : run[i].repo # r
        /\ \A s \in Schedules : r \notin sched[s].ids
        /\ repo' = [repo EXCEPT ![r] = Gone]
  /\ UNCHANGED <<plan, host, job, sched, reserved, run, derived, series, left>>

BusyRepo(r) == \E i \in Runs : Active(i) /\ run[i].repo = r

\* set_repository_enabled and update_repository.
ReadRepo(c) ==
  \E r \in Repos, s \in {"on", "off"} :
    /\ May(c, "repo") /\ s # repo[r]
    /\ s = "on" \/ ~BusyRepo(r)
    /\ Read(c, "repo", r, s, repo[r])

CommitRepo(c) ==
  /\ AtCommit(c, "repo")
  /\ IF at[c].id \notin Repos THEN Refuse(c)
     ELSE /\ repo' = [repo EXCEPT ![at[c].id] = at[c].new]
          /\ SyncAll(c)
          /\ UNCHANGED <<host, job, sched, reserved, run, derived>>

ReadDeleteRepo(c) ==
  \E r \in Repos :
    /\ May(c, "delete repo") /\ JobsIn(r) = {} /\ ~BusyRepo(r)
    /\ Read(c, "delete repo", r, Gone, repo[r])

CommitDeleteRepo(c) ==
  LET r == at[c].id IN
  /\ AtCommit(c, "delete repo")
  /\ IF r \notin Repos \/ JobsIn(r) # {} THEN Refuse(c)
     ELSE /\ repo' = [repo EXCEPT ![r] = Gone]
          /\ sched' = [s \in Schedule |-> IF sched[s].mode = "repository" /\ r \in sched[s].ids
                                          THEN NoSchedule ELSE sched[s]]
          /\ run' = [i \in RunId |-> IF run[i].repo = r /\ i \in Runs
                                     THEN [run[i] EXCEPT !.repo = 0] ELSE run[i]]
          /\ access' = {p \in access : p[2] # r} /\ keys' = {p \in keys : p[2] # r}
          /\ SyncAll(c)
          /\ UNCHANGED <<host, job, reserved, authorized, armed, disturbed>>

-----------------------------------------------------------------------------
(* Schedules: the row is flushed, validated and committed in that order.   *)

CreateSchedule(c) ==
  /\ May(c, "create schedule")
  /\ \E s \in Schedule \ Schedules, t \in plan.schedules :
       /\ TargetsExist(t) /\ ~Conflict(s, t)
       /\ sched' = [sched EXCEPT ![s] = t]
  /\ Count(c) /\ SyncTimers(c)
  /\ UNCHANGED <<plan, host, repo, job, reserved, run, derived, series>>

ReadSchedule(c) ==
  \E s \in Schedules, t \in plan.schedules :
    May(c, "schedule") /\ Read(c, "schedule", s, t, sched[s])

CommitSchedule(c) ==
  LET s == at[c].id  t == at[c].new IN
  /\ AtCommit(c, "schedule")
  /\ IF s \notin Schedules \/ ~TargetsExist(t) \/ Conflict(s, t) THEN Refuse(c)
     ELSE /\ sched' = [sched EXCEPT ![s] = Written(@, at[c].seen, t)]
          /\ SyncTimers(c)
          /\ UNCHANGED <<host, repo, job, reserved, run, derived>>

DeleteSchedule(c) ==
  /\ May(c, "delete schedule")
  /\ \E s \in Schedules : sched' = [sched EXCEPT ![s] = NoSchedule]
  /\ Count(c) /\ SyncTimers(c)
  /\ UNCHANGED <<plan, host, repo, job, reserved, run, derived, series>>

-----------------------------------------------------------------------------
(* Jobs.                                                                   *)

\* allocate_job_id.
NewJobId == NextId(Jobs \cup reserved \cup {run[i].job : i \in Runs})

\* Mutant: the id is not recorded beside the job.
ReserveNothing(j) == UNCHANGED reserved

Reserve(j) == reserved' = reserved \cup {j}

ReadCreateJob(c) ==
  /\ May(c, "create job") /\ NewJobId \in JobId
  /\ \E new \in plan.jobs :
       /\ new.host \in Hosts /\ new.repo \in Repos
       /\ Read(c, "create job", NewJobId, new, NoJob)

CommitCreateJob(c) ==
  LET j == at[c].id  new == at[c].new IN
  /\ AtCommit(c, "create job")
  /\ IF \/ j \in Jobs \cup reserved \/ new.host \notin Hosts \/ new.repo \notin Repos
        \/ Cardinality(Matched(j, new)) > 1
     THEN Refuse(c)
     ELSE /\ job' = [job EXCEPT ![j] = new] /\ Reserve(j)
          /\ SyncAll(c)
          /\ UNCHANGED <<host, repo, sched, run, derived>>

ReadJob(c) ==
  \E j \in Jobs, new \in plan.jobs :
    /\ May(c, "job") /\ new.host \in Hosts /\ new.repo \in Repos
    /\ Read(c, "job", j, new, job[j])

CommitJob(c) ==
  LET j == at[c].id  new == at[c].new IN
  /\ AtCommit(c, "job")
  /\ IF \/ j \notin Jobs \/ new.host \notin Hosts \/ new.repo \notin Repos
        \/ Cardinality(Matched(j, new)) > 1
     THEN Refuse(c)
     ELSE /\ job' = [job EXCEPT ![j] = Written(@, at[c].seen, new)]
          /\ SyncAll(c)
          /\ UNCHANGED <<host, repo, sched, reserved, run, derived>>

\* set_job_enabled.
ReadEnableJob(c) ==
  \E j \in Jobs, on \in BOOLEAN :
    May(c, "enable job") /\ (on \/ ~Busy(j)) /\ Read(c, "enable job", j, on, job[j].on)

CommitEnableJob(c) ==
  LET j == at[c].id IN
  /\ AtCommit(c, "enable job")
  /\ IF j \notin Jobs THEN Refuse(c)
     ELSE /\ job' = [job EXCEPT ![j].on = IF at[c].new = at[c].seen THEN @ ELSE at[c].new]
          /\ SyncTimers(c)
          /\ UNCHANGED <<host, repo, sched, reserved, run, derived>>

\* delete_job: schedules are read after the first write if the job has runs.
ReadDeleteJob(c) ==
  \E j \in Jobs : May(c, "delete job") /\ ~Busy(j) /\ Read(c, "delete job", j, Gone, sched)

CommitDeleteJob(c) ==
  LET j == at[c].id
      from == IF RunsOf(j) # {} THEN sched ELSE at[c].seen
      referring == {s \in Schedule : from[s].mode = "jobs" /\ j \in from[s].ids} IN
  /\ AtCommit(c, "delete job")
  /\ IF j \notin Jobs \/ ~(referring \subseteq Schedules) THEN Refuse(c)
     ELSE /\ job' = [job EXCEPT ![j] = NoJob]
          /\ run' = [i \in RunId |-> IF i \in RunsOf(j) THEN [run[i] EXCEPT !.job = 0] ELSE run[i]]
          /\ sched' = Without("jobs", j, from)
          /\ SyncAll(c)
          /\ UNCHANGED <<host, repo, reserved, derived>>

-----------------------------------------------------------------------------
(***************************************************************************)
(* The derived state.  sync_repository_access_assignments reads what is    *)
(* wanted and what there is, commits the difference, reads the rows anew in*)
(* another session and writes the file.  sync_schedules removes the timers,*)
(* reads what is due and adds one timer after the other.  Requests do so   *)
(* beside each other.                                                      *)
(***************************************************************************)
AccessSteps == {"revoke", "assign", "rows", "keys", "file"}

\* What a request that is at r has still to bring up to date.
Unfinished(r) ==
  (IF r.step \in AccessSteps THEN {"access"} ELSE {}) \cup
  (IF r.step \in {"timers", "arm"} \/ (r.step \in AccessSteps /\ r.next = Timers) THEN {"timers"} ELSE {})

\* What it is bringing up to date.
Within(r) ==
  CASE r.step \in {"rows", "keys", "file"} -> {"access"} [] r.step = "arm" -> {"timers"} [] OTHER -> {}

Begin(c, part) ==
  disturbed' = IF \E d \in Client \ {c} : part \in Within(at[d])
               THEN disturbed \cup {part} ELSE disturbed \ {part}

ReadRows(c) ==
  /\ at[c].step = "assign"
  /\ Goto(c, [step |-> "rows", want |-> Wanted, have |-> access, next |-> at[c].next])
  /\ Begin(c, "access")
  /\ UNCHANGED <<plan, rows, run, access, keys, authorized, armed, series, left>>

\* Rows that are there already, or of nothing, make it fail.
WriteRows(c) ==
  LET new == at[c].want \ at[c].have  old == at[c].have \ at[c].want IN
  /\ at[c].step = "rows"
  /\ new \cap access = {} /\ \A p \in new : p[1] \in Hosts /\ p[2] \in Repos
  /\ access' = (access \ old) \cup new /\ keys' = keys \ old
  /\ Goto(c, [step |-> "keys", next |-> at[c].next])
  /\ UNCHANGED <<plan, rows, run, authorized, armed, disturbed, series, left>>

ReadKeys(c) ==
  /\ at[c].step = "keys"
  /\ Goto(c, [step |-> "file", lines |-> Authorized(keys), next |-> at[c].next])
  /\ UNCHANGED <<plan, rows, run, derived, series, left>>

WriteFile(c) ==
  /\ at[c].step = "file"
  /\ authorized' = at[c].lines /\ Goto(c, at[c].next)
  /\ UNCHANGED <<plan, rows, run, access, keys, armed, disturbed, series, left>>

RemoveTimers(c) ==
  /\ at[c].step = "timers"
  /\ armed' = {} /\ Goto(c, [step |-> "arm", due |-> Due])
  /\ Begin(c, "timers")
  /\ UNCHANGED <<plan, rows, run, access, keys, authorized, series, left>>

AddTimer(c) ==
  /\ at[c].step = "arm"
  /\ IF at[c].due = {} THEN Goto(c, Idle) /\ UNCHANGED armed
     ELSE \E s \in at[c].due : armed' = armed \cup {s} /\ Goto(c, [step |-> "arm", due |-> at[c].due \ {s}])
  /\ UNCHANGED <<plan, rows, run, access, keys, authorized, disturbed, series, left>>

\* An error in any of it ends the request, and what was still to do is left.
SyncFails(c) ==
  /\ Unfinished(at[c]) # {} /\ Goto(c, Idle)
  /\ disturbed' = disturbed \cup Unfinished(at[c])
  /\ UNCHANGED <<plan, rows, run, access, keys, authorized, armed, series, left>>

-----------------------------------------------------------------------------
(* Runs and their history.                                                 *)

\* queue_job_action.
QueueRun(j, kind) ==
  LET i == NextId(Runs) IN
  /\ plan.runs /\ i \in RunId
  /\ repo[job[j].repo] = "on" /\ ~Busy(j)
  /\ kind = "backup" => Ready(job[j].host, job[j].repo)
  /\ run' = [run EXCEPT ![i] = [job |-> j, series |-> j, repo |-> job[j].repo,
                                kind |-> kind, status |-> "active", live |-> TRUE]]
  /\ UNCHANGED <<plan, rows, derived, series, at, left>>

\* The task of the run writes its result; a backup has written an archive.
EndRun(i) ==
  /\ run[i].live
  /\ \E s \in {"good", "failed"} :
       /\ run' = [run EXCEPT ![i].status = s, ![i].live = FALSE]
       /\ series' = series \cup (IF s = "good" /\ run[i].kind = "backup" THEN {run[i].series} ELSE {})
  /\ UNCHANGED <<plan, rows, derived, at, left>>

Finished == {i \in Runs : ~Active(i)}
Baseline(i) == run[i].kind = "backup" /\ run[i].status = "good" /\ run[i].job \in Jobs

\* Mutant: the newest backup of a job is kept, whatever came of it.
RetainedWhatever ==
  {i \in Runs : run[i].kind = "backup" /\ run[i].job \in Jobs /\
     \A k \in RunsOf(run[i].job) : run[k].kind = "backup" => k <= i}

\* retained_run_ids_for_existing_jobs.
Retained == {i \in Runs : Baseline(i) /\ \A k \in RunsOf(run[i].job) : Baseline(k) => k <= i}

Forget(ids) == run' = [i \in RunId |-> IF i \in ids THEN NoRun ELSE run[i]]

\* Runs before n are older than the retention time.
Outdated(n) == {i \in Finished : i < n} \ Retained

\* cleanup_run_history, of outdated or of all finished runs.
ReadCleanup(c) ==
  /\ May(c, "cleanup")
  /\ \/ \E n \in 2..(MaxRun + 1) : Read(c, "cleanup", Outdated(n), "outdated", Gone)
     \/ Read(c, "cleanup", Finished, "all", Gone)

CommitCleanup(c) ==
  /\ AtCommit(c, "cleanup")
  /\ Forget(at[c].id) /\ Goto(c, Idle)
  /\ UNCHANGED <<rows, derived>>

\* delete_execution.
ReadDeleteRun(c) ==
  \E i \in Finished \ Retained : May(c, "delete run") /\ Read(c, "delete run", {i}, Gone, Gone)

CommitDeleteRun(c) ==
  /\ AtCommit(c, "delete run")
  /\ Forget(at[c].id) /\ Goto(c, Idle)
  /\ UNCHANGED <<rows, derived>>

\* cleanup_manager_database: one transaction that begins with a write; runs
\* before n are more than 24 hours old.  Nothing is synchronised afterwards.
Maintain(c) ==
  /\ May(c, "maintain") /\ Count(c)
  /\ \E n \in 1..(MaxRun + 1) :
       run' = [i \in RunId |-> IF Active(i) /\ i < n THEN [run[i] EXCEPT !.status = "failed"] ELSE run[i]]
  /\ sched' = [s \in Schedule |-> Trimmed(sched[s])]
  /\ UNCHANGED <<plan, host, repo, job, reserved, derived, series, at>>

\* The process ends at any point and starts again.
Restart ==
  /\ plan.restarts
  /\ LET closed == [i \in RunId |-> IF Active(i) THEN [run[i] EXCEPT !.status = "failed", !.live = FALSE]
                                    ELSE [run[i] EXCEPT !.live = FALSE]] IN
     \E n \in 1..(MaxRun + 1) :
       run' = [i \in RunId |-> IF i < n /\ i \notin Retained THEN NoRun ELSE closed[i]]
  /\ Reassign
  /\ at' = [c \in Client |-> Idle]
  /\ UNCHANGED <<plan, rows, series, left>>

-----------------------------------------------------------------------------
HostRequest(c) ==
  \/ CreateHost(c) \/ ReadHost(c) \/ CommitHost(c) \/ ReadEditHost(c) \/ CommitEditHost(c) \/ Revoke(c)
  \/ ReadDeleteHost(c) \/ CommitDeleteHost(c) \/ ReadAccess(c) \/ AskDevice(c) \/ CommitAccess(c)
RepoRequest(c) ==
  \/ CreateRepo(c) \/ EndImport(c) \/ ReadRepo(c) \/ CommitRepo(c)
  \/ ReadDeleteRepo(c) \/ CommitDeleteRepo(c)
ScheduleRequest(c) ==
  CreateSchedule(c) \/ ReadSchedule(c) \/ CommitSchedule(c) \/ DeleteSchedule(c)
JobRequest(c) ==
  \/ ReadCreateJob(c) \/ CommitCreateJob(c) \/ ReadJob(c) \/ CommitJob(c)
  \/ ReadEnableJob(c) \/ CommitEnableJob(c) \/ ReadDeleteJob(c) \/ CommitDeleteJob(c)
HistoryRequest(c) ==
  \/ ReadCleanup(c) \/ CommitCleanup(c) \/ ReadDeleteRun(c) \/ CommitDeleteRun(c) \/ Maintain(c)
Sync(c) ==
  \/ ReadRows(c) \/ WriteRows(c) \/ ReadKeys(c) \/ WriteFile(c)
  \/ RemoveTimers(c) \/ AddTimer(c) \/ SyncFails(c)

Next ==
  \/ \E c \in Client :
       \/ HostRequest(c) \/ RepoRequest(c) \/ ScheduleRequest(c) \/ JobRequest(c)
       \/ HistoryRequest(c) \/ Sync(c)
  \/ \E j \in Jobs, kind \in {"backup", "check"} : QueueRun(j, kind)
  \/ \E i \in Runs : EndRun(i)
  \/ Restart

Spec == Init /\ [][Next]_vars

-----------------------------------------------------------------------------
(***************************************************************************)
(* schedules.py:110: a backup job belongs to one enabled schedule at most, *)
(* however devices, repositories, jobs and schedules are edited, as long   *)
(* as no two requests edit the same row at the same time.                  *)
(***************************************************************************)
OneScheduleEach ==
  \A s, t \in Schedules :
    sched[s].on /\ sched[t].on /\ Targets(sched[s], job) \cap Targets(sched[t], job) # {} => s = t

(***************************************************************************)
(* service.py:349: as long as no request has access to bring up to date, a *)
(* device has access to the repositories its jobs name and to no other, and*)
(* the repository server knows the keys of enabled devices for enabled     *)
(* repositories and no other; main.py:912: as long as none has the timers  *)
(* to, there are some for the schedules that have a job to start and for no*)
(* other.  Unless the last update failed or met another one, and after a   *)
(* restart in the middle of a request too.                                 *)
(***************************************************************************)
Reached(part) ==
  IF part = "access" THEN access = Wanted /\ authorized = Authorized(keys) ELSE armed = Due

InForce(part) == part \in disturbed \/ (\E c \in Client : part \in Unfinished(at[c])) \/ Reached(part)

AssignmentsInForce == keys \subseteq access /\ InForce("access") /\ InForce("timers")

(***************************************************************************)
(* models.py:93: a new job never continues the archive series of an older  *)
(* one, also if the older one, its runs and its record are gone.           *)
(***************************************************************************)
ArchiveSeriesFresh ==
  [][\A j \in series : job[j] = NoJob => job'[j] = NoJob]_vars

(***************************************************************************)
(* main.py:756: a job keeps its last good backup run as long as it exists, *)
(* whatever is cleaned up or deleted beside running and ending runs, unless*)
(* somebody deletes all finished runs.                                     *)
(***************************************************************************)
Kept(j) == j \in Jobs /\ \E i \in RunsOf(j) : Baseline(i)
AllDeleted ==
  \E c \in Client : at[c].step = "commit" /\ at[c].kind = "cleanup" /\ at[c].new = "all" /\ at'[c] = Idle

BaselineKept ==
  [][\A j \in JobId : Kept(j) /\ j \in Jobs' => Kept(j)' \/ AllDeleted]_vars
=============================================================================
