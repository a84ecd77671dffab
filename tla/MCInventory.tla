----------------------------- MODULE MCInventory -----------------------------
(***************************************************************************)
(* Plans of Inventory: two clients edit schedules and jobs, two work on    *)
(* jobs and their history, two on devices, repositories and their access,  *)
(* one client does everything else while jobs are created and the manager  *)
(* restarts.                                                               *)
(***************************************************************************)
EXTENDS Inventory, TLC

JobAt(h, r, on) == [host |-> h, repo |-> r, on |-> on]
Of(mode, ids, on) == [mode |-> mode, ids |-> ids, on |-> on]
Rows(f, none, S) == [i \in S |-> IF i \in DOMAIN f THEN f[i] ELSE none]

Base ==
  [host |-> Rows(1 :> "on" @@ 2 :> "on", Gone, Host),
   repo |-> Rows(1 :> "on" @@ 2 :> "on", Gone, Repo),
   job |-> Rows(1 :> JobAt(1, 1, TRUE), NoJob, JobId),
   sched |-> [s \in Schedule |-> NoSchedule],
   kinds |-> [c \in Client |-> {}], requests |-> [c \in Client |-> 3],
   schedules |-> {}, jobs |-> {JobAt(1, 1, TRUE)}, runs |-> FALSE, restarts |-> FALSE]

ScheduleKinds == {"create schedule", "schedule", "delete schedule"}

\* One client edits schedules while the other edits jobs.
SchedulesBesideJobs ==
  [Base EXCEPT !.kinds = "c" :> ScheduleKinds @@ "d" :> {"create job", "job", "enable job"},
     !.requests = "c" :> 3 @@ "d" :> 2,
     !.sched = Rows("s" :> Of("hosts", {2}, TRUE), NoSchedule, Schedule),
     !.schedules = {Of("jobs", {1}, TRUE), Of("repository", {1}, TRUE), Of("hosts", {1, 2}, FALSE)},
     !.jobs = {JobAt(1, 1, TRUE), JobAt(2, 2, TRUE)}]

\* Runs, their history and jobs that come and go.
History ==
  [Base EXCEPT !.kinds = "c" :> {"cleanup", "delete run"} @@
                         "d" :> {"create job", "delete job"},
     !.requests = "c" :> 2 @@ "d" :> 2, !.runs = TRUE, !.restarts = TRUE]

\* The same with the clean-up of the database instead.
Maintenance == [History EXCEPT !.kinds["c"] = {"maintain"}, !.requests["d"] = 3, !.restarts = FALSE]

\* What these plans have beside the same neighbours.
Elsewhere == {"host", "edit host", "access", "repo", "enable job", "cleanup", "delete run"}

\* One client does everything else, with restarts, while the other creates a job.
Everything ==
  [Base EXCEPT !.kinds = "c" :> Kinds \ Elsewhere @@ "d" :> {"create job"}, !.restarts = TRUE,
     !.requests = "c" :> 3 @@ "d" :> 1,
     !.repo = Rows(1 :> "on", Gone, Repo),
     !.sched = Rows("s" :> Of("hosts", {1}, TRUE), NoSchedule, Schedule),
     !.schedules = {Of("jobs", {1}, TRUE), Of("repository", {1}, TRUE)},
     !.jobs = {JobAt(1, 1, TRUE), JobAt(2, 2, TRUE)}]

\* Devices and their access beside repositories and jobs.
Places ==
  [Base EXCEPT !.kinds = "c" :> {"host", "edit host", "access"} @@ "d" :> {"repo", "job"},
     !.requests = "c" :> 2 @@ "d" :> 2,
     !.sched = Rows("s" :> Of("hosts", {1}, TRUE), NoSchedule, Schedule),
     !.jobs = {JobAt(1, 1, TRUE), JobAt(1, 2, TRUE)}]

MCPlans == {SchedulesBesideJobs, History, Maintenance, Places, Everything}
===============================================================================
