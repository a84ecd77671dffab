---------------------------- MODULE Inventory_proofs ----------------------------
(***************************************************************************)
(* Proofs about devices, repositories, jobs, schedules and the history, for*)
(* any plan, number of rows and clients: derived state is in force after   *)
(* every update that nothing disturbs and archive series are never         *)
(* continued, however requests overlap; a job is in one enabled schedule at*)
(* most and keeps its last good backup run as long as requests leave each  *)
(* other's rows alone.                                                     *)
(***************************************************************************)
EXTENDS Inventory, FiniteSetTheorems, WellFoundedInduction, TLAPS

Switch == {"on", "off"}

\* What a request that is to commit has read, by its kind.
RequestSound(r) ==
  /\ r.step \in AccessSteps => r.next.step \in {"idle", "timers", "ask"}
  /\ r.step = "commit" =>
    /\ r.kind \in {"host", "edit host", "repo"} => r.new \in Switch
    /\ r.kind = "host" /\ r.new = "on" => r.seen.jobs = {}
    /\ r.kind = "create job" => r.id \in JobId /\ r.new \in JobRow
    /\ r.kind = "job" => r.new \in JobRow /\ r.seen \in JobRow
    /\ r.kind = "enable job" => r.new \in BOOLEAN
    /\ r.kind = "schedule" => r.new \in ScheduleRow /\ r.new.mode # Gone /\ r.seen \in ScheduleRow
    /\ r.kind = "delete job" => r.seen \in [Schedule -> ScheduleRow]

Types ==
  /\ plan \in Plans
  /\ host \in [Host -> Switch \cup {Gone}] /\ repo \in [Repo -> Switch \cup {Gone}]
  /\ job \in [JobId -> JobRow] /\ sched \in [Schedule -> ScheduleRow]
  /\ at = [c \in Client |-> at[c]]
  /\ \A c \in Client : RequestSound(at[c])

\* The foreign keys of jobs, and that only rows of access hold keys.
RowsSound ==
  /\ \A j \in Jobs : job[j].host \in Hosts /\ job[j].repo \in Repos
  /\ keys \subseteq access

TablesInv == Types /\ RowsSound

(***************************************************************************)
(* An update of access that nothing else disturbs: what it has read or     *)
(* written is what is wanted, step by step; so for the timers.             *)
(***************************************************************************)
OnTheWay(r) ==
  /\ r.step = "rows" => r.want = Wanted /\ r.have = access
  /\ r.step \in {"keys", "file"} => access = Wanted
  /\ r.step = "file" => r.lines = Authorized(keys)
  /\ r.step = "arm" => armed \cup r.due = Due

Alone(part) == \A c, d \in Client : part \in Within(at[c]) /\ part \in Within(at[d]) => c = d

(***************************************************************************)
(* A part is in force unless its last update was disturbed, a request has  *)
(* still to begin one, or the only one that is under way is on its way.    *)
(***************************************************************************)
Awaited(part) == \E c \in Client : part \in Unfinished(at[c]) \ Within(at[c])

PartInv(part) ==
  \/ part \in disturbed
  \/ Awaited(part)
  \/ /\ Alone(part) /\ InForce(part)
     /\ \A c \in Client : part \in Within(at[c]) => OnTheWay(at[c])

DerivedInv == PartInv("access") /\ PartInv("timers")

(***************************************************************************)
(* Whatever refers to a job, now or formerly, has its id reserved.         *)
(***************************************************************************)
ReservedInv ==
  /\ Jobs \subseteq reserved /\ series \subseteq reserved /\ reserved \subseteq JobId
  /\ \A i \in Runs : run[i].series \in reserved

(***************************************************************************)
(* No two clients edit one schedule or one job at the same time, where     *)
(* deleting a job edits the schedules that name it.                        *)
(***************************************************************************)
RowsApart ==
  \A c, d \in Client : c # d =>
    /\ "schedule" \in plan.kinds[c] =>
         plan.kinds[d] \cap {"schedule", "create schedule", "delete job"} = {}
    /\ "delete job" \in plan.kinds[c] => "create schedule" \notin plan.kinds[d]
    /\ "job" \in plan.kinds[c] => "job" \notin plan.kinds[d]

\* What a request has read still holds, up to rows that were deleted since.
ScheduleRead(r) ==
  r.kind = "schedule" /\ r.id \in Schedules =>
    /\ sched[r.id].mode = r.seen.mode /\ sched[r.id].ids \subseteq r.seen.ids
    /\ sched[r.id].on => r.seen.on

JobRead(r) ==
  r.kind = "job" =>
    /\ r.id \in reserved
    /\ r.id \in Jobs => job[r.id].host = r.seen.host /\ job[r.id].repo = r.seen.repo

ListsRead(r) ==
  r.kind = "delete job" =>
    \A s \in Schedule : r.seen[s].mode = "jobs" =>
      /\ r.seen[s].ids \subseteq reserved
      /\ sched[s].mode = "jobs" => r.seen[s].ids \cap Jobs = sched[s].ids \cap Jobs

StillRead(r) == r.step = "commit" => ScheduleRead(r) /\ JobRead(r) /\ ListsRead(r)

\* The kind of a request is one its client makes; access is granted by asking.
OfItsKind ==
  \A c \in Client : at[c].step = "commit" /\ at[c].kind # "access" => at[c].kind \in plan.kinds[c]

ScheduleInv ==
  /\ OneScheduleEach /\ OfItsKind
  /\ \A s \in Schedule : sched[s].mode = "jobs" => sched[s].ids \subseteq reserved
  /\ \A c \in Client : StillRead(at[c])

(***************************************************************************)
(* One client at most cleans up the history while jobs run, and not with   *)
(* the database, which takes old runs for failed that are still at work.   *)
(***************************************************************************)
Cleans(c) == plan.kinds[c] \cap {"cleanup", "delete run"} # {}

HistoryApart ==
  plan.runs =>
    \A c, d \in Client :
      Cleans(c) => "maintain" \notin plan.kinds[d] /\ (Cleans(d) => c = d)

\* What is about to be forgotten is over, and leaves each job a good backup run.
Spares(r) ==
  r.step = "commit" /\ r.kind \in {"cleanup", "delete run"} =>
    /\ r.id \subseteq Runs
    /\ \A i \in r.id : ~Active(i) /\ ~run[i].live
    /\ r.kind = "delete run" \/ r.new # "all" =>
         \A j \in Jobs : Kept(j) => \E i \in RunsOf(j) \ r.id : Baseline(i)

RunRow == [job : 0..MaxJob, series : 0..MaxJob, repo : 0..MaxRepo, kind : {"backup", "check"},
           status : {"active", "good", "failed"}, live : BOOLEAN]

RunTypes == run \in [RunId -> RunRow \cup {NoRun}]

Maintains == \E c \in Client : "maintain" \in plan.kinds[c]

\* A run at work is active, unless its row was taken for failed.
RunsSound ==
  /\ RunTypes
  /\ \A i \in Runs : run[i].job # 0 => run[i].job \in Jobs
  /\ \A i \in Runs : run[i].live => run[i].status # "good"
  /\ ~plan.runs => Runs = {}
  /\ ~Maintains => \A i \in Runs : run[i].live <=> Active(i)

HistoryInv == OfItsKind /\ \A c \in Client : Spares(at[c])

-----------------------------------------------------------------------------
(* Numbers.                                                                *)

\* Every set of numbers has a smallest one.
LEMMA NatMin ==
  ASSUME NEW S \in SUBSET Nat, S # {}
  PROVE  \E m \in S : \A n \in S : m <= n
<1> DEFINE R == OpToRel(<, Nat)
<1>1. IsWellFoundedOn(R, Nat)
  BY NatLessThanWellFounded, Zenon
<1> HIDE DEF R
<1>2. PICK m \in S : \A n \in S : ~(<<n, m>> \in R)
  BY <1>1, WFMin
<1>3. \A n \in S : ~(n < m)
  BY <1>2 DEF R, OpToRel
<1>4. QED
  BY <1>3

\* A set of numbers up to a bound has a greatest one.
LEMMA Greatest ==
  ASSUME NEW N \in Nat, NEW S \in SUBSET (0..N), S # {}
  PROVE  \E m \in S : \A n \in S : n <= m
<1> DEFINE T == {k \in Nat : \E n \in S : k = N - n}
<1>1. T \in SUBSET Nat /\ T # {}
  <2>1. PICK n \in S : TRUE
    OBVIOUS
  <2>2. N - n \in T
    BY <2>1
  <2>3. QED
    BY <2>2
<1>2. PICK k \in T : \A l \in T : k <= l
  BY <1>1, NatMin
<1>3. PICK m \in S : k = N - m
  BY <1>2
<1>4. \A n \in S : n <= m
  <2>1. TAKE n \in S
  <2>2. N - n \in T
    OBVIOUS
  <2>3. QED
    BY <1>2, <1>3, <2>2
<1>5. QED
  BY <1>4

\* The id of a new row is not that of another row.
LEMMA NextIdFresh ==
  ASSUME NEW N \in Nat, NEW S \in SUBSET (1..N)
  PROVE  NextId(S) \notin S
<1> DEFINE T == S \cup {0}
<1>1. T \in SUBSET (0..N) /\ T # {}
  OBVIOUS
<1>2. \E m \in T : \A n \in T : m >= n
  BY <1>1, Greatest
<1>3. PICK m \in T : m = Max(T) /\ \A n \in T : m >= n
  BY <1>2 DEF Max
<1>4. \A n \in S : n \in Nat /\ n < 1 + m
  BY <1>1, <1>3
<1>5. NextId(S) = 1 + m
  BY <1>3 DEF NextId
<1>6. QED
  BY <1>4, <1>5

-----------------------------------------------------------------------------
(* Tables: types, foreign keys and requests.                               *)

LEMMA InitTables == Init => TablesInv
<1> SUFFICES ASSUME Init PROVE TablesInv
  OBVIOUS
<1>1. /\ plan.host \in [Host -> Switch \cup {Gone}] /\ plan.repo \in [Repo -> Switch \cup {Gone}]
      /\ plan.job \in [JobId -> JobRow] /\ plan.sched \in [Schedule -> ScheduleRow]
  BY PlanAssumption DEF Init, Switch
<1>2. at = [c \in Client |-> at[c]] /\ \A c \in Client : RequestSound(at[c])
  BY DEF Init, Idle, RequestSound, AccessSteps
<1>3. Types
  BY <1>1, <1>2 DEF Init, Types
<1>4. \A j \in JobId : plan.job[j] # NoJob =>
        /\ plan.job[j].host \in Host /\ plan.host[plan.job[j].host] # Gone
        /\ plan.job[j].repo \in Repo /\ plan.repo[plan.job[j].repo] # Gone
  BY PlanAssumption DEF Init
<1>5. RowsSound
  BY <1>4 DEF Init, RowsSound, Jobs, Hosts, Repos
<1>6. QED
  BY <1>3, <1>5 DEF TablesInv

\* One request goes on to r.
LEMMA GoesOn ==
  ASSUME Types, NEW c \in Client, NEW r, Goto(c, r), RequestSound(r)
  PROVE  at' = [d \in Client |-> at'[d]] /\ \A d \in Client : RequestSound(at'[d])
<1>1. at' = [at EXCEPT ![c] = r] /\ at = [d \in Client |-> at[d]]
  BY DEF Goto, Types
<1>2. \A d \in Client : at'[d] = IF d = c THEN r ELSE at[d]
  BY <1>1
<1>3. at' = [d \in Client |-> at'[d]]
  BY <1>1
<1>4. QED
  BY <1>2, <1>3 DEF Types

LEMMA PlacesSound ==
  /\ RequestSound(Idle) /\ RequestSound(Timers)
  /\ RequestSound([step |-> "assign", next |-> Idle]) /\ RequestSound([step |-> "assign", next |-> Timers])
  /\ \A i : /\ RequestSound([step |-> "import", id |-> i])
            /\ RequestSound([step |-> "commit", kind |-> "access", id |-> i])
            /\ RequestSound([step |-> "assign", next |-> [step |-> "ask", id |-> i]])
            /\ RequestSound([step |-> "revoke", id |-> i, next |-> Idle])
            /\ RequestSound([step |-> "revoke", id |-> i, next |-> Timers])
BY DEF RequestSound, Idle, Timers, AccessSteps

LEMMA AssignSound ==
  ASSUME NEW r, RequestSound(r), r.step \in AccessSteps
  PROVE  /\ RequestSound([step |-> "assign", next |-> r.next]) /\ RequestSound([step |-> "keys", next |-> r.next])
         /\ \A x, y : RequestSound([step |-> "rows", want |-> x, have |-> y, next |-> r.next])
         /\ \A x : RequestSound([step |-> "file", lines |-> x, next |-> r.next])
BY DEF RequestSound, AccessSteps

\* What leaves the rows of jobs alone and no access of a device without its row.
LEMMA RowsLeft ==
  ASSUME TablesInv, UNCHANGED <<plan, host, repo, job>>, sched' \in [Schedule -> ScheduleRow],
         at' = [d \in Client |-> at'[d]], \A d \in Client : RequestSound(at'[d]),
         keys' \subseteq access'
  PROVE  TablesInv'
<1>1. Types'
  BY DEF TablesInv, Types
<1>2. RowsSound'
  BY DEF TablesInv, RowsSound, Jobs, Hosts, Repos
<1>3. QED
  BY <1>1, <1>2 DEF TablesInv

LEMMA ReadsKeepTables ==
  ASSUME TablesInv, NEW c \in Client,
         \/ ReadHost(c) \/ ReadEditHost(c) \/ ReadDeleteHost(c) \/ ReadRepo(c) \/ ReadDeleteRepo(c)
         \/ ReadSchedule(c)
         \/ ReadCreateJob(c) \/ ReadJob(c) \/ ReadEnableJob(c) \/ ReadDeleteJob(c)
         \/ ReadCleanup(c) \/ ReadDeleteRun(c)
  PROVE  TablesInv'
<1> DEFINE R(k, i, n, s) == [step |-> "commit", kind |-> k, id |-> i, new |-> n, seen |-> s]
<1>0. ASSUME NEW k, NEW i, NEW n, NEW s, Read(c, k, i, n, s), RequestSound(R(k, i, n, s))
      PROVE TablesInv'
  <2>1. at' = [d \in Client |-> at'[d]] /\ \A d \in Client : RequestSound(at'[d])
    BY <1>0, GoesOn DEF Read, TablesInv
  <2>2. UNCHANGED <<plan, host, repo, job, sched, access, keys>>
    BY <1>0 DEF Read, rows, derived
  <2>3. QED
    BY <2>1, <2>2, RowsLeft DEF TablesInv, Types, RowsSound
<1> USE DEF AccessSteps
<1>1. CASE ReadHost(c) \/ ReadEditHost(c)
  <2>1. \A h, s, o : s \in Switch => /\ RequestSound(R("edit host", h, s, o))
                                    /\ RequestSound(R("host", h, s, [on |-> o, jobs |-> DisabledBy(h, s)]))
    BY DEF RequestSound, DisabledBy
  <2>2. CASE ReadHost(c)
    <3>1. PICK h \in Hosts, s \in Switch :
            Read(c, "host", h, s, [on |-> host[h], jobs |-> DisabledBy(h, s)])
      BY <2>2 DEF ReadHost, Switch
    <3>2. QED
      BY <1>0, <2>1, <3>1
  <2>3. CASE ReadEditHost(c)
    <3>1. PICK h \in Hosts, s \in Switch : Read(c, "edit host", h, s, host[h])
      BY <2>3 DEF ReadEditHost, Switch
    <3>2. QED
      BY <1>0, <2>1, <3>1
  <2>4. QED
    BY <1>1, <2>2, <2>3
<1>2. CASE ReadDeleteHost(c)
  BY <1>2, <1>0 DEF ReadDeleteHost, RequestSound
<1>3. CASE ReadRepo(c)
  BY <1>3, <1>0 DEF ReadRepo, RequestSound, Switch
<1>4. CASE ReadDeleteRepo(c)
  BY <1>4, <1>0 DEF ReadDeleteRepo, RequestSound
<1>5. CASE ReadSchedule(c)
  <2>1. PICK s \in Schedules, t \in plan.schedules : Read(c, "schedule", s, t, sched[s])
    BY <1>5 DEF ReadSchedule
  <2>2. t \in ScheduleRow /\ t.mode # Gone /\ sched[s] \in ScheduleRow
    BY <2>1, PlanAssumption DEF TablesInv, Types, Schedules, Mode, Gone
  <2>3. QED
    BY <2>1, <2>2, <1>0 DEF RequestSound
<1>6. CASE ReadCreateJob(c)
  <2>1. PICK new \in plan.jobs : Read(c, "create job", NewJobId, new, NoJob) /\ NewJobId \in JobId
    BY <1>6 DEF ReadCreateJob
  <2>2. new \in JobRow
    BY <2>1, PlanAssumption DEF TablesInv, Types
  <2>3. QED
    BY <2>1, <2>2, <1>0 DEF RequestSound
<1>7. CASE ReadJob(c)
  <2>1. PICK j \in Jobs, new \in plan.jobs : Read(c, "job", j, new, job[j])
    BY <1>7 DEF ReadJob
  <2>2. new \in JobRow /\ job[j] \in JobRow
    BY <2>1, PlanAssumption DEF TablesInv, Types, Jobs
  <2>3. QED
    BY <2>1, <2>2, <1>0 DEF RequestSound
<1>8. CASE ReadEnableJob(c)
  BY <1>8, <1>0 DEF ReadEnableJob, RequestSound
<1>9. CASE ReadDeleteJob(c)
  BY <1>9, <1>0 DEF ReadDeleteJob, RequestSound, TablesInv, Types
<1>10. CASE ReadCleanup(c)
  BY <1>10, <1>0 DEF ReadCleanup, RequestSound
<1>11. CASE ReadDeleteRun(c)
  BY <1>11, <1>0 DEF ReadDeleteRun, RequestSound
<1>12. QED
  BY <1>1, <1>2, <1>3, <1>4, <1>5, <1>6, <1>7, <1>8, <1>9, <1>10, <1>11
\* A row that is written has of each column what was read or what is new.
LEMMA WrittenSchedule ==
  ASSUME NEW now \in ScheduleRow, NEW seen \in ScheduleRow, NEW new \in ScheduleRow
  PROVE  /\ Written(now, seen, new) \in ScheduleRow
         /\ Written(now, seen, new).mode = IF new.mode = seen.mode THEN now.mode ELSE new.mode
         /\ Written(now, seen, new).ids = IF new.ids = seen.ids THEN now.ids ELSE new.ids
         /\ Written(now, seen, new).on = IF new.on = seen.on THEN now.on ELSE new.on
<1>1. DOMAIN now = {"mode", "ids", "on"}
  BY DEF ScheduleRow
<1>2. Written(now, seen, new) =
        [mode |-> IF new.mode = seen.mode THEN now.mode ELSE new.mode,
         ids |-> IF new.ids = seen.ids THEN now.ids ELSE new.ids,
         on |-> IF new.on = seen.on THEN now.on ELSE new.on]
  BY <1>1 DEF Written
<1>3. QED
  BY <1>2 DEF ScheduleRow

LEMMA WrittenJob ==
  ASSUME NEW now \in JobRow, NEW seen \in JobRow, NEW new \in JobRow
  PROVE  /\ Written(now, seen, new) \in JobRow
         /\ Written(now, seen, new).host = IF new.host = seen.host THEN now.host ELSE new.host
         /\ Written(now, seen, new).repo = IF new.repo = seen.repo THEN now.repo ELSE new.repo
<1>1. DOMAIN now = {"host", "repo", "on"}
  BY DEF JobRow
<1>2. Written(now, seen, new) =
        [host |-> IF new.host = seen.host THEN now.host ELSE new.host,
         repo |-> IF new.repo = seen.repo THEN now.repo ELSE new.repo,
         on |-> IF new.on = seen.on THEN now.on ELSE new.on]
  BY <1>1 DEF Written
<1>3. QED
  BY <1>2 DEF JobRow

LEMMA NoRows ==
  NoSchedule \in ScheduleRow /\ NoJob \in JobRow /\ NoJob.host = 0 /\ NoJob.repo = 0 /\ ~NoSchedule.on
BY SizeAssumption DEF NoSchedule, NoJob, ScheduleRow, JobRow

LEMMA WithoutIs ==
  ASSUME NEW mode, NEW i, NEW from, NEW s \in Schedule
  PROVE  \/ Without(mode, i, from)[s] = sched[s] \/ Without(mode, i, from)[s] = NoSchedule
         \/ /\ from[s].mode = mode /\ sched[s].mode = mode
            /\ Without(mode, i, from)[s] = [sched[s] EXCEPT !.ids = from[s].ids \ {i}]
<1> DEFINE u == [sched[s] EXCEPT !.ids = from[s].ids \ {i}]
<1>1. Without(mode, i, from)[s] =
        IF from[s].mode # mode \/ i \notin from[s].ids THEN sched[s]
        ELSE IF from[s].ids = {i} THEN NoSchedule
        ELSE IF sched[s].mode # mode THEN sched[s] ELSE u
  BY DEF Without
<1> HIDE DEF u
<1>2. \/ Without(mode, i, from)[s] = sched[s] \/ Without(mode, i, from)[s] = NoSchedule
      \/ from[s].mode = mode /\ sched[s].mode = mode /\ Without(mode, i, from)[s] = u
  BY <1>1
<1>3. QED
  BY <1>2 DEF u

LEMMA WithoutTyped ==
  ASSUME sched \in [Schedule -> ScheduleRow], NEW from \in [Schedule -> ScheduleRow], NEW mode, NEW i
  PROVE  Without(mode, i, from) \in [Schedule -> ScheduleRow]
<1>1. ASSUME NEW s \in Schedule
      PROVE [sched[s] EXCEPT !.ids = from[s].ids \ {i}] \in ScheduleRow
  <2>1. sched[s] \in ScheduleRow /\ from[s] \in ScheduleRow
    OBVIOUS
  <2>2. from[s].ids \ {i} \in SUBSET Nat
    BY <2>1 DEF ScheduleRow
  <2>3. QED
    BY <2>1, <2>2 DEF ScheduleRow
<1>2. QED
  BY <1>1, NoRows DEF Without

LEMMA TrimmedIs ==
  ASSUME NEW t \in ScheduleRow
  PROVE  /\ Trimmed(t) \in ScheduleRow /\ Trimmed(t).mode = t.mode
         /\ Trimmed(t).ids = t.ids \cap Named(t.mode)
         /\ Trimmed(t).on <=> t.on /\ (Trimmed(t).ids = t.ids \/ Trimmed(t).ids # {})
BY DEF Trimmed, ScheduleRow

LEMMA RefuseKeepsTables ==
  ASSUME TablesInv, NEW c \in Client, Refuse(c), UNCHANGED plan
  PROVE  TablesInv'
<1>1. at' = [d \in Client |-> at'[d]] /\ \A d \in Client : RequestSound(at'[d])
  BY GoesOn, PlacesSound DEF Refuse, TablesInv
<1>2. QED
  BY <1>1, RowsLeft DEF Refuse, rows, derived, TablesInv, Types, RowsSound

\* A device is switched, with jobs there are; access is to be brought up to date,
\* and the timers, unless nothing changes.
LEMMA HostCommits ==
  ASSUME Types, NEW c \in Client, CommitHost(c) \/ CommitEditHost(c), ~Refuse(c)
  PROVE  \E h \in Hosts, s \in Switch, jobs \in SUBSET Jobs : \E seen, r :
           /\ SetEnabled(h, s, seen, jobs) /\ Goto(c, r) /\ RequestSound(r)
           /\ UNCHANGED <<plan, left, series>>
           /\ "access" \in Unfinished(r) /\ Within(r) = {}
           /\ "timers" \in Unfinished(r) \/ UNCHANGED <<host, job>>
<1> DEFINE A(n) == [step |-> "assign", next |-> n]
           V(i, n) == [step |-> "revoke", id |-> i, next |-> n]
<1>0. /\ RequestSound(A(Idle)) /\ RequestSound(A(Timers))
      /\ \A i : RequestSound(V(i, Idle)) /\ RequestSound(V(i, Timers))
  BY PlacesSound
<1>1. /\ Within(A(Idle)) = {} /\ Within(A(Timers)) = {}
      /\ \A i : Within(V(i, Idle)) = {} /\ Within(V(i, Timers)) = {}
  BY DEF Within
<1>2. /\ Unfinished(A(Idle)) = {"access"} /\ Unfinished(A(Timers)) = {"access", "timers"}
      /\ \A i : /\ Unfinished(V(i, Idle)) = {"access"}
                /\ Unfinished(V(i, Timers)) = {"access", "timers"}
  BY DEF Unfinished, AccessSteps, Idle, Timers
<1> HIDE DEF A, V
<1>3. at[c].step = "commit" /\ RequestSound(at[c]) /\ at[c].new \in Switch /\ at[c].id \in Hosts
  BY DEF CommitHost, CommitEditHost, AtCommit, Types, RequestSound
<1>4. ASSUME NEW seen, SetEnabled(at[c].id, "on", seen, {}), seen = "on"
      PROVE UNCHANGED <<host, job>>
  BY <1>4 DEF SetEnabled, Types
<1>5. UNCHANGED <<plan, left, series>>
  BY DEF CommitHost, CommitEditHost, AtCommit
<1>6. CASE CommitHost(c)
  <2>1. /\ SetEnabled(at[c].id, at[c].new, at[c].seen.on, at[c].seen.jobs) /\ at[c].seen.jobs \subseteq Jobs
        /\ \/ Goto(c, A(Timers))
           \/ at[c].new = at[c].seen.on /\ at[c].new = "on" /\ Goto(c, A(Idle))
    BY <1>6 DEF CommitHost, SyncAll, Assign, A
  <2>2. at[c].new = "on" => at[c].seen.jobs = {}
    BY <1>3, <1>6 DEF CommitHost, AtCommit, RequestSound
  <2>3. CASE Goto(c, A(Timers))
    BY <1>0, <1>1, <1>2, <1>3, <1>5, <2>1, <2>3
  <2>4. CASE Goto(c, A(Idle)) /\ at[c].new = at[c].seen.on /\ at[c].new = "on"
    <3>1. UNCHANGED <<host, job>>
      BY <1>4, <2>1, <2>2, <2>4
    <3>2. QED
      BY <1>0, <1>1, <1>2, <1>3, <1>5, <2>1, <2>4, <3>1
  <2>5. QED
    BY <2>1, <2>3, <2>4
<1>7. CASE CommitEditHost(c)
  <2> DEFINE jobs == DisabledBy(at[c].id, at[c].new)
  <2>1. jobs \subseteq Jobs /\ (at[c].new = "on" => jobs = {})
    BY DEF DisabledBy, JobsOn
  <2>2. PICK n \in {Idle, Timers} :
          /\ n = Idle => at[c].new = at[c].seen /\ at[c].new = "on"
          /\ Goto(c, A(n)) \/ Goto(c, V(at[c].id, n))
          /\ SetEnabled(at[c].id, at[c].new, at[c].seen, jobs)
    BY <1>3, <1>7 DEF CommitEditHost, Assign, A, V, Idle, Timers, Switch
  <2> HIDE DEF jobs
  <2>3. PICK r \in {A(n), V(at[c].id, n)} : Goto(c, r)
    BY <2>2
  <2>4. CASE n = Timers
    BY <1>0, <1>1, <1>2, <1>3, <1>5, <2>1, <2>2, <2>3, <2>4
  <2>5. CASE n = Idle
    <3>1. UNCHANGED <<host, job>>
      BY <1>4, <2>1, <2>2, <2>5
    <3>2. QED
      BY <1>0, <1>1, <1>2, <1>3, <1>5, <2>1, <2>2, <2>3, <2>5, <3>1
  <2>6. QED
    BY <2>2, <2>4, <2>5
<1>8. QED
  BY <1>6, <1>7

\* Switching off jobs there are changes neither which there are nor their places.
LEMMA SwitchedJobs ==
  ASSUME TablesInv, NEW h, NEW s, NEW seen, NEW jobs \in SUBSET Jobs, SetEnabled(h, s, seen, jobs)
  PROVE  /\ job' \in [JobId -> JobRow] /\ Jobs' = Jobs
         /\ \A j \in JobId : job'[j].host = job[j].host /\ job'[j].repo = job[j].repo
         /\ \A j \in JobId : job[j] = NoJob => job'[j] = NoJob
<1>0. job \in [JobId -> JobRow]
  BY DEF TablesInv, Types
<1>1. \A j \in JobId : job'[j] = IF j \in jobs THEN [job[j] EXCEPT !.on = FALSE] ELSE job[j]
  BY DEF SetEnabled
<1>2. \A row \in JobRow : /\ [row EXCEPT !.on = FALSE] \in JobRow
                         /\ [row EXCEPT !.on = FALSE].host = row.host
                         /\ [row EXCEPT !.on = FALSE].repo = row.repo
  BY DEF JobRow
<1>3. job' \in [JobId -> JobRow]
  BY <1>0, <1>1, <1>2 DEF SetEnabled
<1>4. \A j \in JobId : job'[j].host = job[j].host /\ job'[j].repo = job[j].repo
  BY <1>0, <1>1, <1>2
<1>5. \A j \in JobId : job[j] = NoJob => job'[j] = NoJob
  BY <1>1 DEF Jobs
<1>6. ASSUME NEW j \in JobId, job[j] # NoJob
      PROVE job'[j] # NoJob
  BY <1>4, <1>6, NoRows DEF TablesInv, RowsSound, Jobs, Hosts, Host
<1>7. QED
  BY <1>3, <1>4, <1>5, <1>6 DEF Jobs

LEMMA HostsKeepTables ==
  ASSUME TablesInv, NEW c \in Client,
         CreateHost(c) \/ CommitHost(c) \/ CommitEditHost(c) \/ Revoke(c) \/ CommitDeleteHost(c)
  PROVE  TablesInv'
<1>1. CASE CreateHost(c)
  <2>1. PICK h \in Host, s \in Switch : host' = [host EXCEPT ![h] = s]
    BY <1>1 DEF CreateHost, Switch
  <2>2. UNCHANGED <<plan, repo, job, sched, access, keys, at>>
    BY <1>1 DEF CreateHost, derived
  <2>3. host' \in [Host -> Switch \cup {Gone}] /\ Hosts \subseteq Hosts'
    BY <2>1 DEF TablesInv, Types, Hosts, Switch, Gone
  <2>4. Types'
    BY <2>2, <2>3 DEF TablesInv, Types
  <2>5. RowsSound'
    BY <2>2, <2>3 DEF TablesInv, RowsSound, Jobs, Repos
  <2>6. QED
    BY <2>4, <2>5 DEF TablesInv
<1>2. CASE (CommitHost(c) \/ CommitEditHost(c)) /\ ~Refuse(c)
  <2>0. PICK h \in Hosts, s \in Switch, jobs \in SUBSET Jobs : \E seen, r :
          SetEnabled(h, s, seen, jobs) /\ Goto(c, r) /\ RequestSound(r) /\ UNCHANGED plan
    BY <1>2, HostCommits DEF TablesInv
  <2>1. PICK seen, r : SetEnabled(h, s, seen, jobs) /\ Goto(c, r) /\ RequestSound(r) /\ UNCHANGED plan
    BY <2>0
  <2>2. at' = [d \in Client |-> at'[d]] /\ \A d \in Client : RequestSound(at'[d])
    BY <2>1, GoesOn DEF TablesInv
  <2>3. host' \in [Host -> Switch \cup {Gone}] /\ Hosts' = Hosts
    BY <2>1 DEF SetEnabled, TablesInv, Types, Hosts, Switch, Gone
  <2>4. /\ job' \in [JobId -> JobRow] /\ Jobs' = Jobs
        /\ \A j \in JobId : job'[j].host = job[j].host /\ job'[j].repo = job[j].repo
    BY <2>1, SwitchedJobs
  <2>5. UNCHANGED <<plan, repo, sched, access, keys>>
    BY <2>1 DEF SetEnabled, derived
  <2>6. Types'
    BY <2>2, <2>3, <2>4, <2>5 DEF TablesInv, Types
  <2>7. RowsSound'
    BY <2>3, <2>4, <2>5 DEF TablesInv, RowsSound, Jobs, Repos
  <2>8. QED
    BY <2>6, <2>7 DEF TablesInv
<1>3. CASE Revoke(c)
  <2>0. RequestSound([step |-> "assign", next |-> at[c].next])
    BY <1>3, AssignSound DEF Revoke, TablesInv, Types, AccessSteps
  <2>1. at' = [d \in Client |-> at'[d]] /\ \A d \in Client : RequestSound(at'[d])
    BY <1>3, <2>0, GoesOn DEF Revoke, Assign, TablesInv
  <2>2. keys' \subseteq access'
    BY <1>3 DEF Revoke, TablesInv, RowsSound
  <2>3. QED
    BY <1>3, <2>1, <2>2, RowsLeft DEF Revoke, rows, TablesInv, Types
<1>4. CASE CommitDeleteHost(c)
  <2>1. CASE Refuse(c)
    BY <1>4, <2>1, RefuseKeepsTables DEF CommitDeleteHost, AtCommit
  <2>2. CASE ~Refuse(c)
    <3>1. /\ at[c].id \in Hosts /\ JobsOn(at[c].id) = {}
          /\ host' = [host EXCEPT ![at[c].id] = Gone]
          /\ sched' = Without("hosts", at[c].id, sched)
          /\ access' = {p \in access : p[1] # at[c].id} /\ keys' = {p \in keys : p[1] # at[c].id}
          /\ SyncAll(c) /\ UNCHANGED <<plan, repo, job>>
      BY <1>4, <2>2 DEF CommitDeleteHost, AtCommit
    <3>2. at' = [d \in Client |-> at'[d]] /\ \A d \in Client : RequestSound(at'[d])
      BY <3>1, GoesOn, PlacesSound DEF SyncAll, SyncTimers, Assign, TablesInv
    <3>3. Types'
      BY <3>1, <3>2, WithoutTyped DEF TablesInv, Types
    <3>4. \A h \in Hosts : h # at[c].id => h \in Hosts'
      BY <3>1 DEF TablesInv, Types, Hosts
    <3>5. RowsSound'
      BY <3>1, <3>4 DEF TablesInv, RowsSound, Jobs, Repos, JobsOn
    <3>6. QED
      BY <3>3, <3>5 DEF TablesInv
  <2>3. QED
    BY <2>1, <2>2
<1>5. CASE (CommitHost(c) \/ CommitEditHost(c)) /\ Refuse(c)
  BY <1>5, RefuseKeepsTables DEF CommitHost, CommitEditHost, AtCommit
<1>6. QED
  BY <1>1, <1>2, <1>3, <1>4, <1>5

LEMMA AccessKeepsTables ==
  ASSUME TablesInv, NEW c \in Client, ReadAccess(c) \/ AskDevice(c) \/ CommitAccess(c)
  PROVE  TablesInv'
<1>1. at' = [d \in Client |-> at'[d]] /\ \A d \in Client : RequestSound(at'[d])
  BY GoesOn, PlacesSound DEF ReadAccess, AskDevice, CommitAccess, Assign, TablesInv
<1>2. keys' \subseteq access' /\ UNCHANGED <<plan, host, repo, job, sched>>
  BY DEF ReadAccess, AskDevice, CommitAccess, AtCommit, rows, derived, TablesInv, RowsSound
<1>3. QED
  BY <1>1, <1>2, RowsLeft DEF TablesInv, Types

\* An update of derived state touches no rows but those of access.
LEMMA SyncsLeave ==
  ASSUME NEW c \in Client, Sync(c)
  PROVE  UNCHANGED <<plan, host, repo, job, sched, reserved, run, series, left>>
BY DEF Sync, ReadRows, WriteRows, ReadKeys, WriteFile, RemoveTimers, AddTimer, SyncFails, rows

LEMMA SyncsLeaveRows ==
  ASSUME TablesInv, NEW c \in Client, Sync(c)
  PROVE  /\ UNCHANGED <<plan, host, repo, job, sched, reserved, run, series, left>>
         /\ keys' \subseteq access' /\ \E r : Goto(c, r) /\ RequestSound(r) /\ r.step # "commit"
<1>0. keys \subseteq access /\ RequestSound(at[c])
  BY DEF TablesInv, RowsSound, Types
<1>1. /\ RequestSound(Idle) /\ Idle.step # "commit"
      /\ \A x : RequestSound([step |-> "arm", due |-> x]) /\ [step |-> "arm", due |-> x].step # "commit"
      /\ \A x, y, n : [step |-> "rows", want |-> x, have |-> y, next |-> n].step # "commit"
      /\ \A n : [step |-> "keys", next |-> n].step # "commit"
      /\ \A x, n : [step |-> "file", lines |-> x, next |-> n].step # "commit"
  BY DEF Idle, RequestSound, AccessSteps
<1>2. CASE ReadRows(c)
  <2>1. /\ at[c].step \in AccessSteps /\ UNCHANGED <<plan, rows, run, access, keys, series, left>>
        /\ Goto(c, [step |-> "rows", want |-> Wanted, have |-> access, next |-> at[c].next])
    BY <1>2 DEF ReadRows, AccessSteps
  <2>2. PICK r : r = at[c]
    OBVIOUS
  <2>3. /\ RequestSound([step |-> "keys", next |-> r.next])
        /\ \A x, y : RequestSound([step |-> "rows", want |-> x, have |-> y, next |-> r.next])
        /\ \A x : RequestSound([step |-> "file", lines |-> x, next |-> r.next])
    BY <1>0, <2>1, <2>2, AssignSound
  <2>4. QED
    BY <1>0, <1>1, <2>1, <2>2, <2>3 DEF rows
<1>3. CASE WriteRows(c)
  <2>1. /\ at[c].step \in AccessSteps /\ UNCHANGED <<plan, rows, run, series, left>>
        /\ Goto(c, [step |-> "keys", next |-> at[c].next])
    BY <1>3 DEF WriteRows, AccessSteps
  <2>2. keys' \subseteq access'
    BY <1>0, <1>3 DEF WriteRows
  <2>3. PICK r : r = at[c]
    OBVIOUS
  <2>4. RequestSound([step |-> "keys", next |-> r.next])
    BY <1>0, <2>1, <2>3, AssignSound
  <2>5. QED
    BY <1>0, <1>1, <2>1, <2>2, <2>3, <2>4 DEF rows
<1>4. CASE ReadKeys(c)
  <2>1. /\ at[c].step \in AccessSteps /\ UNCHANGED <<plan, rows, run, access, keys, series, left>>
        /\ Goto(c, [step |-> "file", lines |-> Authorized(keys), next |-> at[c].next])
    BY <1>4 DEF ReadKeys, AccessSteps, derived
  <2>2. PICK r : r = at[c]
    OBVIOUS
  <2>3. /\ RequestSound([step |-> "keys", next |-> r.next])
        /\ \A x, y : RequestSound([step |-> "rows", want |-> x, have |-> y, next |-> r.next])
        /\ \A x : RequestSound([step |-> "file", lines |-> x, next |-> r.next])
    BY <1>0, <2>1, <2>2, AssignSound
  <2>4. QED
    BY <1>0, <1>1, <2>1, <2>2, <2>3 DEF rows
<1>5. CASE WriteFile(c)
  <2>1. at[c].next.step \in {"idle", "timers", "ask"}
    BY <1>0, <1>5 DEF WriteFile, RequestSound, AccessSteps
  <2>2. RequestSound(at[c].next)
    BY <2>1 DEF RequestSound, AccessSteps
  <2>3. QED
    BY <1>0, <1>5, <2>1, <2>2 DEF WriteFile, rows
<1>6. CASE RemoveTimers(c)
  BY <1>0, <1>1, <1>6 DEF RemoveTimers, rows
<1>7. CASE AddTimer(c)
  BY <1>0, <1>1, <1>7 DEF AddTimer, rows
<1>8. CASE SyncFails(c)
  BY <1>0, <1>1, <1>8 DEF SyncFails, rows
<1>9. QED
  BY <1>2, <1>3, <1>4, <1>5, <1>6, <1>7, <1>8 DEF Sync

LEMMA SyncsKeepTables ==
  ASSUME TablesInv, NEW c \in Client, Sync(c)
  PROVE  TablesInv'
<1>1. at' = [d \in Client |-> at'[d]] /\ \A d \in Client : RequestSound(at'[d])
  BY SyncsLeaveRows, GoesOn DEF TablesInv
<1>2. QED
  BY <1>1, SyncsLeaveRows, RowsLeft DEF TablesInv, Types

LEMMA ReposKeepTables ==
  ASSUME TablesInv, NEW c \in Client,
         CreateRepo(c) \/ EndImport(c) \/ CommitRepo(c) \/ CommitDeleteRepo(c)
  PROVE  TablesInv'
<1>1. CASE CreateRepo(c)
  <2>1. PICK r \in Repo, s \in Switch :
          /\ repo' = [repo EXCEPT ![r] = s]
          /\ Goto(c, [step |-> "import", id |-> r]) \/ UNCHANGED at
    BY <1>1 DEF CreateRepo, Switch
  <2>2. UNCHANGED <<plan, host, job, sched, access, keys>>
    BY <1>1 DEF CreateRepo, derived
  <2>3. at' = [d \in Client |-> at'[d]] /\ \A d \in Client : RequestSound(at'[d])
    BY <2>1, GoesOn, PlacesSound DEF TablesInv, Types
  <2>4. repo' \in [Repo -> Switch \cup {Gone}] /\ Repos \subseteq Repos'
    BY <2>1 DEF TablesInv, Types, Repos, Switch, Gone
  <2>5. Types'
    BY <2>2, <2>3, <2>4 DEF TablesInv, Types
  <2>6. RowsSound'
    BY <2>2, <2>4 DEF TablesInv, RowsSound, Jobs, Hosts
  <2>7. QED
    BY <2>5, <2>6 DEF TablesInv
<1>2. CASE EndImport(c)
  <2>1. UNCHANGED <<plan, host, job, sched, access, keys>>
    BY <1>2 DEF EndImport, derived
  <2>2. at' = [d \in Client |-> at'[d]] /\ \A d \in Client : RequestSound(at'[d])
    BY <1>2, GoesOn, PlacesSound DEF EndImport, TablesInv
  <2>3. repo' \in [Repo -> Switch \cup {Gone}] /\ \A r \in Repos : JobsIn(r) # {} => r \in Repos'
    BY <1>2 DEF EndImport, TablesInv, Types, Repos, Gone
  <2>4. Types'
    BY <2>1, <2>2, <2>3 DEF TablesInv, Types
  <2>5. RowsSound'
    BY <2>1, <2>3 DEF TablesInv, RowsSound, Jobs, Hosts, JobsIn
  <2>6. QED
    BY <2>4, <2>5 DEF TablesInv
<1>3. CASE CommitRepo(c)
  <2>1. CASE Refuse(c)
    BY <1>3, <2>1, RefuseKeepsTables DEF CommitRepo, AtCommit
  <2>2. CASE ~Refuse(c)
    <3>1. /\ at[c].id \in Repos /\ repo' = [repo EXCEPT ![at[c].id] = at[c].new]
          /\ SyncAll(c) /\ UNCHANGED <<plan, host, job, sched, access, keys>>
      BY <1>3, <2>2 DEF CommitRepo, AtCommit, derived
    <3>2. at[c].new \in Switch
      BY <1>3 DEF CommitRepo, AtCommit, TablesInv, Types, RequestSound
    <3>3. at' = [d \in Client |-> at'[d]] /\ \A d \in Client : RequestSound(at'[d])
      BY <3>1, GoesOn, PlacesSound DEF SyncAll, SyncTimers, Assign, TablesInv
    <3>4. repo' \in [Repo -> Switch \cup {Gone}] /\ Repos' = Repos
      BY <3>1, <3>2 DEF TablesInv, Types, Repos, Switch, Gone
    <3>5. Types'
      BY <3>1, <3>3, <3>4 DEF TablesInv, Types
    <3>6. RowsSound'
      BY <3>1, <3>4 DEF TablesInv, RowsSound, Jobs, Hosts
    <3>7. QED
      BY <3>5, <3>6 DEF TablesInv
  <2>3. QED
    BY <2>1, <2>2
<1>4. CASE CommitDeleteRepo(c)
  <2>1. CASE Refuse(c)
    BY <1>4, <2>1, RefuseKeepsTables DEF CommitDeleteRepo, AtCommit
  <2>2. CASE ~Refuse(c)
    <3>1. /\ at[c].id \in Repos /\ JobsIn(at[c].id) = {}
          /\ repo' = [repo EXCEPT ![at[c].id] = Gone]
          /\ sched' = [s \in Schedule |->
               IF sched[s].mode = "repository" /\ at[c].id \in sched[s].ids THEN NoSchedule ELSE sched[s]]
          /\ access' = {p \in access : p[2] # at[c].id} /\ keys' = {p \in keys : p[2] # at[c].id}
          /\ SyncAll(c) /\ UNCHANGED <<plan, host, job>>
      BY <1>4, <2>2 DEF CommitDeleteRepo, AtCommit
    <3>2. at' = [d \in Client |-> at'[d]] /\ \A d \in Client : RequestSound(at'[d])
      BY <3>1, GoesOn, PlacesSound DEF SyncAll, SyncTimers, Assign, TablesInv
    <3>3. Types'
      BY <3>1, <3>2, NoRows DEF TablesInv, Types
    <3>4. \A r \in Repos : r # at[c].id => r \in Repos'
      BY <3>1 DEF TablesInv, Types, Repos
    <3>5. RowsSound'
      BY <3>1, <3>4 DEF TablesInv, RowsSound, Jobs, Hosts, JobsIn
    <3>6. QED
      BY <3>3, <3>5 DEF TablesInv
  <2>3. QED
    BY <2>1, <2>2
<1>5. QED
  BY <1>1, <1>2, <1>3, <1>4

LEMMA SchedulesKeepTables ==
  ASSUME TablesInv, NEW c \in Client,
         CreateSchedule(c) \/ CommitSchedule(c) \/ DeleteSchedule(c)
  PROVE  TablesInv'
<1>1. CASE CreateSchedule(c)
  <2>1. PICK s \in Schedule, t \in plan.schedules : sched' = [sched EXCEPT ![s] = t]
    BY <1>1 DEF CreateSchedule
  <2>2. t \in ScheduleRow
    BY PlanAssumption DEF TablesInv, Types
  <2>3. at' = [d \in Client |-> at'[d]] /\ \A d \in Client : RequestSound(at'[d])
    BY <1>1, GoesOn, PlacesSound DEF CreateSchedule, SyncTimers, TablesInv
  <2>4. QED
    BY <1>1, <2>1, <2>2, <2>3, RowsLeft DEF CreateSchedule, derived, TablesInv, Types, RowsSound
<1>2. CASE CommitSchedule(c)
  <2>1. CASE Refuse(c)
    BY <1>2, <2>1, RefuseKeepsTables DEF CommitSchedule, AtCommit
  <2>2. CASE ~Refuse(c)
    <3>1. /\ at[c].id \in Schedules
          /\ sched' = [sched EXCEPT ![at[c].id] = Written(sched[at[c].id], at[c].seen, at[c].new)]
          /\ SyncTimers(c) /\ UNCHANGED <<plan, host, repo, job, access, keys>>
      BY <1>2, <2>2 DEF CommitSchedule, AtCommit, derived
    <3>2. at[c].new \in ScheduleRow /\ at[c].seen \in ScheduleRow
      BY <1>2 DEF CommitSchedule, AtCommit, TablesInv, Types, RequestSound
    <3>3. sched' \in [Schedule -> ScheduleRow]
      BY <3>1, <3>2, WrittenSchedule DEF TablesInv, Types, Schedules
    <3>4. at' = [d \in Client |-> at'[d]] /\ \A d \in Client : RequestSound(at'[d])
      BY <3>1, GoesOn, PlacesSound DEF SyncAll, SyncTimers, Assign, TablesInv
    <3>5. QED
      BY <3>1, <3>3, <3>4, RowsLeft DEF TablesInv, RowsSound
  <2>3. QED
    BY <2>1, <2>2
<1>3. CASE DeleteSchedule(c)
  <2>1. at' = [d \in Client |-> at'[d]] /\ \A d \in Client : RequestSound(at'[d])
    BY <1>3, GoesOn, PlacesSound DEF DeleteSchedule, SyncTimers, TablesInv
  <2>2. sched' \in [Schedule -> ScheduleRow]
    BY <1>3, NoRows DEF DeleteSchedule, TablesInv, Types
  <2>3. QED
    BY <1>3, <2>1, <2>2, RowsLeft DEF DeleteSchedule, derived, TablesInv, RowsSound
<1>4. QED
  BY <1>1, <1>2, <1>3

\* A request writes the row of one job, with its device and its repository.
LEMMA JobRowWritten ==
  ASSUME TablesInv, NEW c \in Client, NEW j, NEW new \in JobRow,
         new = NoJob \/ (new.host \in Hosts /\ new.repo \in Repos),
         job' = [job EXCEPT ![j] = new], sched' \in [Schedule -> ScheduleRow],
         SyncAll(c) \/ SyncTimers(c), UNCHANGED <<plan, host, repo, derived>>
  PROVE  TablesInv'
<1>1. at' = [d \in Client |-> at'[d]] /\ \A d \in Client : RequestSound(at'[d])
  BY GoesOn, PlacesSound DEF SyncAll, SyncTimers, Assign, TablesInv
<1>2. Types'
  BY <1>1 DEF TablesInv, Types
<1>3. RowsSound'
  BY DEF derived, TablesInv, Types, RowsSound, Jobs, Hosts, Repos
<1>4. QED
  BY <1>2, <1>3 DEF TablesInv

LEMMA JobsKeepTables ==
  ASSUME TablesInv, NEW c \in Client,
         CommitCreateJob(c) \/ CommitJob(c) \/ CommitEnableJob(c) \/ CommitDeleteJob(c)
  PROVE  TablesInv'
<1> DEFINE j == at[c].id
<1>0. CASE Refuse(c)
  BY <1>0, RefuseKeepsTables
     DEF CommitCreateJob, CommitJob, CommitEnableJob, CommitDeleteJob, AtCommit
<1>1. CASE CommitCreateJob(c) /\ ~Refuse(c)
  <2>1. /\ at[c].new.host \in Hosts /\ at[c].new.repo \in Repos
        /\ job' = [job EXCEPT ![j] = at[c].new]
        /\ (SyncAll(c) \/ SyncTimers(c)) /\ UNCHANGED <<plan, host, repo, sched, derived>>
    BY <1>1 DEF CommitCreateJob, AtCommit
  <2>2. at[c].new \in JobRow
    BY <1>1 DEF CommitCreateJob, AtCommit, TablesInv, Types, RequestSound
  <2>3. QED
    BY <2>1, <2>2, JobRowWritten DEF TablesInv, Types
<1>2. CASE CommitJob(c) /\ ~Refuse(c)
  <2> DEFINE w == Written(job[j], at[c].seen, at[c].new)
  <2>1. /\ j \in Jobs /\ at[c].new.host \in Hosts /\ at[c].new.repo \in Repos
        /\ job' = [job EXCEPT ![j] = w]
        /\ (SyncAll(c) \/ SyncTimers(c)) /\ UNCHANGED <<plan, host, repo, sched, derived>>
    BY <1>2 DEF CommitJob, AtCommit
  <2>2. at[c].new \in JobRow /\ at[c].seen \in JobRow /\ job[j] \in JobRow
    BY <1>2, <2>1 DEF CommitJob, AtCommit, TablesInv, Types, RequestSound, Jobs
  <2>3. w \in JobRow /\ w.host \in Hosts /\ w.repo \in Repos
    BY <2>1, <2>2, WrittenJob DEF TablesInv, RowsSound
  <2>4. QED
    BY <2>1, <2>3, JobRowWritten DEF TablesInv, Types
<1>3. CASE CommitEnableJob(c) /\ ~Refuse(c)
  <2>1. /\ j \in Jobs
        /\ job' = [job EXCEPT ![j].on = IF at[c].new = at[c].seen THEN @ ELSE at[c].new]
        /\ (SyncAll(c) \/ SyncTimers(c)) /\ UNCHANGED <<plan, host, repo, sched, derived>>
    BY <1>3 DEF CommitEnableJob, AtCommit
  <2>2. at[c].new \in BOOLEAN /\ job[j] \in JobRow
    BY <1>3, <2>1 DEF CommitEnableJob, AtCommit, TablesInv, Types, RequestSound, Jobs
  <2> DEFINE w == [job[j] EXCEPT !.on = IF at[c].new = at[c].seen THEN @ ELSE at[c].new]
  <2>3. job' = [job EXCEPT ![j] = w]
    BY <2>1
  <2>4. w \in JobRow /\ w.host = job[j].host /\ w.repo = job[j].repo
    BY <2>2 DEF JobRow
  <2>5. QED
    BY <2>1, <2>3, <2>4, JobRowWritten DEF TablesInv, Types, RowsSound
<1>4. CASE CommitDeleteJob(c) /\ ~Refuse(c)
  <2>1. PICK from \in {sched, at[c].seen} :
          /\ job' = [job EXCEPT ![j] = NoJob]
          /\ sched' = Without("jobs", j, from)
          /\ SyncAll(c) /\ UNCHANGED <<plan, host, repo, derived>>
    BY <1>4 DEF CommitDeleteJob, AtCommit
  <2>2. from \in [Schedule -> ScheduleRow]
    BY <1>4 DEF CommitDeleteJob, AtCommit, TablesInv, Types, RequestSound
  <2>3. sched' \in [Schedule -> ScheduleRow]
    BY <2>1, <2>2, WithoutTyped DEF TablesInv, Types
  <2>4. QED
    BY <2>1, <2>3, NoRows, JobRowWritten
<1>5. QED
  BY <1>0, <1>1, <1>2, <1>3, <1>4

LEMMA RunsKeepTables ==
  ASSUME TablesInv,
         \/ \E j \in Jobs, kind \in {"backup", "check"} : QueueRun(j, kind)
         \/ \E i \in Runs : EndRun(i)
         \/ \E c \in Client : CommitCleanup(c) \/ CommitDeleteRun(c) \/ Maintain(c)
         \/ Restart
  PROVE  TablesInv'
<1>1. CASE \/ \E j \in Jobs, kind \in {"backup", "check"} : QueueRun(j, kind)
           \/ \E i \in Runs : EndRun(i)
  <2>1. UNCHANGED <<plan, host, repo, job, sched, access, keys, at>>
    BY <1>1 DEF QueueRun, EndRun, rows, derived
  <2>2. QED
    BY <2>1, RowsLeft DEF TablesInv, Types, RowsSound
<1>2. ASSUME NEW c \in Client, CommitCleanup(c) \/ CommitDeleteRun(c)
      PROVE TablesInv'
  <2>1. UNCHANGED <<plan, host, repo, job, sched, access, keys>>
    BY <1>2 DEF CommitCleanup, CommitDeleteRun, AtCommit, rows, derived
  <2>2. at' = [d \in Client |-> at'[d]] /\ \A d \in Client : RequestSound(at'[d])
    BY <1>2, GoesOn, PlacesSound DEF CommitCleanup, CommitDeleteRun, TablesInv
  <2>3. QED
    BY <2>1, <2>2, RowsLeft DEF TablesInv, Types, RowsSound
<1>3. ASSUME NEW c \in Client, Maintain(c)
      PROVE TablesInv'
  <2>1. UNCHANGED <<plan, host, repo, job, access, keys, at>>
    BY <1>3 DEF Maintain, derived
  <2>2. sched' \in [Schedule -> ScheduleRow]
    BY <1>3, TrimmedIs DEF Maintain, TablesInv, Types
  <2>3. QED
    BY <2>1, <2>2, RowsLeft DEF TablesInv, Types, RowsSound
<1>4. CASE Restart
  <2>1. at' = [d \in Client |-> at'[d]] /\ \A d \in Client : RequestSound(at'[d])
    BY <1>4, PlacesSound DEF Restart
  <2>2. QED
    BY <1>4, <2>1, RowsLeft DEF Restart, Reassign, rows, TablesInv, Types
<1>5. QED
  BY <1>1, <1>2, <1>3, <1>4

LEMMA NextKeepsTables == TablesInv /\ [Next]_vars => TablesInv'
<1> SUFFICES ASSUME TablesInv, [Next]_vars PROVE TablesInv'
  OBVIOUS
<1>1. ASSUME NEW c \in Client, HostRequest(c)
      PROVE TablesInv'
  BY <1>1, ReadsKeepTables, HostsKeepTables, AccessKeepsTables DEF HostRequest
<1>2. ASSUME NEW c \in Client, RepoRequest(c)
      PROVE TablesInv'
  BY <1>2, ReadsKeepTables, ReposKeepTables DEF RepoRequest
<1>3. ASSUME NEW c \in Client, ScheduleRequest(c)
      PROVE TablesInv'
  BY <1>3, ReadsKeepTables, SchedulesKeepTables DEF ScheduleRequest
<1>4. ASSUME NEW c \in Client, JobRequest(c)
      PROVE TablesInv'
  BY <1>4, ReadsKeepTables, JobsKeepTables DEF JobRequest
<1>5. ASSUME NEW c \in Client, HistoryRequest(c)
      PROVE TablesInv'
  BY <1>5, ReadsKeepTables, RunsKeepTables DEF HistoryRequest
<1>6. CASE UNCHANGED vars
  BY <1>6, RowsLeft DEF vars, rows, derived, TablesInv, Types, RowsSound
<1>7. QED
  BY <1>1, <1>2, <1>3, <1>4, <1>5, <1>6, SyncsKeepTables, RunsKeepTables DEF Next

LEMMA TablesAlways == Spec => []TablesInv
BY InitTables, NextKeepsTables, PTL DEF Spec
-----------------------------------------------------------------------------
(* Derived state: access, authorized keys and timers.                      *)

Part == {"access", "timers"}

LEMMA PartsOf ==
  /\ \A r : Within(r) \subseteq Unfinished(r)
  /\ \A r : r.step \in {"idle", "commit", "import", "ask"} => Unfinished(r) = {}
  /\ \A r : r.step \in {"timers", "arm"} => Unfinished(r) = {"timers"}
  /\ \A r : r.step \in AccessSteps =>
       Unfinished(r) = IF r.next = Timers THEN {"access", "timers"} ELSE {"access"}
  /\ \A r : r.step \in {"rows", "keys", "file"} => Within(r) = {"access"}
  /\ \A r : r.step = "arm" => Within(r) = {"timers"}
  /\ \A r : r.step \notin {"rows", "keys", "file", "arm"} => Within(r) = {}
BY DEF Within, Unfinished, AccessSteps

LEMMA InitDerived == Init => DerivedInv
<1> SUFFICES ASSUME Init PROVE DerivedInv
  OBVIOUS
<1>1. \A c \in Client : Within(at[c]) = {}
  BY PartsOf DEF Init, Idle
<1>2. Reached("access") /\ Reached("timers")
  BY DEF Init, Reached, Wanted, Authorized, Due, Schedules, Jobs, Targets, Runnable
<1>3. QED
  BY <1>1, <1>2 DEF DerivedInv, PartInv, Alone, InForce

\* What a part is made of, and what it is derived from, is left alone.
Same(part) ==
  IF part = "access"
  THEN /\ UNCHANGED <<access, keys, authorized>> /\ Wanted' = Wanted
       /\ access = Wanted => Authorized(keys)' = Authorized(keys)
  ELSE armed' = armed /\ Due' = Due

\* No request has more or less to do about it.
Passes(part) ==
  \/ UNCHANGED at
  \/ \E c \in Client : \E r :
       Goto(c, r) /\ part \notin Unfinished(at[c]) /\ part \notin Unfinished(r)

LEMMA OneGoes ==
  ASSUME Types, NEW c \in Client, NEW r, Goto(c, r)
  PROVE  at'[c] = r /\ \A d \in Client \ {c} : at'[d] = at[d]
BY DEF Types, Goto

LEMMA SameWay ==
  ASSUME NEW part \in Part, Same(part), NEW r, part \in Within(r), OnTheWay(r)
  PROVE  OnTheWay(r)'
<1>1. CASE part = "access"
  <2>1. r.step \in {"rows", "keys", "file"}
    BY <1>1, PartsOf
  <2>2. QED
    BY <1>1, <2>1 DEF Same, OnTheWay
<1>2. CASE part = "timers"
  <2>1. r.step = "arm"
    BY <1>2, PartsOf
  <2>2. QED
    BY <1>2, <2>1 DEF Same, OnTheWay
<1>3. QED
  BY <1>1, <1>2 DEF Part

LEMMA PartLeft ==
  ASSUME Types, NEW part \in Part, PartInv(part), Same(part), Passes(part),
         part \in disturbed => part \in disturbed'
  PROVE  PartInv(part)'
<1>1. ASSUME NEW d \in Client
      PROVE /\ part \in Unfinished(at'[d]) <=> part \in Unfinished(at[d])
            /\ part \in Within(at'[d]) <=> part \in Within(at[d])
            /\ part \in Unfinished(at[d]) => at'[d] = at[d]
  <2>1. CASE UNCHANGED at
    BY <2>1
  <2>2. ASSUME NEW c \in Client, NEW r, Goto(c, r), part \notin Unfinished(at[c]), part \notin Unfinished(r)
        PROVE /\ part \in Unfinished(at'[d]) <=> part \in Unfinished(at[d])
              /\ part \in Within(at'[d]) <=> part \in Within(at[d])
              /\ part \in Unfinished(at[d]) => at'[d] = at[d]
    <3>1. CASE d = c
      BY <2>2, <3>1, OneGoes, PartsOf
    <3>2. CASE d # c
      BY <2>2, <3>2, OneGoes
    <3>3. QED
      BY <3>1, <3>2
  <2>3. QED
    BY <2>1, <2>2 DEF Passes
<1>2. CASE part \in disturbed
  BY <1>2 DEF PartInv
<1>3. CASE Awaited(part)
  <2>1. Awaited(part)'
    BY <1>1, <1>3 DEF Awaited
  <2>2. QED
    BY <2>1 DEF PartInv
<1>4. CASE part \notin disturbed /\ ~Awaited(part)
  <2>1. Alone(part) /\ InForce(part) /\ \A d \in Client : part \in Within(at[d]) => OnTheWay(at[d])
    BY <1>4 DEF PartInv
  <2>2. Alone(part)'
    BY <1>1, <2>1 DEF Alone
  <2>3. Reached(part) => Reached(part)'
    BY DEF Same, Reached
  <2>4. InForce(part)'
    BY <1>1, <1>4, <2>1, <2>3 DEF InForce
  <2>5. ASSUME NEW d \in Client, part \in Within(at'[d])
        PROVE OnTheWay(at[d])'
    <3>1. PICK r : r = at[d]
      OBVIOUS
    <3>2. part \in Within(r) /\ OnTheWay(r) /\ at'[d] = r
      BY <1>1, <2>1, <2>5, <3>1, PartsOf
    <3>3. OnTheWay(r)'
      BY <3>2, SameWay
    <3>4. QED
      BY <3>2, <3>3 DEF OnTheWay
  <2>6. QED
    BY <2>2, <2>4, <2>5 DEF PartInv
<1>5. QED
  BY <1>2, <1>3, <1>4

LEMMA PartAwaited ==
  ASSUME Types, NEW part \in Part, NEW c \in Client, NEW r, Goto(c, r),
         part \in Unfinished(r), Within(r) = {}
  PROVE  PartInv(part)'
<1>1. at'[c] = r
  BY OneGoes
<1>2. QED
  BY <1>1 DEF PartInv, Awaited

LEMMA DueSame ==
  ASSUME UNCHANGED <<host, repo, job, sched>>
  PROVE  Due' = Due
<1>1. \A s \in Schedule : Targets(sched[s], job)' = Targets(sched[s], job)
  BY DEF Targets
<1>2. \A j \in JobId : Runnable(j)' = Runnable(j)
  BY DEF Runnable
<1>3. \A s \in Schedule : Targets(sched[s], job) \subseteq JobId
  BY DEF Targets
<1>4. Schedules' = Schedules /\ Schedules \subseteq Schedule
  BY DEF Schedules
<1>5. \A s \in Schedule : (\E j \in Targets(sched[s], job) : Runnable(j))' <=>
                          \E j \in Targets(sched[s], job) : Runnable(j)
  BY <1>1, <1>2, <1>3
<1>6. QED
  BY <1>4, <1>5 DEF Due

LEMMA RowsSame ==
  ASSUME UNCHANGED <<host, repo, job, sched>>
  PROVE  /\ Wanted' = Wanted /\ Due' = Due
         /\ UNCHANGED <<access, keys, authorized>> => Same("access")
         /\ UNCHANGED armed => Same("timers")
<1>1. Wanted' = Wanted
  BY DEF Wanted, Jobs
<1>2. UNCHANGED keys => Authorized(keys)' = Authorized(keys)
  BY DEF Authorized
<1>3. QED
  BY <1>1, <1>2, DueSame DEF Same

\* Only devices and repositories without a job change, while nothing is derived.
LEMMA PlacesKept ==
  ASSUME TablesInv, UNCHANGED <<job, sched, access, keys, authorized, armed>>,
         \A j \in Jobs : host'[job[j].host] = host[job[j].host] /\ repo'[job[j].repo] = repo[job[j].repo]
  PROVE  Same("access") /\ Same("timers")
<1>1. Wanted' = Wanted
  BY DEF Wanted, Jobs
<1>2. access = Wanted => \A p \in keys : host'[p[1]] = host[p[1]] /\ repo'[p[2]] = repo[p[2]]
  BY DEF TablesInv, RowsSound, Wanted
<1>3. access = Wanted => Authorized(keys)' = Authorized(keys)
  BY <1>2 DEF Authorized
<1>4. \A j \in Jobs : Runnable(j)' = Runnable(j)
  BY DEF Runnable
<1>5. \A s \in Schedule : Targets(sched[s], job) \subseteq Jobs
  BY DEF Targets, Jobs
<1>6. Due' = Due
  <2>1. \A s \in Schedule :
          (\E j \in Targets(sched[s], job) : Runnable(j)') <=> \E j \in Targets(sched[s], job) : Runnable(j)
    BY <1>4, <1>5
  <2>2. \A s \in Schedule : Targets(sched[s], job)' = Targets(sched[s], job)
    BY DEF Targets
  <2>3. Due' = {s \in Schedules : sched[s].on /\ \E j \in Targets(sched[s], job) : Runnable(j)'}
    BY <2>2 DEF Due, Schedules
  <2>4. QED
    BY <2>1, <2>3 DEF Due, Schedules
<1>7. QED
  BY <1>1, <1>3, <1>6 DEF Same

\* Requests that change no row that anything is derived from.
LEMMA NothingDerived ==
  ASSUME TablesInv, DerivedInv, NEW c \in Client, at[c].step \in {"idle", "commit", "import", "ask"},
         \/ UNCHANGED at
         \/ \E r : Goto(c, r) /\ r.step \in {"idle", "commit", "import", "ask"},
         UNCHANGED <<job, sched, derived>>,
         \A j \in Jobs : host'[job[j].host] = host[job[j].host] /\ repo'[job[j].repo] = repo[job[j].repo]
  PROVE  DerivedInv'
<1>1. Same("access") /\ Same("timers")
  BY PlacesKept DEF derived
<1>2. \A part \in Part : Passes(part)
  BY PartsOf DEF Passes
<1>3. QED
  BY <1>1, <1>2, PartLeft DEF DerivedInv, TablesInv, Part, derived

LEMMA ReadsKeepDerived ==
  ASSUME TablesInv, DerivedInv, NEW c \in Client,
         \/ ReadHost(c) \/ ReadEditHost(c) \/ ReadDeleteHost(c) \/ ReadRepo(c) \/ ReadDeleteRepo(c)
         \/ ReadSchedule(c)
         \/ ReadCreateJob(c) \/ ReadJob(c) \/ ReadEnableJob(c) \/ ReadDeleteJob(c)
         \/ ReadCleanup(c) \/ ReadDeleteRun(c)
  PROVE  DerivedInv'
<1>1. PICK k, i, n, s : Read(c, k, i, n, s) /\ at[c] = Idle
  BY DEF ReadHost, ReadEditHost, ReadDeleteHost, ReadRepo, ReadDeleteRepo, ReadSchedule, ReadCreateJob,
     ReadJob, ReadEnableJob, ReadDeleteJob, ReadCleanup, ReadDeleteRun, May
<1>2. at[c].step = "idle" /\ \E r : Goto(c, r) /\ r.step = "commit"
  BY <1>1 DEF Idle, Read
<1>3. UNCHANGED <<host, repo, job, sched, derived>>
  BY <1>1 DEF Read, rows
<1>4. QED
  BY <1>2, <1>3, NothingDerived

LEMMA RefusalKeepsDerived ==
  ASSUME TablesInv, DerivedInv, NEW c \in Client, at[c].step = "commit", Refuse(c)
  PROVE  DerivedInv'
<1>1. \E r : Goto(c, r) /\ r.step = "idle"
  BY DEF Refuse, Idle
<1>2. UNCHANGED <<host, repo, job, sched, derived>>
  BY DEF Refuse, rows
<1>3. QED
  BY <1>1, <1>2, NothingDerived

\* Where a request goes on that has access to bring up to date, or the timers.
LEMMA GoesToDerive ==
  /\ Within(Timers) = {} /\ Unfinished(Timers) = {"timers"}
  /\ \A n : /\ Within([step |-> "assign", next |-> n]) = {}
            /\ Unfinished([step |-> "assign", next |-> n]) =
                 IF n = Timers THEN {"access", "timers"} ELSE {"access"}
BY DEF Within, Unfinished, AccessSteps, Timers

LEMMA AllAwaited ==
  ASSUME Types, NEW c \in Client, SyncAll(c)
  PROVE  DerivedInv'
<1> DEFINE r == [step |-> "assign", next |-> Timers]
<1>1. Goto(c, r)
  BY DEF SyncAll, Assign
<1>2. Within(r) = {} /\ Unfinished(r) = {"access", "timers"}
  BY GoesToDerive
<1> HIDE DEF r
<1>3. QED
  BY <1>1, <1>2, PartAwaited DEF DerivedInv, Part

\* Only the timers are derived from what changes.
LEMMA TimersAwaited ==
  ASSUME TablesInv, DerivedInv, NEW c \in Client, at[c].step \in {"idle", "commit"}, SyncTimers(c),
         Same("access"), UNCHANGED disturbed
  PROVE  DerivedInv'
<1>1. Goto(c, Timers) /\ Unfinished(at[c]) = {}
  BY PartsOf DEF SyncTimers
<1>2. PartInv("timers")'
  BY <1>1, GoesToDerive, PartAwaited DEF TablesInv, Part
<1>3. Passes("access")
  BY <1>1, GoesToDerive DEF Passes
<1>4. PartInv("access")'
  BY <1>3, PartLeft DEF TablesInv, DerivedInv, Part
<1>5. QED
  BY <1>2, <1>4 DEF DerivedInv

\* Only access is derived from what changes; the timers are for later, or as they were.
LEMMA AccessAwaited ==
  ASSUME TablesInv, DerivedInv, NEW c \in Client, NEW r, Goto(c, r),
         "access" \in Unfinished(r), Within(r) = {}, UNCHANGED disturbed,
         "timers" \in Unfinished(r) \/ (Same("timers") /\ "timers" \notin Unfinished(at[c]))
  PROVE  DerivedInv'
<1>1. PartInv("access")'
  BY PartAwaited DEF TablesInv, Part
<1>2. CASE "timers" \in Unfinished(r)
  BY <1>1, <1>2, PartAwaited DEF TablesInv, Part, DerivedInv
<1>3. CASE "timers" \notin Unfinished(r)
  <2>1. Passes("timers")
    BY <1>3 DEF Passes
  <2>2. PartInv("timers")'
    BY <1>3, <2>1, PartLeft DEF TablesInv, DerivedInv, Part
  <2>3. QED
    BY <1>1, <2>2 DEF DerivedInv
<1>4. QED
  BY <1>2, <1>3

LEMMA HostsKeepDerived ==
  ASSUME TablesInv, DerivedInv, NEW c \in Client,
         (CommitHost(c) \/ CommitEditHost(c)) /\ ~Refuse(c)
  PROVE  DerivedInv'
<1>1. PICK h \in Hosts, s \in Switch, jobs \in SUBSET Jobs : \E seen, r :
        /\ SetEnabled(h, s, seen, jobs) /\ Goto(c, r)
        /\ "access" \in Unfinished(r) /\ Within(r) = {}
        /\ "timers" \in Unfinished(r) \/ UNCHANGED <<host, job>>
  BY HostCommits DEF TablesInv
<1>2. PICK seen, r :
        /\ SetEnabled(h, s, seen, jobs) /\ Goto(c, r)
        /\ "access" \in Unfinished(r) /\ Within(r) = {}
        /\ "timers" \in Unfinished(r) \/ UNCHANGED <<host, job>>
  BY <1>1
<1>3. UNCHANGED <<repo, sched, derived>>
  BY <1>2 DEF SetEnabled
<1>4. UNCHANGED <<host, job>> => Same("timers")
  BY <1>3, RowsSame DEF derived
<1>5. Unfinished(at[c]) = {}
  <2>1. at[c].step = "commit"
    BY DEF CommitHost, CommitEditHost, AtCommit
  <2>2. QED
    BY <2>1, PartsOf
<1>6. QED
  BY <1>2, <1>3, <1>4, <1>5, AccessAwaited DEF derived

LEMMA WantedKept ==
  ASSUME UNCHANGED <<host, repo, derived>>, NEW js, js = Jobs, Jobs' = js,
         \A j \in js : job'[j].host = job[j].host /\ job'[j].repo = job[j].repo
  PROVE  Same("access") /\ UNCHANGED disturbed
<1>1. Wanted' = Wanted
  BY DEF Wanted
<1>2. Authorized(keys)' = Authorized(keys)
  BY DEF Authorized, derived
<1>3. QED
  BY <1>1, <1>2 DEF Same, derived

LEMMA CommitsKeepDerived ==
  ASSUME TablesInv, DerivedInv, NEW c \in Client,
         \/ CommitDeleteHost(c) \/ CommitRepo(c) \/ CommitDeleteRepo(c)
         \/ CreateSchedule(c) \/ CommitSchedule(c) \/ DeleteSchedule(c)
         \/ CommitCreateJob(c) \/ CommitJob(c) \/ CommitEnableJob(c) \/ CommitDeleteJob(c)
  PROVE  DerivedInv'
<1>1. CASE at[c].step = "commit" /\ Refuse(c)
  BY <1>1, RefusalKeepsDerived
<1>2. CASE SyncAll(c)
  BY <1>2, AllAwaited DEF TablesInv
<1>3. CASE (CreateSchedule(c) \/ CommitSchedule(c) \/ DeleteSchedule(c)) /\ SyncTimers(c) /\ ~Refuse(c)
  <2>1. UNCHANGED <<host, repo, job, derived>> /\ at[c].step \in {"idle", "commit"}
    <3>1. at[c] = Idle => at[c].step = "idle"
      BY DEF Idle
    <3>2. QED
      BY <1>3, <3>1 DEF CreateSchedule, CommitSchedule, DeleteSchedule, AtCommit, May
  <2>2. Same("access") /\ UNCHANGED disturbed
    <3>1. PICK js : js = Jobs
      OBVIOUS
    <3>2. Jobs' = js /\ UNCHANGED job
      BY <2>1, <3>1 DEF Jobs
    <3>3. QED
      BY <2>1, <3>1, <3>2, WantedKept
  <2>3. QED
    BY <1>3, <2>1, <2>2, TimersAwaited
<1>4. CASE CommitEnableJob(c) /\ SyncTimers(c) /\ ~Refuse(c)
  <2>1. /\ at[c].id \in Jobs /\ \E on : job' = [job EXCEPT ![at[c].id].on = on]
        /\ UNCHANGED <<host, repo, derived>> /\ at[c].step = "commit"
    BY <1>4 DEF CommitEnableJob, AtCommit
  <2>2. \A j \in JobId : job'[j].host = job[j].host /\ job'[j].repo = job[j].repo
    BY <2>1 DEF TablesInv, Types, JobRow, Jobs
  <2>3. Jobs' = Jobs
    <3>1. \A j \in Jobs : job[j].host # 0
      BY DEF TablesInv, RowsSound, Hosts, Host
    <3>2. \A j \in Jobs : job'[j] # NoJob
      BY <2>2, <3>1, NoRows DEF Jobs
    <3>3. \A j \in JobId : j \notin Jobs => job'[j] = job[j]
      BY <2>1 DEF TablesInv, Types
    <3>4. QED
      BY <3>2, <3>3 DEF Jobs
  <2>4. Same("access") /\ UNCHANGED disturbed
    <3>1. PICK js : js = Jobs
      OBVIOUS
    <3>2. js \subseteq JobId
      BY <3>1 DEF Jobs
    <3>3. QED
      BY <2>1, <2>2, <2>3, <3>1, <3>2, WantedKept
  <2>5. QED
    BY <1>4, <2>1, <2>4, TimersAwaited
<1>5. CASE Refuse(c) /\ ~CreateSchedule(c) /\ ~DeleteSchedule(c)
  BY <1>1, <1>5 DEF CommitDeleteHost, CommitRepo, CommitDeleteRepo, CommitSchedule, CommitCreateJob, CommitJob,
     CommitEnableJob, CommitDeleteJob, AtCommit
<1>6. CASE ~Refuse(c) /\ ~SyncTimers(c)
  BY <1>2, <1>6 DEF CommitDeleteHost, CommitRepo, CommitDeleteRepo, CreateSchedule, CommitSchedule,
     DeleteSchedule, CommitCreateJob, CommitJob, CommitEnableJob, CommitDeleteJob
<1>7. CASE ~Refuse(c) /\ ~SyncAll(c)
  BY <1>3, <1>4, <1>7 DEF CommitDeleteHost, CommitRepo, CommitDeleteRepo, CreateSchedule, CommitSchedule,
     DeleteSchedule, CommitCreateJob, CommitJob, CommitEnableJob, CommitDeleteJob
<1>8. CASE CreateSchedule(c) \/ DeleteSchedule(c)
  <2>1. SyncTimers(c) /\ ~Refuse(c)
    <3>1. PICK r : r = at[c]
      OBVIOUS
    <3>2. SyncTimers(c) /\ Timers # Idle
      BY <1>8 DEF CreateSchedule, DeleteSchedule, Timers, Idle
    <3>3. QED
      BY <3>2, OneGoes DEF SyncTimers, Refuse, TablesInv
  <2>2. QED
    BY <1>3, <1>8, <2>1
<1>9. QED
  BY <1>1, <1>2, <1>5, <1>6, <1>7, <1>8

LEMMA NewPlacesKeepDerived ==
  ASSUME TablesInv, DerivedInv, NEW c \in Client,
         CreateHost(c) \/ CreateRepo(c) \/ EndImport(c)
  PROVE  DerivedInv'
<1>1. CASE CreateHost(c)
  <2>1. PICK h \in Host, s \in {"on", "off"} : h = NextId(Hosts) /\ host' = [host EXCEPT ![h] = s]
    BY <1>1 DEF CreateHost
  <2>2. h \notin Hosts
    BY <2>1, NextIdFresh, SizeAssumption DEF Hosts, Host
  <2>3. \A j \in Jobs : host'[job[j].host] = host[job[j].host]
    BY <2>1, <2>2 DEF TablesInv, RowsSound, Types
  <2>4. UNCHANGED <<at, repo, job, sched, derived>> /\ at[c] = Idle
    BY <1>1 DEF CreateHost, May, derived
  <2>5. QED
    BY <2>3, <2>4, NothingDerived DEF Idle, derived
<1>2. CASE CreateRepo(c)
  <2>1. PICK r \in Repo, s \in {"on", "off"} :
          /\ r = NextId(Repos) /\ repo' = [repo EXCEPT ![r] = s]
          /\ UNCHANGED at \/ Goto(c, [step |-> "import", id |-> r])
    BY <1>2 DEF CreateRepo
  <2>2. r \notin Repos
    BY <2>1, NextIdFresh, SizeAssumption DEF Repos, Repo
  <2>3. \A j \in Jobs : repo'[job[j].repo] = repo[job[j].repo]
    BY <2>1, <2>2 DEF TablesInv, RowsSound, Types
  <2>4. /\ UNCHANGED <<host, job, sched, derived>>
        /\ at[c] = Idle
    BY <1>2 DEF CreateRepo, May
  <2>5. Idle.step = "idle" /\ [step |-> "import", id |-> r].step = "import"
    BY DEF Idle
  <2>6. QED
    BY <2>1, <2>3, <2>4, <2>5, NothingDerived
<1>3. CASE EndImport(c)
  <2>1. \A r \in Repo : JobsIn(r) # {} => repo'[r] = repo[r]
    BY <1>3 DEF EndImport, TablesInv, Types
  <2>2. \A j \in Jobs : repo'[job[j].repo] = repo[job[j].repo]
    BY <2>1 DEF TablesInv, RowsSound, JobsIn, Repos
  <2>3. UNCHANGED <<host, job, sched, derived>> /\ at[c].step = "import"
    BY <1>3 DEF EndImport, derived
  <2>4. Goto(c, Idle) /\ Idle.step = "idle"
    BY <1>3 DEF EndImport, Idle
  <2>5. UNCHANGED host
    BY <2>3
  <2>6. QED
    BY <2>2, <2>3, <2>4, <2>5, NothingDerived
<1>4. QED
  BY <1>1, <1>2, <1>3

LEMMA AccessKeepsDerived ==
  ASSUME TablesInv, DerivedInv, NEW c \in Client,
         ReadAccess(c) \/ AskDevice(c) \/ CommitAccess(c) \/ Revoke(c)
  PROVE  DerivedInv'
<1>1. UNCHANGED <<host, repo, job, sched, armed, disturbed>>
  BY DEF ReadAccess, AskDevice, CommitAccess, Revoke, AtCommit, rows, derived
<1>2. Same("timers")
  BY <1>1, RowsSame
<1>3. CASE AskDevice(c)
  <2>1. at[c].step = "ask" /\ \E r : Goto(c, r) /\ r.step \in {"idle", "commit"}
    BY <1>3 DEF AskDevice, Idle
  <2>2. UNCHANGED <<host, repo, job, sched, derived>>
    BY <1>3 DEF AskDevice, rows
  <2>3. QED
    BY <2>1, <2>2, NothingDerived
<1>4. CASE ReadAccess(c) \/ CommitAccess(c)
  <2>1. PICK n : Assign(c, n)
    BY <1>4 DEF ReadAccess, CommitAccess
  <2>2. at[c].step \in {"idle", "commit"}
    BY <1>4 DEF ReadAccess, CommitAccess, May, Idle, AtCommit
  <2>3. "timers" \notin Unfinished(at[c])
    BY <2>2, PartsOf
  <2>4. QED
    BY <1>1, <1>2, <2>1, <2>3, GoesToDerive, AccessAwaited DEF Assign
<1>5. CASE Revoke(c)
  <2>1. Assign(c, at[c].next) /\ at[c].step = "revoke"
    BY <1>5 DEF Revoke
  <2>2. at[c].next = Timers \/ "timers" \notin Unfinished(at[c])
    BY <2>1, PartsOf DEF AccessSteps
  <2>3. QED
    BY <1>1, <1>2, <2>1, <2>2, GoesToDerive, AccessAwaited DEF Assign
<1>6. QED
  BY <1>3, <1>4, <1>5

\* A request begins to bring a part up to date, with what is wanted now.
LEMMA BeginsPart ==
  ASSUME Types, NEW part \in Part, NEW c \in Client, NEW r, Goto(c, r), Begin(c, part),
         part \in Within(r), OnTheWay(r)'
  PROVE  PartInv(part)'
<1>1. at'[c] = r /\ \A d \in Client \ {c} : at'[d] = at[d]
  BY OneGoes
<1>2. CASE \E d \in Client \ {c} : part \in Within(at[d])
  BY <1>2 DEF Begin, PartInv
<1>3. CASE ~\E d \in Client \ {c} : part \in Within(at[d])
  <2>1. \A d \in Client : part \in Within(at'[d]) => d = c
    BY <1>1, <1>3
  <2>2. Alone(part)'
    BY <2>1 DEF Alone
  <2>3. InForce(part)'
    BY <1>1, PartsOf DEF InForce
  <2>4. \A d \in Client : part \in Within(at'[d]) => OnTheWay(at[d])'
    BY <1>1, <2>1 DEF OnTheWay
  <2>5. QED
    BY <2>2, <2>3, <2>4 DEF PartInv
<1>4. QED
  BY <1>2, <1>3

\* A request that brings a part up to date goes on with it, or has reached it.
LEMMA GoesOnWithPart ==
  ASSUME Types, NEW part \in Part, PartInv(part), NEW c \in Client, part \in Within(at[c]),
         NEW r, Goto(c, r), UNCHANGED disturbed,
         OnTheWay(at[c]) => IF part \in Within(r) THEN OnTheWay(r)' ELSE Reached(part)'
  PROVE  PartInv(part)'
<1>1. at'[c] = r /\ \A d \in Client \ {c} : at'[d] = at[d]
  BY OneGoes
<1>2. CASE part \in disturbed
  BY <1>2 DEF PartInv
<1>3. CASE Awaited(part)
  <2>1. PICK d \in Client \ {c} : part \in Unfinished(at[d]) \ Within(at[d])
    BY <1>3 DEF Awaited
  <2>2. Awaited(part)'
    BY <1>1, <2>1 DEF Awaited
  <2>3. QED
    BY <2>2 DEF PartInv
<1>4. CASE part \notin disturbed /\ ~Awaited(part)
  <2>1. Alone(part) /\ OnTheWay(at[c])
    BY <1>4 DEF PartInv
  <2>2. \A d \in Client : part \in Within(at'[d]) => d = c
    BY <1>1, <2>1 DEF Alone
  <2>3. Alone(part)'
    BY <2>2 DEF Alone
  <2>4. InForce(part)'
    BY <1>1, <2>1, PartsOf DEF InForce
  <2>5. \A d \in Client : part \in Within(at'[d]) => OnTheWay(at[d])'
    BY <1>1, <2>1, <2>2 DEF OnTheWay
  <2>6. QED
    BY <2>3, <2>4, <2>5 DEF PartInv
<1>5. QED
  BY <1>2, <1>3, <1>4

\* The timers beside a step of the update of access, with n to come next.
LEMMA TimersLeft ==
  ASSUME TablesInv, PartInv("timers"), NEW c \in Client, at[c].step \in AccessSteps,
         NEW r, Goto(c, r), Within(r) \subseteq {"access"}, Same("timers"),
         at[c].next = Timers => "timers" \in Unfinished(r),
         "timers" \in disturbed => "timers" \in disturbed'
  PROVE  PartInv("timers")'
<1>1. CASE "timers" \in Unfinished(r)
  <2>1. at'[c] = r
    BY OneGoes DEF TablesInv
  <2>2. QED
    BY <1>1, <2>1 DEF PartInv, Awaited
<1>2. CASE "timers" \notin Unfinished(r)
  <2>1. "timers" \notin Unfinished(at[c])
    BY <1>2, PartsOf
  <2>2. Passes("timers")
    BY <1>2, <2>1 DEF Passes
  <2>3. QED
    BY <2>2, PartLeft DEF TablesInv, Part
<1>3. QED
  BY <1>1, <1>2

\* A step that sync_repository_access_assignments takes.
LEMMA AssigningKeepsDerived ==
  ASSUME TablesInv, DerivedInv, NEW c \in Client,
         ReadRows(c) \/ WriteRows(c) \/ ReadKeys(c) \/ WriteFile(c)
  PROVE  DerivedInv'
<1>1. UNCHANGED <<host, repo, job, sched, armed>>
  BY DEF ReadRows, WriteRows, ReadKeys, WriteFile, rows, derived
<1>2. Same("timers") /\ Wanted' = Wanted
  BY <1>1, RowsSame
<1>3. at[c].step \in AccessSteps /\ ("timers" \in disturbed => "timers" \in disturbed')
  BY DEF ReadRows, WriteRows, ReadKeys, WriteFile, AccessSteps, Begin, derived
<1>4. CASE ReadRows(c)
  <2>1. PICK r : r = [step |-> "rows", want |-> Wanted, have |-> access, next |-> at[c].next]
    OBVIOUS
  <2>2. Goto(c, r) /\ Begin(c, "access") /\ access' = access
    BY <1>4, <2>1 DEF ReadRows
  <2>3. r.step = "rows" /\ r.want = Wanted /\ r.have = access /\ r.next = at[c].next
    BY <2>1
  <2>4. Within(r) = {"access"} /\ (at[c].next = Timers => "timers" \in Unfinished(r))
    BY <2>3, PartsOf DEF AccessSteps
  <2>5. OnTheWay(r)'
    BY <1>2, <2>2, <2>3 DEF OnTheWay
  <2>6. PartInv("access")'
    BY <2>2, <2>4, <2>5, BeginsPart DEF TablesInv, Part
  <2>7. PartInv("timers")'
    BY <1>2, <1>3, <2>2, <2>4, TimersLeft DEF DerivedInv
  <2>8. QED
    BY <2>6, <2>7 DEF DerivedInv
<1>5. CASE WriteRows(c)
  <2>1. PICK r : r = [step |-> "keys", next |-> at[c].next]
    OBVIOUS
  <2>2. /\ Goto(c, r) /\ at[c].step = "rows" /\ UNCHANGED disturbed
        /\ access' = (access \ (at[c].have \ at[c].want)) \cup (at[c].want \ at[c].have)
    BY <1>5, <2>1 DEF WriteRows
  <2>3. r.step = "keys" /\ r.next = at[c].next
    BY <2>1
  <2>4. /\ Within(r) = {"access"} /\ Within(at[c]) = {"access"}
        /\ at[c].next = Timers => "timers" \in Unfinished(r)
    BY <2>2, <2>3, PartsOf DEF AccessSteps
  <2>5. OnTheWay(at[c]) => OnTheWay(r)'
    <3>1. OnTheWay(at[c]) => access' = Wanted
      BY <2>2 DEF OnTheWay
    <3>2. QED
      BY <1>2, <2>3, <3>1 DEF OnTheWay
  <2>6. PartInv("access")'
    BY <2>2, <2>4, <2>5, GoesOnWithPart DEF TablesInv, DerivedInv, Part
  <2>7. PartInv("timers")'
    BY <1>2, <1>3, <2>2, <2>4, TimersLeft DEF DerivedInv
  <2>8. QED
    BY <2>6, <2>7 DEF DerivedInv
<1>6. CASE ReadKeys(c)
  <2>1. PICK r : r = [step |-> "file", lines |-> Authorized(keys), next |-> at[c].next]
    OBVIOUS
  <2>2. Goto(c, r) /\ at[c].step = "keys" /\ UNCHANGED <<access, keys, disturbed>>
    BY <1>6, <2>1 DEF ReadKeys, derived
  <2>3. r.step = "file" /\ r.next = at[c].next /\ r.lines = Authorized(keys)
    BY <2>1
  <2>4. /\ Within(r) = {"access"} /\ Within(at[c]) = {"access"}
        /\ at[c].next = Timers => "timers" \in Unfinished(r)
    BY <2>2, <2>3, PartsOf DEF AccessSteps
  <2>5. OnTheWay(at[c]) => OnTheWay(r)'
    <3>1. Authorized(keys)' = Authorized(keys)
      BY <1>1, <2>2 DEF Authorized
    <3>2. QED
      BY <1>2, <2>2, <2>3, <3>1 DEF OnTheWay
  <2>6. PartInv("access")'
    BY <2>2, <2>4, <2>5, GoesOnWithPart DEF TablesInv, DerivedInv, Part
  <2>7. PartInv("timers")'
    BY <1>2, <1>3, <2>2, <2>4, TimersLeft DEF DerivedInv
  <2>8. QED
    BY <2>6, <2>7 DEF DerivedInv
<1>7. CASE WriteFile(c)
  <2>1. PICK r : r = at[c].next
    OBVIOUS
  <2>2. /\ Goto(c, r) /\ at[c].step = "file" /\ authorized' = at[c].lines
        /\ UNCHANGED <<access, keys, disturbed>>
    BY <1>7, <2>1 DEF WriteFile
  <2>3. r.step \in {"idle", "timers", "ask"}
    BY <1>3, <2>1 DEF TablesInv, Types, RequestSound
  <2>4. /\ Within(r) = {} /\ Within(at[c]) = {"access"}
        /\ at[c].next = Timers => "timers" \in Unfinished(r)
    BY <2>1, <2>2, <2>3, PartsOf DEF Timers
  <2>5. OnTheWay(at[c]) => Reached("access")'
    <3>1. Authorized(keys)' = Authorized(keys)
      BY <1>1, <2>2 DEF Authorized
    <3>2. QED
      BY <1>2, <2>2, <3>1 DEF OnTheWay, Reached
  <2>6. PartInv("access")'
    BY <2>2, <2>4, <2>5, GoesOnWithPart DEF TablesInv, DerivedInv, Part
  <2>7. PartInv("timers")'
    BY <1>2, <1>3, <2>2, <2>4, TimersLeft DEF DerivedInv
  <2>8. QED
    BY <2>6, <2>7 DEF DerivedInv
<1>8. QED
  BY <1>4, <1>5, <1>6, <1>7

\* A step that sync_schedules takes.
LEMMA ArmingKeepsDerived ==
  ASSUME TablesInv, DerivedInv, NEW c \in Client, RemoveTimers(c) \/ AddTimer(c)
  PROVE  DerivedInv'
<1>1. /\ UNCHANGED <<host, repo, job, sched, access, keys, authorized>>
      /\ "access" \in disturbed => "access" \in disturbed'
  BY DEF RemoveTimers, AddTimer, rows, Begin
<1>2. Same("access") /\ Due' = Due
  BY <1>1, RowsSame
<1>3. at[c].step \in {"timers", "arm"}
  BY DEF RemoveTimers, AddTimer
<1>4. ASSUME NEW r, Goto(c, r), "access" \notin Unfinished(r)
      PROVE PartInv("access")'
  <2>1. "access" \notin Unfinished(at[c])
    BY <1>3, PartsOf
  <2>2. Passes("access")
    BY <1>4, <2>1 DEF Passes
  <2>3. QED
    BY <1>1, <1>2, <2>2, PartLeft DEF TablesInv, DerivedInv, Part
<1>5. CASE RemoveTimers(c)
  <2>1. PICK r : r = [step |-> "arm", due |-> Due]
    OBVIOUS
  <2>2. r.step = "arm" /\ r.due = Due
    BY <2>1
  <2>3. Goto(c, r) /\ Begin(c, "timers") /\ armed' = {}
    BY <1>5, <2>1 DEF RemoveTimers
  <2>4. Within(r) = {"timers"} /\ Unfinished(r) = {"timers"}
    BY <2>2, PartsOf
  <2>5. OnTheWay(r)'
    BY <1>2, <2>2, <2>3 DEF OnTheWay
  <2>6. PartInv("timers")'
    BY <2>3, <2>4, <2>5, BeginsPart DEF TablesInv, Part
  <2>7. QED
    BY <1>4, <2>3, <2>4, <2>6 DEF DerivedInv
<1>6. CASE AddTimer(c)
  <2>1. at[c].step = "arm" /\ UNCHANGED disturbed
    BY <1>6 DEF AddTimer
  <2>2. Within(at[c]) = {"timers"}
    BY <2>1, PartsOf
  <2>3. CASE at[c].due = {}
    <3>1. Goto(c, Idle) /\ UNCHANGED armed
      BY <1>6, <2>3 DEF AddTimer
    <3>2. Unfinished(Idle) = {} /\ Within(Idle) = {}
      BY PartsOf DEF Idle
    <3>3. OnTheWay(at[c]) => Reached("timers")'
      BY <1>2, <2>1, <2>3, <3>1 DEF OnTheWay, Reached
    <3>4. PartInv("timers")'
      BY <2>1, <2>2, <3>1, <3>2, <3>3, GoesOnWithPart DEF TablesInv, DerivedInv, Part
    <3>5. QED
      BY <1>4, <3>1, <3>2, <3>4 DEF DerivedInv
  <2>4. CASE at[c].due # {}
    <3>1. PICK s \in at[c].due :
            armed' = armed \cup {s} /\ Goto(c, [step |-> "arm", due |-> at[c].due \ {s}])
      BY <1>6, <2>4 DEF AddTimer
    <3>2. PICK r : r = [step |-> "arm", due |-> at[c].due \ {s}]
      OBVIOUS
    <3>3. r.step = "arm" /\ r.due = at[c].due \ {s} /\ Goto(c, r)
      BY <3>1, <3>2
    <3>4. OnTheWay(at[c]) => OnTheWay(r)'
      BY <1>2, <2>1, <3>1, <3>3 DEF OnTheWay
    <3>5. Within(r) = {"timers"} /\ Unfinished(r) = {"timers"}
      BY <3>3, PartsOf
    <3>6. PartInv("timers")'
      BY <2>1, <2>2, <3>3, <3>4, <3>5, GoesOnWithPart DEF TablesInv, DerivedInv, Part
    <3>7. QED
      BY <1>4, <3>3, <3>5, <3>6 DEF DerivedInv
  <2>5. QED
    BY <2>3, <2>4
<1>7. QED
  BY <1>5, <1>6

LEMMA SyncsKeepDerived ==
  ASSUME TablesInv, DerivedInv, NEW c \in Client, Sync(c)
  PROVE  DerivedInv'
<1>1. CASE SyncFails(c)
  <2>1. /\ Goto(c, Idle) /\ disturbed' = disturbed \cup Unfinished(at[c])
        /\ UNCHANGED <<host, repo, job, sched, access, keys, authorized, armed>>
    BY <1>1 DEF SyncFails, rows
  <2>2. Same("access") /\ Same("timers")
    BY <2>1, RowsSame
  <2>3. Unfinished(Idle) = {}
    BY PartsOf DEF Idle
  <2>4. ASSUME NEW part \in Part, PartInv(part), Same(part)
        PROVE PartInv(part)'
    <3>1. CASE part \in Unfinished(at[c])
      BY <2>1, <3>1 DEF PartInv
    <3>2. CASE part \notin Unfinished(at[c])
      <4>1. Passes(part)
        BY <2>1, <2>3, <3>2 DEF Passes
      <4>2. QED
        BY <2>1, <2>4, <4>1, PartLeft DEF TablesInv
    <3>3. QED
      BY <3>1, <3>2
  <2>5. QED
    BY <2>2, <2>4 DEF DerivedInv, Part
<1>2. QED
  BY <1>1, AssigningKeepsDerived, ArmingKeepsDerived DEF Sync

LEMMA RunsKeepDerived ==
  ASSUME TablesInv, DerivedInv,
         \/ \E j \in Jobs, kind \in {"backup", "check"} : QueueRun(j, kind)
         \/ \E i \in Runs : EndRun(i)
         \/ \E c \in Client : CommitCleanup(c) \/ CommitDeleteRun(c) \/ Maintain(c)
         \/ Restart
  PROVE  DerivedInv'
<1>0. ASSUME Same("access"), Same("timers"), UNCHANGED <<at, disturbed>>
      PROVE DerivedInv'
  BY <1>0, PartLeft DEF TablesInv, DerivedInv, Part, Passes
<1>1. CASE \/ \E j \in Jobs, kind \in {"backup", "check"} : QueueRun(j, kind)
           \/ \E i \in Runs : EndRun(i)
  <2>1. UNCHANGED <<host, repo, job, sched, derived, at>>
    BY <1>1 DEF QueueRun, EndRun, rows
  <2>2. QED
    BY <1>0, <2>1, RowsSame DEF derived
<1>2. ASSUME NEW c \in Client, CommitCleanup(c) \/ CommitDeleteRun(c)
      PROVE DerivedInv'
  <2>1. UNCHANGED <<host, repo, job, sched, derived>>
    BY <1>2 DEF CommitCleanup, CommitDeleteRun, AtCommit, rows
  <2>2. at[c].step = "commit" /\ \E r : Goto(c, r) /\ r.step = "idle"
    <3>1. Idle.step = "idle"
      BY DEF Idle
    <3>2. QED
      BY <1>2, <3>1 DEF CommitCleanup, CommitDeleteRun, AtCommit
  <2>3. QED
    BY <2>1, <2>2, NothingDerived
<1>3. ASSUME NEW c \in Client, Maintain(c)
      PROVE Same("access") /\ Same("timers") /\ UNCHANGED <<at, disturbed>>
  <2>1. UNCHANGED <<host, repo, job, access, keys, authorized, armed, disturbed, at>>
    BY <1>3 DEF Maintain, derived
  <2>2. \A s \in Schedule : sched[s] \in ScheduleRow /\ sched'[s] = Trimmed(sched[s])
    BY <1>3 DEF Maintain, TablesInv, Types
  <2>3. ASSUME NEW s \in Schedule
        PROVE Targets(sched[s], job)' = Targets(sched[s], job)
    <3>1. sched'[s].mode = sched[s].mode /\ sched'[s].ids = sched[s].ids \cap Named(sched[s].mode)
      BY <2>2, TrimmedIs
    <3>2. \A j \in Jobs : job[j].host \in Hosts /\ job[j].repo \in Repos
      BY DEF TablesInv, RowsSound
    <3>3. \A j \in JobId : job[j] # NoJob => job[j].host \in Hosts /\ job[j].repo \in Repos /\ j \in Jobs
      BY <3>2 DEF Jobs
    <3>4. QED
      BY <2>1, <3>1, <3>3 DEF Targets, Named
  <2>4. ASSUME NEW s \in Schedule, Targets(sched[s], job) # {}
        PROVE sched'[s].on = sched[s].on
    <3>1. \E j \in JobId : j \in Targets(sched'[s], job')
      BY <2>3, <2>4 DEF Targets
    <3>2. sched'[s].ids # {}
      BY <3>1 DEF Targets
    <3>3. sched[s].on \in BOOLEAN /\ sched'[s].on \in BOOLEAN
      BY <2>2, TrimmedIs DEF ScheduleRow
    <3>4. QED
      BY <2>2, <3>2, <3>3, TrimmedIs
  <2>5. \A s \in Schedule : sched[s].on => sched[s] # NoSchedule
    BY NoRows
  <2>6. \A s \in Schedule : sched'[s].on => sched'[s] # NoSchedule
    BY NoRows
  <2>7. \A j \in JobId : Runnable(j)' = Runnable(j)
    BY <2>1 DEF Runnable
  <2>8. \A s \in Schedule : s \in Due' <=> s \in Due
    <3>1. TAKE s \in Schedule
    <3>2. Targets(sched[s], job) \subseteq JobId
      BY DEF Targets
    <3>3. s \in Due <=> sched[s].on /\ \E j \in Targets(sched[s], job) : Runnable(j)
      BY <2>5 DEF Due, Schedules
    <3>4. s \in Due' <=> sched'[s].on /\ \E j \in Targets(sched[s], job)' : Runnable(j)'
      BY <2>6 DEF Due, Schedules
    <3>5. QED
      BY <2>3, <2>4, <2>7, <3>2, <3>3, <3>4
  <2>9. Due' = Due
    BY <2>8 DEF Due, Schedules
  <2>10. Wanted' = Wanted /\ Authorized(keys)' = Authorized(keys)
    BY <2>1 DEF Wanted, Jobs, Authorized
  <2>11. QED
    BY <2>1, <2>9, <2>10 DEF Same
<1>4. CASE Restart
  <2>1. /\ UNCHANGED <<host, repo, job, sched>> /\ access' = Wanted /\ authorized' = Authorized(keys')
        /\ armed' = Due /\ at' = [c \in Client |-> Idle]
    BY <1>4 DEF Restart, Reassign, rows
  <2>2. Wanted' = Wanted /\ Due' = Due
    BY <2>1, RowsSame
  <2>3. Authorized(keys)' = Authorized(keys')
    BY <2>1 DEF Authorized
  <2>4. Reached("access")' /\ Reached("timers")'
    BY <2>1, <2>2, <2>3 DEF Reached
  <2>5. \A c \in Client : Within(at'[c]) = {}
    BY <2>1, PartsOf DEF Idle
  <2>6. QED
    BY <2>4, <2>5 DEF DerivedInv, PartInv, Alone, InForce
<1>5. QED
  BY <1>0, <1>1, <1>2, <1>3, <1>4

LEMMA NextKeepsDerived == TablesInv /\ DerivedInv /\ [Next]_vars => DerivedInv'
<1> SUFFICES ASSUME TablesInv, DerivedInv, [Next]_vars PROVE DerivedInv'
  OBVIOUS
<1>1. ASSUME NEW c \in Client, HostRequest(c)
      PROVE DerivedInv'
  <2>1. CASE (CommitHost(c) \/ CommitEditHost(c)) /\ Refuse(c)
    BY <2>1, RefusalKeepsDerived DEF CommitHost, CommitEditHost, AtCommit
  <2>2. QED
    BY <1>1, <2>1, ReadsKeepDerived, HostsKeepDerived, CommitsKeepDerived, NewPlacesKeepDerived,
       AccessKeepsDerived DEF HostRequest
<1>2. ASSUME NEW c \in Client, RepoRequest(c)
      PROVE DerivedInv'
  BY <1>2, ReadsKeepDerived, CommitsKeepDerived, NewPlacesKeepDerived DEF RepoRequest
<1>3. ASSUME NEW c \in Client, ScheduleRequest(c)
      PROVE DerivedInv'
  BY <1>3, ReadsKeepDerived, CommitsKeepDerived DEF ScheduleRequest
<1>4. ASSUME NEW c \in Client, JobRequest(c)
      PROVE DerivedInv'
  BY <1>4, ReadsKeepDerived, CommitsKeepDerived DEF JobRequest
<1>5. ASSUME NEW c \in Client, HistoryRequest(c)
      PROVE DerivedInv'
  BY <1>5, ReadsKeepDerived, RunsKeepDerived DEF HistoryRequest
<1>6. CASE UNCHANGED vars
  <2>1. UNCHANGED <<host, repo, job, sched, derived, at>>
    BY <1>6 DEF vars, rows
  <2>2. QED
    BY <2>1, RowsSame, PartLeft DEF derived, TablesInv, DerivedInv, Part, Passes
<1>7. QED
  BY <1>1, <1>2, <1>3, <1>4, <1>5, <1>6, SyncsKeepDerived, RunsKeepDerived DEF Next

(***************************************************************************)
(* main.py:912, service.py:300-402: whatever requests do at the same time, *)
(* as soon as none of them has still to bring access up to date, or the    *)
(* timers, the access rows and authorized keys, or the timers, are those   *)
(* that jobs, devices, repositories and schedules ask for, unless the last *)
(* update failed or was made beside another one.                           *)
(***************************************************************************)
THEOREM DerivedStateInForce == Spec => []AssignmentsInForce
<1>1. TablesInv /\ DerivedInv => AssignmentsInForce
  <2> SUFFICES ASSUME TablesInv, DerivedInv PROVE AssignmentsInForce
    OBVIOUS
  <2>1. ASSUME NEW part, PartInv(part) PROVE InForce(part)
    BY <2>1 DEF PartInv, InForce, Awaited
  <2>2. QED
    BY <2>1 DEF DerivedInv, AssignmentsInForce, TablesInv, RowsSound
<1>2. QED
  BY <1>1, TablesAlways, InitDerived, NextKeepsDerived, PTL DEF Spec
-----------------------------------------------------------------------------
(* The series of archives.                                                 *)

LEMMA InitReserved == Init => ReservedInv
BY DEF Init, ReservedInv, Jobs, Runs

LEMMA NoJobsLost ==
  ASSUME TablesInv, NEW c \in Client,
         \/ CommitHost(c) \/ CommitEditHost(c)
         \/ CommitJob(c) \/ CommitEnableJob(c) \/ CommitDeleteJob(c)
  PROVE  \A j \in JobId : job[j] = NoJob => job'[j] = NoJob
<1>1. CASE job' = job
  BY <1>1
<1>2. CASE Refuse(c)
  BY <1>2 DEF Refuse, rows
<1>3. CASE (CommitHost(c) \/ CommitEditHost(c)) /\ ~Refuse(c)
  BY <1>3, HostCommits, SwitchedJobs DEF TablesInv
<1>4. CASE (CommitJob(c) \/ CommitEnableJob(c) \/ CommitDeleteJob(c)) /\ ~Refuse(c)
  <2>1. at[c].id \in Jobs /\ \E new : job' = [job EXCEPT ![at[c].id] = new]
    BY <1>4 DEF CommitJob, CommitEnableJob, CommitDeleteJob
  <2>2. QED
    BY <2>1 DEF Jobs, TablesInv, Types
<1>5. QED
  BY <1>1, <1>2, <1>3, <1>4

\* A job appears with an id that was not reserved, and with its reservation.
LEMMA JobsAppear ==
  ASSUME TablesInv, [Next]_vars
  PROVE  /\ reserved \subseteq reserved' /\ reserved' \subseteq reserved \cup JobId
         /\ \A j \in JobId : job[j] = NoJob /\ job'[j] # NoJob => j \notin reserved /\ j \in reserved'
<1> DEFINE Fine == /\ reserved \subseteq reserved' /\ reserved' \subseteq reserved \cup JobId
                   /\ \A j \in JobId : job[j] = NoJob /\ job'[j] # NoJob => j \notin reserved /\ j \in reserved'
<1>1. UNCHANGED <<job, reserved>> => Fine
  OBVIOUS
<1>2. ASSUME NEW c \in Client, HostRequest(c)
      PROVE Fine
  <2>1. CASE CommitHost(c) \/ CommitEditHost(c)
    <3>1. reserved' = reserved
      BY <2>1 DEF CommitHost, CommitEditHost, SetEnabled, Refuse, rows
    <3>2. QED
      BY <2>1, <3>1, NoJobsLost
  <2>2. CASE ~(CommitHost(c) \/ CommitEditHost(c))
    <3>1. UNCHANGED <<job, reserved>>
      BY <1>2, <2>2 DEF HostRequest, CreateHost, ReadHost, ReadEditHost, Revoke, ReadDeleteHost,
         CommitDeleteHost, ReadAccess, AskDevice, CommitAccess, Read, Refuse, rows
    <3>2. QED
      BY <3>1, <1>1
  <2>3. QED
    BY <2>1, <2>2
<1>3. ASSUME NEW c \in Client, RepoRequest(c)
      PROVE Fine
  <2>1. UNCHANGED <<job, reserved>>
    BY <1>3 DEF RepoRequest, CreateRepo, EndImport, ReadRepo, CommitRepo, ReadDeleteRepo, CommitDeleteRepo,
       Read, Refuse, rows
  <2>2. QED
    BY <2>1, <1>1
<1>4. ASSUME NEW c \in Client, ScheduleRequest(c)
      PROVE Fine
  <2>1. UNCHANGED <<job, reserved>>
    BY <1>4 DEF ScheduleRequest, CreateSchedule, ReadSchedule, CommitSchedule, DeleteSchedule,
       Read, Refuse, rows
  <2>2. QED
    BY <2>1, <1>1
<1>5. ASSUME NEW c \in Client, JobRequest(c)
      PROVE Fine
  <2>1. CASE CommitCreateJob(c) /\ ~Refuse(c)
    <3>1. /\ at[c].id \notin reserved /\ reserved' = reserved \cup {at[c].id}
          /\ job' = [job EXCEPT ![at[c].id] = at[c].new]
      BY <2>1 DEF CommitCreateJob, Reserve
    <3>2. at[c].id \in JobId
      BY <2>1 DEF CommitCreateJob, AtCommit, TablesInv, Types, RequestSound
    <3>3. QED
      BY <3>1, <3>2 DEF TablesInv, Types
  <2>2. CASE CommitJob(c) \/ CommitEnableJob(c) \/ CommitDeleteJob(c)
    <3>1. reserved' = reserved
      BY <2>2 DEF CommitJob, CommitEnableJob, CommitDeleteJob, Refuse, rows
    <3>2. QED
      BY <2>2, <3>1, NoJobsLost
  <2>3. CASE Refuse(c) \/ ReadCreateJob(c) \/ ReadJob(c) \/ ReadEnableJob(c) \/ ReadDeleteJob(c)
    <3>1. UNCHANGED <<job, reserved>>
      BY <2>3 DEF Refuse, ReadCreateJob, ReadJob, ReadEnableJob, ReadDeleteJob, Read, rows
    <3>2. QED
      BY <3>1, <1>1
  <2>4. QED
    BY <1>5, <2>1, <2>2, <2>3 DEF JobRequest
<1>6. ASSUME NEW c \in Client, HistoryRequest(c) \/ Sync(c)
      PROVE Fine
  <2>1. UNCHANGED <<job, reserved>>
    BY <1>6, SyncsLeave DEF HistoryRequest, ReadCleanup, CommitCleanup, ReadDeleteRun, CommitDeleteRun,
       Maintain, Read, rows
  <2>2. QED
    BY <2>1, <1>1
<1>7. CASE \/ \E j \in Jobs, kind \in {"backup", "check"} : QueueRun(j, kind)
           \/ \E i \in Runs : EndRun(i)
           \/ Restart
           \/ UNCHANGED vars
  <2>1. UNCHANGED <<job, reserved>>
    BY <1>7 DEF QueueRun, EndRun, Restart, vars, rows
  <2>2. QED
    BY <2>1, <1>1, SMTT(30)
<1>8. ASSUME NEW c \in Client,
             \/ HostRequest(c) \/ RepoRequest(c) \/ ScheduleRequest(c) \/ JobRequest(c)
             \/ HistoryRequest(c) \/ Sync(c)
      PROVE Fine
  BY <1>8, <1>2, <1>3, <1>4, <1>5, <1>6
<1>9. Next \/ UNCHANGED vars
  OBVIOUS
<1>10. Fine
  <2>1. CASE UNCHANGED vars
    BY <2>1, <1>7
  <2>2. CASE Next
    BY <2>2, <1>7, <1>8, Zenon DEF Next
  <2>3. QED
    BY <2>1, <2>2, <1>9
<1>11. QED
  BY <1>10
(***************************************************************************)
(* What a step does to jobs and runs: jobs alone, the end of a job or of a *)
(* repository, something about runs, or nothing.                           *)
(***************************************************************************)
JobsOnly(c) ==
  \/ CommitHost(c) \/ CommitEditHost(c)
  \/ CommitCreateJob(c) \/ CommitJob(c) \/ CommitEnableJob(c)
JobEnds(c) == CommitDeleteJob(c) /\ ~Refuse(c)
RepoEnds(c) == CommitDeleteRepo(c) /\ ~Refuse(c)
Forgets(c) == CommitCleanup(c) \/ CommitDeleteRun(c)
RunStep ==
  \/ \E j \in Jobs, kind \in {"backup", "check"} : QueueRun(j, kind)
  \/ \E i \in Runs : EndRun(i)
  \/ Restart

LEMMA StepsOfHistory ==
  ASSUME [Next]_vars
  PROVE  \/ \E c \in Client : JobsOnly(c) \/ JobEnds(c) \/ RepoEnds(c) \/ Forgets(c) \/ Maintain(c)
         \/ RunStep
         \/ UNCHANGED <<plan, job, run, series>>
<1>1. ASSUME NEW c \in Client, HostRequest(c), ~CommitHost(c), ~CommitEditHost(c)
      PROVE UNCHANGED <<plan, job, run, series>>
  BY <1>1 DEF HostRequest, CreateHost, ReadHost, ReadEditHost, Revoke, ReadDeleteHost, CommitDeleteHost,
     ReadAccess, AskDevice, CommitAccess, AtCommit, Read, Refuse, rows
<1>2. ASSUME NEW c \in Client, RepoRequest(c), ~RepoEnds(c)
      PROVE UNCHANGED <<plan, job, run, series>>
  BY <1>2 DEF RepoRequest, RepoEnds, CreateRepo, EndImport, ReadRepo, CommitRepo, ReadDeleteRepo,
     CommitDeleteRepo, AtCommit, Read, Refuse, rows
<1>3. ASSUME NEW c \in Client, ScheduleRequest(c)
      PROVE UNCHANGED <<plan, job, run, series>>
  BY <1>3 DEF ScheduleRequest, CreateSchedule, ReadSchedule, CommitSchedule, DeleteSchedule,
     AtCommit, Read, Refuse, rows
<1>4. ASSUME NEW c \in Client, JobRequest(c), ~JobsOnly(c), ~JobEnds(c)
      PROVE UNCHANGED <<plan, job, run, series>>
  BY <1>4 DEF JobRequest, JobsOnly, JobEnds, ReadCreateJob, ReadJob, ReadEnableJob, ReadDeleteJob,
     CommitDeleteJob, AtCommit, Read, Refuse, rows
<1>5. ASSUME NEW c \in Client, HistoryRequest(c) \/ Sync(c), ~Forgets(c), ~Maintain(c)
      PROVE UNCHANGED <<plan, job, run, series>>
  BY <1>5, SyncsLeave DEF HistoryRequest, Forgets, ReadCleanup, ReadDeleteRun, Read, rows
<1>6. CASE UNCHANGED vars
  BY <1>6 DEF vars, rows
<1>7. ASSUME NEW c \in Client,
             \/ HostRequest(c) \/ RepoRequest(c) \/ ScheduleRequest(c) \/ JobRequest(c)
             \/ HistoryRequest(c) \/ Sync(c)
      PROVE \/ JobsOnly(c) \/ JobEnds(c) \/ RepoEnds(c) \/ Forgets(c) \/ Maintain(c)
            \/ UNCHANGED <<plan, job, run, series>>
  BY <1>7, <1>1, <1>2, <1>3, <1>4, <1>5 DEF JobsOnly
<1>8. QED
  BY <1>6, <1>7 DEF Next, RunStep

LEMMA JobsOnlyKeeps ==
  ASSUME TablesInv, NEW c \in Client, JobsOnly(c)
  PROVE  UNCHANGED <<plan, run, series>> /\ Jobs \subseteq Jobs'
<1>1. UNCHANGED <<plan, run, series>>
  BY DEF JobsOnly, CommitHost, CommitEditHost, SetEnabled, CommitCreateJob, CommitJob, CommitEnableJob,
     AtCommit, Refuse
<1>2. TablesInv'
  BY HostsKeepTables, JobsKeepTables DEF JobsOnly
<1>3. \A j \in Jobs : job[j] \in JobRow /\ job[j].host # 0
  BY DEF TablesInv, Types, RowsSound, Jobs, Hosts, Host
<1>4. CASE Refuse(c)
  BY <1>1, <1>4 DEF Refuse, rows, Jobs
<1>5. CASE (CommitHost(c) \/ CommitEditHost(c)) /\ ~Refuse(c)
  <2>1. Jobs' = Jobs
    BY <1>5, HostCommits, SwitchedJobs DEF TablesInv
  <2>2. QED
    BY <1>1, <2>1
<1>6. CASE CommitCreateJob(c) /\ ~Refuse(c)
  <2>1. at[c].id \notin Jobs /\ job' = [job EXCEPT ![at[c].id] = at[c].new]
    BY <1>6 DEF CommitCreateJob
  <2>2. QED
    BY <1>1, <2>1 DEF Jobs, TablesInv, Types
<1>7. CASE CommitJob(c) /\ ~Refuse(c)
  <2>1. /\ at[c].id \in Jobs /\ at[c].new.host \in Hosts
        /\ job' = [job EXCEPT ![at[c].id] = Written(job[at[c].id], at[c].seen, at[c].new)]
    BY <1>7 DEF CommitJob
  <2>2. at[c].new \in JobRow /\ at[c].seen \in JobRow
    BY <1>7 DEF CommitJob, AtCommit, TablesInv, Types, RequestSound
  <2>3. Written(job[at[c].id], at[c].seen, at[c].new).host # 0
    BY <2>1, <2>2, <1>3, WrittenJob DEF Hosts, Host
  <2>4. QED
    BY <1>1, <2>1, <2>3, NoRows DEF Jobs, TablesInv, Types
<1>8. CASE CommitEnableJob(c) /\ ~Refuse(c)
  <2>1. at[c].id \in Jobs /\ \E on : job' = [job EXCEPT ![at[c].id].on = on]
    BY <1>8 DEF CommitEnableJob
  <2>2. PICK on : job' = [job EXCEPT ![at[c].id] = [job[at[c].id] EXCEPT !.on = on]]
    BY <2>1
  <2>3. \A row \in JobRow : [row EXCEPT !.on = on].host = row.host
    BY DEF JobRow
  <2>4. \A j \in Jobs : job'[j].host = job[j].host
    BY <2>2, <2>3, <1>3 DEF Jobs, TablesInv, Types
  <2>5. QED
    BY <1>1, <1>3, <2>4, NoRows DEF Jobs
<1>9. QED
  BY <1>4, <1>5, <1>6, <1>7, <1>8 DEF JobsOnly

\* x with another job or repository, and with another status or end.
Referring(x, y) ==
  /\ y \in RunRow /\ y.series = x.series /\ y.kind = x.kind
  /\ y.status = x.status /\ y.live = x.live
Ending(x, y) ==
  /\ y \in RunRow /\ y.series = x.series /\ y.kind = x.kind /\ y.job = x.job

LEMMA RunReferences ==
  ASSUME NEW x \in RunRow
  PROVE  /\ Referring(x, [x EXCEPT !.job = 0]) /\ [x EXCEPT !.job = 0].job = 0
         /\ Referring(x, [x EXCEPT !.repo = 0]) /\ [x EXCEPT !.repo = 0].job = x.job
<1>0. 0 \in 0..MaxJob /\ 0 \in 0..MaxRepo
  BY SizeAssumption
<1>1. Referring(x, [x EXCEPT !.job = 0]) /\ [x EXCEPT !.job = 0].job = 0
  BY <1>0 DEF Referring, RunRow
<1>2. Referring(x, [x EXCEPT !.repo = 0]) /\ [x EXCEPT !.repo = 0].job = x.job
  BY <1>0 DEF Referring, RunRow
<1>3. QED
  BY <1>1, <1>2

LEMMA RunFails ==
  ASSUME NEW x \in RunRow, NEW y, y = [x EXCEPT !.status = "failed"]
  PROVE  Ending(x, y) /\ y.status = "failed" /\ y.live = x.live
BY DEF Ending, RunRow

LEMMA RunLeaves ==
  ASSUME NEW x \in RunRow, NEW y, y = [x EXCEPT !.live = FALSE]
  PROVE  Ending(x, y) /\ y.status = x.status /\ ~y.live
BY DEF Ending, RunRow

LEMMA RunEnds ==
  ASSUME NEW x \in RunRow, NEW b \in {"good", "failed"}, NEW y,
         y = [x EXCEPT !.status = b, !.live = FALSE]
  PROVE  Ending(x, y) /\ y.status = b /\ ~y.live
BY DEF Ending, RunRow

LEMMA NoRunIsNone == NoRun \notin RunRow
BY DEF NoRun, RunRow, Gone
-----------------------------------------------------------------------------
(* What happens to the row of a run.                                       *)

LEMMA RunsAre ==
  ASSUME RunTypes
  PROVE  /\ \A i \in RunId : i \in Runs <=> run[i] \in RunRow
         /\ \A i \in RunId : i \notin Runs <=> run[i] = NoRun
BY NoRunIsNone DEF RunTypes, Runs

LEMMA JobEndsRuns ==
  ASSUME TablesInv, RunTypes, NEW c \in Client, JobEnds(c)
  PROVE  /\ RunTypes' /\ Runs' = Runs /\ UNCHANGED <<plan, series>>
         /\ at[c].id \in Jobs /\ Jobs' = Jobs \ {at[c].id}
         /\ \A j \in Jobs' : job'[j] = job[j]
         /\ \A i \in Runs : /\ Referring(run[i], run'[i])
                            /\ run'[i].job = IF run[i].job = at[c].id THEN 0 ELSE run[i].job
<1>1. /\ at[c].id \in Jobs /\ job' = [job EXCEPT ![at[c].id] = NoJob]
      /\ run' = [i \in RunId |-> IF i \in RunsOf(at[c].id) THEN [run[i] EXCEPT !.job = 0] ELSE run[i]]
      /\ UNCHANGED <<plan, series>>
  BY DEF JobEnds, CommitDeleteJob, AtCommit
<1>2. Jobs' = Jobs \ {at[c].id} /\ \A j \in Jobs' : job'[j] = job[j]
  BY <1>1 DEF Jobs, TablesInv, Types
<1>3. \A i \in RunId : i \in RunsOf(at[c].id) => i \in Runs /\ run[i].job = at[c].id
  BY DEF RunsOf
<1>4. \A i \in Runs : run[i] \in RunRow
  BY RunsAre DEF Runs
<1>5. \A i \in Runs : /\ Referring(run[i], run'[i])
                      /\ run'[i].job = IF run[i].job = at[c].id THEN 0 ELSE run[i].job
  <2>1. TAKE i \in Runs
  <2>2. CASE i \in RunsOf(at[c].id)
    BY <1>1, <1>3, <1>4, <2>2, RunReferences DEF Runs
  <2>3. CASE i \notin RunsOf(at[c].id)
    BY <1>1, <1>4, <2>3 DEF Runs, RunsOf, Referring
  <2>4. QED
    BY <2>2, <2>3
<1>6. \A i \in RunId : i \notin Runs => run'[i] = NoRun
  BY <1>1, <1>3 DEF Runs
<1>7. RunTypes'
  BY <1>1, <1>5, <1>6 DEF RunTypes, Referring
<1>8. Runs' = Runs
  BY <1>5, <1>6, NoRunIsNone DEF Runs, Referring
<1>9. QED
  BY <1>1, <1>2, <1>5, <1>7, <1>8

LEMMA RepoEndsRuns ==
  ASSUME RunTypes, NEW c \in Client, RepoEnds(c)
  PROVE  /\ RunTypes' /\ Runs' = Runs /\ UNCHANGED <<plan, job, series>>
         /\ \A i \in Runs : Referring(run[i], run'[i]) /\ run'[i].job = run[i].job
<1>1. /\ run' = [i \in RunId |-> IF run[i].repo = at[c].id /\ i \in Runs THEN [run[i] EXCEPT !.repo = 0] ELSE run[i]]
      /\ UNCHANGED <<plan, job, series>>
  BY DEF RepoEnds, CommitDeleteRepo, AtCommit
<1>2. \A i \in Runs : run[i] \in RunRow
  BY RunsAre DEF Runs
<1>3. \A i \in Runs : Referring(run[i], run'[i]) /\ run'[i].job = run[i].job
  <2>1. TAKE i \in Runs
  <2>2. CASE run[i].repo = at[c].id
    BY <1>1, <1>2, <2>2, RunReferences DEF Runs
  <2>3. CASE run[i].repo # at[c].id
    BY <1>1, <1>2, <2>3 DEF Runs, Referring
  <2>4. QED
    BY <2>2, <2>3
<1>4. \A i \in RunId : i \notin Runs => run'[i] = NoRun
  BY <1>1 DEF Runs
<1>5. RunTypes'
  BY <1>1, <1>3, <1>4 DEF RunTypes, Referring
<1>6. Runs' = Runs
  BY <1>3, <1>4, NoRunIsNone DEF Runs, Referring
<1>7. QED
  BY <1>1, <1>3, <1>5, <1>6

LEMMA ForgetsRuns ==
  ASSUME RunTypes, NEW c \in Client, Forgets(c)
  PROVE  /\ RunTypes' /\ UNCHANGED <<plan, job, series>> /\ Goto(c, Idle)
         /\ at[c].step = "commit" /\ at[c].kind \in {"cleanup", "delete run"}
         /\ Runs' = Runs \ at[c].id /\ \A i \in Runs' : run'[i] = run[i]
<1>1. run' = [i \in RunId |-> IF i \in at[c].id THEN NoRun ELSE run[i]]
  BY DEF Forgets, CommitCleanup, CommitDeleteRun, Forget
<1>2. /\ UNCHANGED <<plan, job, series>> /\ Goto(c, Idle)
      /\ at[c].step = "commit" /\ at[c].kind \in {"cleanup", "delete run"}
  BY DEF Forgets, CommitCleanup, CommitDeleteRun, AtCommit, rows
<1>3. Runs' = Runs \ at[c].id /\ \A i \in Runs' : run'[i] = run[i]
  BY <1>1 DEF Runs
<1>4. RunTypes'
  BY <1>1 DEF RunTypes
<1>5. QED
  BY <1>2, <1>3, <1>4

LEMMA MaintainRuns ==
  ASSUME RunTypes, NEW c \in Client, Maintain(c)
  PROVE  /\ RunTypes' /\ Runs' = Runs /\ UNCHANGED <<plan, job, series>>
         /\ "maintain" \in plan.kinds[c]
         /\ \A i \in Runs :
              \/ run'[i] = run[i]
              \/ Active(i) /\ Ending(run[i], run'[i]) /\ run'[i].status = "failed" /\ run'[i].live = run[i].live
<1>1. UNCHANGED <<plan, job, series>> /\ "maintain" \in plan.kinds[c]
  BY DEF Maintain, May
<1>2. PICK n \in 1..(MaxRun + 1) :
        run' = [i \in RunId |-> IF Active(i) /\ i < n THEN [run[i] EXCEPT !.status = "failed"] ELSE run[i]]
  BY DEF Maintain
<1>3. \A i \in Runs : run[i] \in RunRow
  BY RunsAre DEF Runs
<1>4. \A i \in Runs :
        \/ run'[i] = run[i]
        \/ Active(i) /\ Ending(run[i], run'[i]) /\ run'[i].status = "failed" /\ run'[i].live = run[i].live
  BY <1>2, <1>3, RunFails DEF Runs
<1>5. \A i \in RunId : i \notin Runs => run'[i] = NoRun
  BY <1>2 DEF Runs, Active, NoRun, Gone
<1>6. RunTypes'
  BY <1>2, <1>3, <1>4, <1>5 DEF RunTypes, Ending
<1>7. Runs' = Runs
  BY <1>3, <1>4, <1>5, NoRunIsNone DEF Runs, Ending
<1>8. QED
  BY <1>1, <1>4, <1>6, <1>7

LEMMA QueueRunRuns ==
  ASSUME TablesInv, RunTypes, NEW j \in Jobs, NEW kind \in {"backup", "check"}, QueueRun(j, kind)
  PROVE  \E i \in RunId :
           /\ RunTypes' /\ UNCHANGED <<plan, job, series, at>> /\ plan.runs
           /\ i \notin Runs /\ Runs' = Runs \cup {i} /\ \A k \in Runs : run'[k] = run[k]
           /\ run'[i].job = j /\ run'[i].series = j /\ run'[i].status = "active" /\ run'[i].live
<1> DEFINE x == [job |-> j, series |-> j, repo |-> job[j].repo,
                 kind |-> kind, status |-> "active", live |-> TRUE]
<1>1. PICK i \in RunId : i = NextId(Runs)
  BY DEF QueueRun
<1>2. i \notin Runs
  BY <1>1, NextIdFresh, SizeAssumption DEF Runs, RunId
<1>3. run' = [run EXCEPT ![i] = x] /\ UNCHANGED <<plan, job, series, at>> /\ plan.runs
  BY <1>1 DEF QueueRun, rows
<1>4. x \in RunRow
  BY DEF RunRow, TablesInv, Types, Jobs, JobRow, JobId
<1>5. RunTypes' /\ Runs' = Runs \cup {i}
  BY <1>3, <1>4, NoRunIsNone DEF RunTypes, Runs
<1>6. (\A k \in Runs : run'[k] = run[k]) /\ run'[i] = x
  BY <1>2, <1>3 DEF RunTypes, Runs
<1>7. QED
  BY <1>2, <1>3, <1>5, <1>6

LEMMA EndRunRuns ==
  ASSUME RunTypes, NEW i \in Runs, EndRun(i)
  PROVE  /\ RunTypes' /\ Runs' = Runs /\ UNCHANGED <<plan, job, at>> /\ run[i].live
         /\ \A k \in Runs \ {i} : run'[k] = run[k]
         /\ Ending(run[i], run'[i]) /\ run'[i].status \in {"good", "failed"} /\ ~run'[i].live
         /\ series \subseteq series' /\ series' \subseteq series \cup {run[i].series}
<1>1. /\ run[i].live /\ UNCHANGED <<plan, job, at>>
      /\ series \subseteq series' /\ series' \subseteq series \cup {run[i].series}
  BY DEF EndRun, rows
<1>2. PICK s \in {"good", "failed"} : run' = [run EXCEPT ![i].status = s, ![i].live = FALSE]
  BY DEF EndRun
<1>3. run[i] \in RunRow /\ i \in RunId
  BY RunsAre DEF Runs
<1>4. run' = [run EXCEPT ![i] = [run[i] EXCEPT !.status = s, !.live = FALSE]]
  BY <1>2, <1>3 DEF RunTypes
<1>5. /\ run'[i] = [run[i] EXCEPT !.status = s, !.live = FALSE]
      /\ \A k \in RunId \ {i} : run'[k] = run[k]
  BY <1>3, <1>4 DEF RunTypes
<1>6. /\ Ending(run[i], run'[i]) /\ run'[i].status \in {"good", "failed"} /\ ~run'[i].live
  <2>1. PICK x : x = run[i]
    OBVIOUS
  <2> DEFINE y == [x EXCEPT !.status = s, !.live = FALSE]
  <2>2. x \in RunRow /\ y = run'[i]
    BY <1>3, <1>5, <2>1, ZenonT(40)
  <2>3. Ending(x, y) /\ y.status = s /\ ~y.live
    BY <1>2, <2>2, RunEnds
  <2> HIDE DEF y
  <2>4. QED
    BY <1>2, <2>1, <2>2, <2>3
<1>7. RunTypes' /\ Runs' = Runs
  BY <1>3, <1>4, <1>5, <1>6, NoRunIsNone DEF RunTypes, Runs, Ending
<1>8. QED
  BY <1>1, <1>5, <1>6, <1>7 DEF Runs

LEMMA RestartRuns ==
  ASSUME RunTypes, Restart
  PROVE  /\ RunTypes' /\ Runs' \subseteq Runs /\ UNCHANGED <<plan, job, series>>
         /\ \A c \in Client : at'[c] = Idle
         /\ Retained \subseteq Runs'
         /\ \A i \in Runs' : /\ Ending(run[i], run'[i]) /\ ~run'[i].live
                             /\ run'[i].status = IF Active(i) THEN "failed" ELSE run[i].status
<1> DEFINE closed == [i \in RunId |-> IF Active(i) THEN [run[i] EXCEPT !.status = "failed", !.live = FALSE]
                                      ELSE [run[i] EXCEPT !.live = FALSE]]
<1>1. UNCHANGED <<plan, job, series>> /\ \A c \in Client : at'[c] = Idle
  BY DEF Restart, rows
<1>2. PICK n \in 1..(MaxRun + 1) :
        run' = [i \in RunId |-> IF i < n /\ i \notin Retained THEN NoRun ELSE closed[i]]
  BY DEF Restart
<1>3. \A i \in Runs : run[i] \in RunRow /\ i \in RunId
  BY RunsAre DEF Runs
<1>4. \A i \in Runs : /\ closed[i] \in RunRow /\ Ending(run[i], closed[i]) /\ ~closed[i].live
                      /\ closed[i].status = IF Active(i) THEN "failed" ELSE run[i].status
  <2>1. TAKE i \in Runs
  <2>2. CASE Active(i)
    <3>1. closed[i] = [run[i] EXCEPT !.status = "failed", !.live = FALSE]
      BY <1>3, <2>2, ZenonT(40)
    <3> HIDE DEF closed
    <3>2. Ending(run[i], closed[i]) /\ closed[i].status = "failed" /\ ~closed[i].live
      BY <1>3, <3>1, RunEnds
    <3>3. QED
      BY <2>2, <3>2 DEF Ending
  <2>3. CASE ~Active(i)
    <3>1. closed[i] = [run[i] EXCEPT !.live = FALSE]
      BY <1>3, <2>3
    <3>2. QED
      BY <1>3, <2>3, <3>1, RunLeaves, ZenonT(40) DEF Ending
  <2>4. QED
    BY <2>2, <2>3
<1>5. \A i \in RunId : i \notin Runs => closed[i] = NoRun
  <2> DEFINE R == [job : {0}, series : {0}, repo : {0}, kind : {Gone}, status : {Gone}, live : BOOLEAN]
  <2>1. \A x \in R : ~x.live => [x EXCEPT !.live = FALSE] = x
    OBVIOUS
  <2>2. NoRun \in R /\ ~NoRun.live /\ NoRun.status # "active"
    BY DEF NoRun, Gone
  <2>3. QED
    BY <2>1, <2>2 DEF Runs, Active
<1> HIDE DEF closed
<1>6. \A i \in RunId : run'[i] = NoRun \/ (i \in Runs /\ run'[i] = closed[i])
  BY <1>2, <1>5
<1>7. RunTypes'
  BY <1>2, <1>4, <1>6 DEF RunTypes
<1>8. Runs' \subseteq Runs /\ \A i \in Runs' : run'[i] = closed[i]
  BY <1>6 DEF Runs
<1>9. Retained \subseteq Runs'
  BY <1>2, <1>3, <1>4, NoRunIsNone DEF Retained, Runs
<1>10. QED
  BY <1>1, <1>4, <1>7, <1>8, <1>9
LEMMA InitRuns == Init => RunsSound
<1> SUFFICES ASSUME Init PROVE RunsSound
  OBVIOUS
<1>1. run = [i \in RunId |-> NoRun]
  BY DEF Init
<1>2. Runs = {} /\ RunTypes
  BY <1>1 DEF Runs, RunTypes
<1>3. QED
  BY <1>2 DEF RunsSound

LEMMA NextKeepsRuns == TablesInv /\ RunsSound /\ [Next]_vars => RunsSound'
<1> SUFFICES ASSUME TablesInv, RunsSound, [Next]_vars PROVE RunsSound'
  OBVIOUS
<1> USE DEF RunsSound
<1>0. \A i \in Runs : run[i] \in RunRow
  BY RunsAre DEF Runs
<1>1. ASSUME NEW c \in Client, JobsOnly(c)
      PROVE RunsSound'
  BY <1>1, JobsOnlyKeeps DEF RunTypes, Runs, Active, Maintains
<1>2. ASSUME NEW c \in Client, JobEnds(c)
      PROVE RunsSound'
  <2>1. /\ RunTypes' /\ Runs' = Runs /\ plan' = plan /\ Jobs' = Jobs \ {at[c].id}
        /\ \A i \in Runs : /\ run'[i].status = run[i].status /\ run'[i].live = run[i].live
                           /\ run'[i].job = IF run[i].job = at[c].id THEN 0 ELSE run[i].job
    BY <1>2, JobEndsRuns DEF Referring
  <2>2. QED
    BY <2>1 DEF Active, Maintains
<1>3. ASSUME NEW c \in Client, RepoEnds(c)
      PROVE RunsSound'
  <2>1. /\ RunTypes' /\ Runs' = Runs /\ plan' = plan /\ Jobs' = Jobs
        /\ \A i \in Runs : /\ run'[i].status = run[i].status /\ run'[i].live = run[i].live
                           /\ run'[i].job = run[i].job
    BY <1>3, RepoEndsRuns DEF Referring, Jobs
  <2>2. QED
    BY <2>1 DEF Active, Maintains
<1>4. ASSUME NEW c \in Client, Forgets(c)
      PROVE RunsSound'
  <2>1. /\ RunTypes' /\ Runs' \subseteq Runs /\ plan' = plan /\ Jobs' = Jobs
        /\ \A i \in Runs' : run'[i] = run[i]
    BY <1>4, ForgetsRuns DEF Jobs
  <2>2. QED
    BY <2>1 DEF Active, Maintains
<1>5. ASSUME NEW c \in Client, Maintain(c)
      PROVE RunsSound'
  <2>1. /\ RunTypes' /\ Runs' = Runs /\ plan' = plan /\ Jobs' = Jobs /\ Maintains
        /\ \A i \in Runs : run'[i].job = run[i].job /\ run'[i].live = run[i].live
        /\ \A i \in Runs : run'[i].status \in {run[i].status, "failed"}
    BY <1>5, MaintainRuns DEF Ending, Jobs, Maintains
  <2>2. QED
    BY <2>1 DEF Maintains
<1>6. ASSUME NEW j \in Jobs, NEW kind \in {"backup", "check"}, QueueRun(j, kind)
      PROVE RunsSound'
  <2>1. PICK i \in RunId :
           /\ RunTypes' /\ UNCHANGED <<plan, job>> /\ plan.runs
           /\ i \notin Runs /\ Runs' = Runs \cup {i} /\ \A k \in Runs : run'[k] = run[k]
           /\ run'[i].job = j /\ run'[i].status = "active" /\ run'[i].live
    BY <1>6, QueueRunRuns
  <2>2. Jobs' = Jobs
    BY <2>1 DEF Jobs
  <2>3. QED
    BY <2>1, <2>2 DEF Active, Maintains
<1>7. ASSUME NEW i \in Runs, EndRun(i)
      PROVE RunsSound'
  <2>1. /\ RunTypes' /\ Runs' = Runs /\ UNCHANGED <<plan, job>>
        /\ \A k \in Runs \ {i} : run'[k] = run[k]
        /\ run'[i].job = run[i].job /\ run'[i].status \in {"good", "failed"} /\ ~run'[i].live
    BY <1>7, EndRunRuns DEF Ending
  <2>2. Jobs' = Jobs
    BY <2>1 DEF Jobs
  <2>3. QED
    BY <2>1, <2>2 DEF Active, Maintains
<1>8. CASE Restart
  <2>1. /\ RunTypes' /\ Runs' \subseteq Runs /\ UNCHANGED <<plan, job>>
        /\ \A i \in Runs' : /\ run'[i].job = run[i].job /\ ~run'[i].live
                            /\ run'[i].status = IF Active(i) THEN "failed" ELSE run[i].status
    BY <1>8, RestartRuns DEF Ending
  <2>2. Jobs' = Jobs
    BY <2>1 DEF Jobs
  <2>3. QED
    BY <2>1, <2>2 DEF Active, Maintains
<1>9. CASE UNCHANGED <<plan, job, run, series>>
  BY <1>9 DEF RunTypes, Runs, Jobs, Active, Maintains
<1>10. QED
  BY StepsOfHistory, <1>1, <1>2, <1>3, <1>4, <1>5, <1>6, <1>7, <1>8, <1>9 DEF RunStep

LEMMA RunsAlways == Spec => [](TablesInv /\ RunsSound)
<1>1. Init => TablesInv /\ RunsSound
  BY InitTables, InitRuns
<1>2. TablesInv /\ RunsSound /\ [Next]_vars => (TablesInv /\ RunsSound)'
  BY NextKeepsTables, NextKeepsRuns
<1>3. QED
  BY <1>1, <1>2, PTL DEF Spec

\* Nothing but the end of a run names a series, and runs keep theirs.
LEMMA NextKeepsReserved == TablesInv /\ RunsSound /\ ReservedInv /\ [Next]_vars => ReservedInv'
<1> SUFFICES ASSUME TablesInv, RunsSound, ReservedInv, [Next]_vars PROVE ReservedInv'
  OBVIOUS
<1>1. reserved \subseteq reserved' /\ Jobs' \subseteq reserved' /\ reserved' \subseteq JobId
  BY JobsAppear DEF ReservedInv, Jobs
<1>2. ASSUME series' = series, Runs' \subseteq Runs, \A i \in Runs' : run'[i].series = run[i].series
      PROVE ReservedInv'
  BY <1>1, <1>2 DEF ReservedInv
<1>3. ASSUME NEW c \in Client, JobsOnly(c) \/ JobEnds(c) \/ RepoEnds(c) \/ Forgets(c) \/ Maintain(c)
      PROVE ReservedInv'
  <2>1. CASE JobsOnly(c)
    BY <2>1, <1>2, JobsOnlyKeeps DEF Runs
  <2>2. CASE JobEnds(c)
    BY <2>2, <1>2, JobEndsRuns DEF RunsSound, Referring
  <2>3. CASE RepoEnds(c)
    BY <2>3, <1>2, RepoEndsRuns DEF RunsSound, Referring
  <2>4. CASE Forgets(c)
    BY <2>4, <1>2, ForgetsRuns DEF RunsSound
  <2>5. CASE Maintain(c)
    BY <2>5, <1>2, MaintainRuns DEF RunsSound, Ending
  <2>6. QED
    BY <1>3, <2>1, <2>2, <2>3, <2>4, <2>5
<1>4. ASSUME NEW j \in Jobs, NEW kind \in {"backup", "check"}, QueueRun(j, kind)
      PROVE ReservedInv'
  <2>1. PICK i \in RunId :
           /\ series' = series /\ Runs' = Runs \cup {i} /\ run'[i].series = j
           /\ \A k \in Runs : run'[k] = run[k]
    BY <1>4, QueueRunRuns DEF RunsSound
  <2>2. QED
    BY <2>1, <1>1 DEF ReservedInv
<1>5. ASSUME NEW i \in Runs, EndRun(i)
      PROVE ReservedInv'
  <2>1. /\ Runs' = Runs /\ \A k \in Runs : run'[k].series = run[k].series
        /\ series' \subseteq series \cup {run[i].series}
    BY <1>5, EndRunRuns DEF RunsSound, Ending
  <2>2. QED
    BY <2>1, <1>1 DEF ReservedInv
<1>6. CASE Restart
  BY <1>6, <1>2, RestartRuns DEF RunsSound, Ending
<1>7. CASE UNCHANGED <<plan, job, run, series>>
  BY <1>7, <1>2 DEF Runs
<1>8. QED
  BY StepsOfHistory, <1>3, <1>4, <1>5, <1>6, <1>7 DEF RunStep

(***************************************************************************)
(* main.py:741, models.py:93: the id of a job after which an archive was   *)
(* named is never given to another job, however jobs, runs and their       *)
(* records come and go: everything that refers to a job was reserved.      *)
(***************************************************************************)
THEOREM SeriesNeverContinued == Spec => ArchiveSeriesFresh
<1>1. TablesInv /\ ReservedInv /\ [Next]_vars =>
        [\A j \in series : job[j] = NoJob => job'[j] = NoJob]_vars
  <2> SUFFICES ASSUME TablesInv, ReservedInv, [Next]_vars, NEW j \in series, job[j] = NoJob
               PROVE  job'[j] = NoJob
    OBVIOUS
  <2>1. j \in reserved /\ j \in JobId
    BY DEF ReservedInv
  <2>2. QED
    BY <2>1, JobsAppear
<1>2. QED
  BY <1>1, InitReserved, NextKeepsReserved, RunsAlways, PTL DEF Spec, ArchiveSeriesFresh
-----------------------------------------------------------------------------
(* Schedules.                                                              *)

Acts(c) ==
  \/ HostRequest(c) \/ RepoRequest(c) \/ ScheduleRequest(c) \/ JobRequest(c)
  \/ HistoryRequest(c) \/ Sync(c)

Looks(c) ==
  \/ ReadHost(c) \/ ReadEditHost(c) \/ ReadDeleteHost(c) \/ ReadRepo(c) \/ ReadDeleteRepo(c)
  \/ ReadSchedule(c) \/ ReadCreateJob(c) \/ ReadJob(c) \/ ReadEnableJob(c) \/ ReadDeleteJob(c)
  \/ ReadCleanup(c) \/ ReadDeleteRun(c)

\* A request concerns its client's place only, and is to commit after it has read,
\* or after it has asked a device for its key.
LEMMA ActsAlone ==
  ASSUME TablesInv, NEW c \in Client, Acts(c)
  PROVE  /\ plan' = plan /\ \A d \in Client : d # c => at'[d] = at[d]
         /\ Looks(c) \/ at'[c].step # "commit" \/ at'[c].kind = "access"
<1>0. at = [d \in Client |-> at[d]]
  BY DEF TablesInv, Types
<1> DEFINE Fine == /\ plan' = plan /\ \A d \in Client : d # c => at'[d] = at[d]
                   /\ Looks(c) \/ at'[c].step # "commit" \/ at'[c].kind = "access"
<1>1. /\ Idle.step # "commit" /\ Timers.step # "commit"
      /\ \A n : [step |-> "assign", next |-> n].step # "commit"
      /\ \A i, n : [step |-> "revoke", id |-> i, next |-> n].step # "commit"
      /\ \A i : [step |-> "import", id |-> i].step # "commit"
      /\ \A i : [step |-> "commit", kind |-> "access", id |-> i].kind = "access"
  BY DEF Idle, Timers
<1>a. ASSUME NEW r, Goto(c, r), plan' = plan, r.step # "commit" \/ r.kind = "access"
      PROVE Fine
  BY <1>0, <1>a DEF Goto
<1>b. ASSUME Looks(c), NEW r, Goto(c, r), plan' = plan
      PROVE Fine
  BY <1>0, <1>b DEF Goto
<1>c. ASSUME Looks(c), NEW k, NEW i, NEW n, NEW s, Read(c, k, i, n, s)
      PROVE Fine
  BY <1>b, <1>c DEF Read
<1>2. CASE UNCHANGED <<plan, at>> /\ at[c] = Idle
  BY <1>1, <1>2
<1>3. CASE HostRequest(c)
  <2>1. CASE CreateHost(c)
    BY <2>1, <1>2 DEF CreateHost, May
  <2>2. CASE ReadHost(c) \/ ReadEditHost(c) \/ ReadDeleteHost(c)
    BY <2>2, <1>c DEF ReadHost, ReadEditHost, ReadDeleteHost, Looks
  <2>3. CASE ReadAccess(c) \/ AskDevice(c) \/ CommitAccess(c)
    BY <2>3, <1>1, <1>a DEF ReadAccess, AskDevice, CommitAccess, AtCommit, Assign
  <2>4. CASE CommitHost(c) \/ CommitEditHost(c)
    BY <2>4, <1>1, <1>a DEF CommitHost, CommitEditHost, AtCommit, Refuse, SyncAll, Assign
  <2>5. CASE Revoke(c) \/ CommitDeleteHost(c)
    BY <2>5, <1>1, <1>a DEF Revoke, CommitDeleteHost, AtCommit, Refuse, SyncAll, Assign
  <2>6. QED
    BY <1>3, <2>1, <2>2, <2>3, <2>4, <2>5 DEF HostRequest
<1>4. CASE RepoRequest(c)
  <2>1. CASE CreateRepo(c)
    BY <2>1, <1>1, <1>2, <1>a DEF CreateRepo, May
  <2>2. CASE ReadRepo(c) \/ ReadDeleteRepo(c)
    BY <2>2, <1>c DEF ReadRepo, ReadDeleteRepo, Looks
  <2>3. CASE EndImport(c) \/ CommitRepo(c) \/ CommitDeleteRepo(c)
    BY <2>3, <1>1, <1>a DEF EndImport, CommitRepo, CommitDeleteRepo, AtCommit, Refuse, SyncAll, Assign
  <2>4. QED
    BY <1>4, <2>1, <2>2, <2>3 DEF RepoRequest
<1>5. CASE ScheduleRequest(c)
  <2>1. CASE ReadSchedule(c)
    BY <2>1, <1>c DEF ReadSchedule, Looks
  <2>2. CASE CreateSchedule(c) \/ CommitSchedule(c) \/ DeleteSchedule(c)
    BY <2>2, <1>1, <1>a DEF CreateSchedule, CommitSchedule, DeleteSchedule, AtCommit, Refuse, SyncTimers
  <2>3. QED
    BY <1>5, <2>1, <2>2 DEF ScheduleRequest
<1>6. CASE JobRequest(c)
  <2>1. CASE ReadCreateJob(c) \/ ReadJob(c) \/ ReadEnableJob(c) \/ ReadDeleteJob(c)
    BY <2>1, <1>c DEF ReadCreateJob, ReadJob, ReadEnableJob, ReadDeleteJob, Looks
  <2>2. CASE CommitCreateJob(c) \/ CommitJob(c) \/ CommitEnableJob(c) \/ CommitDeleteJob(c)
    BY <2>2, <1>1, <1>a DEF CommitCreateJob, CommitJob, CommitEnableJob, CommitDeleteJob, AtCommit, Refuse,
       SyncAll, SyncTimers, Assign
  <2>3. QED
    BY <1>6, <2>1, <2>2 DEF JobRequest
<1>7. CASE HistoryRequest(c)
  <2>1. CASE ReadCleanup(c) \/ ReadDeleteRun(c)
    BY <2>1, <1>c DEF ReadCleanup, ReadDeleteRun, Looks
  <2>2. CASE CommitCleanup(c) \/ CommitDeleteRun(c)
    BY <2>2, <1>1, <1>a DEF CommitCleanup, CommitDeleteRun, AtCommit
  <2>3. CASE Maintain(c)
    BY <2>3, <1>2 DEF Maintain, May
  <2>4. QED
    BY <1>7, <2>1, <2>2, <2>3 DEF HistoryRequest
<1>8. CASE Sync(c)
  BY <1>8, <1>a, SyncsLeaveRows
<1>9. QED
  BY <1>3, <1>4, <1>5, <1>6, <1>7, <1>8 DEF Acts

\* Every step is of one client, or leaves the requests, or ends them all.
LEMMA StepsOfRequests ==
  ASSUME [Next]_vars
  PROVE  \/ \E c \in Client : Acts(c)
         \/ RunStep /\ ~Restart
         \/ Restart
         \/ UNCHANGED vars
BY DEF Next, Acts, RunStep

\* What is read is as it is, and of a kind that the client asks for.
LEMMA LooksFresh ==
  ASSUME TablesInv, NEW c \in Client, Looks(c)
  PROVE  /\ UNCHANGED <<plan, host, repo, job, sched, reserved, run, series>>
         /\ at'[c].step = "commit" /\ at'[c].kind \in plan.kinds[c]
         /\ ReservedInv /\ ScheduleInv => StillRead(at'[c])
<1>0. at = [d \in Client |-> at[d]]
  BY DEF TablesInv, Types
<1> DEFINE R(k, i, n, s) == [step |-> "commit", kind |-> k, id |-> i, new |-> n, seen |-> s]
<1> DEFINE Fresh(k, i, n, s) ==
     /\ Read(c, k, i, n, s) /\ k \in plan.kinds[c]
     /\ ReservedInv /\ ScheduleInv => StillRead(R(k, i, n, s))
<1>1. CASE \E k, i, n, s : Fresh(k, i, n, s)
  <2>1. PICK k, i, n, s : Fresh(k, i, n, s)
    BY <1>1
  <2>2. at'[c] = R(k, i, n, s) /\ UNCHANGED <<plan, host, repo, job, sched, reserved, run, series>>
    BY <2>1, <1>0 DEF Read, Goto, rows
  <2>3. QED
    BY <2>1, <2>2
<1>2. CASE \/ ReadHost(c) \/ ReadEditHost(c) \/ ReadDeleteHost(c) \/ ReadRepo(c) \/ ReadDeleteRepo(c)
           \/ ReadCreateJob(c) \/ ReadEnableJob(c) \/ ReadCleanup(c) \/ ReadDeleteRun(c)
  <2>1. \E k, i, n, s : k \in Kinds \ {"schedule", "job", "delete job"} /\
          Read(c, k, i, n, s) /\ k \in plan.kinds[c]
    BY <1>2 DEF ReadHost, ReadEditHost, ReadDeleteHost, ReadRepo, ReadDeleteRepo, ReadCreateJob, ReadEnableJob,
       ReadCleanup, ReadDeleteRun, May, Kinds
  <2>2. ASSUME NEW k \in Kinds \ {"schedule", "job", "delete job"}, NEW i, NEW n, NEW s
        PROVE StillRead(R(k, i, n, s))
    BY DEF StillRead, ScheduleRead, JobRead, ListsRead
  <2>3. QED
    BY <1>1, <2>1, <2>2
<1>4. CASE ReadSchedule(c)
  <2>1. PICK s \in Schedules, t \in plan.schedules : Read(c, "schedule", s, t, sched[s]) /\ "schedule" \in plan.kinds[c]
    BY <1>4 DEF ReadSchedule, May
  <2>2. StillRead(R("schedule", s, t, sched[s]))
    BY DEF StillRead, ScheduleRead, JobRead, ListsRead
  <2>3. QED
    BY <1>1, <2>1, <2>2
<1>5. CASE ReadJob(c)
  <2>1. PICK j \in Jobs, new \in plan.jobs : Read(c, "job", j, new, job[j]) /\ "job" \in plan.kinds[c]
    BY <1>5 DEF ReadJob, May
  <2>2. ReservedInv => StillRead(R("job", j, new, job[j]))
    BY DEF StillRead, ScheduleRead, JobRead, ListsRead, ReservedInv
  <2>3. QED
    BY <1>1, <2>1, <2>2
<1>6. CASE ReadDeleteJob(c)
  <2>1. PICK j \in Jobs : Read(c, "delete job", j, Gone, sched) /\ "delete job" \in plan.kinds[c]
    BY <1>6 DEF ReadDeleteJob, May
  <2>2. ScheduleInv => StillRead(R("delete job", j, Gone, sched))
    BY DEF StillRead, ScheduleRead, JobRead, ListsRead, ScheduleInv
  <2>3. QED
    BY <1>1, <2>1, <2>2
<1>7. QED
  BY <1>2, <1>4, <1>5, <1>6 DEF Looks
\* What becomes of the row of a schedule that is not asked to change.
Shrunk(t, u) ==
  \/ u = t \/ u = NoSchedule
  \/ /\ t # NoSchedule /\ u.mode = t.mode /\ u.ids \subseteq t.ids /\ (u.on => t.on)
     /\ t.mode = "jobs" => u.ids \cap Jobs = t.ids \cap Jobs

HostEnds(c) == CommitDeleteHost(c) /\ ~Refuse(c)
Changes(c) == CommitSchedule(c) /\ ~Refuse(c)
Shrinking(c) == HostEnds(c) \/ RepoEnds(c) \/ DeleteSchedule(c) \/ Maintain(c)

LEMMA ShrinkingShrinks ==
  ASSUME TablesInv, NEW c \in Client, Shrinking(c)
  PROVE  UNCHANGED <<job, reserved>> /\ \A s \in Schedule : Shrunk(sched[s], sched'[s])
<1>0. \A s \in Schedule : sched[s] \in ScheduleRow
  BY DEF TablesInv, Types
<1>1. CASE HostEnds(c)
  <2>1. UNCHANGED <<job, reserved>> /\ sched' = Without("hosts", at[c].id, sched)
    BY <1>1 DEF HostEnds, CommitDeleteHost
  <2>2. ASSUME NEW s \in Schedule
        PROVE Shrunk(sched[s], sched'[s])
    <3>1. \/ sched'[s] = sched[s] \/ sched'[s] = NoSchedule
          \/ sched[s].mode = "hosts" /\ sched'[s] = [sched[s] EXCEPT !.ids = sched[s].ids \ {at[c].id}]
      <4>1. \/ Without("hosts", at[c].id, sched)[s] = sched[s]
            \/ Without("hosts", at[c].id, sched)[s] = NoSchedule
            \/ /\ sched[s].mode = "hosts" /\ sched[s].mode = "hosts"
               /\ Without("hosts", at[c].id, sched)[s] = [sched[s] EXCEPT !.ids = sched[s].ids \ {at[c].id}]
        BY WithoutIs
      <4>2. sched'[s] = Without("hosts", at[c].id, sched)[s]
        BY <2>1, Zenon
      <4>3. QED
        BY <4>1, <4>2, Zenon
    <3>2. CASE sched[s].mode = "hosts" /\ sched'[s] = [sched[s] EXCEPT !.ids = sched[s].ids \ {at[c].id}]
      <4>1. /\ sched'[s].mode = "hosts" /\ sched'[s].ids \subseteq sched[s].ids
            /\ sched'[s].on = sched[s].on
        BY <1>0, <3>2 DEF ScheduleRow
      <4>2. sched[s] # NoSchedule
        BY <3>2 DEF NoSchedule, Gone
      <4>3. QED
        BY <3>2, <4>1, <4>2 DEF Shrunk
    <3>3. QED
      BY <3>1, <3>2 DEF Shrunk
  <2>3. QED
    BY <2>1, <2>2
<1>2. CASE RepoEnds(c)
  BY <1>2 DEF RepoEnds, CommitDeleteRepo, Shrunk
<1>3. CASE DeleteSchedule(c)
  <2>1. UNCHANGED <<job, reserved>> /\ \E s \in Schedules : sched' = [sched EXCEPT ![s] = NoSchedule]
    BY <1>3 DEF DeleteSchedule
  <2>2. QED
    BY <2>1 DEF Shrunk, TablesInv, Types
<1>4. CASE Maintain(c)
  <2>1. UNCHANGED <<job, reserved>> /\ \A s \in Schedule : sched'[s] = Trimmed(sched[s])
    BY <1>4 DEF Maintain
  <2>2. ASSUME NEW s \in Schedule
        PROVE Shrunk(sched[s], sched'[s])
    <3>1. /\ sched'[s] \in ScheduleRow /\ sched'[s].mode = sched[s].mode
          /\ sched'[s].ids = sched[s].ids \cap Named(sched[s].mode) /\ (sched'[s].on => sched[s].on)
      BY <1>0, <2>1, TrimmedIs
    <3>2. CASE sched[s] = NoSchedule
      <4>1. sched'[s].mode = Gone /\ sched'[s].ids = {} /\ sched'[s].on = FALSE
        BY <3>1, <3>2 DEF NoSchedule, ScheduleRow
      <4>2. sched'[s] = [mode |-> Gone, ids |-> {}, on |-> FALSE]
        BY <3>1, <4>1 DEF ScheduleRow
      <4>3. QED
        BY <4>2 DEF Shrunk, NoSchedule
    <3>3. CASE sched[s] # NoSchedule
      BY <3>1, <3>3 DEF Shrunk, Named
    <3>4. QED
      BY <3>2, <3>3
  <2>3. QED
    BY <2>1, <2>2
<1>5. QED
  BY <1>1, <1>2, <1>3, <1>4 DEF Shrinking

LEMMA StepsOfSchedules ==
  ASSUME NEW c \in Client, Acts(c)
  PROVE  \/ JobsOnly(c) /\ sched' = sched
         \/ JobEnds(c) \/ Shrinking(c) \/ CreateSchedule(c) \/ Changes(c)
         \/ UNCHANGED <<job, sched>>
<1>1. CASE HostRequest(c)
  BY <1>1 DEF HostRequest, JobsOnly, Shrinking, HostEnds, CreateHost, ReadHost, CommitHost, ReadEditHost,
     CommitEditHost, SetEnabled, Revoke, ReadDeleteHost, CommitDeleteHost, ReadAccess, AskDevice, CommitAccess,
     AtCommit, Read, Refuse, rows
<1>2. CASE RepoRequest(c)
  BY <1>2 DEF RepoRequest, Shrinking, RepoEnds, CreateRepo, EndImport, ReadRepo, CommitRepo, ReadDeleteRepo,
     CommitDeleteRepo, AtCommit, Read, Refuse, rows
<1>3. CASE ScheduleRequest(c)
  BY <1>3 DEF ScheduleRequest, Shrinking, Changes, ReadSchedule, CommitSchedule, Read, Refuse, rows
<1>4. CASE JobRequest(c)
  BY <1>4 DEF JobRequest, JobsOnly, JobEnds, ReadCreateJob, ReadJob, ReadEnableJob, ReadDeleteJob,
     CommitCreateJob, CommitJob, CommitEnableJob, CommitDeleteJob, AtCommit, Read, Refuse, rows
<1>5. CASE HistoryRequest(c) \/ Sync(c)
  BY <1>5, SyncsLeave DEF HistoryRequest, Shrinking, ReadCleanup, CommitCleanup, ReadDeleteRun, CommitDeleteRun,
     Read, rows
<1>6. QED
  BY <1>1, <1>2, <1>3, <1>4, <1>5 DEF Acts

\* A job stays on its device and in its repository unless it is edited.
LEMMA JobsStay ==
  ASSUME TablesInv, NEW c \in Client, JobsOnly(c), ~CommitJob(c)
  PROVE  \A j \in Jobs : job'[j].host = job[j].host /\ job'[j].repo = job[j].repo
<1>0. \A j \in Jobs : job[j] \in JobRow
  BY DEF TablesInv, Types, Jobs
<1>1. CASE Refuse(c)
  BY <1>1 DEF Refuse, rows
<1>2. CASE (CommitHost(c) \/ CommitEditHost(c)) /\ ~Refuse(c)
  BY <1>2, HostCommits, SwitchedJobs DEF TablesInv, Jobs
<1>3. CASE CommitCreateJob(c) /\ ~Refuse(c)
  BY <1>3 DEF CommitCreateJob, Jobs, TablesInv, Types
<1>4. CASE CommitEnableJob(c) /\ ~Refuse(c)
  <2>1. PICK on : job' = [job EXCEPT ![at[c].id].on = on]
    BY <1>4 DEF CommitEnableJob
  <2>2. job' = [job EXCEPT ![at[c].id] = [job[at[c].id] EXCEPT !.on = on]]
    BY <2>1
  <2>3. \A row \in JobRow : [row EXCEPT !.on = on].host = row.host /\ [row EXCEPT !.on = on].repo = row.repo
    BY DEF JobRow
  <2>4. QED
    BY <2>2, <2>3, <1>0 DEF Jobs, TablesInv, Types
<1>5. QED
  BY <1>1, <1>2, <1>3, <1>4 DEF JobsOnly
\* Deleting a job takes it out of the lists that name it, as they were or as they are.
LEMMA JobEndsIs ==
  ASSUME TablesInv, ReservedInv, ScheduleInv, NEW c \in Client, JobEnds(c)
  PROVE  /\ at[c].kind = "delete job" /\ "delete job" \in plan.kinds[c]
         /\ at[c].id \in Jobs /\ Jobs' = Jobs \ {at[c].id} /\ \A j \in Jobs' : job'[j] = job[j]
         /\ reserved' = reserved
         /\ \A s \in Schedule :
              \/ sched'[s] = sched[s] \/ sched'[s] = NoSchedule
              \/ /\ sched[s].mode = "jobs" /\ sched'[s].mode = "jobs" /\ (sched'[s].on <=> sched[s].on)
                 /\ sched'[s].ids \subseteq reserved
                 /\ sched'[s].ids \cap Jobs' = sched[s].ids \cap Jobs'
<1>1. PICK from \in {sched, at[c].seen} :
        /\ at[c].id \in Jobs /\ job' = [job EXCEPT ![at[c].id] = NoJob]
        /\ sched' = Without("jobs", at[c].id, from)
        /\ reserved' = reserved
        /\ at[c].step = "commit" /\ at[c].kind = "delete job"
  BY DEF JobEnds, CommitDeleteJob, AtCommit
<1>2. Jobs' = Jobs \ {at[c].id} /\ \A j \in Jobs' : job'[j] = job[j]
  BY <1>1 DEF Jobs, TablesInv, Types
<1>3. "delete job" \in plan.kinds[c]
  BY <1>1 DEF ScheduleInv, OfItsKind
<1>4. StillRead(at[c])
  BY DEF ScheduleInv
<1>5. \A s \in Schedule : from[s].mode = "jobs" /\ sched[s].mode = "jobs" =>
        from[s].ids \subseteq reserved /\ from[s].ids \cap Jobs = sched[s].ids \cap Jobs
  <2>1. CASE from = sched
    BY <2>1 DEF ScheduleInv
  <2>2. CASE from = at[c].seen
    BY <1>1, <1>4, <2>2 DEF StillRead, ListsRead
  <2>3. QED
    BY <1>1, <2>1, <2>2
<1>6. ASSUME NEW s \in Schedule
      PROVE \/ sched'[s] = sched[s] \/ sched'[s] = NoSchedule
            \/ /\ sched[s].mode = "jobs" /\ sched'[s].mode = "jobs" /\ (sched'[s].on <=> sched[s].on)
               /\ sched'[s].ids \subseteq reserved
               /\ sched'[s].ids \cap Jobs' = sched[s].ids \cap Jobs'
  <2>1. \/ sched'[s] = sched[s] \/ sched'[s] = NoSchedule
        \/ /\ from[s].mode = "jobs" /\ sched[s].mode = "jobs"
           /\ sched'[s] = [sched[s] EXCEPT !.ids = from[s].ids \ {at[c].id}]
    <3>1. sched' = Without("jobs", at[c].id, from)
      BY <1>1
    <3>2. \/ Without("jobs", at[c].id, from)[s] = sched[s] \/ Without("jobs", at[c].id, from)[s] = NoSchedule
          \/ /\ from[s].mode = "jobs" /\ sched[s].mode = "jobs"
             /\ Without("jobs", at[c].id, from)[s] = [sched[s] EXCEPT !.ids = from[s].ids \ {at[c].id}]
      BY WithoutIs
    <3>3. QED
      BY <3>1, <3>2
  <2>2. CASE /\ from[s].mode = "jobs" /\ sched[s].mode = "jobs"
             /\ sched'[s] = [sched[s] EXCEPT !.ids = from[s].ids \ {at[c].id}]
    <3>1. sched[s] \in ScheduleRow
      BY DEF TablesInv, Types
    <3>2. /\ sched'[s].mode = "jobs" /\ sched'[s].ids = from[s].ids \ {at[c].id}
          /\ sched'[s].on = sched[s].on
      BY <2>2, <3>1 DEF ScheduleRow
    <3>3. QED
      BY <1>2, <1>5, <2>2, <3>2
  <2>3. QED
    BY <2>1, <2>2
<1>7. QED
  BY <1>1, <1>2, <1>3, <1>6

\* What a request has read is not changed by a request of another client.
LEMMA OthersLeaveRead ==
  ASSUME TablesInv, ReservedInv, ScheduleInv, RowsApart, [Next]_vars,
         NEW c \in Client, NEW d \in Client, c # d, Acts(c),
         NEW r, r = at[d]
  PROVE  StillRead(r)'
<1> SUFFICES ASSUME r.step = "commit", r.kind # "access"
             PROVE  (ScheduleRead(r) /\ JobRead(r) /\ ListsRead(r))'
  BY DEF StillRead, ScheduleRead, JobRead, ListsRead
<1>0. ScheduleRead(r) /\ JobRead(r) /\ ListsRead(r) /\ r.kind \in plan.kinds[d]
  BY DEF ScheduleInv, OfItsKind, StillRead
<1>1. /\ reserved \subseteq reserved'
      /\ \A j \in Jobs' : j \notin Jobs => j \notin reserved
  BY JobsAppear DEF Jobs
<1>2. \A s \in Schedule : sched[s].mode = "jobs" => sched[s].ids \subseteq reserved
  BY DEF ScheduleInv
\* Lists of jobs stay as they are as far as there are jobs.
<1>3. ASSUME \A s \in Schedule : sched'[s].mode = "jobs" =>
               sched[s].mode = "jobs" /\ sched'[s].ids \cap Jobs' \cap Jobs = sched[s].ids \cap Jobs' \cap Jobs,
             \A s \in Schedule : sched'[s].mode = "jobs" => (sched'[s].ids \cap Jobs') \ Jobs = {}
      PROVE ListsRead(r)'
  <2> SUFFICES ASSUME r.kind = "delete job", NEW s \in Schedule, r.seen[s].mode = "jobs"
               PROVE  /\ r.seen[s].ids \subseteq reserved'
                      /\ sched'[s].mode = "jobs" => r.seen[s].ids \cap Jobs' = sched'[s].ids \cap Jobs'
    BY DEF ListsRead
  <2>1. /\ r.seen[s].ids \subseteq reserved
        /\ sched[s].mode = "jobs" => r.seen[s].ids \cap Jobs = sched[s].ids \cap Jobs
    BY <1>0 DEF ListsRead
  <2>2. r.seen[s].ids \cap Jobs' \subseteq Jobs
    BY <1>1, <2>1
  <2>3. QED
    BY <1>1, <1>3, <2>1, <2>2
<1>4. CASE JobsOnly(c) /\ sched' = sched
  <2>1. r.kind = "job" => ~CommitJob(c)
    BY <1>0 DEF RowsApart, CommitJob, AtCommit, ScheduleInv, OfItsKind
  <2>2. JobRead(r)'
    BY <1>0, <1>1, <1>4, <2>1, JobsStay DEF JobRead
  <2>3. ListsRead(r)'
    BY <1>1, <1>2, <1>3, <1>4
  <2>4. ScheduleRead(r)'
    BY <1>0, <1>4 DEF ScheduleRead, Schedules
  <2>5. QED
    BY <2>2, <2>3, <2>4
<1>5. CASE JobEnds(c)
  <2>1. /\ "delete job" \in plan.kinds[c] /\ Jobs' \subseteq Jobs /\ \A j \in Jobs' : job'[j] = job[j]
        /\ \A s \in Schedule :
             \/ sched'[s] = sched[s] \/ sched'[s] = NoSchedule
             \/ sched[s].mode = "jobs" /\ sched'[s].ids \cap Jobs' = sched[s].ids \cap Jobs'
    BY <1>5, JobEndsIs
  <2>2. ScheduleRead(r)'
    BY <1>0, <2>1 DEF RowsApart, ScheduleRead
  <2>3. JobRead(r)'
    BY <1>0, <1>1, <2>1 DEF JobRead
  <2>4. NoSchedule.mode # "jobs"
    BY DEF NoSchedule, Gone
  <2>5. \A s \in Schedule : sched'[s].mode = "jobs" =>
          sched[s].mode = "jobs" /\ sched'[s].ids \cap Jobs' = sched[s].ids \cap Jobs'
    BY <2>1, <2>4
  <2>6. ListsRead(r)'
    BY <1>3, <2>1, <2>5
  <2>7. QED
    BY <2>2, <2>3, <2>6
<1>6. CASE Shrinking(c)
  <2>1. UNCHANGED <<job, reserved>> /\ Jobs' = Jobs /\ \A s \in Schedule : Shrunk(sched[s], sched'[s])
    BY <1>6, ShrinkingShrinks DEF Jobs
  <2>2. ASSUME r.kind = "schedule", r.id \in Schedules'
        PROVE /\ sched'[r.id].mode = r.seen.mode /\ sched'[r.id].ids \subseteq r.seen.ids
              /\ sched'[r.id].on => r.seen.on
    <3>1. r.id \in Schedule /\ sched'[r.id] # NoSchedule /\ Shrunk(sched[r.id], sched'[r.id])
      BY <2>1, <2>2 DEF Schedules
    <3>2. r.id \in Schedules
      BY <3>1 DEF Schedules, Shrunk
    <3>3. QED
      BY <1>0, <2>2, <3>1, <3>2 DEF ScheduleRead, Shrunk
  <2>3. ScheduleRead(r)'
    BY <2>2 DEF ScheduleRead
  <2>4. JobRead(r)'
    BY <1>0, <2>1 DEF JobRead
  <2>5. NoSchedule.mode # "jobs"
    BY DEF NoSchedule, Gone
  <2>6. \A s \in Schedule : sched'[s].mode = "jobs" =>
          sched[s].mode = "jobs" /\ sched'[s].ids \cap Jobs = sched[s].ids \cap Jobs
    BY <2>1, <2>5 DEF Shrunk
  <2>7. ListsRead(r)'
    BY <1>3, <2>1, <2>6
  <2>8. QED
    BY <2>3, <2>4, <2>7
<1>7. CASE CreateSchedule(c) \/ Changes(c)
  <2>1. r.kind \notin {"schedule", "delete job"}
    <3>1. CASE CreateSchedule(c)
      BY <1>0, <3>1 DEF RowsApart, CreateSchedule, May
    <3>2. CASE Changes(c)
      <4>1. "schedule" \in plan.kinds[c]
        BY <3>2 DEF Changes, CommitSchedule, AtCommit, ScheduleInv, OfItsKind
      <4>2. QED
        BY <1>0, <4>1 DEF RowsApart
    <3>3. QED
      BY <1>7, <3>1, <3>2
  <2>2. UNCHANGED <<job, reserved>>
    BY <1>7 DEF CreateSchedule, Changes, CommitSchedule
  <2>3. JobRead(r)'
    BY <1>0, <2>2 DEF JobRead, Jobs
  <2>4. QED
    BY <2>1, <2>3 DEF ScheduleRead, ListsRead
<1>8. CASE UNCHANGED <<job, sched>>
  <2>1. Jobs' = Jobs
    BY <1>8 DEF Jobs
  <2>2. ScheduleRead(r)'
    BY <1>0, <1>8 DEF ScheduleRead, Schedules
  <2>3. JobRead(r)'
    BY <1>0, <1>1, <1>8, <2>1 DEF JobRead
  <2>4. ListsRead(r)'
    BY <1>3, <1>8, <2>1
  <2>5. QED
    BY <2>2, <2>3, <2>4
<1>9. QED
  BY <1>4, <1>5, <1>6, <1>7, <1>8, StepsOfSchedules

\* A schedule that names no more jobs than before comes to share none.
LEMMA FewerTargets ==
  ASSUME OneScheduleEach,
         \A s \in Schedule : sched'[s].on =>
           sched[s].on /\ Targets(sched[s], job)' \subseteq Targets(sched[s], job)
  PROVE  OneScheduleEach'
<1> SUFFICES ASSUME NEW s \in Schedules', NEW t \in Schedules', sched'[s].on, sched'[t].on,
                    (Targets(sched[s], job) \cap Targets(sched[t], job) # {})'
             PROVE  s = t
  BY DEF OneScheduleEach
<1>1. s \in Schedule /\ t \in Schedule
  BY DEF Schedules
<1>2. /\ sched[s].on /\ Targets(sched[s], job)' \subseteq Targets(sched[s], job)
      /\ sched[t].on /\ Targets(sched[t], job)' \subseteq Targets(sched[t], job)
  BY <1>1
<1>3. s \in Schedules /\ t \in Schedules
  BY <1>1, <1>2, NoRows DEF Schedules
<1>4. Targets(sched[s], job) \cap Targets(sched[t], job) # {}
  BY <1>2
<1>5. QED
  BY <1>2, <1>3, <1>4 DEF OneScheduleEach

\* A row of a schedule that does not conflict is written over the row s.
LEMMA NoConflict ==
  ASSUME TablesInv, OneScheduleEach, NEW s \in Schedule, NEW t \in ScheduleRow, NEW u \in ScheduleRow,
         ~Conflict(s, t), u.mode = t.mode, u.ids \subseteq t.ids, u.on => t.on,
         sched' = [sched EXCEPT ![s] = u], job' = job
  PROVE  OneScheduleEach'
<1> SUFFICES ASSUME NEW x \in Schedules', NEW y \in Schedules', sched'[x].on, sched'[y].on,
                    (Targets(sched[x], job) \cap Targets(sched[y], job) # {})'
             PROVE  x = y
  BY DEF OneScheduleEach
<1>0. x \in Schedule /\ y \in Schedule /\ sched'[s] = u /\ \A z \in Schedule \ {s} : sched'[z] = sched[z]
  BY DEF Schedules, TablesInv, Types
<1>1. Targets(sched'[x], job) \cap Targets(sched'[y], job) # {}
  BY DEF Targets
<1>2. Targets(u, job) \subseteq Targets(t, job)
  BY DEF Targets
<1>3. ASSUME NEW z \in Schedule \ {s}, sched'[z].on, u.on
      PROVE Targets(t, job) \cap Targets(sched'[z], job) = {}
  <2>1. sched'[z] = sched[z] /\ z \in Schedules
    BY <1>0, <1>3, NoRows DEF Schedules
  <2>2. QED
    BY <1>3, <2>1 DEF Conflict
<1>4. CASE x = s /\ y # s
  BY <1>0, <1>1, <1>2, <1>3, <1>4
<1>5. CASE y = s /\ x # s
  BY <1>0, <1>1, <1>2, <1>3, <1>5
<1>6. CASE x # s /\ y # s
  <2>1. sched'[x] = sched[x] /\ sched'[y] = sched[y] /\ x \in Schedules /\ y \in Schedules
    BY <1>0, <1>6 DEF Schedules
  <2>2. QED
    BY <1>1, <2>1 DEF OneScheduleEach
<1>7. QED
  BY <1>4, <1>5, <1>6

\* The row of a job is written that one enabled schedule matches at most.
LEMMA OneMatch ==
  ASSUME TablesInv, OneScheduleEach, NEW j \in JobId, NEW new \in JobRow, NEW w \in JobRow,
         new # NoJob, w.host = new.host, w.repo = new.repo, ~(Cardinality(Matched(j, new)) > 1),
         job' = [job EXCEPT ![j] = w], sched' = sched
  PROVE  OneScheduleEach'
<1> SUFFICES ASSUME NEW s \in Schedules, NEW t \in Schedules, sched[s].on, sched[t].on,
                    NEW k \in JobId, k \in Targets(sched[s], job'), k \in Targets(sched[t], job')
             PROVE  s = t
  <2>1. \A s \in Schedule : Targets(sched[s], job)' = Targets(sched[s], job') /\ Targets(sched[s], job') \subseteq JobId
    BY DEF Targets
  <2>2. Schedules' = Schedules /\ Schedules \subseteq Schedule
    BY DEF Schedules
  <2>3. QED
    BY <2>1, <2>2, ZenonT(40) DEF OneScheduleEach
<1>1. CASE k # j
  <2>1. job'[k] = job[k]
    BY <1>1 DEF TablesInv, Types
  <2>2. k \in Targets(sched[s], job) /\ k \in Targets(sched[t], job)
    BY <2>1 DEF Targets
  <2>3. QED
    BY <2>2 DEF OneScheduleEach
<1>2. CASE k = j
  <2> DEFINE js == [job EXCEPT ![j] = new]
  <2>1. job'[j] = w /\ js[j] = new
    BY DEF TablesInv, Types
  <2>2. j \in Targets(sched[s], js) /\ j \in Targets(sched[t], js)
    BY <1>2, <2>1 DEF Targets
  <2>3. s \in Matched(j, new) /\ t \in Matched(j, new)
    BY <2>2 DEF Matched
  <2> DEFINE M == Matched(j, new)
  <2>4. IsFiniteSet(M) /\ Cardinality(M) \in Nat
    <3>1. M \subseteq Schedule
      BY DEF Matched, Schedules
    <3>2. QED
      BY <3>1, SizeAssumption, FS_Subset, FS_CardinalityType
  <2> HIDE DEF M
  <2>5. ASSUME s # t
        PROVE FALSE
    <3>1. {s} \subseteq M /\ {s} # M /\ IsFiniteSet({s}) /\ Cardinality({s}) = 1
      BY <2>3, <2>5, FS_Singleton DEF M
    <3>2. Cardinality({s}) < Cardinality(M)
      BY <2>4, <3>1, FS_Subset
    <3>3. QED
      BY <2>4, <3>1, <3>2 DEF M
  <2>6. QED
    BY <2>5
<1>3. QED
  BY <1>1, <1>2

\* A job that is written belongs to one enabled schedule at most.
LEMMA JobsKeepOne ==
  ASSUME TablesInv, ScheduleInv, NEW c \in Client, JobsOnly(c), sched' = sched
  PROVE  OneScheduleEach'
<1>0. OneScheduleEach
  BY DEF ScheduleInv
<1>1. CASE Refuse(c)
  BY <1>0, <1>1 DEF Refuse, rows, OneScheduleEach, Schedules, Targets
<1>2. CASE CommitHost(c) \/ CommitEditHost(c) \/ CommitEnableJob(c)
  <2>1. Jobs' = Jobs
    BY <1>2, NoJobsLost, JobsOnlyKeeps DEF Jobs
  <2>2. \A j \in Jobs : job'[j].host = job[j].host /\ job'[j].repo = job[j].repo
    <3>1. CASE CommitJob(c)
      BY <1>2, <3>1 DEF CommitHost, CommitEditHost, CommitEnableJob, CommitJob, AtCommit
    <3>2. QED
      BY <3>1, JobsStay
  <2>3. \A s \in Schedule : Targets(sched[s], job)' \subseteq Targets(sched[s], job)
    BY <2>1, <2>2 DEF Targets, Jobs
  <2>4. QED
    BY <1>0, <2>3, FewerTargets
<1>3. CASE CommitCreateJob(c) /\ ~Refuse(c)
  <2>1. /\ ~(Cardinality(Matched(at[c].id, at[c].new)) > 1) /\ at[c].new.host \in Hosts
        /\ job' = [job EXCEPT ![at[c].id] = at[c].new]
    BY <1>3 DEF CommitCreateJob
  <2>2. at[c].id \in JobId /\ at[c].new \in JobRow
    BY <1>3 DEF CommitCreateJob, AtCommit, TablesInv, Types, RequestSound
  <2>3. at[c].new # NoJob
    BY <2>1, NoRows DEF Hosts, Host
  <2>4. QED
    BY <1>0, <2>1, <2>2, <2>3, OneMatch
<1>4. CASE CommitJob(c) /\ ~Refuse(c)
  <2> DEFINE w == Written(job[at[c].id], at[c].seen, at[c].new)
  <2>1. /\ ~(Cardinality(Matched(at[c].id, at[c].new)) > 1) /\ at[c].new.host \in Hosts
        /\ at[c].id \in Jobs /\ job' = [job EXCEPT ![at[c].id] = w]
    BY <1>4 DEF CommitJob
  <2>2. at[c].new \in JobRow /\ at[c].seen \in JobRow /\ at[c].step = "commit" /\ at[c].kind = "job"
    BY <1>4 DEF CommitJob, AtCommit, TablesInv, Types, RequestSound
  <2>3. at[c].id \in JobId /\ job[at[c].id] \in JobRow
    BY <2>1 DEF Jobs, TablesInv, Types
  <2>4. at[c].new # NoJob
    BY <2>1, NoRows DEF Hosts, Host
  <2>5. StillRead(at[c])
    BY DEF ScheduleInv
  <2>6. job[at[c].id].host = at[c].seen.host /\ job[at[c].id].repo = at[c].seen.repo
    BY <2>1, <2>2, <2>5 DEF StillRead, JobRead
  <2>7. w \in JobRow /\ w.host = at[c].new.host /\ w.repo = at[c].new.repo
    BY <2>2, <2>3, <2>6, WrittenJob
  <2> HIDE DEF w
  <2>8. QED
    BY <1>0, <2>1, <2>2, <2>3, <2>4, <2>7, OneMatch
<1>5. QED
  BY <1>1, <1>2, <1>3, <1>4 DEF JobsOnly

\* Jobs that schedules name have a reserved id.
JobsReserved == \A s \in Schedule : sched[s].mode = "jobs" => sched[s].ids \subseteq reserved

\* A schedule that is written names jobs that no other enabled one has.
LEMMA WrittenKeepsOne ==
  ASSUME TablesInv, ReservedInv, ScheduleInv, NEW s \in Schedule, NEW t \in ScheduleRow, NEW u \in ScheduleRow,
         TargetsExist(t), ~Conflict(s, t), u.mode = t.mode, u.ids \subseteq t.ids, u.on => t.on,
         sched' = [sched EXCEPT ![s] = u], UNCHANGED <<job, reserved>>
  PROVE  OneScheduleEach' /\ JobsReserved'
<1>1. OneScheduleEach'
  BY NoConflict DEF ScheduleInv
<1>2. u.mode = "jobs" => u.ids \subseteq reserved
  BY DEF TargetsExist, Named, ReservedInv
<1>3. \A x \in Schedule : sched'[x] = IF x = s THEN u ELSE sched[x]
  BY DEF TablesInv, Types
<1>4. JobsReserved'
  BY <1>2, <1>3 DEF JobsReserved, ScheduleInv
<1>5. QED
  BY <1>1, <1>4

LEMMA SchedulesKeepOne ==
  ASSUME TablesInv, ReservedInv, ScheduleInv, NEW c \in Client, CreateSchedule(c) \/ Changes(c)
  PROVE  OneScheduleEach' /\ JobsReserved'
<1>1. CASE CreateSchedule(c)
  <2>1. PICK s \in Schedule, t \in plan.schedules :
          TargetsExist(t) /\ ~Conflict(s, t) /\ sched' = [sched EXCEPT ![s] = t]
    BY <1>1 DEF CreateSchedule
  <2>2. t \in ScheduleRow /\ UNCHANGED <<job, reserved>>
    BY <1>1, PlanAssumption DEF CreateSchedule, TablesInv, Types
  <2>3. QED
    BY <2>1, <2>2, WrittenKeepsOne
<1>2. CASE Changes(c)
  <2> DEFINE s == at[c].id  t == at[c].new  u == Written(sched[s], at[c].seen, t)
  <2>1. /\ s \in Schedules /\ TargetsExist(t) /\ ~Conflict(s, t)
        /\ sched' = [sched EXCEPT ![s] = u] /\ UNCHANGED <<job, reserved>>
        /\ at[c].step = "commit" /\ at[c].kind = "schedule"
    BY <1>2 DEF Changes, CommitSchedule, AtCommit
  <2>2. t \in ScheduleRow /\ at[c].seen \in ScheduleRow /\ s \in Schedule /\ sched[s] \in ScheduleRow
    BY <2>1 DEF TablesInv, Types, RequestSound, Schedules
  <2>3. StillRead(at[c])
    BY DEF ScheduleInv
  <2>4. /\ sched[s].mode = at[c].seen.mode /\ sched[s].ids \subseteq at[c].seen.ids
        /\ sched[s].on => at[c].seen.on
    BY <2>1, <2>3 DEF StillRead, ScheduleRead
  <2>5. /\ u \in ScheduleRow /\ u.mode = IF t.mode = at[c].seen.mode THEN sched[s].mode ELSE t.mode
        /\ u.ids = IF t.ids = at[c].seen.ids THEN sched[s].ids ELSE t.ids
        /\ u.on = IF t.on = at[c].seen.on THEN sched[s].on ELSE t.on
    BY <2>2, WrittenSchedule
  <2>6. u.mode = t.mode /\ u.ids \subseteq t.ids /\ (u.on => t.on)
    <3> HIDE DEF s, t, u
    <3>1. QED
      BY <2>4, <2>5
  <2> HIDE DEF s, t, u
  <2>7. QED
    BY <2>1, <2>2, <2>5, <2>6, WrittenKeepsOne
<1>3. QED
  BY <1>1, <1>2

\* A row that shrinks has no job more than before.
LEMMA ShrinkingKeepsOne ==
  ASSUME TablesInv, ScheduleInv, NEW c \in Client, Shrinking(c)
  PROVE  OneScheduleEach' /\ JobsReserved'
<1>0. OneScheduleEach /\ JobsReserved
  BY DEF ScheduleInv, JobsReserved
<1>1. UNCHANGED <<job, reserved>> /\ \A s \in Schedule : Shrunk(sched[s], sched'[s])
  BY ShrinkingShrinks
<1>2. ASSUME NEW s \in Schedule, sched'[s].on
      PROVE sched[s].on /\ Targets(sched[s], job)' \subseteq Targets(sched[s], job)
  BY <1>1, <1>2, NoRows DEF Shrunk, Targets
<1>3. OneScheduleEach'
  BY <1>0, <1>2, FewerTargets
<1>4. JobsReserved'
  BY <1>0, <1>1 DEF JobsReserved, Shrunk, NoSchedule
<1>5. QED
  BY <1>3, <1>4

LEMMA JobEndsKeepsOne ==
  ASSUME TablesInv, ReservedInv, ScheduleInv, NEW c \in Client, JobEnds(c)
  PROVE  OneScheduleEach' /\ JobsReserved'
<1>0. OneScheduleEach /\ JobsReserved
  BY DEF ScheduleInv, JobsReserved
<1>1. /\ Jobs' \subseteq Jobs /\ \A j \in Jobs' : job'[j] = job[j]
      /\ reserved' = reserved
      /\ \A s \in Schedule :
           \/ sched'[s] = sched[s] \/ sched'[s] = NoSchedule
           \/ /\ sched[s].mode = "jobs" /\ sched'[s].mode = "jobs" /\ (sched'[s].on <=> sched[s].on)
              /\ sched'[s].ids \subseteq reserved
              /\ sched'[s].ids \cap Jobs' = sched[s].ids \cap Jobs'
  BY JobEndsIs
<1>2. ASSUME NEW s \in Schedule, sched'[s].on
      PROVE sched[s].on /\ Targets(sched[s], job)' \subseteq Targets(sched[s], job)
  <2>1. Targets(sched[s], job)' = {j \in Jobs' :
          \/ sched'[s].mode = "hosts" /\ job'[j].host \in sched'[s].ids
          \/ sched'[s].mode = "repository" /\ job'[j].repo \in sched'[s].ids
          \/ sched'[s].mode = "jobs" /\ j \in sched'[s].ids}
    BY DEF Targets, Jobs
  <2>2. Targets(sched[s], job) = {j \in Jobs :
          \/ sched[s].mode = "hosts" /\ job[j].host \in sched[s].ids
          \/ sched[s].mode = "repository" /\ job[j].repo \in sched[s].ids
          \/ sched[s].mode = "jobs" /\ j \in sched[s].ids}
    BY DEF Targets, Jobs
  <2>3. CASE sched'[s] = sched[s]
    BY <1>1, <1>2, <2>1, <2>2, <2>3
  <2>4. CASE sched'[s] = NoSchedule
    BY <1>2, <2>4, NoRows
  <2>5. CASE /\ sched[s].mode = "jobs" /\ sched'[s].mode = "jobs" /\ (sched'[s].on <=> sched[s].on)
             /\ sched'[s].ids \cap Jobs' = sched[s].ids \cap Jobs'
    <3>1. sched[s].on
      BY <1>2, <2>5
    <3>2. \A j \in Jobs' : j \in sched'[s].ids => j \in sched[s].ids
      BY <2>5
    <3>3. QED
      BY <1>1, <2>1, <2>2, <2>5, <3>1, <3>2
  <2>6. QED
    BY <1>1, <2>3, <2>4, <2>5
<1>3. OneScheduleEach'
  BY <1>0, <1>2, FewerTargets
<1>4. JobsReserved'
  BY <1>0, <1>1 DEF JobsReserved, NoSchedule, Gone
<1>5. QED
  BY <1>3, <1>4

\* Requests leave a job in one enabled schedule at most.
LEMMA ActsKeepOne ==
  ASSUME TablesInv, ReservedInv, ScheduleInv, [Next]_vars, NEW c \in Client, Acts(c)
  PROVE  OneScheduleEach' /\ JobsReserved'
<1>0. OneScheduleEach /\ JobsReserved /\ reserved \subseteq reserved'
  BY JobsAppear DEF ScheduleInv, JobsReserved
<1>1. CASE JobsOnly(c) /\ sched' = sched
  BY <1>0, <1>1, JobsKeepOne DEF JobsReserved
<1>2. CASE UNCHANGED <<job, sched>>
  BY <1>0, <1>2 DEF OneScheduleEach, Schedules, Targets, JobsReserved
<1>3. QED
  BY <1>1, <1>2, StepsOfSchedules, JobEndsKeepsOne, ShrinkingKeepsOne, SchedulesKeepOne

LEMMA ReadSame ==
  ASSUME UNCHANGED <<job, sched, reserved>>, NEW r, StillRead(r)
  PROVE  StillRead(r)'
<1>1. Jobs' = Jobs /\ Schedules' = Schedules
  BY DEF Jobs, Schedules
<1>2. QED
  BY <1>1 DEF StillRead, ScheduleRead, JobRead, ListsRead

LEMMA NextKeepsSchedules ==
  TablesInv /\ ReservedInv /\ ScheduleInv /\ RowsApart /\ [Next]_vars => ScheduleInv'
<1> SUFFICES ASSUME TablesInv, ReservedInv, ScheduleInv, RowsApart, [Next]_vars PROVE ScheduleInv'
  OBVIOUS
<1>1. ASSUME NEW c \in Client, Acts(c)
      PROVE ScheduleInv'
  <2>1. plan' = plan /\ \A d \in Client : d # c => at'[d] = at[d]
    BY <1>1, ActsAlone
  <2>2. /\ at'[c].step = "commit" /\ at'[c].kind # "access" => at'[c].kind \in plan.kinds[c]
        /\ StillRead(at[c])'
    <3>1. CASE Looks(c)
      <4>1. /\ at'[c].step = "commit" /\ at'[c].kind \in plan.kinds[c]
            /\ UNCHANGED <<job, sched, reserved>> /\ StillRead(at'[c])
        BY <3>1, LooksFresh
      <4>2. PICK r : r = at'[c]
        OBVIOUS
      <4>3. StillRead(r)'
        BY <4>1, <4>2, ReadSame
      <4>4. QED
        BY <4>1, <4>2, <4>3 DEF StillRead, ScheduleRead, JobRead, ListsRead
    <3>2. CASE at'[c].step # "commit" \/ at'[c].kind = "access"
      BY <3>2 DEF StillRead, ScheduleRead, JobRead, ListsRead
    <3>3. QED
      BY <1>1, <3>1, <3>2, ActsAlone
  <2>3. ASSUME NEW d \in Client, d # c
        PROVE StillRead(at[d])'
    <3>1. PICK r : r = at[d]
      OBVIOUS
    <3>2. StillRead(r)'
      BY <1>1, <2>3, <3>1, OthersLeaveRead
    <3>3. r = at'[d]
      BY <2>1, <2>3, <3>1
    <3>4. QED
      BY <3>2, <3>3 DEF StillRead, ScheduleRead, JobRead, ListsRead
  <2>4. OfItsKind'
    BY <2>1, <2>2 DEF OfItsKind, ScheduleInv
  <2>5. OneScheduleEach' /\ JobsReserved'
    BY <1>1, ActsKeepOne
  <2>6. QED
    BY <2>2, <2>3, <2>4, <2>5 DEF ScheduleInv, JobsReserved
<1>2. ASSUME UNCHANGED <<plan, job, sched, reserved>>,
             at' = at \/ \A c \in Client : at'[c] = Idle
      PROVE ScheduleInv'
  <2>1. OneScheduleEach' /\ \A s \in Schedule : sched'[s].mode = "jobs" => sched'[s].ids \subseteq reserved'
    BY <1>2 DEF ScheduleInv, OneScheduleEach, Schedules, Targets
  <2>2. CASE at' = at
    <3>1. OfItsKind'
      BY <1>2, <2>2 DEF ScheduleInv, OfItsKind
    <3>2. ASSUME NEW d \in Client
          PROVE StillRead(at[d])'
      <4>1. PICK r : r = at[d]
        OBVIOUS
      <4>2. StillRead(r)'
        BY <1>2, <4>1, ReadSame DEF ScheduleInv
      <4>3. QED
        BY <2>2, <4>1, <4>2 DEF StillRead, ScheduleRead, JobRead, ListsRead
    <3>3. QED
      BY <2>1, <3>1, <3>2 DEF ScheduleInv
  <2>3. CASE \A c \in Client : at'[c] = Idle
    <3>1. \A c \in Client : at'[c].step # "commit"
      BY <2>3 DEF Idle
    <3>2. OfItsKind' /\ \A c \in Client : StillRead(at[c])'
      BY <3>1 DEF OfItsKind, StillRead
    <3>3. QED
      BY <2>1, <3>2 DEF ScheduleInv
  <2>4. QED
    BY <1>2, <2>2, <2>3
<1>3. CASE RunStep /\ ~Restart
  BY <1>2, <1>3 DEF RunStep, QueueRun, EndRun, rows
<1>4. CASE Restart
  BY <1>2, <1>4 DEF Restart, rows
<1>5. CASE UNCHANGED vars
  BY <1>2, <1>5 DEF vars, rows
<1>6. QED
  BY <1>1, <1>3, <1>4, <1>5, StepsOfRequests

LEMMA InitSchedules == Init => ScheduleInv
<1> SUFFICES ASSUME Init PROVE ScheduleInv
  OBVIOUS
<1>1. /\ \A s \in Schedule : plan.sched[s].mode = "jobs" =>
           \A j \in plan.sched[s].ids : j \in JobId /\ plan.job[j] # NoJob
      /\ \A s, t \in Schedule : plan.sched[s].on /\ plan.sched[t].on /\ s # t =>
           Targets(plan.sched[s], plan.job) \cap Targets(plan.sched[t], plan.job) = {}
  BY PlanAssumption DEF Init
<1>2. OneScheduleEach
  BY <1>1 DEF Init, OneScheduleEach, Schedules
<1>3. OfItsKind /\ \A c \in Client : StillRead(at[c])
  BY DEF Init, OfItsKind, StillRead, Idle
<1>4. QED
  BY <1>1, <1>2, <1>3 DEF Init, ScheduleInv

LEMMA PlanStays ==
  ASSUME TablesInv, [Next]_vars
  PROVE  plan' = plan
BY StepsOfRequests, ActsAlone DEF RunStep, QueueRun, EndRun, Restart, vars

(***************************************************************************)
(* schedules.py:110: a backup job belongs to one enabled schedule at most, *)
(* however devices, repositories, jobs and schedules are edited, if no two *)
(* requests edit the same schedule or the same job at the same time, which *)
(* the plan says of the clients.                                           *)
(***************************************************************************)
THEOREM JobsInOneSchedule == Spec /\ RowsApart => []OneScheduleEach
<1>1. TablesInv /\ RowsApart /\ [Next]_vars => RowsApart'
  BY PlanStays DEF RowsApart
<1>2. ScheduleInv => OneScheduleEach
  BY DEF ScheduleInv
<1>3. QED
  BY <1>1, <1>2, RunsAlways, InitReserved, NextKeepsReserved, InitSchedules, NextKeepsSchedules, PTL DEF Spec
-----------------------------------------------------------------------------
(* The history of runs.                                                    *)

\* A job with a good backup run has a last one, which is retained.
LEMMA KeptRetains ==
  ASSUME SizeAssumption, NEW j, Kept(j)
  PROVE  \E i \in RunsOf(j) : Baseline(i) /\ i \in Retained
<1> DEFINE S == {i \in RunsOf(j) : Baseline(i)}
<1>1. S # {} /\ S \in SUBSET (0..MaxRun) /\ MaxRun \in Nat
  BY SizeAssumption DEF Kept, RunsOf, Runs, RunId
<1> HIDE DEF S
<1>2. PICK m \in S : \A n \in S : n <= m
  BY <1>1, Greatest
<1>3. m \in RunsOf(j) /\ Baseline(m) /\ run[m].job = j /\ m \in Runs
  BY <1>2 DEF RunsOf, S
<1>4. \A k \in RunsOf(run[m].job) : Baseline(k) => k <= m
  BY <1>2, <1>3 DEF S
<1>5. QED
  BY <1>3, <1>4 DEF Retained

\* What a clean-up reads is over and spares the last good backup run of each job.
LEMMA LooksSpare ==
  ASSUME TablesInv, RunsSound, HistoryApart, NEW c \in Client, Looks(c)
  PROVE  Spares(at'[c])
<1>0. at = [d \in Client |-> at[d]]
  BY DEF TablesInv, Types
<1>1. at'[c].step = "commit" /\ at'[c].kind \in plan.kinds[c]
  BY LooksFresh
<1>2. ASSUME NEW k \in {"cleanup", "delete run"}, NEW ids, NEW n, Read(c, k, ids, n, Gone),
             k \in plan.kinds[c], ids \subseteq Finished,
             k = "delete run" \/ n # "all" => ids \cap Retained = {}
      PROVE Spares(at'[c])
  <2>1. at'[c] = [step |-> "commit", kind |-> k, id |-> ids, new |-> n, seen |-> Gone]
    BY <1>0, <1>2 DEF Read, Goto
  <2>2. ids \subseteq Runs /\ \A i \in ids : ~Active(i)
    BY <1>2 DEF Finished
  <2>3. \A i \in ids : ~run[i].live
    <3>1. CASE plan.runs
      <4>1. Cleans(c)
        BY <1>2 DEF Cleans
      <4>2. ~Maintains
        BY <3>1, <4>1 DEF HistoryApart, Maintains
      <4>3. QED
        BY <2>2, <4>2 DEF RunsSound
    <3>2. CASE ~plan.runs
      BY <2>2, <3>2 DEF RunsSound
    <3>3. QED
      BY <3>1, <3>2
  <2>4. ASSUME k = "delete run" \/ n # "all", NEW j \in Jobs, Kept(j)
        PROVE \E i \in RunsOf(j) \ ids : Baseline(i)
    BY <1>2, <2>4, KeptRetains, SizeAssumption
  <2>5. ASSUME NEW r, r.kind = k, r.id = ids, r.new = n
        PROVE Spares(r)
    BY <2>2, <2>3, <2>4, <2>5 DEF Spares
  <2>6. at'[c].kind = k /\ at'[c].id = ids /\ at'[c].new = n
    <3> DEFINE r == [step |-> "commit", kind |-> k, id |-> ids, new |-> n, seen |-> Gone]
    <3>1. r.kind = k /\ r.id = ids /\ r.new = n
      OBVIOUS
    <3> HIDE DEF r
    <3>2. QED
      BY <2>1, <3>1 DEF r
  <2>7. QED
    BY <2>5, <2>6
<1>3. CASE ReadCleanup(c)
  <2>1. "cleanup" \in plan.kinds[c]
    BY <1>3 DEF ReadCleanup, May
  <2>2. ASSUME NEW n \in 2..(MaxRun + 1), Read(c, "cleanup", Outdated(n), "outdated", Gone)
        PROVE Spares(at'[c])
    <3>1. Outdated(n) \subseteq Finished /\ Outdated(n) \cap Retained = {}
      BY DEF Outdated
    <3>2. QED
      BY <1>2, <2>1, <2>2, <3>1
  <2>3. CASE Read(c, "cleanup", Finished, "all", Gone)
    BY <1>2, <2>1, <2>3
  <2>4. QED
    BY <1>3, <2>2, <2>3 DEF ReadCleanup
<1>4. CASE ReadDeleteRun(c)
  <2>1. PICK i \in Finished \ Retained : Read(c, "delete run", {i}, Gone, Gone)
    BY <1>4 DEF ReadDeleteRun
  <2>2. "delete run" \in plan.kinds[c]
    BY <1>4 DEF ReadDeleteRun, May
  <2>3. {i} \subseteq Finished /\ {i} \cap Retained = {}
    OBVIOUS
  <2>4. QED
    BY <1>2, <2>1, <2>2, <2>3
<1>5. CASE ~ReadCleanup(c) /\ ~ReadDeleteRun(c)
  <2>1. at'[c].kind \notin {"cleanup", "delete run"}
    <3>1. ASSUME NEW k, NEW i, NEW n, NEW s, Read(c, k, i, n, s)
          PROVE at'[c].kind = k
      BY <1>0, <3>1 DEF Read, Goto
    <3>2. QED
      BY <1>5, <3>1 DEF Looks, ReadHost, ReadEditHost, ReadDeleteHost, ReadRepo, ReadDeleteRepo, ReadSchedule,
         ReadCreateJob, ReadJob, ReadEnableJob, ReadDeleteJob
  <2>2. QED
    BY <2>1 DEF Spares
<1>6. QED
  BY <1>3, <1>4, <1>5

\* Rows are not forgotten, and a backup is good afterwards that was before.
LEMMA SparesStay ==
  ASSUME RunsSound, NEW r, Spares(r),
         r.step = "commit", r.kind \in {"cleanup", "delete run"},
         r.id \subseteq Runs', \A i \in r.id : ~Active(i)' /\ ~run'[i].live,
         \A j \in Jobs' : \A i \in RunsOf(j) : Baseline(i) => i \in RunsOf(j)' /\ Baseline(i)',
         \A j \in Jobs' : \A i \in RunsOf(j)' \cap r.id :
           Baseline(i)' => j \in Jobs /\ i \in RunsOf(j) /\ Baseline(i)
  PROVE  Spares(r)'
<1>1. ASSUME r.kind = "delete run" \/ r.new # "all", NEW j \in Jobs', Kept(j)'
      PROVE \E i \in RunsOf(j)' \ r.id : Baseline(i)'
  <2>1. PICK i \in RunsOf(j)' : Baseline(i)'
    BY <1>1 DEF Kept
  <2>2. CASE i \notin r.id
    BY <2>1, <2>2
  <2>3. CASE i \in r.id
    <3>1. j \in Jobs /\ Kept(j)
      BY <1>1, <2>1, <2>3 DEF Kept
    <3>2. PICK k \in RunsOf(j) \ r.id : Baseline(k)
      BY <1>1, <3>1 DEF Spares
    <3>3. QED
      BY <1>1, <3>2
  <2>4. QED
    BY <2>2, <2>3
<1>2. QED
  BY <1>1 DEF Spares

\* A step that ends no run leaves good backup runs good, for jobs that are left.
Steady ==
  /\ Runs \subseteq Runs'
  /\ \A i \in Runs : run'[i].kind = run[i].kind /\ run'[i].status = run[i].status /\ run'[i].live = run[i].live
  /\ \A i \in Runs : run'[i].job = run[i].job \/ (run'[i].job = 0 /\ run[i].job \notin Jobs')
  /\ \A i \in Runs' \ Runs : run'[i].status = "active"

LEMMA StepsAreSteady ==
  ASSUME TablesInv, RunsSound, NEW c \in Client, JobsOnly(c) \/ JobEnds(c) \/ RepoEnds(c)
  PROVE  Steady
<1>0. RunTypes
  BY DEF RunsSound
<1>1. CASE JobsOnly(c)
  BY <1>1, JobsOnlyKeeps DEF Steady, Runs
<1>2. CASE JobEnds(c)
  BY <1>0, <1>2, JobEndsRuns DEF Steady, Referring
<1>3. CASE RepoEnds(c)
  BY <1>0, <1>3, RepoEndsRuns DEF Steady, Referring
<1>4. QED
  BY <1>1, <1>2, <1>3

LEMMA QueueingIsSteady ==
  ASSUME TablesInv, RunsSound, NEW j \in Jobs, NEW kind \in {"backup", "check"}, QueueRun(j, kind)
  PROVE  Steady
<1>1. PICK i \in RunId :
        /\ i \notin Runs /\ Runs' = Runs \cup {i} /\ \A k \in Runs : run'[k] = run[k]
        /\ run'[i].status = "active"
  BY QueueRunRuns DEF RunsSound
<1>2. QED
  BY <1>1 DEF Steady

LEMMA SteadyKeeps ==
  ASSUME RunsSound, Steady
  PROVE  /\ \A j \in Jobs' : \A i \in RunsOf(j) : Baseline(i) => i \in RunsOf(j)' /\ Baseline(i)'
         /\ \A j \in Jobs' : \A i \in RunsOf(j)' \cap Runs :
              Baseline(i)' => j \in Jobs /\ i \in RunsOf(j) /\ Baseline(i)
         /\ \A i \in Runs : i \in Runs' /\ (Active(i)' <=> Active(i)) /\ run'[i].live = run[i].live
<1>0. 0 \notin Jobs'
  BY DEF Jobs, JobId
<1>1. ASSUME NEW j \in Jobs', NEW i \in RunsOf(j), Baseline(i)
      PROVE i \in RunsOf(j)' /\ Baseline(i)'
  <2>1. i \in Runs' /\ run'[i].job = j /\ run'[i].kind = "backup" /\ run'[i].status = "good"
    BY <1>1 DEF Steady, RunsOf, Baseline
  <2>2. QED
    BY <2>1 DEF RunsOf, Baseline
<1>2. ASSUME NEW j \in Jobs', NEW i \in RunsOf(j)' \cap Runs, Baseline(i)'
      PROVE j \in Jobs /\ i \in RunsOf(j) /\ Baseline(i)
  <2>1. run'[i].job = j /\ run'[i].kind = "backup" /\ run'[i].status = "good"
    BY <1>2 DEF RunsOf, Baseline
  <2>2. run[i].job = j /\ run[i].kind = "backup" /\ run[i].status = "good" /\ j # 0
    BY <1>0, <2>1 DEF Steady
  <2>3. QED
    BY <2>2 DEF RunsSound, RunsOf, Baseline
<1>3. ASSUME NEW i \in Runs
      PROVE i \in Runs' /\ (Active(i)' <=> Active(i)) /\ run'[i].live = run[i].live
  BY DEF Steady, Active
<1>4. QED
  BY <1>1, <1>2, <1>3

\* A pending clean-up spares what it has to whatever happens beside it.
LEMMA SparesKept ==
  ASSUME TablesInv, RunsSound, HistoryApart, HistoryInv, [Next]_vars,
         NEW d \in Client, NEW r, r = at[d], at'[d] = at[d]
  PROVE  Spares(r)'
<1>0. Spares(r) /\ (r.step = "commit" /\ r.kind # "access" => r.kind \in plan.kinds[d]) /\ RunTypes
  BY DEF HistoryInv, OfItsKind, RunsSound
<1> SUFFICES ASSUME r.step = "commit", r.kind \in {"cleanup", "delete run"}
             PROVE  Spares(r)'
  BY DEF Spares
<1>1. r.id \subseteq Runs /\ (\A i \in r.id : ~Active(i) /\ ~run[i].live) /\ Cleans(d)
  BY <1>0 DEF Spares, Cleans
<1>2. CASE Steady
  <2>1. r.id \subseteq Runs' /\ \A i \in r.id : ~Active(i)' /\ ~run'[i].live
    BY <1>1, <1>2, SteadyKeeps
  <2>2. /\ \A j \in Jobs' : \A i \in RunsOf(j) : Baseline(i) => i \in RunsOf(j)' /\ Baseline(i)'
        /\ \A j \in Jobs' : \A i \in RunsOf(j)' \cap r.id :
             Baseline(i)' => j \in Jobs /\ i \in RunsOf(j) /\ Baseline(i)
    BY <1>1, <1>2, SteadyKeeps
  <2>3. QED
    BY <1>0, <2>1, <2>2, SparesStay
<1>3. ASSUME NEW c \in Client, Forgets(c) \/ Maintain(c)
      PROVE Spares(r)'
  <2>1. "maintain" \in plan.kinds[c] \/ (Cleans(c) /\ c # d)
    <3>1. CASE Forgets(c)
      <4>1. Goto(c, Idle) /\ at[c].step = "commit" /\ at[c].kind \in {"cleanup", "delete run"}
        BY <1>0, <3>1, ForgetsRuns
      <4>2. c # d
        <5>1. at'[c] = Idle /\ Idle.step = "idle"
          BY <4>1 DEF Goto, Idle, TablesInv, Types
        <5>2. QED
          BY <4>1, <5>1
      <4>3. at[c].kind \in plan.kinds[c]
        BY <4>1 DEF HistoryInv, OfItsKind
      <4>4. QED
        BY <4>1, <4>2, <4>3 DEF Cleans
    <3>2. CASE Maintain(c)
      BY <3>2 DEF Maintain, May
    <3>3. QED
      BY <1>3, <3>1, <3>2
  <2>2. Runs = {} /\ Runs' \subseteq Runs
    <3>1. ~plan.runs
      BY <1>1, <2>1 DEF HistoryApart
    <3>2. QED
      BY <1>0, <1>3, <3>1, ForgetsRuns, MaintainRuns DEF RunsSound
  <2>3. r.id = {} /\ \A j : ~(Kept(j)')
    BY <1>1, <2>2 DEF Kept, RunsOf
  <2>4. QED
    BY <2>3 DEF Spares
<1>4. ASSUME NEW i \in Runs, EndRun(i)
      PROVE Spares(r)'
  <2>1. /\ Runs' = Runs /\ job' = job /\ run[i].live /\ run[i].status # "good"
        /\ \A k \in Runs \ {i} : run'[k] = run[k]
    BY <1>0, <1>4, EndRunRuns DEF RunsSound
  <2>2. i \notin r.id /\ Jobs' = Jobs
    BY <1>1, <2>1 DEF Jobs
  <2>3. r.id \subseteq Runs' /\ \A k \in r.id : ~Active(k)' /\ ~run'[k].live
    BY <1>1, <2>1, <2>2 DEF Active
  <2>4. \A j \in Jobs' : \A k \in RunsOf(j) : Baseline(k) => k \in RunsOf(j)' /\ Baseline(k)'
    BY <2>1, <2>2 DEF RunsOf, Baseline
  <2>5. \A j \in Jobs' : \A k \in RunsOf(j)' \cap r.id :
          Baseline(k)' => j \in Jobs /\ k \in RunsOf(j) /\ Baseline(k)
    <3>1. ASSUME NEW j \in Jobs', NEW k \in RunsOf(j)' \cap r.id, Baseline(k)'
          PROVE j \in Jobs /\ k \in RunsOf(j) /\ Baseline(k)
      <4>1. k \in Runs /\ run'[k] = run[k]
        BY <1>1, <2>1, <2>2
      <4>2. QED
        BY <2>2, <3>1, <4>1 DEF RunsOf, Baseline
    <3>2. QED
      BY <3>1
  <2>6. QED
    BY <1>0, <2>3, <2>4, <2>5, SparesStay
<1>5. CASE Restart
  <2>1. at'[d] = Idle
    BY <1>0, <1>5, RestartRuns
  <2>2. Idle.step = "idle"
    BY DEF Idle
  <2>3. QED
    BY <2>1, <2>2
<1>6. CASE UNCHANGED <<plan, job, run, series>>
  <2>1. Steady
    BY <1>6 DEF Steady, Runs
  <2>2. QED
    BY <1>2, <2>1
<1>7. QED
  BY <1>2, <1>3, <1>4, <1>5, <1>6, StepsOfHistory, StepsAreSteady, QueueingIsSteady DEF RunStep

LEMMA NextKeepsHistory ==
  TablesInv /\ RunsSound /\ HistoryApart /\ HistoryInv /\ [Next]_vars => HistoryInv'
<1> SUFFICES ASSUME TablesInv, RunsSound, HistoryApart, HistoryInv, [Next]_vars PROVE HistoryInv'
  OBVIOUS
<1>1. plan' = plan
  BY PlanStays
<1>2. ASSUME NEW d \in Client
      PROVE /\ Spares(at[d])'
            /\ at'[d].step = "commit" /\ at'[d].kind # "access" => at'[d].kind \in plan.kinds[d]
  <2>1. CASE at'[d] = at[d]
    <3>1. PICK r : r = at[d]
      OBVIOUS
    <3>2. Spares(r)'
      BY <2>1, <3>1, SparesKept
    <3>3. QED
      BY <2>1, <3>1, <3>2 DEF Spares, HistoryInv, OfItsKind
  <2>2. CASE Looks(d)
    <3>1. UNCHANGED <<job, run>> /\ at'[d].kind \in plan.kinds[d] /\ Spares(at'[d])
      BY <2>2, LooksFresh, LooksSpare
    <3>2. ASSUME NEW r, Spares(r)
          PROVE Spares(r)'
      <4>1. Runs' = Runs /\ Jobs' = Jobs /\ (\A j : RunsOf(j)' = RunsOf(j)) /\ \A i : Active(i)' <=> Active(i)
        BY <3>1 DEF Runs, Jobs, RunsOf, Active
      <4>2. \A i : Baseline(i)' <=> Baseline(i)
        BY <3>1, <4>1 DEF Baseline
      <4>3. \A j : Kept(j)' <=> Kept(j)
        BY <4>1, <4>2 DEF Kept
      <4>4. QED
        BY <3>1, <3>2, <4>1, <4>2, <4>3 DEF Spares
    <3>3. PICK r : r = at'[d]
      OBVIOUS
    <3>4. Spares(r)'
      BY <3>1, <3>2, <3>3
    <3>5. QED
      BY <3>1, <3>3, <3>4 DEF Spares
  <2>3. CASE at'[d].step # "commit" \/ at'[d].kind = "access"
    BY <2>3 DEF Spares
  <2>4. CASE \E c \in Client : Acts(c)
    BY <2>1, <2>2, <2>3, <2>4, ActsAlone
  <2>5. CASE Restart
    <3>1. at'[d].step # "commit"
      BY <2>5, RestartRuns DEF RunsSound, Idle
    <3>2. QED
      BY <2>3, <3>1
  <2>6. CASE (RunStep /\ ~Restart) \/ UNCHANGED vars
    <3>1. at' = at
      BY <2>6 DEF RunStep, QueueRun, EndRun, vars
    <3>2. QED
      BY <2>1, <3>1
  <2>7. QED
    BY <2>4, <2>5, <2>6, StepsOfRequests
<1>3. QED
  BY <1>1, <1>2 DEF HistoryInv, OfItsKind


\* What clean-ups spare is there after every step, unless all runs were to go.
LEMMA StepsKeepBaselines ==
  ASSUME TablesInv, RunsSound, HistoryInv, [Next]_vars, NEW j \in Jobs', Kept(j), ~AllDeleted
  PROVE  Kept(j)'
<1>0. RunTypes
  BY DEF RunsSound
<1>1. ASSUME NEW i \in RunsOf(j), i \in Runs', run'[i].job = run[i].job, run'[i].kind = "backup",
             run'[i].status = "good"
      PROVE Kept(j)'
  BY <1>1 DEF Kept, RunsOf, Baseline
<1>2. PICK i \in RunsOf(j) : Baseline(i)
  BY DEF Kept
<1>3. /\ i \in Runs /\ run[i].job = j /\ run[i].kind = "backup" /\ run[i].status = "good"
      /\ ~run[i].live /\ ~Active(i)
  BY <1>2 DEF RunsOf, Baseline, RunsSound, Active
<1>4. CASE Steady
  BY <1>2, <1>4, SteadyKeeps DEF Kept
<1>5. ASSUME NEW c \in Client, Maintain(c)
      PROVE Kept(j)'
  BY <1>0, <1>1, <1>2, <1>3, <1>5, MaintainRuns
<1>6. ASSUME NEW c \in Client, Forgets(c)
      PROVE Kept(j)'
  <2>1. /\ Goto(c, Idle) /\ at[c].step = "commit" /\ at[c].kind \in {"cleanup", "delete run"}
        /\ Runs' = Runs \ at[c].id /\ (\A k \in Runs' : run'[k] = run[k]) /\ job' = job
    BY <1>0, <1>6, ForgetsRuns
  <2>2. at'[c] = Idle
    BY <2>1 DEF Goto, TablesInv, Types
  <2>3. at[c].kind = "delete run" \/ at[c].new # "all"
    BY <2>1, <2>2 DEF AllDeleted
  <2>4. Spares(at[c]) /\ j \in Jobs
    BY DEF HistoryInv, Kept
  <2>5. PICK k \in RunsOf(j) \ at[c].id : Baseline(k)
    BY <2>1, <2>3, <2>4 DEF Spares
  <2>6. QED
    BY <1>1, <2>1, <2>5 DEF RunsOf, Baseline
<1>7. ASSUME NEW k \in Runs, EndRun(k)
      PROVE Kept(j)'
  BY <1>0, <1>1, <1>2, <1>3, <1>7, EndRunRuns
<1>8. CASE Restart
  <2>1. PICK k \in RunsOf(j) : Baseline(k) /\ k \in Retained
    BY KeptRetains, SizeAssumption
  <2>2. k \in Runs' /\ run'[k].job = run[k].job /\ run'[k].kind = "backup" /\ run'[k].status = "good"
    BY <1>0, <1>8, <2>1, RestartRuns DEF Ending, Baseline, Active
  <2>3. QED
    BY <1>1, <2>1, <2>2
<1>9. CASE UNCHANGED <<plan, job, run, series>>
  BY <1>1, <1>2, <1>3, <1>9 DEF Runs
<1>10. QED
  BY <1>4, <1>5, <1>6, <1>7, <1>8, <1>9, StepsOfHistory, StepsAreSteady, QueueingIsSteady DEF RunStep

LEMMA InitHistory == Init => HistoryInv
<1>1. Idle.step = "idle"
  BY DEF Idle
<1>2. Init => \A c \in Client : at[c].step # "commit"
  BY <1>1 DEF Init
<1>3. QED
  BY <1>2 DEF HistoryInv, OfItsKind, Spares

(***************************************************************************)
(* main.py:756: a job keeps its last good backup run as long as it exists  *)
(* and nobody deletes all finished runs, whatever is cleaned up or deleted *)
(* beside running and ending runs, if one client at most cleans up, beside *)
(* which the database is not: a clean-up spares this run when it reads, and*)
(* nothing takes another one away before it commits.                       *)
(***************************************************************************)
THEOREM BaselinesStay == Spec /\ HistoryApart => BaselineKept
<1>1. TablesInv /\ HistoryApart /\ [Next]_vars => HistoryApart'
  BY PlanStays DEF HistoryApart, Cleans
<1>2. TablesInv /\ RunsSound /\ HistoryInv /\ [Next]_vars =>
        [\A j \in JobId : Kept(j) /\ j \in Jobs' => Kept(j)' \/ AllDeleted]_vars
  BY StepsKeepBaselines
<1>3. QED
  BY <1>1, <1>2, RunsAlways, InitHistory, NextKeepsHistory, PTL DEF Spec, BaselineKept
=============================================================================
