------------------------- MODULE ScheduleGroup_proofs -------------------------
(***************************************************************************)
(* Proofs about executions of schedules, for any jobs, repositories and    *)
(* number of overlapping executions, with users beside them: a job has one *)
(* active run, the phases keep their order and a repository is compacted   *)
(* once.                                                                   *)
(***************************************************************************)
EXTENDS ScheduleGroup, WellFoundedInduction, TLAPS

(***************************************************************************)
(* An execution has runs only of the phases it has reached, and the runs   *)
(* of a phase it has left are over: what the next phase was decided on     *)
(* does not change any more.                                               *)
(***************************************************************************)
PhasesReached ==
  \A g \in Group :
    /\ phase[g] \in {"idle", "done"} => todo[g] = {}
    /\ \A j \in Job :
         /\ phase[g] \in {"idle", "backup"} => Status(g, "prune", j) = "none"
         /\ phase[g] \in {"idle", "backup", "prune"} => Status(g, "compact", j) = "none"
         /\ phase[g] \in {"prune", "compact", "done"} => ~Active(g, "backup", j)
         /\ phase[g] \in {"compact", "done"} => ~Active(g, "prune", j)

\* Only representatives of a repository are compacted, now or later.
CompactsRepresent ==
  \A g \in Group : \A j \in Job :
    phase[g] \in {"compact", "done"} /\ (j \in todo[g] \/ Status(g, "compact", j) # "none")
      => j \in Representatives(g)

GroupInv ==
  /\ TypeOK /\ OneActiveRunPerJob
  /\ PhasesReached /\ PrunesFollowBackups /\ CompactsRepresent

-----------------------------------------------------------------------------
\* Every set of numbers has a smallest one.
LEMMA NatMin ==
  ASSUME NEW S \in SUBSET Nat, S # {}
  PROVE  \E m \in S : \A n \in S : m <= n
<1> DEFINE R == OpToRel(<, Nat)
<1>1. IsWellFoundedOn(R, Nat)
  BY NatLessThanWellFounded, Zenon
<1> HIDE DEF R
<1>2. PICK m \in S : \A n \in S : ~(<<n, m>> \in R)
  BY <1>1, WFMin
<1>3. \A n \in S : ~(n < m)
  BY <1>2 DEF R, OpToRel
<1>4. QED
  BY <1>3

LEMMA InitEstablishes == Init => GroupInv
<1> SUFFICES ASSUME Init PROVE GroupInv
  OBVIOUS
<1>1. TypeOK
  BY GroupAssumption DEF Init, TypeOK, Phases
<1>2. \A g \in Group, ph \in Phases, j \in Job : Status(g, ph, j) = "none"
  BY DEF Init, Status
<1>3. OneActiveRunPerJob
  BY <1>2 DEF OneActiveRunPerJob, Active, Init
<1>4. PhasesReached /\ PrunesFollowBackups /\ CompactsRepresent
  BY <1>2 DEF PhasesReached, PrunesFollowBackups, CompactsRepresent, Active, Init, Phases
<1>5. QED
  BY <1>1, <1>3, <1>4 DEF GroupInv

\* What one changed run leaves alone.
LEMMA OneRunChanges ==
  ASSUME TypeOK, NEW g \in Group, NEW ph \in Phases, NEW j \in Job, NEW x \in Run,
         run' = [run EXCEPT ![g][ph][j] = x]
  PROVE  /\ run' \in [Group -> [Phases -> [Job -> Run \cup {NoRun}]]]
         /\ Status(g, ph, j)' \in {x.status, "none"}
         /\ \A h \in Group : h # g => run'[h] = run[h]
         /\ \A q \in Phases : q # ph => run'[g][q] = run[g][q]
         /\ \A k \in Job : k # j => run'[g][ph][k] = run[g][ph][k]
<1>1. run' \in [Group -> [Phases -> [Job -> Run \cup {NoRun}]]]
  BY DEF TypeOK
<1>2. run'[g][ph][j] = x
  BY DEF TypeOK
<1>3. \A h \in Group : h # g => run'[h] = run[h]
  BY DEF TypeOK
<1>4. /\ \A q \in Phases : q # ph => run'[g][q] = run[g][q]
      /\ \A k \in Job : k # j => run'[g][ph][k] = run[g][ph][k]
  BY DEF TypeOK
<1>5. QED
  BY <1>1, <1>2, <1>3, <1>4 DEF Status

\* Representatives are decided by the prune runs alone.
LEMMA RepresentativesStay ==
  ASSUME NEW g \in Group, run'[g]["prune"] = run[g]["prune"]
  PROVE  Representatives(g)' = Representatives(g)
<1>1. \A j \in Job : Status(g, "prune", j)' = Status(g, "prune", j)
  BY DEF Status
<1>2. \A r \in Repo : PrunedIn(g, r)' = PrunedIn(g, r)
  BY <1>1 DEF PrunedIn
<1>3. \A r \in Repo : \A k \in PrunedIn(g, r) : k \in Job
  BY DEF PrunedIn
<1>4. QED
  BY <1>1, <1>2, <1>3 DEF Representatives

\* Steps that leave the runs alone leave everything said of them alone.
LEMMA RunsStay ==
  ASSUME UNCHANGED run
  PROVE  /\ \A g \in Group, ph \in Phases, j \in Job :
              Status(g, ph, j)' = Status(g, ph, j) /\ Active(g, ph, j)' = Active(g, ph, j)
         /\ \A g \in Group : Representatives(g)' = Representatives(g)
<1>1. \A g \in Group : Representatives(g)' = Representatives(g)
  BY RepresentativesStay
<1>2. QED
  BY <1>1 DEF Status, Active

LEMMA LowestIsMember ==
  ASSUME NEW S \in SUBSET Job, S # {}
  PROVE  Lowest(S) \in S
<1>1. S \in SUBSET Nat
  BY JobAssumption
<1>2. \E j \in S : \A k \in S : j <= k
  BY <1>1, NatMin
<1>3. QED
  BY <1>2 DEF Lowest

\* The first step of an execution.
LEMMA BeginStep ==
  ASSUME GroupInv, NEW g \in Group, Begin(g)
  PROVE  GroupInv'
<1> USE DEF GroupInv
<1>1. TypeOK'
  BY GroupAssumption DEF Begin, TypeOK, Phases
<1>2. /\ \A h \in Group, q \in Phases, k \in Job :
           Status(h, q, k)' = Status(h, q, k) /\ Active(h, q, k)' = Active(h, q, k)
      /\ \A h \in Group : Representatives(h)' = Representatives(h)
  BY RunsStay DEF Begin
<1>3. OneActiveRunPerJob' /\ PrunesFollowBackups'
  BY <1>2 DEF Begin, OneActiveRunPerJob, PrunesFollowBackups, Phases
<1>4. phase[g] = "idle" /\ phase' = [phase EXCEPT ![g] = "backup"]
  BY DEF Begin
<1>5. PhasesReached'
  BY <1>2, <1>4 DEF Begin, PhasesReached, TypeOK, Phases
<1>6. CompactsRepresent'
  BY <1>2, <1>4 DEF Begin, CompactsRepresent, TypeOK, Phases
<1>7. QED
  BY <1>1, <1>3, <1>5, <1>6

(***************************************************************************)
(* One iteration of a loop: either no run is created, or one run of the    *)
(* present phase, active only where the job had none.                      *)
(***************************************************************************)
LEMMA QueueNextStep ==
  ASSUME GroupInv, NEW g \in Group, QueueNext(g)
  PROVE  GroupInv'
<1> USE DEF GroupInv
<1>1. PICK j \in Job : j \in todo[g] /\ j = Lowest(todo[g])
  BY LowestIsMember DEF QueueNext, TypeOK
<1>2. PICK ph \in Phases : ph = phase[g]
  BY DEF QueueNext, TypeOK, PhasesReached
<1>3. /\ todo' = [todo EXCEPT ![g] = @ \ {j}]
      /\ UNCHANGED <<repoOf, manual, phase>>
  BY <1>1 DEF QueueNext
<1>4. CASE UNCHANGED run
  <2>1. /\ \A h \in Group, q \in Phases, k \in Job :
             Status(h, q, k)' = Status(h, q, k) /\ Active(h, q, k)' = Active(h, q, k)
        /\ \A h \in Group : Representatives(h)' = Representatives(h)
    BY <1>4, RunsStay
  <2>2. TypeOK'
    BY <1>3, <1>4 DEF TypeOK
  <2>3. OneActiveRunPerJob' /\ PrunesFollowBackups'
    BY <2>1, <1>3 DEF OneActiveRunPerJob, PrunesFollowBackups, Phases
  <2>4. PhasesReached'
    BY <2>1, <1>3 DEF PhasesReached, TypeOK, Phases
  <2>5. CompactsRepresent'
    BY <2>1, <1>3 DEF CompactsRepresent, TypeOK, Phases
  <2>6. QED
    BY <2>2, <2>3, <2>4, <2>5
<1>5. ASSUME NEW s \in {"active", "refused"},
             run' = [run EXCEPT ![g][ph][j] = [status |-> s, repo |-> repoOf[j]]],
             ~Skipped(g, j), s = "active" => ~JobBusy(j)
      PROVE  GroupInv'
  <2> DEFINE x == [status |-> s, repo |-> repoOf[j]]
  <2>1. x \in Run /\ x.status = s
    BY <1>1 DEF Run, TypeOK
  <2> HIDE DEF x
  <2>2. run' = [run EXCEPT ![g][ph][j] = x]
    BY <1>5 DEF x
  <2>3. /\ run' \in [Group -> [Phases -> [Job -> Run \cup {NoRun}]]]
        /\ Status(g, ph, j)' \in {s, "none"}
        /\ \A h \in Group, q \in Phases, k \in Job :
             (h # g \/ q # ph \/ k # j) => Status(h, q, k)' = Status(h, q, k)
        /\ \A h \in Group, q \in Phases :
             (h # g \/ q # ph) => run'[h][q] = run[h][q]
    <3>1. run' \in [Group -> [Phases -> [Job -> Run \cup {NoRun}]]]
      BY <2>1, <2>2, OneRunChanges
    <3>2. Status(g, ph, j)' \in {s, "none"}
      BY <2>1, <2>2, OneRunChanges
    <3>3. \A h \in Group : h # g => run'[h] = run[h]
      BY <2>1, <2>2, OneRunChanges
    <3>4. \A q \in Phases : q # ph => run'[g][q] = run[g][q]
      BY <2>1, <2>2, OneRunChanges
    <3>5. \A k \in Job : k # j => run'[g][ph][k] = run[g][ph][k]
      BY <2>1, <2>2, OneRunChanges
    <3>6. QED
      BY <3>1, <3>2, <3>3, <3>4, <3>5 DEF Status
  <2>4. TypeOK'
    BY <1>3, <2>3 DEF TypeOK
  <2>5. \A h \in Group, q \in Phases, k \in Job :
          (h # g \/ q # ph \/ k # j) => Active(h, q, k)' = Active(h, q, k)
    BY <2>3 DEF Active
  <2>6. Active(g, ph, j)' => ~JobBusy(j)
    BY <2>3, <1>5 DEF Active
  <2>7. OneActiveRunPerJob'
    BY <2>5, <2>6, <1>1, <1>2, <1>3 DEF OneActiveRunPerJob, JobBusy
  <2>8. PhasesReached'
    BY <2>3, <2>5, <1>1, <1>2, <1>3 DEF PhasesReached, TypeOK, Phases
  <2>9. PrunesFollowBackups'
    <3>1. CASE ph = "prune"
      <4>1. /\ Status(g, "backup", j) \in Successful
            /\ \A k \in Job : ~Active(g, "backup", k)
        BY <3>1, <1>1, <1>2, <1>5 DEF Skipped, PhasesReached
      <4>2. QED
        BY <4>1, <3>1, <2>3, <2>5, <1>1 DEF PrunesFollowBackups, Phases
    <3>2. CASE ph = "backup"
      <4>1. \A k \in Job : Status(g, "prune", k)' = "none"
        BY <3>2, <1>2, <2>3 DEF PhasesReached, Phases
      <4>2. QED
        BY <4>1, <3>2, <2>3, <2>5, <1>1 DEF PrunesFollowBackups, Phases
    <3>3. CASE ph = "compact"
      BY <3>3, <2>3, <2>5, <1>1 DEF PrunesFollowBackups, Phases
    <3>4. QED
      BY <3>1, <3>2, <3>3, <1>2 DEF Phases
  <2>10. CompactsRepresent'
    <3>1. \A h \in Group : phase[h] \in {"compact", "done"} => Representatives(h)' = Representatives(h)
      BY <1>2, <2>3, RepresentativesStay DEF Phases
    <3>2. QED
      BY <3>1, <2>3, <1>1, <1>2, <1>3 DEF CompactsRepresent, TypeOK, Phases
  <2>11. QED
    BY <2>4, <2>7, <2>8, <2>9, <2>10
<1>6. \/ UNCHANGED run
      \/ ~Skipped(g, j) /\ ~JobBusy(j) /\ SetRun(g, j, "active")
      \/ ~Skipped(g, j) /\ SetRun(g, j, "refused")
  BY <1>1 DEF QueueNext
<1>7. CASE ~Skipped(g, j) /\ ~JobBusy(j) /\ SetRun(g, j, "active")
  BY <1>2, <1>5, <1>7 DEF SetRun
<1>8. CASE ~Skipped(g, j) /\ SetRun(g, j, "refused")
  BY <1>2, <1>5, <1>8 DEF SetRun
<1>9. QED
  BY <1>4, <1>6, <1>7, <1>8

\* A run that ends: nothing of its phase has been decided yet.
LEMMA RunEndsStep ==
  ASSUME GroupInv, NEW g \in Group, NEW ph \in Phases, NEW j \in Job, RunEnds(g, ph, j)
  PROVE  GroupInv'
<1> USE DEF GroupInv
<1>1. PICK result \in Ended : run' = [run EXCEPT ![g][ph][j].status = result]
  BY DEF RunEnds
<1>2. /\ UNCHANGED <<repoOf, manual, phase, todo>>
      /\ Active(g, ph, j) /\ run[g][ph][j] \in Run
  BY DEF RunEnds, Active, Status, TypeOK
<1>3. PICK x \in Run : x = [run[g][ph][j] EXCEPT !.status = result]
  BY <1>2 DEF Run
<1>4. x.status = result
  BY <1>2, <1>3 DEF Run
<1>5. run' = [run EXCEPT ![g][ph][j] = x]
  BY <1>1, <1>3 DEF TypeOK
<1>6. /\ run' \in [Group -> [Phases -> [Job -> Run \cup {NoRun}]]]
      /\ Status(g, ph, j)' \in {result, "none"}
      /\ \A h \in Group, q \in Phases, k \in Job :
           (h # g \/ q # ph \/ k # j) => Status(h, q, k)' = Status(h, q, k)
      /\ \A h \in Group, q \in Phases :
           (h # g \/ q # ph) => run'[h][q] = run[h][q]
  <2>1. run' \in [Group -> [Phases -> [Job -> Run \cup {NoRun}]]]
    BY <1>5, OneRunChanges
  <2>2. Status(g, ph, j)' \in {result, "none"}
    BY <1>4, <1>5, OneRunChanges
  <2>3. \A h \in Group : h # g => run'[h] = run[h]
    BY <1>5, OneRunChanges
  <2>4. \A q \in Phases : q # ph => run'[g][q] = run[g][q]
    BY <1>5, OneRunChanges
  <2>5. \A k \in Job : k # j => run'[g][ph][k] = run[g][ph][k]
    BY <1>5, OneRunChanges
  <2>6. QED
    BY <2>1, <2>2, <2>3, <2>4, <2>5 DEF Status
<1>7. TypeOK'
  BY <1>2, <1>6 DEF TypeOK
<1>8. \A h \in Group, q \in Phases, k \in Job : Active(h, q, k)' => Active(h, q, k)
  BY <1>6 DEF Active, Ended
<1>9. OneActiveRunPerJob'
  BY <1>2, <1>8 DEF OneActiveRunPerJob
<1>10. PhasesReached'
  BY <1>2, <1>6, <1>8 DEF PhasesReached, TypeOK, Phases, Active
<1>11. PrunesFollowBackups'
  BY <1>2, <1>6, <1>8 DEF PrunesFollowBackups, Phases, Active
<1>12. CompactsRepresent'
  <2>1. \A h \in Group : phase[h] \in {"compact", "done"} => Representatives(h)' = Representatives(h)
    BY <1>2, <1>6, RepresentativesStay DEF Phases, PhasesReached
  <2>2. QED
    BY <2>1, <1>2, <1>6 DEF CompactsRepresent, TypeOK, Phases, Active
<1>13. QED
  BY <1>7, <1>9, <1>10, <1>11, <1>12

\* The next phase is decided when the runs of the present one are over.
LEMMA PhaseStep ==
  ASSUME GroupInv, NEW g \in Group, PrunesBegin(g) \/ CompactsBegin(g) \/ GroupDone(g)
  PROVE  GroupInv'
<1> USE DEF GroupInv
<1>1. /\ \A h \in Group, q \in Phases, k \in Job :
           Status(h, q, k)' = Status(h, q, k) /\ Active(h, q, k)' = Active(h, q, k)
      /\ \A h \in Group : Representatives(h)' = Representatives(h)
  BY RunsStay DEF PrunesBegin, CompactsBegin, GroupDone
<1>2. UNCHANGED <<manual, repoOf, run>>
  BY DEF PrunesBegin, CompactsBegin, GroupDone
<1>3. OneActiveRunPerJob' /\ PrunesFollowBackups'
  BY <1>1, <1>2 DEF OneActiveRunPerJob, PrunesFollowBackups, Phases
<1>4. CASE PrunesBegin(g)
  <2>1. TypeOK'
    BY <1>4 DEF PrunesBegin, TypeOK, Phases
  <2>2. PhasesReached'
    BY <1>1, <1>4 DEF PrunesBegin, PhaseOver, PhasesReached, TypeOK, Phases
  <2>3. CompactsRepresent'
    BY <1>1, <1>4 DEF PrunesBegin, CompactsRepresent, TypeOK, Phases
  <2>4. QED
    BY <2>1, <2>2, <2>3, <1>3
<1>5. CASE CompactsBegin(g)
  <2>1. Representatives(g) \in SUBSET Job
    BY DEF Representatives
  <2>2. TypeOK'
    BY <2>1, <1>5 DEF CompactsBegin, TypeOK, Phases
  <2>3. PhasesReached'
    BY <1>1, <1>5 DEF CompactsBegin, PhaseOver, PhasesReached, TypeOK, Phases
  <2>4. CompactsRepresent'
    BY <1>1, <1>5 DEF CompactsBegin, CompactsRepresent, PhasesReached, TypeOK, Phases
  <2>5. QED
    BY <2>2, <2>3, <2>4, <1>3
<1>6. CASE GroupDone(g)
  <2>1. TypeOK'
    BY <1>6 DEF GroupDone, TypeOK, Phases
  <2>2. PhasesReached'
    BY <1>1, <1>6 DEF GroupDone, PhaseOver, PhasesReached, TypeOK, Phases
  <2>3. CompactsRepresent'
    BY <1>1, <1>6 DEF GroupDone, CompactsRepresent, TypeOK, Phases
  <2>4. QED
    BY <2>1, <2>2, <2>3, <1>3
<1>7. QED
  BY <1>4, <1>5, <1>6

\* Users start and end runs of their own and move jobs to other repositories.
LEMMA UserStep ==
  ASSUME GroupInv,
         \/ \E j \in Job : ManualBegins(j) \/ ManualEnds(j)
         \/ \E j \in Job, r \in Repo : MoveJob(j, r)
         \/ UNCHANGED vars
  PROVE  GroupInv'
<1> USE DEF GroupInv
<1>1. UNCHANGED <<phase, todo, run>>
  BY DEF ManualBegins, ManualEnds, MoveJob, vars
<1>2. /\ \A h \in Group, q \in Phases, k \in Job :
           Status(h, q, k)' = Status(h, q, k) /\ Active(h, q, k)' = Active(h, q, k)
      /\ \A h \in Group : Representatives(h)' = Representatives(h)
  BY <1>1, RunsStay
<1>3. TypeOK'
  BY DEF ManualBegins, ManualEnds, MoveJob, vars, TypeOK
<1>4. OneActiveRunPerJob'
  <2>1. \A j \in Job : j \in manual' /\ j \notin manual => ~JobBusy(j)
    BY DEF ManualBegins, ManualEnds, MoveJob, vars
  <2>2. QED
    BY <2>1, <1>2 DEF OneActiveRunPerJob, JobBusy
<1>5. PhasesReached' /\ PrunesFollowBackups' /\ CompactsRepresent'
  BY <1>1, <1>2 DEF PhasesReached, PrunesFollowBackups, CompactsRepresent, Phases
<1>6. QED
  BY <1>3, <1>4, <1>5

LEMMA NextPreserves == GroupInv /\ [Next]_vars => GroupInv'
<1> SUFFICES ASSUME GroupInv, [Next]_vars PROVE GroupInv'
  OBVIOUS
<1>1. CASE \E g \in Group : Begin(g) \/ GroupStep(g)
  BY <1>1, BeginStep, QueueNextStep, PhaseStep DEF GroupStep
<1>2. CASE \E g \in Group, ph \in Phases, j \in Job : RunEnds(g, ph, j)
  BY <1>2, RunEndsStep
<1>3. CASE \/ \E j \in Job : ManualBegins(j) \/ ManualEnds(j)
           \/ \E j \in Job, r \in Repo : MoveJob(j, r)
           \/ UNCHANGED vars
  BY <1>3, UserStep
<1>4. QED
  BY <1>1, <1>2, <1>3 DEF Next

\* GroupInv holds in every reachable state.
THEOREM GroupInvariant == Spec => []GroupInv
<1>1. Init => GroupInv
  BY InitEstablishes
<1>2. GroupInv /\ [Next]_vars => GroupInv'
  BY NextPreserves
<1>3. QED
  BY <1>1, <1>2, PTL DEF Spec

-----------------------------------------------------------------------------
(***************************************************************************)
(* A compact of a repository is one for a representative of it, whose      *)
(* prune runs all ended with success; two representatives of a repository  *)
(* are both the lowest of its pruned jobs.                                 *)
(***************************************************************************)
LEMMA CompactsAreRepresented ==
  ASSUME GroupInv, NEW g \in Group, NEW r \in Repo, NEW j \in CompactsFor(g, r)
  PROVE  /\ j \in PrunedIn(g, r)
         /\ \A k \in PrunedIn(g, r) : j <= k /\ Status(g, "prune", k) = "success"
         /\ \A k \in Job : ~Active(g, "prune", k)
<1> USE DEF GroupInv
<1>1. j \in Job /\ Status(g, "compact", j) # "none" /\ run[g]["prune"][j].repo = r
  BY DEF CompactsFor, Compacted
<1>2. phase[g] \in {"compact", "done"}
  BY <1>1 DEF PhasesReached, TypeOK, Phases
<1>3. j \in Representatives(g)
  BY <1>1, <1>2 DEF CompactsRepresent
<1>4. PICK s \in Repo :
        /\ j \in PrunedIn(g, s)
        /\ \A k \in PrunedIn(g, s) : j <= k
        /\ \A k \in PrunedIn(g, s) : Status(g, "prune", k) = "success"
  BY <1>3 DEF Representatives
<1>5. s = r
  BY <1>1, <1>4 DEF PrunedIn
<1>6. QED
  BY <1>2, <1>4, <1>5 DEF PhasesReached

(***************************************************************************)
(* A job never has two active runs, whatever schedules overlap and users   *)
(* start: queue_job_action refuses a busy job in the step that inserts the *)
(* new run.                                                                *)
(***************************************************************************)
THEOREM OneActiveRun == Spec => []OneActiveRunPerJob
<1>1. GroupInv => OneActiveRunPerJob
  BY DEF GroupInv
<1>2. QED
  BY <1>1, GroupInvariant, PTL

(***************************************************************************)
(* _scheduled_backup_group keeps its phases apart: prunes only of jobs     *)
(* whose backup succeeded and after every backup ended, compacts only      *)
(* where every prune run of the repository succeeded.                      *)
(***************************************************************************)
THEOREM PhasesKeepOrder == Spec => []PhasesInOrder
<1>1. ASSUME GroupInv PROVE CompactsFollowPrunes
  <2> SUFFICES ASSUME NEW g \in Group, NEW r \in Repo, NEW j \in CompactsFor(g, r),
                      NEW k \in Job, Status(g, "prune", k) \in Ended \cup {"active"},
                      run[g]["prune"][k].repo = r
               PROVE  Status(g, "prune", k) = "success"
    BY DEF CompactsFollowPrunes
  <2>1. k \in PrunedIn(g, r)
    BY <1>1, CompactsAreRepresented DEF PrunedIn, Active
  <2>2. QED
    BY <1>1, <2>1, CompactsAreRepresented
<1>2. GroupInv => PhasesInOrder
  BY <1>1 DEF GroupInv, PhasesInOrder
<1>3. QED
  BY <1>2, GroupInvariant, PTL

(***************************************************************************)
(* "Compact is executed at most once per repository": the group compacts   *)
(* for the lowest job of each repository it pruned, so that any further    *)
(* compact in a repository is that of a job moved there after its prune.   *)
(***************************************************************************)
THEOREM OneCompactPerRepository == Spec => []CompactOncePerRepository
<1>1. ASSUME GroupInv PROVE CompactOncePerRepository
  <2> SUFFICES ASSUME NEW g \in Group, NEW r \in Repo,
                      NEW i \in CompactsIn(g, r), NEW j \in CompactsIn(g, r),
                      ~MovedSincePrune(g, i), ~MovedSincePrune(g, j)
               PROVE  i = j
    BY DEF CompactOncePerRepository
  <2>1. i \in CompactsFor(g, r) /\ j \in CompactsFor(g, r)
    BY DEF CompactsIn, CompactsFor, MovedSincePrune
  <2>2. i \in PrunedIn(g, r) /\ j \in PrunedIn(g, r) /\ i <= j /\ j <= i
    BY <1>1, <2>1, CompactsAreRepresented
  <2>3. i \in Nat /\ j \in Nat
    BY JobAssumption DEF CompactsIn
  <2>4. QED
    BY <2>2, <2>3
<1>2. QED
  BY <1>1, GroupInvariant, PTL
=============================================================================
