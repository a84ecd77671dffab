--------------------------- MODULE RunQueue_proofs ---------------------------
(***************************************************************************)
(* Proofs about the run queue for any repositories, limits, requests and   *)
(* number of runs: one run per physical repository, chains that nothing    *)
(* admitted by the planner can enter, limits and order of its selections.  *)
(***************************************************************************)
EXTENDS RunQueue, FiniteSetTheorems, WellFoundedInduction, TLAPS

(***************************************************************************)
(* The strengthening that makes these invariants inductive.  Ids are given *)
(* out in order, so that a new reservation comes behind every older one;   *)
(* a reservation belongs to an existing row whose own run carries its      *)
(* token, so that the head of a list is never mistaken for a stranger.     *)
(***************************************************************************)
IdsInOrder == \A r, s \in RunId : s < r /\ Exists(r) => Exists(s)

RowsExist == \A r \in RunId : Exists(r) <=> row[r] \in Row

ReservationsSound ==
  \A root \in reserved :
    /\ Exists(root) /\ row[root] \in Row /\ row[root].kind = "borg"
    /\ token[root] = root

OnlyReservedWait == \A root \in RunId : waitsFor[root] # 0 => root \in reserved

QueueInv ==
  /\ TypeOK /\ IdsInOrder /\ RowsExist /\ ReservationsSound /\ OnlyReservedWait
  /\ RepositoryExclusive /\ StartedChainIsHead /\ ChainProtected

-----------------------------------------------------------------------------
\* Every set of numbers has a smallest one.
LEMMA NatMin ==
  ASSUME NEW S \in SUBSET Nat, S # {}
  PROVE  \E m \in S : \A n \in S : m <= n
<1> DEFINE R == OpToRel(<, Nat)
<1>1. IsWellFoundedOn(R, Nat)
  BY NatLessThanWellFounded, Zenon
<1> HIDE DEF R
<1>2. PICK m \in S : \A n \in S : ~(<<n, m>> \in R)
  BY <1>1, WFMin
<1>3. \A n \in S : ~(n < m)
  BY <1>2 DEF R, OpToRel
<1>4. QED
  BY <1>3

\* A repository with reservations has one at the head of its list.
LEMMA HeadExists ==
  ASSUME TypeOK, NEW r \in reserved
  PROVE  \E root \in reserved :
           IsHead(root) /\ TargetOfRun(root) = TargetOfRun(r) /\ root <= r
<1> DEFINE same == {x \in reserved : TargetOfRun(x) = TargetOfRun(r)}
<1>0. \A x \in reserved : x \in Nat
  BY RunBound DEF TypeOK, RunId
<1>1. same \in SUBSET Nat /\ r \in same
  BY <1>0
<1>2. PICK root \in same : \A x \in same : root <= x
  BY <1>1, NatMin
<1>3. root \in reserved /\ TargetOfRun(root) = TargetOfRun(r)
  BY <1>2
<1>4. IsHead(root)
  BY <1>2, <1>3 DEF IsHead
<1>5. QED
  BY <1>1, <1>2, <1>3, <1>4

LEMMA InitEstablishes == Init => QueueInv
<1> SUFFICES ASSUME Init PROVE QueueInv
  OBVIOUS
<1>1. TypeOK
  BY RunBound, JobAssumption DEF Init, TypeOK, RunId, Status, Active
<1>2. IdsInOrder /\ RowsExist
  BY NoRowAssumption DEF Init, IdsInOrder, RowsExist, Exists
<1>3. QED
  BY <1>1, <1>2 DEF Init, QueueInv, ReservationsSound, OnlyReservedWait, Running,
     RepositoryExclusive, StartedChainIsHead, ChainProtected

\* What an admitted run may rely on.
LEMMA ClaimIsAdmissible ==
  ASSUME NEW r \in RunId, Claim(r)
  PROVE  \E S \in SUBSET Queued : IsPlan(S) /\ r \in S /\ Admissible(r, Running \cup {s \in S : s < r})
BY DEF Claim, IsPlan

\* A new row changes nothing about the runs that exist.
LEMMA InsertKeeps ==
  ASSUME QueueInv, NEW r \in RunId, NEW q \in Row, Insert(r, q)
  PROVE  /\ row' \in [RunId -> Row \cup {NoRow}]
         /\ status' \in [RunId -> Status]
         /\ live' \subseteq {s \in RunId : Active(s)'}
         /\ IdsInOrder' /\ RowsExist'
         /\ Running' = Running
         /\ \A s \in RunId : Exists(s) => s # r /\ row'[s] = row[s] /\ Exists(s)'
         /\ \A s \in reserved \cup Running : s \in RunId /\ Exists(s)
         /\ \A s \in reserved : s < r
<1> USE DEF QueueInv, TypeOK
<1>1. /\ row' \in [RunId -> Row \cup {NoRow}]
      /\ status' \in [RunId -> Status]
      /\ live' \subseteq {s \in RunId : Active(s)'}
  BY DEF Insert, Status, Active
<1>2. IdsInOrder'
  BY RunBound DEF Insert, IdsInOrder, Exists, RunId
<1>3. RowsExist'
  BY DEF Insert, RowsExist, Exists
<1>4. Running' = Running
  BY DEF Insert, Running, Exists, Active
<1>5. \A s \in RunId : Exists(s) => s # r /\ row'[s] = row[s] /\ Exists(s)'
  BY DEF Insert, Exists
<1>6. \A s \in reserved \cup Running : s \in RunId /\ Exists(s)
  BY DEF Running, ReservationsSound, Exists, Active
<1>7. \A s \in reserved : s < r
  <2>1. \A s \in RunId : Exists(s) => s < r
    BY <1>5, RunBound DEF Insert, IdsInOrder, RunId
  <2>2. QED
    BY <2>1, <1>6
<1>8. QED
  BY <1>1, <1>2, <1>3, <1>4, <1>5, <1>6, <1>7

\* A row takes over the job's present repository and nothing else.
LEMMA QueuedRow ==
  ASSUME TypeOK, NEW q \in Row
  PROVE  /\ AsQueued(q) \in Row /\ AsQueued(q).kind = q.kind
         /\ FollowUp(q) \in Row /\ FollowUp(q).kind = q.kind
<1>1. ASSUME NEW p \in Repo, NEW x \in Row
      PROVE  [x EXCEPT !.repo = p] \in Row /\ [x EXCEPT !.repo = p].kind = x.kind
  BY DEF Row
<1>2. q.job # NoJob => repoOf[q.job] \in Repo
  BY DEF TypeOK, Row
<1>3. AsQueued(q) \in Row /\ AsQueued(q).kind = q.kind
  BY <1>1, <1>2 DEF AsQueued
<1>4. PICK x \in Row : x = AsQueued(q) /\ x.kind = q.kind
  BY <1>3
<1>5. FollowUp(q) = [x EXCEPT !.chain = FALSE]
  BY <1>4 DEF FollowUp
<1>6. FollowUp(q) \in Row /\ FollowUp(q).kind = q.kind
  <2>1. [x EXCEPT !.chain = FALSE] \in Row /\ [x EXCEPT !.chain = FALSE].kind = x.kind
    BY <1>4 DEF Row
  <2>2. QED
    BY <1>4, <1>5, <2>1
<1>7. QED
  BY <1>3, <1>6

LEMMA QueueRunStep ==
  ASSUME QueueInv, NEW r \in RunId, NEW q \in Request, QueueRun(r, q)
  PROVE  QueueInv'
<1>1. PICK x \in Row : Insert(r, x)
  BY RequestAssumption, QueuedRow DEF QueueRun, QueueInv
<1> USE DEF QueueInv
<1>2. /\ row' \in [RunId -> Row \cup {NoRow}]
      /\ status' \in [RunId -> Status]
      /\ live' \subseteq {s \in RunId : Active(s)'}
      /\ IdsInOrder' /\ RowsExist'
      /\ Running' = Running
      /\ \A s \in RunId : Exists(s) => s # r /\ row'[s] = row[s] /\ Exists(s)'
      /\ \A s \in reserved \cup Running : s \in RunId /\ Exists(s)
  BY <1>1, InsertKeeps
<1>3. UNCHANGED <<plan, repoOf, settings, mounts, chains>>
  BY DEF QueueRun
<1>4. TypeOK'
  BY <1>2, <1>3 DEF TypeOK, settings, mounts, chains
<1>5. \A s \in reserved \cup Running : row'[s] = row[s] /\ Exists(s)'
  BY <1>2
<1>6. ReservationsSound' /\ OnlyReservedWait'
  BY <1>3, <1>5 DEF chains, ReservationsSound, OnlyReservedWait
<1>7. RepositoryExclusive'
  BY <1>2, <1>3, <1>5
     DEF RepositoryExclusive, SameTarget, UsesRepository, TargetOfRun
<1>8. started \subseteq reserved
  BY DEF TypeOK
<1>9. StartedChainIsHead' /\ ChainProtected'
  BY <1>2, <1>3, <1>5, <1>8 DEF chains, StartedChainIsHead, ChainProtected, IsHead, TargetOfRun
<1>10. QED
  BY <1>2, <1>4, <1>6, <1>7, <1>9

LEMMA QueueManualBackupStep ==
  ASSUME QueueInv, NEW r \in RunId, NEW q \in Request, QueueManualBackup(r, q)
  PROVE  QueueInv'
<1>1. PICK x \in Row : x.kind = "borg" /\ Insert(r, x)
  BY RequestAssumption, QueuedRow DEF QueueManualBackup, QueueInv
<1> USE DEF QueueInv
<1>2. /\ row' \in [RunId -> Row \cup {NoRow}]
      /\ status' \in [RunId -> Status]
      /\ live' \subseteq {s \in RunId : Active(s)'}
      /\ IdsInOrder' /\ RowsExist'
      /\ Running' = Running
      /\ \A s \in RunId : Exists(s) => s # r /\ row'[s] = row[s] /\ Exists(s)'
      /\ \A s \in reserved \cup Running : s \in RunId /\ Exists(s)
      /\ \A s \in reserved : s < r
  BY <1>1, InsertKeeps
<1>3. /\ UNCHANGED <<plan, repoOf, settings, mounts, started>>
      /\ reserved' = reserved \cup {r}
      /\ token' = [token EXCEPT ![r] = r]
      /\ waitsFor' = [waitsFor EXCEPT ![r] = r]
      /\ phase' = [phase EXCEPT ![r] = "backup"]
  BY DEF QueueManualBackup
<1>4. TypeOK'
  <2>1. token' \in [RunId -> 0..MaxRuns] /\ waitsFor' \in [RunId -> 0..MaxRuns]
    BY <1>3, RunBound DEF TypeOK, RunId
  <2>2. phase' \in [RunId -> {"none", "backup", "prune", "compact"}]
    BY <1>3 DEF TypeOK
  <2>3. QED
    BY <1>2, <1>3, <2>1, <2>2 DEF TypeOK, settings, mounts
<1>5. \A s \in reserved \cup Running : s # r /\ row'[s] = row[s] /\ Exists(s)' /\ token'[s] = token[s]
  BY <1>2, <1>3 DEF TypeOK
<1>6. row'[r] = x /\ Exists(r)' /\ token'[r] = r
  BY <1>1, <1>3 DEF Insert, Exists, TypeOK
<1>7. ReservationsSound' /\ OnlyReservedWait'
  BY <1>1, <1>3, <1>5, <1>6 DEF TypeOK, ReservationsSound, OnlyReservedWait
<1>8. RepositoryExclusive'
  BY <1>2, <1>3, <1>5
     DEF RepositoryExclusive, SameTarget, UsesRepository, TargetOfRun
<1>9. StartedChainIsHead'
  <2>1. SUFFICES ASSUME NEW root \in started PROVE IsHead(root)'
    BY <1>3 DEF StartedChainIsHead
  <2>2. root \in reserved /\ IsHead(root)
    BY DEF TypeOK, StartedChainIsHead
  <2>3. root <= r
    BY <1>2, <2>2, RunBound DEF TypeOK, RunId
  <2>4. QED
    BY <1>3, <1>5, <2>2, <2>3 DEF IsHead, TargetOfRun
<1>10. ChainProtected'
  <2>1. \A root \in started : root \in reserved
    BY DEF TypeOK
  <2>2. QED
    BY <1>2, <1>3, <1>5, <2>1 DEF ChainProtected, TargetOfRun
<1>11. QED
  BY <1>2, <1>4, <1>7, <1>8, <1>9, <1>10

\* The planner admits r: nobody uses its repository, no archive of its record
\* is mounted, and every started chain there is its own.
LEMMA ClaimStep ==
  ASSUME QueueInv, NEW r \in RunId, Claim(r)
  PROVE  QueueInv'
<1> USE DEF QueueInv
<1>1. PICK S \in SUBSET Queued : Admissible(r, Running \cup {s \in S : s < r})
  BY ClaimIsAdmissible
<1>2. /\ ~ArchiveMountBlocks(r) /\ ~ReservedForOther(r)
      /\ \A o \in Running : ~SameTarget(r, o)
  BY <1>1 DEF Admissible
<1>3. /\ r \in live /\ status[r] = "queued" /\ row[r].kind # "refresh"
      /\ status' = [status EXCEPT ![r] = "running"]
      /\ started' = started \cup ({r} \cap reserved)
      /\ UNCHANGED <<row, live, plan, repoOf, settings, mounts, reserved, token, waitsFor, phase>>
  BY DEF Claim, Queued
<1>4. Running' = Running \cup {r}
  BY <1>3 DEF Running, TypeOK
<1>5. TypeOK'
  BY <1>3 DEF TypeOK, settings, mounts, Status, Active
<1>6. \A s \in RunId : Exists(s)' <=> Exists(s)
  BY <1>3 DEF TypeOK, Exists
<1>7. IdsInOrder' /\ RowsExist'
  BY <1>3, <1>6 DEF IdsInOrder, RowsExist
<1>8. ReservationsSound' /\ OnlyReservedWait'
  BY <1>3, <1>6 DEF TypeOK, ReservationsSound, OnlyReservedWait
<1>9. RepositoryExclusive'
  BY <1>2, <1>3, <1>4
     DEF RepositoryExclusive, SameTarget, UsesRepository, TargetOfRun
<1>10. ASSUME r \in reserved
       PROVE  IsHead(r)
  <2>1. PICK root \in reserved :
           IsHead(root) /\ TargetOfRun(root) = TargetOfRun(r) /\ root <= r
    BY <1>10, HeadExists
  <2>2. UsesRepository(r) /\ token[r] = r
    BY <1>10 DEF ReservationsSound, UsesRepository
  <2>3. r \in Nat /\ root \in Nat
    BY <1>10, RunBound DEF TypeOK, RunId
  <2>4. root = r
    BY <1>2, <2>1, <2>2, <2>3 DEF ReservedForOther
  <2>5. QED
    BY <2>1, <2>4
<1>11. StartedChainIsHead'
  <2>1. \A root \in started' : IsHead(root)
    BY <1>3, <1>10 DEF StartedChainIsHead
  <2>2. QED
    BY <1>3, <2>1 DEF StartedChainIsHead, IsHead, TargetOfRun
<1>12. ChainProtected'
  <2>1. SUFFICES ASSUME NEW root \in started', NEW x \in Running',
                        row[x].kind = "borg", TargetOfRun(x) = TargetOfRun(root)
                 PROVE  token[x] = root
    BY <1>3 DEF ChainProtected, TargetOfRun
  <2>2. CASE root \in started /\ x \in Running
    BY <2>1, <2>2 DEF ChainProtected
  <2>3. CASE root \in started /\ x = r
    <3>1. IsHead(root) /\ root \in reserved
      BY <2>3 DEF StartedChainIsHead, TypeOK
    <3>2. QED
      BY <1>2, <2>1, <2>3, <3>1 DEF ReservedForOther, UsesRepository
  <2>4. CASE root = r /\ r \in reserved
    <3>1. row[r].kind = "borg" /\ token[r] = r
      BY <2>4 DEF ReservationsSound
    <3>2. x = r
      BY <1>2, <1>4, <2>1, <2>4, <3>1 DEF SameTarget, UsesRepository
    <3>3. QED
      BY <2>4, <3>1, <3>2
  <2>5. QED
    BY <1>3, <1>4, <2>2, <2>3, <2>4
<1>13. QED
  BY <1>5, <1>7, <1>8, <1>9, <1>11, <1>12

\* An archive refresh starts only when no row of its repository is running.
LEMMA StartRefreshStep ==
  ASSUME QueueInv, NEW r \in RunId, StartRefresh(r)
  PROVE  QueueInv'
<1> USE DEF QueueInv
<1>1. /\ r \in live /\ status[r] = "queued" /\ row[r].kind = "refresh"
      /\ \A s \in RunId : ~RepositoryBlocker(r, s)
      /\ status' = [status EXCEPT ![r] = "running"]
      /\ UNCHANGED <<row, live, plan, repoOf, settings, mounts, chains>>
  BY DEF StartRefresh, Queued
<1>2. Running' = Running \cup {r}
  BY <1>1 DEF Running, TypeOK
<1>3. TypeOK'
  BY <1>1 DEF TypeOK, settings, mounts, chains, Status, Active
<1>4. \A s \in RunId : Exists(s)' <=> Exists(s)
  BY <1>1 DEF TypeOK, Exists
<1>5. IdsInOrder' /\ RowsExist' /\ ReservationsSound' /\ OnlyReservedWait'
  BY <1>1, <1>4 DEF TypeOK, chains, IdsInOrder, RowsExist, ReservationsSound, OnlyReservedWait
<1>6. \A o \in Running : ~SameTarget(r, o)
  BY <1>1 DEF Running, TypeOK, RepositoryBlocker, SameTarget, TargetOfRun, Active
<1>7. RepositoryExclusive'
  BY <1>1, <1>2, <1>6 DEF RepositoryExclusive, SameTarget, UsesRepository, TargetOfRun
<1>8. ChainProtected' /\ StartedChainIsHead'
  BY <1>1, <1>2
     DEF chains, ChainProtected, StartedChainIsHead, IsHead, TargetOfRun
<1>9. QED
  BY <1>3, <1>5, <1>7, <1>8

\* Steps that only take runs out of the running ones.
LEMMA EndSteps ==
  ASSUME QueueInv, NEW r \in RunId, Ends(r) \/ EndTwiceCancelled(r)
  PROVE  QueueInv'
<1> USE DEF QueueInv
<1>1. /\ Running' \subseteq Running
      /\ \A s \in RunId : Exists(s)' <=> Exists(s)
      /\ UNCHANGED <<row, plan, repoOf, settings, mounts, chains>>
      /\ status' \in [RunId -> Status]
      /\ live' \subseteq {s \in RunId : Active(s)'}
  <2>1. CASE EndTwiceCancelled(r)
    BY <2>1 DEF EndTwiceCancelled, Running, Exists, TypeOK, Active
  <2>2. CASE Ends(r)
    <3>1. PICK result \in Results : End(r, result)
      BY <2>2 DEF Ends
    <3>2. result \in Terminal
      BY RunBound
    <3>3. r \in live /\ status[r] \in {"queued", "running"}
      BY <3>1 DEF End
    <3>4. /\ status' = [status EXCEPT ![r] = result] /\ live' = live \ {r}
          /\ UNCHANGED <<row, plan, repoOf, settings, mounts, chains>>
      BY <3>1 DEF End
    <3>5. QED
      BY <3>2, <3>3, <3>4 DEF Running, Exists, TypeOK, Active, Status, Terminal
  <2>3. QED
    BY <2>1, <2>2
<1>2. TypeOK'
  BY <1>1 DEF TypeOK, settings, mounts, chains
<1>3. IdsInOrder' /\ RowsExist' /\ ReservationsSound' /\ OnlyReservedWait'
  BY <1>1 DEF TypeOK, chains, IdsInOrder, RowsExist, ReservationsSound, OnlyReservedWait
<1>4. RepositoryExclusive'
  BY <1>1 DEF RepositoryExclusive, SameTarget, UsesRepository, TargetOfRun
<1>5. StartedChainIsHead' /\ ChainProtected'
  BY <1>1 DEF chains, StartedChainIsHead, ChainProtected, IsHead, TargetOfRun
<1>6. QED
  BY <1>1, <1>2, <1>3, <1>4, <1>5

LEMMA ChainContinuesStep ==
  ASSUME QueueInv, NEW root \in RunId, NEW r \in RunId, ChainContinues(root, r)
  PROVE  QueueInv'
<1> DEFINE q == FollowUp(row[root])
<1> USE DEF QueueInv
<1>1. root \in reserved /\ row[root] \in Row
  BY RequestAssumption DEF ChainContinues, OnlyReservedWait, ReservationsSound
<1>2. q \in Row /\ Insert(r, q)
  BY <1>1, QueuedRow DEF ChainContinues
<1>3. /\ row' \in [RunId -> Row \cup {NoRow}]
      /\ status' \in [RunId -> Status]
      /\ live' \subseteq {s \in RunId : Active(s)'}
      /\ IdsInOrder' /\ RowsExist'
      /\ Running' = Running
      /\ \A s \in RunId : Exists(s) => s # r /\ row'[s] = row[s] /\ Exists(s)'
      /\ \A s \in reserved \cup Running : s \in RunId /\ Exists(s)
  BY <1>2, InsertKeeps
<1>4. /\ UNCHANGED <<plan, repoOf, settings, mounts, reserved, started>>
      /\ token' = [token EXCEPT ![r] = root]
      /\ waitsFor' = [waitsFor EXCEPT ![root] = r]
      /\ phase' = [phase EXCEPT ![root] = NextPhase(root)]
  BY DEF ChainContinues
<1>5. TypeOK'
  <2>1. token' \in [RunId -> 0..MaxRuns] /\ waitsFor' \in [RunId -> 0..MaxRuns]
    BY <1>4, RunBound DEF TypeOK, RunId
  <2>2. phase' \in [RunId -> {"none", "backup", "prune", "compact"}]
    BY <1>4 DEF TypeOK, NextPhase
  <2>3. QED
    BY <1>3, <1>4, <2>1, <2>2 DEF TypeOK, settings, mounts
<1>6. \A s \in reserved \cup Running : s # r /\ row'[s] = row[s] /\ Exists(s)' /\ token'[s] = token[s]
  BY <1>3, <1>4 DEF TypeOK
<1>7. ReservationsSound' /\ OnlyReservedWait'
  BY <1>1, <1>4, <1>6 DEF TypeOK, ReservationsSound, OnlyReservedWait
<1>8. RepositoryExclusive'
  BY <1>3, <1>4, <1>6
     DEF RepositoryExclusive, SameTarget, UsesRepository, TargetOfRun
<1>9. StartedChainIsHead' /\ ChainProtected'
  <2>1. started \subseteq reserved
    BY DEF TypeOK
  <2>2. QED
    BY <1>3, <1>4, <1>6, <2>1 DEF StartedChainIsHead, ChainProtected, IsHead, TargetOfRun
<1>10. QED
  BY <1>3, <1>5, <1>7, <1>8, <1>9

LEMMA ChainEndsStep ==
  ASSUME QueueInv, NEW root \in RunId, ChainEnds(root)
  PROVE  QueueInv'
<1> USE DEF QueueInv
<1>1. /\ reserved' = reserved \ {root}
      /\ started' = started \ {root}
      /\ token' = [r \in RunId |-> IF token[r] = root THEN 0 ELSE token[r]]
      /\ waitsFor' = [waitsFor EXCEPT ![root] = 0]
      /\ phase' = [phase EXCEPT ![root] = "none"]
      /\ UNCHANGED <<plan, repoOf, row, status, live, settings, mounts>>
  BY DEF ChainEnds, ReleaseChain
<1>2. TypeOK'
  <2>1. token' \in [RunId -> 0..MaxRuns] /\ waitsFor' \in [RunId -> 0..MaxRuns]
    BY <1>1, RunBound DEF TypeOK
  <2>2. phase' \in [RunId -> {"none", "backup", "prune", "compact"}]
    BY <1>1 DEF TypeOK
  <2>3. QED
    BY <1>1, <2>1, <2>2 DEF TypeOK, settings, mounts, Active
<1>3. IdsInOrder' /\ RowsExist' /\ Running' = Running
  BY <1>1 DEF IdsInOrder, RowsExist, Exists, Running
<1>4. ReservationsSound' /\ OnlyReservedWait'
  BY <1>1 DEF TypeOK, ReservationsSound, OnlyReservedWait, Exists
<1>5. RepositoryExclusive'
  BY <1>1, <1>3
     DEF RepositoryExclusive, SameTarget, UsesRepository, TargetOfRun
<1>6. StartedChainIsHead' /\ ChainProtected'
  <2>1. Running \subseteq RunId
    BY DEF Running, TypeOK
  <2>2. QED
    BY <1>1, <1>3, <2>1 DEF TypeOK, StartedChainIsHead, ChainProtected, IsHead, TargetOfRun
<1>7. QED
  BY <1>2, <1>3, <1>4, <1>5, <1>6

\* What happens around the queue: settings, edited jobs and archive mounts.
Surroundings ==
  \/ SaveSettings
  \/ \E j \in Job, p \in Repo : MoveJob(j, p)
  \/ \E p \in Repo : MountArchive(p) \/ MountAppears(p) \/ MountFails(p) \/ MountYields(p)

LEMMA SurroundingsKeep ==
  ASSUME Surroundings PROVE UNCHANGED <<plan, row, status, live, chains>>
BY DEF Surroundings, SaveSettings, MoveJob, MountArchive, MountAppears, MountFails, MountYields, Besides

LEMMA SurroundingSteps ==
  ASSUME QueueInv, Surroundings
  PROVE  QueueInv'
<1> USE DEF QueueInv
<1>1. UNCHANGED <<plan, row, status, live, chains>>
  BY SurroundingsKeep
<1>2. TypeOK'
  <2>1. CASE SaveSettings
    BY <2>1 DEF TypeOK, SaveSettings, mounts, chains, Active
  <2>2. ASSUME NEW j \in Job, NEW p \in Repo, MoveJob(j, p) PROVE TypeOK'
    BY <2>2 DEF TypeOK, MoveJob, settings, mounts, chains, Active
  <2>3. ASSUME NEW p \in Repo, MountArchive(p) \/ MountAppears(p) \/ MountFails(p) \/ MountYields(p)
        PROVE  TypeOK'
    <3>1. archiveMounted' \subseteq Repo /\ mountUnderWay' \subseteq Repo /\ Besides
      BY <2>3 DEF TypeOK, MountArchive, MountAppears, MountFails, MountYields
    <3>2. QED
      BY <3>1 DEF TypeOK, Besides, settings, chains, Active
  <2>4. QED
    BY <2>1, <2>2, <2>3 DEF Surroundings
<1>3. /\ IdsInOrder' /\ RowsExist' /\ ReservationsSound' /\ OnlyReservedWait'
      /\ RepositoryExclusive' /\ StartedChainIsHead' /\ ChainProtected'
  BY <1>1
     DEF chains, IdsInOrder, RowsExist, ReservationsSound, OnlyReservedWait, Exists, Running,
         RepositoryExclusive, StartedChainIsHead, ChainProtected, IsHead, SameTarget,
         UsesRepository, TargetOfRun
<1>4. QED
  BY <1>2, <1>3

LEMMA RestartStep ==
  ASSUME QueueInv, Restart
  PROVE  QueueInv'
<1> USE DEF QueueInv
<1>1. Running' = {} /\ started' = {} /\ reserved' = {}
  BY DEF Restart, Running
<1>2. TypeOK'
  BY RunBound DEF Restart, TypeOK, settings, Status, Active
<1>3. \A r \in RunId : Exists(r)' <=> Exists(r)
  BY DEF Restart, TypeOK, Exists, Active
<1>4. IdsInOrder' /\ RowsExist'
  BY <1>3 DEF Restart, IdsInOrder, RowsExist
<1>5. ReservationsSound' /\ OnlyReservedWait'
  BY <1>1 DEF Restart, ReservationsSound, OnlyReservedWait
<1>6. QED
  BY <1>1, <1>2, <1>4, <1>5
     DEF RepositoryExclusive, StartedChainIsHead, ChainProtected

\* QueueInv is inductive.
LEMMA NextPreserves == QueueInv /\ [Next]_vars => QueueInv'
<1> SUFFICES ASSUME QueueInv, [Next]_vars PROVE QueueInv'
  OBVIOUS
<1>1. CASE UNCHANGED vars
  BY <1>1
     DEF vars, settings, mounts, chains, QueueInv, TypeOK, IdsInOrder, RowsExist, ReservationsSound,
         OnlyReservedWait, RepositoryExclusive, StartedChainIsHead, ChainProtected,
         Exists, Active, Running, IsHead, SameTarget, UsesRepository,
         TargetOfRun
<1>2. ASSUME NEW r \in RunId, NEW q \in Request, QueueRun(r, q) \/ QueueManualBackup(r, q)
      PROVE  QueueInv'
  BY <1>2, QueueRunStep, QueueManualBackupStep
<1>3. ASSUME NEW r \in RunId, Claim(r) \/ StartRefresh(r) \/ Ends(r) \/ EndTwiceCancelled(r)
      PROVE  QueueInv'
  BY <1>3, ClaimStep, StartRefreshStep, EndSteps
<1>4. ASSUME NEW root \in RunId, ChainStep(root)
      PROVE  QueueInv'
  BY <1>4, ChainContinuesStep, ChainEndsStep DEF ChainStep
<1>5. CASE Surroundings
  BY <1>5, SurroundingSteps
<1>6. CASE Restart
  BY <1>6, RestartStep
<1>7. QED
  BY <1>1, <1>2, <1>3, <1>4, <1>5, <1>6 DEF Next, Surroundings

(***************************************************************************)
(* The state of the queue keeps its types; in particular every run of the  *)
(* live set has a row that is queued or running.                           *)
(***************************************************************************)
THEOREM QueueTypes == Spec => []TypeOK
<1>1. QueueInv => TypeOK
  BY DEF QueueInv
<1>2. QED
  BY <1>1, InitEstablishes, NextPreserves, PTL DEF Spec

(***************************************************************************)
(* The planner's claim and the archive refresh's own wait together admit   *)
(* at most one run to a physical repository.                               *)
(***************************************************************************)
THEOREM OneRunPerRepository == Spec => []RepositoryExclusive
<1>1. QueueInv => RepositoryExclusive
  BY DEF QueueInv
<1>2. QED
  BY <1>1, InitEstablishes, NextPreserves, PTL DEF Spec

(***************************************************************************)
(* The reservation of a started manual chain keeps out every other run     *)
(* that _claim_execution_turn admits.                                      *)
(***************************************************************************)
THEOREM ChainsAreProtected == Spec => []ChainProtected
<1>1. QueueInv => ChainProtected
  BY DEF QueueInv
<1>2. QED
  BY <1>1, InitEstablishes, NextPreserves, PTL DEF Spec

(***************************************************************************)
(* A chain that has started stays the head of its repository's list, so    *)
(* that its own prune and compact runs are never held back by another.     *)
(***************************************************************************)
THEOREM StartedChainsLead == Spec => []StartedChainIsHead
<1>1. QueueInv => StartedChainIsHead
  BY DEF QueueInv
<1>2. QED
  BY <1>1, InitEstablishes, NextPreserves, PTL DEF Spec

-----------------------------------------------------------------------------
(* The planner's order and limits.                                         *)

\* Only the planner starts a run that is no refresh.
LEMMA PlannerStarts ==
  ASSUME QueueInv, [Next]_vars, NEW r \in RunId, Starts(r), row[r].kind # "refresh"
  PROVE  Claim(r)
<1> USE DEF QueueInv, TypeOK, Starts
<1>1. CASE UNCHANGED vars
  BY <1>1 DEF vars
<1>2. ASSUME NEW s \in RunId, NEW q \in Row, Insert(s, q) PROVE FALSE
  BY <1>2 DEF Insert, Exists
<1>3. ASSUME NEW s \in RunId, NEW q \in Request, QueueRun(s, q) \/ QueueManualBackup(s, q)
      PROVE  FALSE
  BY <1>2, <1>3, RequestAssumption, QueuedRow DEF QueueRun, QueueManualBackup
<1>4. ASSUME NEW s \in RunId, Claim(s) PROVE s = r
  BY <1>4 DEF Claim
<1>5. ASSUME NEW s \in RunId, StartRefresh(s) PROVE FALSE
  BY <1>5 DEF StartRefresh
<1>6. ASSUME NEW s \in RunId, Ends(s) \/ EndTwiceCancelled(s) PROVE FALSE
  BY <1>6, RunBound DEF Ends, End, EndTwiceCancelled, Terminal
<1>7. ASSUME NEW root \in RunId, ChainStep(root) PROVE FALSE
  <2>1. ASSUME NEW s \in RunId, ChainContinues(root, s) PROVE FALSE
    BY <2>1 DEF ChainContinues, Insert, Exists
  <2>2. QED
    BY <1>7, <2>1 DEF ChainStep, ChainEnds
<1>8. CASE Surroundings
  BY <1>8, SurroundingsKeep
<1>9. CASE Restart
  BY <1>9 DEF Restart, Active
<1>10. QED
  BY <1>1, <1>3, <1>4, <1>5, <1>6, <1>7, <1>8, <1>9 DEF Next, Surroundings

\* Runs are counted in finite sets.
LEMMA RunsAreFinite ==
  ASSUME NEW A \in SUBSET RunId
  PROVE  /\ IsFiniteSet(A) /\ Cardinality(A) \in Nat
         /\ \A B \in SUBSET A : Cardinality(B) <= Cardinality(A)
         /\ \A x \in RunId \ A : Cardinality(A \cup {x}) = Cardinality(A) + 1
<1>1. IsFiniteSet(RunId)
  BY RunBound, FS_Interval DEF RunId
<1>2. IsFiniteSet(A)
  BY <1>1, FS_Subset
<1>3. Cardinality(A) \in Nat
  BY <1>2, FS_CardinalityType
<1>4. \A B \in SUBSET A : Cardinality(B) <= Cardinality(A)
  BY <1>2, FS_Subset
<1>5. \A x \in RunId \ A : Cardinality(A \cup {x}) = Cardinality(A) + 1
  BY <1>2, FS_AddElement
<1>6. QED
  BY <1>2, <1>3, <1>4, <1>5

\* A limit that leaves room beside a plan's runs leaves it beside the running.
LEMMA RoomForOne ==
  ASSUME NEW A \in SUBSET RunId, NEW B \in SUBSET A, NEW r \in RunId \ B,
         NEW n \in Nat, ~(Cardinality(A) >= n)
  PROVE  Cardinality(B \cup {r}) <= n
<1>1. Cardinality(A) \in Nat /\ Cardinality(B) \in Nat /\ Cardinality(B) <= Cardinality(A)
  BY RunsAreFinite
<1>2. Cardinality(B \cup {r}) = Cardinality(B) + 1
  BY RunsAreFinite
<1>3. QED
  BY <1>1, <1>2

LEMMA ClaimWithinLimits ==
  ASSUME QueueInv, NEW r \in RunId, Claim(r)
  PROVE  WithinLimits(r)
<1> USE DEF QueueInv
<1>1. PICK S \in SUBSET Queued :
        IsPlan(S) /\ r \in S /\ Admissible(r, Running \cup {s \in S : s < r})
  BY ClaimIsAdmissible
<1> DEFINE occ == Running \cup {s \in S : s < r}
<1>2. occ \in SUBSET RunId /\ Running \in SUBSET occ /\ r \in RunId \ Running
  BY DEF Claim, TypeOK, Running, Queued
<1>3. Running' = Running \cup {r}
  BY DEF Claim, TypeOK, Running, Queued
<1>4. ~MountFull(r, occ) /\ ~StatsFull(r, occ) /\ ~GlobalFull(occ)
  BY <1>1 DEF Admissible
<1> HIDE DEF occ
<1>5. globalLimit \in Nat /\ statsLimit \in Nat /\ LimitOfMount(MountOfRun(r)) \in Nat
  BY LimitAssumption, PlanAssumption DEF TypeOK, LimitOfMount
<1>6. globalLimit > 0 => Cardinality(Running') <= globalLimit
  BY <1>2, <1>3, <1>4, <1>5, RoomForOne DEF GlobalFull
<1>7. ASSUME UsesRepository(r), LimitOfMount(MountOfRun(r)) > 0
      PROVE  Cardinality({s \in Running' : UsesRepository(s) /\ MountOfRun(s) = MountOfRun(r)})
               <= LimitOfMount(MountOfRun(r))
  <2> DEFINE A == {o \in occ : UsesRepository(o) /\ MountOfRun(o) = MountOfRun(r)}
             B == {o \in Running : UsesRepository(o) /\ MountOfRun(o) = MountOfRun(r)}
  <2>1. /\ A \in SUBSET RunId /\ B \in SUBSET A /\ r \in RunId \ B
        /\ {s \in Running' : UsesRepository(s) /\ MountOfRun(s) = MountOfRun(r)} = B \cup {r}
    BY <1>2, <1>3, <1>7
  <2>2. ~(Cardinality(A) >= LimitOfMount(MountOfRun(r)))
    BY <1>4, <1>7 DEF MountFull
  <2> HIDE DEF A, B
  <2>3. QED
    BY <2>1, <2>2, <1>5, RoomForOne
<1>8. ASSUME ~UsesRepository(r)
      PROVE  Cardinality({s \in Running' : ~UsesRepository(s)}) <= statsLimit
  <2> DEFINE A == {o \in occ : ~UsesRepository(o)}
             B == {o \in Running : ~UsesRepository(o)}
  <2>1. /\ A \in SUBSET RunId /\ B \in SUBSET A /\ r \in RunId \ B
        /\ {s \in Running' : ~UsesRepository(s)} = B \cup {r}
    BY <1>2, <1>3, <1>8
  <2>2. ~(Cardinality(A) >= statsLimit)
    BY <1>4, <1>8 DEF StatsFull
  <2> HIDE DEF A, B
  <2>3. QED
    BY <2>1, <2>2, <1>5, RoomForOne
<1>9. QED
  BY <1>6, <1>7, <1>8 DEF WithinLimits

\* What keeps an older run of the same repository out of a plan.
LEMMA OvertakenIsBlocked ==
  ASSUME QueueInv, NEW r \in RunId, Claim(r), NEW s \in Queued, s < r,
         row[s].kind = "borg", SameTarget(r, s)
  PROVE  \/ ArchiveMountBlocks(s) \/ ReservedForOther(s)
         \/ \E S \in SUBSET Queued :
              IsPlan(S) /\ ScheduleFull(s, Running \cup {t \in S : t < s})
<1> USE DEF QueueInv
<1>1. PICK S \in SUBSET Queued :
        IsPlan(S) /\ r \in S /\ Admissible(r, Running \cup {t \in S : t < r})
  BY ClaimIsAdmissible
<1> DEFINE before(x) == Running \cup {t \in S : t < x}
<1>2. r \in Nat /\ s \in Nat /\ \A t \in S : t \in Nat
  BY RunBound DEF TypeOK, Queued, RunId
<1>3. before(s) \in SUBSET before(r) /\ before(r) \in SUBSET RunId
  <2>1. \A t \in S : t < s => t < r
    BY <1>2
  <2>2. Queued \in SUBSET RunId /\ Running \in SUBSET RunId
    BY DEF TypeOK, Queued, Running
  <2>3. QED
    BY <2>1, <2>2
<1>4. s \notin S
  BY <1>1 DEF Admissible
<1>5. ~Admissible(s, before(s))
  BY <1>1, <1>4 DEF IsPlan
<1>6. ~MountFull(r, before(r)) /\ ~GlobalFull(before(r)) /\ \A o \in before(r) : ~SameTarget(r, o)
  BY <1>1 DEF Admissible
<1> HIDE DEF before
<1>7. \A o \in before(s) : ~SameTarget(s, o)
  BY <1>3, <1>6 DEF SameTarget
<1>8. ~StatsFull(s, before(s))
  BY DEF StatsFull, UsesRepository
<1>9. globalLimit \in Nat /\ LimitOfMount(MountOfRun(r)) \in Nat
  BY LimitAssumption, PlanAssumption DEF TypeOK, LimitOfMount
<1>10. ~GlobalFull(before(s))
  <2>1. /\ Cardinality(before(s)) \in Nat /\ Cardinality(before(r)) \in Nat
        /\ Cardinality(before(s)) <= Cardinality(before(r))
    BY <1>3, RunsAreFinite
  <2>2. QED
    BY <2>1, <1>6, <1>9 DEF GlobalFull
<1>11. ~MountFull(s, before(s))
  <2>1. MountOfRun(s) = MountOfRun(r) /\ UsesRepository(r) /\ UsesRepository(s)
    BY DEF SameTarget, MountOfRun
  <2> DEFINE A == {o \in before(r) : UsesRepository(o) /\ MountOfRun(o) = MountOfRun(r)}
             B == {o \in before(s) : UsesRepository(o) /\ MountOfRun(o) = MountOfRun(s)}
  <2>2. B \in SUBSET A /\ A \in SUBSET RunId
    BY <1>3, <2>1
  <2>3. Cardinality(B) \in Nat /\ Cardinality(A) \in Nat /\ Cardinality(B) <= Cardinality(A)
    BY <2>2, RunsAreFinite
  <2>4. LimitOfMount(MountOfRun(r)) > 0 => ~(Cardinality(A) >= LimitOfMount(MountOfRun(r)))
    BY <1>6, <2>1 DEF MountFull
  <2>5. QED
    BY <2>1, <2>3, <2>4, <1>9 DEF MountFull
<1>12. ArchiveMountBlocks(s) \/ ReservedForOther(s) \/ ScheduleFull(s, before(s))
  BY <1>5, <1>7, <1>8, <1>10, <1>11 DEF Admissible
<1>13. QED
  BY <1>1, <1>12 DEF before

(***************************************************************************)
(* _execution_plan counts every executing run, whoever admitted it: a run  *)
(* that _claim_execution_turn starts exceeds no limit in force.            *)
(***************************************************************************)
THEOREM LimitsRespected == Spec => PlannerRespectsLimits
<1> DEFINE Respected == \A r \in RunId : Starts(r) /\ row[r].kind # "refresh" => WithinLimits(r)
<1>1. ASSUME QueueInv, [Next]_vars PROVE [Respected]_vars
  BY <1>1, PlannerStarts, ClaimWithinLimits
<1>2. QED
  BY <1>1, InitEstablishes, NextPreserves, PTL DEF Spec, PlannerRespectsLimits

(***************************************************************************)
(* First in, first out per repository: the loop over queued runs in id     *)
(* order lets a run pass an older one of its repository only for a reason  *)
(* that holds for the older one alone.                                     *)
(***************************************************************************)
THEOREM OvertakenAreBlocked == Spec => OvertakesOnlyBlocked
<1> DEFINE Blocked ==
      \A r, s \in RunId :
        /\ Starts(r) /\ row[r].kind = "borg"
        /\ s < r /\ s \in Queued /\ row[s].kind = "borg" /\ SameTarget(r, s)
        => \/ ArchiveMountBlocks(s)
           \/ ReservedForOther(s)
           \/ \E S \in SUBSET Queued :
                IsPlan(S) /\ ScheduleFull(s, Running \cup {t \in S : t < s})
<1>1. ASSUME QueueInv, [Next]_vars PROVE [Blocked]_vars
  BY <1>1, PlannerStarts, OvertakenIsBlocked
<1>2. QED
  BY <1>1, InitEstablishes, NextPreserves, PTL DEF Spec, OvertakesOnlyBlocked
=============================================================================
