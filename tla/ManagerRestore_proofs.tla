-------------------------- MODULE ManagerRestore_proofs --------------------------
(***************************************************************************)
(* Proofs about the manager's backups and restores, for any requests,      *)
(* plans, stored backups and data: the registry of tasks is sound, plain   *)
(* data is temporary, and a restore loses nothing and is all or nothing.   *)
(***************************************************************************)
EXTENDS ManagerRestore, SequenceTheorems, FiniteSetTheorems, WellFoundedInduction, TLAPS

Places == {"new", "create", "secure", "pack", "encrypt", "report", "respond", "artifact",
           "collect", "store", "link", "extract", "cache-extract", "swap", "install",
           "rollback", "cache-swap", "done", "lost"}
Results == {None, "refused", "finished", "failed"}
RestoreKinds == {"restore", "cache-restore"}

Types ==
  /\ kind \in [Req -> Kinds \cup {None}]
  /\ pc \in [Req -> Places]
  /\ result \in [Req -> Results]
  /\ \A r \in Req : kind[r] # None => kind[r] \in Offered[r]

-----------------------------------------------------------------------------
\* The registry: whoever is in it is the current task or ended, once.
Ended(r) == \E i \in 1..Len(ended) : ended[i] = r

EndedOnce == \A i, j \in 1..Len(ended) : ended[i] = ended[j] => i = j

Registry ==
  /\ tasks \in SUBSET Req /\ IsFiniteSet(tasks) /\ Cardinality(tasks) <= MaxTasks
  /\ current \in Req \cup {None} /\ ended \in Seq(Req)
  /\ current # None => current \in tasks /\ InProgress(current)
  /\ \A r \in Req : IsTask(r) /\ InProgress(r) => r = current
  /\ \A r \in Req : pc[r] \notin {"done", "lost"} => result[r] = None
  /\ \A r \in tasks : r = current \/ Ended(r)
  /\ \A r \in Req : Ended(r) => pc[r] = "done"
  /\ EndedOnce

RegistryInv == Types /\ Registry

-----------------------------------------------------------------------------
\* Where a request is while it has which unencrypted file.
PlacesOf(what) ==
  CASE what = "zip" -> {"secure", "pack", "encrypt", "collect", "store", "lost"}
    [] what = "db" -> {"secure", "pack", "lost"}
    [] what = "sec" -> {"pack", "lost"}
    [] what = "decrypted" -> {"extract", "cache-extract", "lost"}
    [] OTHER -> Places

PlaintextInv ==
  \A t \in temps : t[1] \in Req /\ t = <<t[1], t[2]>> /\ pc[t[1]] \in PlacesOf(t[2])

-----------------------------------------------------------------------------
(* Tasks come and go.                                                      *)

\* Every set of numbers has a smallest one.
LEMMA NatMin ==
  ASSUME NEW S \in SUBSET Nat, S # {}
  PROVE  \E m \in S : \A n \in S : m <= n
<1> DEFINE R == OpToRel(<, Nat)
<1>1. IsWellFoundedOn(R, Nat)
  BY NatLessThanWellFounded, Zenon
<1> HIDE DEF R
<1>2. PICK m \in S : \A n \in S : ~(<<n, m>> \in R)
  BY <1>1, WFMin
<1>3. \A n \in S : ~(n < m)
  BY <1>2 DEF R, OpToRel
<1>4. QED
  BY <1>3

\* _prune_locked keeps all tasks while there are few of them.
LEMMA FewAreKept ==
  ASSUME NEW T, NEW E, NEW c, IsFiniteSet(T), Cardinality(T) <= MaxTasks
  PROVE  Pruned(T, E, c) = T
<1>1. Cardinality(T) \in Nat /\ MaxTasks \in Nat
  BY FS_CardinalityType, BoundAssumption
<1> DEFINE old == {r \in T \ {c} : \E i \in 1..Len(E) : E[i] = r}
           Older(r) == {q \in old : \E i, j \in 1..Len(E) : i < j /\ E[i] = q /\ E[j] = r}
<1>2. ASSUME NEW r PROVE ~(Cardinality(Older(r)) < Cardinality(T) - MaxTasks)
  <2>1. IsFiniteSet(Older(r))
    BY FS_Subset
  <2> HIDE DEF Older
  <2>2. Cardinality(Older(r)) \in Nat
    BY <2>1, FS_CardinalityType
  <2>3. QED
    BY <2>2, <1>1
<1> HIDE DEF Older
<1>3. {r \in old : Cardinality(Older(r)) < Cardinality(T) - MaxTasks} = {}
  BY <1>2
<1>4. Pruned(T, E, c) = T \ {r \in old : Cardinality(Older(r)) < Cardinality(T) - MaxTasks}
  BY DEF Pruned, old, Older
<1>5. QED
  BY <1>3, <1>4

\* If there is one too many, the one that ended first goes.
LEMMA OneTooMany ==
  ASSUME NEW T, NEW E \in Seq(Req), NEW c, IsFiniteSet(T), Cardinality(T) <= MaxTasks + 1,
         c \in T, \A r \in T \ {c} : \E i \in 1..Len(E) : E[i] = r,
         \A i, j \in 1..Len(E) : E[i] = E[j] => i = j
  PROVE  /\ Pruned(T, E, c) \subseteq T /\ c \in Pruned(T, E, c)
         /\ IsFiniteSet(Pruned(T, E, c)) /\ Cardinality(Pruned(T, E, c)) <= MaxTasks
<1>1. Cardinality(T) \in Nat /\ MaxTasks \in Nat /\ MaxTasks >= 1 /\ Len(E) \in Nat
  BY FS_CardinalityType, BoundAssumption
<1> DEFINE old == {r \in T \ {c} : \E i \in 1..Len(E) : E[i] = r}
           Older(r) == {q \in old : \E i, j \in 1..Len(E) : i < j /\ E[i] = q /\ E[j] = r}
           gone == {r \in old : Cardinality(Older(r)) < Cardinality(T) - MaxTasks}
<1>2. Pruned(T, E, c) = T \ gone
  BY DEF Pruned
<1>3. c \notin gone
  OBVIOUS
<1>4. Pruned(T, E, c) \subseteq T /\ c \in Pruned(T, E, c)
  BY <1>2, <1>3
<1>5. IsFiniteSet(Pruned(T, E, c))
  BY <1>4, FS_Subset
<1>6. CASE Cardinality(T) <= MaxTasks
  <2>1. Pruned(T, E, c) = T
    BY <1>6, FewAreKept
  <2>2. QED
    BY <1>4, <1>5, <1>6, <2>1
<1>7. CASE ~(Cardinality(T) <= MaxTasks)
  <2>1. Cardinality(T) - MaxTasks = 1
    BY <1>1, <1>7
  <2>2. T \ {c} # {}
    <3>1. CASE T \ {c} = {}
      <4>1. T = {c}
        BY <3>1
      <4>2. Cardinality(T) = 1
        BY <4>1, FS_Singleton
      <4>3. QED
        BY <4>2, <1>1, <2>1
    <3>2. QED
      BY <3>1
  <2> DEFINE ends == {i \in 1..Len(E) : E[i] \in T \ {c}}
  <2>3. ends \in SUBSET Nat /\ ends # {}
    BY <2>2, <1>1
  <2>4. PICK m \in ends : \A n \in ends : m <= n
    <3> HIDE DEF ends
    <3>1. QED
      BY <2>3, NatMin
  <2>5. E[m] \in old
    BY <2>4
  <2>6. Older(E[m]) = {}
    <3>1. SUFFICES ASSUME NEW q \in Older(E[m]) PROVE FALSE
      OBVIOUS
    <3>2. PICK i \in 1..Len(E), j \in 1..Len(E) : i < j /\ E[i] = q /\ E[j] = E[m]
      OBVIOUS
    <3>3. j = m /\ i \in ends
      BY <2>4, <3>2
    <3>4. QED
      BY <2>4, <3>2, <3>3, <1>1
  <2>7. E[m] \in gone
    <3>1. Cardinality(Older(E[m])) = 0
      BY <2>6, FS_EmptySet
    <3> HIDE DEF Older
    <3>2. QED
      BY <2>1, <2>5, <3>1
  <2>8. Pruned(T, E, c) \subseteq T \ {E[m]} /\ E[m] \in T
    <3> HIDE DEF gone
    <3>1. QED
      BY <1>2, <2>4, <2>7
  <2>9. IsFiniteSet(T \ {E[m]}) /\ Cardinality(T \ {E[m]}) = Cardinality(T) - 1
    BY <2>8, FS_RemoveElement
  <2>10. Cardinality(Pruned(T, E, c)) <= Cardinality(T \ {E[m]})
    BY <2>8, <2>9, FS_Subset
  <2>11. Cardinality(Pruned(T, E, c)) \in Nat
    BY <1>5, FS_CardinalityType
  <2>12. QED
    BY <1>1, <1>4, <1>5, <2>1, <2>9, <2>10, <2>11
<1>8. QED
  BY <1>6, <1>7

-----------------------------------------------------------------------------
(* What a step does to the registry.                                       *)

\* A task at work is the current one, and nobody else is.
LEMMA NoneAtWork ==
  ASSUME RegistryInv, ~TaskActive
  PROVE  current = None
BY DEF RegistryInv, Registry, TaskActive, Terminal, InProgress, Idle, None

\* A new request is entered.
LEMMA EntryKept ==
  ASSUME RegistryInv, NEW r \in Req, pc[r] = "new", current = None, BeginTask(r),
         NEW p \in Places \ Idle, Goto(r, p),
         NEW what \in TaskKinds, what \in Offered[r], kind' = [kind EXCEPT ![r] = what],
         UNCHANGED result
  PROVE  RegistryInv'
<1>1. Types'
  BY DEF RegistryInv, Types, Goto, Kinds
<1>2. IsFiniteSet(tasks) /\ tasks \in SUBSET Req /\ Cardinality(tasks) <= MaxTasks
      /\ Cardinality(tasks) \in Nat /\ MaxTasks \in Nat
  BY FS_CardinalityType, BoundAssumption DEF RegistryInv, Registry
<1> DEFINE T == tasks \cup {r}
<1>3. IsFiniteSet(T) /\ Cardinality(T) <= MaxTasks + 1
  <2>1. IsFiniteSet(T) /\ Cardinality(T) \in {Cardinality(tasks), Cardinality(tasks) + 1}
    BY <1>2, FS_AddElement
  <2>2. QED
    BY <1>2, <2>1
<1>4. \A q \in T \ {r} : \E i \in 1..Len(ended) : ended[i] = q
  BY <1>2, RequestAssumption DEF RegistryInv, Registry, Ended
<1>5. ended \in Seq(Req) /\ \A i, j \in 1..Len(ended) : ended[i] = ended[j] => i = j
  BY DEF RegistryInv, Registry, EndedOnce
<1>6. tasks' = Pruned(T, ended, r)
  BY DEF BeginTask
<1>7. tasks' \subseteq T /\ r \in tasks' /\ IsFiniteSet(tasks') /\ Cardinality(tasks') <= MaxTasks
  <2> HIDE DEF T
  <2>1. r \in T
    BY DEF T
  <2>2. QED
    BY <1>3, <1>4, <1>5, <1>6, <2>1, OneTooMany
<1>8. ended' = ended /\ current' = r /\ pc' = [pc EXCEPT ![r] = p] /\ result' = result
  BY DEF BeginTask, Goto
<1>9. pc \in [Req -> Places] /\ kind \in [Req -> Kinds \cup {None}] /\ ~Ended(r)
  BY DEF RegistryInv, Types, Registry
<1>10. tasks' \in SUBSET Req /\ current' \in Req
  BY <1>2, <1>7, <1>8
<1>11. InProgress(r)'
  BY <1>8, <1>9 DEF InProgress
<1>12. \A q \in Req \ {r} : ~(IsTask(q)' /\ InProgress(q)')
  <2> SUFFICES ASSUME NEW q \in Req \ {r}, IsTask(q)', InProgress(q)' PROVE FALSE
    OBVIOUS
  <2>1. IsTask(q) /\ InProgress(q)
    BY <1>8, <1>9 DEF IsTask, InProgress
  <2>2. QED
    BY <2>1, RequestAssumption DEF RegistryInv, Registry
<1>13. \A q \in Req : pc'[q] \notin {"done", "lost"} => result'[q] = None
  BY <1>8, <1>9 DEF RegistryInv, Registry
<1>14. \A q \in tasks' : q = current' \/ Ended(q)'
  BY <1>4, <1>7, <1>8 DEF Ended
<1>15. \A q \in Req : Ended(q)' => pc'[q] = "done"
  BY <1>8, <1>9 DEF RegistryInv, Registry, Ended
<1>16. EndedOnce'
  BY <1>5, <1>8 DEF EndedOnce
<1>17. QED
  BY <1>1, <1>5, <1>7, <1>8, <1>10, <1>11, <1>12, <1>13, <1>14, <1>15, <1>16 DEF RegistryInv, Registry

\* A request that is no task begins, or any is refused.
LEMMA AskKept ==
  ASSUME RegistryInv, NEW r \in Req, pc[r] = "new", UNCHANGED registry,
         NEW p \in Places, Goto(r, p),
         NEW what \in Kinds, what \in Offered[r], kind' = [kind EXCEPT ![r] = what],
         p \in {"done", "lost"} \/ what \notin TaskKinds,
         NEW how \in Results, p \in {"done", "lost"} \/ how = None,
         result' = [result EXCEPT ![r] = how]
  PROVE  RegistryInv'
<1>1. Types'
  BY DEF RegistryInv, Types, Goto
<1>2. pc \in [Req -> Places] /\ kind \in [Req -> Kinds \cup {None}] /\ result \in [Req -> Results]
      /\ ~Ended(r) /\ tasks' = tasks /\ current' = current /\ ended' = ended
      /\ pc' = [pc EXCEPT ![r] = p]
  BY DEF RegistryInv, Types, Registry, Goto, registry
<1>3. \A q \in Req : Ended(q)' <=> Ended(q)
  BY <1>2 DEF Ended
<1>4. EndedOnce'
  BY <1>2 DEF EndedOnce, RegistryInv, Registry
<1>5. \A q \in Req : IsTask(q)' /\ InProgress(q)' => IsTask(q) /\ InProgress(q)
  BY <1>2 DEF IsTask, InProgress, Idle
<1>6. current # None => InProgress(current)'
  BY <1>2 DEF RegistryInv, Registry, InProgress, Idle
<1>7. \A q \in Req : pc'[q] \notin {"done", "lost"} => result'[q] = None
  BY <1>2 DEF RegistryInv, Registry
<1>8. QED
  BY <1>1, <1>2, <1>3, <1>4, <1>5, <1>6, <1>7 DEF RegistryInv, Registry

\* A thread goes on.
LEMMA GoingOnKept ==
  ASSUME RegistryInv, NEW r \in Req, InProgress(r), NEW p \in Places \ Idle, Goto(r, p),
         UNCHANGED <<registry, kind, result>>
  PROVE  RegistryInv'
<1>1. Types'
  BY DEF RegistryInv, Types, Goto
<1>2. pc \in [Req -> Places] /\ tasks' = tasks /\ current' = current /\ ended' = ended
      /\ pc' = [pc EXCEPT ![r] = p] /\ kind' = kind /\ result' = result
      /\ \A q \in Req : Ended(q)' <=> Ended(q)
  BY DEF RegistryInv, Types, Registry, Goto, registry, Ended
<1>3. \A q \in Req : InProgress(q)' <=> InProgress(q)
  BY <1>2 DEF InProgress
<1>4. EndedOnce'
  BY <1>2 DEF EndedOnce, RegistryInv, Registry
<1>5. ~Ended(r) /\ result[r] = None
  BY DEF RegistryInv, Registry, InProgress, Idle
<1>6. QED
  BY <1>1, <1>2, <1>3, <1>4, <1>5 DEF RegistryInv, Registry, IsTask

\* A thread ends; whichever task it was, it leaves room for the next.
LEMMA EndKept ==
  ASSUME RegistryInv, NEW r \in Req, InProgress(r), NEW how \in Results, End(r, how),
         UNCHANGED kind
  PROVE  RegistryInv'
<1>1. Types'
  BY DEF RegistryInv, Types, End, Goto, Places
<1>2. pc \in [Req -> Places] /\ result \in [Req -> Results] /\ kind' = kind
      /\ pc' = [pc EXCEPT ![r] = "done"] /\ result' = [result EXCEPT ![r] = how]
      /\ ended \in Seq(Req) /\ EndedOnce /\ ~Ended(r)
  BY DEF RegistryInv, Types, Registry, End, Goto, InProgress, Idle
<1>3. \A q \in Req : InProgress(q)' <=> InProgress(q) /\ q # r
  BY <1>2 DEF InProgress, Idle
<1>4. \A q \in Req : pc'[q] \notin {"done", "lost"} => result'[q] = None
  BY <1>2 DEF RegistryInv, Registry
<1>5. CASE r \notin tasks
  <2>1. tasks' = tasks /\ current' = current /\ ended' = ended
    BY <1>5 DEF End, EndTask, registry
  <2>2. \A q \in Req : Ended(q)' <=> Ended(q)
    BY <2>1 DEF Ended
  <2>3. r # current
    BY <1>5, RequestAssumption DEF RegistryInv, Registry
  <2>4. EndedOnce'
    BY <1>2, <2>1 DEF EndedOnce
  <2>5. \A q \in Req : Ended(q)' => pc'[q] = "done"
    BY <1>2, <2>2 DEF RegistryInv, Registry
  <2>6. \A q \in Req : IsTask(q)' /\ InProgress(q)' => q = current'
    BY <1>2, <1>3, <2>1 DEF RegistryInv, Registry, IsTask
  <2>7. current' # None => current' \in tasks' /\ InProgress(current)'
    <3>1. SUFFICES ASSUME current # None PROVE current \in tasks /\ InProgress(current)'
      BY <2>1
    <3>2. current \in Req /\ current \in tasks /\ InProgress(current) /\ current # r
      BY <2>3, <3>1 DEF RegistryInv, Registry
    <3>3. QED
      BY <1>2, <2>1, <3>2 DEF InProgress
  <2>8. QED
    BY <1>1, <1>4, <2>1, <2>2, <2>4, <2>5, <2>6, <2>7 DEF RegistryInv, Registry
<1>6. CASE r \in tasks
  <2>1. r = current
    BY <1>6, <1>2 DEF RegistryInv, Registry
  <2>2. ended' = Append(ended, r) /\ current' = None /\ tasks' = Pruned(tasks, ended', None)
    BY <1>6, <2>1 DEF End, EndTask
  <2>3. tasks' = tasks
    BY <2>2, FewAreKept DEF RegistryInv, Registry
  <2>4. ended' \in Seq(Req) /\ Len(ended') = Len(ended) + 1 /\ ended'[Len(ended) + 1] = r
        /\ Len(ended) \in Nat /\ \A i \in 1..Len(ended) : ended'[i] = ended[i]
    BY <1>2, <2>2
  <2>5. \A q \in Req : Ended(q)' <=> Ended(q) \/ q = r
    BY <2>4 DEF Ended
  <2>6. EndedOnce'
    <3> SUFFICES ASSUME NEW i \in 1..Len(ended'), NEW j \in 1..Len(ended'), ended'[i] = ended'[j]
                 PROVE  i = j
      BY DEF EndedOnce
    <3>1. CASE i = Len(ended) + 1 \/ j = Len(ended) + 1
      BY <1>2, <2>4, <3>1 DEF Ended
    <3>2. CASE i # Len(ended) + 1 /\ j # Len(ended) + 1
      <4>1. i \in 1..Len(ended) /\ j \in 1..Len(ended)
        BY <2>4, <3>2
      <4>2. QED
        BY <1>2, <2>4, <4>1 DEF EndedOnce
    <3>3. QED
      BY <3>1, <3>2
  <2>7. \A q \in Req : Ended(q)' => pc'[q] = "done"
    BY <1>2, <2>5 DEF RegistryInv, Registry
  <2>8. \A q \in Req : ~(IsTask(q)' /\ InProgress(q)')
    BY <1>2, <1>3, <2>1 DEF RegistryInv, Registry, IsTask
  <2>9. \A q \in tasks' : Ended(q)'
    BY <2>1, <2>3, <2>5 DEF RegistryInv, Registry
  <2>10. QED
    BY <1>1, <1>4, <2>2, <2>3, <2>4, <2>6, <2>7, <2>8, <2>9 DEF RegistryInv, Registry
<1>7. QED
  BY <1>5, <1>6

\* The process ends; who brought it to its end may have succeeded.
LEMMA GoneKept ==
  ASSUME RegistryInv, NEW R \in SUBSET Req, NEW T, Gone(R, T), UNCHANGED kind,
         result' \in [Req -> Results], \A q \in Req \ R : result'[q] = result[q]
  PROVE  RegistryInv'
<1>1. pc' = [r \in Req |-> IF InProgress(r) /\ r \notin R THEN "lost"
                          ELSE IF r \in R THEN "done" ELSE pc[r]]
      /\ tasks' = {} /\ current' = None /\ ended' = <<>>
  BY DEF Gone
<1>2. pc \in [Req -> Places] /\ kind \in [Req -> Kinds \cup {None}]
  BY DEF RegistryInv, Types
<1>3. Types'
  BY <1>1, <1>2 DEF RegistryInv, Types, Places
<1>4. \A q \in Req : ~InProgress(q)'
  BY <1>1, <1>2 DEF InProgress, Idle
<1>5. \A q \in Req : ~Ended(q)'
  BY <1>1 DEF Ended
<1>6. EndedOnce' /\ ended' \in Seq(Req)
  BY <1>1 DEF EndedOnce
<1>7. IsFiniteSet(tasks') /\ Cardinality(tasks') <= MaxTasks
  BY <1>1, FS_EmptySet, BoundAssumption
<1>8. \A q \in Req : pc'[q] \notin {"done", "lost"} => result'[q] = None
  BY <1>1 DEF RegistryInv, Registry
<1>9. QED
  BY <1>1, <1>3, <1>4, <1>5, <1>6, <1>7, <1>8 DEF RegistryInv, Registry

-----------------------------------------------------------------------------
\* Refused requests end at once.
LEMMA RefusedKept ==
  ASSUME RegistryInv, NEW r \in Req, NEW what \in Kinds, Ask(r, what), Refuse(r)
  PROVE  RegistryInv'
<1>1. Goto(r, "done") /\ result' = [result EXCEPT ![r] = "refused"] /\ UNCHANGED registry
  BY DEF Refuse
<1>2. pc[r] = "new" /\ what \in Offered[r] /\ kind' = [kind EXCEPT ![r] = what]
  BY DEF Ask
<1>3. QED
  BY <1>1, <1>2, AskKept DEF Places, Results

\* A thread that begins without being a task.
LEMMA EnteredKept ==
  ASSUME RegistryInv, NEW r \in Req, NEW what \in Kinds \ TaskKinds, Ask(r, what),
         NEW p \in Places, Goto(r, p), UNCHANGED <<registry, result>>
  PROVE  RegistryInv'
<1>1. pc[r] = "new" /\ what \in Offered[r] /\ kind' = [kind EXCEPT ![r] = what]
  BY DEF Ask
<1>2. result[r] = None
  BY <1>1 DEF RegistryInv, Registry
<1>3. result' = [result EXCEPT ![r] = None] /\ UNCHANGED registry
  BY <1>2 DEF RegistryInv, Types
<1>4. QED
  BY <1>1, <1>3, AskKept DEF Results

LEMMA CreateStepRegistry ==
  ASSUME RegistryInv, NEW r \in Req, CreateStep(r)
  PROVE  RegistryInv'
<1>1. CASE Create(r)
  <2>1. InProgress(r) /\ Goto(r, "secure") /\ UNCHANGED <<registry, kind, result>>
    BY <1>1 DEF Create, InProgress, Idle
  <2>2. QED
    BY <2>1, GoingOnKept DEF Places, Idle
<1>2. CASE Secure(r)
  <2>1. InProgress(r) /\ Goto(r, "pack") /\ UNCHANGED <<registry, kind, result>>
    BY <1>2 DEF Secure, InProgress, Idle
  <2>2. QED
    BY <2>1, GoingOnKept DEF Places, Idle
<1>3. CASE Pack(r)
  <2>1. InProgress(r) /\ Goto(r, "encrypt") /\ UNCHANGED <<registry, kind, result>>
    BY <1>3 DEF Pack, InProgress, Idle
  <2>2. QED
    BY <2>1, GoingOnKept DEF Places, Idle
<1>4. CASE Encrypt(r)
  <2>1. InProgress(r) /\ UNCHANGED <<registry, kind, result>>
        /\ \E p \in {"respond", "report"} : Goto(r, p)
    BY <1>4 DEF Encrypt, InProgress, Idle
  <2>2. QED
    BY <2>1, GoingOnKept DEF Places, Idle
<1>5. CASE Report(r)
  <2>1. InProgress(r) /\ UNCHANGED kind /\ \E how \in Results : End(r, how)
    BY <1>5 DEF Report, InProgress, Idle, Results
  <2>2. QED
    BY <2>1, EndKept
<1>6. CASE CreateFails(r)
  <2>1. InProgress(r) /\ UNCHANGED kind /\ End(r, "failed")
    BY <1>6 DEF CreateFails, Creating, InProgress, Idle
  <2>2. QED
    BY <2>1, EndKept DEF Results
<1>7. QED
  BY <1>1, <1>2, <1>3, <1>4, <1>5, <1>6 DEF CreateStep

LEMMA SetStepRegistry ==
  ASSUME RegistryInv, NEW r \in Req, SetStep(r)
  PROVE  RegistryInv'
<1>1. CASE SkipArtifact(r)
  <2>1. InProgress(r) /\ Goto(r, "artifact") /\ UNCHANGED <<registry, kind, result>>
    BY <1>1 DEF SkipArtifact, InProgress, Idle, Goto, RegistryInv, Types
  <2>2. QED
    BY <2>1, GoingOnKept DEF Places, Idle
<1>2. CASE BeginArtifact(r)
  <2>1. InProgress(r) /\ Goto(r, "collect") /\ UNCHANGED <<registry, kind, result>>
    BY <1>2 DEF BeginArtifact, InProgress, Idle
  <2>2. QED
    BY <2>1, GoingOnKept DEF Places, Idle
<1>3. CASE Collect(r)
  <2>1. InProgress(r) /\ Goto(r, "store") /\ UNCHANGED <<registry, kind, result>>
    BY <1>3 DEF Collect, InProgress, Idle
  <2>2. QED
    BY <2>1, GoingOnKept DEF Places, Idle
<1>4. CASE Store(r)
  <2>1. InProgress(r) /\ Goto(r, "artifact") /\ UNCHANGED <<registry, kind, result>>
    BY <1>4 DEF Store, InProgress, Idle
  <2>2. QED
    BY <2>1, GoingOnKept DEF Places, Idle
<1>5. CASE ArtifactFails(r)
  <2>1. InProgress(r) /\ UNCHANGED kind
        /\ \/ End(r, "failed")
           \/ Goto(r, "artifact") /\ UNCHANGED <<registry, result>>
    BY <1>5 DEF ArtifactFails, InProgress, Idle
  <2>2. QED
    BY <2>1, EndKept, GoingOnKept DEF Places, Idle, Results
<1>6. CASE FinishSet(r)
  <2>1. InProgress(r) /\ UNCHANGED kind /\ \E how \in Terminal : End(r, how)
    BY <1>6 DEF FinishSet, InProgress, Idle
  <2>2. QED
    BY <2>1, EndKept DEF Results, Terminal
<1>7. QED
  BY <1>1, <1>2, <1>3, <1>4, <1>5, <1>6 DEF SetStep

LEMMA RestoreStepRegistry ==
  ASSUME RegistryInv, NEW r \in Req, RestoreStep(r)
  PROVE  RegistryInv'
<1>1. CASE \/ Extract(r) \/ Copy(r) \/ SwapOut(r) \/ SwapIn(r) \/ SwapFails(r)
           \/ RollBack(r) \/ RollBackFails(r) \/ CacheExtract(r) \/ CacheSwap(r)
  <2>1. UNCHANGED <<registry, kind, result>> /\ InProgress(r)
    BY <1>1 DEF Extract, Copy, SwapOut, SwapIn, SwapFails, RollBack, RollBackFails, CacheExtract,
                CacheSwap, InProgress, Idle
  <2>2. CASE Extract(r)
    BY <2>1, <2>2, GoingOnKept DEF Extract, Places, Idle
  <2>3. CASE Copy(r)
    BY <2>1, <2>3, GoingOnKept DEF Copy, Places, Idle
  <2>4. CASE SwapOut(r)
    BY <2>1, <2>4, GoingOnKept DEF SwapOut, Places, Idle
  <2>5. CASE SwapIn(r)
    BY <2>1, <2>5, GoingOnKept DEF SwapIn, Places, Idle
  <2>6. CASE SwapFails(r)
    BY <2>1, <2>6, GoingOnKept DEF SwapFails, Places, Idle
  <2>7. CASE RollBack(r) \/ RollBackFails(r)
    <3>1. Goto(r, "rollback")
      BY <2>7 DEF RollBack, RollBackFails, Goto, RegistryInv, Types
    <3>2. QED
      BY <2>1, <3>1, GoingOnKept DEF Places, Idle
  <2>8. CASE CacheExtract(r)
    BY <2>1, <2>8, GoingOnKept DEF CacheExtract, Places, Idle
  <2>9. CASE CacheSwap(r)
    <3>1. Goto(r, "cache-swap")
      BY <2>9 DEF CacheSwap, Goto, RegistryInv, Types
    <3>2. QED
      BY <2>1, <3>1, GoingOnKept DEF Places, Idle
  <2>10. QED
    BY <1>1, <2>2, <2>3, <2>4, <2>5, <2>6, <2>7, <2>8, <2>9
<1>2. CASE RestoreFails(r) \/ CopyFails(r) \/ EndRollBack(r) \/ CacheSwapFails(r) \/ EndCacheSwap(r)
  <2>1. UNCHANGED kind /\ InProgress(r)
    BY <1>2 DEF RestoreFails, Extracting, CopyFails, EndRollBack, CacheSwapFails, EndCacheSwap,
                InProgress, Idle
  <2>2. End(r, "failed") \/ End(r, "finished")
    BY <1>2 DEF RestoreFails, CopyFails, EndRollBack, CacheSwapFails, EndCacheSwap
  <2>3. QED
    BY <2>1, <2>2, EndKept DEF Results
<1>3. CASE EndSwap(r)
  <2>1. Gone({r}, temps \ TempsOf(r)) /\ UNCHANGED kind
        /\ result' = [result EXCEPT ![r] = "finished"]
    BY <1>3 DEF EndSwap
  <2>2. result' \in [Req -> Results] /\ \A q \in Req \ {r} : result'[q] = result[q]
    BY <2>1 DEF RegistryInv, Types, Results
  <2>3. QED
    BY <2>1, <2>2, GoneKept
<1>4. QED
  BY <1>1, <1>2, <1>3 DEF RestoreStep

LEMMA UsersRegistry ==
  ASSUME RegistryInv, Users
  PROVE  RegistryInv'
<1>1. ASSUME NEW r \in Req, NEW label \in Labels, StartManagerBackup(r, label) PROVE RegistryInv'
  <2>1. Ask(r, "manager")
    BY <1>1 DEF StartManagerBackup
  <2>2. CASE TaskActive
    BY <1>1, <2>1, <2>2, RefusedKept DEF StartManagerBackup, Kinds, TaskKinds
  <2>3. CASE ~TaskActive
    <3>1. BeginTask(r) /\ Goto(r, "create") /\ UNCHANGED result
      BY <1>1, <2>3 DEF StartManagerBackup
    <3>2. QED
      BY <2>1, <2>3, <3>1, NoneAtWork, EntryKept DEF Ask, Places, Idle, TaskKinds
  <2>4. QED
    BY <2>2, <2>3
<1>2. ASSUME NEW r \in Req, NEW label \in Labels, NEW plan \in Plans, StartCacheBackup(r, label, plan)
      PROVE  RegistryInv'
  <2>1. Ask(r, "cache")
    BY <1>2 DEF StartCacheBackup
  <2>2. CASE Refuse(r)
    BY <2>1, <2>2, RefusedKept DEF Kinds, TaskKinds
  <2>3. CASE ~Refuse(r)
    <3>1. ~TaskActive /\ BeginTask(r) /\ Goto(r, "artifact") /\ UNCHANGED result
      BY <1>2, <2>3 DEF StartCacheBackup, BeginSet
    <3>2. QED
      BY <2>1, <3>1, NoneAtWork, EntryKept DEF Ask, Places, Idle, TaskKinds
  <2>4. QED
    BY <2>2, <2>3
<1>3. ASSUME NEW r \in Req, NEW label \in Labels, NEW plan \in Plans, StartCacheBackupSync(r, label, plan)
      PROVE  RegistryInv'
  <2>1. Ask(r, "cache-sync")
    BY <1>3 DEF StartCacheBackupSync
  <2>2. CASE Refuse(r)
    BY <2>1, <2>2, RefusedKept DEF Kinds
  <2>3. CASE ~Refuse(r)
    <3>1. Goto(r, "artifact") /\ UNCHANGED <<registry, result>>
      BY <1>3, <2>3 DEF StartCacheBackupSync, BeginSet
    <3>2. QED
      BY <2>1, <3>1, EnteredKept DEF Places, Kinds, TaskKinds
  <2>4. QED
    BY <2>2, <2>3
<1>4. ASSUME NEW r \in Req, Upload(r) PROVE RegistryInv'
  BY <1>4, EnteredKept DEF Upload, Places, Kinds, TaskKinds
<1>5. ASSUME NEW r \in Req, UploadFails(r) PROVE RegistryInv'
  <2>1. InProgress(r) /\ UNCHANGED kind /\ End(r, "failed")
    BY <1>5 DEF UploadFails, InProgress, Idle
  <2>2. QED
    BY <2>1, EndKept DEF Results
<1>6. ASSUME NEW r \in Req, NEW n, NEW state, LinkUpload(r, n, Foreign, state) PROVE RegistryInv'
  <2>1. InProgress(r) /\ UNCHANGED kind /\ (End(r, "refused") \/ End(r, "finished"))
    BY <1>6 DEF LinkUpload, InProgress, Idle
  <2>2. QED
    BY <2>1, EndKept DEF Results
<1>7. ASSUME NEW n, DeleteBackup(n) PROVE RegistryInv'
  BY <1>7 DEF DeleteBackup, registry, RegistryInv, Types, Registry, IsTask, InProgress, Ended, EndedOnce
<1>8. QED
  BY <1>1, <1>2, <1>3, <1>4, <1>5, <1>6, <1>7 DEF Users, StartRequest

LEMMA RegistryStep ==
  ASSUME RegistryInv, [Next]_vars
  PROVE  RegistryInv'
<1>1. ASSUME NEW r \in Req, Work(r) PROVE RegistryInv'
  BY <1>1, CreateStepRegistry, SetStepRegistry, RestoreStepRegistry DEF Work
<1>2. ASSUME NEW r \in Req, NEW n, NEW what \in Kinds, BeginRestore(r, what, n) PROVE RegistryInv'
  <2>1. Ask(r, what) /\ what \in Kinds \ TaskKinds
    BY <1>2 DEF BeginRestore, TaskKinds
  <2>2. Refuse(r) \/ \E p \in {"extract", "cache-extract"} : Goto(r, p) /\ UNCHANGED <<registry, result>>
    BY <1>2 DEF BeginRestore
  <2>3. QED
    BY <2>1, <2>2, RefusedKept, EnteredKept DEF Places
<1>3. CASE Restart
  <2>1. Gone({}, temps) /\ UNCHANGED <<kind, result>>
    BY <1>3 DEF Restart
  <2>2. QED
    BY <2>1, GoneKept DEF RegistryInv, Types
<1>4. CASE UNCHANGED vars
  BY <1>4 DEF vars, backupVars, registry, RegistryInv, Types, Registry, IsTask, InProgress, Ended, EndedOnce
<1>5. QED
  BY <1>1, <1>2, <1>3, <1>4, UsersRegistry DEF Next

LEMMA InitRegistry == Init => RegistryInv
<1> SUFFICES ASSUME Init PROVE RegistryInv
  OBVIOUS
<1>1. Types
  BY DEF Init, InitBackups, Types, Places, Results
<1>2. IsFiniteSet({}) /\ Cardinality({}) = 0 /\ MaxTasks \in Nat
  BY FS_EmptySet, BoundAssumption
<1>3. Registry
  BY <1>2 DEF Init, InitBackups, Registry, InProgress, Idle, Ended, EndedOnce
<1>4. QED
  BY <1>1, <1>3 DEF RegistryInv

-----------------------------------------------------------------------------
(* Temporary files.                                                        *)

\* A request moves on, and whatever file of its own there is belongs there.
LEMMA FilesFit ==
  ASSUME Types, PlaintextInv, NEW r \in Req, NEW p, Goto(r, p),
         \A t \in temps' : t \in temps \/ t = <<r, t[2]>>,
         \A t \in temps' : t[1] = r => p \in PlacesOf(t[2])
  PROVE  PlaintextInv'
<1>0. \A t \in temps' : t[1] \in Req /\ t = <<t[1], t[2]>> /\ (t \in temps \/ t[1] = r)
  BY DEF PlaintextInv
<1>1. \A t \in temps' : pc'[t[1]] \in PlacesOf(t[2])
  <2> SUFFICES ASSUME NEW t \in temps' PROVE pc'[t[1]] \in PlacesOf(t[2])
    OBVIOUS
  <2>1. t[1] \in Req
    BY <1>0
  <2>2. CASE t[1] = r
    BY <2>2 DEF Types, Goto
  <2>3. CASE t[1] # r
    <3>1. t \in temps /\ pc'[t[1]] = pc[t[1]]
      BY <1>0, <2>1, <2>3 DEF Types, Goto
    <3>2. QED
      BY <3>1 DEF PlaintextInv
  <2>4. QED
    BY <2>2, <2>3
<1>2. QED
  BY <1>0, <1>1 DEF PlaintextInv, PlacesOf

\* What plain files there are of a request in which place.
LEMMA FilesOf ==
  ASSUME PlaintextInv, NEW t \in temps
  PROVE  /\ t[1] \in Req /\ t = <<t[1], t[2]>>
         /\ t[2] = "zip" => pc[t[1]] \in {"secure", "pack", "encrypt", "collect", "store", "lost"}
         /\ t[2] = "db" => pc[t[1]] \in {"secure", "pack", "lost"}
         /\ t[2] = "sec" => pc[t[1]] \in {"pack", "lost"}
         /\ t[2] = "decrypted" => pc[t[1]] \in {"extract", "cache-extract", "lost"}
BY DEF PlaintextInv, PlacesOf

\* Where a file may be.
LEMMA FitsAt ==
  ASSUME NEW p \in Places, NEW what,
         what = "zip" => p \in {"secure", "pack", "encrypt", "collect", "store", "lost"},
         what = "db" => p \in {"secure", "pack", "lost"},
         what = "sec" => p \in {"pack", "lost"},
         what = "decrypted" => p \in {"extract", "cache-extract", "lost"}
  PROVE  p \in PlacesOf(what)
BY DEF PlacesOf

\* A request without plain files goes anywhere.
LEMMA PlainKept ==
  ASSUME Types, PlaintextInv, NEW r \in Req, NEW p \in Places, Goto(r, p), temps' \subseteq temps,
         \A t \in temps' : t[1] = r => t[2] \notin {"zip", "db", "sec", "decrypted"}
  PROVE  PlaintextInv'
<1>1. \A t \in temps' : t[1] = r => p \in PlacesOf(t[2])
  BY FitsAt
<1>2. QED
  BY <1>1, FilesFit DEF PlaintextInv

LEMMA CleanKept ==
  ASSUME Types, PlaintextInv, NEW r \in Req, NEW p \in Places, Goto(r, p),
         temps' = temps \ TempsOf(r)
  PROVE  PlaintextInv'
BY PlainKept DEF TempsOf

LEMMA NewKept ==
  ASSUME Types, PlaintextInv, NEW r \in Req, NEW p \in Places, Goto(r, p), UNCHANGED temps,
         pc[r] \notin {"secure", "pack", "encrypt", "collect", "store", "lost", "extract", "cache-extract"}
  PROVE  PlaintextInv'
BY PlainKept, FilesOf

LEMMA CreateStepFiles ==
  ASSUME Types, PlaintextInv, NEW r \in Req, CreateStep(r)
  PROVE  PlaintextInv'
<1>1. CASE Create(r)
  <2>1. pc[r] = "create" /\ temps' = temps \cup {<<r, "zip">>, <<r, "db">>} /\ Goto(r, "secure")
    BY <1>1 DEF Create
  <2>2. \A t \in temps' : t[1] = r => "secure" \in PlacesOf(t[2])
    BY <2>1, FilesOf, FitsAt DEF Places
  <2>3. \A t \in temps' : t \in temps \/ t = <<r, t[2]>>
    BY <2>1
  <2>4. QED
    BY <2>1, <2>2, <2>3, FilesFit
<1>2. CASE Secure(r)
  <2>1. pc[r] = "secure" /\ temps' = temps \cup {<<r, "sec">>} /\ Goto(r, "pack")
    BY <1>2 DEF Secure
  <2>2. \A t \in temps' : t[1] = r => "pack" \in PlacesOf(t[2])
    BY <2>1, FilesOf, FitsAt DEF Places
  <2>3. \A t \in temps' : t \in temps \/ t = <<r, t[2]>>
    BY <2>1
  <2>4. QED
    BY <2>1, <2>2, <2>3, FilesFit
<1>3. CASE Pack(r)
  <2>1. pc[r] = "pack" /\ temps' = temps \ {<<r, "sec">>, <<r, "db">>} /\ Goto(r, "encrypt")
    BY <1>3 DEF Pack
  <2>2. \A t \in temps' : t[1] = r => "encrypt" \in PlacesOf(t[2])
    BY <2>1, FilesOf, FitsAt DEF Places
  <2>3. QED
    BY <2>1, <2>2, FilesFit
<1>4. CASE Encrypt(r)
  <2>1. pc[r] = "encrypt" /\ temps' = temps \ {<<r, "zip">>}
        /\ \E p \in {"respond", "report"} : Goto(r, p)
    BY <1>4 DEF Encrypt
  <2>2. \A t \in temps' : t[1] = r => t[2] \notin {"zip", "db", "sec", "decrypted"}
    BY <2>1, FilesOf
  <2>3. QED
    BY <2>1, <2>2, PlainKept DEF Places
<1>5. CASE Report(r)
  BY <1>5, NewKept DEF Report, End, Places, disk
<1>6. CASE CreateFails(r)
  BY <1>6, CleanKept DEF CreateFails, End, Places
<1>7. QED
  BY <1>1, <1>2, <1>3, <1>4, <1>5, <1>6 DEF CreateStep

LEMMA SetStepFiles ==
  ASSUME Types, PlaintextInv, NEW r \in Req, SetStep(r)
  PROVE  PlaintextInv'
<1>1. CASE SkipArtifact(r)
  BY <1>1 DEF SkipArtifact, disk, PlaintextInv, PlacesOf
<1>2. CASE BeginArtifact(r)
  <2>1. pc[r] = "artifact" /\ temps' = temps \cup {<<r, "zip">>} /\ Goto(r, "collect")
    BY <1>2 DEF BeginArtifact
  <2>2. \A t \in temps' : t[1] = r => "collect" \in PlacesOf(t[2])
    BY <2>1, FilesOf, FitsAt DEF Places
  <2>3. \A t \in temps' : t \in temps \/ t = <<r, t[2]>>
    BY <2>1
  <2>4. QED
    BY <2>1, <2>2, <2>3, FilesFit
<1>3. CASE Collect(r)
  <2>1. pc[r] = "collect" /\ temps' = temps /\ Goto(r, "store")
    BY <1>3 DEF Collect
  <2>2. \A t \in temps' : t[1] = r => "store" \in PlacesOf(t[2])
    BY <2>1, FilesOf, FitsAt DEF Places
  <2>3. QED
    BY <2>1, <2>2, FilesFit
<1>4. CASE Store(r)
  <2>1. pc[r] = "store" /\ temps' = temps \ {<<r, "zip">>} /\ Goto(r, "artifact")
    BY <1>4 DEF Store
  <2>2. \A t \in temps' : t[1] = r => t[2] \notin {"zip", "db", "sec", "decrypted"}
    BY <2>1, FilesOf
  <2>3. QED
    BY <2>1, <2>2, PlainKept DEF Places
<1>5. CASE ArtifactFails(r)
  <2>1. temps' = temps \ TempsOf(r) /\ \E p \in Places : Goto(r, p)
    BY <1>5 DEF ArtifactFails, End, Places
  <2>2. QED
    BY <2>1, CleanKept
<1>6. CASE FinishSet(r)
  <2>1. pc[r] = "artifact" /\ UNCHANGED temps /\ Goto(r, "done")
    BY <1>6 DEF FinishSet, End, disk
  <2>2. QED
    BY <2>1, NewKept DEF Places
<1>7. QED
  BY <1>1, <1>2, <1>3, <1>4, <1>5, <1>6 DEF SetStep

\* A process that ends leaves its requests lost.
LEMMA GoneFiles ==
  ASSUME Types, PlaintextInv, NEW R \in SUBSET Req, NEW T, Gone(R, T), T \subseteq temps,
         \A t \in T : t[1] \in R => t[2] \notin {"zip", "db", "sec", "decrypted"}
  PROVE  PlaintextInv'
<1>1. pc' = [r \in Req |-> IF InProgress(r) /\ r \notin R THEN "lost"
                          ELSE IF r \in R THEN "done" ELSE pc[r]]
      /\ temps' \subseteq T
  BY DEF Gone
<1>2. ASSUME NEW t \in temps' PROVE pc'[t[1]] \in PlacesOf(t[2])
  <2>1. t \in temps /\ t[1] \in Req /\ t \in T
    BY <1>1, <1>2 DEF PlaintextInv
  <2>2. pc'[t[1]] \in Places /\ pc[t[1]] \in Places
    BY <1>1, <2>1 DEF Types, Places
  <2>3. t[2] \in {"zip", "db", "sec", "decrypted"} => pc'[t[1]] = "lost"
    BY <1>1, <2>1, FilesOf DEF InProgress, Idle
  <2>4. QED
    BY <2>2, <2>3, FitsAt
<1>3. QED
  BY <1>1, <1>2 DEF PlaintextInv, PlacesOf

LEMMA RestoreStepFiles ==
  ASSUME Types, PlaintextInv, NEW r \in Req, RestoreStep(r)
  PROVE  PlaintextInv'
<1>1. CASE Extract(r) \/ CacheExtract(r)
  <2>1. temps' = temps \ {<<r, "decrypted">>} /\ pc[r] \in {"extract", "cache-extract"}
        /\ \E p \in {"create", "cache-swap"} : Goto(r, p)
    BY <1>1 DEF Extract, CacheExtract
  <2>2. \A t \in temps' : t[1] = r => t[2] \notin {"zip", "db", "sec", "decrypted"}
    BY <2>1, FilesOf
  <2>3. QED
    BY <2>1, <2>2, PlainKept DEF Places
<1>2. CASE \/ Copy(r) \/ CopyFails(r) \/ SwapOut(r) \/ SwapIn(r) \/ SwapFails(r) \/ EndRollBack(r)
  <2>1. temps' = temps /\ pc[r] \in {"respond", "swap", "install", "rollback"}
    BY <1>2 DEF Copy, CopyFails, SwapOut, SwapIn, SwapFails, EndRollBack, disk
  <2>2. \E p \in Places : Goto(r, p)
    BY <1>2 DEF Copy, CopyFails, SwapOut, SwapIn, SwapFails, EndRollBack, End, Places
  <2>3. QED
    BY <2>1, <2>2, NewKept
<1>3. CASE RollBack(r) \/ RollBackFails(r) \/ CacheSwap(r)
  <2>1. UNCHANGED <<temps, pc>>
    BY <1>3 DEF RollBack, RollBackFails, CacheSwap, disk
  <2>2. QED
    BY <2>1 DEF PlaintextInv, PlacesOf
<1>4. CASE RestoreFails(r) \/ CacheSwapFails(r) \/ EndCacheSwap(r)
  <2>1. temps' = temps \ TempsOf(r) /\ Goto(r, "done")
    BY <1>4 DEF RestoreFails, CacheSwapFails, EndCacheSwap, End
  <2>2. QED
    BY <2>1, CleanKept DEF Places
<1>5. CASE EndSwap(r)
  <2>1. Gone({r}, temps \ TempsOf(r))
    BY <1>5 DEF EndSwap
  <2>2. QED
    BY <2>1, GoneFiles DEF TempsOf
<1>6. QED
  BY <1>1, <1>2, <1>3, <1>4, <1>5 DEF RestoreStep

LEMMA PlaintextStep ==
  ASSUME Types, PlaintextInv, [Next]_vars
  PROVE  PlaintextInv'
<1>1. ASSUME NEW r \in Req, Work(r) PROVE PlaintextInv'
  BY <1>1, CreateStepFiles, SetStepFiles, RestoreStepFiles DEF Work
<1>2. ASSUME NEW r \in Req, NEW n, NEW what \in Kinds, BeginRestore(r, what, n) PROVE PlaintextInv'
  <2>1. CASE Refuse(r)
    BY <1>2, <2>1, NewKept DEF BeginRestore, Ask, Refuse, Places, disk
  <2>2. CASE ~Refuse(r)
    <3>1. PICK p \in {"extract", "cache-extract"} :
            pc[r] = "new" /\ Goto(r, p) /\ temps' = temps \cup {<<r, "staging">>, <<r, "decrypted">>}
      BY <1>2, <2>2 DEF BeginRestore, Ask
    <3>2. \A t \in temps' : t[1] = r => p \in PlacesOf(t[2])
      BY <3>1, FilesOf, FitsAt DEF Places
    <3>3. \A t \in temps' : t \in temps \/ t = <<r, t[2]>>
      BY <3>1
    <3>4. QED
      BY <3>1, <3>2, <3>3, FilesFit
  <2>3. QED
    BY <2>1, <2>2
<1>3. CASE Restart
  BY <1>3, GoneFiles DEF Restart
<1>4. ASSUME NEW r \in Req, StartRequest(r) PROVE PlaintextInv'
  <2>1. ASSUME NEW label, StartManagerBackup(r, label) PROVE PlaintextInv'
    <3>1. pc[r] = "new" /\ UNCHANGED temps /\ \E p \in Places : Goto(r, p)
      BY <2>1, SMTT(30) DEF StartManagerBackup, Ask, Refuse, disk, Places
    <3>2. QED
      BY <3>1, NewKept
  <2>2. ASSUME NEW label, NEW plan, StartCacheBackup(r, label, plan) \/ StartCacheBackupSync(r, label, plan)
        PROVE  PlaintextInv'
    <3>1. pc[r] = "new" /\ UNCHANGED temps /\ \E p \in Places : Goto(r, p)
      BY <2>2 DEF StartCacheBackup, StartCacheBackupSync, BeginSet, Ask, Refuse, disk, Places
    <3>2. QED
      BY <3>1, NewKept
  <2>3. CASE Upload(r)
    <3>1. pc[r] = "new" /\ temps' = temps \cup {<<r, "upload">>} /\ Goto(r, "link")
      BY <2>3 DEF Upload, Ask
    <3>2. \A t \in temps' : t[1] = r => "link" \in PlacesOf(t[2])
      BY <3>1, FilesOf, FitsAt DEF Places
    <3>3. \A t \in temps' : t \in temps \/ t = <<r, t[2]>>
      BY <3>1
    <3>4. QED
      BY <3>1, <3>2, <3>3, FilesFit
  <2>4. CASE UploadFails(r)
    BY <2>4, CleanKept DEF UploadFails, End, Places
  <2>5. ASSUME NEW n, NEW state, LinkUpload(r, n, Foreign, state) PROVE PlaintextInv'
    <3>1. temps' = temps \ TempsOf(r) /\ Goto(r, "done")
      BY <2>5 DEF LinkUpload, End
    <3>2. QED
      BY <3>1, CleanKept DEF Places
  <2>6. QED
    BY <1>4, <2>1, <2>2, <2>3, <2>4, <2>5 DEF StartRequest
<1>5. ASSUME NEW n, DeleteBackup(n) PROVE PlaintextInv'
  BY <1>5 DEF DeleteBackup, PlaintextInv, PlacesOf
<1>6. CASE UNCHANGED vars
  BY <1>6 DEF vars, backupVars, disk, PlaintextInv, PlacesOf
<1>7. QED
  BY <1>1, <1>2, <1>3, <1>4, <1>5, <1>6 DEF Next, Users

-----------------------------------------------------------------------------
(* The order of exchange.                                                  *)

LEMMA Ordered ==
  /\ Len(Order) = 7
  /\ \A c \in Component : \E i \in 1..7 : Order[i] = c
BY DEF Order, Component

LEMMA FirstIn ==
  ASSUME NEW S \in SUBSET Component, S # {}
  PROVE  First(S) \in S
<1> DEFINE T == {i \in 1..7 : Order[i] \in S}
<1>1. T \in SUBSET Nat /\ T # {}
  BY Ordered
<1>2. PICK m \in T : \A n \in T : m <= n
  <2> HIDE DEF T
  <2>1. QED
    BY <1>1, NatMin
<1>3. \A j \in 1..(m - 1) : Order[j] \notin S
  BY <1>2
<1>4. \E c \in S : \E i \in 1..Len(Order) : Order[i] = c /\ \A j \in 1..(i - 1) : Order[j] \notin S
  BY <1>2, <1>3, Ordered
<1>5. QED
  BY <1>4 DEF First

LEMMA LatestIn ==
  ASSUME NEW S \in SUBSET Component, S # {}
  PROVE  Latest(S) \in S
<1> DEFINE T == {n \in 0..6 : Order[7 - n] \in S}
<1>1. T \in SUBSET Nat /\ T # {}
  <2>1. PICK c \in S : TRUE
    OBVIOUS
  <2>2. PICK i \in 1..7 : Order[i] = c
    BY Ordered
  <2>3. PICK k \in 0..6 : 7 - k = i
    <3>1. 7 - i \in 0..6 /\ 7 - (7 - i) = i
      OBVIOUS
    <3>2. QED
      BY <3>1
  <2>4. Order[7 - k] \in S
    BY <2>1, <2>2, <2>3
  <2>5. k \in T
    BY <2>3, <2>4
  <2>6. T \subseteq 0..6
    OBVIOUS
  <2> HIDE DEF T
  <2>7. QED
    BY <2>5, <2>6
<1>2. PICK m \in T : \A n \in T : m <= n
  <2> HIDE DEF T
  <2>1. QED
    BY <1>1, NatMin
<1>3. 7 - m \in 1..7 /\ Order[7 - m] \in S
  BY <1>2
<1>4. \A j \in (7 - m + 1)..7 : Order[j] \notin S
  <2> SUFFICES ASSUME NEW j \in (7 - m + 1)..7, Order[j] \in S PROVE FALSE
    OBVIOUS
  <2>1. 7 - j \in 0..6 /\ 7 - (7 - j) = j /\ 7 - j < m
    BY <1>2
  <2>2. QED
    BY <1>2, <2>1
<1>5. \E c \in S :
        \E i \in 1..Len(Order) : Order[i] = c /\ \A j \in (i + 1)..Len(Order) : Order[j] \notin S
  BY <1>3, <1>4, Ordered
<1>6. QED
  BY <1>5 DEF Latest

-----------------------------------------------------------------------------
(* The exchange of one restore, x its transaction and d the live data.     *)

DataParts == Component \ CacheParts
Always == {"notifications.json", "manager.db-wal"}

IsImage(d) == d = [c \in Component |-> d[c]]
IsTx(x) ==
  /\ x = [img |-> x.img, before |-> x.before, old |-> x.old, todo |-> x.todo,
          changed |-> x.changed, installed |-> x.installed, error |-> x.error]
  /\ IsImage(x.old) /\ x.todo \subseteq Component /\ x.changed \subseteq Component
  /\ x.installed \subseteq Component /\ x.error \in BOOLEAN

\* Nothing was copied yet.
Fresh(x) == x = [NoTx EXCEPT !.img = x.img]

\* Every original is in its place or in the transaction directory.
KeptIn(x, d, S) == \A c \in S : x.before[c] # None => x.before[c] \in {d[c], x.old[c]}

\* What was exchanged has its original in the transaction directory, and what
\* replaced nothing and is not installed is absent.
Saved(x, d) ==
  \A c \in x.changed : /\ c \in DataParts /\ x.old[c] = x.before[c]
                       /\ c \notin x.installed => d[c] = None

\* What is exchanged and what is still to be exchanged are what the backup
\* holds, and the rest is as it was.
Forward(x, d) ==
  /\ Saved(x, d) /\ KeptIn(x, d, DataParts)
  /\ x.installed \subseteq x.changed /\ ~x.error
  /\ x.changed \cup x.todo = {c \in DataParts : x.img[c] # None} \cup Always
  /\ \A c \in DataParts \ x.changed : d[c] = x.before[c]

AtSwap(x, d) ==
  /\ Forward(x, d) /\ x.todo \cap x.changed = {}
  /\ \A c \in x.changed : d[c] = x.img[c]

AtInstall(x, d) ==
  /\ Forward(x, d) /\ x.todo # {}
  /\ x.todo \cap x.changed = {First(x.todo)} /\ First(x.todo) \notin x.installed
  /\ \A c \in x.changed \ {First(x.todo)} : d[c] = x.img[c]

AtRollBack(x, d) ==
  /\ Saved(x, d) /\ KeptIn(x, d, DataParts)
  /\ ~x.error => \A c \in DataParts \ x.changed : d[c] = x.before[c]

AtCacheSwap(x, d) ==
  /\ x.todo \subseteq CacheParts /\ x.installed = CacheParts \ x.todo
  /\ \A c \in x.todo : d[c] = x.before[c] /\ x.old[c] = None
  /\ \A c \in CacheParts \ x.todo : x.old[c] = x.before[c]

Installed(x, d) ==
  \A c \in DataParts : d[c] = IF x.img[c] # None THEN x.img[c]
                              ELSE IF c \in Always THEN None ELSE x.before[c]

Untouched(x, d) == x.before # NoImage => \A c \in DataParts : d[c] = x.before[c]

\* The steps of the exchange, of the transaction and of the data.
TxOut(x, d, c) == [x EXCEPT !.old[c] = d[c], !.changed = @ \cup {c}]
TxIn(x, c) ==
  [x EXCEPT !.todo = @ \ {c}, !.installed = IF x.img[c] = None THEN @ ELSE @ \cup {c}]
TxBack(x, c) == [x EXCEPT !.old[c] = None, !.changed = @ \ {c}]
TxStuck(x, c) == [x EXCEPT !.error = TRUE, !.changed = @ \ {c}]
DataOut(d, c) == [d EXCEPT ![c] = None]
DataIn(x, d, c) == [d EXCEPT ![c] = x.img[c]]
DataBack(x, d, c) ==
  [d EXCEPT ![c] = IF x.old[c] # None THEN x.old[c] ELSE IF c \in x.installed THEN None ELSE @]
TxCache(x, d, c) == [x EXCEPT !.old[c] = d[c], !.todo = @ \ {c}, !.installed = @ \cup {c}]
DataCache(d, c) == [d EXCEPT ![c] = "restored"]

-----------------------------------------------------------------------------
\* Everything is copied, nothing is exchanged.
LEMMA CopyFits ==
  ASSUME NEW x, IsTx(x), Fresh(x), NEW d, IsImage(d), NEW y,
         y = [x EXCEPT !.before = d,
                       !.todo = {c \in DataParts : x.img[c] # None}
                                  \cup {"notifications.json", "manager.db-wal"}]
  PROVE  IsTx(y) /\ AtSwap(y, d)
<1>1. x.changed = {} /\ x.installed = {} /\ x.error = FALSE
  BY DEF Fresh, NoTx
<1>2. y = [img |-> x.img, before |-> d, old |-> x.old,
           todo |-> {c \in DataParts : x.img[c] # None} \cup {"notifications.json", "manager.db-wal"},
           changed |-> x.changed, installed |-> x.installed, error |-> x.error]
  BY DEF IsTx
<1>3. y.img = x.img /\ y.before = d /\ y.changed = {} /\ y.installed = {} /\ y.error = FALSE
      /\ y.todo = {c \in DataParts : y.img[c] # None} \cup Always /\ y.old = x.old
  <2>1. y.img = x.img /\ y.before = d /\ y.changed = x.changed /\ y.installed = x.installed
        /\ y.error = x.error /\ y.old = x.old
        /\ y.todo = {c \in DataParts : x.img[c] # None}
                      \cup {"notifications.json", "manager.db-wal"}
    BY <1>2
  <2>2. QED
    BY <1>1, <2>1 DEF Always
<1>4. y.todo \subseteq Component
  BY <1>3 DEF DataParts, Always, Component
<1>5. IsTx(y)
  BY <1>2, <1>3, <1>4 DEF IsTx
<1>6. AtSwap(y, d)
  BY <1>3 DEF AtSwap, Forward, Saved, KeptIn
<1>7. QED
  BY <1>5, <1>6

\* A component goes out of the way.
LEMMA SwapOutFits ==
  ASSUME NEW x, IsTx(x), NEW d, IsImage(d), AtSwap(x, d), x.todo # {}, NEW c, c = First(x.todo),
         NEW y, y = TxOut(x, d, c),
         NEW e, e = DataOut(d, c)
  PROVE  IsTx(y) /\ IsImage(e) /\ AtInstall(y, e) /\ \A b \in Component \ DataParts : e[b] = d[b]
<1>1. c \in x.todo /\ c \in Component
  BY FirstIn DEF IsTx
<1>2. c \in DataParts /\ c \notin x.changed
  BY <1>1 DEF AtSwap, Forward, Always, DataParts, Component, CacheParts
<1>3. y = [img |-> x.img, before |-> x.before, old |-> [x.old EXCEPT ![c] = d[c]], todo |-> x.todo,
           changed |-> x.changed \cup {c}, installed |-> x.installed, error |-> x.error]
  BY DEF IsTx, TxOut
<1>4. e = [b \in Component |-> IF b = c THEN None ELSE d[b]]
  BY <1>1 DEF IsImage, DataOut
<1>5. y.old = [b \in Component |-> IF b = c THEN d[c] ELSE x.old[b]]
  <2>1. x.old = [b \in Component |-> x.old[b]]
    BY DEF IsTx, IsImage
  <2>2. y.old = [x.old EXCEPT ![c] = d[c]]
    BY <1>3
  <2>3. QED
    BY <2>1, <2>2
<1>6. y.img = x.img /\ y.before = x.before /\ y.todo = x.todo /\ y.changed = x.changed \cup {c}
      /\ y.installed = x.installed /\ y.error = x.error
  BY <1>3
<1>7. IsTx(y) /\ IsImage(e)
  BY <1>1, <1>3, <1>4, <1>5, <1>6 DEF IsTx, IsImage
<1>8. d[c] = x.before[c] /\ c \notin x.installed
  BY <1>2 DEF AtSwap, Forward
<1>9. Saved(y, e)
  BY <1>2, <1>4, <1>5, <1>6, <1>8 DEF AtSwap, Forward, Saved, DataParts
<1>10. KeptIn(y, e, DataParts)
  BY <1>4, <1>5, <1>6, <1>8 DEF AtSwap, Forward, KeptIn, DataParts
<1>11. Forward(y, e)
  BY <1>1, <1>2, <1>4, <1>6, <1>9, <1>10 DEF AtSwap, Forward, DataParts
<1>12. AtInstall(y, e)
  BY <1>1, <1>2, <1>4, <1>6, <1>8, <1>11 DEF AtInstall, AtSwap, Forward, Saved, DataParts
<1>13. QED
  BY <1>2, <1>4, <1>7, <1>12

\* Its successor comes in.
LEMMA SwapInFits ==
  ASSUME NEW x, IsTx(x), NEW d, IsImage(d), AtInstall(x, d), NEW c, c = First(x.todo),
         NEW y, y = TxIn(x, c),
         NEW e, e = DataIn(x, d, c)
  PROVE  IsTx(y) /\ IsImage(e) /\ AtSwap(y, e) /\ \A b \in Component \ DataParts : e[b] = d[b]
<1>1. c \in x.todo /\ c \in Component
  BY FirstIn DEF IsTx, AtInstall
<1>2. c \in DataParts /\ c \in x.changed
  BY <1>1 DEF AtInstall, Forward, Always, DataParts, Component, CacheParts
<1>3. y = [img |-> x.img, before |-> x.before, old |-> x.old, todo |-> x.todo \ {c},
           changed |-> x.changed,
           installed |-> IF x.img[c] = None THEN x.installed ELSE x.installed \cup {c},
           error |-> x.error]
  BY DEF IsTx, TxIn
<1>4. e = [b \in Component |-> IF b = c THEN x.img[c] ELSE d[b]]
  BY <1>1 DEF IsImage, DataIn
<1>5. y.img = x.img /\ y.before = x.before /\ y.todo = x.todo \ {c} /\ y.changed = x.changed
      /\ y.installed = (IF x.img[c] = None THEN x.installed ELSE x.installed \cup {c})
      /\ y.error = x.error /\ y.old = x.old
  BY <1>3
<1>6. IsTx(y) /\ IsImage(e)
  <2>1. y.installed \subseteq Component
    BY <1>1, <1>5 DEF IsTx
  <2>2. QED
    BY <1>3, <1>4, <1>5, <2>1 DEF IsTx, IsImage
<1>7. Saved(y, e)
  BY <1>4, <1>5 DEF AtInstall, Forward, Saved, DataParts
<1>8. KeptIn(y, e, DataParts)
  BY <1>2, <1>4, <1>5 DEF AtInstall, Forward, Saved, KeptIn, DataParts
<1>9. Forward(y, e)
  <2>1. y.changed \cup y.todo = x.changed \cup x.todo
    BY <1>2, <1>5
  <2>2. y.installed \subseteq y.changed
    BY <1>2, <1>5 DEF AtInstall, Forward
  <2>3. \A b \in DataParts \ y.changed : e[b] = y.before[b]
    BY <1>2, <1>4, <1>5 DEF AtInstall, Forward, DataParts
  <2>4. QED
    BY <1>5, <1>7, <1>8, <2>1, <2>2, <2>3 DEF AtInstall, Forward
<1>10. AtSwap(y, e)
  BY <1>1, <1>2, <1>4, <1>5, <1>9 DEF AtInstall, AtSwap, Forward, Saved, DataParts
<1>11. QED
  BY <1>2, <1>4, <1>6, <1>10

\* The component exchanged last returns, or what fails leaves the rest alone.
LEMMA RollBackFits ==
  ASSUME NEW x, IsTx(x), NEW d, IsImage(d), AtRollBack(x, d), x.changed # {},
         NEW c, c = Latest(x.changed),
         NEW y, y = TxBack(x, c),
         NEW e, e = DataBack(x, d, c)
  PROVE  IsTx(y) /\ IsImage(e) /\ AtRollBack(y, e) /\ \A b \in Component \ DataParts : e[b] = d[b]
<1>1. c \in x.changed /\ c \in Component
  BY LatestIn DEF IsTx
<1>2. c \in DataParts /\ x.old[c] = x.before[c] /\ (c \notin x.installed => d[c] = None)
  BY <1>1 DEF AtRollBack, Saved
<1>3. y = [img |-> x.img, before |-> x.before, old |-> [x.old EXCEPT ![c] = None], todo |-> x.todo,
           changed |-> x.changed \ {c}, installed |-> x.installed, error |-> x.error]
  BY DEF IsTx, TxBack
<1>4. e = [b \in Component |-> IF b = c THEN x.before[c] ELSE d[b]]
  BY <1>1, <1>2 DEF IsImage, DataBack
<1>5. y.old = [b \in Component |-> IF b = c THEN None ELSE x.old[b]]
  BY <1>1, <1>3 DEF IsTx, IsImage
<1>6. y.img = x.img /\ y.before = x.before /\ y.todo = x.todo /\ y.changed = x.changed \ {c}
      /\ y.installed = x.installed /\ y.error = x.error
  BY <1>3
<1>7. IsTx(y) /\ IsImage(e)
  BY <1>3, <1>4, <1>5, <1>6 DEF IsTx, IsImage
<1>8. Saved(y, e)
  BY <1>4, <1>5, <1>6 DEF AtRollBack, Saved, DataParts
<1>9. KeptIn(y, e, DataParts)
  BY <1>2, <1>4, <1>5, <1>6 DEF AtRollBack, KeptIn, DataParts
<1>10. AtRollBack(y, e)
  BY <1>4, <1>6, <1>8, <1>9 DEF AtRollBack, DataParts
<1>11. QED
  BY <1>2, <1>4, <1>7, <1>10

LEMMA RollBackFailsFits ==
  ASSUME NEW x, IsTx(x), NEW d, IsImage(d), AtRollBack(x, d), x.changed # {},
         NEW c, c = Latest(x.changed),
         NEW y, y = TxStuck(x, c),
         NEW e, e = d \/ e = DataOut(d, c)
  PROVE  IsTx(y) /\ IsImage(e) /\ AtRollBack(y, e) /\ \A b \in Component \ DataParts : e[b] = d[b]
<1>1. c \in x.changed /\ c \in Component
  BY LatestIn DEF IsTx
<1>2. c \in DataParts /\ x.old[c] = x.before[c]
  BY <1>1 DEF AtRollBack, Saved
<1>3. y = [img |-> x.img, before |-> x.before, old |-> x.old, todo |-> x.todo,
           changed |-> x.changed \ {c}, installed |-> x.installed, error |-> TRUE]
  BY DEF IsTx, TxStuck
<1>4. IsImage(e) /\ \A b \in Component \ {c} : e[b] = d[b]
  BY <1>1 DEF IsImage, DataOut
<1>5. y.old = x.old /\ y.img = x.img /\ y.before = x.before /\ y.todo = x.todo
      /\ y.changed = x.changed \ {c} /\ y.installed = x.installed /\ y.error = TRUE
  BY <1>3
<1>6. IsTx(y)
  BY <1>3, <1>5 DEF IsTx
<1>7. Saved(y, e)
  BY <1>4, <1>5 DEF AtRollBack, Saved, DataParts
<1>8. KeptIn(y, e, DataParts)
  BY <1>2, <1>4, <1>5 DEF AtRollBack, KeptIn, DataParts
<1>9. QED
  BY <1>2, <1>4, <1>5, <1>6, <1>7, <1>8 DEF AtRollBack

\* The roll back is complete; the transaction directory goes unless it had errors.
LEMMA EndRollBackFits ==
  ASSUME NEW x, IsTx(x), NEW d, AtRollBack(x, d), x.changed = {},
         NEW y, y = IF x.error THEN x ELSE [x EXCEPT !.old = NoImage]
  PROVE  IsTx(y) /\ KeptIn(y, d, DataParts) /\ (~y.error => Untouched(y, d))
<1>1. CASE x.error
  BY <1>1 DEF AtRollBack
<1>2. CASE ~x.error
  <2>1. y = [img |-> x.img, before |-> x.before, old |-> NoImage, todo |-> x.todo,
             changed |-> x.changed, installed |-> x.installed, error |-> x.error]
    BY <1>2 DEF IsTx
  <2>2. y.img = x.img /\ y.before = x.before /\ y.old = NoImage /\ y.todo = x.todo
        /\ y.changed = x.changed /\ y.installed = x.installed /\ y.error = x.error
    BY <2>1
  <2>3. IsTx(y)
    BY <2>1, <2>2 DEF IsTx, IsImage, NoImage
  <2>4. \A c \in DataParts : d[c] = y.before[c]
    BY <1>2, <2>2 DEF AtRollBack
  <2>5. QED
    BY <2>3, <2>4 DEF KeptIn, Untouched
<1>3. QED
  BY <1>1, <1>2

\* The exchange is complete.
LEMMA EndSwapFits ==
  ASSUME NEW x, IsTx(x), NEW d, AtSwap(x, d), x.todo = {}, NEW y, y = [x EXCEPT !.old = NoImage]
  PROVE  IsTx(y) /\ Installed(y, d) /\ y.img = x.img
<1>1. y = [img |-> x.img, before |-> x.before, old |-> NoImage, todo |-> x.todo,
           changed |-> x.changed, installed |-> x.installed, error |-> x.error]
  BY DEF IsTx
<1>2. y.img = x.img /\ y.before = x.before /\ y.old = NoImage /\ y.todo = x.todo
      /\ y.changed = x.changed /\ y.installed = x.installed /\ y.error = x.error
  BY <1>1
<1>3. IsTx(y)
  BY <1>1, <1>2 DEF IsTx, IsImage, NoImage
<1>4. x.changed = {c \in DataParts : x.img[c] # None} \cup Always
  BY DEF AtSwap, Forward
<1>5. Installed(y, d)
  <2> SUFFICES ASSUME NEW c \in DataParts
               PROVE  d[c] = IF y.img[c] # None THEN y.img[c]
                             ELSE IF c \in Always THEN None ELSE y.before[c]
    BY DEF Installed
  <2>1. CASE c \in x.changed
    BY <1>2, <1>4, <2>1 DEF AtSwap
  <2>2. CASE c \notin x.changed
    BY <1>2, <1>4, <2>2 DEF AtSwap, Forward
  <2>3. QED
    BY <2>1, <2>2
<1>6. QED
  BY <1>2, <1>3, <1>5

-----------------------------------------------------------------------------
(* The exchange of a cache restore.                                        *)

LEMMA CacheBeginFits ==
  ASSUME NEW d, IsImage(d), NEW img,
         NEW y, y = [NoTx EXCEPT !.img = img, !.before = d, !.todo = CacheParts]
  PROVE  IsTx(y) /\ AtCacheSwap(y, d)
<1>1. y = [img |-> img, before |-> d, old |-> NoImage, todo |-> CacheParts,
           changed |-> {}, installed |-> {}, error |-> FALSE]
  BY DEF NoTx
<1>2. y.img = img /\ y.before = d /\ y.old = NoImage /\ y.todo = CacheParts
      /\ y.changed = {} /\ y.installed = {} /\ y.error = FALSE
  BY DEF NoTx
<1>3. CacheParts \subseteq Component /\ \A c \in CacheParts : NoImage[c] = None
  BY DEF CacheParts, Component, NoImage
<1>4. IsTx(y)
  BY <1>1, <1>2, <1>3 DEF IsTx, IsImage, NoImage
<1>5. AtCacheSwap(y, d)
  BY <1>2, <1>3 DEF AtCacheSwap
<1>6. QED
  BY <1>4, <1>5

LEMMA CacheSwapFits ==
  ASSUME NEW x, IsTx(x), NEW d, IsImage(d), AtCacheSwap(x, d), x.todo # {}, NEW c, c = First(x.todo),
         NEW y, y = TxCache(x, d, c),
         NEW e, e = DataCache(d, c)
  PROVE  IsTx(y) /\ IsImage(e) /\ AtCacheSwap(y, e) /\ \A b \in DataParts : e[b] = d[b]
<1>1. c \in x.todo /\ c \in Component /\ c \in CacheParts
  BY FirstIn DEF IsTx, AtCacheSwap
<1>2. y = [img |-> x.img, before |-> x.before, old |-> [x.old EXCEPT ![c] = d[c]],
           todo |-> x.todo \ {c}, changed |-> x.changed, installed |-> x.installed \cup {c},
           error |-> x.error]
  BY DEF IsTx, TxCache
<1>3. e = [b \in Component |-> IF b = c THEN "restored" ELSE d[b]]
  BY <1>1 DEF IsImage, DataCache
<1>4. y.old = [b \in Component |-> IF b = c THEN d[c] ELSE x.old[b]]
  <2>1. x.old = [b \in Component |-> x.old[b]]
    BY DEF IsTx, IsImage
  <2>2. y.old = [x.old EXCEPT ![c] = d[c]]
    BY <1>2
  <2>3. QED
    BY <2>1, <2>2
<1>5. y.img = x.img /\ y.before = x.before /\ y.todo = x.todo \ {c} /\ y.changed = x.changed
      /\ y.installed = x.installed \cup {c} /\ y.error = x.error
  BY <1>2
<1>6. IsTx(y) /\ IsImage(e)
  BY <1>1, <1>2, <1>3, <1>4, <1>5 DEF IsTx, IsImage
<1>7. CacheParts \subseteq Component
  BY DEF CacheParts, Component
<1>8. AtCacheSwap(y, e)
  <2>1. y.todo \subseteq CacheParts /\ y.installed = CacheParts \ y.todo
    BY <1>1, <1>5 DEF AtCacheSwap
  <2>2. \A b \in y.todo : e[b] = y.before[b] /\ y.old[b] = None
    BY <1>3, <1>4, <1>5, <1>7 DEF AtCacheSwap
  <2>3. \A b \in CacheParts \ y.todo : y.old[b] = y.before[b]
    BY <1>1, <1>4, <1>5, <1>7 DEF AtCacheSwap
  <2>4. QED
    BY <2>1, <2>2, <2>3 DEF AtCacheSwap
<1>9. \A b \in DataParts : e[b] = d[b]
  BY <1>1, <1>3 DEF DataParts
<1>10. QED
  BY <1>6, <1>8, <1>9

\* What could not be put back is still in its safety copy.
LEMMA CacheSwapFailsFits ==
  ASSUME NEW x, IsTx(x), NEW d, IsImage(d), AtCacheSwap(x, d), x.todo # {}, NEW c, c = First(x.todo),
         NEW old, old = x.old \/ old = [x.old EXCEPT ![c] = d[c]],
         NEW stuck, NEW moved, moved = Movable(old, stuck),
         NEW back \in SUBSET moved,
         NEW y, y = TxUndone(x, old, back),
         NEW e, e = DataUndone(x, d, old, stuck, back)
  PROVE  IsTx(y) /\ IsImage(e) /\ KeptIn(y, e, CacheParts) /\ \A b \in DataParts : e[b] = d[b]
<1>1. c \in x.todo /\ c \in Component /\ c \in CacheParts
  BY FirstIn DEF IsTx, AtCacheSwap
<1>2. y = [img |-> x.img, before |-> x.before,
           old |-> [b \in Component |-> IF b \in back THEN None ELSE old[b]],
           todo |-> x.todo, changed |-> x.changed, installed |-> x.installed, error |-> x.error]
  BY DEF IsTx, TxUndone
<1>3. y.before = x.before /\ y.old = [b \in Component |-> IF b \in back THEN None ELSE old[b]]
      /\ y.img = x.img /\ y.todo = x.todo /\ y.changed = x.changed /\ y.installed = x.installed
      /\ y.error = x.error
  BY <1>2
<1>4. IsTx(y) /\ IsImage(e)
  BY <1>2, <1>3 DEF IsTx, IsImage, DataUndone
<1>01. moved = {b \in CacheParts : old[b] # None /\ b \notin stuck}
  BY DEF Movable
<1>0. e = [b \in Component |-> IF b \in back THEN old[b]
                              ELSE IF b \in moved \cup (x.installed \ stuck) THEN None ELSE d[b]]
  BY DEF DataUndone
<1>5. CacheParts \subseteq Component /\ \A b \in DataParts : b \in Component /\ b \notin CacheParts
  BY DEF CacheParts, Component, DataParts
<1>6. \A b \in CacheParts : old[b] = x.before[b] \/ (b \in x.todo /\ old[b] = None /\ d[b] = x.before[b])
  <2>1. x.old = [b \in Component |-> x.old[b]]
    BY DEF IsTx, IsImage
  <2>2. \A b \in CacheParts : old[b] = x.old[b] \/ (b = c /\ old[b] = d[c])
    BY <1>1, <1>5, <2>1
  <2>3. QED
    BY <1>1, <2>2 DEF AtCacheSwap
<1>7. ASSUME NEW b \in CacheParts, x.before[b] # None PROVE x.before[b] \in {e[b], y.old[b]}
  <2>1. CASE b \in back
    <3>1. old[b] # None
      BY <1>01, <2>1
    <3>2. QED
      BY <1>0, <1>5, <1>6, <2>1, <3>1
  <2>2. CASE b \notin back /\ old[b] = x.before[b]
    BY <1>3, <1>5, <2>2
  <2>3. CASE b \notin back /\ b \in x.todo /\ old[b] = None /\ d[b] = x.before[b]
    <3>1. b \notin moved /\ b \notin x.installed
      BY <1>01, <2>3 DEF AtCacheSwap
    <3>2. QED
      BY <1>0, <1>5, <2>3, <3>1
  <2>4. QED
    BY <1>6, <2>1, <2>2, <2>3
<1>8. \A b \in DataParts : e[b] = d[b]
  BY <1>0, <1>01, <1>5 DEF AtCacheSwap
<1>9. QED
  BY <1>3, <1>4, <1>7, <1>8 DEF KeptIn

\* Whatever is exchanged, the originals are kept.
LEMMA CacheKept ==
  ASSUME NEW x, NEW d, AtCacheSwap(x, d)
  PROVE  KeptIn(x, d, CacheParts)
BY DEF AtCacheSwap, KeptIn

-----------------------------------------------------------------------------
(* The invariant of the restores.                                          *)

\* Which places tell what a request asked for, and where it has a transaction.
Placed(q) ==
  /\ pc[q] = "new" <=> kind[q] = None
  /\ kind[q] \notin RestoreKinds => tx[q] = NoTx
  /\ pc[q] \in {"extract", "respond", "swap", "install", "rollback"} => kind[q] = "restore"
  /\ pc[q] \in {"cache-extract", "cache-swap"} => kind[q] = "cache-restore"
  /\ pc[q] \in {"create", "secure", "pack", "encrypt"} => kind[q] # "cache-restore"
  /\ pc[q] \in {"report", "artifact", "collect", "store", "link"} => kind[q] \notin RestoreKinds
  /\ pc[q] \in {"extract", "cache-extract"} => tx[q] = NoTx
  /\ pc[q] \notin {"swap", "install", "rollback", "cache-swap", "done", "lost"} => Fresh(tx[q])

Exchanged(q) ==
  /\ kind[q] \in RestoreKinds /\ result[q] # "finished" => KeptIn(tx[q], live, Scope(q))
  /\ pc[q] = "swap" => AtSwap(tx[q], live)
  /\ pc[q] = "install" => AtInstall(tx[q], live)
  /\ pc[q] = "rollback" => AtRollBack(tx[q], live)
  /\ pc[q] = "cache-swap" => AtCacheSwap(tx[q], live)
  /\ kind[q] = "restore" /\ pc[q] = "done" =>
       /\ result[q] = "failed" /\ ~tx[q].error => Untouched(tx[q], live)
       /\ result[q] = "finished" => Installed(tx[q], live)

ExchangeTypes ==
  /\ IsImage(live) /\ tx = [q \in Req |-> tx[q]]
  /\ \A q \in Req : IsTx(tx[q])

ExchangeInv ==
  /\ ExchangeTypes
  /\ \A q \in Req : Placed(q) /\ Exchanged(q)

\* No two restores of one kind.
LEMMA OneOfAKind ==
  ASSUME Types, NEW p \in Req, NEW q \in Req, kind[p] = kind[q], kind[p] \in RestoreKinds
  PROVE  p = q
BY RestoreAssumption DEF Types, RestoreKinds, None

\* What a step of a restore leaves to the other one.
LEMMA OthersKept ==
  ASSUME Types, ExchangeInv, NEW r \in Req, NEW q \in Req,
         pc'[q] = pc[q] \/ (pc[q] # "new" /\ pc'[q] = "lost"),
         kind'[q] = kind[q], result'[q] = result[q], tx'[q] = tx[q],
         \/ live' = live
         \/ kind[r] = "restore" /\ q # r /\ \A c \in CacheParts : live'[c] = live[c]
         \/ kind[r] = "cache-restore" /\ q # r /\ \A c \in DataParts : live'[c] = live[c]
  PROVE  Placed(q)' /\ Exchanged(q)'
<1>1. Placed(q) /\ Exchanged(q)
  BY DEF ExchangeInv
<1>2. Placed(q)'
  BY <1>1 DEF Placed
<1>3. CASE kind[q] \notin RestoreKinds
  BY <1>1, <1>2, <1>3 DEF Placed, Exchanged, RestoreKinds
<1>4. CASE live' = live
  <2>1. CASE pc'[q] = pc[q]
    BY <1>1, <1>2, <1>4, <2>1
       DEF Exchanged, Scope, KeptIn, AtSwap, AtInstall, AtRollBack, AtCacheSwap, Forward, Saved,
           Untouched, Installed
  <2>2. CASE pc'[q] = "lost"
    BY <1>1, <1>2, <1>4, <2>2 DEF Exchanged, Scope, KeptIn
  <2>3. QED
    BY <2>1, <2>2
<1>5. CASE kind[q] = "restore" /\ live' # live
  <2>1. \A c \in DataParts : live'[c] = live[c]
    BY <1>5, OneOfAKind DEF RestoreKinds
  <2>2. First(tx[q].todo) = First(tx'[q].todo)
    OBVIOUS
  <2>3. QED
    BY <1>1, <1>2, <1>5, <2>1
       DEF Exchanged, Placed, Scope, KeptIn, AtSwap, AtInstall, AtRollBack, Forward, Saved, Untouched,
           Installed, DataParts
<1>6. CASE kind[q] = "cache-restore" /\ live' # live
  <2>1. \A c \in CacheParts : live'[c] = live[c]
    BY <1>6, OneOfAKind DEF RestoreKinds
  <2>2. QED
    BY <1>1, <1>2, <1>6, <2>1 DEF Exchanged, Placed, Scope, KeptIn, AtCacheSwap
<1>7. QED
  BY <1>3, <1>4, <1>5, <1>6 DEF RestoreKinds

\* A step of one request keeps the invariant if it keeps it for that request.
LEMMA StepFits ==
  ASSUME Types, ExchangeInv, NEW r \in Req, NEW y, IsTx(y), tx' = [tx EXCEPT ![r] = y],
         \A q \in Req \ {r} : /\ pc'[q] = pc[q] \/ (pc[q] # "new" /\ pc'[q] = "lost")
                              /\ kind'[q] = kind[q] /\ result'[q] = result[q],
         IsImage(live)',
         \/ live' = live
         \/ kind[r] = "restore" /\ \A c \in CacheParts : live'[c] = live[c]
         \/ kind[r] = "cache-restore" /\ \A c \in DataParts : live'[c] = live[c],
         Placed(r)', Exchanged(r)'
  PROVE  ExchangeInv'
<1>1. tx = [q \in Req |-> tx[q]] /\ \A q \in Req : IsTx(tx[q])
  BY DEF ExchangeInv, ExchangeTypes
<1>2. tx' = [q \in Req |-> IF q = r THEN y ELSE tx[q]]
  BY <1>1
<1>3. ExchangeTypes'
  <2>1. \A q \in Req : IsTx(tx'[q])
    <3> SUFFICES ASSUME NEW q \in Req PROVE IsTx(tx'[q])
      OBVIOUS
    <3>1. CASE q = r
      <4>1. tx'[q] = y
        BY <1>2, <3>1
      <4>2. QED
        BY <4>1
    <3>2. CASE q # r
      <4>1. tx'[q] = tx[q]
        BY <1>2, <3>2
      <4>2. QED
        BY <1>1, <4>1
    <3>3. QED
      BY <3>1, <3>2
  <2>2. QED
    BY <1>2, <2>1 DEF ExchangeTypes
<1>4. ASSUME NEW q \in Req \ {r} PROVE Placed(q)' /\ Exchanged(q)'
  <2>1. tx'[q] = tx[q]
    BY <1>2
  <2>2. QED
    BY <2>1, OthersKept
<1>5. QED
  BY <1>3, <1>4 DEF ExchangeInv

\* A step of a request that touches neither the data nor its transaction.
LEMMA QuietKept ==
  ASSUME Types, ExchangeInv, NEW r \in Req, UNCHANGED <<live, tx>>,
         \A q \in Req \ {r} : pc'[q] = pc[q] /\ kind'[q] = kind[q] /\ result'[q] = result[q],
         Fresh(tx[r]),
         Placed(r)', pc'[r] \notin {"swap", "install", "rollback", "cache-swap"},
         pc'[r] = "done" /\ kind'[r] = "restore" => result'[r] # "finished"
  PROVE  ExchangeInv'
<1>1. IsTx(tx[r]) /\ IsImage(live) /\ tx' = [tx EXCEPT ![r] = tx[r]] /\ tx' = tx /\ live' = live
  BY DEF ExchangeInv, ExchangeTypes
<1>2. tx[r].before = NoImage
  BY DEF Fresh, NoTx
<1>3. \A c \in Component : NoImage[c] = None
  BY DEF NoImage
<1>4. \A S \in SUBSET Component : KeptIn(tx'[r], live', S)
  BY <1>1, <1>2, <1>3 DEF KeptIn
<1>5. Scope(r)' \subseteq Component
  BY DEF Scope, CacheParts, Component
<1>6. Untouched(tx'[r], live')
  BY <1>1, <1>2 DEF Untouched
<1>7. Exchanged(r)'
  BY <1>4, <1>5, <1>6 DEF Exchanged
<1>8. IsImage(live)'
  BY <1>1 DEF IsImage
<1>9. QED
  BY <1>1, <1>7, <1>8, StepFits

\* A thread that works on an artifact or has not copied yet.
Quiet == {"create", "secure", "pack", "encrypt", "report", "artifact", "collect", "store", "link",
          "extract", "cache-extract", "respond"}

LEMMA GoesOnKept ==
  ASSUME Types, ExchangeInv, NEW r \in Req, UNCHANGED <<live, tx>>, pc[r] \in Quiet,
         NEW p, pc' = [pc EXCEPT ![r] = p], kind' = kind,
         \A q \in Req \ {r} : result'[q] = result[q],
         \/ p \in {"create", "secure", "pack", "encrypt"} /\ kind[r] # "cache-restore"
         \/ p \in {"artifact", "collect", "store", "report"} /\ kind[r] \notin RestoreKinds
         \/ p = "respond" /\ kind[r] = "restore"
         \/ p = "done" /\ (kind[r] = "restore" => result'[r] # "finished")
  PROVE  ExchangeInv'
<1>1. Placed(r) /\ Fresh(tx[r]) /\ tx' = tx
  BY DEF ExchangeInv, Placed, Quiet
<1>2. pc'[r] = p /\ \A q \in Req \ {r} : pc'[q] = pc[q]
  BY DEF Types
<1>3. Placed(r)'
  <2>1. kind[r] # None
    BY <1>1 DEF Placed, Quiet
  <2>2. QED
    BY <1>1, <1>2, <2>1 DEF Placed, RestoreKinds
<1>4. QED
  BY <1>1, <1>2, <1>3, QuietKept

\* A request that begins, or is refused.
LEMMA BeginsKept ==
  ASSUME Types, ExchangeInv, NEW r \in Req, UNCHANGED <<live, tx>>, pc[r] = "new",
         NEW p, pc' = [pc EXCEPT ![r] = p], NEW what \in Kinds, kind' = [kind EXCEPT ![r] = what],
         \A q \in Req \ {r} : result'[q] = result[q],
         \/ p \in {"create", "artifact", "link"} /\ what \notin RestoreKinds
         \/ p = "extract" /\ what = "restore"
         \/ p = "cache-extract" /\ what = "cache-restore"
         \/ p = "done" /\ result'[r] = "refused"
  PROVE  ExchangeInv'
<1>1. Placed(r) /\ tx[r] = NoTx /\ Fresh(tx[r]) /\ tx' = tx
  <2>1. Placed(r) /\ Fresh(tx[r]) /\ kind[r] = None
    BY DEF ExchangeInv, Placed
  <2>2. QED
    BY <2>1 DEF Placed, RestoreKinds, None
<1>2. pc'[r] = p /\ \A q \in Req \ {r} : pc'[q] = pc[q]
  BY DEF Types
<1>3. kind'[r] = what /\ \A q \in Req \ {r} : kind'[q] = kind[q]
  BY DEF Types
<1>4. what # None
  BY DEF Kinds, TaskKinds, None
<1>5. Placed(r)'
  BY <1>1, <1>2, <1>3, <1>4 DEF Placed, RestoreKinds
<1>6. QED
  BY <1>1, <1>2, <1>3, <1>5, QuietKept

LEMMA CreateStepExchange ==
  ASSUME Types, ExchangeInv, NEW r \in Req, CreateStep(r), UNCHANGED tx
  PROVE  ExchangeInv'
<1>0. Placed(r) /\ live' = live /\ kind' = kind
  BY DEF ExchangeInv, CreateStep, Create, Secure, Pack, Encrypt, Report, CreateFails, disk
<1>1. CASE Create(r) \/ Secure(r) \/ Pack(r)
  <2>1. pc[r] \in {"create", "secure", "pack"} /\ result' = result
        /\ \E p \in {"secure", "pack", "encrypt"} : pc' = [pc EXCEPT ![r] = p]
    BY <1>1 DEF Create, Secure, Pack, Goto
  <2>2. QED
    BY <1>0, <2>1, GoesOnKept DEF Placed, Quiet
<1>2. CASE Encrypt(r)
  <2>1. pc[r] = "encrypt" /\ result' = result
        /\ pc' = [pc EXCEPT ![r] = IF kind[r] = "restore" THEN "respond" ELSE "report"]
    BY <1>2 DEF Encrypt, Goto
  <2>2. QED
    BY <1>0, <2>1, GoesOnKept DEF Placed, Quiet, RestoreKinds
<1>3. CASE Report(r) \/ CreateFails(r)
  <2>1. PICK how : End(r, how) /\ (how = "failed" \/ pc[r] = "report")
    BY <1>3 DEF Report, CreateFails
  <2>2. pc[r] \in Quiet /\ pc' = [pc EXCEPT ![r] = "done"] /\ result' = [result EXCEPT ![r] = how]
    BY <1>3, <2>1 DEF Report, CreateFails, Creating, End, Goto, Quiet
  <2>3. result'[r] = how /\ \A q \in Req \ {r} : result'[q] = result[q]
    BY <2>2 DEF Types
  <2>4. kind[r] = "restore" => result'[r] # "finished"
    BY <1>0, <2>1, <2>3 DEF Placed, RestoreKinds
  <2>5. QED
    BY <1>0, <2>2, <2>3, <2>4, GoesOnKept
<1>4. QED
  BY <1>1, <1>2, <1>3 DEF CreateStep

LEMMA SetStepExchange ==
  ASSUME Types, ExchangeInv, NEW r \in Req, SetStep(r), UNCHANGED tx
  PROVE  ExchangeInv'
<1>1. live' = live /\ kind' = kind /\ pc[r] \in {"artifact", "collect", "store"}
  BY DEF SetStep, SkipArtifact, BeginArtifact, Collect, Store, ArtifactFails, FinishSet, disk
<1>2. kind[r] \notin RestoreKinds
  BY <1>1 DEF ExchangeInv, Placed
<1>3. \E p \in {"artifact", "collect", "store", "done"} : pc' = [pc EXCEPT ![r] = p]
  <2>1. CASE SkipArtifact(r)
    BY <2>1 DEF SkipArtifact, Types
  <2>2. CASE ~SkipArtifact(r)
    BY <2>2 DEF SetStep, BeginArtifact, Collect, Store, ArtifactFails, FinishSet, End, Goto
  <2>3. QED
    BY <2>1, <2>2
<1>4. \A q \in Req \ {r} : result'[q] = result[q]
  BY DEF Types, SetStep, SkipArtifact, BeginArtifact, Collect, Store, ArtifactFails, FinishSet, End
<1>5. QED
  BY <1>1, <1>2, <1>3, <1>4, GoesOnKept DEF Quiet, RestoreKinds

LEMMA UsersExchange ==
  ASSUME Types, ExchangeInv, Users
  PROVE  ExchangeInv'
<1>1. ASSUME NEW r \in Req, NEW label,
             \/ StartManagerBackup(r, label)
             \/ \E plan : StartCacheBackup(r, label, plan) \/ StartCacheBackupSync(r, label, plan)
             \/ Upload(r)
      PROVE  ExchangeInv'
  <2>1. PICK what \in {"manager", "cache", "cache-sync", "upload"} : Ask(r, what)
    BY <1>1, SMTT(30) DEF StartManagerBackup, StartCacheBackup, StartCacheBackupSync, Upload
  <2>2. \/ Refuse(r)
        \/ UNCHANGED <<live, result>> /\ \E p \in {"create", "artifact", "link"} : Goto(r, p)
    BY <1>1 DEF StartManagerBackup, StartCacheBackup, StartCacheBackupSync, Upload, BeginSet, disk
  <2>3. CASE Refuse(r)
    <3>1. pc' = [pc EXCEPT ![r] = "done"] /\ result'[r] = "refused" /\ live' = live
          /\ \A q \in Req \ {r} : result'[q] = result[q]
      BY <2>3 DEF Refuse, Goto, Types
    <3>2. QED
      BY <2>1, <3>1, BeginsKept DEF Ask, Users, Kinds, TaskKinds
  <2>4. CASE ~Refuse(r)
    BY <2>1, <2>2, <2>4, BeginsKept DEF Ask, Users, Goto, Kinds, TaskKinds, RestoreKinds
  <2>5. QED
    BY <2>3, <2>4
<1>2. ASSUME NEW r \in Req, UploadFails(r) \/ \E n, state : LinkUpload(r, n, Foreign, state)
      PROVE  ExchangeInv'
  <2>1. pc[r] = "link" /\ pc' = [pc EXCEPT ![r] = "done"] /\ UNCHANGED <<kind, live>>
    BY <1>2 DEF UploadFails, LinkUpload, End, Goto
  <2>2. \A q \in Req \ {r} : result'[q] = result[q]
    BY <1>2 DEF UploadFails, LinkUpload, End, Types
  <2>3. kind[r] # "restore"
    BY <2>1 DEF ExchangeInv, Placed, RestoreKinds
  <2>4. QED
    BY <2>1, <2>2, <2>3, GoesOnKept DEF Users, Quiet
<1>3. ASSUME NEW n, DeleteBackup(n) PROVE ExchangeInv'
  <2>1. UNCHANGED <<kind, pc, result, live, tx>>
    BY <1>3 DEF DeleteBackup, Users
  <2>2. \A q \in Req : Placed(q)' /\ Exchanged(q)'
    BY <2>1, OthersKept
  <2>3. ExchangeTypes'
    BY <2>1 DEF ExchangeInv, ExchangeTypes, IsImage, IsTx
  <2>4. QED
    BY <2>2, <2>3 DEF ExchangeInv
<1>4. QED
  BY <1>1, <1>2, <1>3 DEF Users, StartRequest

-----------------------------------------------------------------------------
(* The steps of the restores.                                              *)

\* A step of a restore that goes on in the exchange, or ends.
LEMMA ExchangeFits ==
  ASSUME Types, ExchangeInv, NEW r \in Req, NEW y, IsTx(y), tx' = [tx EXCEPT ![r] = y],
         kind' = kind, NEW p, pc' = [pc EXCEPT ![r] = p],
         \A q \in Req \ {r} : result'[q] = result[q],
         NEW e, live' = e, IsImage(e),
         \/ /\ kind[r] = "restore" /\ \A c \in CacheParts : e[c] = live[c]
            /\ result'[r] # "finished" /\ KeptIn(y, e, DataParts)
            /\ \/ p = "swap" /\ AtSwap(y, e)
               \/ p = "install" /\ AtInstall(y, e)
               \/ p = "rollback" /\ AtRollBack(y, e)
               \/ p = "done" /\ (result'[r] = "failed" /\ ~y.error => Untouched(y, e))
         \/ /\ kind[r] = "cache-restore" /\ \A c \in DataParts : e[c] = live[c]
            /\ KeptIn(y, e, CacheParts)
            /\ \/ p = "cache-swap" /\ AtCacheSwap(y, e)
               \/ p = "done"
  PROVE  ExchangeInv'
<1>1. tx'[r] = y /\ pc'[r] = p /\ kind'[r] = kind[r] /\ live' = e
  BY DEF ExchangeInv, ExchangeTypes, Types
<1>2. \A q \in Req \ {r} : pc'[q] = pc[q]
  BY DEF Types
<1>3. Placed(r)'
  BY <1>1 DEF Placed, RestoreKinds, None
<1>4. Exchanged(r)'
  BY <1>1 DEF Exchanged, RestoreKinds, Scope, DataParts
<1>5. QED
  BY <1>1, <1>2, <1>3, <1>4, StepFits

LEMMA RestoreBegins ==
  ASSUME RegistryInv, ExchangeInv, NEW r \in Req, Extract(r) \/ CacheExtract(r)
  PROVE  ExchangeInv'
<1>1. Types /\ IsImage(live) /\ Placed(r) /\ tx = [q \in Req |-> tx[q]]
  BY DEF RegistryInv, ExchangeInv, ExchangeTypes
<1>2. kind' = kind /\ live' = live /\ result' = result
  BY DEF Extract, CacheExtract
<1>3. result[r] = None
  BY DEF RegistryInv, Registry, Extract, CacheExtract
<1>4. CASE Extract(r)
  <2>1. PICK img : tx' = [tx EXCEPT ![r] = [NoTx EXCEPT !.img = img]]
    BY <1>4 DEF Extract, Tx
  <2> DEFINE z == [NoTx EXCEPT !.img = img]
  <2>0. PICK y : y = z
    OBVIOUS
  <2>2. y = [img |-> img, before |-> NoImage, old |-> NoImage, todo |-> {},
             changed |-> {}, installed |-> {}, error |-> FALSE]
    BY <2>0 DEF NoTx, z
  <2>3. y.img = img /\ y.before = NoImage /\ y.old = NoImage /\ y.todo = {} /\ y.changed = {}
        /\ y.installed = {} /\ y.error = FALSE
    BY <2>0 DEF NoTx, z
  <2>4. IsTx(y) /\ Fresh(y)
    <3>1. Fresh(y)
      BY <2>0, <2>3 DEF Fresh, z
    <3> HIDE DEF z
    <3>2. IsImage(NoImage)
      BY DEF IsImage, NoImage
    <3>3. IsTx(y)
      BY <2>2, <2>3, <3>2 DEF IsTx
    <3>4. QED
      BY <3>1, <3>3
  <2> HIDE DEF z
  <2>5. pc[r] = "extract" /\ pc' = [pc EXCEPT ![r] = "create"] /\ tx' = [tx EXCEPT ![r] = y]
    BY <1>4, <2>0, <2>1 DEF Extract, Goto, z
  <2>6. kind[r] = "restore"
    BY <1>1, <2>5 DEF Placed
  <2>7. pc'[r] = "create" /\ tx'[r] = y /\ \A q \in Req \ {r} : pc'[q] = pc[q]
    BY <1>1, <2>5 DEF Types
  <2>8. Placed(r)'
    BY <1>2, <2>4, <2>6, <2>7 DEF Placed, RestoreKinds, None
  <2>9. KeptIn(y, live, DataParts)
    BY <2>3 DEF KeptIn, NoImage, DataParts
  <2>10. Exchanged(r)'
    BY <1>2, <2>6, <2>7, <2>9 DEF Exchanged, Scope, DataParts, CacheParts
  <2>11. IsImage(live)'
    BY <1>1, <1>2 DEF IsImage
  <2>12. QED
    BY <1>1, <1>2, <2>4, <2>5, <2>7, <2>8, <2>10, <2>11, StepFits
<1>5. CASE CacheExtract(r)
  <2>1. PICK img : tx' = [tx EXCEPT ![r] = [NoTx EXCEPT !.img = img, !.before = live,
                                                        !.todo = CacheParts]]
    BY <1>5 DEF CacheExtract, Tx
  <2>2. PICK y : y = [NoTx EXCEPT !.img = img, !.before = live, !.todo = CacheParts]
    OBVIOUS
  <2>3. PICK d : d = live
    OBVIOUS
  <2>4. IsTx(y) /\ AtCacheSwap(y, d)
    BY <1>1, <2>2, <2>3, CacheBeginFits
  <2>5. pc[r] = "cache-extract" /\ pc' = [pc EXCEPT ![r] = "cache-swap"]
        /\ tx' = [tx EXCEPT ![r] = y]
    BY <1>5, <2>1, <2>2 DEF CacheExtract, Goto
  <2>6. kind[r] = "cache-restore"
    BY <1>1, <2>5 DEF Placed
  <2>7. KeptIn(y, d, CacheParts)
    BY <2>4, CacheKept
  <2>8. QED
    BY <1>1, <1>2, <2>3, <2>4, <2>5, <2>6, <2>7, ExchangeFits
<1>6. QED
  BY <1>4, <1>5

LEMMA RestoreEndsEarly ==
  ASSUME Types, ExchangeInv, NEW r \in Req, RestoreFails(r) \/ CopyFails(r)
  PROVE  ExchangeInv'
<1>1. pc' = [pc EXCEPT ![r] = "done"] /\ result' = [result EXCEPT ![r] = "failed"]
      /\ kind' = kind /\ live' = live
  BY DEF RestoreFails, CopyFails, End, Goto, disk
<1>2. result'[r] = "failed" /\ \A q \in Req \ {r} : result'[q] = result[q]
  BY <1>1 DEF Types
<1>3. CASE RestoreFails(r)
  <2>1. pc[r] \in {"extract", "cache-extract"} /\ tx' = tx
    BY <1>3 DEF RestoreFails, Extracting
  <2>2. QED
    BY <1>1, <1>2, <2>1, GoesOnKept DEF Quiet
<1>4. CASE CopyFails(r)
  <2>1. pc[r] = "respond" /\ tx' = [tx EXCEPT ![r] = NoTx]
    BY <1>4 DEF CopyFails, Tx
  <2>2. kind[r] = "restore" /\ IsImage(live)
    BY <2>1 DEF ExchangeInv, ExchangeTypes, Placed
  <2>3. PICK y : y = NoTx
    OBVIOUS
  <2>4. y = [img |-> NoImage, before |-> NoImage, old |-> NoImage, todo |-> {}, changed |-> {},
             installed |-> {}, error |-> FALSE]
    BY <2>3 DEF NoTx
  <2>5. y.before = NoImage /\ y.old = NoImage /\ y.todo = {} /\ y.changed = {}
        /\ y.installed = {} /\ y.error = FALSE /\ y.img = NoImage
    BY <2>4
  <2>6. IsTx(y)
    BY <2>4, <2>5 DEF IsTx, IsImage, NoImage
  <2>7. KeptIn(y, live, DataParts) /\ Untouched(y, live)
    BY <2>5 DEF KeptIn, Untouched, NoImage, DataParts
  <2>8. PICK e : e = live
    OBVIOUS
  <2>9. KeptIn(y, e, DataParts) /\ Untouched(y, e) /\ IsImage(e)
    BY <2>2, <2>7, <2>8
  <2>10. QED
    BY <1>1, <1>2, <2>1, <2>2, <2>3, <2>6, <2>8, <2>9, ExchangeFits
<1>5. QED
  BY <1>3, <1>4

\* The components are copied and exchanged one by one, or return one by one.
LEMMA SwapSteps ==
  ASSUME RegistryInv, ExchangeInv, NEW r \in Req,
         Copy(r) \/ SwapOut(r) \/ SwapIn(r) \/ SwapFails(r) \/ RollBack(r) \/ RollBackFails(r)
  PROVE  ExchangeInv'
<1>1. Types /\ Placed(r) /\ Exchanged(r) /\ tx = [q \in Req |-> tx[q]]
  BY DEF RegistryInv, ExchangeInv, ExchangeTypes
<1>2. pc[r] \in {"respond", "swap", "install", "rollback"} /\ kind' = kind /\ result' = result
  BY DEF Copy, SwapOut, SwapIn, SwapFails, RollBack, RollBackFails
<1>3. kind[r] = "restore" /\ result'[r] # "finished"
  <2>1. result[r] = None
    BY <1>2 DEF RegistryInv, Registry
  <2>2. QED
    BY <1>1, <1>2, <2>1 DEF Placed, None
<1>4. PICK x : x = tx[r]
  OBVIOUS
<1>5. PICK d : d = live
  OBVIOUS
<1>6. IsTx(x) /\ IsImage(d)
  BY <1>4, <1>5 DEF ExchangeInv, ExchangeTypes
<1>7. \A c \in CacheParts : c \in Component \ DataParts
  BY DEF DataParts, CacheParts, Component
<1>8. \A q \in Req \ {r} : result'[q] = result[q]
  BY <1>2
<1>9. CASE Copy(r)
  <2>1. PICK y : y = [x EXCEPT !.before = d,
                          !.todo = {c \in DataParts : x.img[c] # None}
                                     \cup {"notifications.json", "manager.db-wal"}]
    OBVIOUS
  <2>2. Scope(r) = DataParts
    BY <1>3 DEF Scope, DataParts
  <2>3. tx' = [tx EXCEPT ![r] = y] /\ pc' = [pc EXCEPT ![r] = "swap"] /\ live' = d /\ pc[r] = "respond"
    BY <1>4, <1>5, <1>9, <2>1, <2>2 DEF Copy, Tx, Goto
  <2>4. Fresh(x)
    BY <1>1, <1>4, <2>3 DEF Placed
  <2>5. IsTx(y) /\ AtSwap(y, d)
    BY <1>6, <2>1, <2>4, CopyFits
  <2>6. KeptIn(y, d, DataParts)
    BY <2>5 DEF AtSwap, Forward
  <2>7. QED
    BY <1>1, <1>2, <1>3, <1>5, <1>6, <1>8, <2>3, <2>5, <2>6, ExchangeFits
<1>10. CASE SwapOut(r)
  <2>1. PICK c : c = First(x.todo)
    OBVIOUS
  <2>2. PICK y : y = TxOut(x, d, c)
    OBVIOUS
  <2>3. PICK e : e = DataOut(d, c)
    OBVIOUS
  <2>4. tx' = [tx EXCEPT ![r] = y] /\ pc' = [pc EXCEPT ![r] = "install"] /\ live' = e
        /\ x.todo # {} /\ AtSwap(x, d)
    BY <1>1, <1>4, <1>5, <1>10, <2>1, <2>2, <2>3 DEF SwapOut, Current, Tx, Goto, Exchanged, TxOut, DataOut
  <2>5. IsTx(y) /\ IsImage(e) /\ AtInstall(y, e) /\ \A b \in Component \ DataParts : e[b] = d[b]
    BY <1>6, <2>1, <2>2, <2>3, <2>4, SwapOutFits
  <2>6. KeptIn(y, e, DataParts) /\ \A b \in CacheParts : e[b] = live[b]
    BY <1>5, <1>7, <2>5 DEF AtInstall, Forward
  <2>7. QED
    BY <1>1, <1>2, <1>3, <1>8, <2>4, <2>5, <2>6, ExchangeFits
<1>11. CASE SwapIn(r)
  <2>1. PICK c : c = First(x.todo)
    OBVIOUS
  <2>2. PICK y : y = TxIn(x, c)
    OBVIOUS
  <2>3. PICK e : e = DataIn(x, d, c)
    OBVIOUS
  <2>4. tx' = [tx EXCEPT ![r] = y] /\ pc' = [pc EXCEPT ![r] = "swap"] /\ live' = e /\ AtInstall(x, d)
    BY <1>1, <1>4, <1>5, <1>11, <2>1, <2>2, <2>3 DEF SwapIn, Current, Tx, Goto, Exchanged, TxIn, DataIn
  <2>5. IsTx(y) /\ IsImage(e) /\ AtSwap(y, e) /\ \A b \in Component \ DataParts : e[b] = d[b]
    BY <1>6, <2>1, <2>2, <2>3, <2>4, SwapInFits
  <2>6. KeptIn(y, e, DataParts) /\ \A b \in CacheParts : e[b] = live[b]
    BY <1>5, <1>7, <2>5 DEF AtSwap, Forward
  <2>7. QED
    BY <1>1, <1>2, <1>3, <1>8, <2>4, <2>5, <2>6, ExchangeFits
<1>12. CASE SwapFails(r)
  <2>1. pc' = [pc EXCEPT ![r] = "rollback"] /\ live' = d /\ tx' = [tx EXCEPT ![r] = x]
        /\ pc[r] \in {"swap", "install"}
    BY <1>1, <1>4, <1>5, <1>12 DEF SwapFails, Goto
  <2>2. Forward(x, d)
    BY <1>1, <1>4, <1>5, <2>1 DEF Exchanged, AtSwap, AtInstall
  <2>3. AtRollBack(x, d) /\ KeptIn(x, d, DataParts)
    BY <2>2 DEF Forward, AtRollBack
  <2>4. QED
    BY <1>1, <1>2, <1>3, <1>5, <1>6, <1>8, <2>1, <2>3, ExchangeFits
<1>13. CASE RollBack(r)
  <2>1. PICK c : c = Latest(x.changed)
    OBVIOUS
  <2>2. PICK y : y = TxBack(x, c)
    OBVIOUS
  <2>3. PICK e : e = DataBack(x, d, c)
    OBVIOUS
  <2>4. tx' = [tx EXCEPT ![r] = y] /\ pc' = [pc EXCEPT ![r] = "rollback"] /\ live' = e
        /\ x.changed # {} /\ AtRollBack(x, d)
    BY <1>1, <1>4, <1>5, <1>13, <2>1, <2>2, <2>3 DEF RollBack, Tx, Types, Exchanged, TxBack, DataBack
  <2>5. IsTx(y) /\ IsImage(e) /\ AtRollBack(y, e) /\ \A b \in Component \ DataParts : e[b] = d[b]
    BY <1>6, <2>1, <2>2, <2>3, <2>4, RollBackFits
  <2>6. KeptIn(y, e, DataParts) /\ \A b \in CacheParts : e[b] = live[b]
    BY <1>5, <1>7, <2>5 DEF AtRollBack
  <2>7. QED
    BY <1>1, <1>2, <1>3, <1>8, <2>4, <2>5, <2>6, ExchangeFits
<1>14. CASE RollBackFails(r)
  <2>1. PICK c : c = Latest(x.changed)
    OBVIOUS
  <2>2. PICK y : y = TxStuck(x, c)
    OBVIOUS
  <2>3. PICK e : live' = e
    OBVIOUS
  <2>4. tx' = [tx EXCEPT ![r] = y] /\ pc' = [pc EXCEPT ![r] = "rollback"]
        /\ x.changed # {} /\ AtRollBack(x, d)
    BY <1>1, <1>4, <1>5, <1>14, <2>1, <2>2 DEF RollBackFails, Tx, Types, Exchanged, TxStuck
  <2>5. e = d \/ e = DataOut(d, c)
    BY <1>4, <1>5, <1>14, <2>1, <2>3 DEF RollBackFails, DataOut
  <2>6. IsTx(y) /\ IsImage(e) /\ AtRollBack(y, e) /\ \A b \in Component \ DataParts : e[b] = d[b]
    BY <1>6, <2>1, <2>2, <2>4, <2>5, RollBackFailsFits
  <2>7. KeptIn(y, e, DataParts) /\ \A b \in CacheParts : e[b] = live[b]
    BY <1>5, <1>7, <2>6 DEF AtRollBack
  <2>8. QED
    BY <1>1, <1>2, <1>3, <1>8, <2>3, <2>4, <2>6, <2>7, ExchangeFits
<1>15. QED
  BY <1>9, <1>10, <1>11, <1>12, <1>13, <1>14

LEMMA SwapEnds ==
  ASSUME Types, ExchangeInv, NEW r \in Req, EndRollBack(r) \/ EndSwap(r)
  PROVE  ExchangeInv'
<1>1. Placed(r) /\ Exchanged(r) /\ tx = [q \in Req |-> tx[q]] /\ IsImage(live)
  BY DEF ExchangeInv, ExchangeTypes
<1>2. pc[r] \in {"rollback", "swap"} /\ kind' = kind /\ live' = live
  BY DEF EndRollBack, EndSwap, disk
<1>3. kind[r] = "restore"
  BY <1>1, <1>2 DEF Placed
<1>4. PICK x : x = tx[r]
  OBVIOUS
<1>5. PICK d : d = live
  OBVIOUS
<1>6. IsTx(x) /\ IsImage(d)
  BY <1>4, <1>5 DEF ExchangeInv, ExchangeTypes
<1>7. CASE EndRollBack(r)
  <2>1. PICK y : y = IF x.error THEN x ELSE [x EXCEPT !.old = NoImage]
    OBVIOUS
  <2>2. tx' = [tx EXCEPT ![r] = y] /\ pc' = [pc EXCEPT ![r] = "done"] /\ x.changed = {}
        /\ AtRollBack(x, d) /\ result' = [result EXCEPT ![r] = "failed"]
    BY <1>1, <1>4, <1>5, <1>7, <2>1 DEF EndRollBack, Tx, End, Goto, Exchanged
  <2>3. IsTx(y) /\ KeptIn(y, d, DataParts) /\ (~y.error => Untouched(y, d))
    BY <1>6, <2>1, <2>2, EndRollBackFits
  <2>4. result'[r] = "failed" /\ \A q \in Req \ {r} : result'[q] = result[q]
    BY <2>2 DEF Types
  <2>5. QED
    BY <1>2, <1>3, <1>5, <1>6, <2>2, <2>3, <2>4, ExchangeFits
<1>8. CASE EndSwap(r)
  <2>1. PICK y : y = [x EXCEPT !.old = NoImage]
    OBVIOUS
  <2>2. tx' = [tx EXCEPT ![r] = y] /\ x.todo = {} /\ AtSwap(x, d)
        /\ result' = [result EXCEPT ![r] = "finished"] /\ Gone({r}, temps \ TempsOf(r))
    BY <1>1, <1>4, <1>5, <1>8, <2>1 DEF EndSwap, Tx, Exchanged
  <2>3. IsTx(y) /\ Installed(y, d)
    BY <1>6, <2>1, <2>2, EndSwapFits
  <2>4. pc'[r] = "done" /\ tx'[r] = y /\ result'[r] = "finished" /\ kind'[r] = "restore" /\ live' = d
    BY <1>1, <1>2, <1>3, <1>5, <2>2 DEF Gone, Types
  <2>5. Placed(r)'
    BY <2>4 DEF Placed, RestoreKinds, None
  <2>6. Exchanged(r)'
    BY <2>3, <2>4 DEF Exchanged
  <2>7. \A q \in Req \ {r} : /\ pc'[q] = pc[q] \/ (pc[q] # "new" /\ pc'[q] = "lost")
                             /\ kind'[q] = kind[q] /\ result'[q] = result[q]
    BY <1>2, <2>2 DEF Gone, InProgress, Idle, Types
  <2>8. IsImage(live)'
    BY <1>1, <1>2 DEF IsImage
  <2>9. QED
    BY <1>2, <2>2, <2>3, <2>5, <2>6, <2>7, <2>8, StepFits
<1>9. QED
  BY <1>7, <1>8

LEMMA CacheSteps ==
  ASSUME Types, ExchangeInv, NEW r \in Req, CacheSwap(r) \/ CacheSwapFails(r) \/ EndCacheSwap(r)
  PROVE  ExchangeInv'
<1>1. Placed(r) /\ Exchanged(r) /\ tx = [q \in Req |-> tx[q]]
  BY DEF ExchangeInv, ExchangeTypes
<1>2. pc[r] = "cache-swap" /\ kind' = kind
  BY DEF CacheSwap, CacheSwapFails, EndCacheSwap
<1>3. kind[r] = "cache-restore"
  BY <1>1, <1>2 DEF Placed
<1>4. PICK x : x = tx[r]
  OBVIOUS
<1>5. PICK d : d = live
  OBVIOUS
<1>6. IsTx(x) /\ IsImage(d) /\ AtCacheSwap(x, d)
  BY <1>1, <1>2, <1>4, <1>5 DEF ExchangeInv, ExchangeTypes, Exchanged
<1>7. \A q \in Req \ {r} : result'[q] = result[q]
  BY DEF CacheSwap, CacheSwapFails, EndCacheSwap, End, Types
<1>8. CASE CacheSwap(r)
  <2>1. PICK c : c = First(x.todo)
    OBVIOUS
  <2>2. PICK y : y = TxCache(x, d, c)
    OBVIOUS
  <2>3. PICK e : e = DataCache(d, c)
    OBVIOUS
  <2>4. tx' = [tx EXCEPT ![r] = y] /\ live' = e /\ x.todo # {} /\ pc' = [pc EXCEPT ![r] = "cache-swap"]
    BY <1>2, <1>4, <1>5, <1>8, <2>1, <2>2, <2>3 DEF CacheSwap, Current, Tx, Types, TxCache, DataCache
  <2>5. IsTx(y) /\ IsImage(e) /\ AtCacheSwap(y, e) /\ \A b \in DataParts : e[b] = d[b]
    BY <1>6, <2>1, <2>2, <2>3, <2>4, CacheSwapFits
  <2>6. KeptIn(y, e, CacheParts)
    BY <2>5, CacheKept
  <2>7. QED
    BY <1>2, <1>3, <1>5, <1>7, <2>4, <2>5, <2>6, ExchangeFits
<1>9. CASE CacheSwapFails(r)
  <2>1. PICK c : c = First(x.todo)
    OBVIOUS
  <2>2. PICK out \in BOOLEAN, stuck \in SUBSET tx[r].installed :
          \E back \in SUBSET Movable(Previous(r, out), stuck) :
             /\ live' = DataUndone(tx[r], live, Previous(r, out), stuck, back)
             /\ tx' = [tx EXCEPT ![r] = TxUndone(tx[r], Previous(r, out), back)]
    BY <1>9 DEF CacheSwapFails, Tx
  <2>3. PICK old : old = Previous(r, out)
    OBVIOUS
  <2>4. PICK moved : moved = Movable(old, stuck)
    OBVIOUS
  <2>5. PICK back \in SUBSET moved :
          /\ live' = DataUndone(x, d, old, stuck, back)
          /\ tx' = [tx EXCEPT ![r] = TxUndone(x, old, back)]
    BY <1>4, <1>5, <2>2, <2>3, <2>4
  <2>6. PICK y : y = TxUndone(x, old, back)
    OBVIOUS
  <2>7. PICK e : e = DataUndone(x, d, old, stuck, back)
    OBVIOUS
  <2>8. x.todo # {} /\ pc' = [pc EXCEPT ![r] = "done"]
    BY <1>4, <1>9 DEF CacheSwapFails, End, Goto
  <2>9. IsTx(y) /\ IsImage(e) /\ KeptIn(y, e, CacheParts) /\ \A b \in DataParts : e[b] = d[b]
    <3>1. old = x.old \/ old = [x.old EXCEPT ![c] = d[c]]
      BY <1>4, <1>5, <2>1, <2>3 DEF Previous, Current
    <3>2. QED
      BY <1>6, <2>1, <2>4, <2>6, <2>7, <2>8, <3>1, CacheSwapFailsFits
  <2>10. QED
    BY <1>2, <1>3, <1>5, <1>7, <2>5, <2>6, <2>7, <2>8, <2>9, ExchangeFits
<1>10. CASE EndCacheSwap(r)
  <2>1. tx' = [tx EXCEPT ![r] = x] /\ live' = d /\ pc' = [pc EXCEPT ![r] = "done"]
    BY <1>1, <1>4, <1>5, <1>10 DEF EndCacheSwap, End, Goto
  <2>2. KeptIn(x, d, CacheParts)
    BY <1>6, CacheKept
  <2>3. QED
    BY <1>2, <1>3, <1>5, <1>6, <1>7, <2>1, <2>2, ExchangeFits
<1>11. QED
  BY <1>8, <1>9, <1>10

LEMMA ExchangeStep ==
  ASSUME RegistryInv, ExchangeInv, [Next]_vars
  PROVE  ExchangeInv'
<1>0. Types
  BY DEF RegistryInv
<1>1. ASSUME NEW r \in Req, Work(r) PROVE ExchangeInv'
  <2>1. CASE (CreateStep(r) \/ SetStep(r)) /\ UNCHANGED tx
    BY <1>0, <2>1, CreateStepExchange, SetStepExchange
  <2>2. CASE RestoreStep(r)
    BY <1>0, <2>2, RestoreBegins, RestoreEndsEarly, SwapSteps, SwapEnds, CacheSteps DEF RestoreStep
  <2>3. QED
    BY <1>1, <2>1, <2>2 DEF Work
<1>2. ASSUME NEW r \in Req, NEW n, NEW what \in Kinds, BeginRestore(r, what, n) PROVE ExchangeInv'
  <2>1. what \in RestoreKinds /\ Ask(r, what) /\ tx' = tx
    BY <1>2 DEF BeginRestore, RestoreKinds
  <2>2. CASE Refuse(r)
    <3>1. pc' = [pc EXCEPT ![r] = "done"] /\ result'[r] = "refused" /\ live' = live
          /\ \A q \in Req \ {r} : result'[q] = result[q]
      BY <1>0, <2>2 DEF Refuse, Goto, Types
    <3>2. QED
      BY <1>0, <2>1, <3>1, BeginsKept DEF Ask
  <2>3. CASE ~Refuse(r)
    <3>1. live' = live /\ result' = result
          /\ pc' = [pc EXCEPT ![r] = IF what = "restore" THEN "extract" ELSE "cache-extract"]
      BY <1>2, <2>3 DEF BeginRestore, Goto
    <3>2. QED
      BY <1>0, <2>1, <3>1, BeginsKept DEF Ask, RestoreKinds
  <2>4. QED
    BY <2>2, <2>3
<1>3. CASE Restart
  <2>1. live' = live /\ tx' = tx /\ kind' = kind /\ result' = result
    BY <1>3 DEF Restart
  <2>2. \A q \in Req : pc'[q] = pc[q] \/ (pc[q] # "new" /\ pc'[q] = "lost")
    BY <1>3 DEF Restart, Gone, InProgress, Idle
  <2>3. \A q \in Req : Placed(q)' /\ Exchanged(q)'
    BY <1>0, <2>1, <2>2, OthersKept
  <2>4. ExchangeTypes'
    BY <2>1 DEF ExchangeInv, ExchangeTypes, IsImage, IsTx
  <2>5. QED
    BY <2>3, <2>4 DEF ExchangeInv
<1>4. CASE UNCHANGED vars
  <2>1. UNCHANGED <<live, tx, kind, result, pc>>
    BY <1>4 DEF vars, backupVars
  <2>2. \A q \in Req : Placed(q)' /\ Exchanged(q)'
    BY <1>0, <2>1, OthersKept
  <2>3. ExchangeTypes'
    BY <2>1 DEF ExchangeInv, ExchangeTypes, IsImage, IsTx
  <2>4. QED
    BY <2>2, <2>3 DEF ExchangeInv
<1>5. QED
  BY <1>0, <1>1, <1>2, <1>3, <1>4, UsersExchange DEF Next

LEMMA InitExchange == Init => ExchangeInv
<1> SUFFICES ASSUME Init PROVE ExchangeInv
  OBVIOUS
<1>1. live \in Data /\ tx = [r \in Req |-> NoTx] /\ kind = [r \in Req |-> None]
      /\ pc = [r \in Req |-> "new"]
  BY DEF Init, InitBackups
<1>2. IsImage(live)
  BY <1>1, RequestAssumption DEF Image, IsImage
<1>3. IsTx(NoTx) /\ Fresh(NoTx)
  <2>1. IsImage(NoImage)
    BY DEF IsImage, NoImage
  <2>2. NoTx.old = NoImage /\ NoTx.todo = {} /\ NoTx.changed = {} /\ NoTx.installed = {}
        /\ NoTx.error = FALSE /\ NoTx.img = NoImage /\ NoTx.before = NoImage
    BY DEF NoTx
  <2>3. NoTx = [img |-> NoImage, before |-> NoImage, old |-> NoImage, todo |-> {},
                changed |-> {}, installed |-> {}, error |-> FALSE]
    BY DEF NoTx
  <2>4. IsTx(NoTx)
    BY <2>1, <2>2, <2>3 DEF IsTx
  <2>5. Fresh(NoTx)
    BY <2>2, <2>3 DEF Fresh, NoTx
  <2>6. QED
    BY <2>4, <2>5
<1>4. ExchangeTypes
  BY <1>1, <1>2, <1>3 DEF ExchangeTypes
<1>5. ASSUME NEW q \in Req PROVE Placed(q) /\ Exchanged(q)
  <2>1. kind[q] = None /\ pc[q] = "new" /\ tx[q] = NoTx
    BY <1>1
  <2>2. QED
    BY <1>3, <2>1 DEF Placed, Exchanged, RestoreKinds, None
<1>6. QED
  BY <1>4, <1>5 DEF ExchangeInv

-----------------------------------------------------------------------------
(* What a restore reads.                                                   *)

\* A backup of another manager, or of the data there was at first.
Genuine(img) == img = Foreign \/ \E d \in Data : img = ImageOf(d)

\* What a thread has collected of the data d when it is at p.
Draft(d, p, img) ==
  /\ p \in {"new", "create"} => img = NoImage
  /\ p = "secure" => img = [NoImage EXCEPT !["manager.db"] = d["manager.db"]]
  /\ p = "pack" => img = ImageOf(d)

\* The manager has its first data, and every backup of it holds them.
Pristine(d) ==
  /\ \A c \in Packed : live[c] = d[c]
  /\ \A n \in DOMAIN files : files[n].kind = "manager" => files[n].img \in {Foreign, ImageOf(d)}
  /\ \A r \in Req : Draft(d, pc[r], job[r].img)

\* No restore of the manager has read its backup yet.
Early == \A q \in Req : kind[q] = "restore" => pc[q] = "extract"

Reads(q) ==
  kind[q] = "restore" /\ pc[q] \notin {"extract", "lost"} /\ (pc[q] = "done" => result[q] = "finished")
    => Genuine(tx[q].img)

IsJob(j) ==
  /\ j = [stamp |-> j.stamp, label |-> j.label, img |-> j.img, plan |-> j.plan, made |-> j.made]
  /\ IsImage(j.img)
IsFile(f) == f = [by |-> f.by, kind |-> f.kind, img |-> f.img, state |-> f.state]

Shapes ==
  /\ job = [r \in Req |-> job[r]] /\ \A r \in Req : IsJob(job[r])
  /\ files = [n \in DOMAIN files |-> files[n]] /\ \A n \in DOMAIN files : IsFile(files[n])

ReadInv ==
  /\ Shapes
  /\ Early => \E d \in Data : Pristine(d)
  /\ \A q \in Req : Reads(q)

\* Where the backups come from that a step of request r leaves.
FilesFrom(r) ==
  /\ files' = [n \in DOMAIN files' |-> files'[n]]
  /\ \A n \in DOMAIN files' :
       /\ IsFile(files'[n])
       /\ files'[n].kind = "manager" =>
            \/ files'[n].img = Foreign
            \/ n \in DOMAIN files /\ files[n].kind = "manager" /\ files'[n].img = files[n].img
            \/ pc[r] = "pack" /\ files'[n].img = job[r].img

LEMMA SameFiles ==
  ASSUME Shapes, NEW r, UNCHANGED files
  PROVE  FilesFrom(r)
BY DEF Shapes, FilesFrom

LEMMA FewerFiles ==
  ASSUME Shapes, NEW r, NEW n, files' = Unlink(n)
  PROVE  FilesFrom(r)
<1>1. DOMAIN files' = DOMAIN files \ {n} /\ files' = [m \in DOMAIN files' |-> files'[m]]
      /\ \A m \in DOMAIN files' : files'[m] = files[m]
  BY DEF Unlink
<1>2. QED
  BY <1>1 DEF Shapes, FilesFrom

LEMMA NewFile ==
  ASSUME Shapes, NEW r, NEW n, NEW f, files' = Put(n, f), IsFile(f),
         f.kind = "manager" => f.img = Foreign \/ (pc[r] = "pack" /\ f.img = job[r].img)
  PROVE  FilesFrom(r)
<1>1. DOMAIN files' = DOMAIN files \cup {n} /\ files' = [m \in DOMAIN files' |-> files'[m]]
      /\ \A m \in DOMAIN files' : files'[m] = IF m = n THEN f ELSE files[m]
  BY DEF Put
<1>2. \A m \in DOMAIN files' : m # n => m \in DOMAIN files /\ files'[m] = files[m]
  BY <1>1
<1>3. n \in DOMAIN files' => files'[n] = f
  BY <1>1
<1>4. QED
  BY <1>1, <1>2, <1>3 DEF Shapes, FilesFrom

LEMMA OpenedFile ==
  ASSUME Shapes, NEW r, NEW n, NEW type, Opened(r, n, type), type # "manager" \/ pc[r] = "pack"
  PROVE  FilesFrom(r)
<1>1. PICK state : files' = Put(n, [by |-> r, kind |-> type, img |-> job[r].img, state |-> state])
  BY DEF Opened
<1>2. PICK f : f = [by |-> r, kind |-> type, img |-> job[r].img, state |-> state]
  OBVIOUS
<1>3. f.by = r /\ f.kind = type /\ f.img = job[r].img /\ f.state = state
  BY <1>2
<1>4. IsFile(f)
  BY <1>2, <1>3 DEF IsFile
<1>5. QED
  BY <1>1, <1>2, <1>3, <1>4, NewFile

LEMMA ClosedFile ==
  ASSUME Shapes, NEW r, NEW n \in DOMAIN files, Closed(r, n)
  PROVE  FilesFrom(r)
<1>1. CASE files' = files
  BY <1>1, SameFiles
<1>2. CASE files' = [files EXCEPT ![n].state = "whole", ![n].by = None]
  <2>1. PICK f : f = files[n]
    OBVIOUS
  <2>2. IsFile(f)
    BY <2>1 DEF Shapes
  <2>3. PICK g : g = [f EXCEPT !.state = "whole", !.by = None]
    OBVIOUS
  <2>4. g = [by |-> None, kind |-> f.kind, img |-> f.img, state |-> "whole"]
    BY <2>2, <2>3 DEF IsFile
  <2>5. g.by = None /\ g.kind = f.kind /\ g.img = f.img /\ g.state = "whole"
    BY <2>4
  <2>6. IsFile(g)
    BY <2>4, <2>5 DEF IsFile
  <2>7. files' = [files EXCEPT ![n] = g]
    BY <1>2, <2>1, <2>3 DEF Shapes
  <2>8. files' = [m \in DOMAIN files |-> IF m = n THEN g ELSE files[m]]
    BY <2>7 DEF Shapes
  <2>9. DOMAIN files' = DOMAIN files /\ files' = [m \in DOMAIN files' |-> files'[m]]
        /\ files'[n] = g /\ \A m \in DOMAIN files \ {n} : files'[m] = files[m]
    BY <2>8
  <2>10. QED
    BY <2>1, <2>5, <2>6, <2>9 DEF Shapes, FilesFrom
<1>3. QED
  BY <1>1, <1>2 DEF Closed

LEMMA ReadFits ==
  ASSUME Types, ReadInv, NEW r \in Req,
         NEW j, IsJob(j), job' = [job EXCEPT ![r] = j], FilesFrom(r),
         \A q \in Req \ {r} : /\ pc'[q] = pc[q] /\ kind'[q] = kind[q]
                              /\ result'[q] = result[q] /\ tx'[q] = tx[q],
         Early' => /\ Early
                   /\ \A c \in Packed : live'[c] = live[c]
                   /\ \A d \in Data : Pristine(d) => Draft(d, pc'[r], j.img),
         Reads(r)'
  PROVE  ReadInv'
<1>1. job = [q \in Req |-> job[q]] /\ \A q \in Req : IsJob(job[q])
  BY DEF ReadInv, Shapes
<1>2. job' = [q \in Req |-> IF q = r THEN j ELSE job[q]]
  BY <1>1
<1>3. job'[r] = j /\ \A q \in Req \ {r} : job'[q] = job[q]
  BY <1>2
<1>4. Shapes'
  <2>1. \A q \in Req : IsJob(job'[q])
    BY <1>1, <1>3
  <2>2. job' = [q \in Req |-> job'[q]]
    BY <1>2
  <2>3. QED
    BY <2>1, <2>2 DEF Shapes, FilesFrom
<1>5. ASSUME Early' PROVE \E d \in Data : Pristine(d)'
  <2>1. PICK d \in Data : Pristine(d)
    BY <1>5 DEF ReadInv
  <2>2. \A c \in Packed : live'[c] = d[c]
    BY <1>5, <2>1 DEF Pristine
  <2>3. pc[r] = "pack" => job[r].img = ImageOf(d)
    BY <2>1 DEF Pristine, Draft
  <2>4. \A n \in DOMAIN files' : files'[n].kind = "manager" => files'[n].img \in {Foreign, ImageOf(d)}
    BY <2>1, <2>3 DEF Pristine, FilesFrom
  <2>5. \A q \in Req : Draft(d, pc'[q], job'[q].img)
    BY <1>3, <1>5, <2>1 DEF Pristine
  <2>6. QED
    BY <2>2, <2>4, <2>5 DEF Pristine
<1>6. ASSUME NEW q \in Req PROVE Reads(q)'
  BY DEF ReadInv, Reads
<1>7. QED
  BY <1>4, <1>5, <1>6 DEF ReadInv

LEMMA BlankJob == IsJob(NoJob) /\ NoJob.img = NoImage
<1>1. IsImage(NoImage)
  BY DEF IsImage, NoImage
<1>2. PICK j : j = NoJob
  OBVIOUS
<1>3. j = [stamp |-> 0, label |-> None, img |-> NoImage, plan |-> <<>>, made |-> {}]
  BY <1>2 DEF NoJob
<1>4. j.stamp = 0 /\ j.label = None /\ j.img = NoImage /\ j.plan = <<>> /\ j.made = {}
  BY <1>3
<1>5. QED
  BY <1>1, <1>2, <1>3, <1>4 DEF IsJob

\* A request ends, not by a restore's success.
LEMMA ReadEnds ==
  ASSUME Types, ReadInv, NEW r \in Req, NEW how, End(r, how), FilesFrom(r), kind' = kind,
         \A q \in Req \ {r} : tx'[q] = tx[q],
         kind[r] # "restore" => \A c \in Packed : live'[c] = live[c],
         kind[r] = "restore" => how # "finished"
  PROVE  ReadInv'
<1>1. pc' = [pc EXCEPT ![r] = "done"] /\ result' = [result EXCEPT ![r] = how]
      /\ job' = [job EXCEPT ![r] = NoJob]
  BY DEF End, Goto
<1>2. pc'[r] = "done" /\ result'[r] = how
      /\ \A q \in Req \ {r} : pc'[q] = pc[q] /\ result'[q] = result[q]
  BY <1>1 DEF Types
<1>3. PICK j : j = NoJob
  OBVIOUS
<1>4. IsJob(j)
  BY <1>3, BlankJob
<1>5. Early' => /\ Early
                /\ \A c \in Packed : live'[c] = live[c]
                /\ \A d \in Data : Pristine(d) => Draft(d, pc'[r], j.img)
  <2> SUFFICES ASSUME Early' PROVE /\ Early
                                   /\ \A c \in Packed : live'[c] = live[c]
                                   /\ \A d \in Data : Pristine(d) => Draft(d, pc'[r], j.img)
    OBVIOUS
  <2>1. kind[r] # "restore"
    BY <1>2 DEF Early
  <2>2. Early
    BY <1>2, <2>1 DEF Early
  <2>3. QED
    BY <1>2, <2>1, <2>2 DEF Draft
<1>6. Reads(r)'
  BY <1>2 DEF Reads
<1>7. QED
  BY <1>1, <1>2, <1>3, <1>4, <1>5, <1>6, ReadFits

\* A request goes on.
LEMMA ReadGoes ==
  ASSUME Types, ReadInv, NEW r \in Req, NEW j, IsJob(j), job' = [job EXCEPT ![r] = j], FilesFrom(r),
         NEW p, pc' = [pc EXCEPT ![r] = p], kind' = kind, result' = result,
         \A q \in Req \ {r} : tx'[q] = tx[q],
         kind[r] # "restore" => /\ \A c \in Packed : live'[c] = live[c]
                                /\ \A d \in Data : Pristine(d) => Draft(d, p, j.img),
         kind[r] = "restore" => p # "extract" /\ Genuine(tx'[r].img)
  PROVE  ReadInv'
<1>1. pc'[r] = p /\ \A q \in Req \ {r} : pc'[q] = pc[q] /\ result'[q] = result[q] /\ kind'[q] = kind[q]
  BY DEF Types
<1>2. Early' => /\ Early
                /\ \A c \in Packed : live'[c] = live[c]
                /\ \A d \in Data : Pristine(d) => Draft(d, pc'[r], j.img)
  <2> SUFFICES ASSUME Early' PROVE /\ Early
                                   /\ \A c \in Packed : live'[c] = live[c]
                                   /\ \A d \in Data : Pristine(d) => Draft(d, pc'[r], j.img)
    OBVIOUS
  <2>1. kind[r] # "restore"
    BY <1>1 DEF Early
  <2>2. Early
    BY <1>1, <2>1 DEF Early
  <2>3. QED
    BY <1>1, <2>1, <2>2
<1>3. Reads(r)'
  BY <1>1 DEF Reads
<1>4. QED
  BY <1>1, <1>2, <1>3, ReadFits

\* A request begins, or is refused.
LEMMA ReadBegins ==
  ASSUME Types, ReadInv, NEW r \in Req, NEW j, IsJob(j), j.img = job[r].img, job' = [job EXCEPT ![r] = j],
         pc[r] = "new", kind[r] = None, UNCHANGED <<files, live, tx>>,
         NEW what \in Kinds, kind' = [kind EXCEPT ![r] = what],
         NEW p, pc' = [pc EXCEPT ![r] = p], \A q \in Req \ {r} : result'[q] = result[q],
         p \notin {"new", "secure", "pack"},
         what = "restore" => p = "extract" \/ (p = "done" /\ result'[r] # "finished")
  PROVE  ReadInv'
<1>1. pc'[r] = p /\ kind'[r] = what
      /\ \A q \in Req \ {r} : pc'[q] = pc[q] /\ result'[q] = result[q] /\ kind'[q] = kind[q]
                              /\ tx'[q] = tx[q]
  BY DEF Types
<1>2. Early' => Early
  BY <1>1 DEF Early, None
<1>3. \A d \in Data : Pristine(d) => Draft(d, pc'[r], j.img)
  BY <1>1 DEF Pristine, Draft
<1>4. Reads(r)'
  BY <1>1 DEF Reads
<1>5. FilesFrom(r)
  BY SameFiles DEF ReadInv
<1>6. QED
  BY <1>1, <1>2, <1>3, <1>4, <1>5, ReadFits

\* What a thread notes beside the data it collects.
Notes(r, st, lb, pl, md) ==
  \/ job' = job
  \/ job' = [job EXCEPT ![r].label = lb]
  \/ job' = [job EXCEPT ![r].plan = pl]
  \/ job' = [job EXCEPT ![r].plan = pl, ![r].label = lb]
  \/ job' = [job EXCEPT ![r].stamp = st, ![r].label = lb, ![r].plan = pl]
  \/ job' = [job EXCEPT ![r].plan = pl, ![r].made = @ \cup md]

LEMMA KeepsImage ==
  ASSUME Shapes, NEW r \in Req, NEW st, NEW lb, NEW pl, NEW md, Notes(r, st, lb, pl, md)
  PROVE  \E j : IsJob(j) /\ j.img = job[r].img /\ job' = [job EXCEPT ![r] = j]
<1>1. PICK x : x = job[r]
  OBVIOUS
<1>2. IsJob(x) /\ job = [q \in Req |-> job[q]]
  BY <1>1 DEF Shapes
<1>3. PICK j : /\ \/ j = x
                  \/ j = [x EXCEPT !.label = lb]
                  \/ j = [x EXCEPT !.plan = pl]
                  \/ j = [x EXCEPT !.plan = pl, !.label = lb]
                  \/ j = [x EXCEPT !.stamp = st, !.label = lb, !.plan = pl]
                  \/ j = [x EXCEPT !.plan = pl, !.made = @ \cup md]
               /\ job' = [job EXCEPT ![r] = j]
  BY <1>1, <1>2 DEF Notes
<1>4. \E a, b, e, f : j = [stamp |-> a, label |-> b, img |-> x.img, plan |-> e, made |-> f]
  <2>1. CASE j = x
    BY <1>2, <2>1 DEF IsJob
  <2>2. CASE j = [x EXCEPT !.label = lb]
    <3>1. j = [stamp |-> x.stamp, label |-> lb, img |-> x.img, plan |-> x.plan, made |-> x.made]
      BY <1>2, <2>2 DEF IsJob
    <3>2. QED
      BY <3>1
  <2>3. CASE j = [x EXCEPT !.plan = pl]
    <3>1. j = [stamp |-> x.stamp, label |-> x.label, img |-> x.img, plan |-> pl, made |-> x.made]
      BY <1>2, <2>3 DEF IsJob
    <3>2. QED
      BY <3>1
  <2>4. CASE j = [x EXCEPT !.plan = pl, !.label = lb]
    <3>1. j = [stamp |-> x.stamp, label |-> lb, img |-> x.img, plan |-> pl, made |-> x.made]
      BY <1>2, <2>4 DEF IsJob
    <3>2. QED
      BY <3>1
  <2>5. CASE j = [x EXCEPT !.stamp = st, !.label = lb, !.plan = pl]
    <3>1. j = [stamp |-> st, label |-> lb, img |-> x.img, plan |-> pl, made |-> x.made]
      BY <1>2, <2>5 DEF IsJob
    <3>2. QED
      BY <3>1
  <2>6. CASE j = [x EXCEPT !.plan = pl, !.made = @ \cup md]
    <3>1. j = [stamp |-> x.stamp, label |-> x.label, img |-> x.img, plan |-> pl,
               made |-> x.made \cup md]
      BY <1>2, <2>6 DEF IsJob
    <3>2. QED
      BY <3>1
  <2>7. QED
    BY <1>3, <2>1, <2>2, <2>3, <2>4, <2>5, <2>6
<1>5. PICK a, b, e, f : j = [stamp |-> a, label |-> b, img |-> x.img, plan |-> e, made |-> f]
  BY <1>4
<1>6. j.stamp = a /\ j.label = b /\ j.img = x.img /\ j.plan = e /\ j.made = f
  BY <1>5
<1>7. IsJob(j)
  BY <1>2, <1>5, <1>6 DEF IsJob
<1>8. QED
  BY <1>1, <1>3, <1>6, <1>7

\* A thread goes on without collecting any data.
LEMMA ReadGoesOn ==
  ASSUME Types, ReadInv, NEW r \in Req, FilesFrom(r),
         NEW pl, NEW md,
         \/ job' = job
         \/ job' = [job EXCEPT ![r].plan = pl]
         \/ job' = [job EXCEPT ![r].plan = pl, ![r].made = @ \cup md],
         NEW p, pc' = [pc EXCEPT ![r] = p], p \notin {"new", "create", "secure", "pack"},
         kind' = kind, result' = result,
         \A q \in Req \ {r} : tx'[q] = tx[q],
         kind[r] # "restore" => \A c \in Packed : live'[c] = live[c],
         kind[r] = "restore" => p # "extract" /\ Genuine(tx'[r].img)
  PROVE  ReadInv'
<1>1. Notes(r, 0, None, pl, md)
  BY DEF Notes
<1>2. PICK j : IsJob(j) /\ j.img = job[r].img /\ job' = [job EXCEPT ![r] = j]
  BY <1>1, KeepsImage DEF ReadInv
<1>3. \A d \in Data : Draft(d, p, j.img)
  BY DEF Draft
<1>4. QED
  BY <1>2, <1>3, ReadGoes

LEMMA CreateStepReads ==
  ASSUME Types, ExchangeInv, ReadInv, NEW r \in Req, CreateStep(r), UNCHANGED tx
  PROVE  ReadInv'
<1>1. live' = live /\ kind' = kind /\ tx' = tx /\ pc[r] \in Creating \cup {"report"} /\ Shapes
      /\ Reads(r) /\ Placed(r)
  BY DEF ReadInv, ExchangeInv, Creating, CreateStep, Create, Secure, Pack, Encrypt, Report, CreateFails, disk
<1>2. kind[r] = "restore" => Genuine(tx'[r].img)
  BY <1>1 DEF Reads, Creating
<1>3. PICK x : x = job[r]
  OBVIOUS
<1>4. IsJob(x) /\ job = [q \in Req |-> job[q]]
  BY <1>1, <1>3 DEF Shapes
<1>5. x.img = [c \in Component |-> x.img[c]]
  BY <1>4 DEF IsJob, IsImage
<1>6. CASE Create(r)
  <2>1. PICK now : job' = [job EXCEPT ![r].stamp = now, ![r].img["manager.db"] = live["manager.db"]]
    BY <1>6 DEF Create
  <2>2. PICK v : v = [x.img EXCEPT !["manager.db"] = live["manager.db"]]
    OBVIOUS
  <2>3. PICK j : j = [x EXCEPT !.stamp = now, !.img["manager.db"] = live["manager.db"]]
    OBVIOUS
  <2>4. job' = [job EXCEPT ![r] = j]
    BY <1>3, <1>4, <2>1, <2>3
  <2>5. j = [stamp |-> now, label |-> x.label, img |-> v, plan |-> x.plan, made |-> x.made]
    BY <1>4, <2>2, <2>3 DEF IsJob
  <2>6. j.stamp = now /\ j.label = x.label /\ j.img = v /\ j.plan = x.plan /\ j.made = x.made
    BY <2>5
  <2>7. IsJob(j)
    BY <1>5, <2>2, <2>5, <2>6 DEF IsJob, IsImage
  <2>8. pc[r] = "create" /\ pc' = [pc EXCEPT ![r] = "secure"] /\ result' = result /\ files' = files
    BY <1>6 DEF Create, Goto
  <2>9. ASSUME NEW d \in Data, Pristine(d) PROVE Draft(d, "secure", j.img)
    <3>1. x.img = NoImage /\ live["manager.db"] = d["manager.db"]
      BY <1>3, <2>8, <2>9 DEF Pristine, Draft, Packed
    <3>2. QED
      BY <2>2, <2>6, <3>1 DEF Draft
  <2>10. QED
    BY <1>1, <1>2, <2>4, <2>7, <2>8, <2>9, SameFiles, ReadGoes
<1>7. CASE Secure(r)
  <2>1. PICK v : v = [x.img EXCEPT !["settings.json"] = live["settings.json"],
                                   !["notifications.json"] = live["notifications.json"],
                                   !["security"] = live["security"]]
    OBVIOUS
  <2>2. PICK j : j = [x EXCEPT !.img = v]
    OBVIOUS
  <2>3. job' = [job EXCEPT ![r] = j]
    BY <1>3, <1>4, <1>7, <2>1, <2>2 DEF Secure, Set
  <2>4. j = [stamp |-> x.stamp, label |-> x.label, img |-> v, plan |-> x.plan, made |-> x.made]
    BY <1>4, <2>2 DEF IsJob
  <2>5. j.stamp = x.stamp /\ j.label = x.label /\ j.img = v /\ j.plan = x.plan /\ j.made = x.made
    BY <2>4
  <2>6. v = [c \in Component |-> IF c \in {"settings.json", "notifications.json", "security"}
                                 THEN live[c] ELSE x.img[c]]
    BY <1>5, <2>1 DEF Component
  <2>7. IsJob(j)
    BY <2>4, <2>5, <2>6 DEF IsJob, IsImage
  <2>8. pc[r] = "secure" /\ pc' = [pc EXCEPT ![r] = "pack"] /\ result' = result /\ files' = files
    BY <1>7 DEF Secure, Goto
  <2>9. ASSUME NEW d \in Data, Pristine(d) PROVE Draft(d, "pack", j.img)
    <3>1. x.img = [NoImage EXCEPT !["manager.db"] = d["manager.db"]]
          /\ \A c \in Packed : live[c] = d[c]
      BY <1>3, <2>8, <2>9 DEF Pristine, Draft
    <3>2. x.img = [c \in Component |-> IF c = "manager.db" THEN d["manager.db"] ELSE None]
      BY <3>1 DEF NoImage, Component
    <3>3. \A c \in Component : v[c] = IF c \in Packed THEN d[c] ELSE None
      BY <2>6, <3>1, <3>2 DEF Packed, Component
    <3>4. v = ImageOf(d)
      BY <2>6, <3>3 DEF ImageOf
    <3>5. QED
      BY <2>5, <3>4 DEF Draft
  <2>10. QED
    BY <1>1, <1>2, <2>3, <2>7, <2>8, <2>9, SameFiles, ReadGoes
<1>8. CASE Pack(r)
  <2>1. pc' = [pc EXCEPT ![r] = "encrypt"] /\ job' = job /\ result' = result
    BY <1>8 DEF Pack, Goto
  <2>2. FilesFrom(r)
    BY <1>1, <1>8, OpenedFile DEF Pack
  <2>3. QED
    BY <1>1, <1>2, <2>1, <2>2, ReadGoesOn
<1>9. CASE Encrypt(r)
  <2>1. PICK p \in {"respond", "report"} :
          pc' = [pc EXCEPT ![r] = p] /\ job' = job /\ result' = result
    BY <1>9 DEF Encrypt, Goto
  <2>2. FilesFrom(r)
    BY <1>1, <1>9, ClosedFile DEF Encrypt
  <2>3. QED
    BY <1>1, <1>2, <2>1, <2>2, ReadGoesOn
<1>10. CASE Report(r)
  <2>1. PICK how : End(r, how)
    BY <1>10 DEF Report
  <2>2. kind[r] # "restore" /\ files' = files
    BY <1>1, <1>10 DEF Report, disk, Placed, RestoreKinds
  <2>3. QED
    BY <1>1, <2>1, <2>2, SameFiles, ReadEnds
<1>11. CASE CreateFails(r)
  <2>1. End(r, "failed") /\ (files' = files \/ files' = Unlink(NameOf(r, "manager")))
    BY <1>11 DEF CreateFails
  <2>2. FilesFrom(r)
    BY <1>1, <2>1, SameFiles, FewerFiles
  <2>3. QED
    BY <1>1, <2>1, <2>2, ReadEnds
<1>12. QED
  BY <1>6, <1>7, <1>8, <1>9, <1>10, <1>11 DEF CreateStep

LEMMA SetStepReads ==
  ASSUME Types, ExchangeInv, ReadInv, NEW r \in Req, SetStep(r), UNCHANGED tx
  PROVE  ReadInv'
<1>1. live' = live /\ kind' = kind /\ tx' = tx /\ Shapes /\ pc[r] \in {"artifact", "collect", "store"}
  BY DEF ReadInv, SetStep, SkipArtifact, BeginArtifact, Collect, Store, ArtifactFails, FinishSet, disk
<1>2. kind[r] # "restore"
  BY <1>1 DEF ExchangeInv, Placed, RestoreKinds
<1>3. CASE SkipArtifact(r)
  <2>1. job' = [job EXCEPT ![r].plan = Rest(r)] /\ result' = result /\ files' = files
        /\ pc' = [pc EXCEPT ![r] = "artifact"]
    BY <1>3 DEF SkipArtifact, Set, disk, Types
  <2>2. QED
    BY <1>1, <1>2, <2>1, SameFiles, ReadGoesOn
<1>4. CASE BeginArtifact(r)
  <2>1. job' = job /\ result' = result /\ files' = files /\ pc' = [pc EXCEPT ![r] = "collect"]
    BY <1>4 DEF BeginArtifact, Goto
  <2>2. QED
    BY <1>1, <1>2, <2>1, SameFiles, ReadGoesOn
<1>5. CASE Collect(r)
  <2>1. job' = job /\ result' = result /\ pc' = [pc EXCEPT ![r] = "store"]
    BY <1>5 DEF Collect, Goto
  <2>2. FilesFrom(r)
    BY <1>1, <1>5, OpenedFile DEF Collect
  <2>3. QED
    BY <1>1, <1>2, <2>1, <2>2, ReadGoesOn
<1>6. CASE Store(r)
  <2>1. result' = result /\ pc' = [pc EXCEPT ![r] = "artifact"]
        /\ \/ job' = [job EXCEPT ![r].plan = Rest(r), ![r].made = @ \cup {HeadName(r)}]
           \/ job' = [job EXCEPT ![r].plan = Rest(r)]
    BY <1>6 DEF Store, Goto, Set
  <2>2. FilesFrom(r)
    BY <1>1, <1>6, ClosedFile, FewerFiles DEF Store
  <2>3. QED
    BY <1>1, <1>2, <2>1, <2>2, ReadGoesOn
<1>7. CASE ArtifactFails(r)
  <2>1. files' = files \/ files' = Unlink(HeadName(r))
    BY <1>7 DEF ArtifactFails
  <2>2. FilesFrom(r)
    BY <1>1, <2>1, SameFiles, FewerFiles
  <2>3. CASE End(r, "failed")
    BY <1>1, <2>2, <2>3, ReadEnds
  <2>4. CASE ~End(r, "failed")
    <3>1. job' = [job EXCEPT ![r].plan = Rest(r)] /\ result' = result
          /\ pc' = [pc EXCEPT ![r] = "artifact"]
      BY <1>7, <2>4 DEF ArtifactFails, Set, Goto
    <3>2. QED
      BY <1>1, <1>2, <2>2, <3>1, ReadGoesOn
  <2>5. QED
    BY <2>3, <2>4
<1>8. CASE FinishSet(r)
  <2>1. files' = files /\ \E how : End(r, how)
    BY <1>8 DEF FinishSet, disk
  <2>2. QED
    BY <1>1, <1>2, <2>1, SameFiles, ReadEnds
<1>9. QED
  BY <1>3, <1>4, <1>5, <1>6, <1>7, <1>8 DEF SetStep

LEMMA BeginReads ==
  ASSUME Types, ExchangeInv, ReadInv, NEW r \in Req, NEW what \in Kinds, Ask(r, what),
         UNCHANGED <<files, live, tx>>,
         \/ Refuse(r)
         \/ /\ result' = result
            /\ \/ what \notin RestoreKinds /\ \E p \in {"create", "artifact", "link"} : Goto(r, p)
               \/ what = "restore" /\ Goto(r, "extract")
               \/ what = "cache-restore" /\ Goto(r, "cache-extract")
            /\ \E st, lb, pl : Notes(r, st, lb, pl, {})
  PROVE  ReadInv'
<1>1. pc[r] = "new" /\ kind' = [kind EXCEPT ![r] = what] /\ kind[r] = None /\ Shapes
  BY DEF Ask, ExchangeInv, Placed, ReadInv
<1>2. CASE Refuse(r)
  <2>1. pc' = [pc EXCEPT ![r] = "done"] /\ job' = job /\ result'[r] = "refused"
        /\ \A q \in Req \ {r} : result'[q] = result[q]
    BY <1>2 DEF Refuse, Goto, Types
  <2>2. PICK j : IsJob(j) /\ j.img = job[r].img /\ job' = [job EXCEPT ![r] = j]
    BY <1>1, <2>1 DEF Shapes
  <2>3. QED
    BY <1>1, <2>1, <2>2, ReadBegins
<1>3. CASE ~Refuse(r)
  <2>1. PICK p \in {"create", "artifact", "link", "extract", "cache-extract"} :
          pc' = [pc EXCEPT ![r] = p] /\ (what = "restore" => p = "extract")
    BY <1>3 DEF Goto, RestoreKinds
  <2>2. PICK st, lb, pl : Notes(r, st, lb, pl, {})
    BY <1>3
  <2>3. PICK j : IsJob(j) /\ j.img = job[r].img /\ job' = [job EXCEPT ![r] = j]
    BY <1>1, <2>2, KeepsImage
  <2>4. \A q \in Req \ {r} : result'[q] = result[q]
    BY <1>3
  <2>5. p \notin {"new", "secure", "pack"}
        /\ (what = "restore" => p = "extract" \/ (p = "done" /\ result'[r] # "finished"))
    BY <2>1
  <2>6. QED
    BY <1>1, <2>1, <2>3, <2>4, <2>5, ReadBegins
<1>4. QED
  BY <1>2, <1>3

LEMMA UsersReads ==
  ASSUME Types, ExchangeInv, ReadInv, Users
  PROVE  ReadInv'
<1>1. ASSUME NEW r \in Req, NEW label, StartManagerBackup(r, label) PROVE ReadInv'
  <2>1. Ask(r, "manager") /\ UNCHANGED <<files, live, tx>>
    BY <1>1 DEF StartManagerBackup, Refuse, Users, disk
  <2>2. Refuse(r) \/ (result' = result /\ Goto(r, "create") /\ Notes(r, 0, label, <<>>, {}))
    BY <1>1 DEF StartManagerBackup, Set, Notes
  <2>3. QED
    BY <2>1, <2>2, BeginReads DEF Kinds, TaskKinds, RestoreKinds
<1>2. ASSUME NEW r \in Req, NEW label, NEW plan, NEW what \in {"cache", "cache-sync"}, Ask(r, what),
             Refuse(r) \/ BeginSet(r, label, plan)
      PROVE  ReadInv'
  <2>1. UNCHANGED <<files, live, tx>>
    BY <1>2 DEF BeginSet, Refuse, Users, disk
  <2>2. CASE Refuse(r)
    BY <1>2, <2>1, <2>2, BeginReads DEF Kinds, TaskKinds
  <2>3. CASE BeginSet(r, label, plan)
    <3>1. PICK now : Notes(r, now, label, plan, {})
      BY <2>3 DEF BeginSet, Notes
    <3>2. result' = result /\ Goto(r, "artifact") /\ what \notin RestoreKinds /\ what \in Kinds
      BY <2>3 DEF BeginSet, RestoreKinds, Kinds, TaskKinds
    <3>3. QED
      BY <1>2, <2>1, <3>1, <3>2, BeginReads
  <2>4. QED
    BY <1>2, <2>2, <2>3
<1>3. ASSUME NEW r \in Req, NEW label, NEW plan,
             StartCacheBackup(r, label, plan) \/ StartCacheBackupSync(r, label, plan)
      PROVE  ReadInv'
  BY <1>2, <1>3 DEF StartCacheBackup, StartCacheBackupSync
<1>4. ASSUME NEW r \in Req, Upload(r) PROVE ReadInv'
  <2>1. Ask(r, "upload") /\ UNCHANGED <<files, live, tx>> /\ result' = result /\ Goto(r, "link")
        /\ Notes(r, 0, None, <<>>, {})
    BY <1>4 DEF Upload, Users, Notes
  <2>2. QED
    BY <2>1, BeginReads DEF Kinds, RestoreKinds
<1>5. ASSUME NEW r \in Req, UploadFails(r) \/ \E n, state : LinkUpload(r, n, Foreign, state)
      PROVE  ReadInv'
  <2>1. pc[r] = "link" /\ kind' = kind /\ live' = live /\ tx' = tx /\ \E how : End(r, how)
    BY <1>5 DEF UploadFails, LinkUpload, Users
  <2>2. kind[r] # "restore" /\ Shapes
    BY <2>1 DEF ExchangeInv, Placed, RestoreKinds, ReadInv
  <2>3. FilesFrom(r)
    <3>1. CASE files' = files
      BY <2>2, <3>1, SameFiles
    <3>2. CASE files' # files
      <4>1. PICK n, state :
              files' = Put(n, [by |-> None, kind |-> "manager", img |-> Foreign, state |-> state])
        BY <1>5, <3>2 DEF UploadFails, LinkUpload
      <4>2. PICK f : f = [by |-> None, kind |-> "manager", img |-> Foreign, state |-> state]
        OBVIOUS
      <4>3. f.by = None /\ f.kind = "manager" /\ f.img = Foreign /\ f.state = state
        BY <4>2
      <4>4. IsFile(f)
        BY <4>2, <4>3 DEF IsFile
      <4>5. files' = Put(n, f)
        BY <4>1, <4>2
      <4>6. f.kind = "manager" => f.img = Foreign \/ (pc[r] = "pack" /\ f.img = job[r].img)
        BY <4>3
      <4>7. QED
        BY <2>2, <4>4, <4>5, <4>6, NewFile
    <3>3. QED
      BY <3>1, <3>2
  <2>4. QED
    BY <2>1, <2>2, <2>3, ReadEnds
<1>6. ASSUME NEW n, DeleteBackup(n) PROVE ReadInv'
  <2>1. UNCHANGED <<kind, pc, result, job, live, tx>> /\ files' = Unlink(n)
    BY <1>6 DEF DeleteBackup, Users
  <2>2. DOMAIN files' \subseteq DOMAIN files /\ files' = [m \in DOMAIN files' |-> files'[m]]
        /\ \A m \in DOMAIN files' : files'[m] = files[m]
    BY <2>1 DEF Unlink
  <2>3. Shapes'
    BY <2>1, <2>2 DEF ReadInv, Shapes
  <2>4. ASSUME NEW d, Pristine(d) PROVE Pristine(d)'
    BY <2>1, <2>2, <2>4 DEF Pristine
  <2>5. \A q \in Req : Reads(q)'
    BY <2>1 DEF ReadInv, Reads
  <2>6. Early' => Early
    BY <2>1 DEF Early
  <2>7. QED
    BY <2>3, <2>4, <2>5, <2>6 DEF ReadInv
<1>7. QED
  BY <1>1, <1>3, <1>4, <1>5, <1>6 DEF Users, StartRequest

\* The process ends.
LEMMA GoneReads ==
  ASSUME Types, ReadInv, NEW R \in SUBSET Req, NEW T, Gone(R, T), UNCHANGED <<kind, files, live>>,
         \A q \in Req \ R : result'[q] = result[q] /\ tx'[q] = tx[q],
         \A q \in R : kind[q] = "restore" /\ Genuine(tx'[q].img)
  PROVE  ReadInv'
<1>1. pc' = [r \in Req |-> IF InProgress(r) /\ r \notin R THEN "lost"
                          ELSE IF r \in R THEN "done" ELSE pc[r]]
      /\ job' = [r \in Req |-> NoJob]
  BY DEF Gone
<1>2. IsJob(NoJob) /\ NoJob.img = NoImage
  BY BlankJob
<1>3. Shapes'
  BY <1>1, <1>2 DEF ReadInv, Shapes
<1>4. \A q \in Req : pc'[q] = pc[q] \/ pc'[q] \in {"lost", "done"}
  BY <1>1
<1>5. Early' => Early
  BY <1>4 DEF Early
<1>6. ASSUME NEW d, Pristine(d) PROVE Pristine(d)'
  <2>1. \A q \in Req : pc'[q] \in {"new", "done", "lost"}
    BY <1>1 DEF InProgress, Idle
  <2>2. \A q \in Req : Draft(d, pc'[q], job'[q].img)
    BY <1>1, <1>2, <2>1 DEF Draft
  <2>3. QED
    BY <1>6, <2>2 DEF Pristine
<1>7. ASSUME NEW q \in Req PROVE Reads(q)'
  <2>1. CASE q \in R
    BY <2>1 DEF Reads
  <2>2. CASE q \notin R
    <3>1. pc'[q] = pc[q] \/ pc'[q] = "lost"
      BY <1>1, <2>2
    <3>2. QED
      BY <2>2, <3>1 DEF ReadInv, Reads
  <2>3. QED
    BY <2>1, <2>2
<1>8. QED
  BY <1>3, <1>5, <1>6, <1>7 DEF ReadInv

\* The transaction remembers what was read.
LEMMA ImageStays ==
  ASSUME ExchangeInv, NEW r \in Req,
         \/ Copy(r) \/ SwapOut(r) \/ SwapIn(r) \/ SwapFails(r) \/ RollBack(r) \/ RollBackFails(r)
         \/ EndSwap(r) \/ CacheSwap(r)
  PROVE  tx'[r].img = tx[r].img /\ \A q \in Req \ {r} : tx'[q] = tx[q]
<1>1. PICK x : x = tx[r]
  OBVIOUS
<1>2. tx = [q \in Req |-> tx[q]] /\ IsTx(x)
  BY <1>1 DEF ExchangeInv, ExchangeTypes
<1>3. PICK y : tx' = [tx EXCEPT ![r] = y] /\ y.img = x.img
  <2>1. CASE SwapFails(r)
    BY <1>1, <1>2, <2>1 DEF SwapFails
  <2>2. CASE Copy(r)
    <3>1. PICK u, v : tx' = [tx EXCEPT ![r] = [x EXCEPT !.before = u, !.todo = v]]
      BY <1>1, <2>2 DEF Copy, Tx
    <3>2. PICK y : y = [x EXCEPT !.before = u, !.todo = v]
      OBVIOUS
    <3>3. y.img = x.img
      BY <1>2, <3>2 DEF IsTx
    <3>4. QED
      BY <3>1, <3>2, <3>3
  <2>3. ASSUME NEW y, tx' = [tx EXCEPT ![r] = y], y.img = x.img
        PROVE  \E z : tx' = [tx EXCEPT ![r] = z] /\ z.img = x.img
    BY <2>3
  <2>4. CASE SwapOut(r)
    <3>1. PICK c : tx' = [tx EXCEPT ![r] = TxOut(x, live, c)]
      BY <1>1, <2>4 DEF SwapOut, Tx, TxOut
    <3>2. TxOut(x, live, c).img = x.img
      BY <1>2 DEF IsTx, TxOut
    <3>3. QED
      BY <2>3, <3>1, <3>2
  <2>5. CASE SwapIn(r)
    <3>1. PICK c : tx' = [tx EXCEPT ![r] = TxIn(x, c)]
      BY <1>1, <2>5 DEF SwapIn, Tx, TxIn
    <3>2. TxIn(x, c).img = x.img
      BY <1>2 DEF IsTx, TxIn
    <3>3. QED
      BY <2>3, <3>1, <3>2
  <2>6. CASE RollBack(r)
    <3>1. PICK c : tx' = [tx EXCEPT ![r] = TxBack(x, c)]
      BY <1>1, <2>6 DEF RollBack, Tx, TxBack
    <3>2. TxBack(x, c).img = x.img
      BY <1>2 DEF IsTx, TxBack
    <3>3. QED
      BY <2>3, <3>1, <3>2
  <2>7. CASE RollBackFails(r)
    <3>1. PICK c : tx' = [tx EXCEPT ![r] = TxStuck(x, c)]
      BY <1>1, <2>7 DEF RollBackFails, Tx, TxStuck
    <3>2. TxStuck(x, c).img = x.img
      BY <1>2 DEF IsTx, TxStuck
    <3>3. QED
      BY <2>3, <3>1, <3>2
  <2>8. CASE CacheSwap(r)
    <3>1. PICK c : tx' = [tx EXCEPT ![r] = TxCache(x, live, c)]
      BY <1>1, <2>8 DEF CacheSwap, Tx, TxCache
    <3>2. TxCache(x, live, c).img = x.img
      BY <1>2 DEF IsTx, TxCache
    <3>3. QED
      BY <2>3, <3>1, <3>2
  <2>9. CASE EndSwap(r)
    <3>1. tx' = [tx EXCEPT ![r] = [x EXCEPT !.old = NoImage]]
      BY <1>1, <2>9 DEF EndSwap, Tx
    <3>2. [x EXCEPT !.old = NoImage].img = x.img
      BY <1>2 DEF IsTx
    <3>3. QED
      BY <2>3, <3>1, <3>2
  <2>10. QED
    BY <2>1, <2>2, <2>4, <2>5, <2>6, <2>7, <2>8, <2>9
<1>4. QED
  BY <1>1, <1>2, <1>3

LEMMA RestoreStepReads ==
  ASSUME Types, ExchangeInv, ReadInv, NEW r \in Req, RestoreStep(r)
  PROVE  ReadInv'
<1>1. Shapes /\ Reads(r) /\ Placed(r) /\ Exchanged(r) /\ tx = [q \in Req |-> tx[q]] /\ IsImage(live)
  BY DEF ReadInv, ExchangeInv, ExchangeTypes
<1>2. CASE Extract(r)
  <2>1. PICK n : n = Head(job[r].plan)
    OBVIOUS
  <2>2. PICK f : f = files[n]
    OBVIOUS
  <2>3. pc[r] = "extract" /\ n \in DOMAIN files /\ f.kind = "manager"
    BY <1>2, <2>1, <2>2 DEF Extract, Readable
  <2>4. kind[r] = "restore"
    BY <1>1, <2>3 DEF Placed
  <2>5. Early
    BY <2>3, <2>4, OneOfAKind DEF Early, RestoreKinds
  <2>6. PICK d \in Data : Pristine(d)
    BY <2>5 DEF ReadInv
  <2>7. Genuine(f.img)
    BY <2>2, <2>3, <2>6 DEF Pristine, Genuine
  <2>8. PICK y : y = [NoTx EXCEPT !.img = f.img]
    OBVIOUS
  <2>9. y.img = f.img
    BY <2>8 DEF NoTx
  <2>10. tx' = [tx EXCEPT ![r] = y]
    BY <1>2, <2>1, <2>2, <2>8 DEF Extract, Tx
  <2>11. tx'[r] = y /\ \A q \in Req \ {r} : tx'[q] = tx[q]
    BY <1>1, <2>10
  <2>12. Notes(r, 0, "vor-wiederherstellung", <<>>, {})
    BY <1>2 DEF Extract, Notes
  <2>13. PICK j : IsJob(j) /\ j.img = job[r].img /\ job' = [job EXCEPT ![r] = j]
    BY <1>1, <2>12, KeepsImage
  <2>14. files' = files /\ kind' = kind /\ result' = result /\ pc' = [pc EXCEPT ![r] = "create"]
    BY <1>2 DEF Extract, Goto
  <2>15. FilesFrom(r)
    BY <1>1, <2>14, SameFiles
  <2>16. QED
    BY <2>4, <2>7, <2>9, <2>11, <2>13, <2>14, <2>15, ReadGoes
<1>3. CASE RestoreFails(r) \/ CopyFails(r) \/ EndRollBack(r)
  <2>1. End(r, "failed") /\ files' = files /\ live' = live /\ kind' = kind
    BY <1>3 DEF RestoreFails, CopyFails, EndRollBack, disk
  <2>2. \A q \in Req \ {r} : tx'[q] = tx[q]
    BY <1>1, <1>3 DEF RestoreFails, CopyFails, EndRollBack, Tx
  <2>3. FilesFrom(r)
    BY <1>1, <2>1, SameFiles
  <2>4. QED
    BY <2>1, <2>2, <2>3, ReadEnds
<1>4. CASE SwapOut(r) \/ SwapIn(r) \/ SwapFails(r) \/ RollBack(r) \/ RollBackFails(r) \/ Copy(r)
  <2>1. pc[r] \in {"respond", "swap", "install", "rollback"} /\ job' = job /\ kind' = kind
        /\ result' = result /\ files' = files
    BY <1>4 DEF SwapOut, SwapIn, SwapFails, RollBack, RollBackFails, Copy, disk
  <2>2. kind[r] = "restore"
    BY <1>1, <2>1 DEF Placed
  <2>3. Genuine(tx[r].img)
    BY <1>1, <2>1, <2>2 DEF Reads
  <2>4. tx'[r].img = tx[r].img /\ \A q \in Req \ {r} : tx'[q] = tx[q]
    BY <1>4, ImageStays
  <2>5. PICK p \in {"swap", "install", "rollback"} : pc' = [pc EXCEPT ![r] = p]
    BY <1>4 DEF SwapOut, SwapIn, SwapFails, RollBack, RollBackFails, Copy, Goto, Types
  <2>6. FilesFrom(r)
    BY <1>1, <2>1, SameFiles
  <2>7. QED
    BY <2>1, <2>2, <2>3, <2>4, <2>5, <2>6, ReadGoesOn
<1>5. CASE EndSwap(r)
  <2>1. pc[r] = "swap" /\ UNCHANGED <<kind, files, live>> /\ Gone({r}, temps \ TempsOf(r))
        /\ \A q \in Req \ {r} : result'[q] = result[q]
    BY <1>5 DEF EndSwap, Types
  <2>2. kind[r] = "restore" /\ Genuine(tx[r].img)
    BY <1>1, <2>1 DEF Placed, Reads
  <2>3. tx'[r].img = tx[r].img /\ \A q \in Req \ {r} : tx'[q] = tx[q]
    BY <1>5, ImageStays
  <2>4. QED
    BY <2>1, <2>2, <2>3, GoneReads
<1>6. CASE CacheExtract(r)
  <2>1. pc[r] = "cache-extract" /\ kind' = kind /\ result' = result /\ files' = files /\ live' = live
        /\ pc' = [pc EXCEPT ![r] = "cache-swap"] /\ job' = [job EXCEPT ![r].plan = <<>>]
    BY <1>6 DEF CacheExtract, Goto, Set
  <2>2. kind[r] # "restore"
    BY <1>1, <2>1 DEF Placed
  <2>3. \A q \in Req \ {r} : tx'[q] = tx[q]
    BY <1>1, <1>6 DEF CacheExtract, Tx
  <2>4. FilesFrom(r)
    BY <1>1, <2>1, SameFiles
  <2>5. QED
    BY <2>1, <2>2, <2>3, <2>4, ReadGoesOn
<1>7. CASE CacheSwap(r) \/ CacheSwapFails(r) \/ EndCacheSwap(r)
  <2>1. pc[r] = "cache-swap" /\ kind' = kind /\ files' = files
    BY <1>7 DEF CacheSwap, CacheSwapFails, EndCacheSwap, disk
  <2>2. kind[r] # "restore" /\ AtCacheSwap(tx[r], live)
    BY <1>1, <2>1 DEF Placed, Exchanged
  <2>3. \A q \in Req \ {r} : tx'[q] = tx[q]
    BY <1>1, <1>7 DEF CacheSwap, CacheSwapFails, EndCacheSwap, Tx
  <2>4. FilesFrom(r)
    BY <1>1, <2>1, SameFiles
  <2>5. Packed \subseteq Component \ CacheParts
    BY DEF Packed, Component, CacheParts
  <2>6. CASE CacheSwap(r)
    <3>1. tx[r].todo # {} /\ tx[r].todo \subseteq Component
      BY <2>6 DEF CacheSwap, ExchangeInv, ExchangeTypes, IsTx
    <3>2. PICK c : c = First(tx[r].todo)
      OBVIOUS
    <3>3. c \in CacheParts
      BY <2>2, <3>1, <3>2, FirstIn DEF AtCacheSwap
    <3>4. live' = [live EXCEPT ![c] = "restored"] /\ job' = job /\ result' = result
          /\ pc' = [pc EXCEPT ![r] = "cache-swap"]
      BY <2>6, <3>2 DEF CacheSwap, Current, Types
    <3>5. \A b \in Packed : live'[b] = live[b]
      BY <1>1, <2>5, <3>3, <3>4 DEF IsImage
    <3>6. QED
      BY <2>1, <2>2, <2>3, <2>4, <3>4, <3>5, ReadGoesOn
  <2>7. CASE CacheSwapFails(r)
    <3>1. PICK out \in BOOLEAN, stuck \in SUBSET tx[r].installed :
            \E back \in SUBSET Movable(Previous(r, out), stuck) :
               live' = DataUndone(tx[r], live, Previous(r, out), stuck, back)
      BY <2>7 DEF CacheSwapFails
    <3>2. PICK old, back : /\ back \subseteq Movable(old, stuck)
                           /\ live' = DataUndone(tx[r], live, old, stuck, back)
      BY <3>1
    <3>3. Movable(old, stuck) \cup (tx[r].installed \ stuck) \subseteq CacheParts
      BY <2>2 DEF Movable, AtCacheSwap
    <3>4. \A b \in Packed : live'[b] = live[b]
      BY <2>5, <3>2, <3>3 DEF DataUndone
    <3>5. End(r, "failed")
      BY <2>7 DEF CacheSwapFails
    <3>6. QED
      BY <2>1, <2>2, <2>3, <2>4, <3>4, <3>5, ReadEnds
  <2>8. CASE EndCacheSwap(r)
    <3>1. End(r, "finished") /\ live' = live
      BY <2>8 DEF EndCacheSwap
    <3>2. QED
      BY <2>1, <2>2, <2>3, <2>4, <3>1, ReadEnds
  <2>9. QED
    BY <1>7, <2>6, <2>7, <2>8
<1>8. QED
  BY <1>2, <1>3, <1>4, <1>5, <1>6, <1>7 DEF RestoreStep

LEMMA ReadStep ==
  ASSUME Types, ExchangeInv, ReadInv, [Next]_vars
  PROVE  ReadInv'
<1>1. CASE Users
  BY <1>1, UsersReads
<1>2. ASSUME NEW r \in Req, Work(r) PROVE ReadInv'
  BY <1>2, CreateStepReads, SetStepReads, RestoreStepReads DEF Work
<1>3. ASSUME NEW r \in Req, NEW n, NEW what \in Kinds, BeginRestore(r, what, n) PROVE ReadInv'
  <2>1. Ask(r, what) /\ UNCHANGED <<files, live, tx>> /\ what \in RestoreKinds
    BY <1>3 DEF BeginRestore, Refuse, disk, RestoreKinds
  <2>2. CASE Refuse(r)
    BY <2>1, <2>2, BeginReads
  <2>3. CASE ~Refuse(r)
    <3>1. result' = result /\ Goto(r, IF what = "restore" THEN "extract" ELSE "cache-extract")
      BY <1>3, <2>3 DEF BeginRestore
    <3>2. Notes(r, 0, None, <<n>>, {})
      BY <1>3, <2>3 DEF BeginRestore, Set, Notes
    <3>3. QED
      BY <2>1, <3>1, <3>2, BeginReads DEF RestoreKinds
  <2>4. QED
    BY <2>2, <2>3
<1>4. CASE Restart
  <2>1. Gone({}, temps) /\ UNCHANGED <<kind, files, live, result, tx>>
    BY <1>4 DEF Restart
  <2>2. QED
    BY <2>1, GoneReads
<1>5. CASE UNCHANGED vars
  <2>1. UNCHANGED <<kind, pc, result, job, files, live, tx>>
    BY <1>5 DEF vars, backupVars, disk
  <2>2. Shapes'
    BY <2>1 DEF ReadInv, Shapes
  <2>3. ASSUME NEW d, Pristine(d) PROVE Pristine(d)'
    BY <2>1, <2>3 DEF Pristine
  <2>4. (Early' => Early) /\ \A q \in Req : Reads(q)'
    BY <2>1 DEF ReadInv, Reads, Early
  <2>5. QED
    BY <2>2, <2>3, <2>4 DEF ReadInv
<1>6. QED
  BY <1>1, <1>2, <1>3, <1>4, <1>5 DEF Next

LEMMA InitReads == Init => ReadInv
<1> SUFFICES ASSUME Init PROVE ReadInv
  OBVIOUS
<1>1. /\ kind = [r \in Req |-> None] /\ pc = [r \in Req |-> "new"] /\ job = [r \in Req |-> NoJob]
      /\ files = Stored /\ live \in Data
  BY DEF Init, InitBackups
<1>2. Stored = [n \in DOMAIN Stored |-> Stored[n]]
      /\ \A n \in DOMAIN Stored :
           /\ IsFile(Stored[n])
           /\ Stored[n].kind = "manager" => Stored[n].img = Foreign
  BY RequestAssumption DEF IsFile
<1>3. Shapes
  BY <1>1, <1>2, BlankJob DEF Shapes
<1>4. \A r \in Req : Draft(live, pc[r], job[r].img)
  BY <1>1, BlankJob DEF Draft
<1>5. Pristine(live)
  BY <1>1, <1>2, <1>4 DEF Pristine
<1>6. \A q \in Req : Reads(q)
  BY <1>1 DEF Reads, None
<1>7. QED
  BY <1>1, <1>3, <1>5, <1>6 DEF ReadInv

-----------------------------------------------------------------------------
(* The theorems.                                                           *)

RestoreInv == RegistryInv /\ PlaintextInv /\ ExchangeInv /\ ReadInv

(***************************************************************************)
(* The registry, the temporary files, the exchange of every restore and    *)
(* where its data come from, in every state (app/backups.py).              *)
(***************************************************************************)
THEOREM RestoreInvariant == Spec => []RestoreInv
<1>1. Init => RestoreInv
  <2>1. Init => PlaintextInv
    BY DEF Init, InitBackups, PlaintextInv
  <2>2. QED
    BY <2>1, InitRegistry, InitExchange, InitReads DEF RestoreInv
<1>2. RestoreInv /\ [Next]_vars => RestoreInv'
  <2> SUFFICES ASSUME RestoreInv, [Next]_vars PROVE RestoreInv'
    OBVIOUS
  <2>1. Types /\ RegistryInv /\ PlaintextInv /\ ExchangeInv /\ ReadInv
    BY DEF RestoreInv, RegistryInv
  <2>2. RegistryInv'
    BY <2>1, RegistryStep
  <2>3. PlaintextInv'
    BY <2>1, PlaintextStep
  <2>4. ExchangeInv'
    BY <2>1, ExchangeStep
  <2>5. ReadInv'
    BY <2>1, ReadStep
  <2>6. QED
    BY <2>2, <2>3, <2>4, <2>5 DEF RestoreInv
<1>3. QED
  BY <1>1, <1>2, PTL DEF Spec

(***************************************************************************)
(* The registry of manager_backup_progress.py describes the threads: the   *)
(* task at work is the current one and is not pruned, and no more are kept *)
(* than _MAX_TASKS, however the requests interleave and the process dies.  *)
(***************************************************************************)
THEOREM RegistryIsSound == Spec => []RegistrySound
<1>1. RestoreInv => RegistrySound
  BY DEF RestoreInv, RegistryInv, Registry, RegistrySound
<1>2. QED
  BY RestoreInvariant, <1>1, PTL

(***************************************************************************)
(* Unencrypted temporary files exist only while their request works or     *)
(* after the process was killed (the finally clauses of backups.py).       *)
(***************************************************************************)
THEOREM PlaintextEnds == Spec => []PlaintextIsTemporary
<1>1. RestoreInv => PlaintextIsTemporary
  <2> SUFFICES ASSUME RestoreInv, NEW t \in temps, t[2] \in {"zip", "db", "sec", "decrypted"}
               PROVE  InProgress(t[1]) \/ pc[t[1]] = "lost"
    BY DEF PlaintextIsTemporary
  <2>1. pc[t[1]] \in PlacesOf(t[2])
    BY DEF RestoreInv, PlaintextInv
  <2>2. PlacesOf(t[2]) \cap {"new", "done"} = {}
    BY DEF PlacesOf
  <2>3. QED
    BY <2>1, <2>2 DEF InProgress, Idle
<1>2. QED
  BY RestoreInvariant, <1>1, PTL

(***************************************************************************)
(* Until a restore has succeeded, every original is in its place or in the *)
(* transaction directory or safety copy (apply_prepared_restore,           *)
(* restore_manager_borg_cache_from_backup), whatever rename fails and      *)
(* wherever the process is killed.                                         *)
(***************************************************************************)
THEOREM OriginalsAreKept == Spec => []OriginalsKept
<1>1. RestoreInv => OriginalsKept
  <2> SUFFICES ASSUME RestoreInv, NEW q \in Req, result[q] # "finished",
                      NEW c \in Scope(q), tx[q].before[c] # None
               PROVE  tx[q].before[c] \in {live[c], tx[q].old[c]}
    BY DEF OriginalsKept
  <2>1. Placed(q) /\ Exchanged(q)
    BY DEF RestoreInv, ExchangeInv
  <2>2. CASE kind[q] \in RestoreKinds
    BY <2>1, <2>2 DEF Exchanged, KeptIn
  <2>3. CASE kind[q] \notin RestoreKinds
    <3>1. tx[q].before = NoImage
      BY <2>1, <2>3 DEF Placed, NoTx
    <3>2. NoImage[c] = None
      BY DEF NoImage, Scope, CacheParts, Component
    <3>3. QED
      BY <3>1, <3>2
  <2>4. QED
    BY <2>2, <2>3
<1>2. QED
  BY RestoreInvariant, <1>1, PTL

(***************************************************************************)
(* A restore installs every component of one complete backup or, unless a  *)
(* rename of the roll back failed, leaves what there was                   *)
(* (app/backups.py:1444-1515).                                             *)
(***************************************************************************)
THEOREM RestoresAllOrNothing == Spec => []RestoreAllOrNothing
<1>1. RestoreInv => RestoreAllOrNothing
  <2> SUFFICES ASSUME RestoreInv, NEW q \in Req, kind[q] = "restore", pc[q] = "done"
               PROVE  /\ result[q] = "finished" => Genuine(tx[q].img) /\ Installed(tx[q], live)
                      /\ result[q] = "failed" /\ ~tx[q].error => Untouched(tx[q], live)
    <3>1. ASSUME NEW q \in Req, kind[q] = "restore" PROVE Scope(q) = DataParts
      BY <3>1 DEF Scope, DataParts
    <3>2. QED
      BY <3>1 DEF RestoreAllOrNothing, Genuine, Installed, Untouched, Always
  <2>1. Exchanged(q) /\ Reads(q)
    BY DEF RestoreInv, ExchangeInv, ReadInv
  <2>2. QED
    BY <2>1 DEF Exchanged, Reads
<1>2. QED
  BY RestoreInvariant, <1>1, PTL
==================================================================================
