------------------------ MODULE CapacityAndCaches_proofs ------------------------
(***************************************************************************)
(* Proofs about two components that share neither state nor names.         *)
(*                                                                         *)
(* The limiter (AdjustableCapacity), for any number of tasks and any       *)
(* limits: the slots are counted exactly, no wakeup is lost, the deque      *)
(* stays sound and the limiter implements ElasticSemaphore.                *)
(*                                                                         *)
(* Borg's local state (ClientCaches), for any number of devices,            *)
(* repositories, requests and runs and any contents of the disks: clean ups *)
(* and restores keep what assigned repositories need.                      *)
(***************************************************************************)
EXTENDS AdjustableCapacity, ClientCaches, FiniteSetTheorems, SequenceTheorems, TLAPS

-----------------------------------------------------------------------------
(* The limiter.                                                            *)

Distinct(q) == \A i, j \in DOMAIN q : q[i] = q[j] => i = j

PendingIn(fut) == {t \in Task : fut[t] = "pending"}

\* What a call of _wake_waiters() leaves behind; G are the tasks it served.
WakeEffect(lim, used, q, fut) ==
  \E G \in SUBSET PendingIn(fut) :
    /\ inUse' = used + Cardinality(G)
    /\ future' = [t \in Task |-> IF t \in G THEN "granted" ELSE fut[t]]
    /\ waiters' \in Seq(Task)
    /\ Distinct(waiters')
    /\ \A t \in InQueue(waiters') : t \in InQueue(q) /\ t \notin G
    /\ PendingIn(fut) \ G \subseteq InQueue(waiters')
    /\ PendingIn(fut) \ G # {} => inUse' >= lim
    /\ G # {} => inUse' <= lim
    /\ \A i, j \in DOMAIN q : i < j /\ q[j] \in G => q[i] \notin PendingIn(fut) \ G

\* A task is at the await exactly as long as it has a future, and only a
\* granted future outlives a cancellation.
Lifecycle ==
  /\ \A t \in Task : pc[t] = "waiting" <=> future[t] # "none"
  /\ mustCancel \subseteq Granted

IInv == TypeOK /\ SlotAccounting /\ NoIdleSlot /\ QueueSound /\ Lifecycle

-----------------------------------------------------------------------------
LEMMA DisjointUnion ==
  ASSUME NEW S, IsFiniteSet(S), NEW T, IsFiniteSet(T), S \cap T = {}
  PROVE  /\ IsFiniteSet(S \cup T)
         /\ Cardinality(S \cup T) = Cardinality(S) + Cardinality(T)
<1>1. Cardinality(S \cap T) = 0
  BY FS_EmptySet
<1>2. Cardinality(S) \in Nat /\ Cardinality(T) \in Nat
  BY FS_CardinalityType
<1>3. IsFiniteSet(S \cup T)
      /\ Cardinality(S \cup T) = Cardinality(S) + Cardinality(T) - Cardinality(S \cap T)
  BY FS_Union
<1>4. QED
  BY <1>1, <1>2, <1>3

LEMMA TaskSubsetFinite ==
  ASSUME NEW S \in SUBSET Task
  PROVE  IsFiniteSet(S) /\ Cardinality(S) \in Nat
BY TaskAssumption, FS_Subset, FS_CardinalityType

\* Popping from a deque without duplicates that holds every pending future
\* serves a set of pending tasks, up to the limit, and keeps all others.
LEMMA WakeLemma ==
  ASSUME NEW lim \in Nat, NEW used \in Nat, NEW q \in Seq(Task),
         NEW fut \in [Task -> FutureState],
         Distinct(q), PendingIn(fut) \subseteq InQueue(q),
         WakeWaiters(lim, used, q, fut)
  PROVE  WakeEffect(lim, used, q, fut)
<1> DEFINE slots(j) == used + Cardinality(Served(q, fut, j))
<1>1. PICK k \in 0..Len(q) :
         /\ \A j \in 0..(k - 1) : slots(j) < lim
         /\ k = Len(q) \/ slots(k) >= lim
         /\ waiters' = SubSeq(q, k + 1, Len(q))
         /\ inUse' = slots(k)
         /\ future' = [t \in Task |-> IF t \in Served(q, fut, k) THEN "granted" ELSE fut[t]]
  BY DEF WakeWaiters
<1> DEFINE G == Served(q, fut, k)
<1>2. Len(q) \in Nat /\ DOMAIN q = 1..Len(q) /\ \A i \in 1..Len(q) : q[i] \in Task
  OBVIOUS
<1>3. \A j \in 0..Len(q) : Served(q, fut, j) \in SUBSET PendingIn(fut)
  BY <1>2 DEF Served, Front, PendingIn
<1>4. \A j \in 0..Len(q) : Cardinality(Served(q, fut, j)) \in Nat
  BY <1>3, TaskSubsetFinite DEF PendingIn
<1>5. /\ waiters' \in Seq(Task)
      /\ Len(waiters') = Len(q) - k
      /\ \A i \in 1..(Len(q) - k) : waiters'[i] = q[k + i]
  <2>1. \A i \in (k + 1)..Len(q) : q[i] \in Task
    BY <1>2
  <2>2. k + 1 \in Int /\ Len(q) \in Int
    BY <1>2
  <2> HIDE <1>2
  <2>3. /\ SubSeq(q, k + 1, Len(q)) \in Seq(Task)
        /\ Len(SubSeq(q, k + 1, Len(q))) =
              IF k + 1 <= Len(q) THEN Len(q) - (k + 1) + 1 ELSE 0
        /\ \A i \in 1..(Len(q) - (k + 1) + 1) :
              SubSeq(q, k + 1, Len(q))[i] = q[(k + 1) + i - 1]
    BY <2>1, <2>2, SubSeqProperties
  <2>4. Len(SubSeq(q, k + 1, Len(q))) = Len(q) - k
    BY <2>2, <2>3
  <2>5. ASSUME NEW i \in 1..(Len(q) - k)
        PROVE  SubSeq(q, k + 1, Len(q))[i] = q[k + i]
    <3>1. i \in 1..(Len(q) - (k + 1) + 1) /\ (k + 1) + i - 1 = k + i
      BY <2>2
    <3>2. QED
      BY <3>1, <2>3
  <2>6. QED
    BY <1>1, <2>3, <2>4, <2>5
<1>6. DOMAIN waiters' = 1..(Len(q) - k)
  BY <1>5
<1>7. InQueue(waiters') = {q[i] : i \in (k + 1)..Len(q)}
  <2>1. ASSUME NEW i \in (k + 1)..Len(q)
        PROVE  q[i] \in InQueue(waiters')
    <3>1. i - k \in 1..(Len(q) - k) /\ k + (i - k) = i
      BY <1>2
    <3>2. QED
      BY <3>1, <1>5, <1>6 DEF InQueue
  <2>2. ASSUME NEW i \in 1..(Len(q) - k)
        PROVE  waiters'[i] \in {q[j] : j \in (k + 1)..Len(q)}
    <3>1. k + i \in (k + 1)..Len(q)
      BY <1>2
    <3>2. QED
      BY <3>1, <1>5
  <2>3. QED
    BY <2>1, <2>2, <1>6 DEF InQueue
<1>8. Distinct(waiters')
  <2>1. SUFFICES ASSUME NEW i \in 1..(Len(q) - k), NEW j \in 1..(Len(q) - k),
                        waiters'[i] = waiters'[j]
                 PROVE  i = j
    BY <1>6 DEF Distinct
  <2>2. k + i \in DOMAIN q /\ k + j \in DOMAIN q
    BY <1>2
  <2>3. q[k + i] = q[k + j]
    BY <1>5, <2>1
  <2>4. k + i = k + j
    BY <2>2, <2>3 DEF Distinct
  <2>5. QED
    BY <2>4
<1>9. \A t \in InQueue(waiters') : t \in InQueue(q) /\ t \notin G
  <2>1. SUFFICES ASSUME NEW i \in (k + 1)..Len(q)
                 PROVE  q[i] \in InQueue(q) /\ q[i] \notin G
    BY <1>7
  <2>2. q[i] \notin Front(q, k)
    BY <1>2 DEF Front, Distinct
  <2>3. QED
    BY <2>2, <1>2 DEF InQueue, Served
<1>10. PendingIn(fut) \ G \subseteq InQueue(waiters')
  <2>1. SUFFICES ASSUME NEW t \in PendingIn(fut), t \notin G
                 PROVE  t \in InQueue(waiters')
    OBVIOUS
  <2>2. PICK i \in 1..Len(q) : q[i] = t
    BY <1>2 DEF InQueue
  <2>3. t \notin Front(q, k)
    BY <2>1 DEF Served, PendingIn
  <2>4. i > k
    BY <2>2, <2>3 DEF Front
  <2>5. i \in (k + 1)..Len(q)
    BY <2>4
  <2>6. QED
    BY <2>5, <2>2, <1>7
<1>11. PendingIn(fut) \ G # {} => inUse' >= lim
  <2>1. SUFFICES ASSUME PendingIn(fut) \ G # {}
                 PROVE  inUse' >= lim
    OBVIOUS
  <2>2. InQueue(waiters') # {}
    BY <2>1, <1>10
  <2>3. k # Len(q)
    BY <2>2, <1>7
  <2>4. QED
    BY <2>3, <1>1
<1>12. G # {} => inUse' <= lim
  <2>1. SUFFICES ASSUME G # {}
                 PROVE  inUse' <= lim
    OBVIOUS
  <2>2. k > 0
    BY <2>1 DEF Served, Front
  <2>3. slots(k - 1) < lim /\ k - 1 \in 0..Len(q)
    BY <2>2, <1>1
  <2>4. G \subseteq Served(q, fut, k - 1) \cup {q[k]}
    BY <2>2 DEF Served, Front
  <2> DEFINE B == Served(q, fut, k - 1)
  <2>5. IsFiniteSet(B)
    BY <2>3, <1>3, TaskSubsetFinite DEF PendingIn
  <2>6. IsFiniteSet(B \cup {q[k]}) /\ Cardinality(B \cup {q[k]}) <= Cardinality(B) + 1
    <3>1. Cardinality(B) \in Nat
      BY <2>5, FS_CardinalityType
    <3> HIDE DEF B
    <3>2. IsFiniteSet(B \cup {q[k]})
          /\ Cardinality(B \cup {q[k]}) =
               IF q[k] \in B THEN Cardinality(B) ELSE Cardinality(B) + 1
      BY <2>5, FS_AddElement
    <3>3. QED
      BY <3>1, <3>2
  <2>7. Cardinality(G) <= Cardinality(B \cup {q[k]})
    BY <2>4, <2>6, FS_Subset
  <2>8. Cardinality(G) \in Nat /\ Cardinality(B) \in Nat /\ Cardinality(B \cup {q[k]}) \in Nat
    BY <2>3, <1>4, <2>6, FS_CardinalityType
  <2>9. used + Cardinality(B) < lim
    BY <2>3
  <2>10. inUse' = used + Cardinality(G)
    BY <1>1
  <2> HIDE DEF G, B
  <2>11. QED
    BY <2>6, <2>7, <2>8, <2>9, <2>10
<1>13. G \in SUBSET PendingIn(fut)
  BY <1>3
<1>14. ASSUME NEW i \in DOMAIN q, NEW j \in DOMAIN q, i < j, q[j] \in G
       PROVE  q[i] \notin PendingIn(fut) \ G
  <2>1. j <= k
    BY <1>2, <1>14 DEF Served, Front, Distinct
  <2>2. q[i] \in Front(q, k)
    BY <2>1, <1>2, <1>14 DEF Front
  <2>3. QED
    BY <2>2 DEF Served, PendingIn
<1>15. QED
  BY <1>1, <1>5, <1>8, <1>9, <1>10, <1>11, <1>12, <1>13, <1>14 DEF WakeEffect

GrantedIn(fut) == {t \in Task : fut[t] = "granted"}

\* Every call that ends in _wake_waiters() restores the invariant, provided
\* that the state it starts the wakeup from counts its slots correctly.
LEMMA WakeRestores ==
  ASSUME NEW lim \in Nat \ {0}, NEW used \in Nat, NEW q \in Seq(Task),
         NEW fut \in [Task -> FutureState],
         Distinct(q), PendingIn(fut) \subseteq InQueue(q),
         \A t \in InQueue(q) : fut[t] \in {"pending", "cancelled"},
         limit' = lim, pc' \in [Task -> PC],
         \A t \in Task : pc'[t] = "waiting" <=> fut[t] # "none",
         mustCancel' \subseteq GrantedIn(fut),
         used = Cardinality(Holding' \cup GrantedIn(fut)),
         WakeWaiters(lim, used, q, fut)
  PROVE  IInv'
<1>1. WakeEffect(lim, used, q, fut)
  BY WakeLemma
<1>2. PICK G \in SUBSET PendingIn(fut) :
         /\ inUse' = used + Cardinality(G)
         /\ future' = [t \in Task |-> IF t \in G THEN "granted" ELSE fut[t]]
         /\ waiters' \in Seq(Task)
         /\ Distinct(waiters')
         /\ \A t \in InQueue(waiters') : t \in InQueue(q) /\ t \notin G
         /\ PendingIn(fut) \ G \subseteq InQueue(waiters')
         /\ PendingIn(fut) \ G # {} => inUse' >= lim
         /\ G # {} => inUse' <= lim
  BY <1>1 DEF WakeEffect
<1>3. \A t \in G : t \in Task /\ fut[t] = "pending"
  BY <1>2 DEF PendingIn
<1>4. Pending' = PendingIn(fut) \ G
  BY <1>2, <1>3 DEF Pending, PendingIn
<1>5. Granted' = GrantedIn(fut) \cup G
  BY <1>2, <1>3 DEF Granted, GrantedIn
<1>6. Cardinality(G) \in Nat /\ IsFiniteSet(G)
  BY TaskSubsetFinite DEF PendingIn
<1>7. TypeOK'
  <2>1. future' \in [Task -> FutureState]
    BY <1>2 DEF FutureState
  <2>2. mustCancel' \in SUBSET Task
    BY DEF GrantedIn
  <2>3. inUse' \in Nat
    BY <1>2, <1>6
  <2>4. QED
    BY <2>1, <2>2, <2>3, <1>2 DEF TypeOK
<1>8. SlotAccounting'
  <2> DEFINE S == Holding' \cup GrantedIn(fut)
  <2>1. S \in SUBSET Task
    BY DEF Holding, GrantedIn
  <2>2. IsFiniteSet(S)
    BY <2>1, TaskSubsetFinite
  <2>3. S \cap G = {}
    BY <1>3 DEF Holding, GrantedIn, PC
  <2>4. Cardinality(S \cup G) = Cardinality(S) + Cardinality(G)
    BY <2>2, <2>3, <1>6, DisjointUnion
  <2>5. (Holding \cup Granted)' = S \cup G
    BY <1>5
  <2>6. QED
    BY <2>4, <2>5, <1>2 DEF SlotAccounting
<1>9. NoIdleSlot'
  BY <1>2, <1>4 DEF NoIdleSlot
<1>10. QueueSound'
  <2>1. Pending' \subseteq InQueue(waiters')
    BY <1>2, <1>4
  <2>2. \A t \in InQueue(waiters') : t \in Task /\ fut[t] \in {"pending", "cancelled"} /\ t \notin G
    BY <1>2 DEF InQueue
  <2>3. \A t \in InQueue(waiters') : future'[t] \in {"pending", "cancelled"}
    BY <2>2, <1>2
  <2>4. QED
    BY <2>1, <2>3, <1>2 DEF QueueSound, InQueue, Distinct
<1>11. Lifecycle'
  BY <1>2, <1>3, <1>5 DEF Lifecycle
<1>12. QED
  BY <1>7, <1>8, <1>9, <1>10, <1>11 DEF IInv

-----------------------------------------------------------------------------
LEMMA InitEstablishes == Init => IInv
<1> SUFFICES ASSUME Init PROVE IInv
  OBVIOUS
<1>1. TypeOK
  BY RequestAssumption DEF Init, TypeOK, Effective, PC, FutureState
<1>2. Holding = {} /\ Granted = {} /\ Pending = {}
  BY DEF Init, Holding, Granted, Pending
<1>3. SlotAccounting
  BY <1>2, FS_EmptySet DEF Init, SlotAccounting
<1>4. QueueSound
  BY <1>2 DEF Init, QueueSound, InQueue
<1>5. QED
  BY <1>1, <1>2, <1>3, <1>4 DEF IInv, NoIdleSlot, Lifecycle, Init

\* Steps that touch neither the slots nor the deque of pending futures.
LEMMA QuietSteps ==
  ASSUME IInv, NEW t \in Task, Resume(t) \/ Cancel(t)
  PROVE  IInv'
<1> USE DEF IInv, TypeOK
<1>1. CASE Resume(t)
  <2>1. (Holding \cup Granted)' = Holding \cup Granted /\ Pending' = Pending
    BY <1>1 DEF Resume, Holding, Granted, Pending
  <2>2. TypeOK'
    BY <1>1 DEF Resume, PC, FutureState
  <2>3. SlotAccounting' /\ NoIdleSlot'
    BY <1>1, <2>1 DEF Resume, SlotAccounting, NoIdleSlot
  <2>4. QueueSound'
    BY <1>1, <2>1 DEF Resume, QueueSound, InQueue
  <2>5. Lifecycle'
    BY <1>1 DEF Resume, Lifecycle, Granted
  <2>6. QED
    BY <2>2, <2>3, <2>4, <2>5
<1>2. CASE Cancel(t)
  <2>1. (Holding \cup Granted)' = Holding \cup Granted /\ Pending' \subseteq Pending
    BY <1>2 DEF Cancel, Holding, Granted, Pending
  <2>2. TypeOK'
    BY <1>2 DEF Cancel, PC, FutureState
  <2>3. SlotAccounting' /\ NoIdleSlot'
    BY <1>2, <2>1 DEF Cancel, SlotAccounting, NoIdleSlot
  <2>4. QueueSound'
    BY <1>2, <2>1 DEF Cancel, QueueSound, InQueue
  <2>5. Lifecycle'
    BY <1>2 DEF Cancel, Lifecycle, Granted
  <2>6. QED
    BY <2>2, <2>3, <2>4, <2>5
<1>3. QED
  BY <1>1, <1>2

LEMMA AcquireFastStep ==
  ASSUME IInv, NEW t \in Task, AcquireFast(t)
  PROVE  IInv'
<1> USE DEF IInv
<1>1. TypeOK'
  BY DEF AcquireFast, TypeOK, PC
<1>2. t \notin Holding \cup Granted
  BY DEF AcquireFast, Holding, Granted, Lifecycle, TypeOK
<1>3. (Holding \cup Granted)' = (Holding \cup Granted) \cup {t} /\ Pending' = Pending
  BY DEF AcquireFast, Holding, Granted, Pending, TypeOK
<1>4. SlotAccounting'
  <2>1. IsFiniteSet(Holding \cup Granted)
    BY TaskSubsetFinite DEF Holding, Granted
  <2>2. Cardinality((Holding \cup Granted) \cup {t}) = Cardinality(Holding \cup Granted) + 1
    BY <1>2, <2>1, FS_AddElement
  <2>3. QED
    BY <1>3, <2>2 DEF SlotAccounting, AcquireFast
<1>5. Pending = {}
  BY DEF AcquireFast, QueueSound, InQueue, TypeOK
<1>6. QED
  BY <1>1, <1>3, <1>4, <1>5
     DEF NoIdleSlot, QueueSound, InQueue, Lifecycle, AcquireFast, Granted, TypeOK

LEMMA AcquireWaitStep ==
  ASSUME IInv, NEW t \in Task, AcquireWait(t)
  PROVE  IInv'
<1> DEFINE q == Append(waiters, t)
           fut == [future EXCEPT ![t] = "pending"]
<1> USE DEF IInv
<1>1. /\ limit \in Nat \ {0} /\ inUse \in Nat /\ q \in Seq(Task)
      /\ fut \in [Task -> FutureState]
      /\ pc' \in [Task -> PC] /\ limit' = limit /\ mustCancel' = mustCancel
  BY DEF AcquireWait, TypeOK, PC, FutureState
<1>2. Len(q) = Len(waiters) + 1 /\ DOMAIN q = 1..(Len(waiters) + 1)
      /\ DOMAIN waiters = 1..Len(waiters)
      /\ \A i \in 1..(Len(waiters) + 1) : q[i] = IF i <= Len(waiters) THEN waiters[i] ELSE t
  BY DEF TypeOK
<1>3. pc[t] = "idle" /\ future[t] = "none"
  BY DEF AcquireWait, TypeOK, Lifecycle
<1>4. InQueue(q) = InQueue(waiters) \cup {t}
  <2>1. \A x \in InQueue(q) : x \in InQueue(waiters) \cup {t}
    BY <1>2 DEF InQueue
  <2>2. t \in InQueue(q)
    <3>1. Len(waiters) + 1 \in DOMAIN q /\ q[Len(waiters) + 1] = t
      BY <1>2 DEF TypeOK
    <3>2. QED
      BY <3>1 DEF InQueue
  <2>3. \A x \in InQueue(waiters) : x \in InQueue(q)
    <3>1. ASSUME NEW i \in 1..Len(waiters)
          PROVE  waiters[i] \in InQueue(q)
      <4>1. i \in DOMAIN q /\ q[i] = waiters[i]
        BY <1>2 DEF TypeOK
      <4>2. QED
        BY <4>1 DEF InQueue
    <3>2. QED
      BY <3>1, <1>2 DEF InQueue
  <2>4. QED
    BY <2>1, <2>2, <2>3
<1>5. t \notin InQueue(waiters)
  BY <1>3 DEF QueueSound
<1>6. Distinct(q)
  <2>1. \A i \in 1..Len(waiters) : waiters[i] # t
    BY <1>2, <1>5 DEF InQueue
  <2>2. QED
    BY <2>1, <1>2 DEF QueueSound, Distinct
<1>7. PendingIn(fut) = Pending \cup {t} /\ GrantedIn(fut) = Granted
  BY <1>3 DEF PendingIn, GrantedIn, Pending, Granted, TypeOK
<1>8. PendingIn(fut) \subseteq InQueue(q)
  BY <1>4, <1>7 DEF QueueSound
<1>9. \A x \in InQueue(q) : fut[x] \in {"pending", "cancelled"}
  BY <1>4 DEF QueueSound, TypeOK, InQueue
<1>10. \A x \in Task : pc'[x] = "waiting" <=> fut[x] # "none"
  BY <1>3 DEF AcquireWait, TypeOK, Lifecycle
<1>11. mustCancel' \subseteq GrantedIn(fut)
  BY <1>1, <1>7 DEF Lifecycle
<1>12. Holding' = Holding
  BY <1>3 DEF AcquireWait, Holding, TypeOK
<1>13. inUse = Cardinality(Holding' \cup GrantedIn(fut))
  BY <1>7, <1>12 DEF SlotAccounting
<1>14. WakeWaiters(limit, inUse, q, fut)
  BY DEF AcquireWait
<1> HIDE DEF q, fut, IInv
<1>15. QED
  BY <1>1, <1>6, <1>8, <1>9, <1>10, <1>11, <1>13, <1>14, WakeRestores

\* The owner of a slot gives it up (release, or the give-back of a task that
\* was cancelled after the grant); fut is the state before the wakeup.
LEMMA OneOwnerLess ==
  ASSUME IInv, NEW t \in Holding \cup Granted
  PROVE  /\ inUse > 0
         /\ inUse - 1 \in Nat
         /\ inUse - 1 = Cardinality((Holding \cup Granted) \ {t})
<1>1. IsFiniteSet(Holding \cup Granted)
  BY TaskSubsetFinite DEF Holding, Granted
<1>2. Cardinality((Holding \cup Granted) \ {t}) = Cardinality(Holding \cup Granted) - 1
  BY <1>1, FS_RemoveElement
<1>3. Cardinality((Holding \cup Granted) \ {t}) \in Nat
  BY <1>1, FS_RemoveElement, FS_CardinalityType
<1>4. QED
  BY <1>2, <1>3 DEF IInv, TypeOK, SlotAccounting

LEMMA QueueFacts ==
  ASSUME IInv
  PROVE  /\ waiters \in Seq(Task) /\ Distinct(waiters)
         /\ PendingIn(future) = Pending /\ GrantedIn(future) = Granted
         /\ Pending \subseteq InQueue(waiters)
         /\ \A x \in InQueue(waiters) : x \in Task /\ future[x] \in {"pending", "cancelled"}
BY DEF IInv, TypeOK, QueueSound, Distinct, PendingIn, GrantedIn, Pending, Granted, InQueue

LEMMA ReleaseStep ==
  ASSUME IInv, NEW t \in Task, Release(t)
  PROVE  IInv'
<1>1. t \in Holding /\ t \notin Granted
  BY DEF Release, Holding, Granted, IInv, Lifecycle, TypeOK
<1>2. inUse - 1 \in Nat /\ inUse - 1 = Cardinality((Holding \cup Granted) \ {t})
  BY <1>1, OneOwnerLess
<1>3. Holding' = Holding \ {t}
  BY DEF Release, Holding, IInv, TypeOK
<1>4. inUse - 1 = Cardinality(Holding' \cup GrantedIn(future))
  <2>1. Holding' \cup GrantedIn(future) = (Holding \cup Granted) \ {t}
    BY <1>1, <1>3, QueueFacts
  <2>2. QED
    BY <1>2, <2>1
<1>5. /\ limit' = limit /\ limit \in Nat \ {0} /\ pc' \in [Task -> PC]
      /\ mustCancel' \subseteq GrantedIn(future) /\ future \in [Task -> FutureState]
  BY QueueFacts DEF Release, IInv, TypeOK, Lifecycle, PC
<1>6. \A x \in Task : pc'[x] = "waiting" <=> future[x] # "none"
  BY DEF Release, IInv, TypeOK, Lifecycle
<1>7. WakeWaiters(limit, inUse - 1, waiters, future)
  BY DEF Release
<1>8. QED
  BY <1>2, <1>4, <1>5, <1>6, <1>7, QueueFacts, WakeRestores

LEMMA GiveBackStep ==
  ASSUME IInv, NEW t \in Task, GiveBack(t)
  PROVE  IInv'
<1> DEFINE fut == [future EXCEPT ![t] = "none"]
<1>1. t \in Granted /\ t \notin Holding
  BY DEF GiveBack, Holding, Granted, IInv, TypeOK
<1>2. inUse > 0 /\ inUse - 1 \in Nat /\ inUse - 1 = Cardinality((Holding \cup Granted) \ {t})
  BY <1>1, OneOwnerLess
<1>3. Holding' = Holding
  BY DEF GiveBack, Holding, IInv, TypeOK
<1>4. PendingIn(fut) = Pending /\ GrantedIn(fut) = Granted \ {t}
  BY <1>1 DEF PendingIn, GrantedIn, Pending, Granted, IInv, TypeOK
<1>5. inUse - 1 = Cardinality(Holding' \cup GrantedIn(fut))
  <2>1. Holding' \cup GrantedIn(fut) = (Holding \cup Granted) \ {t}
    BY <1>1, <1>3, <1>4
  <2>2. QED
    BY <1>2, <2>1
<1>6. /\ limit' = limit /\ limit \in Nat \ {0} /\ pc' \in [Task -> PC]
      /\ mustCancel' \subseteq GrantedIn(fut) /\ fut \in [Task -> FutureState]
  BY <1>4 DEF GiveBack, IInv, TypeOK, Lifecycle, PC, FutureState
<1>7. \A x \in Task : pc'[x] = "waiting" <=> fut[x] # "none"
  BY DEF GiveBack, IInv, TypeOK, Lifecycle
<1>8. \A x \in InQueue(waiters) : fut[x] \in {"pending", "cancelled"}
  BY <1>1, QueueFacts DEF Granted, IInv, TypeOK
<1>9. WakeWaiters(limit, inUse - 1, waiters, fut)
  BY <1>2 DEF GiveBack
<1> HIDE DEF fut
<1>10. QED
  BY <1>2, <1>4, <1>5, <1>6, <1>7, <1>8, <1>9, QueueFacts, WakeRestores

LEMMA SetLimitStep ==
  ASSUME IInv, NEW n \in Request, SetLimit(n)
  PROVE  IInv'
<1>1. limit' \in Nat \ {0}
  BY RequestAssumption DEF SetLimit, Effective
<1>2. Holding' = Holding
  BY DEF SetLimit, Holding
<1>3. inUse \in Nat /\ inUse = Cardinality(Holding' \cup GrantedIn(future))
  BY <1>2, QueueFacts DEF IInv, SlotAccounting, TypeOK
<1>4. /\ pc' \in [Task -> PC] /\ future \in [Task -> FutureState]
      /\ mustCancel' \subseteq GrantedIn(future)
      /\ \A x \in Task : pc'[x] = "waiting" <=> future[x] # "none"
  BY QueueFacts DEF SetLimit, IInv, TypeOK, Lifecycle
<1>5. WakeWaiters(limit', inUse, waiters, future)
  BY DEF SetLimit
<1>6. QED
  BY <1>1, <1>3, <1>4, <1>5, QueueFacts, WakeRestores

LEMMA LeaveQueueStep ==
  ASSUME IInv, NEW t \in Task, LeaveQueue(t)
  PROVE  IInv'
<1> USE DEF IInv
<1>1. (Holding \cup Granted)' = Holding \cup Granted /\ Pending' = Pending
  BY DEF LeaveQueue, Holding, Granted, Pending, TypeOK
<1>2. /\ waiters' \in Seq(Task)
      /\ Distinct(waiters')
      /\ InQueue(waiters') = InQueue(waiters) \ {t}
  <2>1. CASE t \notin InQueue(waiters) /\ UNCHANGED waiters
    BY <2>1 DEF TypeOK, QueueSound, Distinct, InQueue
  <2>2. CASE \E i \in DOMAIN waiters :
               /\ waiters[i] = t
               /\ waiters' = SubSeq(waiters, 1, i - 1) \o SubSeq(waiters, i + 1, Len(waiters))
    <3>1. PICK i \in DOMAIN waiters :
               /\ waiters[i] = t
               /\ waiters' = SubSeq(waiters, 1, i - 1) \o SubSeq(waiters, i + 1, Len(waiters))
      BY <2>2
    <3> DEFINE n == Len(waiters)
               l == SubSeq(waiters, 1, i - 1)
               r == SubSeq(waiters, i + 1, n)
    <3>2. n \in Nat /\ DOMAIN waiters = 1..n /\ i \in 1..n
          /\ \A j \in 1..n : waiters[j] \in Task
      BY DEF TypeOK
    <3>3. l \in Seq(Task) /\ Len(l) = i - 1 /\ \A j \in 1..(i - 1) : l[j] = waiters[j]
      <4>1. /\ l \in Seq(Task)
            /\ Len(l) = IF 1 <= i - 1 THEN (i - 1) - 1 + 1 ELSE 0
            /\ \A j \in 1..((i - 1) - 1 + 1) : l[j] = waiters[1 + j - 1]
        <5>1. \A j \in 1..(i - 1) : waiters[j] \in Task
          BY <3>2
        <5>2. 1 \in Int /\ i - 1 \in Int
          BY <3>2
        <5>3. QED
          BY <5>1, <5>2, SubSeqProperties
      <4>2. Len(l) = i - 1
        BY <4>1, <3>2
      <4>3. ASSUME NEW j \in 1..(i - 1)
            PROVE  l[j] = waiters[j]
        <5>1. j \in 1..((i - 1) - 1 + 1) /\ 1 + j - 1 = j
          BY <3>2
        <5>2. QED
          BY <5>1, <4>1
      <4>4. QED
        BY <4>1, <4>2, <4>3
    <3>4. r \in Seq(Task) /\ Len(r) = n - i /\ \A j \in 1..(n - i) : r[j] = waiters[i + j]
      <4>1. /\ r \in Seq(Task)
            /\ Len(r) = IF i + 1 <= n THEN n - (i + 1) + 1 ELSE 0
            /\ \A j \in 1..(n - (i + 1) + 1) : r[j] = waiters[(i + 1) + j - 1]
        <5>1. \A j \in (i + 1)..n : waiters[j] \in Task
          BY <3>2
        <5>2. i + 1 \in Int /\ n \in Int
          BY <3>2
        <5>3. QED
          BY <5>1, <5>2, SubSeqProperties, SMTT(30)
      <4>2. Len(r) = n - i
        BY <4>1, <3>2
      <4>3. ASSUME NEW j \in 1..(n - i)
            PROVE  r[j] = waiters[i + j]
        <5>1. j \in 1..(n - (i + 1) + 1) /\ (i + 1) + j - 1 = i + j
          BY <3>2
        <5>2. QED
          BY <5>1, <4>1
      <4>4. QED
        BY <4>1, <4>2, <4>3
    <3>5. waiters' = l \o r
      BY <3>1
    <3> HIDE DEF l, r
    <3>6. /\ waiters' \in Seq(Task) /\ Len(waiters') = n - 1
          /\ \A j \in 1..(n - 1) :
               waiters'[j] = IF j <= i - 1 THEN l[j] ELSE r[j - (i - 1)]
      <4>1. /\ l \o r \in Seq(Task) /\ Len(l \o r) = Len(l) + Len(r)
            /\ \A j \in 1..(Len(l) + Len(r)) :
                 (l \o r)[j] = IF j <= Len(l) THEN l[j] ELSE r[j - Len(l)]
        BY <3>3, <3>4, ConcatProperties
      <4>2. Len(l) + Len(r) = n - 1
        BY <3>2, <3>3, <3>4
      <4>3. QED
        BY <4>1, <4>2, <3>3, <3>5
    <3>7. \A j \in 1..(n - 1) :
             waiters'[j] = IF j <= i - 1 THEN waiters[j] ELSE waiters[j + 1]
      <4>1. SUFFICES ASSUME NEW j \in 1..(n - 1)
                     PROVE  waiters'[j] = IF j <= i - 1 THEN waiters[j] ELSE waiters[j + 1]
        OBVIOUS
      <4>2. CASE j <= i - 1
        <5>1. j \in 1..(i - 1)
          BY <4>2, <3>2
        <5>2. QED
          BY <5>1, <4>2, <3>3, <3>6
      <4>3. CASE ~(j <= i - 1)
        <5>1. j - (i - 1) \in 1..(n - i) /\ i + (j - (i - 1)) = j + 1
          BY <4>3, <3>2
        <5>2. r[j - (i - 1)] = waiters[j + 1]
          BY <5>1, <3>4
        <5>3. QED
          BY <5>2, <4>3, <3>6
      <4>4. QED
        BY <4>2, <4>3
    <3>8. DOMAIN waiters' = 1..(n - 1)
      BY <3>6
    <3>9. \A a, b \in 1..n : waiters[a] = waiters[b] => a = b
      BY <3>2 DEF QueueSound
    <3>10. Distinct(waiters')
      <4>1. SUFFICES ASSUME NEW a \in 1..(n - 1), NEW b \in 1..(n - 1), waiters'[a] = waiters'[b]
                     PROVE  a = b
        BY <3>8 DEF Distinct
      <4> DEFINE old(j) == IF j <= i - 1 THEN j ELSE j + 1
      <4>2. old(a) \in 1..n /\ old(b) \in 1..n
        BY <3>2
      <4>3. waiters[old(a)] = waiters[old(b)]
        BY <4>1, <3>7
      <4>4. old(a) = old(b)
        BY <4>2, <4>3, <3>9
      <4>5. QED
        BY <4>4, <3>2
    <3>11. InQueue(waiters') = InQueue(waiters) \ {t}
      <4>1. ASSUME NEW j \in 1..(n - 1)
            PROVE  waiters'[j] \in InQueue(waiters) \ {t}
        <5>1. CASE j <= i - 1
          <6>1. j \in 1..n /\ j # i
            BY <5>1, <3>2
          <6>2. QED
            BY <6>1, <5>1, <3>1, <3>2, <3>7, <3>9 DEF InQueue
        <5>2. CASE ~(j <= i - 1)
          <6>1. j + 1 \in 1..n /\ j + 1 # i
            BY <5>2, <3>2
          <6>2. QED
            BY <6>1, <5>2, <3>1, <3>2, <3>7, <3>9 DEF InQueue
        <5>3. QED
          BY <5>1, <5>2
      <4>2. ASSUME NEW j \in 1..n, waiters[j] # t
            PROVE  waiters[j] \in InQueue(waiters')
        <5>1. j # i
          BY <4>2, <3>1
        <5>2. CASE j < i
          <6>1. j \in 1..(n - 1) /\ j <= i - 1
            BY <5>2, <3>2
          <6>2. QED
            BY <6>1, <3>7, <3>8 DEF InQueue
        <5>3. CASE j > i
          <6>1. j - 1 \in 1..(n - 1) /\ ~(j - 1 <= i - 1) /\ (j - 1) + 1 = j
            BY <5>3, <3>2
          <6>2. QED
            BY <6>1, <3>7, <3>8 DEF InQueue
        <5>4. QED
          BY <5>1, <5>2, <5>3, <3>2
      <4>3. QED
        BY <4>1, <4>2, <3>2, <3>8 DEF InQueue
    <3>12. QED
      BY <3>6, <3>10, <3>11
  <2>3. QED
    BY <2>1, <2>2 DEF LeaveQueue
<1>3. t \notin Pending
  BY DEF LeaveQueue, Pending
<1>4. TypeOK'
  BY <1>2 DEF LeaveQueue, TypeOK, PC, FutureState
<1>5. SlotAccounting' /\ NoIdleSlot'
  BY <1>1 DEF LeaveQueue, SlotAccounting, NoIdleSlot
<1>6. QueueSound'
  <2>1. Pending' \subseteq InQueue(waiters')
    BY <1>1, <1>2, <1>3 DEF QueueSound
  <2>2. \A x \in InQueue(waiters') : future'[x] \in {"pending", "cancelled"}
    <3>1. \A x \in InQueue(waiters') : x \in Task /\ x # t /\ future[x] \in {"pending", "cancelled"}
      BY <1>2, QueueFacts
    <3>2. QED
      BY <3>1 DEF LeaveQueue, TypeOK
  <2>3. QED
    BY <2>1, <2>2, <1>2 DEF QueueSound, Distinct, InQueue
<1>7. Lifecycle'
  BY DEF LeaveQueue, Lifecycle, TypeOK, Granted
<1>8. QED
  BY <1>4, <1>5, <1>6, <1>7

\* IInv is inductive.
LEMMA NextPreserves == IInv /\ [Next]_vars => IInv'
<1> SUFFICES ASSUME IInv, [Next]_vars PROVE IInv'
  OBVIOUS
<1>1. CASE UNCHANGED vars
  BY <1>1 DEF vars, IInv, TypeOK, SlotAccounting, NoIdleSlot, QueueSound, Lifecycle,
              Holding, Granted, Pending, InQueue
<1>2. ASSUME NEW t \in Task, Step(t)
      PROVE  IInv'
  BY <1>2, QuietSteps, AcquireFastStep, AcquireWaitStep, ReleaseStep, GiveBackStep,
     LeaveQueueStep DEF Step
<1>3. ASSUME NEW n \in Request, SetLimit(n)
      PROVE  IInv'
  BY <1>3, SetLimitStep
<1>4. QED
  BY <1>1, <1>2, <1>3 DEF Next

(***************************************************************************)
(* The limiter's slots are counted exactly, whatever tasks are cancelled   *)
(* or time out while they acquire, and whatever limits are set.            *)
(***************************************************************************)
THEOREM SlotsCounted == Spec => []SlotAccounting
<1>1. IInv => SlotAccounting
  BY DEF IInv
<1>2. QED
  BY <1>1, InitEstablishes, NextPreserves, PTL DEF Spec

\* The state variables keep their types: the limit stays positive and the
\* counter never becomes negative.
THEOREM TypeCorrect == Spec => []TypeOK
<1>1. IInv => TypeOK
  BY DEF IInv
<1>2. QED
  BY <1>1, InitEstablishes, NextPreserves, PTL DEF Spec

\* No wakeup is lost in release(), set_limit() or a cancelled acquire().
THEOREM NoLostWakeup == Spec => []NoIdleSlot
<1>1. IInv => NoIdleSlot
  BY DEF IInv
<1>2. QED
  BY <1>1, InitEstablishes, NextPreserves, PTL DEF Spec

\* The deque of _AdjustableCapacity holds each waiting future exactly once
\* and no future that already owns a slot.
THEOREM DequeSound == Spec => []QueueSound
<1>1. IInv => QueueSound
  BY DEF IInv
<1>2. QED
  BY <1>1, InitEstablishes, NextPreserves, PTL DEF Spec

-----------------------------------------------------------------------------
Owners == Holding \cup Granted

\* How a step moves the slots: at most one owner leaves, new owners fit the
\* limit, and nobody who waits ahead of a new owner is passed over.
Shape(gone, new) ==
  /\ \A s, t \in gone : s = t
  /\ Owners' = (Owners \ gone) \cup new
  /\ new # {} => inUse' <= limit'
  /\ \A t \in new, u \in Pending : Ahead(u, t) => u \notin Pending'

StepShape == \E gone \in SUBSET Owners, new \in SUBSET (Task \ Owners) : Shape(gone, new)

\* A wakeup started from deque q, which extends the deque of the state by
\* tasks that come after it, serves q in order.
LEMMA WakeInOrder ==
  ASSUME NEW lim \in Nat, NEW used \in Nat, NEW q \in Seq(Task),
         NEW fut \in [Task -> FutureState],
         Distinct(q), PendingIn(fut) \subseteq InQueue(q),
         limit' = lim,
         \A i \in DOMAIN waiters : i \in DOMAIN q /\ q[i] = waiters[i],
         \A i \in DOMAIN waiters, j \in DOMAIN q : j \notin DOMAIN waiters => i < j,
         WakeWaiters(lim, used, q, fut)
  PROVE  \E G \in SUBSET PendingIn(fut) :
           /\ Granted' = GrantedIn(fut) \cup G
           /\ G # {} => inUse' <= limit'
           /\ \A t \in G, u \in Pending : Ahead(u, t) => u \notin Pending'
<1>1. WakeEffect(lim, used, q, fut)
  BY WakeLemma
<1>2. PICK G \in SUBSET PendingIn(fut) :
         /\ future' = [t \in Task |-> IF t \in G THEN "granted" ELSE fut[t]]
         /\ G # {} => inUse' <= lim
         /\ \A i, j \in DOMAIN q : i < j /\ q[j] \in G => q[i] \notin PendingIn(fut) \ G
  BY <1>1 DEF WakeEffect
<1>3. \A t \in G : t \in Task /\ fut[t] = "pending"
  BY <1>2 DEF PendingIn
<1>4. Pending' = PendingIn(fut) \ G
  BY <1>2, <1>3 DEF Pending, PendingIn
<1>5. Granted' = GrantedIn(fut) \cup G
  BY <1>2, <1>3 DEF Granted, GrantedIn
<1>6. ASSUME NEW t \in G, NEW u \in Pending, Ahead(u, t)
      PROVE  u \notin Pending'
  <2>1. PICK i \in DOMAIN waiters :
           /\ waiters[i] = u
           /\ \A j \in DOMAIN waiters : waiters[j] = t => i < j
    BY <1>6 DEF Ahead
  <2>2. PICK j \in DOMAIN q : q[j] = t
    BY DEF InQueue
  <2>3. i \in DOMAIN q /\ q[i] = u
    BY <2>1
  <2>4. i < j
    BY <2>1, <2>2
  <2>5. u \notin PendingIn(fut) \ G
    BY <1>2, <2>2, <2>3, <2>4
  <2>6. QED
    BY <1>4, <2>5
<1>7. QED
  BY <1>2, <1>5, <1>6

LEMMA StepHasShape ==
  ASSUME IInv, Next
  PROVE  StepShape
<1> USE QueueFacts
<1>0. /\ limit \in Nat \ {0} /\ inUse \in Nat /\ future \in [Task -> FutureState]
      /\ pc \in [Task -> PC]
      /\ Owners \in SUBSET Task
      /\ Pending \cap Owners = {}
  <2>1. \A t \in Task : pc[t] = "holding" => future[t] = "none"
    BY DEF IInv, Lifecycle
  <2>2. QED
    BY <2>1 DEF IInv, TypeOK, Owners, Holding, Granted, Pending
<1>1. ASSUME NEW t \in Task, AcquireFast(t)
      PROVE  StepShape
  <2>1. t \notin Owners
    BY <1>1 DEF AcquireFast, Owners, Holding, Granted, IInv, Lifecycle, TypeOK
  <2>2. Owners' = (Owners \ {}) \cup {t}
    BY <1>0, <1>1 DEF AcquireFast, Owners, Holding, Granted
  <2>3. inUse' <= limit'
    BY <1>0, <1>1 DEF AcquireFast
  <2>4. DOMAIN waiters = {}
    BY <1>1 DEF AcquireFast
  <2>5. Shape({}, {t})
    BY <2>2, <2>3, <2>4 DEF Shape, Ahead
  <2>6. QED
    BY <2>1, <2>5 DEF StepShape
<1>2. ASSUME NEW t \in Task, AcquireWait(t)
      PROVE  StepShape
  <2> DEFINE q == Append(waiters, t)
             fut == [future EXCEPT ![t] = "pending"]
  <2>1. WakeWaiters(limit, inUse, q, fut) /\ limit' = limit
    BY <1>2 DEF AcquireWait
  <2>2. q \in Seq(Task) /\ fut \in [Task -> FutureState]
    BY <1>0 DEF FutureState
  <2>3. /\ Len(waiters) \in Nat
        /\ DOMAIN q = 1..(Len(waiters) + 1) /\ DOMAIN waiters = 1..Len(waiters)
        /\ \A i \in 1..(Len(waiters) + 1) : q[i] = IF i <= Len(waiters) THEN waiters[i] ELSE t
    OBVIOUS
  <2>4. pc[t] = "idle" /\ future[t] = "none"
    BY <1>2 DEF AcquireWait, IInv, Lifecycle
  <2>5. t \notin InQueue(waiters)
    BY <2>4
  <2>6. Distinct(q)
    <3>1. \A i \in 1..Len(waiters) : waiters[i] # t
      BY <2>3, <2>5 DEF InQueue
    <3>2. QED
      BY <3>1, <2>3 DEF Distinct
  <2>7. PendingIn(fut) = Pending \cup {t} /\ GrantedIn(fut) = Granted
    BY <1>0, <2>4 DEF PendingIn, GrantedIn, Pending, Granted
  <2>8. PendingIn(fut) \subseteq InQueue(q)
    <3>1. t \in InQueue(q)
      <4>1. Len(waiters) + 1 \in DOMAIN q /\ q[Len(waiters) + 1] = t
        BY <2>3
      <4>2. QED
        BY <4>1 DEF InQueue
    <3>2. \A x \in InQueue(waiters) : x \in InQueue(q)
      <4>1. \A i \in 1..Len(waiters) : i \in DOMAIN q /\ q[i] = waiters[i]
        BY <2>3
      <4>2. QED
        BY <4>1, <2>3 DEF InQueue
    <3>3. QED
      BY <3>1, <3>2, <2>7
  <2>9. /\ \A i \in DOMAIN waiters : i \in DOMAIN q /\ q[i] = waiters[i]
        /\ \A i \in DOMAIN waiters, j \in DOMAIN q : j \notin DOMAIN waiters => i < j
    BY <2>3
  <2> HIDE DEF q, fut
  <2>10. PICK G \in SUBSET PendingIn(fut) :
           /\ Granted' = GrantedIn(fut) \cup G
           /\ G # {} => inUse' <= limit'
           /\ \A x \in G, u \in Pending : Ahead(u, x) => u \notin Pending'
    BY <1>0, <2>1, <2>2, <2>6, <2>8, <2>9, WakeInOrder
  <2>11. Holding' = Holding
    BY <1>0, <1>2, <2>4 DEF AcquireWait, Holding
  <2>12. t \notin Owners
    BY <2>4 DEF Owners, Holding, Granted
  <2>13. G \in SUBSET (Task \ Owners)
    BY <1>0, <2>7, <2>10, <2>12 DEF Pending
  <2>14. Owners' = (Owners \ {}) \cup G
    BY <2>7, <2>10, <2>11 DEF Owners
  <2>15. Shape({}, G)
    BY <2>10, <2>14 DEF Shape
  <2>16. QED
    BY <2>13, <2>15 DEF StepShape
<1>3. ASSUME NEW t \in Task, Resume(t) \/ Cancel(t) \/ LeaveQueue(t)
      PROVE  StepShape
  <2>1. Owners' = (Owners \ {}) \cup {}
    BY <1>0, <1>3 DEF Resume, Cancel, LeaveQueue, Owners, Holding, Granted
  <2>2. Shape({}, {})
    BY <2>1 DEF Shape
  <2>3. QED
    BY <2>2 DEF StepShape
<1>4. ASSUME NEW t \in Task, NEW fut \in [Task -> FutureState], t \in Owners,
             PendingIn(fut) = Pending, Holding' \cup GrantedIn(fut) = Owners \ {t},
             limit' = limit, WakeWaiters(limit, inUse - 1, waiters, fut)
      PROVE  StepShape
  <2>1. inUse - 1 \in Nat
    BY <1>4, OneOwnerLess DEF Owners
  <2>2. PICK G \in SUBSET PendingIn(fut) :
           /\ Granted' = GrantedIn(fut) \cup G
           /\ G # {} => inUse' <= limit'
           /\ \A x \in G, u \in Pending : Ahead(u, x) => u \notin Pending'
    BY <1>0, <1>4, <2>1, WakeInOrder
  <2>3. G \in SUBSET (Task \ Owners)
    BY <1>0, <1>4, <2>2 DEF Pending
  <2>4. Owners' = (Owners \ {t}) \cup G
    BY <1>4, <2>2 DEF Owners
  <2>5. Shape({t}, G)
    BY <2>2, <2>4 DEF Shape
  <2>6. QED
    BY <1>4, <2>3, <2>5 DEF StepShape
<1>5. ASSUME NEW t \in Task, GiveBack(t)
      PROVE  StepShape
  <2> DEFINE fut == [future EXCEPT ![t] = "none"]
  <2>1. t \in Granted /\ t \notin Holding /\ t \in Owners
    BY <1>5 DEF GiveBack, Holding, Granted, Owners
  <2>2. Holding' = Holding
    BY <1>0, <1>5 DEF GiveBack, Holding
  <2>3. PendingIn(fut) = Pending /\ GrantedIn(fut) = Granted \ {t}
    BY <1>0, <2>1 DEF PendingIn, GrantedIn, Pending, Granted
  <2>4. Holding' \cup GrantedIn(fut) = Owners \ {t}
    BY <2>1, <2>2, <2>3 DEF Owners
  <2>5. fut \in [Task -> FutureState]
    BY <1>0 DEF FutureState
  <2>6. WakeWaiters(limit, inUse - 1, waiters, fut) /\ limit' = limit
    BY <1>5, <2>1, OneOwnerLess DEF GiveBack
  <2> HIDE DEF fut
  <2>7. QED
    BY <1>4, <2>1, <2>3, <2>4, <2>5, <2>6
<1>6. ASSUME NEW t \in Task, Release(t)
      PROVE  StepShape
  <2>1. t \in Holding /\ t \notin Granted /\ t \in Owners
    BY <1>6 DEF Release, Holding, Granted, Owners, IInv, Lifecycle
  <2>2. Holding' = Holding \ {t}
    BY <1>0, <1>6 DEF Release, Holding
  <2>3. Holding' \cup GrantedIn(future) = Owners \ {t}
    BY <2>1, <2>2 DEF Owners
  <2>4. WakeWaiters(limit, inUse - 1, waiters, future) /\ limit' = limit
    BY <1>6 DEF Release
  <2>5. QED
    BY <1>0, <1>4, <2>1, <2>3, <2>4
<1>7. ASSUME NEW n \in Request, SetLimit(n)
      PROVE  StepShape
  <2>1. limit' \in Nat
    BY <1>7, RequestAssumption DEF SetLimit, Effective
  <2>2. WakeWaiters(limit', inUse, waiters, future) /\ Holding' = Holding
    BY <1>7 DEF SetLimit, Holding
  <2>3. PICK G \in SUBSET PendingIn(future) :
           /\ Granted' = GrantedIn(future) \cup G
           /\ G # {} => inUse' <= limit'
           /\ \A x \in G, u \in Pending : Ahead(u, x) => u \notin Pending'
    BY <1>0, <2>1, <2>2, WakeInOrder
  <2>4. G \in SUBSET (Task \ Owners) /\ Owners' = (Owners \ {}) \cup G
    BY <1>0, <2>2, <2>3 DEF Owners, Pending
  <2>5. Shape({}, G)
    BY <2>3, <2>4 DEF Shape
  <2>6. QED
    BY <2>4, <2>5 DEF StepShape
<1>8. QED
  BY <1>1, <1>2, <1>3, <1>5, <1>6, <1>7 DEF Next, Step

(***************************************************************************)
(* Nobody is overtaken: neither acquire()'s fast path nor _wake_waiters()  *)
(* gives a slot to a task while one that came earlier keeps waiting.       *)
(***************************************************************************)
THEOREM NoOvertaking == Spec => FirstComeFirstServed
<1> DEFINE Fair ==
      \A t, u \in Task :
        /\ t \notin (Holding \cup Granted) /\ t \in (Holding \cup Granted)'
        /\ u \in Pending /\ Ahead(u, t)
        => u \notin Pending'
<1>1. ASSUME IInv, [Next]_vars
      PROVE  [Fair]_vars
  <2>1. CASE UNCHANGED vars
    BY <2>1
  <2>2. CASE Next
    <3>1. PICK gone \in SUBSET Owners, new \in SUBSET (Task \ Owners) : Shape(gone, new)
      BY <1>1, <2>2, StepHasShape DEF StepShape
    <3>2. QED
      BY <3>1 DEF Shape, Owners
  <2>3. QED
    BY <1>1, <2>1, <2>2
<1>2. QED
  BY <1>1, InitEstablishes, NextPreserves, PTL DEF Spec, FirstComeFirstServed

(***************************************************************************)
(* The limiter implements the resizable, work-conserving semaphore that    *)
(* its class comment describes.                                            *)
(***************************************************************************)
THEOREM ImplementsSemaphore == Spec => Implements
<1>0. \A S : Semaphore!Cardinality(S) = Cardinality(S)
  BY DEF Semaphore!Cardinality, Cardinality
<1>1. Init => Semaphore!Init
  <2> SUFFICES ASSUME Init PROVE Semaphore!Init
    OBVIOUS
  <2>1. limit \in Nat \ {0}
    BY InitEstablishes DEF IInv, TypeOK
  <2>2. Holding \cup Granted = {} /\ Pending = {}
    BY DEF Init, Holding, Granted, Pending
  <2>3. QED
    BY <2>1, <2>2 DEF Semaphore!Init
<1>2. ASSUME IInv, IInv', [Next]_vars
      PROVE  [Semaphore!Next]_(Semaphore!vars)
  <2>1. CASE UNCHANGED vars
    BY <2>1 DEF vars, Semaphore!vars, Holding, Granted, Pending
  <2>2. CASE Next
    <3>1. PICK gone \in SUBSET Owners, new \in SUBSET (Task \ Owners) : Shape(gone, new)
      BY <1>2, <2>2, StepHasShape DEF StepShape
    <3>2. limit' \in Nat \ {0} /\ Pending' \in SUBSET Task
      BY <1>2 DEF IInv, TypeOK, Pending
    <3>3. inUse' = Cardinality(Owners')
      BY <1>2 DEF IInv, SlotAccounting, Owners
    <3>4. Pending' \cap Owners' = {}
      <4>1. \A t \in Task : pc'[t] = "holding" => future'[t] = "none"
        BY <1>2 DEF IInv, Lifecycle
      <4>2. QED
        BY <4>1 DEF Owners, Holding, Granted, Pending
    <3>5. Semaphore!WorkConserving'
      BY <1>0, <1>2, <3>3 DEF IInv, NoIdleSlot, Semaphore!WorkConserving, Owners
    <3>6. Semaphore!Next
      BY <1>0, <3>1, <3>2, <3>3, <3>4, <3>5 DEF Shape, Owners, Semaphore!Next
    <3>7. QED
      BY <3>6
  <2>3. QED
    BY <1>2, <2>1, <2>2
<1>3. QED
  BY <1>1, <1>2, InitEstablishes, NextPreserves, PTL DEF Spec, Implements, Semaphore!Spec

-----------------------------------------------------------------------------
(* Borg's local state on devices and manager.  The inductive invariant.    *)

Cleaning == {"scan", "select", "delete"}
Streaming == {"stream", "stream-security"}
Restoring == {"unpack", "move", "install", "installed", "install-security"}
Stages == Idle \cup Cleaning \cup Streaming \cup Restoring

\* Where a request of a kind can be.
KindStage(what, where) ==
  /\ what \in Cleanups => where \in Cleaning \cup {"done"}
  /\ what = "collect" => where \in Streaming \cup {"done"}
  /\ what = "restore" => where \in Restoring \cup {"done", "interrupted"}
  /\ what = None <=> where = "new"

\* The local variables of a request, which depend on how far it is.  What it is
\* about to delete, it may delete by what it has read.
IsRequest(r) ==
  r = [place |-> r.place, names |-> r.names, assigned |-> r.assigned, seen |-> r.seen,
       saved |-> r.saved, states |-> r.states, moved |-> r.moved]
RequestOK(what, where, r) ==
  /\ KindStage(what, where)
  /\ IsRequest(r)
  /\ r.assigned \subseteq Repo
  /\ r.saved \in CacheDir /\ r.moved \in CacheDir
  /\ r.states \subseteq Borg \X SecurityState
  /\ where \in Cleaning => \E h \in Node : r.place = <<h>>
  /\ where \in Streaming \cup Restoring => r.place \in Place
  /\ where \in Restoring => r.saved # NoCache
  /\ where = "delete" => \A n \in r.names : Allowed(what, r.assigned, r.seen, n)

DiskOK ==
  /\ jobs \subseteq Place /\ enabled \subseteq Node /\ active \subseteq Place
  /\ cache \in [Place -> CacheDir]
  /\ copies \in [Place -> SUBSET CacheDir]
  /\ security \in [Node -> [Borg -> SecurityState]]
  /\ artifacts \subseteq [repo : Repo, cache : CacheDir \ {NoCache},
                          states : SUBSET (Borg \X SecurityState)]
RequestsOK ==
  /\ kind \in [Req -> Kinds \cup {None}]
  /\ at \in [Req -> Stages]
  /\ req = [q \in Req |-> req[q]]
  /\ \A q \in Req : RequestOK(kind[q], at[q], req[q])
CachesInv == DiskOK /\ RequestsOK

-----------------------------------------------------------------------------
LEMMA CachesConstants ==
  /\ IsFiniteSet(Borg) /\ None \notin Location
  /\ BorgOf \in [Repo -> Borg] /\ LocationOf \in [Repo -> Location]
  /\ Managed \subseteq Repo /\ None \notin Borg
  /\ Assigned \subseteq Place
BY ConstantAssumption

LEMMA NoCacheTyped == NoCache \in CacheDir /\ NoState \in SecurityState
BY DEF NoCache, NoState, CacheDir, SecurityState, None

LEMMA NoReqIsRequest ==
  /\ IsRequest(NoReq)
  /\ NoReq.assigned \subseteq Repo
  /\ NoReq.saved \in CacheDir /\ NoReq.moved \in CacheDir
  /\ NoReq.states \subseteq Borg \X SecurityState
<1>1. IsRequest(NoReq)
  BY DEF IsRequest, NoReq
<1>2. NoReq.assigned = {} /\ NoReq.saved = NoCache /\ NoReq.moved = NoCache /\ NoReq.states = {}
  BY DEF NoReq
<1>3. QED
  BY <1>1, <1>2, NoCacheTyped

\* What an assignment to some of the variables of a request leaves as it was.
LEMMA RecordUpdate ==
  ASSUME NEW r, IsRequest(r), NEW v
  PROVE  /\ [r EXCEPT !.place = v] =
              [place |-> v, names |-> r.names, assigned |-> r.assigned, seen |-> r.seen,
               saved |-> r.saved, states |-> r.states, moved |-> r.moved]
         /\ [r EXCEPT !.names = v] =
              [place |-> r.place, names |-> v, assigned |-> r.assigned, seen |-> r.seen,
               saved |-> r.saved, states |-> r.states, moved |-> r.moved]
         /\ [r EXCEPT !.assigned = v] =
              [place |-> r.place, names |-> r.names, assigned |-> v, seen |-> r.seen,
               saved |-> r.saved, states |-> r.states, moved |-> r.moved]
         /\ [r EXCEPT !.seen = v] =
              [place |-> r.place, names |-> r.names, assigned |-> r.assigned, seen |-> v,
               saved |-> r.saved, states |-> r.states, moved |-> r.moved]
         /\ [r EXCEPT !.saved = v] =
              [place |-> r.place, names |-> r.names, assigned |-> r.assigned, seen |-> r.seen,
               saved |-> v, states |-> r.states, moved |-> r.moved]
         /\ [r EXCEPT !.states = v] =
              [place |-> r.place, names |-> r.names, assigned |-> r.assigned, seen |-> r.seen,
               saved |-> r.saved, states |-> v, moved |-> r.moved]
         /\ [r EXCEPT !.moved = v] =
              [place |-> r.place, names |-> r.names, assigned |-> r.assigned, seen |-> r.seen,
               saved |-> r.saved, states |-> r.states, moved |-> v]
<1>1. PICK a, b, c, d, e, f, g :
        r = [place |-> a, names |-> b, assigned |-> c, seen |-> d, saved |-> e,
             states |-> f, moved |-> g]
  BY DEF IsRequest
<1>2. QED
  BY <1>1

LEMMA CleanupRecord ==
  ASSUME NEW r, IsRequest(r), NEW v, NEW w, NEW x
  PROVE  [r EXCEPT !.place = v, !.names = w, !.assigned = x] =
           [place |-> v, names |-> w, assigned |-> x, seen |-> r.seen,
            saved |-> r.saved, states |-> r.states, moved |-> r.moved]
<1> DEFINE s == [r EXCEPT !.place = v]
           t == [s EXCEPT !.names = w]
           u == [t EXCEPT !.assigned = x]
<1>1. [r EXCEPT !.place = v, !.names = w, !.assigned = x] = u
  OBVIOUS
<1>2. s = [place |-> v, names |-> r.names, assigned |-> r.assigned, seen |-> r.seen,
           saved |-> r.saved, states |-> r.states, moved |-> r.moved]
  BY RecordUpdate
<1>3. ASSUME IsRequest(s)
      PROVE  t = [place |-> s.place, names |-> w, assigned |-> s.assigned, seen |-> s.seen,
                  saved |-> s.saved, states |-> s.states, moved |-> s.moved]
  <2> HIDE DEF s
  <2>1. QED
    BY <1>3, RecordUpdate
<1>4. ASSUME IsRequest(t)
      PROVE  u = [place |-> t.place, names |-> t.names, assigned |-> x, seen |-> t.seen,
                  saved |-> t.saved, states |-> t.states, moved |-> t.moved]
  <2> HIDE DEF t
  <2>1. QED
    BY <1>4, RecordUpdate
<1> HIDE DEF s, t, u
<1>5. IsRequest(s)
  BY <1>2 DEF IsRequest
<1>6. t = [place |-> v, names |-> w, assigned |-> r.assigned, seen |-> r.seen,
           saved |-> r.saved, states |-> r.states, moved |-> r.moved]
  BY <1>2, <1>3, <1>5
<1>7. IsRequest(t)
  BY <1>6 DEF IsRequest
<1>8. u = [place |-> v, names |-> w, assigned |-> x, seen |-> r.seen,
           saved |-> r.saved, states |-> r.states, moved |-> r.moved]
  BY <1>4, <1>6, <1>7
<1>9. QED
  BY <1>1, <1>8

LEMMA RestoreRecord ==
  ASSUME NEW r, IsRequest(r), NEW v, NEW w, NEW x,
         NEW y, y = [r EXCEPT !.place = v, !.saved = w, !.states = x]
  PROVE  y =
           [place |-> v, names |-> r.names, assigned |-> r.assigned, seen |-> r.seen,
            saved |-> w, states |-> x, moved |-> r.moved]
<1> DEFINE s == [r EXCEPT !.place = v]
           t == [s EXCEPT !.saved = w]
           u == [t EXCEPT !.states = x]
<1>1. y = u
  OBVIOUS
<1>2. s = [place |-> v, names |-> r.names, assigned |-> r.assigned, seen |-> r.seen,
           saved |-> r.saved, states |-> r.states, moved |-> r.moved]
  BY RecordUpdate
<1>3. ASSUME IsRequest(s)
      PROVE  t = [place |-> s.place, names |-> s.names, assigned |-> s.assigned, seen |-> s.seen,
                  saved |-> w, states |-> s.states, moved |-> s.moved]
  <2> HIDE DEF s
  <2>1. QED
    BY <1>3, RecordUpdate
<1>4. ASSUME IsRequest(t)
      PROVE  u = [place |-> t.place, names |-> t.names, assigned |-> t.assigned, seen |-> t.seen,
                  saved |-> t.saved, states |-> x, moved |-> t.moved]
  <2> HIDE DEF t
  <2>1. QED
    BY <1>4, RecordUpdate
<1> HIDE DEF s, t, u
<1>5. IsRequest(s)
  BY <1>2 DEF IsRequest
<1>6. t = [place |-> v, names |-> r.names, assigned |-> r.assigned, seen |-> r.seen,
           saved |-> w, states |-> r.states, moved |-> r.moved]
  BY <1>2, <1>3, <1>5
<1>7. IsRequest(t)
  BY <1>6 DEF IsRequest
<1>8. u = [place |-> v, names |-> r.names, assigned |-> r.assigned, seen |-> r.seen,
           saved |-> w, states |-> x, moved |-> r.moved]
  BY <1>4, <1>6, <1>7
<1>9. QED
  BY <1>1, <1>8

\* Every step of a request changes its own variables only.
LEMMA OneRequest ==
  ASSUME RequestsOK, NEW q \in Req,
         NEW what \in Kinds, NEW where \in Stages, NEW r,
         kind' = [kind EXCEPT ![q] = what], at' = [at EXCEPT ![q] = where],
         req' = [req EXCEPT ![q] = r], RequestOK(what, where, r)
  PROVE  RequestsOK'
<1>1. /\ kind' \in [Req -> Kinds \cup {None}]
      /\ at' \in [Req -> Stages]
      /\ req' = [p \in Req |-> req'[p]]
  BY DEF RequestsOK
<1>2. ASSUME NEW p \in Req
      PROVE  RequestOK(kind'[p], at'[p], req'[p])
  <2>1. CASE p = q
    <3>1. kind'[p] = what /\ at'[p] = where /\ req'[p] = r
      BY <2>1 DEF RequestsOK
    <3>2. QED
      BY <3>1
  <2>2. CASE p # q
    <3>1. kind'[p] = kind[p] /\ at'[p] = at[p] /\ req'[p] = req[p]
      BY <2>2 DEF RequestsOK
    <3>2. RequestOK(kind[p], at[p], req[p])
      BY DEF RequestsOK
    <3>3. QED
      BY <3>1, <3>2
  <2>3. QED
    BY <2>1, <2>2
<1>3. QED
  BY <1>1, <1>2 DEF RequestsOK

\* ... and most steps keep its kind.
LEMMA StepOfRequest ==
  ASSUME RequestsOK, NEW q \in Req, at[q] # "new", UNCHANGED kind,
         NEW where \in Stages, NEW r,
         at' = [at EXCEPT ![q] = where], req' = [req EXCEPT ![q] = r],
         RequestOK(kind[q], where, r)
  PROVE  RequestsOK'
<1>1. kind[q] \in Kinds
  BY DEF RequestsOK, RequestOK, KindStage
<1>2. kind' = [kind EXCEPT ![q] = kind[q]]
  BY DEF RequestsOK
<1>3. QED
  BY <1>1, <1>2, OneRequest

\* A request that has ended keeps nothing.
LEMMA EndOfRequest ==
  ASSUME RequestsOK, NEW q \in Req, NEW where \in {"done", "interrupted"},
         at[q] # "new", where = "interrupted" => kind[q] = "restore", UNCHANGED kind,
         Goto(q, where), req' = [req EXCEPT ![q] = NoReq]
  PROVE  RequestsOK'
<1>1. KindStage(kind[q], where)
  BY DEF RequestsOK, RequestOK, KindStage, Cleanups, ClientCleanups, ManagerCleanups, None
<1>2. RequestOK(kind[q], where, NoReq)
  BY <1>1, NoReqIsRequest DEF RequestOK, Cleaning, Streaming, Restoring
<1>3. where \in Stages
  BY DEF Stages, Idle
<1>4. QED
  BY <1>2, <1>3, StepOfRequest DEF Goto

LEMMA EndKeepsRequests ==
  ASSUME RequestsOK, NEW q \in Req, at[q] # "new", UNCHANGED kind, End(q)
  PROVE  RequestsOK'
BY EndOfRequest DEF End

LEMMA RequestsStutter ==
  ASSUME RequestsOK, UNCHANGED <<kind, at, req>>
  PROVE  RequestsOK'
BY DEF RequestsOK

LEMMA DiskStutters ==
  ASSUME DiskOK, UNCHANGED <<database, active, disk, artifacts>>
  PROVE  DiskOK'
BY DEF DiskOK, database, disk

-----------------------------------------------------------------------------
\* The initial states.
LEMMA CachesInitEstablishes == CachesInit => CachesInv
<1> SUFFICES ASSUME CachesInit PROVE CachesInv
  OBVIOUS
<1>1. DiskOK
  <2>1. PICK d \in Locals :
          /\ cache = [p \in Place |-> d[p[1]].cache[p[2]]]
          /\ security = [h \in Node |-> d[h].security]
    BY DEF CachesInit
  <2>2. d \in [Node -> [cache : [Repo -> CacheDir], security : [Borg -> SecurityState],
                        legacy : SUBSET Borg]]
    BY ConstantAssumption
  <2>3. cache \in [Place -> CacheDir]
    <3>1. ASSUME NEW p \in Place
          PROVE  d[p[1]].cache[p[2]] \in CacheDir
      BY <2>2 DEF Place
    <3>2. QED
      BY <2>1, <3>1
  <2>4. security \in [Node -> [Borg -> SecurityState]]
    BY <2>1, <2>2
  <2>5. copies \in [Place -> SUBSET CacheDir]
    BY DEF CachesInit
  <2>6. artifacts \subseteq [repo : Repo, cache : CacheDir \ {NoCache},
                             states : SUBSET (Borg \X SecurityState)]
    BY ConstantAssumption DEF CachesInit
  <2>7. jobs \subseteq Place /\ enabled \subseteq Node /\ active \subseteq Place
    BY CachesConstants DEF CachesInit
  <2>8. QED
    BY <2>3, <2>4, <2>5, <2>6, <2>7 DEF DiskOK
<1>2. RequestsOK
  <2>1. RequestOK(None, "new", NoReq)
    BY NoReqIsRequest
    DEF RequestOK, KindStage, Cleanups, ClientCleanups, ManagerCleanups, None,
        Cleaning, Streaming, Restoring
  <2>2. QED
    BY <2>1 DEF RequestsOK, CachesInit, Stages, Idle
<1>3. QED
  BY <1>1, <1>2 DEF CachesInv

-----------------------------------------------------------------------------
\* Clean ups.
LEMMA BeginCleanupKeeps ==
  ASSUME CachesInv, NEW q \in Req, NEW what \in Cleanups, NEW h \in Node, NEW names,
         BeginCleanup(q, what, h, names)
  PROVE  CachesInv'
<1> DEFINE r == [NoReq EXCEPT !.place = <<h>>, !.names = names, !.assigned = AssignedOf(h)]
           where == IF what \in {"orphan", "rollback"} THEN "select" ELSE "scan"
<1>1. DiskOK'
  BY DiskStutters DEF CachesInv, BeginCleanup
<1>2. /\ kind' = [kind EXCEPT ![q] = what] /\ at' = [at EXCEPT ![q] = where]
      /\ req' = [req EXCEPT ![q] = r]
  BY DEF BeginCleanup, Ask, Goto
<1>3. /\ IsRequest(r) /\ r.place = <<h>> /\ r.assigned = AssignedOf(h)
      /\ r.saved = NoReq.saved /\ r.moved = NoReq.moved /\ r.states = NoReq.states
  <2>1. r = [place |-> <<h>>, names |-> names, assigned |-> AssignedOf(h), seen |-> NoReq.seen,
             saved |-> NoReq.saved, states |-> NoReq.states, moved |-> NoReq.moved]
    BY NoReqIsRequest, CleanupRecord
  <2>2. QED
    BY <2>1 DEF IsRequest
<1>4. where \in Cleaning /\ where # "delete" /\ where \notin Streaming \cup Restoring
  BY DEF Cleaning, Streaming, Restoring
<1>5. KindStage(what, where)
  BY DEF KindStage, Cleanups, ClientCleanups, ManagerCleanups, Cleaning, None
<1>6. RequestOK(what, where, r)
  BY <1>3, <1>4, <1>5, NoReqIsRequest DEF RequestOK, Restoring, AssignedOf
<1>7. what \in Kinds /\ where \in Stages
  BY DEF Kinds, Stages, Cleaning
<1>8. RequestsOK'
  BY <1>2, <1>6, <1>7, OneRequest DEF CachesInv
<1>9. QED
  BY <1>1, <1>8 DEF CachesInv

LEMMA RescanKeeps ==
  ASSUME CachesInv, NEW q \in Req, Rescan(q)
  PROVE  CachesInv'
<1> DEFINE v == View(req[q].place[1])
           r == [req[q] EXCEPT !.seen = v]
<1>1. DiskOK'
  BY DiskStutters DEF CachesInv, Rescan
<1>2. RequestOK(kind[q], "scan", req[q])
  BY DEF CachesInv, RequestsOK, Rescan
<1>3. /\ IsRequest(r) /\ r.place = req[q].place /\ r.assigned = req[q].assigned
      /\ r.saved = req[q].saved /\ r.moved = req[q].moved /\ r.states = req[q].states
  BY <1>2 DEF RequestOK, IsRequest
<1>4. KindStage(kind[q], "select")
  BY <1>2 DEF RequestOK, KindStage, Cleaning, Streaming, Restoring
<1>5. RequestOK(kind[q], "select", r)
  BY <1>2, <1>3, <1>4 DEF RequestOK, Cleaning, Streaming, Restoring
<1>6. at' = [at EXCEPT ![q] = "select"] /\ req' = [req EXCEPT ![q] = r]
  BY DEF Rescan, Goto
<1>7. RequestsOK'
  BY <1>5, <1>6, StepOfRequest DEF CachesInv, Rescan, Stages, Cleaning
<1>8. QED
  BY <1>1, <1>7 DEF CachesInv

LEMMA SelectKeeps ==
  ASSUME CachesInv, NEW q \in Req, Select(q)
  PROVE  CachesInv'
<1> DEFINE safe == {n \in req[q].names : Allowed(kind[q], req[q].assigned, req[q].seen, n)}
           r == [req[q] EXCEPT !.names = safe]
<1>1. DiskOK'
  BY DiskStutters DEF CachesInv, Select
<1>2. RequestOK(kind[q], "select", req[q])
  BY DEF CachesInv, RequestsOK, Select
<1>3. CASE safe = {}
  BY <1>1, <1>3, EndKeepsRequests DEF CachesInv, Select
<1>4. CASE safe # {}
  <2>1. /\ IsRequest(r) /\ r.place = req[q].place /\ r.names = safe
        /\ r.assigned = req[q].assigned /\ r.seen = req[q].seen
        /\ r.saved = req[q].saved /\ r.moved = req[q].moved /\ r.states = req[q].states
    <3> HIDE DEF safe
    <3>1. IsRequest(req[q])
      BY <1>2 DEF RequestOK
    <3>2. QED
      BY <3>1, RecordUpdate, ZenonT(40) DEF IsRequest
  <2>2. KindStage(kind[q], "delete")
    BY <1>2 DEF RequestOK, KindStage, Cleaning, Streaming, Restoring
  <2>3. \A n \in r.names : Allowed(kind[q], r.assigned, r.seen, n)
    BY <2>1
  <2>4. RequestOK(kind[q], "delete", r)
    BY <1>2, <2>1, <2>2, <2>3 DEF RequestOK, Cleaning, Streaming, Restoring
  <2>5. at' = [at EXCEPT ![q] = "delete"] /\ req' = [req EXCEPT ![q] = r]
    BY <1>4 DEF Select, Goto
  <2>6. RequestsOK'
    BY <2>4, <2>5, StepOfRequest DEF CachesInv, Select, Stages, Cleaning
  <2>7. QED
    BY <1>1, <2>6 DEF CachesInv
<1>5. QED
  BY <1>3, <1>4

\* Where the removals take place.
LEMMA PlaceOfDeletion ==
  ASSUME CachesInv, NEW q \in Req, at[q] = "delete"
  PROVE  /\ req[q].place[1] \in Node
         /\ \A n \in req[q].names : Allowed(kind[q], req[q].assigned, req[q].seen, n)
BY DEF CachesInv, RequestsOK, RequestOK, Cleaning

LEMMA DeleteCachesKeeps ==
  ASSUME CachesInv, NEW q \in Req, DeleteCaches(q)
  PROVE  CachesInv'
<1>1. RequestsOK'
  BY EndKeepsRequests DEF CachesInv, DeleteCaches
<1>2. cache' \in [Place -> CacheDir] /\ copies' \in [Place -> SUBSET CacheDir]
  BY NoCacheTyped DEF CachesInv, DiskOK, DeleteCaches
<1>3. DiskOK'
  BY <1>2 DEF CachesInv, DiskOK, DeleteCaches, database
<1>4. QED
  BY <1>1, <1>3 DEF CachesInv

LEMMA DeleteSecurityKeeps ==
  ASSUME CachesInv, NEW q \in Req, DeleteSecurity(q)
  PROVE  CachesInv'
<1>1. RequestsOK'
  BY EndKeepsRequests DEF CachesInv, DeleteSecurity
<1>2. security' \in [Node -> [Borg -> SecurityState]]
  BY NoCacheTyped, PlaceOfDeletion DEF CachesInv, DiskOK, DeleteSecurity
<1>3. DiskOK'
  BY <1>2 DEF CachesInv, DiskOK, DeleteSecurity, database
<1>4. QED
  BY <1>1, <1>3 DEF CachesInv

LEMMA DeleteUserCachesKeeps ==
  ASSUME CachesInv, NEW q \in Req, DeleteUserCaches(q)
  PROVE  CachesInv'
<1>1. RequestsOK'
  BY EndKeepsRequests DEF CachesInv, DeleteUserCaches
<1>2. DiskOK'
  BY DEF CachesInv, DiskOK, DeleteUserCaches, database
<1>3. QED
  BY <1>1, <1>2 DEF CachesInv

LEMMA CleanupFailsKeeps ==
  ASSUME CachesInv, NEW q \in Req, CleanupFails(q)
  PROVE  CachesInv'
<1>1. DiskOK'
  BY DiskStutters DEF CachesInv, CleanupFails
<1>2. CASE End(q)
  BY <1>1, <1>2, EndKeepsRequests DEF CachesInv, CleanupFails
<1>3. ASSUME at[q] = "delete", UNCHANGED at, NEW n \in req[q].names,
             req' = [req EXCEPT ![q].names = @ \ {n}]
      PROVE  RequestsOK'
  <2> DEFINE r == [req[q] EXCEPT !.names = @ \ {n}]
  <2>1. RequestOK(kind[q], "delete", req[q])
    BY <1>3 DEF CachesInv, RequestsOK
  <2>2. /\ IsRequest(r) /\ r.place = req[q].place /\ r.names = req[q].names \ {n}
        /\ r.assigned = req[q].assigned /\ r.seen = req[q].seen
        /\ r.saved = req[q].saved /\ r.moved = req[q].moved /\ r.states = req[q].states
    BY <2>1 DEF RequestOK, IsRequest
  <2>3. \A m \in r.names : Allowed(kind[q], r.assigned, r.seen, m)
    BY <2>1, <2>2 DEF RequestOK
  <2>4. RequestOK(kind[q], "delete", r)
    BY <2>1, <2>2, <2>3 DEF RequestOK
  <2>5. at' = [at EXCEPT ![q] = "delete"]
    BY <1>3 DEF CachesInv, RequestsOK
  <2>6. req' = [req EXCEPT ![q] = r]
    BY <1>3
  <2>7. at[q] # "new" /\ UNCHANGED kind /\ "delete" \in Stages
    BY <1>3 DEF CleanupFails, Stages, Cleaning
  <2>8. QED
    BY <2>4, <2>5, <2>6, <2>7, StepOfRequest DEF CachesInv
<1>4. QED
  BY <1>1, <1>2, <1>3 DEF CleanupFails, CachesInv

-----------------------------------------------------------------------------
\* Collections.
LEMMA BeginCollectKeeps ==
  ASSUME CachesInv, NEW q \in Req, NEW p \in Place, BeginCollect(q, p)
  PROVE  CachesInv'
<1> DEFINE r == [NoReq EXCEPT !.place = p]
<1>1. DiskOK'
  BY DiskStutters DEF CachesInv, BeginCollect
<1>2. /\ kind' = [kind EXCEPT ![q] = "collect"] /\ at' = [at EXCEPT ![q] = "stream"]
      /\ req' = [req EXCEPT ![q] = r]
  BY DEF BeginCollect, Ask, Goto
<1>3. r = [place |-> p, names |-> NoReq.names, assigned |-> NoReq.assigned, seen |-> NoReq.seen,
           saved |-> NoReq.saved, states |-> NoReq.states, moved |-> NoReq.moved]
  BY NoReqIsRequest, RecordUpdate
<1> HIDE DEF r
<1>4. IsRequest(r)
  BY <1>3 DEF IsRequest
<1>5. KindStage("collect", "stream")
  BY DEF KindStage, Cleanups, ClientCleanups, ManagerCleanups, Streaming, None
<1>6. RequestOK("collect", "stream", r)
  BY <1>3, <1>4, <1>5, NoReqIsRequest DEF RequestOK, Cleaning, Restoring
<1>7. "collect" \in Kinds /\ "stream" \in Stages
  BY DEF Kinds, Stages, Streaming
<1>8. RequestsOK'
  BY <1>2, <1>6, <1>7, OneRequest DEF CachesInv
<1>9. QED
  BY <1>1, <1>8 DEF CachesInv

LEMMA StreamCacheKeeps ==
  ASSUME CachesInv, NEW q \in Req, StreamCache(q)
  PROVE  CachesInv'
<1> DEFINE c == cache[req[q].place]
           r == [req[q] EXCEPT !.saved = c]
<1>1. DiskOK'
  BY DiskStutters DEF CachesInv, StreamCache
<1>2. RequestOK(kind[q], "stream", req[q])
  BY DEF CachesInv, RequestsOK, StreamCache
<1>3. c \in CacheDir
  BY <1>2 DEF CachesInv, DiskOK, RequestOK, Streaming
<1>4. at' = [at EXCEPT ![q] = "stream-security"] /\ req' = [req EXCEPT ![q] = r]
  BY DEF StreamCache, Goto
<1> HIDE DEF c
<1>5. r = [place |-> req[q].place, names |-> req[q].names, assigned |-> req[q].assigned,
           seen |-> req[q].seen, saved |-> c, states |-> req[q].states, moved |-> req[q].moved]
  BY <1>2, RecordUpdate DEF RequestOK
<1> HIDE DEF r
<1>6. IsRequest(r)
  BY <1>5 DEF IsRequest
<1>7. KindStage(kind[q], "stream-security")
  BY <1>2 DEF RequestOK, KindStage, Cleaning, Streaming, Restoring
<1>8. RequestOK(kind[q], "stream-security", r)
  BY <1>2, <1>3, <1>5, <1>6, <1>7 DEF RequestOK, Cleaning, Streaming, Restoring
<1>9. RequestsOK'
  BY <1>4, <1>8, StepOfRequest DEF CachesInv, StreamCache, Stages, Streaming
<1>10. QED
  BY <1>1, <1>9 DEF CachesInv

LEMMA StreamSecurityKeeps ==
  ASSUME CachesInv, NEW q \in Req, StreamSecurity(q)
  PROVE  CachesInv'
<1>1. RequestsOK'
  BY EndKeepsRequests DEF CachesInv, StreamSecurity
<1>2. RequestOK(kind[q], "stream-security", req[q])
  BY DEF CachesInv, RequestsOK, StreamSecurity
<1>3. req[q].place \in Place /\ req[q].saved \in CacheDir
  BY <1>2 DEF RequestOK, Streaming
<1>4. PICK h \in Node, n \in Repo : req[q].place = <<h, n>>
  BY <1>3 DEF Place
<1>5. req[q].place[1] = h /\ req[q].place[2] = n
  BY <1>4
<1> DEFINE states == {<<b, security[h][b]>> : b \in {d \in Resolved(h, n) : security[h][d] # NoState}}
           entry == [repo |-> n, cache |-> req[q].saved, states |-> states]
<1>6. artifacts' = IF req[q].saved = NoCache THEN artifacts ELSE artifacts \cup {entry}
  BY <1>5 DEF StreamSecurity
<1>7. Resolved(h, n) \subseteq Borg
  <2>1. cache[<<h, n>>] \in CacheDir
    BY <1>3, <1>4 DEF CachesInv, DiskOK
  <2>2. cache[<<h, n>>].borg \in Borg \cup {None}
    BY <2>1 DEF CacheDir, NoCache
  <2>3. QED
    BY <2>2 DEF Resolved
<1>8. states \subseteq Borg \X SecurityState
  BY <1>4, <1>7 DEF CachesInv, DiskOK
<1> HIDE DEF states
<1>9. req[q].saved # NoCache
        => entry \in [repo : Repo, cache : CacheDir \ {NoCache},
                      states : SUBSET (Borg \X SecurityState)]
  BY <1>3, <1>4, <1>8
<1> HIDE DEF entry
<1>10. DiskOK'
  BY <1>6, <1>9 DEF CachesInv, DiskOK, StreamSecurity, database, disk
<1>11. QED
  BY <1>1, <1>10 DEF CachesInv

LEMMA CollectFailsKeeps ==
  ASSUME CachesInv, NEW q \in Req, CollectFails(q)
  PROVE  CachesInv'
BY EndKeepsRequests, DiskStutters DEF CachesInv, CollectFails

-----------------------------------------------------------------------------
\* Restores.
LEMMA BeginRestoreKeeps ==
  ASSUME CachesInv, NEW q \in Req, NEW p \in Place, NEW entry \in Restorable(p),
         BeginRestore(q, p, entry)
  PROVE  CachesInv'
<1> DEFINE c == entry.cache
           st == entry.states
           r == [NoReq EXCEPT !.place = p, !.saved = c, !.states = st]
<1>1. DiskOK'
  BY DiskStutters DEF CachesInv, BeginRestore
<1>2. /\ kind' = [kind EXCEPT ![q] = "restore"] /\ at' = [at EXCEPT ![q] = "unpack"]
      /\ req' = [req EXCEPT ![q] = r]
  BY DEF BeginRestore, Ask, Goto
<1>3. c \in CacheDir \ {NoCache} /\ st \subseteq Borg \X SecurityState
  BY DEF CachesInv, DiskOK, Restorable
<1> HIDE DEF c, st
<1>4. r = [place |-> p, names |-> NoReq.names, assigned |-> NoReq.assigned, seen |-> NoReq.seen,
           saved |-> c, states |-> st, moved |-> NoReq.moved]
  <2>1. PICK n : n = NoReq
    OBVIOUS
  <2>2. IsRequest(n)
    BY <2>1, NoReqIsRequest
  <2>3. PICK s : s = [n EXCEPT !.place = p, !.saved = c, !.states = st]
    OBVIOUS
  <2>4. s = [place |-> p, names |-> n.names, assigned |-> n.assigned, seen |-> n.seen,
             saved |-> c, states |-> st, moved |-> n.moved]
    BY <2>2, <2>3, RestoreRecord
  <2>5. QED
    BY <2>1, <2>3, <2>4, ZenonT(40)
<1> HIDE DEF r
<1>5. IsRequest(r)
  BY <1>4 DEF IsRequest
<1>6. KindStage("restore", "unpack")
  BY DEF KindStage, Cleanups, ClientCleanups, ManagerCleanups, Restoring, None
<1>7. RequestOK("restore", "unpack", r)
  BY <1>3, <1>4, <1>5, <1>6, NoReqIsRequest DEF RequestOK, Cleaning
<1>8. "restore" \in Kinds /\ "unpack" \in Stages
  BY DEF Kinds, Stages, Restoring
<1>9. RequestsOK'
  BY <1>2, <1>7, <1>8, OneRequest DEF CachesInv
<1>10. QED
  BY <1>1, <1>9 DEF CachesInv

\* The restore goes on with the variables it has.
LEMMA RestoreGoesOn ==
  ASSUME RequestsOK, NEW q \in Req, at[q] \in Restoring, NEW where \in Restoring,
         UNCHANGED <<kind, req>>, Goto(q, where)
  PROVE  RequestsOK'
<1>1. RequestOK(kind[q], at[q], req[q])
  BY DEF RequestsOK
<1>2. KindStage(kind[q], where)
  BY <1>1 DEF RequestOK, KindStage, Cleaning, Streaming, Restoring, None
<1>3. RequestOK(kind[q], where, req[q])
  BY <1>1, <1>2 DEF RequestOK, Cleaning, Streaming, Restoring
<1>4. req' = [req EXCEPT ![q] = req[q]]
  BY DEF RequestsOK
<1>5. QED
  BY <1>3, <1>4, StepOfRequest DEF Goto, Stages, Restoring

\* A restore knows its place and what it puts there.
LEMMA PlaceOfRestore ==
  ASSUME CachesInv, NEW q \in Req, at[q] \in Restoring
  PROVE  /\ req[q].place \in Place /\ req[q].place[1] \in Node /\ req[q].place[2] \in Repo
         /\ req[q].saved \in CacheDir \ {NoCache} /\ req[q].moved \in CacheDir
         /\ req[q].states \subseteq Borg \X SecurityState
         /\ kind[q] = "restore"
<1>1. RequestOK(kind[q], at[q], req[q]) /\ kind[q] \in Kinds \cup {None}
  BY DEF CachesInv, RequestsOK
<1>2. kind[q] = "restore"
  BY <1>1 DEF RequestOK, KindStage, Cleaning, Streaming, Restoring, Kinds
<1>3. QED
  BY <1>1, <1>2 DEF RequestOK, Place

LEMMA UnpackKeeps ==
  ASSUME CachesInv, NEW q \in Req, Unpack(q)
  PROVE  CachesInv'
<1>1. DiskOK'
  BY DiskStutters DEF CachesInv, Unpack
<1>2. RequestsOK'
  BY RestoreGoesOn DEF CachesInv, Unpack, Restoring
<1>3. QED
  BY <1>1, <1>2 DEF CachesInv

LEMMA MoveOutKeeps ==
  ASSUME CachesInv, NEW q \in Req, MoveOut(q)
  PROVE  CachesInv'
<1> DEFINE p == req[q].place
           c == cache[p]
           r == [req[q] EXCEPT !.moved = c]
<1>1. RequestOK(kind[q], "move", req[q])
  BY DEF CachesInv, RequestsOK, MoveOut
<1>2. p \in Place /\ c \in CacheDir
  BY PlaceOfRestore DEF CachesInv, DiskOK, MoveOut, Restoring
<1>3. cache' \in [Place -> CacheDir] /\ copies' \in [Place -> SUBSET CacheDir]
  BY <1>2, NoCacheTyped DEF CachesInv, DiskOK, MoveOut
<1>4. DiskOK'
  BY <1>3 DEF CachesInv, DiskOK, MoveOut, database
<1>5. at' = [at EXCEPT ![q] = "install"] /\ req' = [req EXCEPT ![q] = r]
  BY DEF MoveOut, Goto
<1> HIDE DEF c
<1>6. r = [place |-> req[q].place, names |-> req[q].names, assigned |-> req[q].assigned,
           seen |-> req[q].seen, saved |-> req[q].saved, states |-> req[q].states, moved |-> c]
  BY <1>1, RecordUpdate DEF RequestOK
<1> HIDE DEF r
<1>7. IsRequest(r)
  BY <1>6 DEF IsRequest
<1>8. KindStage(kind[q], "install")
  BY <1>1 DEF RequestOK, KindStage, Cleaning, Streaming, Restoring
<1>9. RequestOK(kind[q], "install", r)
  BY <1>1, <1>2, <1>6, <1>7, <1>8 DEF RequestOK, Cleaning, Streaming, Restoring
<1>10. RequestsOK'
  BY <1>5, <1>9, StepOfRequest DEF CachesInv, MoveOut, Stages, Restoring
<1>11. QED
  BY <1>4, <1>10 DEF CachesInv

LEMMA InstallKeeps ==
  ASSUME CachesInv, NEW q \in Req, Install(q)
  PROVE  CachesInv'
<1>1. RequestsOK'
  BY RestoreGoesOn DEF CachesInv, Install, Restoring
<1>2. cache' \in [Place -> CacheDir]
  BY PlaceOfRestore DEF CachesInv, DiskOK, Install, Restoring
<1>3. DiskOK'
  BY <1>2 DEF CachesInv, DiskOK, Install, database
<1>4. QED
  BY <1>1, <1>3 DEF CachesInv

LEMMA RestoreFailsKeeps ==
  ASSUME CachesInv, NEW q \in Req, RestoreFails(q)
  PROVE  CachesInv'
<1>1. RequestsOK'
  BY EndKeepsRequests DEF CachesInv, RestoreFails
<1>2. cache' \in [Place -> CacheDir] /\ copies' \in [Place -> SUBSET CacheDir]
  <2>1. CASE UNCHANGED <<cache, copies>>
    BY <2>1 DEF CachesInv, DiskOK
  <2>2. CASE at[q] = "install" /\ Rollback(q)
    <3>1. req[q].place \in Place /\ req[q].moved \in CacheDir
      BY <2>2, PlaceOfRestore DEF Restoring
    <3>2. QED
      BY <2>2, <3>1, NoCacheTyped DEF CachesInv, DiskOK, Rollback
  <2>3. QED
    BY <2>1, <2>2 DEF RestoreFails
<1>3. DiskOK'
  BY <1>2 DEF CachesInv, DiskOK, RestoreFails, database
<1>4. QED
  BY <1>1, <1>3 DEF CachesInv

LEMMA SignalKeeps ==
  ASSUME CachesInv, NEW q \in Req, Signal(q)
  PROVE  CachesInv'
<1>1. at[q] \in Restoring
  BY DEF Signal, Restoring
<1>2. kind[q] = "restore" /\ req[q].place \in Place
  BY <1>1, PlaceOfRestore
<1>3. RequestsOK'
  BY <1>2, EndOfRequest DEF CachesInv, Signal
<1>4. cache' \in [Place -> CacheDir] /\ copies' \in [Place -> SUBSET CacheDir]
  BY <1>2, NoCacheTyped DEF CachesInv, DiskOK, Signal
<1>5. DiskOK'
  BY <1>4 DEF CachesInv, DiskOK, Signal, database
<1>6. QED
  BY <1>3, <1>5 DEF CachesInv

LEMMA RestoreSecurityKeeps ==
  ASSUME CachesInv, NEW q \in Req, RestoreSecurity(q)
  PROVE  CachesInv'
<1>1. DiskOK'
  BY DiskStutters DEF CachesInv, RestoreSecurity
<1>2. at[q] = "installed" /\ UNCHANGED kind
  BY DEF RestoreSecurity
<1>3. CASE End(q)
  BY <1>1, <1>2, <1>3, EndKeepsRequests DEF CachesInv
<1>4. CASE Goto(q, "done") /\ req' = [req EXCEPT ![q] = NoReq]
  BY <1>1, <1>2, <1>4, EndKeepsRequests DEF CachesInv, End
<1>5. CASE Goto(q, "install-security") /\ req' = req
  BY <1>1, <1>2, <1>5, RestoreGoesOn DEF CachesInv, Restoring
<1>6. QED
  BY <1>3, <1>4, <1>5 DEF RestoreSecurity

LEMMA InstallSecurityKeeps ==
  ASSUME CachesInv, NEW q \in Req, InstallSecurity(q)
  PROVE  CachesInv'
<1>1. RequestsOK'
  BY EndKeepsRequests DEF CachesInv, InstallSecurity
<1>2. req[q].place[1] \in Node /\ req[q].states \subseteq Borg \X SecurityState
  BY PlaceOfRestore DEF InstallSecurity, Restoring
<1>3. PICK s \in req[q].states :
        security' = [security EXCEPT ![req[q].place[1]][s[1]] = IF @ = NoState THEN s[2] ELSE @]
  BY DEF InstallSecurity
<1>4. s[1] \in Borg /\ s[2] \in SecurityState
  BY <1>2
<1>5. security' \in [Node -> [Borg -> SecurityState]]
  <2> DEFINE h == req[q].place[1]
             b == s[1]
             f == security[h]
             v == IF f[b] = NoState THEN s[2] ELSE f[b]
  <2>1. h \in Node /\ b \in Borg /\ f \in [Borg -> SecurityState] /\ v \in SecurityState
    BY <1>2, <1>4 DEF CachesInv, DiskOK
  <2>2. security' = [security EXCEPT ![h] = [f EXCEPT ![b] = v]]
    BY <1>3
  <2>3. security \in [Node -> [Borg -> SecurityState]]
    BY DEF CachesInv, DiskOK
  <2> HIDE DEF h, b, f, v
  <2>4. [f EXCEPT ![b] = v] \in [Borg -> SecurityState]
    BY <2>1
  <2>5. QED
    BY <2>1, <2>2, <2>3, <2>4
<1>6. DiskOK'
  BY <1>5 DEF CachesInv, DiskOK, InstallSecurity, database
<1>7. QED
  BY <1>1, <1>6 DEF CachesInv

LEMMA SecurityFailsKeeps ==
  ASSUME CachesInv, NEW q \in Req, SecurityFails(q)
  PROVE  CachesInv'
BY EndKeepsRequests, DiskStutters DEF CachesInv, SecurityFails

-----------------------------------------------------------------------------
\* Jobs, devices and runs.
LEMMA OutsideKeeps ==
  ASSUME CachesInv,
         \/ \E p \in Place : ChangeJobs(p) \/ QueueRun(p) \/ RunEnds(p)
         \/ \E h \in Host : SwitchHost(h)
  PROVE  CachesInv'
<1>1. RequestsOK'
  BY RequestsStutter DEF CachesInv, ChangeJobs, QueueRun, RunEnds, SwitchHost
<1>2. ASSUME NEW p \in Place, ChangeJobs(p) PROVE DiskOK'
  BY <1>2 DEF CachesInv, DiskOK, ChangeJobs, disk
<1>3. ASSUME NEW p \in Place, QueueRun(p) PROVE DiskOK'
  BY <1>3 DEF CachesInv, DiskOK, QueueRun, disk, database
<1>4. ASSUME NEW p \in Place, RunEnds(p) PROVE DiskOK'
  <2>1. p[1] \in Node /\ p[2] \in Repo
    BY DEF Place
  <2>2. BorgOf[p[2]] \in Borg /\ LocationOf[p[2]] \in Location
    BY <2>1, CachesConstants
  <2>3. [borg |-> BorgOf[p[2]], data |-> "run"] \in CacheDir
    BY <2>2 DEF CacheDir
  <2>4. \A n \in {1, 2} : [loc |-> LocationOf[p[2]], stamp |-> n] \in SecurityState
    BY <2>2 DEF SecurityState
  <2>5. cache' \in [Place -> CacheDir]
    BY <1>4, <2>3 DEF CachesInv, DiskOK, RunEnds
  <2>6. security' \in [Node -> [Borg -> SecurityState]]
    BY <1>4, <2>1, <2>2, <2>4 DEF CachesInv, DiskOK, RunEnds
  <2>7. QED
    BY <1>4, <2>5, <2>6 DEF CachesInv, DiskOK, RunEnds, database
<1>5. ASSUME NEW h \in Host, SwitchHost(h) PROVE DiskOK'
  BY <1>5 DEF CachesInv, DiskOK, SwitchHost, disk, Node
<1>6. QED
  BY <1>1, <1>2, <1>3, <1>4, <1>5 DEF CachesInv

LEMMA WorkKeeps ==
  ASSUME CachesInv, NEW q \in Req, Work(q)
  PROVE  CachesInv'
<1>1. CASE CleanupStep(q)
  BY <1>1, RescanKeeps, SelectKeeps, DeleteCachesKeeps, DeleteSecurityKeeps,
     DeleteUserCachesKeeps, CleanupFailsKeeps DEF CleanupStep
<1>2. CASE CollectStep(q)
  BY <1>2, StreamCacheKeeps, StreamSecurityKeeps, CollectFailsKeeps DEF CollectStep
<1>3. CASE RestoreStep(q)
  BY <1>3, UnpackKeeps, MoveOutKeeps, InstallKeeps, RestoreFailsKeeps, SignalKeeps,
     RestoreSecurityKeeps, InstallSecurityKeeps, SecurityFailsKeeps DEF RestoreStep
<1>4. QED
  BY <1>1, <1>2, <1>3 DEF Work

LEMMA CachesNextPreserves == CachesInv /\ [CachesNext]_cachesVars => CachesInv'
<1> SUFFICES ASSUME CachesInv, [CachesNext]_cachesVars PROVE CachesInv'
  OBVIOUS
<1>1. CASE UNCHANGED cachesVars
  BY <1>1, RequestsStutter, DiskStutters DEF CachesInv, cachesVars
<1>2. CASE CachesNext
  BY <1>2, WorkKeeps, BeginCleanupKeeps, BeginCollectKeeps, BeginRestoreKeeps, OutsideKeeps
  DEF CachesNext
<1>3. QED
  BY <1>1, <1>2

\* Every cache, copy, security state and artifact has its form, every request is
\* where its kind can be (the handlers of app/client_cache.py and
\* app/manager_cache.py and the scripts of app/runner.py they run), and what a clean
\* up is about to delete, it may delete by what it has read.
THEOREM CachesTyped == CachesSpec => []CachesInv
<1>1. QED
  BY CachesInitEstablishes, CachesNextPreserves, PTL DEF CachesSpec

-----------------------------------------------------------------------------
\* Who acts: a request that goes on has done so itself.
LEMMA OnlyActorMoves ==
  ASSUME CachesInv, NEW q \in Req, NEW p \in Req, p # q, NEW where,
         at' = [at EXCEPT ![q] = where]
  PROVE  at'[p] = at[p]
BY DEF CachesInv, RequestsOK

\* What a request does beyond what it was begun with is one of its own steps.
LEMMA ActorWorks ==
  ASSUME CachesInv, CachesNext, NEW q \in Req, kind[q] # None, at'[q] # at[q]
  PROVE  Work(q)
<1>1. at[q] # "new"
  BY DEF CachesInv, RequestsOK, RequestOK, KindStage
<1>2. ASSUME NEW p \in Req, p # q, Work(p)
      PROVE  at'[q] = at[q]
  <2>1. ASSUME CleanupStep(p)
        PROVE  \E where : at' = at \/ at' = [at EXCEPT ![p] = where]
    BY <2>1, SMTT(40) DEF CleanupStep, Rescan, Select, DeleteCaches, DeleteSecurity, DeleteUserCaches,
       CleanupFails, End, Goto
  <2>2. ASSUME CollectStep(p)
        PROVE  \E where : at' = at \/ at' = [at EXCEPT ![p] = where]
    BY <2>2 DEF CollectStep, StreamCache, StreamSecurity, CollectFails, End, Goto
  <2>3. ASSUME RestoreStep(p)
        PROVE  \E where : at' = at \/ at' = [at EXCEPT ![p] = where]
    BY <2>3, ZenonT(40) DEF RestoreStep, Unpack, MoveOut, Install, RestoreFails, Signal,
       RestoreSecurity, InstallSecurity, SecurityFails, End, Goto
  <2>4. PICK where : at' = at \/ at' = [at EXCEPT ![p] = where]
    BY <1>2, <2>1, <2>2, <2>3 DEF Work
  <2>5. CASE at' = [at EXCEPT ![p] = where]
    <3>1. at \in [Req -> Stages]
      BY DEF CachesInv, RequestsOK
    <3>2. QED
      BY <1>2, <2>5, <3>1
  <2>6. QED
    BY <2>4, <2>5
<1>3. ASSUME NEW p \in Req,
             \/ \E what \in Cleanups, h \in Node : \E names \in Selections[what] :
                  BeginCleanup(p, what, h, names)
             \/ \E x \in Place : BeginCollect(p, x)
             \/ \E x \in Place : \E entry \in Restorable(x) : BeginRestore(p, x, entry)
      PROVE  at'[q] = at[q]
  <2>1. at[p] = "new" /\ \E where : at' = [at EXCEPT ![p] = where]
    BY <1>3 DEF BeginCleanup, BeginCollect, BeginRestore, Ask, Goto
  <2>2. QED
    BY <1>1, <2>1, OnlyActorMoves
<1>4. ASSUME \/ \E p \in Place : ChangeJobs(p) \/ QueueRun(p) \/ RunEnds(p)
             \/ \E h \in Host : SwitchHost(h)
      PROVE  at'[q] = at[q]
  BY <1>4 DEF ChangeJobs, QueueRun, RunEnds, SwitchHost
<1>5. QED
  BY <1>2, <1>3, <1>4 DEF CachesNext

\* A cache disappears only by the removal of a clean up or by a restore.
LEMMA WhoRemovesCaches ==
  ASSUME CachesInv, [CachesNext]_cachesVars, NEW p \in Place,
         cache[p] # NoCache, cache'[p] = NoCache
  PROVE  \E q \in Req : \/ DeleteCaches(q)
                        \/ MoveOut(q) \/ Install(q) \/ RestoreFails(q) \/ Signal(q)
<1>1. cache' # cache
  OBVIOUS
<1>2. ASSUME NEW x \in Place, RunEnds(x)
      PROVE  FALSE
  <2>1. cache' = [cache EXCEPT ![x] = [borg |-> BorgOf[x[2]], data |-> "run"]]
    BY <1>1, <1>2 DEF RunEnds
  <2>2. [borg |-> BorgOf[x[2]], data |-> "run"] # NoCache
    BY DEF NoCache, None
  <2>3. cache \in [Place -> CacheDir]
    BY DEF CachesInv, DiskOK
  <2>4. QED
    BY <2>1, <2>2, <2>3
<1>3. CachesNext
  BY <1>1 DEF cachesVars, disk
<1>4. ASSUME \/ \E x \in Place : ChangeJobs(x) \/ QueueRun(x)
             \/ \E h \in Host : SwitchHost(h)
      PROVE  FALSE
  BY <1>1, <1>4 DEF ChangeJobs, QueueRun, SwitchHost, disk
<1>5. ASSUME NEW q \in Req,
             \/ \E what \in Cleanups, h \in Node : \E names \in Selections[what] :
                  BeginCleanup(q, what, h, names)
             \/ \E x \in Place : BeginCollect(q, x)
             \/ \E x \in Place : \E entry \in Restorable(x) : BeginRestore(q, x, entry)
      PROVE  FALSE
  BY <1>1, <1>5 DEF BeginCleanup, BeginCollect, BeginRestore, disk
<1>6. PICK q \in Req : Work(q)
  BY <1>2, <1>3, <1>4, <1>5 DEF CachesNext
<1>7. ASSUME CollectStep(q)
      PROVE  FALSE
  BY <1>1, <1>7 DEF CollectStep, StreamCache, StreamSecurity, CollectFails, disk
<1>8. ASSUME \/ Rescan(q) \/ Select(q) \/ DeleteSecurity(q) \/ DeleteUserCaches(q)
             \/ CleanupFails(q)
      PROVE  FALSE
  BY <1>1, <1>8, SMTT(40) DEF Rescan, Select, DeleteSecurity, DeleteUserCaches, CleanupFails, disk
<1>9. ASSUME Unpack(q) \/ RestoreSecurity(q) \/ InstallSecurity(q) \/ SecurityFails(q)
      PROVE  FALSE
  BY <1>1, <1>9 DEF Unpack, RestoreSecurity, InstallSecurity, SecurityFails, disk
<1>10. QED
  BY <1>6, <1>7, <1>8, <1>9 DEF Work, CleanupStep, RestoreStep

\* A step that ends a request or takes it on changes where it is.
LEMMA Moves ==
  ASSUME CachesInv, NEW q \in Req, NEW where, Goto(q, where), at[q] # where
  PROVE  at'[q] # at[q]
BY DEF CachesInv, RequestsOK, Goto

LEMMA SparesActiveStep ==
  ASSUME CachesInv, [CachesNext]_cachesVars, NEW p \in jobs,
         cache[p] # NoCache, cache'[p] = NoCache
  PROVE  \E q \in Req : \/ Acts(q, {"reset", "restore"}) /\ req[q].place[1] = p[1]
                        \/ Acts(q, {"orphan", "manager_cache"}) /\ p[2] \notin req[q].assigned
<1>1. p \in Place /\ cache \in [Place -> CacheDir]
  BY DEF CachesInv, DiskOK
<1>2. PICK q \in Req : \/ DeleteCaches(q)
                       \/ MoveOut(q) \/ Install(q) \/ RestoreFails(q) \/ Signal(q)
  BY <1>1, WhoRemovesCaches
<1>3. CASE DeleteCaches(q)
  <2>1. /\ at[q] = "delete" /\ kind[q] \in {"orphan", "reset", "manager_cache"}
        /\ p[1] = req[q].place[1] /\ p[2] \in req[q].names
    BY <1>1, <1>3 DEF DeleteCaches
  <2>2. at'[q] # at[q]
    BY <1>3, <2>1, Moves DEF DeleteCaches, End
  <2>3. Allowed(kind[q], req[q].assigned, req[q].seen, p[2])
    BY <2>1, PlaceOfDeletion
  <2>4. CASE kind[q] = "reset"
    BY <2>1, <2>2, <2>4 DEF Acts
  <2>5. CASE kind[q] \in {"orphan", "manager_cache"}
    <3>1. p[2] \notin req[q].assigned
      BY <2>3, <2>5 DEF Allowed, Active
    <3>2. QED
      BY <2>2, <2>5, <3>1 DEF Acts
  <2>6. QED
    BY <2>1, <2>4, <2>5
<1>4. CASE MoveOut(q) \/ Install(q) \/ RestoreFails(q) \/ Signal(q)
  <2>1. at[q] \in Restoring
    BY <1>4 DEF MoveOut, Install, RestoreFails, Signal, Restoring
  <2>2. kind[q] = "restore" /\ req[q].place \in Place
    BY <2>1, PlaceOfRestore
  <2>3. PICK x : cache' = [cache EXCEPT ![req[q].place] = x]
    <3>1. CASE MoveOut(q) \/ Install(q) \/ Signal(q)
      BY <3>1 DEF MoveOut, Install, Signal
    <3>2. CASE RestoreFails(q)
      <4>1. cache' # cache
        OBVIOUS
      <4>2. Rollback(q)
        BY <3>2, <4>1 DEF RestoreFails
      <4>3. QED
        BY <4>2 DEF Rollback
    <3>3. QED
      BY <1>4, <3>1, <3>2
  <2>4. p = req[q].place
    BY <1>1, <2>2, <2>3
  <2>5. at'[q] # at[q]
    <3>1. PICK where \in {"install", "installed", "done", "interrupted"} :
            Goto(q, where) /\ at[q] # where
      BY <1>4 DEF MoveOut, Install, RestoreFails, Signal, End
    <3>2. QED
      BY <3>1, Moves
  <2>6. QED
    BY <2>2, <2>4, <2>5 DEF Acts
<1>5. QED
  BY <1>2, <1>3, <1>4

\* A clean up and a restore spare the caches of assigned repositories, whatever is
\* assigned, enabled, queued and scanned between their steps: cleanup_client_borg_caches
\* and cleanup_orphaned_manager_borg_data delete by the assignments they read themselves.
THEOREM CleanupsSpareActive == CachesSpec => CleanupSparesActive
<1>1. CachesInv /\ [CachesNext]_cachesVars =>
        [\A p \in jobs : cache[p] # NoCache /\ cache'[p] = NoCache =>
           \E q \in Req : \/ Acts(q, {"reset", "restore"}) /\ req[q].place[1] = p[1]
                          \/ Acts(q, {"orphan", "manager_cache"}) /\ p[2] \notin req[q].assigned
        ]_cachesVars
  BY SparesActiveStep
<1>2. QED
  BY <1>1, CachesTyped, PTL DEF CachesSpec, CleanupSparesActive

-----------------------------------------------------------------------------
\* What the cache of an assigned repository names is no duplicate, and counts as
\* active.
LEMMA ActiveIdsProtected ==
  ASSUME NEW view, NEW assigned, NEW b \in ActiveIds(view, assigned)
  PROVE  SecurityKind(view, assigned, b) = "security_active"
BY DEF SecurityKind, Older, Classified

\* An older one of several states has a newest one, which is not older itself.
LEMMA NewestOfLocation ==
  ASSUME NEW view, NEW assigned, NEW b, Older(view, assigned, b)
  PROVE  \E d \in Secured(view) : /\ view.security[d].loc = view.security[b].loc
                                  /\ view.security[d].stamp >= view.security[b].stamp
                                  /\ ~Older(view, assigned, d)
<1> DEFINE Group(c) == {d \in Secured(view) : /\ view.security[d].loc = view.security[c].loc
                                              /\ view.security[d].loc # None
                                              /\ view.security[d].stamp > 0}
           Newest(c) == {d \in Group(c) :
                           \A e \in Group(c) : view.security[e].stamp <= view.security[d].stamp}
<1>1. b \in Group(b) /\ Cardinality(Newest(b)) = 1
  BY DEF Older
<1>2. IsFiniteSet(Newest(b))
  <2>1. Newest(b) \subseteq Borg
    BY DEF Secured
  <2>2. QED
    BY <2>1, CachesConstants, FS_Subset
<1>3. Newest(b) # {}
  <2> HIDE DEF Newest
  <2>1. QED
    BY <1>1, FS_EmptySet
<1>4. PICK d \in Newest(b) : TRUE
  BY <1>3
<1>5. d \in Group(b) /\ view.security[d].loc = view.security[b].loc
  OBVIOUS
<1>6. Group(d) = Group(b)
  BY <1>5
<1>7. Newest(d) = Newest(b)
  BY <1>6
<1>8. ~Older(view, assigned, d)
  BY <1>7 DEF Older
<1>9. view.security[d].stamp >= view.security[b].stamp
  BY <1>1, <1>4
<1>10. QED
  BY <1>5, <1>8, <1>9

\* The security states that a clean up may delete, by a scan that still describes
\* the device.
LEMMA ProtectedStates ==
  ASSUME NEW view, NEW R, NEW names,
         NEW what \in {"security", "security_orphan", "manager_security"},
         \A n \in names : Allowed(what, R, view, n)
  PROVE  /\ \A b \in ActiveIds(view, R) : b \notin names
         /\ \A b \in Secured(view) : view.security[b].loc \in Locations(R) /\ ~Older(view, R, b)
              => b \notin names
<1>1. \A n \in names : SecurityKind(view, R, n) # "security_active"
  BY DEF Allowed
<1>2. \A b \in ActiveIds(view, R) : b \notin names
  BY <1>1, ActiveIdsProtected
<1>3. \A b \in Secured(view) : view.security[b].loc \in Locations(R) /\ ~Older(view, R, b)
        => SecurityKind(view, R, b) = "security_active"
  BY DEF SecurityKind, Classified
<1>4. QED
  BY <1>1, <1>2, <1>3

LEMMA ActiveIdsTyped ==
  ASSUME CachesInv, NEW h \in Node, NEW R \in SUBSET Repo
  PROVE  ActiveIds(View(h), R) \subseteq Borg
<1> SUFFICES ASSUME NEW b \in ActiveIds(View(h), R)
             PROVE  b \in Borg
  OBVIOUS
<1>1. CASE b \in IdsOf(View(h), R)
  <2>1. PICK r \in R : b = View(h).cache[r].borg /\ b # None
    BY <1>1 DEF IdsOf
  <2>2. View(h).cache[r] = cache[<<h, r>>]
    BY DEF View
  <2>3. cache[<<h, r>>] \in CacheDir
    BY DEF CachesInv, DiskOK, Place
  <2>4. QED
    BY <2>1, <2>2, <2>3 DEF CacheDir, NoCache
<1>2. CASE \E r \in Managed : b = BorgOf[r]
  BY <1>2, CachesConstants
<1>3. QED
  BY <1>1, <1>2, SMTT(40) DEF ActiveIds

LEMMA SecurityKeptStep ==
  ASSUME CachesInv, [CachesNext]_cachesVars, NEW q \in Req,
         Acts(q, {"security", "security_orphan", "manager_security"}), at[q] = "delete",
         NEW h, h = req[q].place[1], NEW R, R = req[q].assigned, req[q].seen = View(h)
  PROVE  /\ \A b \in ActiveIds(View(h), R) : security'[h][b] = security[h][b]
         /\ \A b \in Secured(View(h)) : security[h][b].loc \in Locations(R) =>
              \E d \in Secured(View(h)) : /\ security[h][d].loc = security[h][b].loc
                                         /\ security[h][d].stamp >= security[h][b].stamp
                                         /\ security'[h][d] = security[h][d]
<1>1. /\ h \in Node /\ R \in SUBSET Repo
      /\ \A n \in req[q].names : Allowed(kind[q], R, View(h), n)
  BY PlaceOfDeletion DEF CachesInv, RequestsOK, RequestOK
<1>2. View(h).security = security[h] /\ security \in [Node -> [Borg -> SecurityState]]
  BY DEF View, CachesInv, DiskOK
<1>3. \A b \in Borg : security[h][b].stamp \in Int
  BY <1>1, <1>2 DEF SecurityState
<1>4. \A b \in Borg \ req[q].names : security'[h][b] = security[h][b]
  <2>1. Work(q)
    <3>1. CachesNext
      BY DEF Acts, cachesVars
    <3>2. kind[q] # None
      BY DEF Acts, None
    <3>3. QED
      BY <3>1, <3>2, ActorWorks DEF Acts
  <2>2. CASE DeleteSecurity(q)
    <3>1. security' = [security EXCEPT ![h] =
                         [b \in Borg |-> IF b \in req[q].names THEN NoState ELSE @[b]]]
      BY <2>2 DEF DeleteSecurity
    <3>2. QED
      BY <1>1, <1>2, <3>1
  <2>3. CASE ~DeleteSecurity(q)
    <3>1. UNCHANGED security
      BY <2>1, <2>3 DEF Work, CleanupStep, CollectStep, RestoreStep, Rescan, Select, DeleteCaches,
         DeleteUserCaches, CleanupFails, StreamCache, StreamSecurity, CollectFails,
         Unpack, MoveOut, Install, RestoreFails, Signal, RestoreSecurity, InstallSecurity,
         SecurityFails, disk
    <3>2. QED
      BY <3>1
  <2>4. QED
    BY <2>2, <2>3
<1>5. kind[q] \in {"security", "security_orphan", "manager_security"}
  BY DEF Acts
<1>6. PICK view : view = View(h)
  OBVIOUS
<1>7. \A n \in req[q].names : Allowed(kind[q], R, view, n)
  BY <1>1, <1>6
<1>8. /\ \A b \in ActiveIds(view, R) : b \notin req[q].names
      /\ \A b \in Secured(view) : view.security[b].loc \in Locations(R) /\ ~Older(view, R, b)
           => b \notin req[q].names
  <2>1. PICK what, names : what = kind[q] /\ names = req[q].names
    OBVIOUS
  <2>2. /\ what \in {"security", "security_orphan", "manager_security"}
        /\ \A n \in names : Allowed(what, R, view, n)
    BY <1>5, <1>7, <2>1
  <2>3. /\ \A b \in ActiveIds(view, R) : b \notin names
        /\ \A b \in Secured(view) : view.security[b].loc \in Locations(R) /\ ~Older(view, R, b)
             => b \notin names
    BY <2>2, ProtectedStates
  <2>4. QED
    BY <2>1, <2>3, ZenonT(40)
<1>9. Secured(view) \subseteq Borg
  BY DEF Secured
<1>10. \A b \in ActiveIds(View(h), R) : security'[h][b] = security[h][b]
  <2>1. ActiveIds(View(h), R) \subseteq Borg
    BY <1>1, ActiveIdsTyped
  <2>2. \A b \in ActiveIds(View(h), R) : b \notin req[q].names
    BY <1>6, <1>8
  <2>3. QED
    BY <1>4, <2>1, <2>2
<1>11. ASSUME NEW b \in Secured(view), security[h][b].loc \in Locations(R)
       PROVE  \E d \in Secured(view) : /\ security[h][d].loc = security[h][b].loc
                                       /\ security[h][d].stamp >= security[h][b].stamp
                                       /\ security'[h][d] = security[h][d]
  <2>1. view.security = security[h]
    BY <1>2, <1>6
  <2>2. PICK d \in Secured(view) : /\ view.security[d].loc = view.security[b].loc
                                   /\ view.security[d].stamp >= view.security[b].stamp
                                   /\ ~Older(view, R, d)
    <3>1. CASE Older(view, R, b)
      BY <3>1, NewestOfLocation
    <3>2. CASE ~Older(view, R, b)
      BY <1>3, <1>9, <2>1, <3>2
    <3>3. QED
      BY <3>1, <3>2
  <2>3. d \notin req[q].names
    BY <1>8, <1>11, <2>1, <2>2
  <2>4. security'[h][d] = security[h][d]
    BY <1>4, <1>9, <2>3
  <2>5. QED
    BY <2>1, <2>2, <2>4, ZenonT(40)
<1>12. QED
  BY <1>6, <1>10, <1>11, ZenonT(40)

\* However the states, times and locations on a device contradict each other, a clean
\* up that deletes by a true picture of it keeps what the caches of assigned
\* repositories name, and the newest state of each of their locations
\* (_parse_scan_output and the removals of app/client_cache.py).
THEOREM AssignedSecurityIsKept == CachesSpec => AssignedSecurityKept
<1>1. CachesInv /\ [CachesNext]_cachesVars =>
        [\A q \in Req : Acts(q, {"security", "security_orphan", "manager_security"}) /\ at[q] = "delete" =>
           LET h == req[q].place[1] R == req[q].assigned IN
           req[q].seen = View(h) =>
             /\ \A b \in ActiveIds(View(h), R) : security'[h][b] = security[h][b]
             /\ \A b \in Secured(View(h)) : security[h][b].loc \in Locations(R) =>
                  \E d \in Secured(View(h)) : /\ security[h][d].loc = security[h][b].loc
                                             /\ security[h][d].stamp >= security[h][b].stamp
                                             /\ security'[h][d] = security[h][d]]_cachesVars
  <2> SUFFICES ASSUME CachesInv, [CachesNext]_cachesVars, NEW q \in Req,
                      Acts(q, {"security", "security_orphan", "manager_security"}),
                      at[q] = "delete", NEW h, h = req[q].place[1], NEW R, R = req[q].assigned,
                      req[q].seen = View(h)
               PROVE  /\ \A b \in ActiveIds(View(h), R) : security'[h][b] = security[h][b]
                      /\ \A b \in Secured(View(h)) : security[h][b].loc \in Locations(R) =>
                           \E d \in Secured(View(h)) :
                             /\ security[h][d].loc = security[h][b].loc
                             /\ security[h][d].stamp >= security[h][b].stamp
                             /\ security'[h][d] = security[h][d]
    <3>1. \A q \in Req : \E h, R : h = req[q].place[1] /\ R = req[q].assigned
      OBVIOUS
    <3>2. QED
      BY <3>1
  <2>1. QED
    BY SecurityKeptStep
<1>2. QED
  BY <1>1, CachesTyped, PTL DEF CachesSpec, AssignedSecurityKept

-----------------------------------------------------------------------------
\* A cache that a restore moves out of the way is its place's copy, until the
\* restore puts it back.
LEMMA KeepsPreviousStep ==
  ASSUME CachesInv, NEW q \in Req, RestoreStep(q), ~Signal(q)
  PROVE  KeepsPrevious(q)
<1>1. at[q] \in Restoring
  BY ZenonT(40)
  DEF RestoreStep, Unpack, MoveOut, Install, RestoreFails, Signal, RestoreSecurity,
      InstallSecurity, SecurityFails, Restoring
<1>2. /\ req[q].place \in Place
      /\ cache \in [Place -> CacheDir] /\ copies \in [Place -> SUBSET CacheDir]
  BY <1>1, PlaceOfRestore DEF CachesInv, DiskOK
<1>3. PICK p, m : p = req[q].place /\ m = req[q].moved
  OBVIOUS
<1>4. CASE UNCHANGED <<cache, copies>>
  BY <1>4 DEF KeepsPrevious
<1>5. CASE MoveOut(q)
  BY <1>2, <1>5 DEF MoveOut, KeepsPrevious
<1>6. CASE Install(q)
  BY <1>6 DEF Install, KeepsPrevious
<1>7. CASE at[q] = "install" /\ Rollback(q)
  <2> SUFFICES ASSUME m # NoCache, m \in copies[p]
               PROVE  m \in {cache'[p]} \cup copies'[p]
    BY <1>3, <1>7 DEF KeepsPrevious
  <2>1. cache' = [cache EXCEPT ![p] = m]
    BY <1>3, <1>7 DEF Rollback
  <2>2. p \in Place /\ DOMAIN cache = Place
    BY <1>2, <1>3
  <2>3. cache'[p] = m
    BY <2>1, <2>2, SMTT(30)
  <2>4. QED
    BY <2>3
<1>8. CASE Unpack(q) \/ RestoreSecurity(q) \/ InstallSecurity(q) \/ SecurityFails(q)
  BY <1>4, <1>8 DEF Unpack, RestoreSecurity, InstallSecurity, SecurityFails, disk
<1>9. CASE RestoreFails(q)
  BY <1>4, <1>7, <1>9 DEF RestoreFails
<1>10. QED
  BY <1>5, <1>6, <1>8, <1>9 DEF RestoreStep

LEMMA ExistingKeptStep ==
  ASSUME CachesInv, [CachesNext]_cachesVars, NEW q \in Req, Acts(q, {"restore"})
  PROVE  /\ at'[q] # "interrupted" => KeepsPrevious(q)
         /\ \A h \in Node, b \in Borg :
              security[h][b] # NoState => security'[h][b] = security[h][b]
<1>1. Work(q)
  <2>1. CachesNext
    BY DEF Acts, cachesVars
  <2>2. kind[q] # None
    BY DEF Acts, None
  <2>3. QED
    BY <2>1, <2>2, ActorWorks DEF Acts
<1>2. /\ kind[q] = "restore" /\ at[q] \in Restoring \cup {"done", "interrupted"}
      /\ at \in [Req -> Stages]
  BY DEF Acts, CachesInv, RequestsOK, RequestOK, KindStage
<1>3. RestoreStep(q)
  BY <1>1, <1>2 DEF Work, CleanupStep, CollectStep, Rescan, Select, DeleteCaches,
     DeleteSecurity, DeleteUserCaches, CleanupFails, StreamCache, StreamSecurity, CollectFails,
     Restoring
<1>4. ASSUME Signal(q)
      PROVE  at'[q] = "interrupted"
  BY <1>2, <1>4 DEF Signal, Goto
<1>5. at'[q] # "interrupted" => KeepsPrevious(q)
  BY <1>3, <1>4, KeepsPreviousStep
<1>6. ASSUME NEW h \in Node, NEW b \in Borg, security[h][b] # NoState
      PROVE  security'[h][b] = security[h][b]
  <2>1. CASE InstallSecurity(q)
    <3>1. PICK s \in req[q].states :
            security' = [security EXCEPT ![req[q].place[1]][s[1]] = IF @ = NoState THEN s[2] ELSE @]
      BY <2>1 DEF InstallSecurity
    <3>2. security \in [Node -> [Borg -> SecurityState]]
      BY DEF CachesInv, DiskOK
    <3>3. PICK g, c, y : g = req[q].place[1] /\ c = s[1] /\ y = s[2]
      OBVIOUS
    <3>4. security' = [security EXCEPT ![g][c] = IF @ = NoState THEN y ELSE @]
      BY <3>1, <3>3
    <3>5. QED
      BY <1>6, <3>2, <3>4
  <2>2. CASE ~InstallSecurity(q)
    BY <1>3, <2>2 DEF RestoreStep, Unpack, MoveOut, Install, RestoreFails, Signal,
       RestoreSecurity, SecurityFails, disk
  <2>3. QED
    BY <2>1, <2>2
<1>7. QED
  BY <1>5, <1>6

\* No failure of the two scripts of a restore loses the cache that was in its place,
\* and no restore overwrites a security state: rollback() of the scripts in
\* app/runner.py, beside clean ups, runs and other restores at any place.
THEOREM RestoresKeepExisting == CachesSpec => ExistingStateKept
<1>1. CachesInv /\ [CachesNext]_cachesVars =>
        [\A q \in Req : Acts(q, {"restore"}) =>
           /\ at'[q] # "interrupted" => KeepsPrevious(q)
           /\ \A h \in Node, b \in Borg :
                security[h][b] # NoState => security'[h][b] = security[h][b]]_cachesVars
  BY ExistingKeptStep
<1>2. QED
  BY <1>1, CachesTyped, PTL DEF CachesSpec, ExistingStateKept
=================================================================================
