------------------------- MODULE AdjustableCapacity -------------------------
(***************************************************************************)
(* class _AdjustableCapacity (app/service.py:483-546): the limiter behind  *)
(* every repository lock, mount lock and manager-cache lock.               *)
(*                                                                         *)
(* Everything runs on one event loop, so a call is one step up to the      *)
(* `await waiter` inside acquire().  A task that waits is resumed in a     *)
(* later step, and between the two steps the task may be cancelled, either *)
(* by a user (cancel_run) or by the 0.25 s timeout of                      *)
(* _acquire_mount_capacity.  asyncio.Task.cancel() has two cases:          *)
(*   - the future is still pending: it becomes cancelled at once, and the  *)
(*     task notices when it is resumed;                                    *)
(*   - the future has its result already: the task is marked, and          *)
(*     CancelledError is raised at the await although the slot was granted.*)
(***************************************************************************)
EXTENDS Integers, Sequences, FiniteSets

CONSTANTS
  Task,                \* tasks that use the limiter
  Request              \* values passed to __init__ and set_limit

ASSUME TaskAssumption == IsFiniteSet(Task)
ASSUME RequestAssumption == Request \subseteq Int

VARIABLES
  limit,               \* self._limit
  inUse,               \* self._in_use
  waiters,             \* self._waiters, each future named by its task
  pc,                  \* "idle", "waiting" (at `await waiter`) or "holding"
  future,              \* the state of the task's future
  mustCancel           \* tasks cancelled after their future had a result

vars == <<limit, inUse, waiters, pc, future, mustCancel>>

PC == {"idle", "waiting", "holding"}
FutureState == {"none", "pending", "granted", "cancelled"}

\* max(1, int(limit))
Effective(n) == IF n < 1 THEN 1 ELSE n

Pending == {t \in Task : future[t] = "pending"}
Granted == {t \in Task : future[t] = "granted"}
Holding == {t \in Task : pc[t] = "holding"}

InQueue(q) == {q[i] : i \in DOMAIN q}
Front(q, k) == {q[i] : i \in 1..k}

-----------------------------------------------------------------------------
Init ==
  /\ \E n \in Request : limit = Effective(n)
  /\ inUse = 0
  /\ waiters = <<>>
  /\ pc = [t \in Task |-> "idle"]
  /\ future = [t \in Task |-> "none"]
  /\ mustCancel = {}

(***************************************************************************)
(* _wake_waiters().  It pops waiters from the left while used < lim.       *)
(* A popped waiter whose future is done (it was cancelled) is dropped, any *)
(* other receives a slot.  k is the number of waiters popped.              *)
(***************************************************************************)
Served(q, fut, k) == {t \in Front(q, k) : fut[t] = "pending"}

\* Mutant: waiters are popped from the right end of the deque.
WakeWaitersFromRight(lim, used, q, fut) ==
  \E k \in 0..Len(q) :
    LET last(j) == {q[i] : i \in (Len(q) - j + 1)..Len(q)}
        served(j) == {t \in last(j) : fut[t] = "pending"}
        slots(j) == used + Cardinality(served(j))
    IN /\ \A j \in 0..(k - 1) : slots(j) < lim
       /\ k = Len(q) \/ slots(k) >= lim
       /\ waiters' = SubSeq(q, 1, Len(q) - k)
       /\ inUse' = slots(k)
       /\ future' = [t \in Task |-> IF t \in served(k) THEN "granted" ELSE fut[t]]

\* Mutant: the loop condition admits one waiter too many.
WakeWaitersOneMore(lim, used, q, fut) ==
  \E k \in 0..Len(q) :
    LET slots(j) == used + Cardinality(Served(q, fut, j)) IN
    /\ \A j \in 0..(k - 1) : slots(j) <= lim
    /\ k = Len(q) \/ slots(k) > lim
    /\ waiters' = SubSeq(q, k + 1, Len(q))
    /\ inUse' = slots(k)
    /\ future' = [t \in Task |-> IF t \in Served(q, fut, k) THEN "granted" ELSE fut[t]]

WakeWaiters(lim, used, q, fut) ==
  \E k \in 0..Len(q) :
    LET slots(j) == used + Cardinality(Served(q, fut, j)) IN
    /\ \A j \in 0..(k - 1) : slots(j) < lim
    /\ k = Len(q) \/ slots(k) >= lim
    /\ waiters' = SubSeq(q, k + 1, Len(q))
    /\ inUse' = slots(k)
    /\ future' = [t \in Task |-> IF t \in Served(q, fut, k) THEN "granted" ELSE fut[t]]

(***************************************************************************)
(* acquire() up to its return or its await.                                *)
(***************************************************************************)
AcquireFast(t) ==
  /\ pc[t] = "idle"
  /\ inUse < limit /\ waiters = <<>>
  /\ inUse' = inUse + 1
  /\ pc' = [pc EXCEPT ![t] = "holding"]
  /\ UNCHANGED <<limit, waiters, future, mustCancel>>

AcquireWait(t) ==
  /\ pc[t] = "idle"
  /\ ~(inUse < limit /\ waiters = <<>>)
  /\ pc' = [pc EXCEPT ![t] = "waiting"]
  /\ WakeWaiters(limit, inUse, Append(waiters, t), [future EXCEPT ![t] = "pending"])
  /\ UNCHANGED <<limit, mustCancel>>

\* The await returns and the caller owns the slot reserved by _wake_waiters().
Resume(t) ==
  /\ pc[t] = "waiting" /\ future[t] = "granted" /\ t \notin mustCancel
  /\ pc' = [pc EXCEPT ![t] = "holding"]
  /\ future' = [future EXCEPT ![t] = "none"]
  /\ UNCHANGED <<limit, inUse, waiters, mustCancel>>

\* task.cancel(), or the timeout of wait_for, while the task is at the await.
Cancel(t) ==
  /\ pc[t] = "waiting"
  /\ \/ /\ future[t] = "pending"
        /\ future' = [future EXCEPT ![t] = "cancelled"]
        /\ UNCHANGED mustCancel
     \/ /\ future[t] = "granted" /\ t \notin mustCancel
        /\ mustCancel' = mustCancel \cup {t}
        /\ UNCHANGED future
  /\ UNCHANGED <<limit, inUse, waiters, pc>>

\* except BaseException with waiter.done() and not waiter.cancelled(): the
\* slot was already reserved for this task and goes to the next waiter.
GiveBack(t) ==
  /\ pc[t] = "waiting" /\ future[t] = "granted" /\ t \in mustCancel
  /\ pc' = [pc EXCEPT ![t] = "idle"]
  /\ mustCancel' = mustCancel \ {t}
  /\ WakeWaiters(limit, IF inUse > 0 THEN inUse - 1 ELSE 0, waiters,
                 [future EXCEPT ![t] = "none"])
  /\ UNCHANGED limit

\* except BaseException otherwise: the cancelled future leaves the deque,
\* unless _wake_waiters() dropped it before.
LeaveQueue(t) ==
  /\ pc[t] = "waiting" /\ future[t] = "cancelled"
  /\ pc' = [pc EXCEPT ![t] = "idle"]
  /\ future' = [future EXCEPT ![t] = "none"]
  /\ \/ t \notin InQueue(waiters) /\ UNCHANGED waiters
     \/ \E i \in DOMAIN waiters :
          /\ waiters[i] = t
          /\ waiters' = SubSeq(waiters, 1, i - 1) \o SubSeq(waiters, i + 1, Len(waiters))
  /\ UNCHANGED <<limit, inUse, mustCancel>>

\* Mutant: release() does not wake the waiters.
ReleaseSilently(t) ==
  /\ pc[t] = "holding" /\ inUse > 0
  /\ pc' = [pc EXCEPT ![t] = "idle"]
  /\ inUse' = inUse - 1
  /\ UNCHANGED <<limit, waiters, future, mustCancel>>

\* release(); its ValueError for inUse <= 0 is the guard.
Release(t) ==
  /\ pc[t] = "holding" /\ inUse > 0
  /\ pc' = [pc EXCEPT ![t] = "idle"]
  /\ WakeWaiters(limit, inUse - 1, waiters, future)
  /\ UNCHANGED <<limit, mustCancel>>

SetLimit(n) ==
  /\ limit' = Effective(n)
  /\ WakeWaiters(limit', inUse, waiters, future)
  /\ UNCHANGED <<pc, mustCancel>>

Step(t) ==
  \/ AcquireFast(t) \/ AcquireWait(t) \/ Resume(t) \/ Cancel(t)
  \/ GiveBack(t) \/ LeaveQueue(t) \/ Release(t)

Next == (\E t \in Task : Step(t)) \/ (\E n \in Request : SetLimit(n))

Spec == Init /\ [][Next]_vars

(***************************************************************************)
(* The event loop runs every task that became ready, and the owner of a    *)
(* slot returns it at the end of a Borg command, which has a timeout.      *)
(***************************************************************************)
Fairness ==
  \A t \in Task : WF_vars(Resume(t) \/ GiveBack(t) \/ LeaveQueue(t) \/ Release(t))

FairSpec == Spec /\ Fairness

-----------------------------------------------------------------------------
TypeOK ==
  /\ limit \in Nat \ {0}
  /\ inUse \in Nat
  /\ waiters \in Seq(Task)
  /\ pc \in [Task -> PC]
  /\ future \in [Task -> FutureState]
  /\ mustCancel \in SUBSET Task

(***************************************************************************)
(* The counter equals the number of tasks that own a slot: those that hold *)
(* it and those it was granted to before they could run.  A cancellation   *)
(* that races the grant neither leaks a slot nor frees one twice, so       *)
(* release() never raises its ValueError.                                  *)
(***************************************************************************)
SlotAccounting == inUse = Cardinality(Holding \cup Granted)

(***************************************************************************)
(* No lost wakeup: nobody waits while a slot is free, whatever order of    *)
(* cancellations, releases and limit changes led here.                     *)
(***************************************************************************)
NoIdleSlot == Pending # {} => inUse >= limit

(***************************************************************************)
(* The deque and the tasks agree: every pending future is in it, no future *)
(* is in it twice, and none that was granted or abandoned is left in it    *)
(* (such a leftover would swallow the grant meant for somebody else).      *)
(***************************************************************************)
QueueSound ==
  /\ Pending \subseteq InQueue(waiters)
  /\ \A i, j \in DOMAIN waiters : waiters[i] = waiters[j] => i = j
  /\ \A t \in InQueue(waiters) : future[t] \in {"pending", "cancelled"}

(***************************************************************************)
(* First come, first served: a task that obtains a slot never overtakes a  *)
(* task that is ahead of it in the deque and still waits after the step,   *)
(* neither by the fast path nor by a wakeup.                               *)
(***************************************************************************)
Ahead(u, t) ==
  \E i \in DOMAIN waiters :
    /\ waiters[i] = u
    /\ \A j \in DOMAIN waiters : waiters[j] = t => i < j

FirstComeFirstServed ==
  [][\A t, u \in Task :
       /\ t \notin (Holding \cup Granted) /\ t \in (Holding \cup Granted)'
       /\ u \in Pending /\ Ahead(u, t)
       => u \notin Pending']_vars

(***************************************************************************)
(* The limiter is a resizable, work-conserving semaphore: an increase is   *)
(* used in the step that makes it (the class comment tells of the mount    *)
(* that stayed at 1), and a decrease admits nobody above it while it takes *)
(* no slot away from an owner.                                             *)
(***************************************************************************)
Semaphore ==
  INSTANCE ElasticSemaphore WITH owners <- Holding \cup Granted, wanting <- Pending

Implements == Semaphore!Spec

(***************************************************************************)
(* Every waiter is served or gives up, however the limit changes meanwhile.*)
(***************************************************************************)
WaiterServed == \A t \in Task : (t \in Pending) ~> (t \notin Pending)
=============================================================================
