---------------------------- MODULE RunTask_proofs ----------------------------
(***************************************************************************)
(* Proofs about the tasks of a repository's runs, for any number of runs   *)
(* and calls and any number of cancellations: the lock goes with the Borg  *)
(* process, the cached archive list shows what a published run changed, a  *)
(* cancelled run is reported as cancelled, and one failed probe of the     *)
(* storage stops nothing.                                                  *)
(***************************************************************************)
EXTENDS RunTask, SequenceTheorems, TLAPS

Members(s) == {s[i] : i \in DOMAIN s}
Once(s) == \A i, j \in DOMAIN s : s[i] = s[j] => i = j

\* Where a task or call holds the lock, whatever else happens.
Holding == {"prepare", "borg", "borg2", "aborting", "stopping", "after", "clearing"}

\* Where a run's process is under the control of its task.
Controlled == {"borg", "borg2", "aborting", "stopping"}

(***************************************************************************)
(* The row of a run agrees with the place of its task, and a call never    *)
(* stands where only runs do.                                              *)
(***************************************************************************)
RowsAgree ==
  /\ \A r \in Run :
       /\ pc[r] = "new" => status[r] = "none" /\ cancels[r] = 0
       /\ pc[r] \in {"stats", "statslock", "done"} <=> status[r] \in Terminal
       /\ pc[r] \notin {"new", "stats", "statslock", "done"} => Active(r)
       /\ pc[r] \notin {"clearlock", "clearing", "resetlock"}
  /\ \A c \in Call : pc[c] \in {"new", "lock", "clearlock", "clearing", "resetlock", "done"}

HoldersOwn == \A x \in Run \cup Call : pc[x] \in Holding => Owns(x)

QueueInOrder ==
  /\ Once(lock)
  /\ \A x \in Members(lock) : pc[x] \notin {"new", "queued", "stats", "done"}

(***************************************************************************)
(* A living process that is neither lost nor abandoned by a second         *)
(* cancellation is one its task waits for.                                 *)
(***************************************************************************)
ProcessesControlled ==
  /\ \A r \in alive \ OutOfHand : pc[r] \in Controlled
  /\ \A r \in Run : pc[r] = "stopping" => cancels[r] > 0

ChangesKnown == missing \subseteq Changing /\ PublishedIsSeen

\* What a task brings to its cleanup, and where a cancelled run is on its way
\* to its terminal status.
OutcomesSound ==
  /\ \A r \in Run : pc[r] \in {"after", "cleanup"} => outcome[r] \in Terminal
  /\ \A r \in Run \ lost :
       cancels[r] > 0 =>
         \/ pc[r] \in {"stopping", "orphan"}
         \/ pc[r] = "cleanup" /\ outcome[r] = "cancelled"
         \/ pc[r] = "done" /\ status[r] = "cancelled"

\* The count of failed probes is zero after a good one, and a watched backup
\* has not reached the limit.
CountsSound ==
  \A r \in Run :
    /\ failures[r] > 0 => lastFailed[r]
    /\ failures[r] > 1 => pc[r] \notin {"new", "queued", "lock", "prepare", "borg"}

TaskInv ==
  /\ TypeOK /\ RowsAgree /\ HoldersOwn /\ QueueInOrder /\ ProcessesControlled
  /\ ChangesKnown /\ OutcomesSound /\ CountsSound

-----------------------------------------------------------------------------
\* What the lock's queue is like without one of its members.
LEMMA WithoutKeepsOrder ==
  ASSUME TypeOK, Once(lock), NEW x
  PROVE  /\ Without(x) \in Seq(Run \cup Call)
         /\ Members(Without(x)) = Members(lock) \ {x}
         /\ Once(Without(x))
         /\ lock # <<>> /\ Head(lock) # x => Without(x) # <<>> /\ Head(Without(x)) = Head(lock)
<1>1. CASE \A k \in DOMAIN lock : lock[k] # x
  <2>1. Without(x) = lock
    BY <1>1 DEF Without
  <2>2. QED
    BY <2>1, <1>1 DEF Members, TypeOK
<1>2. CASE \E k \in DOMAIN lock : lock[k] = x
  <2>1. PICK k \in DOMAIN lock : lock[k] = x
    BY <1>2
  <2>2. k = (CHOOSE i \in DOMAIN lock : lock[i] = x)
    BY <2>1 DEF Once
  <2> DEFINE n == Len(lock)
             w == [i \in 1..(n - 1) |-> lock[IF i < k THEN i ELSE i + 1]]
  <2>3. Without(x) = w
    BY <1>2, <2>2 DEF Without
  <2>4. n \in Nat /\ DOMAIN lock = 1..n /\ k \in 1..n /\ \A i \in 1..n : lock[i] \in Run \cup Call
    BY <2>1 DEF TypeOK
  <2>5. /\ w \in Seq(Run \cup Call) /\ DOMAIN w = 1..(n - 1)
        /\ \A i \in 1..(n - 1) : w[i] = lock[IF i < k THEN i ELSE i + 1]
        /\ Len(w) = n - 1
    BY <2>4
  <2> HIDE DEF w, n
  <2>6. Members(w) = Members(lock) \ {x}
    <3>1. ASSUME NEW i \in 1..(n - 1) PROVE w[i] \in Members(lock) \ {x}
      <4>1. (IF i < k THEN i ELSE i + 1) \in 1..n /\ (IF i < k THEN i ELSE i + 1) # k
        BY <2>4
      <4>2. QED
        BY <4>1, <2>1, <2>4, <2>5 DEF Members, Once
    <3>2. ASSUME NEW i \in 1..n, lock[i] # x PROVE lock[i] \in Members(w)
      <4>1. PICK j \in 1..(n - 1) : i = IF j < k THEN j ELSE j + 1
        <5>1. CASE i < k
          BY <5>1, <2>4
        <5>2. CASE i > k
          <6>1. i - 1 \in 1..(n - 1) /\ ~(i - 1 < k) /\ i = (i - 1) + 1
            BY <5>2, <2>4
          <6>2. QED
            BY <6>1
        <5>3. QED
          BY <5>1, <5>2, <3>2, <2>1, <2>4
      <4>2. QED
        BY <4>1, <2>5 DEF Members
    <3>3. QED
      BY <3>1, <3>2, <2>4, <2>5 DEF Members
  <2>7. Once(w)
    <3> SUFFICES ASSUME NEW i \in 1..(n - 1), NEW j \in 1..(n - 1), w[i] = w[j] PROVE i = j
      BY <2>5 DEF Once
    <3>1. PICK p \in 1..n, q \in 1..n :
            p = (IF i < k THEN i ELSE i + 1) /\ q = (IF j < k THEN j ELSE j + 1)
      BY <2>4
    <3>2. lock[p] = lock[q]
      BY <3>1, <2>5
    <3>3. p = q
      BY <3>2, <2>4 DEF Once
    <3>4. QED
      BY <3>1, <3>3, <2>4
  <2>8. ASSUME lock # <<>>, Head(lock) # x PROVE w # <<>> /\ Head(w) = Head(lock)
    <3>1. k > 1 /\ Head(lock) = lock[1]
      BY <2>1, <2>4, <2>8 DEF n
    <3>2. 1 \in 1..(n - 1) /\ w[1] = lock[1]
      BY <3>1, <2>4, <2>5
    <3>3. QED
      BY <3>1, <3>2, <2>5
  <2>9. QED
    BY <2>3, <2>5, <2>6, <2>7, <2>8
<1>3. QED
  BY <1>1, <1>2

\* What the other changes of the lock's queue do to its members and its head.
LEMMA AppendKeepsOrder ==
  ASSUME NEW S, NEW s \in Seq(S), NEW x \in S, Once(s), x \notin Members(s)
  PROVE  /\ Append(s, x) \in Seq(S)
         /\ Members(Append(s, x)) = Members(s) \cup {x}
         /\ Once(Append(s, x))
         /\ Append(s, x) # <<>>
         /\ s # <<>> => Head(Append(s, x)) = Head(s)
<1> DEFINE a == Append(s, x)
<1>1. /\ a \in Seq(S) /\ Len(a) = Len(s) + 1 /\ Len(s) \in Nat
      /\ \A i \in 1..Len(s) : a[i] = s[i]
      /\ a[Len(s) + 1] = x
  OBVIOUS
<1> HIDE DEF a
<1>2. DOMAIN s = 1..Len(s) /\ DOMAIN a = 1..(Len(s) + 1)
  BY <1>1
<1>3. Members(a) = Members(s) \cup {x}
  BY <1>1, <1>2 DEF Members
<1>4. Once(a)
  BY <1>1, <1>2 DEF Members, Once
<1>5. a # <<>> /\ (s # <<>> => Head(a) = Head(s))
  BY <1>1
<1>6. QED
  BY <1>1, <1>3, <1>4, <1>5 DEF a

LEMMA TailKeepsOrder ==
  ASSUME NEW S, NEW s \in Seq(S), s # <<>>, Once(s)
  PROVE  /\ Tail(s) \in Seq(S)
         /\ Members(Tail(s)) = Members(s) \ {Head(s)}
         /\ Once(Tail(s))
<1> DEFINE t == Tail(s)
<1>1. /\ t \in Seq(S) /\ Len(t) = Len(s) - 1 /\ Len(s) \in Nat \ {0}
      /\ \A i \in 1..(Len(s) - 1) : t[i] = s[i + 1]
      /\ Head(s) = s[1]
  OBVIOUS
<1> HIDE DEF t
<1>2. DOMAIN s = 1..Len(s) /\ DOMAIN t = 1..(Len(s) - 1)
  BY <1>1
<1>3. Members(t) = Members(s) \ {Head(s)}
  <2>1. ASSUME NEW i \in DOMAIN s, i # 1 PROVE s[i] \in Members(t)
    <3>1. i - 1 \in DOMAIN t /\ t[i - 1] = s[i]
      BY <2>1, <1>1, <1>2
    <3>2. QED
      BY <3>1 DEF Members
  <2>2. ASSUME NEW i \in DOMAIN t PROVE t[i] \in Members(s) \ {Head(s)}
    <3>1. i + 1 \in DOMAIN s /\ 1 \in DOMAIN s /\ i + 1 # 1 /\ t[i] = s[i + 1]
      BY <1>1, <1>2
    <3>2. QED
      BY <3>1, <1>1 DEF Members, Once
  <2>3. \A y \in Members(s) \ {Head(s)} : y \in Members(t)
    BY <2>1, <1>1 DEF Members
  <2>4. \A y \in Members(t) : y \in Members(s) \ {Head(s)}
    BY <2>2 DEF Members
  <2>5. QED
    BY <2>3, <2>4
<1>4. Once(t)
  <2> SUFFICES ASSUME NEW i \in DOMAIN t, NEW j \in DOMAIN t, t[i] = t[j] PROVE i = j
    BY DEF Once
  <2>1. i + 1 \in DOMAIN s /\ j + 1 \in DOMAIN s /\ s[i + 1] = s[j + 1]
    BY <1>1, <1>2
  <2>2. i + 1 = j + 1
    BY <2>1 DEF Once
  <2>3. QED
    BY <2>2, <1>2
<1>5. QED
  BY <1>1, <1>3, <1>4 DEF t

(***************************************************************************)
(* Every change of the lock's queue is one of x entering or leaving it:    *)
(* the others keep their order, and an owner other than x stays the owner. *)
(***************************************************************************)
LEMMA LockMoves ==
  ASSUME TypeOK, Once(lock), NEW x \in Run \cup Call,
         \/ lock' = lock
         \/ lock' = Append(lock, x) /\ x \notin Members(lock)
         \/ Owns(x) /\ lock' = Tail(lock)
         \/ lock' = Without(x)
         \/ Owns(x) /\ lock' = Append(Tail(lock), x)
  PROVE  /\ lock' \in Seq(Run \cup Call)
         /\ Once(lock')
         /\ \A y \in Members(lock') : y = x \/ y \in Members(lock)
         /\ (lock' = Tail(lock) /\ Owns(x)) \/ lock' = Without(x) => x \notin Members(lock')
         /\ \A y : y # x /\ Owns(y) => lock' # <<>> /\ Head(lock') = y
<1>0. lock \in Seq(Run \cup Call)
  BY DEF TypeOK
<1>1. ASSUME lock' = Without(x)
      PROVE  /\ lock' \in Seq(Run \cup Call) /\ Once(lock')
             /\ Members(lock') = Members(lock) \ {x}
             /\ \A y : y # x /\ Owns(y) => lock' # <<>> /\ Head(lock') = y
  BY <1>1, WithoutKeepsOrder DEF Owns
<1>2. ASSUME Owns(x), lock' = Tail(lock)
      PROVE  /\ lock' \in Seq(Run \cup Call) /\ Once(lock')
             /\ Members(lock') = Members(lock) \ {x}
             /\ \A y : y # x => ~Owns(y)
  BY <1>0, <1>2, TailKeepsOrder DEF Owns
<1>3. ASSUME lock' = Append(lock, x), x \notin Members(lock)
      PROVE  /\ lock' \in Seq(Run \cup Call) /\ Once(lock')
             /\ Members(lock') = Members(lock) \cup {x}
             /\ \A y : y # x /\ Owns(y) => lock' # <<>> /\ Head(lock') = y
  BY <1>0, <1>3, AppendKeepsOrder DEF Owns
<1>4. ASSUME Owns(x), lock' = Append(Tail(lock), x)
      PROVE  /\ lock' \in Seq(Run \cup Call) /\ Once(lock')
             /\ Members(lock') = (Members(lock) \ {x}) \cup {x}
             /\ \A y : y # x => ~Owns(y)
  <2>1. /\ Tail(lock) \in Seq(Run \cup Call) /\ Once(Tail(lock))
        /\ Members(Tail(lock)) = Members(lock) \ {x}
    BY <1>0, <1>4, TailKeepsOrder DEF Owns
  <2>2. x \notin Members(Tail(lock))
    BY <2>1
  <2> DEFINE t == Tail(lock)
  <2> HIDE DEF t
  <2>3. /\ Append(t, x) \in Seq(Run \cup Call) /\ Once(Append(t, x))
        /\ Members(Append(t, x)) = Members(t) \cup {x}
    <3>1. t \in Seq(Run \cup Call) /\ Once(t) /\ x \notin Members(t)
      BY <2>1, <2>2 DEF t
    <3>2. QED
      BY <3>1, AppendKeepsOrder
  <2>4. Members(lock') = (Members(lock) \ {x}) \cup {x}
    BY <2>1, <2>3, <1>4 DEF t
  <2>5. \A y : y # x => ~Owns(y)
    BY <1>4 DEF Owns
  <2>6. QED
    BY <2>3, <2>4, <2>5, <1>4 DEF t
<1>5. Owns(x) => x \in Members(lock)
  BY <1>0 DEF Owns, Members
<1>6. CASE lock' = lock /\ lock' # Without(x)
  <2>1. ~(lock' = Tail(lock) /\ Owns(x))
    BY <1>2, <1>5, <1>6
  <2>2. QED
    BY <2>1, <1>0, <1>6 DEF Owns
<1>7. CASE lock' = Without(x)
  BY <1>1, <1>7
<1>8. CASE Owns(x) /\ lock' = Tail(lock)
  BY <1>2, <1>8
<1>9. CASE lock' = Append(lock, x) /\ x \notin Members(lock) /\ lock' # Without(x)
  <2>1. ~(lock' = Tail(lock) /\ Owns(x))
    BY <1>5, <1>9
  <2>2. QED
    BY <2>1, <1>3, <1>9
<1>10. CASE Owns(x) /\ lock' = Append(Tail(lock), x) /\ lock' # Without(x) /\ lock' # Tail(lock)
  BY <1>4, <1>10
<1>11. QED
  BY <1>6, <1>7, <1>8, <1>9, <1>10

LEMMA InitEstablishes == Init => TaskInv
<1> SUFFICES ASSUME Init PROVE TaskInv
  OBVIOUS
<1>1. TypeOK
  BY BoundAssumption DEF Init, TypeOK, PC, MaxFailures
<1>2. RowsAgree
  BY DEF Init, RowsAgree, Terminal, Active
<1>0. HoldersOwn
  BY DEF Init, HoldersOwn, Holding
<1>3. QueueInOrder
  BY DEF Init, QueueInOrder, Once, Members
<1>4. ProcessesControlled /\ ChangesKnown /\ OutcomesSound /\ CountsSound
  BY DEF Init, ProcessesControlled, ChangesKnown, PublishedIsSeen, OutcomesSound, CountsSound
<1>5. QED
  BY <1>0, <1>1, <1>2, <1>3, <1>4 DEF TaskInv

-----------------------------------------------------------------------------
\* A new row and its task, which waits for its turn.
LEMMA QueueStep ==
  ASSUME TaskInv, NEW r \in Run, Queue(r)
  PROVE  TaskInv'
<1> USE DEF TaskInv
<1>1. /\ pc[r] = "new" /\ pc' = [pc EXCEPT ![r] = "queued"]
      /\ status' = [status EXCEPT ![r] = "queued"]
      /\ UNCHANGED <<outcome, cancels, lock, alive, lost, monitor, cache>>
  BY DEF Queue, Goto
<1>2. TypeOK'
  BY <1>1 DEF TypeOK, PC, monitor, cache
<1>3. RowsAgree'
  BY <1>1, RunAssumption DEF RowsAgree, TypeOK, Active, Terminal
<1>4. HoldersOwn' /\ QueueInOrder'
  BY <1>1 DEF HoldersOwn, QueueInOrder, Holding, Owns, TypeOK
<1>5. ProcessesControlled'
  BY <1>1 DEF ProcessesControlled, Controlled, OutOfHand, TypeOK
<1>6. ChangesKnown'
  BY <1>1 DEF ChangesKnown, PublishedIsSeen, OutOfHand, Active, TypeOK, cache
<1>7. OutcomesSound' /\ CountsSound'
  BY <1>1 DEF OutcomesSound, CountsSound, RowsAgree, TypeOK, monitor
<1>8. QED
  BY <1>2, <1>3, <1>4, <1>5, <1>6, <1>7

LEMMA ClaimStep ==
  ASSUME TaskInv, NEW r \in Run, Claim(r)
  PROVE  TaskInv'
<1> USE DEF TaskInv
<1>1. /\ pc[r] = "queued" /\ pc' = [pc EXCEPT ![r] = "lock"]
      /\ status' = [status EXCEPT ![r] = "running"]
      /\ lock' = Append(lock, r)
      /\ UNCHANGED <<outcome, cancels, alive, lost, monitor, cache>>
  BY DEF Claim, Goto
<1>2. r \notin Members(lock)
  BY <1>1 DEF QueueInOrder
<1>3. /\ lock' \in Seq(Run \cup Call) /\ Once(lock')
      /\ \A y \in Members(lock') : y = r \/ y \in Members(lock)
      /\ \A y : y # r /\ Owns(y) => lock' # <<>> /\ Head(lock') = y
  BY <1>1, <1>2, LockMoves DEF QueueInOrder
<1>4. TypeOK'
  BY <1>1, <1>3 DEF TypeOK, PC, monitor, cache
<1>5. RowsAgree'
  BY <1>1, RunAssumption DEF RowsAgree, TypeOK, Active, Terminal
<1>6. HoldersOwn' /\ QueueInOrder'
  BY <1>1, <1>3 DEF HoldersOwn, QueueInOrder, Holding, Owns, TypeOK
<1>7. ProcessesControlled'
  BY <1>1 DEF ProcessesControlled, Controlled, OutOfHand, TypeOK
<1>8. ChangesKnown'
  BY <1>1 DEF ChangesKnown, PublishedIsSeen, OutOfHand, Active, TypeOK, cache
<1>9. OutcomesSound' /\ CountsSound'
  BY <1>1 DEF OutcomesSound, CountsSound, RowsAgree, TypeOK, monitor
<1>10. QED
  BY <1>4, <1>5, <1>6, <1>7, <1>8, <1>9

\* The places in which nobody stands in the lock's queue.
Away == {"new", "queued", "stats", "done"}

(***************************************************************************)
(* One task or call moves and its own entry of the lock's queue comes or   *)
(* goes: who holds the lock keeps it, and the queue stays in order.        *)
(***************************************************************************)
LEMMA LockFollows ==
  ASSUME TypeOK, HoldersOwn, QueueInOrder, NEW x \in Run \cup Call, NEW to \in PC,
         pc' = [pc EXCEPT ![x] = to],
         \/ lock' = lock
         \/ lock' = Append(lock, x) /\ x \notin Members(lock)
         \/ Owns(x) /\ lock' = Tail(lock)
         \/ lock' = Without(x)
         \/ Owns(x) /\ lock' = Append(Tail(lock), x),
         to \in Holding => Owns(x) /\ lock' = lock,
         to \in Away => (Owns(x) /\ lock' = Tail(lock)) \/ lock' = Without(x)
  PROVE  /\ pc' \in [Run \cup Call -> PC] /\ lock' \in Seq(Run \cup Call)
         /\ HoldersOwn' /\ QueueInOrder'
<1>1. /\ lock' \in Seq(Run \cup Call) /\ Once(lock')
      /\ \A y \in Members(lock') : y = x \/ y \in Members(lock)
      /\ to \in Away => x \notin Members(lock')
      /\ \A y : y # x /\ Owns(y) => lock' # <<>> /\ Head(lock') = y
  BY LockMoves DEF QueueInOrder
<1>2. /\ pc' \in [Run \cup Call -> PC] /\ pc'[x] = to
      /\ \A y \in Run \cup Call : y # x => pc'[y] = pc[y]
  BY DEF TypeOK
<1>3. HoldersOwn'
  BY <1>1, <1>2 DEF HoldersOwn, Owns
<1>4. \A y \in Members(lock) : y \in Run \cup Call
  BY DEF Members, TypeOK
<1>5. QueueInOrder'
  BY <1>1, <1>2, <1>4 DEF QueueInOrder, Away
<1>6. QED
  BY <1>1, <1>2, <1>3, <1>5

\* Where the task of an active run can be.
Ongoing == {"queued", "lock", "prepare", "borg", "aborting", "stopping", "after",
            "cleanup", "lock2", "borg2", "orphan"}

\* A task moves on while its row stays active.
LEMMA TaskMoves ==
  ASSUME TypeOK, RowsAgree, HoldersOwn, QueueInOrder,
         NEW r \in Run, NEW to \in Ongoing \ {"queued"},
         pc[r] \in Ongoing, pc' = [pc EXCEPT ![r] = to], UNCHANGED status,
         \A s \in Run : s # r => cancels'[s] = cancels[s],
         \/ lock' = lock
         \/ lock' = Append(lock, r) /\ r \notin Members(lock)
         \/ Owns(r) /\ lock' = Tail(lock)
         \/ lock' = Without(r)
         \/ Owns(r) /\ lock' = Append(Tail(lock), r),
         to \in Holding => Owns(r) /\ lock' = lock
  PROVE  /\ pc' \in [Run \cup Call -> PC] /\ lock' \in Seq(Run \cup Call)
         /\ RowsAgree' /\ HoldersOwn' /\ QueueInOrder'
<1>1. to \in PC /\ to \notin Away
  BY DEF PC, Ongoing, Away
<1>2. /\ pc' \in [Run \cup Call -> PC] /\ lock' \in Seq(Run \cup Call)
      /\ HoldersOwn' /\ QueueInOrder'
  BY <1>1, LockFollows
<1>3. /\ pc'[r] = to
      /\ \A x \in Run \cup Call : x # r => pc'[x] = pc[x]
  BY DEF TypeOK
<1>4. RowsAgree'
  BY <1>3, RunAssumption DEF RowsAgree, Ongoing, Active
<1>5. QED
  BY <1>2, <1>4

\* No task moves: nothing is said of rows, places and the lock anew.
LEMMA PlacesStay ==
  ASSUME TaskInv, UNCHANGED <<status, pc, lock, cancels>>
  PROVE  RowsAgree' /\ HoldersOwn' /\ QueueInOrder'
BY DEF TaskInv, RowsAgree, HoldersOwn, QueueInOrder, Active, Owns

\* The task's own way to the Borg process and past it; no row is written.
LEMMA PreparationStep ==
  ASSUME TaskInv, NEW r \in Run,
         GetLock(r) \/ PrepareFails(r) \/ StartBorg(r) \/ After(r) \/ RefreshAgain(r)
  PROVE  TaskInv'
<1> USE DEF TaskInv
<1>1. /\ UNCHANGED <<status, cancels, lock, lost, monitor, cache>>
      /\ \/ pc[r] = "lock" /\ Owns(r) /\ pc' = [pc EXCEPT ![r] = "prepare"]
            /\ UNCHANGED <<outcome, alive>>
         \/ pc[r] = "prepare" /\ pc' = [pc EXCEPT ![r] = "cleanup"]
            /\ outcome' = [outcome EXCEPT ![r] = "failed"] /\ UNCHANGED alive
         \/ pc[r] = "prepare" /\ pc' = [pc EXCEPT ![r] = "borg"]
            /\ alive' = alive \cup {r} /\ UNCHANGED outcome
         \/ pc[r] = "after" /\ pc' = [pc EXCEPT ![r] = "cleanup"] /\ UNCHANGED <<outcome, alive>>
         \/ pc[r] = "lock2" /\ Owns(r) /\ pc' = [pc EXCEPT ![r] = "borg2"]
            /\ alive' = alive \cup {r} /\ UNCHANGED outcome
  BY DEF GetLock, PrepareFails, StartBorg, After, RefreshAgain, Goto, Result, rows, monitor, cache
<1>2. pc[r] = "prepare" => Owns(r)
  BY DEF HoldersOwn, Holding
<1>3. PICK to \in Ongoing \ {"queued"} :
        /\ pc' = [pc EXCEPT ![r] = to] /\ to \in {"prepare", "cleanup", "borg", "borg2"}
        /\ to \in Holding => Owns(r)
        /\ to # "cleanup" => outcome' = outcome
        /\ to \in {"prepare", "cleanup"} => alive' = alive
        /\ to \notin {"prepare", "cleanup"} => alive' = alive \cup {r}
        /\ pc[r] \in {"lock", "prepare", "after", "lock2"} /\ (to = "borg" => pc[r] = "prepare")
        /\ outcome' \in [Run -> {"none"} \cup Terminal]
  BY <1>1, <1>2 DEF Ongoing, Holding, TypeOK, Terminal
<1>4. /\ pc' \in [Run \cup Call -> PC] /\ lock' \in Seq(Run \cup Call)
      /\ RowsAgree' /\ HoldersOwn' /\ QueueInOrder'
  BY <1>1, <1>3, TaskMoves DEF Ongoing
<1>5. TypeOK'
  BY <1>1, <1>3, <1>4 DEF TypeOK, monitor, cache
<1>6. ProcessesControlled'
  BY <1>1, <1>3 DEF ProcessesControlled, Controlled, OutOfHand, TypeOK
<1>7. ChangesKnown'
  BY <1>1 DEF ChangesKnown, PublishedIsSeen, OutOfHand, Active, cache
<1>8. OutcomesSound'
  BY <1>1, <1>3 DEF OutcomesSound, RowsAgree, Terminal, TypeOK, Active
<1>9. CountsSound'
  BY <1>1, <1>3 DEF CountsSound, TypeOK, monitor
<1>10. QED
  BY <1>4, <1>5, <1>6, <1>7, <1>8, <1>9

\* The monitor of the storage.
LEMMA ProbeStep ==
  ASSUME TaskInv, NEW r \in Run, ProbeGood(r) \/ ProbeFails(r) \/ ProbeFull(r)
  PROVE  TaskInv'
<1> USE DEF TaskInv
<1>1. /\ UNCHANGED <<status, outcome, cancels, lock, alive, lost, cache>>
      /\ pc[r] = "borg" /\ failures[r] \in 0..1
  BY DEF ProbeGood, ProbeFails, ProbeFull, Watched, rows, CountsSound, TypeOK, MaxFailures
<1>2. PICK to \in {"borg", "aborting"} : pc' = [pc EXCEPT ![r] = to]
  BY <1>1 DEF ProbeGood, ProbeFails, ProbeFull, Goto, TypeOK
<1>3. /\ failures' \in [Run -> 0..MaxFailures] /\ lastFailed' \in [Run -> BOOLEAN]
      /\ \A s \in Run : failures'[s] > 0 => lastFailed'[s]
      /\ \A s \in Run : s # r => failures'[s] = failures[s]
      /\ failures'[r] > 1 => to = "aborting"
  <2>1. CASE ProbeGood(r)
    BY <2>1, <1>1 DEF ProbeGood, CountsSound, TypeOK, MaxFailures
  <2>2. CASE ProbeFails(r)
    BY <2>2, <1>1, <1>2 DEF ProbeFails, CountsSound, TypeOK, MaxFailures, Goto
  <2>3. CASE ProbeFull(r)
    BY <2>3, <1>1 DEF ProbeFull, CountsSound, TypeOK, monitor
  <2>4. QED
    BY <2>1, <2>2, <2>3
<1>4. /\ pc' \in [Run \cup Call -> PC] /\ lock' \in Seq(Run \cup Call)
      /\ RowsAgree' /\ HoldersOwn' /\ QueueInOrder'
  <2>1. Owns(r)
    BY <1>1 DEF HoldersOwn, Holding
  <2>2. QED
    BY <2>1, <1>1, <1>2, TaskMoves DEF Ongoing
<1>5. TypeOK'
  BY <1>1, <1>3, <1>4 DEF TypeOK, cache
<1>6. ProcessesControlled'
  BY <1>1, <1>2 DEF ProcessesControlled, Controlled, OutOfHand, TypeOK
<1>7. ChangesKnown'
  BY <1>1 DEF ChangesKnown, PublishedIsSeen, OutOfHand, Active, cache
<1>8. OutcomesSound'
  BY <1>1, <1>2 DEF OutcomesSound, TypeOK
<1>9. CountsSound'
  BY <1>1, <1>2, <1>3 DEF CountsSound, TypeOK
<1>10. QED
  BY <1>4, <1>5, <1>6, <1>7, <1>8, <1>9

\* The process commits a change of the repository.
LEMMA ChangeStep ==
  ASSUME TaskInv, NEW r \in Run, BorgChanges(r)
  PROVE  TaskInv'
<1> USE DEF TaskInv
<1>1. /\ r \in alive /\ r \in Changing /\ missing' \subseteq missing \cup {r}
      /\ UNCHANGED <<status, outcome, cancels, pc, lock, alive, lost, monitor, cached>>
  BY DEF BorgChanges, rows
<1>2. RowsAgree' /\ HoldersOwn' /\ QueueInOrder'
  BY <1>1, PlacesStay
<1>3. TypeOK'
  BY <1>1 DEF TypeOK, monitor
<1>4. ChangesKnown'
  <2>1. r \notin OutOfHand => Active(r)
    BY <1>1 DEF ProcessesControlled, Controlled, RowsAgree, TypeOK
  <2>2. QED
    BY <2>1, <1>1 DEF ChangesKnown, PublishedIsSeen, OutOfHand, Active
<1>5. ProcessesControlled' /\ OutcomesSound' /\ CountsSound'
  BY <1>1 DEF ProcessesControlled, OutcomesSound, CountsSound, OutOfHand, monitor
<1>6. QED
  BY <1>2, <1>3, <1>4, <1>5

\* The end of a process, awaited, stopped or out of sight.
LEMMA ProcessEndsStep ==
  ASSUME TaskInv, NEW r \in Run, BorgEnds(r) \/ AbortEnds(r) \/ StopEnds(r)
  PROVE  TaskInv'
<1> USE DEF TaskInv
<1>1. /\ UNCHANGED <<status, cancels, lock, monitor, cache>>
      /\ alive' \subseteq alive /\ lost \subseteq lost' /\ lost' \subseteq lost \cup {r}
      /\ r \notin alive' \/ r \in lost'
  BY DEF BorgEnds, AbortEnds, StopEnds, Stopped
<1>2. ProcessesControlled' /\ CountsSound' /\ ChangesKnown' /\ OutcomesSound'
      /\ TypeOK' /\ RowsAgree' /\ HoldersOwn' /\ QueueInOrder'
  <2>1. CASE UNCHANGED <<pc, outcome>>
    <3>1. TypeOK'
      BY <2>1, <1>1 DEF TypeOK, monitor, cache
    <3>2. RowsAgree' /\ HoldersOwn' /\ QueueInOrder'
      BY <2>1, <1>1, PlacesStay
    <3>3. ProcessesControlled' /\ CountsSound' /\ OutcomesSound'
      BY <2>1, <1>1 DEF ProcessesControlled, CountsSound, OutcomesSound, OutOfHand, monitor
    <3>4. ChangesKnown'
      BY <1>1 DEF ChangesKnown, PublishedIsSeen, OutOfHand, Active, cache
    <3>5. QED
      BY <3>1, <3>2, <3>3, <3>4
  <2>2. ASSUME NEW to \in {"after", "cleanup"}, NEW result \in Terminal,
               pc[r] \in {"borg", "aborting", "stopping"}, to = "after" <=> pc[r] # "stopping",
               pc[r] = "stopping" => result = "cancelled",
               pc' = [pc EXCEPT ![r] = to], outcome' = [outcome EXCEPT ![r] = result]
        PROVE  TaskInv'
    <3>1. Owns(r)
      BY <2>2 DEF HoldersOwn, Holding
    <3>2. /\ pc' \in [Run \cup Call -> PC] /\ lock' \in Seq(Run \cup Call)
          /\ RowsAgree' /\ HoldersOwn' /\ QueueInOrder'
      BY <3>1, <2>2, <1>1, TaskMoves DEF Ongoing
    <3>3. TypeOK'
      BY <2>2, <3>2, <1>1 DEF TypeOK, monitor, cache
    <3>4. ProcessesControlled'
      BY <2>2, <1>1 DEF ProcessesControlled, Controlled, OutOfHand, TypeOK
    <3>5. ChangesKnown'
      BY <1>1 DEF ChangesKnown, PublishedIsSeen, OutOfHand, Active, cache
    <3>6. OutcomesSound'
      BY <2>2, <1>1 DEF OutcomesSound, RowsAgree, Terminal, Active, TypeOK
    <3>7. CountsSound'
      BY <2>2, <1>1 DEF CountsSound, TypeOK, monitor
    <3>8. QED
      BY <3>2, <3>3, <3>4, <3>5, <3>6, <3>7
  <2>3. CASE BorgEnds(r) /\ pc[r] = "borg" /\ ~UNCHANGED <<pc, outcome>>
    <3>1. \E s \in Terminal : outcome' = [outcome EXCEPT ![r] = s]
      BY <2>3 DEF BorgEnds, Result, Terminal
    <3>2. pc' = [pc EXCEPT ![r] = "after"]
      BY <2>3 DEF BorgEnds, Goto
    <3>3. QED
      BY <3>1, <3>2, <2>2, <2>3
  <2>4. CASE AbortEnds(r)
    BY <2>4, <2>2 DEF AbortEnds, Goto, Result, Terminal
  <2>5. CASE StopEnds(r)
    BY <2>5, <2>2 DEF StopEnds, Goto, Result, Terminal
  <2>6. BorgEnds(r) => UNCHANGED <<pc, outcome>> \/ pc[r] = "borg"
    BY DEF BorgEnds
  <2>7. QED
    BY <2>1, <2>3, <2>4, <2>5, <2>6
<1>3. QED
  BY <1>2

(***************************************************************************)
(* The client of a run ends without its process, and the commands of a     *)
(* refresh end: the lock is left, or asked for again.                      *)
(***************************************************************************)
LEMMA RefreshStep ==
  ASSUME TaskInv, NEW r \in Run, ClientEnds(r) \/ RefreshEnds(r) \/ RefreshLists(r)
  PROVE  TaskInv'
<1> USE DEF TaskInv
<1>1. /\ UNCHANGED <<status, cancels, monitor>>
      /\ pc[r] \in {"borg", "borg2"}
      /\ lost \subseteq lost' /\ lost' \subseteq lost \cup {r}
      /\ alive' \subseteq alive /\ (r \in lost' \/ r \notin alive')
  BY DEF ClientEnds, RefreshEnds, RefreshLists, rows
<1>2. Owns(r)
  BY <1>1 DEF HoldersOwn, Holding
<1>3. PICK to \in {"cleanup", "after", "lock2"} :
        /\ pc' = [pc EXCEPT ![r] = to]
        /\ to = "lock2" => r \notin lost' \/ r \in lost
  BY <1>1 DEF ClientEnds, RefreshEnds, RefreshLists, Goto, rows
<1>4. /\ lock' = lock \/ lock' = Tail(lock) \/ lock' = Append(Tail(lock), r)
      /\ to = "after" => lock' = lock
  <2>1. CASE ClientEnds(r)
    BY <2>1, <1>1, <1>3 DEF ClientEnds, Goto, TypeOK
  <2>2. CASE RefreshEnds(r)
    BY <2>2, <1>1, <1>3 DEF RefreshEnds, Goto, TypeOK
  <2>3. CASE RefreshLists(r)
    BY <2>3, <1>1, <1>3 DEF RefreshLists, Goto, TypeOK
  <2>4. QED
    BY <2>1, <2>2, <2>3
<1>5. /\ pc' \in [Run \cup Call -> PC] /\ lock' \in Seq(Run \cup Call)
      /\ RowsAgree' /\ HoldersOwn' /\ QueueInOrder'
  BY <1>1, <1>2, <1>3, <1>4, TaskMoves DEF Ongoing, Holding
<1>6. /\ outcome' \in [Run -> {"none"} \cup Terminal]
      /\ cached' \in BOOLEAN /\ missing' \subseteq missing
      /\ \A s \in Run : s # r => outcome'[s] = outcome[s]
      /\ to # "lock2" => outcome'[r] \in Terminal
  <2>1. CASE ClientEnds(r)
    BY <2>1 DEF ClientEnds, Result, TypeOK, Terminal, cache
  <2>2. CASE RefreshEnds(r)
    BY <2>2 DEF RefreshEnds, Result, TypeOK, Terminal, cache, Good
  <2>3. CASE RefreshLists(r)
    BY <2>3, <1>1, <1>3 DEF RefreshLists, Goto, TypeOK, cache, rows
  <2>4. QED
    BY <2>1, <2>2, <2>3
<1>7. TypeOK'
  BY <1>1, <1>5, <1>6 DEF TypeOK, monitor
<1>8. ProcessesControlled'
  BY <1>1, <1>3 DEF ProcessesControlled, Controlled, OutOfHand, TypeOK
<1>9. ChangesKnown'
  BY <1>1, <1>6 DEF ChangesKnown, PublishedIsSeen, OutOfHand, Active
<1>10. OutcomesSound'
  BY <1>1, <1>3, <1>6 DEF OutcomesSound, RowsAgree, Terminal, Active, TypeOK
<1>11. CountsSound'
  BY <1>1, <1>3 DEF CountsSound, TypeOK, monitor
<1>12. QED
  BY <1>5, <1>7, <1>8, <1>9, <1>10, <1>11

(***************************************************************************)
(* cancel_run, wherever the task is.  The second cancellation of a run     *)
(* that is being stopped leaves its process out of hand.                   *)
(***************************************************************************)
LEMMA CancelStep ==
  ASSUME TaskInv, NEW r \in Run, Cancel(r)
  PROVE  TaskInv'
<1> USE DEF TaskInv
<1>1. /\ cancels' = [cancels EXCEPT ![r] = @ + 1] /\ cancels[r] < MaxCancels[r]
      /\ UNCHANGED <<status, alive, lost, monitor, cache>> /\ Active(r)
  BY DEF Cancel, CancelQuietly, CancelBorg, CancelStop, CancelCleanup
<1>2. /\ cancels' \in [Run -> Nat] /\ \A s \in Run : cancels'[s] <= MaxCancels[s]
      /\ \A s \in Run : s # r => cancels'[s] = cancels[s]
      /\ cancels'[r] = cancels[r] + 1 /\ cancels[r] \in Nat
  <2>1. /\ cancels' \in [Run -> Nat] /\ \A s \in Run : s # r => cancels'[s] = cancels[s]
        /\ cancels'[r] = cancels[r] + 1 /\ cancels[r] \in Nat
    BY <1>1 DEF TypeOK
  <2>2. MaxCancels[r] \in Nat /\ \A s \in Run : cancels[s] <= MaxCancels[s]
    BY BoundAssumption DEF TypeOK
  <2>3. \A s \in Run : cancels'[s] <= MaxCancels[s]
    BY <2>1, <2>2, <1>1
  <2>4. QED
    BY <2>1, <2>3
<1>3. PICK to \in {"cleanup", "stopping", "orphan"} :
        /\ pc' = [pc EXCEPT ![r] = to]
        /\ to = "cleanup" => /\ outcome' = [outcome EXCEPT ![r] = "cancelled"]
                             /\ pc[r] \in Ongoing \ Controlled \/ pc[r] = "stopping"
        /\ to # "cleanup" => outcome' = outcome
        /\ to = "stopping" => pc[r] \in {"borg", "borg2", "aborting"}
        /\ to = "orphan" => pc[r] = "cleanup"
        /\ lock' = lock \/ (to = "cleanup" /\ lock' = Without(r))
  <2>1. CASE CancelQuietly(r)
    BY <2>1 DEF CancelQuietly, Goto, Result, Ongoing, Controlled
  <2>2. CASE CancelBorg(r)
    BY <2>2 DEF CancelBorg, Goto
  <2>3. CASE CancelStop(r)
    BY <2>3 DEF CancelStop, Goto, Result
  <2>4. CASE CancelCleanup(r)
    BY <2>4 DEF CancelCleanup, Goto
  <2>5. QED
    BY <2>1, <2>2, <2>3, <2>4 DEF Cancel
<1>4. /\ pc' \in [Run \cup Call -> PC] /\ lock' \in Seq(Run \cup Call)
      /\ RowsAgree' /\ HoldersOwn' /\ QueueInOrder'
  <2>1. to \in Holding => Owns(r) /\ lock' = lock
    BY <1>3 DEF HoldersOwn, Holding
  <2>2. to \in Ongoing \ {"queued"} /\ pc[r] \in Ongoing
    BY <1>3 DEF Ongoing, Controlled
  <2>3. QED
    BY <2>1, <2>2, <1>1, <1>2, <1>3, TaskMoves
<1>5. TypeOK'
  BY <1>1, <1>2, <1>3, <1>4 DEF TypeOK, Terminal, monitor, cache
<1>6. ProcessesControlled'
  <2>1. \A s \in Run : s # r => (s \in OutOfHand' <=> s \in OutOfHand)
    BY <1>1, <1>2 DEF OutOfHand
  <2>2. r \in OutOfHand => r \in OutOfHand'
    BY <1>1, <1>2 DEF OutOfHand
  <2>3. pc[r] = "stopping" => r \in OutOfHand'
    BY <1>2 DEF ProcessesControlled, OutOfHand
  <2>4. r \in alive \ OutOfHand' => to \in Controlled
    BY <2>2, <2>3, <1>3 DEF ProcessesControlled, Controlled
  <2>5. QED
    BY <2>1, <2>4, <1>1, <1>2, <1>3 DEF ProcessesControlled, TypeOK
<1>7. ChangesKnown'
  BY <1>1, <1>2 DEF ChangesKnown, PublishedIsSeen, OutOfHand, Active, cache
<1>8. OutcomesSound'
  BY <1>1, <1>2, <1>3 DEF OutcomesSound, TypeOK, Terminal
<1>9. CountsSound'
  BY <1>1, <1>3 DEF CountsSound, TypeOK, monitor
<1>10. QED
  BY <1>4, <1>5, <1>6, <1>7, <1>8, <1>9

(***************************************************************************)
(* The end of the task: the run leaves the lock's queue, the list is       *)
(* invalidated and the row becomes terminal in one step.                   *)
(***************************************************************************)
LEMMA PublishStep ==
  ASSUME TaskInv, NEW r \in Run, Publish(r)
  PROVE  TaskInv'
<1> USE DEF TaskInv
<1>1. /\ pc[r] = "cleanup" /\ lock' = Without(r)
      /\ status' = [status EXCEPT ![r] = outcome[r]]
      /\ cached' = (cached /\ ~Invalidates(r))
      /\ missing' = IF Invalidates(r) THEN {} ELSE missing
      /\ UNCHANGED <<cancels, alive, lost>>
  BY DEF Publish
<1>2. PICK to \in {"done", "stats"} :
        /\ pc' = [pc EXCEPT ![r] = to]
        /\ to = "stats" => outcome[r] \in Good
  BY DEF Publish, Goto
<1>3. /\ outcome' = [s \in Run |-> IF s = r THEN "none" ELSE outcome[s]]
      /\ failures' = [s \in Run |-> IF s = r THEN 0 ELSE failures[s]]
      /\ lastFailed' = [s \in Run |-> s # r /\ lastFailed[s]]
  BY DEF Publish, Forget
<1>4. /\ pc' \in [Run \cup Call -> PC] /\ lock' \in Seq(Run \cup Call)
      /\ HoldersOwn' /\ QueueInOrder'
  BY <1>1, <1>2, LockFollows DEF PC, Holding
<1>5. outcome[r] \in Terminal
  BY <1>1 DEF OutcomesSound
<1>6. TypeOK'
  BY <1>1, <1>2, <1>3, <1>4, <1>5 DEF TypeOK, PC, MaxFailures
<1>7. RowsAgree'
  BY <1>1, <1>2, <1>5, RunAssumption DEF RowsAgree, TypeOK, Active, Terminal
<1>8. ProcessesControlled'
  BY <1>1, <1>2 DEF ProcessesControlled, Controlled, OutOfHand, TypeOK
<1>9. ChangesKnown'
  BY <1>1, <1>5 DEF ChangesKnown, PublishedIsSeen, OutOfHand, Active, Invalidates, Changing, TypeOK
<1>10. OutcomesSound'
  BY <1>1, <1>2, <1>3 DEF OutcomesSound, TypeOK, Good
<1>11. CountsSound'
  BY <1>2, <1>3 DEF CountsSound, TypeOK
<1>12. QED
  BY <1>4, <1>6, <1>7, <1>8, <1>9, <1>10, <1>11

\* refresh_repository_statistics after a published run.
LEMMA StatsStep ==
  ASSUME TaskInv, NEW r \in Run, StatsBegin(r) \/ StatsEnd(r)
  PROVE  TaskInv'
<1> USE DEF TaskInv
<1>1. UNCHANGED <<status, outcome, cancels, alive, lost, monitor, cache>>
  BY DEF StatsBegin, StatsEnd, rows
<1>2. PICK to \in {"statslock", "done"} :
        /\ pc' = [pc EXCEPT ![r] = to] /\ pc[r] \in {"stats", "statslock"}
        /\ to = "statslock" => lock' = Append(lock, r) /\ r \notin Members(lock)
        /\ to = "done" => Owns(r) /\ lock' = Tail(lock)
  BY DEF StatsBegin, StatsEnd, Goto, QueueInOrder
<1>3. /\ pc' \in [Run \cup Call -> PC] /\ lock' \in Seq(Run \cup Call)
      /\ HoldersOwn' /\ QueueInOrder'
  BY <1>2, LockFollows DEF PC, Holding, Away
<1>4. TypeOK'
  BY <1>1, <1>3 DEF TypeOK, monitor, cache
<1>5. RowsAgree'
  BY <1>1, <1>2, RunAssumption DEF RowsAgree, TypeOK, Active, Terminal
<1>6. ProcessesControlled'
  BY <1>1, <1>2 DEF ProcessesControlled, Controlled, OutOfHand, TypeOK
<1>7. ChangesKnown'
  BY <1>1 DEF ChangesKnown, PublishedIsSeen, OutOfHand, Active, cache
<1>8. OutcomesSound' /\ CountsSound'
  BY <1>1, <1>2 DEF OutcomesSound, CountsSound, TypeOK, monitor
<1>9. QED
  BY <1>3, <1>4, <1>5, <1>6, <1>7, <1>8

\* Requests that share the lock.
LEMMA CallStepKeeps ==
  ASSUME TaskInv, NEW c \in Call, CallBegin(c) \/ ClearAsk(c) \/ ResetAsk(c) \/ CallStep(c)
  PROVE  TaskInv'
<1> USE DEF TaskInv
<1>1. /\ UNCHANGED <<status, outcome, cancels, alive, lost, monitor>>
      /\ cached' \in BOOLEAN /\ missing' \subseteq missing
  BY DEF CallBegin, ClearAsk, ResetAsk, CallStep, CallEnd, ClearBegin, ClearEnd, Reset, rows,
     cache, TypeOK
<1>2. PICK to \in {"lock", "clearlock", "resetlock", "clearing", "done"} :
        /\ pc' = [pc EXCEPT ![c] = to]
        /\ \/ to \in {"lock", "clearlock", "resetlock"} /\ pc[c] = "new" /\ lock' = Append(lock, c)
           \/ to = "clearing" /\ Owns(c) /\ lock' = lock
           \/ to = "done" /\ ((Owns(c) /\ lock' = Tail(lock)) \/ lock' = Without(c))
  BY DEF CallBegin, ClearAsk, ResetAsk, CallStep, CallEnd, ClearBegin, ClearEnd, Reset, Goto
<1>3. pc[c] = "new" => c \notin Members(lock)
  BY DEF QueueInOrder
<1>4. /\ pc' \in [Run \cup Call -> PC] /\ lock' \in Seq(Run \cup Call)
      /\ HoldersOwn' /\ QueueInOrder'
  BY <1>2, <1>3, LockFollows DEF PC, Holding, Away
<1>5. /\ pc'[c] = to /\ \A x \in Run \cup Call : x # c => pc'[x] = pc[x]
      /\ \A r \in Run : pc'[r] = pc[r]
  BY <1>2, RunAssumption DEF TypeOK
<1>6. TypeOK'
  BY <1>1, <1>4 DEF TypeOK, monitor
<1>7. RowsAgree'
  BY <1>1, <1>5 DEF RowsAgree, Active
<1>8. ProcessesControlled'
  BY <1>1, <1>5 DEF ProcessesControlled, OutOfHand, TypeOK
<1>9. ChangesKnown'
  BY <1>1 DEF ChangesKnown, PublishedIsSeen, OutOfHand, Active
<1>10. OutcomesSound' /\ CountsSound'
  BY <1>1, <1>5 DEF OutcomesSound, CountsSound, monitor
<1>11. QED
  BY <1>4, <1>6, <1>7, <1>8, <1>9, <1>10

\* The manager dies and recover_interrupted_runs closes the rows.
LEMMA RestartStep ==
  ASSUME TaskInv, Restart
  PROVE  TaskInv'
<1> USE DEF TaskInv
<1>1. /\ status' = [r \in Run |-> IF Active(r) THEN "failed" ELSE status[r]]
      /\ lost' = lost \cup {r \in Run : Active(r)}
      /\ pc' = [x \in Run \cup Call |-> IF pc[x] = "new" THEN "new" ELSE "done"]
      /\ lock' = <<>>
      /\ UNCHANGED <<cancels, alive, cached, missing>>
  BY DEF Restart, cache
<1>2. /\ outcome' = [r \in Run |-> "none"]
      /\ failures' = [r \in Run |-> 0]
      /\ lastFailed' = [r \in Run |-> FALSE]
  BY DEF Restart, Forget
<1>3. TypeOK'
  BY <1>1, <1>2 DEF TypeOK, PC, Terminal, MaxFailures
<1>4. RowsAgree'
  <2>1. ASSUME NEW r \in Run
        PROVE  /\ pc'[r] = "new" => status'[r] = "none" /\ cancels'[r] = 0
               /\ pc'[r] = "done" <=> status'[r] \in Terminal
               /\ pc'[r] \in {"new", "done"}
    BY <1>1 DEF RowsAgree, TypeOK, Active, Terminal
  <2>2. \A c \in Call : pc'[c] \in {"new", "done"}
    BY <1>1
  <2>3. QED
    BY <2>1, <2>2 DEF RowsAgree
<1>5. HoldersOwn' /\ QueueInOrder'
  BY <1>1 DEF HoldersOwn, QueueInOrder, Holding, Once, Members
<1>6. \A r \in Run : Active(r) \/ pc[r] \in {"new", "stats", "statslock", "done"}
  BY DEF RowsAgree
<1>7. ProcessesControlled'
  <2>1. \A r \in alive \ OutOfHand : Active(r)
    BY DEF ProcessesControlled, Controlled, RowsAgree, TypeOK
  <2>2. alive' \ OutOfHand' = {}
    BY <2>1, <1>1 DEF OutOfHand, TypeOK
  <2>3. \A r \in Run : pc'[r] # "stopping"
    BY <1>1
  <2>4. QED
    BY <2>2, <2>3 DEF ProcessesControlled
<1>8. ChangesKnown'
  BY <1>1 DEF ChangesKnown, PublishedIsSeen, OutOfHand, Active, TypeOK
<1>9. OutcomesSound'
  BY <1>1 DEF OutcomesSound, RowsAgree, Active, Terminal
<1>10. CountsSound'
  BY <1>2 DEF CountsSound
<1>11. QED
  BY <1>3, <1>4, <1>5, <1>7, <1>8, <1>9, <1>10

LEMMA NextPreserves == TaskInv /\ [Next]_vars => TaskInv'
<1> SUFFICES ASSUME TaskInv, [Next]_vars PROVE TaskInv'
  OBVIOUS
<1>1. ASSUME NEW r \in Run, QueueJobRun(r) \/ QueueRepositoryRun(r) PROVE TaskInv'
  BY <1>1, QueueStep DEF QueueJobRun, QueueRepositoryRun
<1>2. ASSUME NEW r \in Run, RunStep(r) PROVE TaskInv'
  BY <1>2, ClaimStep, PreparationStep, ProcessEndsStep, RefreshStep, PublishStep, StatsStep
     DEF RunStep
<1>3. ASSUME NEW r \in Run, Cancel(r) \/ BorgChanges(r) PROVE TaskInv'
  BY <1>3, CancelStep, ChangeStep
<1>4. ASSUME NEW r \in Run, ProbeGood(r) \/ ProbeFails(r) \/ ProbeFull(r) PROVE TaskInv'
  BY <1>4, ProbeStep
<1>5. ASSUME NEW c \in Call, CallBegin(c) \/ ClearAsk(c) \/ ResetAsk(c) \/ CallStep(c)
      PROVE  TaskInv'
  BY <1>5, CallStepKeeps
<1>6. CASE Restart
  BY <1>6, RestartStep
<1>7. CASE UNCHANGED vars
  <2>1. RowsAgree' /\ HoldersOwn' /\ QueueInOrder'
    BY <1>7, PlacesStay DEF vars, rows
  <2>2. TypeOK'
    BY <1>7 DEF TaskInv, TypeOK, vars, rows, monitor, cache
  <2>3. ProcessesControlled' /\ OutcomesSound' /\ CountsSound'
    BY <1>7 DEF TaskInv, ProcessesControlled, OutcomesSound, CountsSound, OutOfHand,
       vars, rows, monitor
  <2>4. ChangesKnown'
    BY <1>7 DEF TaskInv, ChangesKnown, PublishedIsSeen, OutOfHand, Active, vars, rows, cache
  <2>5. QED
    BY <2>1, <2>2, <2>3, <2>4 DEF TaskInv
<1>8. QED
  BY <1>1, <1>2, <1>3, <1>4, <1>5, <1>6, <1>7 DEF Next

\* TaskInv holds in every reachable state.
THEOREM TaskInvariant == Spec => []TaskInv
<1>1. Init => TaskInv
  BY InitEstablishes
<1>2. TaskInv /\ [Next]_vars => TaskInv'
  BY NextPreserves
<1>3. QED
  BY <1>1, <1>2, PTL DEF Spec

-----------------------------------------------------------------------------
(***************************************************************************)
(* The end of a Borg process is awaited before its repository is released, *)
(* and a task or call that ended neither owns nor awaits the lock: every   *)
(* acquire() of run_job and interactive_borg_call is matched by a release. *)
(***************************************************************************)
THEOREM LockGoesWithProcess == Spec => []LockDiscipline
<1>1. ASSUME TaskInv PROVE LockDiscipline
  <2>1. BorgUnderLock
    BY <1>1 DEF TaskInv, BorgUnderLock, ProcessesControlled, HoldersOwn, Controlled, Holding, TypeOK
  <2>2. LockReturned
    BY <1>1 DEF TaskInv, LockReturned, QueueInOrder, Once, Members
  <2>3. QED
    BY <1>1, <2>1, <2>2 DEF TaskInv, LockDiscipline
<1>2. QED
  BY <1>1, TaskInvariant, PTL

(***************************************************************************)
(* _execute_run_inner invalidates the cached archive list before it        *)
(* commits the terminal status: whoever sees the status sees the change.   *)
(***************************************************************************)
THEOREM ChangesAreSeen == Spec => []PublishedIsSeen
<1>1. TaskInv => PublishedIsSeen
  BY DEF TaskInv, ChangesKnown
<1>2. QED
  BY <1>1, TaskInvariant, PTL

(***************************************************************************)
(* A run that cancel_run struck ends as cancelled, at whatever await its   *)
(* task was, unless the manager lost control of its process.               *)
(***************************************************************************)
THEOREM CancelledReported == Spec => []CancelledIsReported
<1>1. TaskInv => CancelledIsReported
  BY DEF TaskInv, OutcomesSound, CancelledIsReported, RowsAgree
<1>2. QED
  BY <1>1, TaskInvariant, PTL

(***************************************************************************)
(* _monitor_external_repository_storage stops a backup for failed probes   *)
(* only after EXTERNAL_STORAGE_MAX_CONSECUTIVE_FAILURES in a row: the one  *)
(* before the last failed too.                                             *)
(***************************************************************************)
THEOREM ProbesStopForCause == Spec => AbortsForCause
<1> DEFINE Cause ==
      \A r \in Run :
        pc[r] = "borg" /\ pc'[r] = "aborting" /\ failures'[r] # failures[r] => lastFailed[r]
<1>1. ASSUME TaskInv, [Next]_vars PROVE [Cause]_vars
  <2> SUFFICES ASSUME NEW r \in Run, pc[r] = "borg", pc'[r] = "aborting", failures'[r] # failures[r]
               PROVE  lastFailed[r]
    OBVIOUS
  <2> USE <1>1 DEF TaskInv
  <2>1. CASE \E s \in Run : ProbeFails(s)
    <3>1. PICK s \in Run : ProbeFails(s)
      BY <2>1
    <3>2. s = r /\ failures'[r] = failures[r] + 1 /\ failures'[r] >= MaxFailures
      BY <3>1 DEF ProbeFails, TypeOK
    <3>3. failures[r] > 0
      BY <3>1, SMTT(30) DEF ProbeFails, Goto, TypeOK, MaxFailures
    <3>4. QED
      BY <3>3 DEF CountsSound
  <2>2. CASE \E s \in Run : Publish(s)
    BY <2>2 DEF Publish, Forget, Goto, TypeOK
  <2>3. CASE Restart
    BY <2>3 DEF Restart, TypeOK
  <2>4. CASE \E s \in Run : ProbeGood(s)
    BY <2>4 DEF ProbeGood
  <2>5. \/ \E s \in Run : ProbeFails(s) \/ Publish(s) \/ ProbeGood(s)
        \/ Restart
        \/ UNCHANGED failures
    <3>1. ASSUME NEW s \in Run, RunStep(s) PROVE UNCHANGED failures \/ Publish(s)
      BY <3>1 DEF RunStep, Claim, GetLock, PrepareFails, StartBorg, BorgEnds, ClientEnds,
         AbortEnds, StopEnds, After, StatsBegin, StatsEnd, RefreshEnds, RefreshLists,
         RefreshAgain, monitor
    <3>2. ASSUME NEW s \in Run,
                 \/ QueueJobRun(s) \/ QueueRepositoryRun(s) \/ Cancel(s)
                 \/ BorgChanges(s) \/ ProbeFull(s)
          PROVE  UNCHANGED failures
      BY <3>2 DEF QueueJobRun, QueueRepositoryRun, Queue, Cancel, BorgChanges, ProbeFull, monitor
    <3>3. ASSUME NEW c \in Call, CallBegin(c) \/ ClearAsk(c) \/ ResetAsk(c) \/ CallStep(c)
          PROVE  UNCHANGED failures
      BY <3>3 DEF CallBegin, ClearAsk, ResetAsk, CallStep, CallEnd, ClearBegin, ClearEnd,
         Reset, monitor
    <3>4. QED
      BY <3>1, <3>2, <3>3, <1>1 DEF Next, vars, monitor
  <2>6. QED
    BY <2>1, <2>2, <2>3, <2>4, <2>5
<1>2. QED
  BY <1>1, TaskInvariant, PTL DEF Spec, AbortsForCause
=============================================================================
