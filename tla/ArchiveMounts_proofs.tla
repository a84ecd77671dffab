-------------------------- MODULE ArchiveMounts_proofs --------------------------
(***************************************************************************)
(* Proofs about archive mounts, for any repositories, archives, requests   *)
(* and conditions: every active mount has its row, and no Borg command     *)
(* executes beside a mount.                                                *)
(***************************************************************************)
EXTENDS ArchiveMounts, SequenceTheorems, FiniteSetTheorems, WellFoundedInduction, TLAPS

LockUser == Post \cup Call \cup Run
Requester == Post \cup Delete

\* Requests that came, from which the ids of rows are given out.
Begun == {p \in Post : pc[p] # "new"}

IdsCounted == \A r \in Repo : HasRow(r) => row[r].id <= Cardinality(Begun)

PostPlaces == {"new", "capacity", "lock", "activating", "cleaning", "cancelled", "done"}
DeletePlaces == {"new", "unmounting", "unmounted", "done"}
CallPlaces == {"new", "capacity", "lock", "done"}
RunPlaces == {"new", "queued", "lock", "done"}

Fits(x, w) ==
  /\ x \in Post => w \in PostPlaces
  /\ x \in Delete => w \in DeletePlaces
  /\ x \in Call => w \in CallPlaces
  /\ x \in Run => w \in RunPlaces
PlacesFit == \A x \in Proc : Fits(x, pc[x])

\* A request in progress knows the row it works on.
EntriesFit ==
  /\ \A x \in Requester : InFlight(x) => entry[x] \in Entry
  /\ \A p \in Post : InFlight(p) => entry[p].repo = RepoOf[p]

\* Whoever waits for a repository or executes on it is in its queue, and no
\* request is there before it begins.
Members(s) == {s[i] : i \in 1..Len(s)}
Queued == \A x \in LockUser : pc[x] = "lock" => x \in Members(lockQueue[RepoOf[x]])

Fresh == \A p \in Post, r \in Repo : pc[p] = "new" => p \notin Members(lockQueue[r])

Sound == TypeOK /\ IdsCounted /\ PlacesFit /\ EntriesFit /\ Queued /\ Fresh

(***************************************************************************)
(* One by one: there is one request in progress at most, its row is there  *)
(* as it was written, and the rows cover the active mounts.                *)
(***************************************************************************)
Alone == \A x, y \in Requester : InFlight(x) /\ InFlight(y) => x = y

RowsMatch ==
  \A x \in Requester : InFlight(x) =>
    /\ HasRow(entry[x].repo)
    /\ row[entry[x].repo].id = entry[x].id
    /\ row[entry[x].repo].archive = entry[x].archive

FuseMatches == \A m \in fuse : HasRow(m[1]) /\ row[m[1]].archive = m[2]

Orderly == Alone /\ RowsMatch /\ FuseMatches

(***************************************************************************)
(* Undisturbed: the row says "mounting" as long as its request is at work, *)
(* so nobody queues up behind it, and nobody who is in the queue of a      *)
(* repository has a mount there.                                           *)
(***************************************************************************)
NoCapacity == \A x \in Proc : pc[x] # "capacity"
Mounting == \A p \in Post : InFlight(p) => row[RepoOf[p]].status = "mounting"

LastOnly(s, p) == \A i \in 1..Len(s) : s[i] = p => i = Len(s)
MountsLast ==
  \A p \in Post :
    /\ pc[p] = "lock" => LastOnly(lockQueue[RepoOf[p]], p)
    /\ pc[p] \in {"activating", "cleaning"} => lockQueue[RepoOf[p]] = <<>>

NoneBeside == \A m \in fuse, q \in Run \cup Call : pc[q] = "lock" => RepoOf[q] # m[1]

Quiet == NoCapacity /\ Mounting /\ MountsLast /\ NoneBeside

MountInv == Sound /\ (OneByOne => Orderly) /\ (Undisturbed => Quiet)

-----------------------------------------------------------------------------
(* Numbers and queues.                                                     *)

\* Every set of numbers has a smallest one.
LEMMA NatMin ==
  ASSUME NEW S \in SUBSET Nat, S # {}
  PROVE  \E m \in S : \A n \in S : m <= n
<1> DEFINE R == OpToRel(<, Nat)
<1>1. IsWellFoundedOn(R, Nat)
  BY NatLessThanWellFounded, Zenon
<1> HIDE DEF R
<1>2. PICK m \in S : \A n \in S : ~(<<n, m>> \in R)
  BY <1>1, WFMin
<1>3. \A n \in S : ~(n < m)
  BY <1>2 DEF R, OpToRel
<1>4. QED
  BY <1>3

LEMMA CountBegun ==
  /\ IsFiniteSet(Begun) /\ Cardinality(Begun) \in Nat
  /\ Cardinality(Post) \in Nat /\ Cardinality(Begun) <= Cardinality(Post)
<1>1. Begun \in SUBSET Post
  BY DEF Begun
<1>2. QED
  BY <1>1, RequestsAssumption, FS_Subset, FS_CardinalityType

\* The id of a new row is above the others, and no request gives out more than one.
LEMMA NewIdIs ==
  ASSUME TypeOK, IdsCounted, NEW r \in Repo
  PROVE  /\ NewId(r) \in Id /\ NewId(r) <= Cardinality(Begun) + 1
         /\ \A s \in Repo \ {r} : HasRow(s) => row[s].id < NewId(r)
<1>1. PICK k \in Nat : k = Cardinality(Begun) + 1
  BY CountBegun
<1>2. \A s \in Repo : HasRow(s) => row[s].id \in Nat /\ row[s].id < k
  BY <1>1, CountBegun DEF TypeOK, HasRow, Row, Id, IdsCounted
<1> DEFINE Above(n) == \A s \in Repo \ {r} : HasRow(s) => row[s].id < n
<1> DEFINE T == {n \in Nat : n >= 1 /\ Above(n)}
<1>3. k \in T
  BY <1>1, <1>2, CountBegun
<1>4. PICK m \in T : \A n \in T : m <= n
  <2>1. T \in SUBSET Nat /\ T # {}
    BY <1>3
  <2> HIDE DEF T
  <2>2. QED
    BY <2>1, NatMin
<1>5. m <= k /\ m \in Id
  BY <1>1, <1>3, <1>4, CountBegun DEF Id
<1>6. m = 1 \/ \E s \in Repo \ {r} : HasRow(s) /\ row[s].id = m - 1
  <2>1. CASE m # 1
    <3>1. m - 1 \in Nat /\ m - 1 >= 1 /\ m - 1 \notin T
      BY <1>4, <2>1
    <3>2. PICK s \in Repo \ {r} : HasRow(s) /\ ~(row[s].id < m - 1)
      BY <3>1
    <3>3. row[s].id \in Nat /\ row[s].id < m
      BY <1>2, <1>4, <3>2
    <3>4. QED
      BY <3>1, <3>2, <3>3
  <2>2. QED
    BY <2>1
<1>7. Above(m)
  BY <1>4
<1>8. /\ NewId(r) \in Id /\ Above(NewId(r))
      /\ NewId(r) = 1 \/ \E s \in Repo \ {r} : HasRow(s) /\ row[s].id = NewId(r) - 1
  BY <1>5, <1>6, <1>7 DEF NewId
<1>9. NewId(r) <= k
  BY <1>1, <1>2, <1>8, CountBegun DEF Id
<1>10. QED
  BY <1>1, <1>8, <1>9

LEMMA AppendAdds ==
  ASSUME NEW S, NEW s \in Seq(S), NEW x \in S
  PROVE  /\ Append(s, x) \in Seq(S)
         /\ Members(Append(s, x)) = Members(s) \cup {x}
         /\ x \notin Members(s) => LastOnly(Append(s, x), x)
<1> DEFINE a == Append(s, x)
<1>1. /\ a \in Seq(S) /\ Len(a) = Len(s) + 1 /\ Len(s) \in Nat
      /\ \A i \in 1..Len(s) : a[i] = s[i]
      /\ a[Len(s) + 1] = x
  BY AppendProperties
<1> HIDE DEF a
<1>2. Members(a) \subseteq Members(s) \cup {x}
  BY <1>1 DEF Members
<1>3. Members(s) \cup {x} \subseteq Members(a)
  BY <1>1 DEF Members
<1>4. x \notin Members(s) => LastOnly(a, x)
  BY <1>1 DEF Members, LastOnly
<1>5. QED
  BY <1>1, <1>2, <1>3, <1>4 DEF a

LEMMA TailDrops ==
  ASSUME NEW S, NEW s \in Seq(S), NEW x \in Members(s)
  PROVE  /\ Tail(s) \in Seq(S) /\ s # <<>>
         /\ Members(Tail(s)) \subseteq Members(s)
         /\ \A y \in Members(s) : y # Head(s) => y \in Members(Tail(s))
         /\ \A y : LastOnly(s, y) => LastOnly(Tail(s), y)
         /\ LastOnly(s, Head(s)) => Tail(s) = <<>> /\ \A y \in Members(s) : y = Head(s)
<1> DEFINE t == Tail(s)
<1>1. s # <<>>
  BY DEF Members
<1>2. /\ t \in Seq(S) /\ Len(t) = Len(s) - 1 /\ Len(s) \in Nat \ {0}
      /\ \A i \in 1..Len(t) : t[i] = s[i + 1]
      /\ Head(s) = s[1]
  BY <1>1, HeadTailProperties
<1>a. 1 \in 1..Len(s)
  BY <1>2
<1>3. LastOnly(s, s[1]) => Len(s) = 1
  BY <1>a DEF LastOnly
<1> HIDE DEF t
<1>4. LastOnly(s, s[1]) => t = <<>>
  BY <1>2, <1>3, EmptySeq
<1>5. Members(t) \subseteq Members(s)
  <2>1. ASSUME NEW y \in Members(t) PROVE y \in Members(s)
    <3>1. PICK i \in 1..Len(t) : y = t[i]
      BY DEF Members
    <3>2. i + 1 \in 1..Len(s) /\ y = s[i + 1]
      BY <1>2, <3>1
    <3>3. QED
      BY <3>2 DEF Members
  <2>2. QED
    BY <2>1
<1>6. \A y \in Members(s) : y # Head(s) => y \in Members(t)
  <2>1. ASSUME NEW y \in Members(s), y # Head(s) PROVE y \in Members(t)
    <3>1. PICK i \in 1..Len(s) : y = s[i]
      BY DEF Members
    <3>2. i - 1 \in 1..Len(t) /\ t[i - 1] = s[(i - 1) + 1] /\ (i - 1) + 1 = i
      BY <1>2, <2>1, <3>1
    <3>3. t[i - 1] = y
      BY <3>1, <3>2
    <3>4. QED
      BY <3>2, <3>3 DEF Members
  <2>2. QED
    BY <2>1
<1>7. ASSUME NEW y, LastOnly(s, y) PROVE LastOnly(t, y)
  <2>1. ASSUME NEW i \in 1..Len(t), t[i] = y PROVE i = Len(t)
    <3>1. i + 1 \in 1..Len(s) /\ s[i + 1] = y
      BY <1>2, <2>1
    <3>2. i + 1 = Len(s)
      BY <1>7, <3>1 DEF LastOnly
    <3>3. QED
      BY <1>2, <3>2
  <2>2. QED
    BY <2>1 DEF LastOnly
<1>8. LastOnly(s, s[1]) => \A y \in Members(s) : y = s[1]
  BY <1>2, <1>3 DEF Members
<1>9. QED
  BY <1>1, <1>2, <1>4, <1>5, <1>6, <1>7, <1>8 DEF t

LEMMA InitEstablishes == Init => MountInv
<1> SUFFICES ASSUME Init PROVE MountInv
  OBVIOUS
<1>1. /\ row = [r \in Repo |-> NoRow] /\ fuse = {} /\ cond \in Conditions /\ appeared = {}
      /\ pc = [x \in Proc |-> IF x \in cond.requests THEN "new" ELSE "done"]
      /\ entry = [x \in Post \cup Delete |-> NoEntry] /\ lockQueue = [r \in Repo |-> <<>>]
  BY DEF Init
<1>2. \A x \in Proc : pc[x] \in {"new", "done"}
  BY <1>1
<1>3. \A x \in Proc : ~InFlight(x)
  BY <1>2 DEF InFlight, Finished
<1>4. TypeOK
  BY <1>1 DEF TypeOK, HasRow, PC
<1>5. IdsCounted /\ FuseMatches /\ NoneBeside
  BY <1>1 DEF IdsCounted, FuseMatches, NoneBeside, HasRow
<1>6. EntriesFit /\ Alone /\ RowsMatch /\ Mounting
  BY <1>3 DEF EntriesFit, Alone, RowsMatch, Mounting, Requester, Proc
<1>7. PlacesFit /\ Queued /\ NoCapacity /\ MountsLast
  BY <1>2 DEF PlacesFit, Fits, PostPlaces, DeletePlaces, CallPlaces, RunPlaces,
    Queued, NoCapacity, MountsLast, Proc, LockUser
<1>9. Fresh
  BY <1>1 DEF Fresh, Members
<1>8. QED
  BY <1>4, <1>5, <1>6, <1>7, <1>9 DEF MountInv, Sound, Orderly, Quiet

-----------------------------------------------------------------------------
(* What the actions do to rows.                                            *)

\* Rows keep their id and their archive or go.
RowsKept ==
  /\ row' \in [Repo -> Row \cup {NoRow}]
  /\ \A r \in Repo : row'[r] # NoRow =>
       row[r] # NoRow /\ row'[r].id = row[r].id /\ row'[r].archive = row[r].archive

LEMMA SameRows == ASSUME TypeOK, row' = row PROVE RowsKept
  BY DEF TypeOK, RowsKept

LEMMA StatusSet ==
  ASSUME TypeOK, NEW R \in SUBSET Repo, NEW s \in RowStatus, \A r \in R : HasRow(r),
         row' = SetStatus(R, s)
  PROVE  /\ RowsKept
         /\ \A r \in Repo : row'[r] = NoRow <=> row[r] = NoRow
         /\ \A r \in Repo \ R : row'[r] = row[r]
         /\ \A r \in R : row'[r].status = s
<1>1. ASSUME NEW r \in R
      PROVE  /\ row'[r] \in Row /\ row'[r].id = row[r].id
             /\ row'[r].archive = row[r].archive /\ row'[r].status = s
  <2>1. PICK v \in Row : v = row[r]
    BY DEF TypeOK, HasRow
  <2>2. row'[r] = [v EXCEPT !.status = s]
    BY <2>1 DEF SetStatus
  <2>3. QED
    BY <2>1, <2>2 DEF Row
<1>2. \A r \in Repo \ R : row'[r] = row[r]
  BY DEF SetStatus
<1>3. row' \in [Repo -> Row \cup {NoRow}]
  <2>1. row' = [r \in Repo |-> row'[r]]
    BY DEF SetStatus
  <2>2. \A r \in Repo : row'[r] \in Row \cup {NoRow}
    BY <1>1, <1>2 DEF TypeOK
  <2>3. QED
    BY <2>1, <2>2
<1>4. \A r \in Repo : row'[r] = NoRow <=> row[r] = NoRow
  BY <1>1, <1>2, NoRowAssumption DEF HasRow
<1>5. QED
  BY <1>1, <1>2, <1>3, <1>4 DEF RowsKept

LEMMA RowsDropped ==
  ASSUME TypeOK, NEW R \in SUBSET Repo, row' = DropRows(R)
  PROVE  /\ RowsKept
         /\ \A r \in R : row'[r] = NoRow
         /\ \A r \in Repo \ R : row'[r] = row[r]
  BY DEF TypeOK, DropRows, RowsKept

\* A row that blocks its repository is not marked.
LEMMA StaleMarked ==
  ASSUME TypeOK, NEW R \in SUBSET Repo, row' = MarkStale(R)
  PROVE  /\ RowsKept
         /\ \A r \in Repo : row'[r] = NoRow <=> row[r] = NoRow
         /\ \A r \in Repo : Blocks(r) => row'[r] = row[r]
<1>1. PICK T \in SUBSET Repo : T = {r \in R : HasRow(r) /\ ~Blocks(r)}
  OBVIOUS
<1>2. row' = SetStatus(T, "stale") /\ \A r \in T : HasRow(r) /\ ~Blocks(r)
  BY <1>1 DEF MarkStale
<1>3. "stale" \in RowStatus
  BY DEF RowStatus
<1>4. /\ RowsKept /\ \A r \in Repo : row'[r] = NoRow <=> row[r] = NoRow
      /\ \A r \in Repo \ T : row'[r] = row[r]
  BY <1>2, <1>3, StatusSet
<1>5. QED
  BY <1>2, <1>4

-----------------------------------------------------------------------------
(* What every behaviour keeps: Sound.                                      *)

LEMMA SoundKept ==
  ASSUME Sound, cond' = cond, RowsKept, fuse' \subseteq Repo \X Archive, appeared' \subseteq Post,
         pc' \in [Proc -> PC], lockQueue' \in [Repo -> Seq(Post \cup Call \cup Run)],
         entry' \in [Post \cup Delete -> Entry \cup {NoEntry}],
         PlacesFit', EntriesFit', Queued', Fresh',
         \A x \in Proc : pc'[x] = "new" => pc[x] = "new"
  PROVE  Sound'
<1>1. TypeOK'
  <2>1. \A r, s \in Repo :
          row'[r] # NoRow /\ row'[s] # NoRow /\ row'[r].id = row'[s].id => r = s
    BY DEF Sound, TypeOK, RowsKept, HasRow
  <2>2. QED
    BY <2>1 DEF Sound, TypeOK, RowsKept, HasRow
<1>2. IdsCounted'
  <2>1. Begun \subseteq Begun' /\ Begun' \in SUBSET Post
    BY DEF Begun, Proc
  <2>2. IsFiniteSet(Begun') /\ Cardinality(Begun') \in Nat
    BY <2>1, RequestsAssumption, FS_Subset, FS_CardinalityType
  <2>3. Cardinality(Begun) <= Cardinality(Begun') /\ Cardinality(Begun) \in Nat
    BY <2>1, <2>2, CountBegun, FS_Subset
  <2>4. PICK n \in Nat : n = Cardinality(Begun)
    BY <2>3
  <2>5. PICK k \in Nat : k = Cardinality(Begun')
    BY <2>2
  <2>6. \A r \in Repo : row[r] # NoRow => row[r].id \in Nat /\ row[r].id <= n
    BY <2>4, CountBegun DEF Sound, TypeOK, Row, Id, IdsCounted, HasRow
  <2>7. \A r \in Repo : row'[r] # NoRow => row'[r].id <= k
    <3>1. n <= k
      BY <2>3, <2>4, <2>5
    <3>2. ASSUME NEW r \in Repo, row'[r] # NoRow PROVE row'[r].id <= k
      <4>1. row'[r].id = row[r].id /\ row[r].id \in Nat /\ row[r].id <= n
        BY <2>6, <3>2 DEF RowsKept
      <4>2. QED
        BY <3>1, <4>1
    <3>3. QED
      BY <3>2
  <2>8. QED
    BY <2>5, <2>7 DEF IdsCounted, HasRow
<1>3. QED
  BY <1>1, <1>2 DEF Sound

\* A request leaves its place for one where it waits for no lock.
LEMMA MovesOn ==
  ASSUME Sound, NEW x \in Proc, NEW w \in PC \ {"new", "lock"}, MoveTo(x, w), Fits(x, w),
         InFlight(x) \/ x \in Call \cup Run \/ w = "done",
         cond' = cond, entry' = entry, RowsKept, fuse' \subseteq Repo \X Archive,
         appeared' \subseteq Post,
         lockQueue' = lockQueue \/ (x \in LockUser /\ Executing(x) /\ Dequeue(x))
  PROVE  Sound'
<1>1. /\ pc' \in [Proc -> PC] /\ pc'[x] = w
      /\ \A y \in Proc : y # x => pc'[y] = pc[y]
  BY DEF MoveTo, Sound, TypeOK
<1>2. PlacesFit'
  BY <1>1 DEF Sound, PlacesFit, Fits
<1>3. EntriesFit'
  <2>1. ASSUME NEW y \in Requester, InFlight(y)' PROVE InFlight(y)
    <3>1. y \in Proc
      BY DEF Requester, Proc
    <3>2. CASE y = x
      <4>1. x \notin Call \cup Run
        BY <3>2, RequestsAssumption DEF Requester
      <4>2. w # "done"
        BY <1>1, <2>1, <3>2 DEF InFlight, Finished
      <4>3. QED
        BY <3>2, <4>1, <4>2
    <3>3. QED
      BY <1>1, <2>1, <3>1, <3>2 DEF InFlight, Finished
  <2>2. Post \subseteq Requester
    BY DEF Requester
  <2>3. QED
    BY <2>1, <2>2 DEF Sound, EntriesFit
<1>4. /\ lockQueue' \in [Repo -> Seq(Post \cup Call \cup Run)]
      /\ \A r \in Repo : Members(lockQueue'[r]) \subseteq Members(lockQueue[r])
      /\ \A r \in Repo : \A y : y \in Members(lockQueue[r]) /\ y # x => y \in Members(lockQueue'[r])
  <2>1. CASE lockQueue' = lockQueue
    BY <2>1 DEF Sound, TypeOK
  <2>2. CASE x \in LockUser /\ Executing(x) /\ Dequeue(x)
    <3>1. PICK r \in Repo : r = RepoOf[x]
      BY <2>2, RequestsAssumption DEF LockUser
    <3>2. PICK s \in Seq(Post \cup Call \cup Run) : s = lockQueue[r]
      BY DEF Sound, TypeOK
    <3>3. x \in Members(s) /\ Head(s) = x
      BY <2>2, <3>1, <3>2 DEF Sound, Queued, Executing
    <3>4. lockQueue' = [lockQueue EXCEPT ![r] = Tail(s)]
      BY <2>2, <3>1, <3>2 DEF Dequeue
    <3>5. /\ Tail(s) \in Seq(Post \cup Call \cup Run) /\ Members(Tail(s)) \subseteq Members(s)
          /\ \A y \in Members(s) : y # x => y \in Members(Tail(s))
      BY <3>3, TailDrops
    <3>6. lockQueue \in [Repo -> Seq(Post \cup Call \cup Run)]
      BY DEF Sound, TypeOK
    <3>7. lockQueue'[r] = Tail(s) /\ \A q \in Repo : q # r => lockQueue'[q] = lockQueue[q]
      BY <3>4, <3>6
    <3>8. lockQueue' \in [Repo -> Seq(Post \cup Call \cup Run)]
      BY <3>4, <3>5, <3>6
    <3>9. QED
      BY <3>2, <3>5, <3>7, <3>8
  <2>3. QED
    BY <2>1, <2>2
<1>5. Queued'
  <2>1. ASSUME NEW y \in LockUser, pc'[y] = "lock" PROVE y \in Members(lockQueue'[RepoOf[y]])
    <3>1. y \in Proc /\ y # x /\ RepoOf[y] \in Repo
      BY <1>1, <2>1, RequestsAssumption DEF LockUser, Proc
    <3>2. y \in Members(lockQueue[RepoOf[y]])
      BY <1>1, <2>1, <3>1 DEF Sound, Queued
    <3>3. QED
      BY <1>4, <3>1, <3>2
  <2>2. QED
    BY <2>1 DEF Queued
<1>6. \A y \in Proc : pc'[y] = "new" => pc[y] = "new"
  BY <1>1
<1>7. Fresh'
  BY <1>4, <1>6 DEF Sound, Fresh, Proc
<1>8. entry' \in [Post \cup Delete -> Entry \cup {NoEntry}]
  BY DEF Sound, TypeOK
<1>9. QED
  BY <1>1, <1>2, <1>3, <1>4, <1>5, <1>6, <1>7, <1>8, SoundKept

\* A request joins the queue of its repository.
LEMMA Joins ==
  ASSUME Sound, NEW x \in LockUser, MoveTo(x, "lock"), Enqueue(x)
  PROVE  /\ pc' \in [Proc -> PC] /\ pc'[x] = "lock"
         /\ \A y \in Proc : y # x => pc'[y] = pc[y]
         /\ PlacesFit' /\ Queued' /\ Fresh'
         /\ lockQueue' \in [Repo -> Seq(Post \cup Call \cup Run)]
         /\ \A r \in Repo : r # RepoOf[x] => lockQueue'[r] = lockQueue[r]
         /\ pc[x] = "new" /\ x \in Post => LastOnly(lockQueue'[RepoOf[x]], x)
<1>0. x \in Proc /\ x \in Post \cup Call \cup Run
  BY DEF LockUser, Proc
<1>1. /\ pc' \in [Proc -> PC] /\ pc'[x] = "lock"
      /\ \A y \in Proc : y # x => pc'[y] = pc[y]
  BY <1>0 DEF MoveTo, Sound, TypeOK, PC
<1>2. PlacesFit'
  <2>1. Fits(x, "lock")
    BY <1>0, RequestsAssumption DEF Fits, PostPlaces, DeletePlaces, CallPlaces, RunPlaces
  <2>2. QED
    BY <1>1, <2>1 DEF Sound, PlacesFit, Fits
<1>3. PICK r \in Repo : r = RepoOf[x]
  BY <1>0, RequestsAssumption
<1>4. PICK s \in Seq(Post \cup Call \cup Run) : s = lockQueue[r]
  BY DEF Sound, TypeOK
<1>5. PICK t \in Seq(Post \cup Call \cup Run) : t = Append(s, x)
  BY <1>0, AppendAdds
<1>6. /\ Members(t) = Members(s) \cup {x}
      /\ x \notin Members(s) => LastOnly(t, x)
  BY <1>0, <1>5, AppendAdds
<1>7. lockQueue' = [lockQueue EXCEPT ![r] = t]
  BY <1>3, <1>4, <1>5 DEF Enqueue
<1>8. lockQueue \in [Repo -> Seq(Post \cup Call \cup Run)]
  BY DEF Sound, TypeOK
<1>9. /\ lockQueue' \in [Repo -> Seq(Post \cup Call \cup Run)] /\ lockQueue'[r] = t
      /\ \A q \in Repo : q # r => lockQueue'[q] = lockQueue[q]
  BY <1>7, <1>8
<1>10. Queued'
  <2>1. ASSUME NEW y \in LockUser, pc'[y] = "lock" PROVE y \in Members(lockQueue'[RepoOf[y]])
    <3>1. y \in Proc /\ RepoOf[y] \in Repo
      BY <2>1, RequestsAssumption DEF LockUser, Proc
    <3>2. CASE y = x
      BY <1>3, <1>6, <1>9, <3>2
    <3>3. CASE y # x
      <4>1. y \in Members(lockQueue[RepoOf[y]])
        BY <1>1, <2>1, <3>1, <3>3 DEF Sound, Queued
      <4>2. QED
        BY <1>4, <1>6, <1>9, <3>1, <4>1
    <3>4. QED
      BY <3>2, <3>3
  <2>2. QED
    BY <2>1 DEF Queued
<1>11. Fresh'
  <2>1. ASSUME NEW p \in Post, NEW q \in Repo, pc'[p] = "new" PROVE p \notin Members(lockQueue'[q])
    <3>1. p # x /\ pc[p] = "new"
      BY <1>1, <2>1 DEF Proc
    <3>2. p \notin Members(lockQueue[q])
      BY <3>1 DEF Sound, Fresh
    <3>3. QED
      BY <1>4, <1>6, <1>9, <3>1, <3>2
  <2>2. QED
    BY <2>1 DEF Fresh
<1>12. pc[x] = "new" /\ x \in Post => LastOnly(lockQueue'[RepoOf[x]], x)
  BY <1>3, <1>4, <1>6, <1>9 DEF Sound, Fresh
<1>13. QED
  BY <1>1, <1>2, <1>3, <1>9, <1>10, <1>11, <1>12

LEMMA JoinsSoundly ==
  ASSUME Sound, NEW x \in LockUser, MoveTo(x, "lock"), Enqueue(x),
         InFlight(x) \/ x \in Call \cup Run,
         cond' = cond, entry' = entry, RowsKept, fuse' = fuse, appeared' = appeared
  PROVE  Sound'
<1>1. /\ pc' \in [Proc -> PC] /\ pc'[x] = "lock"
      /\ \A y \in Proc : y # x => pc'[y] = pc[y]
      /\ PlacesFit' /\ Queued' /\ Fresh'
      /\ lockQueue' \in [Repo -> Seq(Post \cup Call \cup Run)]
  BY Joins
<1>2. EntriesFit'
  <2>1. ASSUME NEW y \in Requester, InFlight(y)' PROVE InFlight(y)
    <3>1. y \in Proc /\ y \notin Call \cup Run
      BY RequestsAssumption DEF Requester, Proc
    <3>2. QED
      BY <1>1, <2>1, <3>1 DEF InFlight, Finished
  <2>2. Post \subseteq Requester
    BY DEF Requester
  <2>3. QED
    BY <2>1, <2>2 DEF Sound, EntriesFit
<1>3. \A y \in Proc : pc'[y] = "new" => pc[y] = "new"
  BY <1>1
<1>4. /\ entry' \in [Post \cup Delete -> Entry \cup {NoEntry}]
      /\ fuse' \subseteq Repo \X Archive /\ appeared' \subseteq Post
  BY DEF Sound, TypeOK
<1>5. QED
  BY <1>1, <1>2, <1>3, <1>4, SoundKept

LEMMA StandsSoundly ==
  ASSUME Sound, cond' = cond, entry' = entry, pc' = pc, lockQueue' = lockQueue,
         RowsKept, fuse' \subseteq Repo \X Archive, appeared' \subseteq Post
  PROVE  Sound'
<1>1. PlacesFit' /\ Fresh' /\ \A y \in Proc : pc'[y] = "new" => pc[y] = "new"
  BY DEF Sound, PlacesFit, Fits, Fresh
<1>2. EntriesFit'
  BY DEF Sound, EntriesFit, InFlight, Finished
<1>3. Queued'
  BY DEF Sound, Queued
<1>4. /\ entry' \in [Post \cup Delete -> Entry \cup {NoEntry}]
      /\ lockQueue' \in [Repo -> Seq(Post \cup Call \cup Run)] /\ pc' \in [Proc -> PC]
  BY DEF Sound, TypeOK
<1>5. QED
  BY <1>1, <1>2, <1>3, <1>4, SoundKept

-----------------------------------------------------------------------------
(* The requests that are in a place, and what is known of them.            *)

LEMMA PostAt ==
  ASSUME Sound, NEW p \in Post, pc[p] \notin {"new", "done", "cancelled"}
  PROVE  /\ InFlight(p) /\ p \in Requester /\ p \in Proc /\ p \in LockUser
         /\ entry[p] \in Entry /\ entry[p].repo = RepoOf[p] /\ RepoOf[p] \in Repo
         /\ EntryPath(p) \in Repo \X Archive /\ EntryPath(p)[1] = RepoOf[p]
         /\ EntryPath(p)[2] = entry[p].archive
<1>1. InFlight(p) /\ p \in Requester /\ p \in Proc /\ p \in LockUser /\ RepoOf[p] \in Repo
  BY RequestsAssumption DEF InFlight, Finished, Requester, Proc, LockUser
<1>2. entry[p] \in Entry /\ entry[p].repo = RepoOf[p]
  BY <1>1 DEF Sound, EntriesFit
<1>3. QED
  BY <1>1, <1>2 DEF EntryPath, Entry

LEMMA DeleteAt ==
  ASSUME Sound, NEW d \in Delete, pc[d] \notin {"new", "done", "cancelled"}
  PROVE  /\ InFlight(d) /\ d \in Requester /\ d \in Proc
         /\ entry[d] \in Entry /\ entry[d].repo \in Repo
         /\ EntryPath(d) \in Repo \X Archive /\ EntryPath(d)[1] = entry[d].repo
         /\ EntryPath(d)[2] = entry[d].archive
<1>1. InFlight(d) /\ d \in Requester /\ d \in Proc
  BY DEF InFlight, Finished, Requester, Proc
<1>2. entry[d] \in Entry
  BY <1>1 DEF Sound, EntriesFit
<1>3. QED
  BY <1>1, <1>2 DEF EntryPath, Entry

\* The rows with the id of a request.
LEMMA RowsOfIs ==
  ASSUME Sound, NEW x \in Requester
  PROVE  RowsOf(x) \in SUBSET Repo /\ \A r \in RowsOf(x) : HasRow(r)
  BY DEF RowsOf

-----------------------------------------------------------------------------
(* Sound, action by action.                                                *)

LEMMA PostFailsSoundly ==
  ASSUME Sound, NEW p \in Post, PostFails(p), pc[p] \in {"lock", "activating"},
         lockQueue' = lockQueue \/ (Executing(p) /\ Dequeue(p)),
         UNCHANGED <<cond, fuse, entry, appeared>>
  PROVE  Sound'
<1>1. InFlight(p) /\ p \in Requester /\ p \in Proc /\ p \in LockUser
  BY PostAt
<1>2. fuse' \subseteq Repo \X Archive /\ appeared' \subseteq Post
  BY DEF Sound, TypeOK
<1>3. PICK w \in {"cleaning", "done"} : MoveTo(p, w) /\ RowsKept
  <2>1. CASE EntryPath(p) \in fuse
    BY <2>1, SameRows DEF PostFails, Sound
  <2>2. CASE EntryPath(p) \notin fuse
    BY <1>1, <2>2, RowsOfIs, RowsDropped DEF PostFails, Sound
  <2>3. QED
    BY <2>1, <2>2
<1>4. w \in PC \ {"new", "lock"} /\ Fits(p, w)
  BY <1>3, RequestsAssumption DEF PC, Fits, PostPlaces
<1>5. QED
  BY <1>1, <1>2, <1>3, <1>4, MovesOn

LEMMA PostSound ==
  ASSUME Sound, NEW p \in Post,
         PostKeeps(p) \/ MountAppears(p) \/ PostStep(p)
  PROVE  Sound'
<1>0. /\ p \in Requester /\ p \in Proc /\ p \in LockUser
      /\ Fits(p, "done") /\ Fits(p, "cancelled") /\ Fits(p, "activating")
      /\ {"done", "cancelled", "activating"} \subseteq PC \ {"new", "lock"}
      /\ fuse \subseteq Repo \X Archive /\ appeared \subseteq Post /\ TypeOK
  BY RequestsAssumption DEF Requester, Proc, LockUser, Fits, PostPlaces, PC, Sound, TypeOK
<1>1. CASE PostKeeps(p)
  <2>1. MoveTo(p, "done") /\ UNCHANGED <<cond, row, fuse, entry, appeared, lockQueue>>
    BY <1>1 DEF PostKeeps
  <2>2. QED
    BY <1>0, <2>1, SameRows, MovesOn
<1>2. CASE MountAppears(p)
  <2>1. /\ pc[p] \in {"lock", "activating"} /\ fuse' = fuse \cup {EntryPath(p)}
        /\ appeared' = appeared \cup {p} /\ UNCHANGED <<cond, row, pc, entry, lockQueue>>
    BY <1>2 DEF MountAppears, Executing
  <2>2. EntryPath(p) \in Repo \X Archive
    BY <2>1, PostAt
  <2>3. QED
    BY <1>0, <2>1, <2>2, SameRows, StandsSoundly
<1>3. CASE GetCapacity(p)
  <2>1. /\ pc[p] = "capacity" /\ MoveTo(p, "lock") /\ Enqueue(p)
        /\ UNCHANGED <<cond, row, fuse, entry, appeared>>
    BY <1>3 DEF GetCapacity
  <2>2. InFlight(p)
    BY <2>1 DEF InFlight, Finished
  <2>3. QED
    BY <1>0, <2>1, <2>2, SameRows, JoinsSoundly
<1>4. CASE CommandEnds(p)
  <2>1. pc[p] = "lock" /\ Executing(p) /\ Dequeue(p) /\ UNCHANGED <<cond, fuse, entry, appeared>>
    BY <1>4 DEF CommandEnds, Executing
  <2>2. CASE PostFails(p)
    BY <2>1, <2>2, PostFailsSoundly
  <2>3. CASE MoveTo(p, "activating") /\ UNCHANGED row
    <3>1. InFlight(p)
      BY <2>1 DEF InFlight, Finished
    <3>2. QED
      BY <1>0, <2>1, <2>3, <3>1, SameRows, MovesOn
  <2>4. QED
    BY <1>4, <2>2, <2>3 DEF CommandEnds
<1>5. CASE PostCancelled(p)
  <2>1. /\ pc[p] = "activating" /\ MoveTo(p, "cancelled")
        /\ UNCHANGED <<cond, row, fuse, entry, appeared, lockQueue>>
    BY <1>5 DEF PostCancelled
  <2>2. InFlight(p)
    BY <2>1 DEF InFlight, Finished
  <2>3. QED
    BY <1>0, <2>1, <2>2, SameRows, MovesOn
<1>6. CASE PostActive(p)
  <2>1. /\ MoveTo(p, "done") /\ row' = SetStatus(RowsOf(p), "mounted")
        /\ UNCHANGED <<cond, fuse, entry, appeared, lockQueue>>
    BY <1>6 DEF PostActive
  <2>2. RowsKept
    <3>1. "mounted" \in RowStatus /\ RowsOf(p) \in SUBSET Repo /\ \A r \in RowsOf(p) : HasRow(r)
      BY <1>0, RowsOfIs DEF RowStatus
    <3>2. QED
      BY <1>0, <2>1, <3>1, StatusSet
  <2>3. QED
    BY <1>0, <2>1, <2>2, MovesOn
<1>7. CASE PostTimeout(p)
  BY <1>7, PostFailsSoundly DEF PostTimeout
<1>8. CASE PostCleaned(p)
  <2>1. /\ MoveTo(p, "done") /\ row' = DropRows(RowsOf(p)) /\ fuse' \subseteq fuse
        /\ UNCHANGED <<cond, entry, appeared, lockQueue>>
    BY <1>8 DEF PostCleaned
  <2>2. RowsKept
    BY <1>0, <2>1, RowsOfIs, RowsDropped
  <2>3. fuse' \subseteq Repo \X Archive
    BY <1>0, <2>1
  <2>4. QED
    BY <1>0, <2>1, <2>2, <2>3, MovesOn
<1>9. QED
  BY <1>1, <1>2, <1>3, <1>4, <1>5, <1>6, <1>7, <1>8 DEF PostStep

LEMMA DeleteSound ==
  ASSUME Sound, NEW d \in Delete, DeleteStep(d)
  PROVE  Sound'
<1>0. /\ d \in Requester /\ d \in Proc /\ Fits(d, "done") /\ Fits(d, "unmounted")
      /\ {"done", "unmounted"} \subseteq PC \ {"new", "lock"}
      /\ fuse \subseteq Repo \X Archive /\ appeared \subseteq Post /\ TypeOK
  BY RequestsAssumption DEF Requester, Proc, Fits, DeletePlaces, PC, Sound, TypeOK
<1>1. CASE Unmounted(d)
  <2>1. /\ pc[d] = "unmounting" /\ MoveTo(d, "unmounted") /\ fuse' \subseteq fuse
        /\ UNCHANGED <<cond, row, entry, appeared, lockQueue>>
    BY <1>1 DEF Unmounted
  <2>2. InFlight(d) /\ fuse' \subseteq Repo \X Archive
    BY <1>0, <2>1 DEF InFlight, Finished
  <2>3. QED
    BY <1>0, <2>1, <2>2, SameRows, MovesOn
<1>2. CASE DeleteFails(d)
  <2>1. /\ MoveTo(d, "done") /\ fuse' \subseteq fuse /\ row' = SetStatus(RowsOf(d), "error")
        /\ UNCHANGED <<cond, entry, appeared, lockQueue>>
    BY <1>2 DEF DeleteFails
  <2>2. RowsKept
    <3>1. "error" \in RowStatus /\ RowsOf(d) \in SUBSET Repo /\ \A r \in RowsOf(d) : HasRow(r)
      BY <1>0, RowsOfIs DEF RowStatus
    <3>2. QED
      BY <1>0, <2>1, <3>1, StatusSet
  <2>3. fuse' \subseteq Repo \X Archive
    BY <1>0, <2>1
  <2>4. QED
    BY <1>0, <2>1, <2>2, <2>3, MovesOn
<1>3. CASE DeleteEnds(d)
  <2>1. /\ MoveTo(d, "done") /\ row' = DropRows(RowsOf(d))
        /\ UNCHANGED <<cond, fuse, entry, appeared, lockQueue>>
    BY <1>3 DEF DeleteEnds
  <2>2. RowsKept
    BY <1>0, <2>1, RowsOfIs, RowsDropped
  <2>3. QED
    BY <1>0, <2>1, <2>2, MovesOn
<1>4. QED
  BY <1>1, <1>2, <1>3 DEF DeleteStep

LEMMA OthersSound ==
  ASSUME Sound, NEW x \in Call \cup Run,
         \/ x \in Call /\ (CallBegin(x) \/ CallStep(x))
         \/ x \in Run /\ (QueueRun(x) \/ RunStep(x))
  PROVE  Sound'
<1>0. /\ x \in Proc /\ x \in LockUser /\ Fits(x, "done")
      /\ x \in Run => Fits(x, "queued")
      /\ x \in Call => Fits(x, "capacity")
      /\ {"done", "queued", "capacity"} \subseteq PC \ {"new", "lock"}
      /\ fuse \subseteq Repo \X Archive /\ appeared \subseteq Post /\ TypeOK
  BY RequestsAssumption DEF Proc, LockUser, Fits, CallPlaces, RunPlaces, PC, Sound, TypeOK
<1>1. CASE x \in Call /\ CallBegin(x)
  <2>0. UNCHANGED <<cond, fuse, entry, appeared>> /\ RepoOf[x] \in Repo
    BY <1>1, RequestsAssumption DEF CallBegin
  <2>1. CASE Blocks(RepoOf[x])
    <3>1. MoveTo(x, "done") /\ UNCHANGED <<row, lockQueue>>
      BY <1>1, <2>1 DEF CallBegin
    <3>2. QED
      BY <1>0, <2>0, <3>1, SameRows, MovesOn
  <2>2. CASE ~Blocks(RepoOf[x])
    <3>1. row' = MarkStale({RepoOf[x]}) /\ EnterLocks(x)
      BY <1>1, <2>2 DEF CallBegin
    <3>2. RowsKept
      BY <1>0, <2>0, <3>1, StaleMarked
    <3>3. CASE MoveTo(x, "capacity") /\ UNCHANGED lockQueue
      BY <1>0, <1>1, <2>0, <3>2, <3>3, MovesOn
    <3>4. CASE MoveTo(x, "lock") /\ Enqueue(x)
      BY <1>0, <2>0, <3>2, <3>4, JoinsSoundly
    <3>5. QED
      BY <3>1, <3>3, <3>4 DEF EnterLocks
  <2>3. QED
    BY <2>1, <2>2
<1>2. CASE GetCapacity(x)
  <2>1. MoveTo(x, "lock") /\ Enqueue(x) /\ UNCHANGED <<cond, row, fuse, entry, appeared>>
    BY <1>2 DEF GetCapacity
  <2>2. QED
    BY <1>0, <2>1, SameRows, JoinsSoundly
<1>3. CASE Finish(x)
  <2>1. /\ Executing(x) /\ MoveTo(x, "done") /\ Dequeue(x)
        /\ UNCHANGED <<cond, row, fuse, entry, appeared>>
    BY <1>3 DEF Finish
  <2>2. QED
    BY <1>0, <2>1, SameRows, MovesOn
<1>4. CASE x \in Run /\ QueueRun(x)
  <2>1. MoveTo(x, "queued") /\ UNCHANGED <<cond, row, fuse, entry, appeared, lockQueue>>
    BY <1>4 DEF QueueRun
  <2>2. QED
    BY <1>0, <1>4, <2>1, SameRows, MovesOn
<1>5. CASE Claim(x)
  <2>1. /\ row' = MarkStale(Repo) /\ MoveTo(x, "lock") /\ Enqueue(x)
        /\ UNCHANGED <<cond, fuse, entry, appeared>>
    BY <1>5 DEF Claim
  <2>2. RowsKept
    BY <1>0, <2>1, StaleMarked
  <2>3. QED
    BY <1>0, <2>1, <2>2, JoinsSoundly
<1>6. QED
  BY <1>1, <1>2, <1>3, <1>4, <1>5 DEF CallStep, RunStep

LEMMA ListRowIs ==
  ASSUME TypeOK, NEW r \in Repo, ListRow(r)
  PROVE  /\ RowsKept
         /\ \A q \in Repo : row'[q] = NoRow <=> row[q] = NoRow
         /\ \A q \in Repo : row'[q] # row[q] /\ row[q].status = "mounting" => cond.slow
         /\ UNCHANGED <<cond, fuse, pc, entry, appeared, lockQueue>>
<1>1. PICK s \in {"mounted", "stale"} :
        row' = SetStatus({r}, s) /\ (row[r].status = "mounting" => cond.slow)
  BY DEF ListRow
<1>2. {r} \in SUBSET Repo /\ s \in RowStatus /\ \A q \in {r} : HasRow(q)
  BY <1>1 DEF ListRow, RowStatus
<1>3. /\ RowsKept /\ \A q \in Repo : row'[q] = NoRow <=> row[q] = NoRow
      /\ \A q \in Repo \ {r} : row'[q] = row[q]
  BY <1>1, <1>2, StatusSet
<1>4. QED
  BY <1>1, <1>3 DEF ListRow

LEMMA RestartIs ==
  ASSUME TypeOK, Restart
  PROVE  /\ RowsKept /\ fuse' \subseteq fuse /\ UNCHANGED <<cond, entry, appeared>>
         /\ \A r \in Repo : HasRow(r) /\ RowPath(r) \in fuse' => row'[r] # NoRow
         /\ pc' \in [Proc -> PC] /\ lockQueue' = [r \in Repo |-> <<>>]
         /\ \A x \in Proc : pc'[x] = IF InFlight(x) THEN "done" ELSE pc[x]
<1>1. ASSUME NEW r \in Repo, HasRow(r), RowPath(r) \in fuse'
      PROVE  row'[r] \in Row /\ row'[r].id = row[r].id /\ row'[r].archive = row[r].archive
  <2>1. PICK v \in Row : v = row[r]
    BY <1>1 DEF TypeOK, HasRow
  <2>2. row'[r] = [v EXCEPT !.status = "mounted"]
    BY <1>1, <2>1 DEF Restart
  <2>3. QED
    BY <2>1, <2>2 DEF Row, RowStatus
<1>2. ASSUME NEW r \in Repo, ~(HasRow(r) /\ RowPath(r) \in fuse') PROVE row'[r] = NoRow
  BY <1>2 DEF Restart
<1>3. row' \in [Repo -> Row \cup {NoRow}]
  <2>1. row' = [r \in Repo |-> row'[r]]
    BY DEF Restart
  <2>2. \A r \in Repo : row'[r] \in Row \cup {NoRow}
    BY <1>1, <1>2
  <2>3. QED
    BY <2>1, <2>2
<1>4. RowsKept
  BY <1>1, <1>2, <1>3 DEF RowsKept, HasRow
<1>5. fuse' \subseteq fuse /\ UNCHANGED <<cond, entry, appeared>> /\ lockQueue' = [r \in Repo |-> <<>>]
  BY DEF Restart
<1>6. /\ pc' \in [Proc -> PC]
      /\ \A x \in Proc : pc'[x] = IF InFlight(x) THEN "done" ELSE pc[x]
  BY DEF Restart, TypeOK, PC
<1>7. \A r \in Repo : HasRow(r) /\ RowPath(r) \in fuse' => row'[r] # NoRow
  BY <1>1, NoRowAssumption
<1>8. QED
  BY <1>4, <1>5, <1>6, <1>7

LEMMA WorldSound ==
  ASSUME Sound, (\E r \in Repo : ListRow(r)) \/ (\E m \in fuse : MountLost(m)) \/ Restart
  PROVE  Sound'
<1>0. fuse \subseteq Repo \X Archive /\ appeared \subseteq Post /\ TypeOK
  BY DEF Sound, TypeOK
<1>1. CASE \E r \in Repo : ListRow(r)
  <2>1. PICK r \in Repo : ListRow(r)
    BY <1>1
  <2>2. RowsKept /\ UNCHANGED <<cond, fuse, pc, entry, appeared, lockQueue>>
    BY <1>0, <2>1, ListRowIs
  <2>3. QED
    BY <1>0, <2>2, StandsSoundly
<1>2. CASE \E m \in fuse : MountLost(m)
  <2>1. fuse' \subseteq fuse /\ UNCHANGED <<cond, row, pc, entry, appeared, lockQueue>>
    BY <1>2 DEF MountLost
  <2>2. fuse' \subseteq Repo \X Archive
    BY <1>0, <2>1
  <2>3. QED
    BY <1>0, <2>1, <2>2, SameRows, StandsSoundly
<1>3. CASE Restart
  <2>1. /\ RowsKept /\ fuse' \subseteq fuse /\ UNCHANGED <<cond, entry, appeared>>
        /\ pc' \in [Proc -> PC] /\ lockQueue' = [r \in Repo |-> <<>>]
        /\ \A x \in Proc : pc'[x] = IF InFlight(x) THEN "done" ELSE pc[x]
    BY <1>0, <1>3, RestartIs
  <2>2. \A x \in Proc : pc'[x] \in {"new", "done", "cancelled"} /\ (pc'[x] = "new" => pc[x] = "new")
    BY <2>1 DEF InFlight, Finished
  <2>3. PlacesFit'
    BY <2>1 DEF Sound, PlacesFit, Fits, PostPlaces, DeletePlaces, CallPlaces, RunPlaces
  <2>4. EntriesFit'
    BY <2>2 DEF EntriesFit, InFlight, Finished, Requester, Proc
  <2>5. Queued'
    BY <2>2 DEF Queued, LockUser, Proc
  <2>6. Fresh' /\ lockQueue' \in [Repo -> Seq(Post \cup Call \cup Run)]
    BY <2>1 DEF Fresh, Members
  <2>7. /\ entry' \in [Post \cup Delete -> Entry \cup {NoEntry}]
        /\ fuse' \subseteq Repo \X Archive /\ appeared' \subseteq Post
    BY <1>0, <2>1 DEF Sound, TypeOK
  <2>8. QED
    BY <2>1, <2>2, <2>3, <2>4, <2>5, <2>6, <2>7, SoundKept
<1>4. QED
  BY <1>1, <1>2, <1>3

LEMMA PostBeginIs ==
  ASSUME Sound, NEW p \in Post, PostBegin(p)
  PROVE  /\ p \in Requester /\ p \in Proc /\ p \in LockUser /\ RepoOf[p] \in Repo
         /\ pc[p] = "new" /\ MayBegin /\ ~RowActive(RepoOf[p])
         /\ UNCHANGED <<cond, fuse, appeared>>
         /\ row' \in [Repo -> Row \cup {NoRow}] /\ row'[RepoOf[p]] \in Row
         /\ \A r \in Repo : r # RepoOf[p] => row'[r] = row[r]
         /\ row'[RepoOf[p]].status = "mounting"
         /\ entry' \in [Post \cup Delete -> Entry \cup {NoEntry}] /\ entry'[p] \in Entry
         /\ \A x \in Requester : x # p => entry'[x] = entry[x]
         /\ entry'[p].repo = RepoOf[p] /\ entry'[p].id = row'[RepoOf[p]].id
         /\ entry'[p].archive = row'[RepoOf[p]].archive
         /\ row'[RepoOf[p]].id <= Cardinality(Begun) + 1
         /\ \A s \in Repo \ {RepoOf[p]} : HasRow(s) => row[s].id < row'[RepoOf[p]].id
<1>1. /\ p \in Requester /\ p \in Proc /\ p \in LockUser /\ RepoOf[p] \in Repo
      /\ ArchiveOf[p] \in Archive
  BY RequestsAssumption DEF Requester, Proc, LockUser
<1>2. PICK r \in Repo : r = RepoOf[p]
  BY <1>1
<1>3. TypeOK /\ IdsCounted
  BY DEF Sound
<1>4. PICK n \in Id : n = NewId(r)
  BY <1>3, NewIdIs
<1>5. n <= Cardinality(Begun) + 1 /\ \A s \in Repo \ {r} : HasRow(s) => row[s].id < n
  BY <1>3, <1>4, NewIdIs
<1>6. PICK v \in Row : v = [id |-> n, archive |-> ArchiveOf[p], status |-> "mounting"]
  BY <1>1 DEF Row, RowStatus
<1>7. PICK e \in Entry : e = [id |-> n, repo |-> r, archive |-> ArchiveOf[p]]
  BY <1>1 DEF Entry
<1>8. row' = [row EXCEPT ![r] = v] /\ entry' = [entry EXCEPT ![p] = e]
  BY <1>2, <1>4, <1>6, <1>7 DEF PostBegin
<1>9. row \in [Repo -> Row \cup {NoRow}] /\ entry \in [Post \cup Delete -> Entry \cup {NoEntry}]
  BY <1>3 DEF TypeOK
<1>10. /\ row' \in [Repo -> Row \cup {NoRow}] /\ row'[r] = v
       /\ \A s \in Repo : s # r => row'[s] = row[s]
  BY <1>8, <1>9
<1>11. /\ entry' \in [Post \cup Delete -> Entry \cup {NoEntry}] /\ entry'[p] = e
       /\ \A x \in Requester : x # p => entry'[x] = entry[x]
  BY <1>8, <1>9 DEF Requester
<1>12. v.id = n /\ v.archive = ArchiveOf[p] /\ v.status = "mounting"
  BY <1>6
<1>13. e.id = n /\ e.archive = ArchiveOf[p] /\ e.repo = r
  BY <1>7
<1>14. pc[p] = "new" /\ MayBegin /\ ~RowActive(r) /\ UNCHANGED <<cond, fuse, appeared>>
  BY <1>2 DEF PostBegin
<1>15. QED
  BY <1>1, <1>2, <1>5, <1>10, <1>11, <1>12, <1>13, <1>14

\* Where a request is after it has asked for its locks.
LEMMA EnterLocksIs ==
  ASSUME Sound, NEW p \in Post, EnterLocks(p), pc[p] = "new"
  PROVE  /\ pc' \in [Proc -> PC] /\ pc'[p] \in {"capacity", "lock"}
         /\ \A y \in Proc : y # p => pc'[y] = pc[y]
         /\ PlacesFit' /\ Queued' /\ Fresh'
         /\ lockQueue' \in [Repo -> Seq(Post \cup Call \cup Run)]
         /\ \A r \in Repo : r # RepoOf[p] => lockQueue'[r] = lockQueue[r]
         /\ cond.limited = {} => pc'[p] = "lock" /\ LastOnly(lockQueue'[RepoOf[p]], p)
<1>0. p \in LockUser /\ p \in Proc
  BY DEF LockUser, Proc
<1>1. CASE MoveTo(p, "capacity") /\ UNCHANGED lockQueue /\ RepoOf[p] \in cond.limited
  <2>1. /\ pc' \in [Proc -> PC] /\ pc'[p] = "capacity"
        /\ \A y \in Proc : y # p => pc'[y] = pc[y]
    BY <1>0, <1>1 DEF MoveTo, Sound, TypeOK, PC
  <2>2. PlacesFit'
    <3>1. Fits(p, "capacity")
      BY RequestsAssumption DEF Fits, PostPlaces, DeletePlaces, CallPlaces, RunPlaces
    <3>2. QED
      BY <2>1, <3>1 DEF Sound, PlacesFit, Fits
  <2>3. Queued'
    <3>1. ASSUME NEW y \in LockUser, pc'[y] = "lock" PROVE y \in Members(lockQueue[RepoOf[y]])
      <4>1. y \in Proc /\ y # p
        BY <2>1, <3>1 DEF LockUser, Proc
      <4>2. QED
        BY <2>1, <3>1, <4>1 DEF Sound, Queued
    <3>2. QED
      BY <1>1, <3>1 DEF Queued
  <2>4. Fresh' /\ lockQueue' \in [Repo -> Seq(Post \cup Call \cup Run)]
    <3>1. \A q \in Post : pc'[q] = "new" => pc[q] = "new"
      BY <2>1 DEF Proc
    <3>2. QED
      BY <1>1, <3>1 DEF Sound, Fresh, TypeOK
  <2>5. QED
    BY <1>1, <2>1, <2>2, <2>3, <2>4
<1>2. CASE MoveTo(p, "lock") /\ Enqueue(p)
  BY <1>0, <1>2, Joins
<1>3. QED
  BY <1>1, <1>2 DEF EnterLocks

LEMMA PostBeginSound ==
  ASSUME Sound, NEW p \in Post, PostBegin(p)
  PROVE  Sound'
<1>1. /\ p \in Requester /\ p \in Proc /\ RepoOf[p] \in Repo /\ pc[p] = "new"
      /\ UNCHANGED <<cond, fuse, appeared>>
      /\ row' \in [Repo -> Row \cup {NoRow}] /\ row'[RepoOf[p]] \in Row
      /\ \A r \in Repo : r # RepoOf[p] => row'[r] = row[r]
      /\ entry' \in [Post \cup Delete -> Entry \cup {NoEntry}] /\ entry'[p] \in Entry
      /\ \A x \in Requester : x # p => entry'[x] = entry[x]
      /\ entry'[p].repo = RepoOf[p]
      /\ row'[RepoOf[p]].id <= Cardinality(Begun) + 1
      /\ \A s \in Repo \ {RepoOf[p]} : HasRow(s) => row[s].id < row'[RepoOf[p]].id
  BY PostBeginIs
<1>2. /\ pc' \in [Proc -> PC] /\ pc'[p] \in {"capacity", "lock"}
      /\ \A y \in Proc : y # p => pc'[y] = pc[y]
      /\ PlacesFit' /\ Queued' /\ Fresh'
      /\ lockQueue' \in [Repo -> Seq(Post \cup Call \cup Run)]
  <2>1. EnterLocks(p)
    BY DEF PostBegin
  <2>2. QED
    BY <1>1, <2>1, EnterLocksIs
<1>3. PICK r \in Repo : r = RepoOf[p]
  BY <1>1
<1>4. PICK n \in Nat : n = row'[r].id
  BY <1>1, <1>3, CountBegun DEF Row, Id
<1>5. \A s \in Repo : s # r /\ row[s] # NoRow => row[s].id \in Nat /\ row[s].id < n
  BY <1>1, <1>3, <1>4, CountBegun DEF Sound, TypeOK, Row, Id, HasRow
<1>6. TypeOK'
  <2>1. ASSUME NEW s \in Repo, NEW t \in Repo, row'[s] # NoRow, row'[t] # NoRow,
               row'[s].id = row'[t].id
        PROVE  s = t
    <3>1. CASE s # r /\ t # r
      BY <1>1, <1>3, <2>1, <3>1 DEF Sound, TypeOK, HasRow
    <3>2. CASE s = r /\ t # r
      <4>1. row[t].id \in Nat /\ row[t].id < n /\ row[t].id = n
        BY <1>1, <1>3, <1>4, <1>5, <2>1, <3>2
      <4>2. QED
        BY <4>1
    <3>3. CASE s # r /\ t = r
      <4>1. row[s].id \in Nat /\ row[s].id < n /\ row[s].id = n
        BY <1>1, <1>3, <1>4, <1>5, <2>1, <3>3
      <4>2. QED
        BY <4>1
    <3>4. QED
      BY <3>1, <3>2, <3>3
  <2>2. QED
    BY <1>1, <1>2, <2>1 DEF Sound, TypeOK, HasRow
<1>7. IdsCounted'
  <2>1. Begun' = Begun \cup {p} /\ p \notin Begun
    <3>1. p \notin Begun
      BY <1>1 DEF Begun
    <3>2. Begun' \subseteq Begun \cup {p}
      BY <1>1, <1>2 DEF Begun, Proc
    <3>3. Begun \cup {p} \subseteq Begun'
      BY <1>1, <1>2 DEF Begun, Proc
    <3>4. QED
      BY <3>1, <3>2, <3>3
  <2>2. PICK k \in Nat : k = Cardinality(Begun)
    BY CountBegun
  <2>3. Cardinality(Begun') = k + 1
    BY <2>1, <2>2, CountBegun, FS_AddElement
  <2>4. ASSUME NEW s \in Repo, row'[s] # NoRow PROVE row'[s].id <= k + 1
    <3>1. CASE s = r
      BY <1>1, <1>3, <2>2, <3>1
    <3>2. CASE s # r
      <4>1. row'[s].id = row[s].id /\ row[s].id \in Nat /\ row[s].id <= k
        BY <1>1, <1>3, <1>5, <2>2, <2>4, <3>2 DEF Sound, IdsCounted, HasRow
      <4>2. QED
        BY <4>1
    <3>3. QED
      BY <3>1, <3>2
  <2>5. QED
    BY <2>3, <2>4 DEF IdsCounted, HasRow
<1>8. EntriesFit'
  <2>1. ASSUME NEW y \in Requester, y # p, InFlight(y)' PROVE InFlight(y) /\ entry'[y] = entry[y]
    <3>1. y \in Proc
      BY DEF Requester, Proc
    <3>2. QED
      BY <1>1, <1>2, <2>1, <3>1 DEF InFlight, Finished
  <2>2. Post \subseteq Requester
    BY DEF Requester
  <2>3. QED
    BY <1>1, <2>1, <2>2 DEF Sound, EntriesFit
<1>9. QED
  BY <1>2, <1>6, <1>7, <1>8 DEF Sound

LEMMA DeleteBeginIs ==
  ASSUME Sound, NEW d \in Delete, NEW r \in Repo, HasRow(r),
         entry' = [entry EXCEPT ![d] = [id |-> row[r].id, repo |-> r, archive |-> row[r].archive]]
  PROVE  /\ entry' \in [Post \cup Delete -> Entry \cup {NoEntry}] /\ entry'[d] \in Entry
         /\ entry'[d].repo = r /\ entry'[d].id = row[r].id /\ entry'[d].archive = row[r].archive
         /\ \A x \in Requester : x # d => entry'[x] = entry[x]
<1>1. PICK v \in Row : v = row[r]
  BY DEF Sound, TypeOK, HasRow
<1>2. PICK e \in Entry : e = [id |-> v.id, repo |-> r, archive |-> v.archive]
  BY DEF Row, Entry
<1>3. entry' = [entry EXCEPT ![d] = e]
  BY <1>1, <1>2
<1>4. entry \in [Post \cup Delete -> Entry \cup {NoEntry}]
  BY DEF Sound, TypeOK
<1>5. /\ entry' \in [Post \cup Delete -> Entry \cup {NoEntry}] /\ entry'[d] = e
      /\ \A x \in Requester : x # d => entry'[x] = entry[x]
  BY <1>3, <1>4 DEF Requester
<1>6. e.repo = r /\ e.id = row[r].id /\ e.archive = row[r].archive
  BY <1>1, <1>2
<1>7. QED
  BY <1>5, <1>6

\* A request to unmount begins with the row it finds, or only removes the row.
LEMMA DeleteBegins ==
  ASSUME Sound, NEW d \in Delete, DeleteBegin(d)
  PROVE  \E r \in Repo :
           /\ HasRow(r) /\ pc[d] = "new" /\ MayBegin
           /\ UNCHANGED <<cond, fuse, appeared, lockQueue>> /\ RowsKept
           /\ entry' \in [Post \cup Delete -> Entry \cup {NoEntry}] /\ entry'[d] \in Entry
           /\ entry'[d].repo = r /\ entry'[d].id = row[r].id
           /\ entry'[d].archive = row[r].archive
           /\ \A x \in Requester : x # d => entry'[x] = entry[x]
           /\ \/ /\ MoveTo(d, "unmounting")
                 /\ \A q \in Repo : row'[q] = NoRow <=> row[q] = NoRow
              \/ /\ MoveTo(d, "done") /\ ~RowActive(r)
                 /\ \A q \in Repo : q # r => row'[q] = row[q]
<1>1. PICK r \in Repo :
        /\ HasRow(r)
        /\ entry' = [entry EXCEPT ![d] = [id |-> row[r].id, repo |-> r, archive |-> row[r].archive]]
        /\ IF RowActive(r)
           THEN row' = SetStatus({r}, "unmounting") /\ MoveTo(d, "unmounting")
           ELSE row' = DropRows({r}) /\ MoveTo(d, "done")
  BY DEF DeleteBegin
<1>2. pc[d] = "new" /\ MayBegin /\ UNCHANGED <<cond, fuse, appeared, lockQueue>>
  BY DEF DeleteBegin
<1>3. /\ entry' \in [Post \cup Delete -> Entry \cup {NoEntry}] /\ entry'[d] \in Entry
      /\ entry'[d].repo = r /\ entry'[d].id = row[r].id /\ entry'[d].archive = row[r].archive
      /\ \A x \in Requester : x # d => entry'[x] = entry[x]
  BY <1>1, DeleteBeginIs
<1>4. TypeOK /\ {r} \in SUBSET Repo /\ \A q \in {r} : HasRow(q)
  BY <1>1 DEF Sound
<1>5. CASE RowActive(r)
  <2>1. row' = SetStatus({r}, "unmounting") /\ MoveTo(d, "unmounting")
    BY <1>1, <1>5
  <2>2. "unmounting" \in RowStatus
    BY DEF RowStatus
  <2>3. RowsKept /\ \A q \in Repo : row'[q] = NoRow <=> row[q] = NoRow
    BY <1>4, <2>1, <2>2, StatusSet
  <2>4. QED
    BY <1>1, <1>2, <1>3, <2>1, <2>3
<1>6. CASE ~RowActive(r)
  <2>1. row' = DropRows({r}) /\ MoveTo(d, "done")
    BY <1>1, <1>6
  <2>2. RowsKept /\ \A q \in Repo \ {r} : row'[q] = row[q]
    BY <1>4, <2>1, RowsDropped
  <2>3. QED
    BY <1>1, <1>2, <1>3, <1>6, <2>1, <2>2
<1>7. QED
  BY <1>5, <1>6

LEMMA DeleteBeginSound ==
  ASSUME Sound, NEW d \in Delete, DeleteBegin(d)
  PROVE  Sound'
<1>1. PICK r \in Repo, w \in {"unmounting", "done"} :
        /\ HasRow(r) /\ pc[d] = "new" /\ MayBegin
        /\ UNCHANGED <<cond, fuse, appeared, lockQueue>> /\ RowsKept
        /\ entry' \in [Post \cup Delete -> Entry \cup {NoEntry}] /\ entry'[d] \in Entry
        /\ \A x \in Requester : x # d => entry'[x] = entry[x]
        /\ MoveTo(d, w)
  BY DeleteBegins
<1>2. /\ d \in Proc /\ Fits(d, w)
      /\ fuse' \subseteq Repo \X Archive /\ appeared' \subseteq Post
      /\ lockQueue' \in [Repo -> Seq(Post \cup Call \cup Run)]
  BY <1>1, RequestsAssumption DEF Proc, Fits, DeletePlaces, Sound, TypeOK
<1>3. /\ pc' \in [Proc -> PC] /\ pc'[d] = w
      /\ \A y \in Proc : y # d => pc'[y] = pc[y]
  BY <1>1, <1>2 DEF MoveTo, Sound, TypeOK, PC
<1>4. PlacesFit'
  BY <1>2, <1>3 DEF Sound, PlacesFit, Fits
<1>5. EntriesFit'
  <2>1. ASSUME NEW y \in Requester, y # d, InFlight(y)' PROVE InFlight(y) /\ entry'[y] = entry[y]
    <3>1. y \in Proc
      BY DEF Requester, Proc
    <3>2. QED
      BY <1>1, <1>3, <2>1, <3>1 DEF InFlight, Finished
  <2>2. Post \subseteq Requester /\ \A p \in Post : p # d
    BY RequestsAssumption DEF Requester
  <2>3. QED
    BY <1>1, <2>1, <2>2 DEF Sound, EntriesFit
<1>6. \A y \in Proc : (pc'[y] = "new" => pc[y] = "new") /\ (pc'[y] = "lock" => pc[y] = "lock")
  BY <1>1, <1>3
<1>7. Queued' /\ Fresh'
  BY <1>1, <1>6 DEF Sound, Queued, Fresh, LockUser, Proc
<1>8. QED
  BY <1>1, <1>2, <1>3, <1>4, <1>5, <1>6, <1>7, SoundKept

LEMMA SoundStep == Sound /\ [Next]_vars => Sound'
<1> SUFFICES ASSUME Sound, [Next]_vars PROVE Sound'
  OBVIOUS
<1>1. CASE \E p \in Post : PostBegin(p) \/ PostKeeps(p) \/ MountAppears(p) \/ PostStep(p)
  BY <1>1, PostBeginSound, PostSound
<1>2. CASE \E d \in Delete : DeleteBegin(d) \/ DeleteStep(d)
  BY <1>2, DeleteBeginSound, DeleteSound
<1>3. CASE \E c \in Call : CallBegin(c) \/ CallStep(c)
  BY <1>3, OthersSound
<1>4. CASE \E x \in Run : QueueRun(x) \/ RunStep(x)
  BY <1>4, OthersSound
<1>5. CASE (\E r \in Repo : ListRow(r)) \/ (\E m \in fuse : MountLost(m)) \/ Restart
  BY <1>5, WorldSound
<1>6. CASE UNCHANGED vars
  <2>1. UNCHANGED <<cond, row, fuse, pc, entry, appeared, lockQueue>>
    BY <1>6 DEF vars
  <2>2. RowsKept /\ fuse' \subseteq Repo \X Archive /\ appeared' \subseteq Post
    BY <2>1, SameRows DEF Sound, TypeOK
  <2>3. QED
    BY <2>1, <2>2, StandsSoundly
<1>7. QED
  BY <1>1, <1>2, <1>3, <1>4, <1>5, <1>6 DEF Next

-----------------------------------------------------------------------------
(* Requests one by one.                                                    *)

\* A step that puts no mount and loses no row that is needed.
LEMMA OrderlyKept ==
  ASSUME Sound, Orderly, RowsKept, fuse' \subseteq fuse,
         \A x \in Requester : InFlight(x)' =>
           InFlight(x) /\ entry'[x] = entry[x] /\ row'[entry[x].repo] # NoRow,
         \A m \in fuse' : row'[m[1]] # NoRow
  PROVE  Orderly'
<1>1. Alone'
  BY DEF Orderly, Alone
<1>2. RowsMatch'
  <2>1. ASSUME NEW x \in Requester, InFlight(x)'
        PROVE  /\ row'[entry'[x].repo] # NoRow /\ row'[entry'[x].repo].id = entry'[x].id
               /\ row'[entry'[x].repo].archive = entry'[x].archive
    <3>1. InFlight(x) /\ entry'[x] = entry[x] /\ row'[entry[x].repo] # NoRow
      BY <2>1
    <3>2. PICK r \in Repo : r = entry[x].repo
      BY <3>1 DEF Sound, EntriesFit, Entry
    <3>3. row[r].id = entry[x].id /\ row[r].archive = entry[x].archive
      BY <3>1, <3>2 DEF Orderly, RowsMatch
    <3>4. QED
      BY <3>1, <3>2, <3>3 DEF RowsKept
  <2>2. QED
    BY <2>1 DEF RowsMatch, HasRow
<1>3. FuseMatches'
  <2>1. ASSUME NEW m \in fuse' PROVE row'[m[1]] # NoRow /\ row'[m[1]].archive = m[2]
    <3>1. m \in fuse /\ m[1] \in Repo /\ row'[m[1]] # NoRow
      BY DEF Sound, TypeOK
    <3>2. row[m[1]].archive = m[2]
      BY <3>1 DEF Orderly, FuseMatches
    <3>3. QED
      BY <3>1, <3>2 DEF RowsKept
  <2>2. QED
    BY <2>1 DEF FuseMatches, HasRow
<1>4. QED
  BY <1>1, <1>2, <1>3 DEF Orderly

\* No row is lost.
LEMMA OrderlyByRows ==
  ASSUME Sound, Orderly, RowsKept, fuse' \subseteq fuse, entry' = entry,
         \A r \in Repo : row'[r] = NoRow <=> row[r] = NoRow,
         \A x \in Requester : InFlight(x)' => InFlight(x)
  PROVE  Orderly'
<1>1. ASSUME NEW x \in Requester, InFlight(x)'
      PROVE  InFlight(x) /\ entry'[x] = entry[x] /\ row'[entry[x].repo] # NoRow
  <2>1. InFlight(x) /\ entry[x].repo \in Repo
    BY <1>1 DEF Sound, EntriesFit, Entry
  <2>2. QED
    BY <2>1 DEF Orderly, RowsMatch, HasRow
<1>2. ASSUME NEW m \in fuse' PROVE row'[m[1]] # NoRow
  <2>1. m \in fuse /\ m[1] \in Repo
    BY DEF Sound, TypeOK
  <2>2. QED
    BY <2>1 DEF Orderly, FuseMatches, HasRow
<1>3. QED
  BY <1>1, <1>2, OrderlyKept

\* The row of a request goes with it when its path is not active.
LEMMA OrderlyDrop ==
  ASSUME Sound, Orderly, NEW x \in Requester, InFlight(x), MoveTo(x, "done"),
         row' = DropRows(RowsOf(x)), entry' = entry,
         fuse' \subseteq fuse, EntryPath(x) \notin fuse'
  PROVE  Orderly'
<1>1. /\ x \in Proc /\ entry[x] \in Entry /\ TypeOK
      /\ \A y \in Requester : InFlight(y) => y = x
  BY DEF Requester, Proc, Sound, EntriesFit, Orderly, Alone
<1>2. PICK r \in Repo : r = entry[x].repo
  BY <1>1 DEF Entry
<1>3. row[r] # NoRow /\ row[r].id = entry[x].id /\ row[r].archive = entry[x].archive
  BY <1>2 DEF Orderly, RowsMatch, HasRow
<1>4. RowsOf(x) \in SUBSET Repo /\ \A q \in RowsOf(x) : q = r
  BY <1>1, <1>2, <1>3 DEF RowsOf, TypeOK, HasRow
<1>5. RowsKept /\ \A q \in Repo \ RowsOf(x) : row'[q] = row[q]
  BY <1>1, <1>4, RowsDropped
<1>6. \A y \in Requester : ~InFlight(y)'
  <2>1. pc'[x] = "done" /\ \A y \in Proc : y # x => pc'[y] = pc[y]
    BY <1>1 DEF MoveTo, TypeOK
  <2>2. QED
    BY <1>1, <2>1 DEF InFlight, Finished, Requester, Proc
<1>7. ASSUME NEW m \in fuse' PROVE row'[m[1]] # NoRow
  <2>1. m \in fuse /\ m \in Repo \X Archive
    BY <1>1 DEF TypeOK
  <2>2. row[m[1]] # NoRow /\ row[m[1]].archive = m[2]
    BY <2>1 DEF Orderly, FuseMatches, HasRow
  <2>3. m[1] # r
    <3>1. SUFFICES ASSUME m[1] = r PROVE FALSE
      OBVIOUS
    <3>2. m = <<r, entry[x].archive>>
      BY <1>3, <2>1, <2>2, <3>1
    <3>3. QED
      BY <1>2, <3>2 DEF EntryPath
  <2>4. QED
    BY <1>4, <1>5, <2>1, <2>2, <2>3
<1>8. QED
  BY <1>5, <1>6, <1>7, OrderlyKept

LEMMA NoneComes ==
  ASSUME Sound, NEW x \in Proc, NEW w, MoveTo(x, w),
         InFlight(x) \/ x \in Call \cup Run \/ w \in {"done", "cancelled"}
  PROVE  \A y \in Requester : InFlight(y)' => InFlight(y)
<1>1. /\ pc'[x] = w
      /\ \A y \in Proc : y # x => pc'[y] = pc[y]
  BY DEF MoveTo, Sound, TypeOK
<1>2. ASSUME NEW y \in Requester, InFlight(y)' PROVE InFlight(y)
  <2>1. y \in Proc /\ y \notin Call \cup Run
    BY RequestsAssumption DEF Requester, Proc
  <2>2. CASE y = x
    BY <1>1, <1>2, <2>1, <2>2 DEF InFlight, Finished
  <2>3. CASE y # x
    BY <1>1, <1>2, <2>1, <2>3 DEF InFlight, Finished
  <2>4. QED
    BY <2>2, <2>3
<1>3. QED
  BY <1>2

LEMMA PostFailsOrderly ==
  ASSUME Sound, Orderly, NEW p \in Post, PostFails(p), pc[p] \in {"lock", "activating"},
         UNCHANGED <<fuse, entry>>
  PROVE  Orderly'
<1>1. InFlight(p) /\ p \in Requester /\ p \in Proc
  BY PostAt
<1>2. CASE EntryPath(p) \in fuse
  <2>1. MoveTo(p, "cleaning") /\ row' = row /\ RowsKept
    BY <1>2, SameRows DEF PostFails, Sound
  <2>2. \A y \in Requester : InFlight(y)' => InFlight(y)
    BY <1>1, <2>1, NoneComes
  <2>3. QED
    BY <2>1, <2>2, OrderlyByRows
<1>3. CASE EntryPath(p) \notin fuse
  BY <1>1, <1>3, OrderlyDrop DEF PostFails
<1>4. QED
  BY <1>2, <1>3

\* Steps that only move a request.
LEMMA MoveOrderly ==
  ASSUME Sound, Orderly, NEW x \in Proc, NEW w, MoveTo(x, w),
         InFlight(x) \/ x \in Call \cup Run \/ w \in {"done", "cancelled"},
         fuse' \subseteq fuse, UNCHANGED <<row, entry>>
  PROVE  Orderly'
<1>1. RowsKept
  BY SameRows DEF Sound
<1>2. \A y \in Requester : InFlight(y)' => InFlight(y)
  BY NoneComes
<1>3. QED
  BY <1>1, <1>2, OrderlyByRows

LEMMA PostOrderly ==
  ASSUME Sound, Orderly, OneByOne, NEW p \in Post,
         PostKeeps(p) \/ MountAppears(p) \/ PostStep(p)
  PROVE  Orderly'
<1>0. p \in Requester /\ p \in Proc /\ TypeOK
  BY DEF Requester, Proc, Sound
<1>1. CASE PostKeeps(p)
  BY <1>0, <1>1, MoveOrderly DEF PostKeeps
<1>2. CASE MountAppears(p)
  <2>1. /\ pc[p] \in {"lock", "activating"} /\ fuse' = fuse \cup {EntryPath(p)}
        /\ UNCHANGED <<row, pc, entry>>
    BY <1>2 DEF MountAppears, Executing
  <2>2. /\ InFlight(p) /\ EntryPath(p)[1] = entry[p].repo /\ EntryPath(p)[2] = entry[p].archive
    BY <2>1, PostAt
  <2>3. FuseMatches'
    BY <1>0, <2>1, <2>2 DEF FuseMatches, Orderly, RowsMatch, HasRow
  <2>4. Alone' /\ RowsMatch'
    BY <2>1 DEF Orderly, Alone, RowsMatch, InFlight, Finished, HasRow
  <2>5. QED
    BY <2>3, <2>4 DEF Orderly
<1>3. CASE GetCapacity(p)
  <2>1. MoveTo(p, "lock") /\ InFlight(p) /\ UNCHANGED <<row, fuse, entry>>
    BY <1>3 DEF GetCapacity, InFlight, Finished
  <2>2. QED
    BY <1>0, <2>1, MoveOrderly
<1>4. CASE CommandEnds(p)
  <2>1. pc[p] = "lock" /\ UNCHANGED <<fuse, entry>> /\ InFlight(p)
    BY <1>4 DEF CommandEnds, Executing, InFlight, Finished
  <2>2. CASE PostFails(p)
    BY <2>1, <2>2, PostFailsOrderly
  <2>3. CASE MoveTo(p, "activating") /\ UNCHANGED row
    BY <1>0, <2>1, <2>3, MoveOrderly
  <2>4. QED
    BY <1>4, <2>2, <2>3 DEF CommandEnds
<1>5. CASE PostCancelled(p)
  BY <1>0, <1>5, MoveOrderly DEF PostCancelled
<1>6. CASE PostActive(p)
  <2>1. MoveTo(p, "done") /\ row' = SetStatus(RowsOf(p), "mounted") /\ UNCHANGED <<fuse, entry>>
    BY <1>6 DEF PostActive
  <2>2. RowsKept /\ \A q \in Repo : row'[q] = NoRow <=> row[q] = NoRow
    <3>1. "mounted" \in RowStatus /\ RowsOf(p) \in SUBSET Repo /\ \A r \in RowsOf(p) : HasRow(r)
      BY <1>0, RowsOfIs DEF RowStatus
    <3>2. QED
      BY <1>0, <2>1, <3>1, StatusSet
  <2>3. \A y \in Requester : InFlight(y)' => InFlight(y)
    BY <1>0, <2>1, NoneComes
  <2>4. QED
    BY <2>1, <2>2, <2>3, OrderlyByRows
<1>7. CASE PostTimeout(p)
  BY <1>7, PostFailsOrderly DEF PostTimeout
<1>8. CASE PostCleaned(p)
  <2>1. /\ pc[p] = "cleaning" /\ MoveTo(p, "done") /\ row' = DropRows(RowsOf(p))
        /\ entry' = entry /\ fuse' = fuse \ {EntryPath(p)}
    BY <1>8 DEF PostCleaned, OneByOne
  <2>2. InFlight(p)
    BY <2>1 DEF InFlight, Finished
  <2>3. QED
    BY <1>0, <2>1, <2>2, OrderlyDrop
<1>9. QED
  BY <1>1, <1>2, <1>3, <1>4, <1>5, <1>6, <1>7, <1>8 DEF PostStep

LEMMA DeleteOrderly ==
  ASSUME Sound, Orderly, NEW d \in Delete, DeleteStep(d)
  PROVE  Orderly'
<1>0. d \in Requester /\ d \in Proc /\ TypeOK
  BY DEF Requester, Proc, Sound
<1>1. CASE Unmounted(d)
  <2>1. MoveTo(d, "unmounted") /\ InFlight(d) /\ fuse' \subseteq fuse /\ UNCHANGED <<row, entry>>
    BY <1>1 DEF Unmounted, InFlight, Finished
  <2>2. QED
    BY <1>0, <2>1, MoveOrderly
<1>2. CASE DeleteFails(d)
  <2>1. /\ MoveTo(d, "done") /\ fuse' \subseteq fuse /\ row' = SetStatus(RowsOf(d), "error")
        /\ entry' = entry
    BY <1>2 DEF DeleteFails
  <2>2. RowsKept /\ \A q \in Repo : row'[q] = NoRow <=> row[q] = NoRow
    <3>1. "error" \in RowStatus /\ RowsOf(d) \in SUBSET Repo /\ \A r \in RowsOf(d) : HasRow(r)
      BY <1>0, RowsOfIs DEF RowStatus
    <3>2. QED
      BY <1>0, <2>1, <3>1, StatusSet
  <2>3. \A y \in Requester : InFlight(y)' => InFlight(y)
    BY <1>0, <2>1, NoneComes
  <2>4. QED
    BY <2>1, <2>2, <2>3, OrderlyByRows
<1>3. CASE DeleteEnds(d)
  <2>1. /\ pc[d] = "unmounted" /\ EntryPath(d) \notin fuse /\ fuse' = fuse /\ entry' = entry
        /\ MoveTo(d, "done") /\ row' = DropRows(RowsOf(d))
    BY <1>3 DEF DeleteEnds
  <2>2. InFlight(d)
    BY <2>1 DEF InFlight, Finished
  <2>3. QED
    BY <1>0, <2>1, <2>2, OrderlyDrop
<1>4. QED
  BY <1>1, <1>2, <1>3 DEF DeleteStep

LEMMA OthersOrderly ==
  ASSUME Sound, Orderly, NEW x \in Call \cup Run,
         \/ x \in Call /\ (CallBegin(x) \/ CallStep(x))
         \/ x \in Run /\ (QueueRun(x) \/ RunStep(x))
  PROVE  Orderly'
<1>0. x \in Proc /\ TypeOK
  BY DEF Proc, Sound
<1>1. PICK w \in PC : MoveTo(x, w)
  BY DEF CallBegin, EnterLocks, CallStep, GetCapacity, Finish, QueueRun, RunStep, Claim, PC
<1>2. \A y \in Requester : InFlight(y)' => InFlight(y)
  BY <1>0, <1>1, NoneComes
<1>3. fuse' = fuse /\ entry' = entry
  BY DEF CallBegin, CallStep, GetCapacity, Finish, QueueRun, RunStep, Claim
<1>4. \/ row' = row
      \/ row' = MarkStale({RepoOf[x]})
      \/ row' = MarkStale(Repo)
  BY DEF CallBegin, CallStep, GetCapacity, Finish, QueueRun, RunStep, Claim
<1>5. RowsKept /\ \A r \in Repo : row'[r] = NoRow <=> row[r] = NoRow
  <2>1. CASE row' = row
    BY <1>0, <2>1, SameRows
  <2>2. CASE row' # row
    <3>1. {RepoOf[x]} \in SUBSET Repo
      BY RequestsAssumption
    <3>2. QED
      BY <1>0, <1>4, <2>2, <3>1, StaleMarked
  <2>3. QED
    BY <2>1, <2>2
<1>6. QED
  BY <1>2, <1>3, <1>5, OrderlyByRows

LEMMA WorldOrderly ==
  ASSUME Sound, Orderly, (\E r \in Repo : ListRow(r)) \/ (\E m \in fuse : MountLost(m)) \/ Restart
  PROVE  Orderly'
<1>0. TypeOK
  BY DEF Sound
<1>1. CASE \E r \in Repo : ListRow(r)
  <2>1. PICK r \in Repo : ListRow(r)
    BY <1>1
  <2>2. /\ RowsKept /\ UNCHANGED <<cond, fuse, pc, entry, appeared, lockQueue>>
        /\ \A q \in Repo : row'[q] = NoRow <=> row[q] = NoRow
    BY <1>0, <2>1, ListRowIs
  <2>3. \A y \in Requester : InFlight(y)' => InFlight(y)
    BY <2>2 DEF InFlight, Finished
  <2>4. QED
    BY <2>2, <2>3, OrderlyByRows
<1>2. CASE \E m \in fuse : MountLost(m)
  <2>1. fuse' \subseteq fuse /\ UNCHANGED <<cond, row, pc, entry, appeared, lockQueue>>
    BY <1>2 DEF MountLost
  <2>2. RowsKept /\ \A y \in Requester : InFlight(y)' => InFlight(y)
    BY <1>0, <2>1, SameRows DEF InFlight, Finished
  <2>3. QED
    BY <2>1, <2>2, OrderlyByRows
<1>3. CASE Restart
  <2>1. /\ RowsKept /\ fuse' \subseteq fuse
        /\ \A r \in Repo : HasRow(r) /\ RowPath(r) \in fuse' => row'[r] # NoRow
        /\ \A x \in Proc : pc'[x] = IF InFlight(x) THEN "done" ELSE pc[x]
    BY <1>0, <1>3, RestartIs
  <2>2. \A y \in Requester : ~InFlight(y)'
    BY <2>1 DEF InFlight, Finished, Requester, Proc
  <2>3. ASSUME NEW m \in fuse' PROVE row'[m[1]] # NoRow
    <3>1. m \in fuse /\ m \in Repo \X Archive
      BY <1>0, <2>1 DEF TypeOK
    <3>2. HasRow(m[1]) /\ row[m[1]].archive = m[2]
      BY <3>1 DEF Orderly, FuseMatches
    <3>3. RowPath(m[1]) = m
      BY <3>1, <3>2 DEF RowPath
    <3>4. QED
      BY <2>1, <3>1, <3>2, <3>3
  <2>4. QED
    BY <2>1, <2>2, <2>3, OrderlyKept
<1>4. QED
  BY <1>1, <1>2, <1>3

LEMMA PostBeginOrderly ==
  ASSUME Sound, Orderly, OneByOne, NEW p \in Post, PostBegin(p)
  PROVE  Orderly' /\ \A y \in Requester : InFlight(y)' => y = p
<1>1. /\ p \in Requester /\ p \in Proc /\ RepoOf[p] \in Repo /\ pc[p] = "new" /\ MayBegin
      /\ ~RowActive(RepoOf[p]) /\ fuse' = fuse /\ row'[RepoOf[p]] \in Row
      /\ \A r \in Repo : r # RepoOf[p] => row'[r] = row[r]
      /\ entry'[p].repo = RepoOf[p] /\ entry'[p].id = row'[RepoOf[p]].id
      /\ entry'[p].archive = row'[RepoOf[p]].archive
  BY PostBeginIs
<1>2. \A y \in Proc : y # p => pc'[y] = pc[y]
  <2>1. EnterLocks(p)
    BY DEF PostBegin
  <2>2. QED
    BY <1>1, <2>1, EnterLocksIs
<1>3. \A y \in Requester : ~InFlight(y)
  BY <1>1 DEF MayBegin, OneByOne, Requester
<1>4. \A y \in Requester : InFlight(y)' => y = p
  BY <1>2, <1>3 DEF InFlight, Finished, Requester, Proc
<1>5. row'[RepoOf[p]] # NoRow
  BY <1>1, NoRowAssumption
<1>6. Alone' /\ RowsMatch'
  BY <1>1, <1>4, <1>5 DEF Alone, RowsMatch, HasRow
<1>7. FuseMatches'
  <2>1. ASSUME NEW m \in fuse PROVE row'[m[1]] # NoRow /\ row'[m[1]].archive = m[2]
    <3>1. m \in Repo \X Archive /\ HasRow(m[1]) /\ row[m[1]].archive = m[2]
      BY DEF Sound, TypeOK, Orderly, FuseMatches
    <3>2. RowActive(m[1])
      BY <3>1 DEF RowActive, RowPath
    <3>3. QED
      BY <1>1, <3>1, <3>2 DEF HasRow
  <2>2. QED
    BY <1>1, <2>1 DEF FuseMatches, HasRow
<1>8. QED
  BY <1>4, <1>6, <1>7 DEF Orderly

LEMMA DeleteBeginOrderly ==
  ASSUME Sound, Orderly, OneByOne, NEW d \in Delete, DeleteBegin(d)
  PROVE  Orderly' /\ \A y \in Requester : InFlight(y)' => y = d
<1>1. PICK r \in Repo :
        /\ HasRow(r) /\ MayBegin /\ fuse' = fuse /\ RowsKept
        /\ entry'[d].repo = r /\ entry'[d].id = row[r].id /\ entry'[d].archive = row[r].archive
        /\ \/ /\ MoveTo(d, "unmounting")
              /\ \A q \in Repo : row'[q] = NoRow <=> row[q] = NoRow
           \/ /\ MoveTo(d, "done") /\ ~RowActive(r)
              /\ \A q \in Repo : q # r => row'[q] = row[q]
  BY DeleteBegins
<1>2. d \in Requester /\ d \in Proc /\ \A y \in Requester : ~InFlight(y)
  BY <1>1 DEF MayBegin, OneByOne, Requester, Proc
<1>3. \A y \in Proc : y # d => pc'[y] = pc[y]
  BY <1>1 DEF MoveTo, Sound, TypeOK
<1>4. \A y \in Requester : InFlight(y)' => y = d
  BY <1>2, <1>3 DEF InFlight, Finished, Requester, Proc
<1>5. Alone'
  BY <1>4 DEF Alone
<1>6. ASSUME NEW m \in fuse PROVE m \in Repo \X Archive /\ HasRow(m[1]) /\ row[m[1]].archive = m[2]
  BY DEF Sound, TypeOK, Orderly, FuseMatches
<1>7. CASE MoveTo(d, "unmounting") /\ \A q \in Repo : row'[q] = NoRow <=> row[q] = NoRow
  <2>1. RowsMatch'
    BY <1>1, <1>4, <1>7 DEF RowsMatch, HasRow, RowsKept
  <2>2. FuseMatches'
    <3>1. ASSUME NEW m \in fuse PROVE row'[m[1]] # NoRow /\ row'[m[1]].archive = m[2]
      BY <1>1, <1>6, <1>7 DEF HasRow, RowsKept
    <3>2. QED
      BY <1>1, <3>1 DEF FuseMatches, HasRow
  <2>3. QED
    BY <1>4, <1>5, <2>1, <2>2 DEF Orderly
<1>8. CASE MoveTo(d, "done") /\ ~RowActive(r) /\ \A q \in Repo : q # r => row'[q] = row[q]
  <2>1. pc'[d] = "done"
    BY <1>2, <1>8 DEF MoveTo, Sound, TypeOK
  <2>2. RowsMatch'
    BY <1>4, <2>1 DEF RowsMatch, InFlight, Finished
  <2>3. FuseMatches'
    <3>1. ASSUME NEW m \in fuse PROVE row'[m[1]] # NoRow /\ row'[m[1]].archive = m[2]
      <4>1. m \in Repo \X Archive /\ HasRow(m[1]) /\ row[m[1]].archive = m[2]
        BY <1>6
      <4>2. RowActive(m[1])
        BY <4>1 DEF RowActive, RowPath
      <4>3. QED
        BY <1>8, <4>1, <4>2 DEF HasRow
    <3>2. QED
      BY <1>1, <3>1 DEF FuseMatches, HasRow
  <2>4. QED
    BY <1>4, <1>5, <2>2, <2>3 DEF Orderly
<1>9. QED
  BY <1>1, <1>7, <1>8

LEMMA OrderlyStep ==
  ASSUME Sound, Orderly, OneByOne, [Next]_vars
  PROVE  Orderly'
<1>1. CASE \E p \in Post : PostBegin(p) \/ PostKeeps(p) \/ MountAppears(p) \/ PostStep(p)
  BY <1>1, PostBeginOrderly, PostOrderly
<1>2. CASE \E d \in Delete : DeleteBegin(d) \/ DeleteStep(d)
  BY <1>2, DeleteBeginOrderly, DeleteOrderly
<1>3. CASE \E c \in Call : CallBegin(c) \/ CallStep(c)
  BY <1>3, OthersOrderly
<1>4. CASE \E x \in Run : QueueRun(x) \/ RunStep(x)
  BY <1>4, OthersOrderly
<1>5. CASE (\E r \in Repo : ListRow(r)) \/ (\E m \in fuse : MountLost(m)) \/ Restart
  BY <1>5, WorldOrderly
<1>6. CASE UNCHANGED vars
  BY <1>6 DEF vars, Orderly, Alone, RowsMatch, FuseMatches, InFlight, Finished, HasRow
<1>7. QED
  BY <1>1, <1>2, <1>3, <1>4, <1>5, <1>6 DEF Next

-----------------------------------------------------------------------------
(* Nothing disturbs a mount.                                               *)

\* A step that mounts nothing and makes nobody wait for a lock.
LEMMA QuietKept ==
  ASSUME Sound, Quiet, fuse' \subseteq fuse,
         \A x \in Proc :
           /\ pc'[x] = "lock" => pc[x] = "lock"
           /\ pc'[x] \in {"activating", "cleaning"} => pc[x] \in {"activating", "cleaning"}
           /\ pc'[x] # "capacity",
         \A p \in Post : InFlight(p)' =>
           /\ InFlight(p) /\ row'[RepoOf[p]].status = row[RepoOf[p]].status
           /\ lockQueue'[RepoOf[p]] = lockQueue[RepoOf[p]]
  PROVE  Quiet'
<1>1. NoCapacity' /\ Mounting'
  BY DEF Quiet, NoCapacity, Mounting
<1>2. MountsLast'
  <2>1. \A p \in Post : pc'[p] \in {"lock", "activating", "cleaning"} => p \in Proc /\ InFlight(p)'
    BY DEF InFlight, Finished, Proc
  <2>2. QED
    BY <2>1 DEF Quiet, MountsLast
<1>3. NoneBeside'
  BY DEF Quiet, NoneBeside, Proc
<1>4. QED
  BY <1>1, <1>2, <1>3 DEF Quiet

\* A request to mount in progress blocks its repository.
LEMMA PostBlocks ==
  ASSUME Sound, Orderly, Quiet, NEW p \in Post, InFlight(p)
  PROVE  /\ p \in Proc /\ p \in Requester /\ RepoOf[p] \in Repo
         /\ HasRow(RepoOf[p]) /\ row[RepoOf[p]].status = "mounting" /\ Blocks(RepoOf[p])
         /\ pc[p] \in {"lock", "activating", "cleaning"}
<1>1. p \in Proc /\ p \in Requester /\ RepoOf[p] \in Repo
  BY RequestsAssumption DEF Proc, Requester
<1>2. entry[p].repo = RepoOf[p]
  BY DEF Sound, EntriesFit
<1>3. HasRow(RepoOf[p])
  BY <1>1, <1>2 DEF Orderly, RowsMatch
<1>4. row[RepoOf[p]].status = "mounting"
  BY DEF Quiet, Mounting
<1>5. pc[p] \in {"lock", "activating", "cleaning"}
  BY <1>1 DEF Sound, PlacesFit, Fits, PostPlaces, Quiet, NoCapacity, InFlight, Finished
<1>6. QED
  BY <1>1, <1>3, <1>4, <1>5 DEF Blocks

\* A request that ends, or a step that leaves no request to mount in progress.
LEMMA QuietEnds ==
  ASSUME Sound, Quiet, NEW x \in Proc, NEW w \in {"done", "cancelled", "unmounted", "unmounting"},
         MoveTo(x, w), fuse' \subseteq fuse, \A p \in Post : ~InFlight(p)'
  PROVE  Quiet'
<1>1. pc'[x] = w /\ \A y \in Proc : y # x => pc'[y] = pc[y]
  BY DEF MoveTo, Sound, TypeOK
<1>2. \A y \in Proc :
        /\ pc'[y] = "lock" => pc[y] = "lock"
        /\ pc'[y] \in {"activating", "cleaning"} => pc[y] \in {"activating", "cleaning"}
        /\ pc'[y] # "capacity"
  BY <1>1 DEF Quiet, NoCapacity
<1>3. QED
  BY <1>2, QuietKept

\* With one request at work, its end leaves none.
LEMMA NobodyLeft ==
  ASSUME Sound, Orderly, NEW x \in Requester, InFlight(x), NEW w, MoveTo(x, w),
         w \in {"done", "cancelled"} \/ x \in Delete
  PROVE  \A p \in Post : ~InFlight(p)'
<1>1. x \in Proc /\ pc'[x] = w /\ \A y \in Proc : y # x => pc'[y] = pc[y]
  BY DEF MoveTo, Sound, TypeOK, Requester, Proc
<1>2. \A y \in Requester : InFlight(y) => y = x
  BY DEF Orderly, Alone
<1>3. ASSUME NEW p \in Post, InFlight(p)' PROVE FALSE
  <2>1. p \in Requester /\ p \in Proc /\ p \notin Delete
    BY RequestsAssumption DEF Requester, Proc
  <2>2. CASE p = x
    BY <1>1, <1>3, <2>1, <2>2 DEF InFlight, Finished
  <2>3. CASE p # x
    BY <1>1, <1>2, <1>3, <2>1, <2>3 DEF InFlight, Finished
  <2>4. QED
    BY <2>2, <2>3
<1>4. QED
  BY <1>3


\* The request at the head of its queue is the only one there.
LEMMA OnlyOne ==
  ASSUME Sound, Quiet, NEW p \in Post, Executing(p)
  PROVE  /\ Tail(lockQueue[RepoOf[p]]) = <<>> /\ RepoOf[p] \in Repo
         /\ \A y \in Members(lockQueue[RepoOf[p]]) : y = p
<1>1. PICK r \in Repo : r = RepoOf[p]
  BY RequestsAssumption
<1>2. PICK s \in Seq(Post \cup Call \cup Run) : s = lockQueue[r]
  BY DEF Sound, TypeOK
<1>3. p \in Members(s) /\ Head(s) = p /\ LastOnly(s, p)
  BY <1>1, <1>2 DEF Executing, Sound, Queued, LockUser, Quiet, MountsLast
<1>4. LastOnly(s, Head(s))
  BY <1>3
<1>5. Tail(s) = <<>> /\ \A y \in Members(s) : y = Head(s)
  BY <1>3, <1>4, TailDrops
<1>6. QED
  BY <1>1, <1>2, <1>3, <1>5

\* The Borg command of a request to mount ends and its request goes on.
LEMMA CommandQuiet ==
  ASSUME Sound, Orderly, Quiet, NEW p \in Post, Executing(p), Dequeue(p),
         NEW w \in {"activating", "cleaning"}, MoveTo(p, w), row' = row, fuse' = fuse
  PROVE  Quiet'
<1>1. p \in Proc /\ p \in Requester /\ InFlight(p) /\ RepoOf[p] \in Repo
  BY RequestsAssumption DEF Executing, InFlight, Finished, Proc, Requester
<1>2. pc'[p] = w /\ \A y \in Proc : y # p => pc'[y] = pc[y]
  BY <1>1 DEF MoveTo, Sound, TypeOK
<1>3. \A y \in Post : InFlight(y)' => y = p
  BY <1>1, <1>2 DEF Orderly, Alone, InFlight, Finished, Requester, Proc
<1>4. lockQueue'[RepoOf[p]] = <<>>
  <2>1. PICK t : t = Tail(lockQueue[RepoOf[p]])
    OBVIOUS
  <2>2. t = <<>>
    BY <2>1, OnlyOne
  <2>3. lockQueue' = [lockQueue EXCEPT ![RepoOf[p]] = t]
    BY <2>1 DEF Dequeue
  <2>4. lockQueue \in [Repo -> Seq(Post \cup Call \cup Run)]
    BY DEF Sound, TypeOK
  <2>5. QED
    BY <1>1, <2>2, <2>3, <2>4
<1>5. NoCapacity' /\ NoneBeside'
  BY <1>2, RequestsAssumption DEF Quiet, NoCapacity, NoneBeside, Proc
<1>6. Mounting'
  BY <1>1, <1>3 DEF Quiet, Mounting
<1>7. MountsLast'
  <2>1. ASSUME NEW y \in Post, pc'[y] \in {"lock", "activating", "cleaning"} PROVE y = p
    BY <1>3, <2>1 DEF InFlight, Finished
  <2>2. QED
    BY <1>2, <1>4, <2>1 DEF MountsLast
<1>8. QED
  BY <1>5, <1>6, <1>7 DEF Quiet

LEMMA PostQuiet ==
  ASSUME Sound, Orderly, Quiet, Undisturbed, NEW p \in Post,
         PostBegin(p) \/ PostKeeps(p) \/ MountAppears(p) \/ PostStep(p)
  PROVE  Quiet'
<1>0. p \in Requester /\ p \in Proc /\ RepoOf[p] \in Repo
  BY RequestsAssumption DEF Requester, Proc
<1>1. CASE PostBegin(p)
  <2>1. /\ pc[p] = "new" /\ fuse' = fuse /\ row'[RepoOf[p]].status = "mounting"
    BY <1>1, PostBeginIs
  <2>2. /\ pc'[p] = "lock" /\ LastOnly(lockQueue'[RepoOf[p]], p)
        /\ \A y \in Proc : y # p => pc'[y] = pc[y]
    <3>1. EnterLocks(p) /\ cond.limited = {}
      BY <1>1 DEF PostBegin, Undisturbed
    <3>2. QED
      BY <2>1, <3>1, EnterLocksIs
  <2>3. \A y \in Requester : InFlight(y)' => y = p
    BY <1>1, PostBeginOrderly DEF Undisturbed
  <2>4. Mounting'
    BY <2>1, <2>3 DEF Mounting, Requester
  <2>5. MountsLast'
    <3>1. ASSUME NEW y \in Post, pc'[y] \in {"lock", "activating", "cleaning"} PROVE y = p
      BY <2>3, <3>1 DEF InFlight, Finished, Requester
    <3>2. QED
      BY <2>2, <3>1 DEF MountsLast
  <2>6. NoCapacity' /\ NoneBeside'
    BY <2>1, <2>2, RequestsAssumption DEF Quiet, NoCapacity, NoneBeside, Proc
  <2>7. QED
    BY <2>4, <2>5, <2>6 DEF Quiet
<1>2. CASE PostKeeps(p)
  <2>1. MoveTo(p, "done") /\ UNCHANGED <<row, fuse, entry, lockQueue>>
    BY <1>2 DEF PostKeeps
  <2>2. pc'[p] = "done" /\ \A y \in Proc : y # p => pc'[y] = pc[y]
    BY <1>0, <2>1 DEF MoveTo, Sound, TypeOK
  <2>3. \A y \in Post : InFlight(y)' => InFlight(y)
    BY <1>0, <2>1, NoneComes DEF Requester
  <2>4. \A y \in Proc : pc'[y] # "capacity"
    BY <2>2 DEF Quiet, NoCapacity
  <2>5. \A y \in Proc :
        /\ pc'[y] = "lock" => pc[y] = "lock"
        /\ pc'[y] \in {"activating", "cleaning"} => pc[y] \in {"activating", "cleaning"}
    BY <2>2
  <2>6. QED
    BY <2>1, <2>3, <2>4, <2>5, QuietKept
<1>3. CASE MountAppears(p)
  <2>1. /\ Executing(p) \/ pc[p] = "activating"
        /\ fuse' = fuse \cup {EntryPath(p)} /\ UNCHANGED <<row, pc, entry, lockQueue>>
    BY <1>3 DEF MountAppears
  <2>2. EntryPath(p)[1] = RepoOf[p]
    BY <2>1, PostAt DEF Executing
  <2>3. ASSUME NEW q \in Run \cup Call, pc[q] = "lock", RepoOf[q] = RepoOf[p] PROVE FALSE
    <3>1. q \in Members(lockQueue[RepoOf[p]]) /\ q # p
      BY <2>3, RequestsAssumption DEF Sound, Queued, LockUser
    <3>2. CASE Executing(p)
      BY <3>1, <3>2, OnlyOne
    <3>3. CASE pc[p] = "activating"
      <4>1. lockQueue[RepoOf[p]] = <<>>
        BY <3>3 DEF Quiet, MountsLast
      <4>2. QED
        BY <3>1, <4>1 DEF Members
    <3>4. QED
      BY <2>1, <3>2, <3>3
  <2>4. NoneBeside'
    BY <2>1, <2>2, <2>3 DEF NoneBeside, Quiet
  <2>5. NoCapacity' /\ Mounting' /\ MountsLast'
    BY <2>1 DEF Quiet, NoCapacity, Mounting, MountsLast, InFlight, Finished
  <2>6. QED
    BY <2>4, <2>5 DEF Quiet
<1>4. CASE GetCapacity(p)
  BY <1>0, <1>4 DEF GetCapacity, Quiet, NoCapacity
<1>5. CASE CommandEnds(p)
  <2>1. Executing(p) /\ Dequeue(p) /\ fuse' = fuse /\ InFlight(p)
    BY <1>5 DEF CommandEnds, Executing, InFlight, Finished
  <2>2. CASE \E w \in {"activating", "cleaning"} : MoveTo(p, w) /\ row' = row
    BY <2>1, <2>2, CommandQuiet
  <2>3. CASE MoveTo(p, "done")
    <3>1. \A y \in Post : ~InFlight(y)'
      BY <1>0, <2>1, <2>3, NobodyLeft
    <3>2. QED
      BY <1>0, <2>1, <2>3, <3>1, QuietEnds
  <2>4. QED
    BY <1>5, <2>2, <2>3 DEF CommandEnds, PostFails
<1>6. ASSUME NEW w \in {"done", "cancelled"}, InFlight(p), MoveTo(p, w), fuse' \subseteq fuse
      PROVE  Quiet'
  <2>1. \A y \in Post : ~InFlight(y)'
    BY <1>0, <1>6, NobodyLeft
  <2>2. QED
    BY <1>0, <1>6, <2>1, QuietEnds
<1>7. CASE PostCancelled(p) \/ PostActive(p) \/ PostCleaned(p)
  <2>1. pc[p] \in {"activating", "cleaning"} /\ fuse' \subseteq fuse
    BY <1>7 DEF PostCancelled, PostActive, PostCleaned
  <2>2. PICK w \in {"done", "cancelled"} : MoveTo(p, w)
    BY <1>7 DEF PostCancelled, PostActive, PostCleaned
  <2>3. InFlight(p)
    BY <2>1 DEF InFlight, Finished
  <2>4. QED
    BY <1>6, <2>1, <2>2, <2>3
<1>8. CASE PostTimeout(p)
  <2>1. pc[p] = "activating" /\ fuse' = fuse /\ lockQueue' = lockQueue /\ entry' = entry
    BY <1>8 DEF PostTimeout
  <2>2. InFlight(p)
    BY <2>1 DEF InFlight, Finished
  <2>3. CASE MoveTo(p, "done")
    BY <1>6, <2>1, <2>2, <2>3
  <2>4. CASE MoveTo(p, "cleaning") /\ row' = row
    <3>1. pc'[p] = "cleaning" /\ \A y \in Proc : y # p => pc'[y] = pc[y]
      BY <1>0, <2>4 DEF MoveTo, Sound, TypeOK
    <3>2. \A y \in Post : InFlight(y)' => InFlight(y)
      BY <2>2, <3>1 DEF InFlight, Finished, Proc
    <3>3. \A y \in Proc : pc'[y] # "capacity"
      BY <3>1 DEF Quiet, NoCapacity
    <3>4. \A y \in Proc :
          /\ pc'[y] = "lock" => pc[y] = "lock"
          /\ pc'[y] \in {"activating", "cleaning"} => pc[y] \in {"activating", "cleaning"}
      BY <2>1, <3>1
    <3>5. QED
      BY <2>1, <2>4, <3>2, <3>3, <3>4, QuietKept
  <2>5. QED
    BY <1>8, <2>3, <2>4 DEF PostTimeout, PostFails
<1>9. QED
  BY <1>1, <1>2, <1>3, <1>4, <1>5, <1>7, <1>8 DEF PostStep

LEMMA DeleteQuiet ==
  ASSUME Sound, Orderly, Quiet, Undisturbed, NEW d \in Delete, DeleteBegin(d) \/ DeleteStep(d)
  PROVE  Quiet'
<1>0. d \in Requester /\ d \in Proc /\ d \notin Post
  BY RequestsAssumption DEF Requester, Proc
<1>1. PICK w \in {"done", "cancelled", "unmounted", "unmounting"} :
        MoveTo(d, w) /\ fuse' \subseteq fuse
  BY DEF DeleteBegin, DeleteStep, Unmounted, DeleteFails, DeleteEnds
<1>2. \A p \in Post : ~InFlight(p)'
  <2>1. CASE DeleteBegin(d)
    <3>1. \A y \in Requester : InFlight(y)' => y = d
      BY <2>1, DeleteBeginOrderly DEF Undisturbed
    <3>2. QED
      BY <1>0, <3>1 DEF Requester
  <2>2. CASE DeleteStep(d)
    <3>1. InFlight(d)
      BY <2>2 DEF DeleteStep, Unmounted, DeleteFails, DeleteEnds, InFlight, Finished
    <3>2. QED
      BY <1>0, <1>1, <3>1, NobodyLeft
  <2>3. QED
    BY <2>1, <2>2
<1>3. QED
  BY <1>0, <1>1, <1>2, QuietEnds

\* Whoever queues up behind no mount and no request to mount.
LEMMA JoinsQuietly ==
  ASSUME Sound, Orderly, Quiet, NEW x \in Call \cup Run, ~Blocks(RepoOf[x]),
         MoveTo(x, "lock"), Enqueue(x), fuse' = fuse,
         \A r \in Repo : Blocks(r) => row'[r] = row[r]
  PROVE  Quiet'
<1>0. x \in Proc /\ x \in LockUser /\ x \notin Post
  BY RequestsAssumption DEF Proc, LockUser
<1>1. /\ pc'[x] = "lock" /\ \A y \in Proc : y # x => pc'[y] = pc[y]
      /\ \A r \in Repo : r # RepoOf[x] => lockQueue'[r] = lockQueue[r]
  BY <1>0, Joins
<1>2. ASSUME NEW p \in Post, InFlight(p)'
      PROVE  /\ pc'[p] = pc[p] /\ InFlight(p) /\ lockQueue'[RepoOf[p]] = lockQueue[RepoOf[p]]
             /\ row'[RepoOf[p]] = row[RepoOf[p]]
  <2>1. p # x /\ p \in Proc
    BY <1>0 DEF Proc
  <2>2. InFlight(p)
    BY <1>1, <1>2, <2>1 DEF InFlight, Finished
  <2>3. RepoOf[p] \in Repo /\ Blocks(RepoOf[p])
    BY <2>2, PostBlocks
  <2>4. QED
    BY <1>1, <2>1, <2>2, <2>3
<1>3. NoCapacity'
  BY <1>1 DEF Quiet, NoCapacity
<1>4. Mounting'
  BY <1>2 DEF Quiet, Mounting
<1>5. MountsLast'
  <2>1. \A p \in Post : pc'[p] \in {"lock", "activating", "cleaning"} => InFlight(p)'
    BY DEF InFlight, Finished
  <2>2. QED
    BY <1>2, <2>1 DEF Quiet, MountsLast
<1>6. NoneBeside'
  <2>1. ASSUME NEW m \in fuse, NEW q \in Run \cup Call, pc'[q] = "lock" PROVE RepoOf[q] # m[1]
    <3>1. CASE q = x
      <4>1. m \in Repo \X Archive /\ HasRow(m[1]) /\ row[m[1]].archive = m[2]
        BY DEF Sound, TypeOK, Orderly, FuseMatches
      <4>2. Blocks(m[1])
        BY <4>1 DEF Blocks, RowActive, RowPath
      <4>3. QED
        BY <3>1, <4>2
    <3>2. CASE q # x
      BY <1>1, <2>1, <3>2 DEF Quiet, NoneBeside, Proc
    <3>3. QED
      BY <3>1, <3>2
  <2>2. QED
    BY <2>1 DEF NoneBeside
<1>7. QED
  BY <1>3, <1>4, <1>5, <1>6 DEF Quiet

LEMMA FinishQuiet ==
  ASSUME Sound, Orderly, Quiet, NEW x \in Call \cup Run, Finish(x)
  PROVE  Quiet'
<1>0. x \in Proc /\ x \in LockUser /\ x \notin Post /\ RepoOf[x] \in Repo
  BY RequestsAssumption DEF Proc, LockUser
<1>1. /\ Executing(x) /\ MoveTo(x, "done") /\ Dequeue(x) /\ row' = row /\ fuse' = fuse
  BY DEF Finish
<1>2. pc'[x] = "done" /\ \A y \in Proc : y # x => pc'[y] = pc[y]
  BY <1>0, <1>1 DEF MoveTo, Sound, TypeOK
<1>3. PICK s \in Seq(Post \cup Call \cup Run) : s = lockQueue[RepoOf[x]]
  BY <1>0 DEF Sound, TypeOK
<1>4. x \in Members(s)
  BY <1>0, <1>1, <1>3 DEF Executing, Sound, Queued
<1>5. \A y : LastOnly(s, y) => LastOnly(Tail(s), y)
  BY <1>4, TailDrops
<1>6. /\ lockQueue'[RepoOf[x]] = Tail(s)
      /\ \A r \in Repo : r # RepoOf[x] => lockQueue'[r] = lockQueue[r]
  <2>1. lockQueue' = [lockQueue EXCEPT ![RepoOf[x]] = Tail(s)]
    BY <1>1, <1>3 DEF Dequeue
  <2>2. lockQueue \in [Repo -> Seq(Post \cup Call \cup Run)]
    BY DEF Sound, TypeOK
  <2>3. QED
    BY <1>0, <2>1, <2>2
<1>7. ASSUME NEW p \in Post, InFlight(p)'
      PROVE  pc'[p] = pc[p] /\ InFlight(p) /\ RepoOf[p] \in Repo
  <2>1. p # x /\ p \in Proc /\ RepoOf[p] \in Repo
    BY <1>0, RequestsAssumption DEF Proc
  <2>2. QED
    BY <1>2, <1>7, <2>1 DEF InFlight, Finished
<1>8. NoCapacity'
  BY <1>2 DEF Quiet, NoCapacity
<1>9. Mounting'
  BY <1>1, <1>7 DEF Quiet, Mounting
<1>10. NoneBeside'
  BY <1>1, <1>2 DEF Quiet, NoneBeside, Proc
<1>11. MountsLast'
  <2>1. ASSUME NEW p \in Post, pc'[p] = "lock" PROVE LastOnly(lockQueue'[RepoOf[p]], p)
    <3>1. pc[p] = "lock" /\ RepoOf[p] \in Repo
      BY <1>7, <2>1 DEF InFlight, Finished
    <3>2. LastOnly(lockQueue[RepoOf[p]], p)
      BY <3>1 DEF Quiet, MountsLast
    <3>3. QED
      BY <1>3, <1>5, <1>6, <3>1, <3>2
  <2>2. ASSUME NEW p \in Post, pc'[p] \in {"activating", "cleaning"}
        PROVE  lockQueue'[RepoOf[p]] = <<>>
    <3>1. pc[p] \in {"activating", "cleaning"} /\ RepoOf[p] \in Repo
      BY <1>7, <2>2 DEF InFlight, Finished
    <3>2. lockQueue[RepoOf[p]] = <<>>
      BY <3>1 DEF Quiet, MountsLast
    <3>3. RepoOf[p] # RepoOf[x]
      BY <1>3, <1>4, <3>2 DEF Members
    <3>4. QED
      BY <1>6, <3>1, <3>2, <3>3
  <2>3. QED
    BY <2>1, <2>2 DEF MountsLast
<1>12. QED
  BY <1>8, <1>9, <1>10, <1>11 DEF Quiet

LEMMA OthersQuiet ==
  ASSUME Sound, Orderly, Quiet, Undisturbed, NEW x \in Call \cup Run,
         \/ x \in Call /\ (CallBegin(x) \/ CallStep(x))
         \/ x \in Run /\ (QueueRun(x) \/ RunStep(x))
  PROVE  Quiet'
<1>0. x \in Proc /\ x \notin Post /\ RepoOf[x] \in Repo /\ TypeOK
  BY RequestsAssumption DEF Proc, Sound
<1>1. ASSUME NEW w \in {"done", "queued"}, MoveTo(x, w), UNCHANGED <<row, fuse, lockQueue>>
      PROVE  Quiet'
  <2>1. pc'[x] = w /\ \A y \in Proc : y # x => pc'[y] = pc[y]
    BY <1>0, <1>1 DEF MoveTo, Sound, TypeOK
  <2>2. \A p \in Post : InFlight(p)' => InFlight(p)
    BY <1>0, <2>1 DEF InFlight, Finished, Proc
  <2>3. \A y \in Proc : pc'[y] # "capacity"
    BY <2>1 DEF Quiet, NoCapacity
  <2>4. \A y \in Proc :
        /\ pc'[y] = "lock" => pc[y] = "lock"
        /\ pc'[y] \in {"activating", "cleaning"} => pc[y] \in {"activating", "cleaning"}
    BY <2>1
  <2>5. QED
    BY <1>1, <2>2, <2>3, <2>4, QuietKept
<1>2. CASE CallBegin(x)
  <2>1. CASE Blocks(RepoOf[x])
    BY <1>1, <1>2, <2>1 DEF CallBegin
  <2>2. CASE ~Blocks(RepoOf[x])
    <3>1. row' = MarkStale({RepoOf[x]}) /\ EnterLocks(x) /\ fuse' = fuse
      BY <1>2, <2>2 DEF CallBegin
    <3>2. MoveTo(x, "lock") /\ Enqueue(x)
      BY <3>1 DEF EnterLocks, Undisturbed
    <3>3. \A r \in Repo : Blocks(r) => row'[r] = row[r]
      BY <1>0, <3>1, StaleMarked
    <3>4. QED
      BY <2>2, <3>1, <3>2, <3>3, JoinsQuietly
  <2>3. QED
    BY <2>1, <2>2
<1>3. CASE GetCapacity(x)
  BY <1>0, <1>3 DEF GetCapacity, Quiet, NoCapacity
<1>4. CASE Finish(x)
  BY <1>4, FinishQuiet
<1>5. CASE QueueRun(x)
  BY <1>1, <1>5 DEF QueueRun
<1>6. CASE Claim(x)
  <2>1. /\ ~Blocks(RepoOf[x]) /\ row' = MarkStale(Repo) /\ MoveTo(x, "lock") /\ Enqueue(x)
        /\ fuse' = fuse
    BY <1>6 DEF Claim
  <2>2. \A r \in Repo : Blocks(r) => row'[r] = row[r]
    BY <1>0, <2>1, StaleMarked
  <2>3. QED
    BY <2>1, <2>2, JoinsQuietly
<1>7. QED
  BY <1>2, <1>3, <1>4, <1>5, <1>6 DEF CallStep, RunStep

LEMMA WorldQuiet ==
  ASSUME Sound, Orderly, Quiet, Undisturbed,
         (\E r \in Repo : ListRow(r)) \/ (\E m \in fuse : MountLost(m)) \/ Restart
  PROVE  Quiet'
<1>0. TypeOK
  BY DEF Sound
<1>1. CASE \E r \in Repo : ListRow(r)
  <2>1. PICK r \in Repo : ListRow(r)
    BY <1>1
  <2>2. /\ UNCHANGED <<cond, fuse, pc, entry, appeared, lockQueue>>
        /\ \A q \in Repo : row'[q] # row[q] /\ row[q].status = "mounting" => cond.slow
    BY <1>0, <2>1, ListRowIs
  <2>3. ASSUME NEW p \in Post, InFlight(p)'
        PROVE  InFlight(p) /\ row'[RepoOf[p]].status = row[RepoOf[p]].status
    <3>1. InFlight(p)
      BY <2>2, <2>3 DEF InFlight, Finished
    <3>2. RepoOf[p] \in Repo /\ row[RepoOf[p]].status = "mounting"
      BY <3>1, PostBlocks
    <3>3. row'[RepoOf[p]] = row[RepoOf[p]]
      BY <2>2, <3>2 DEF Undisturbed
    <3>4. QED
      BY <3>1, <3>3
  <2>4. \A y \in Proc : pc'[y] = pc[y] /\ pc'[y] # "capacity"
    BY <2>2 DEF Quiet, NoCapacity
  <2>5. QED
    BY <2>2, <2>3, <2>4, QuietKept
<1>2. CASE \E m \in fuse : MountLost(m)
  <2>1. fuse' \subseteq fuse /\ UNCHANGED <<row, pc, lockQueue>>
    BY <1>2 DEF MountLost
  <2>2. \A y \in Proc : pc'[y] = pc[y] /\ pc'[y] # "capacity"
    BY <2>1 DEF Quiet, NoCapacity
  <2>3. \A p \in Post : InFlight(p)' => InFlight(p)
    BY <2>1 DEF InFlight, Finished
  <2>4. QED
    BY <2>1, <2>2, <2>3, QuietKept
<1>3. CASE Restart
  <2>1. /\ fuse' \subseteq fuse
        /\ \A y \in Proc : pc'[y] = IF InFlight(y) THEN "done" ELSE pc[y]
    BY <1>0, <1>3, RestartIs
  <2>2. \A y \in Proc : pc'[y] \in {"new", "done", "cancelled"}
    BY <2>1 DEF InFlight, Finished
  <2>3. \A p \in Post : ~InFlight(p)'
    BY <2>2 DEF InFlight, Finished, Proc
  <2>4. QED
    BY <2>1, <2>2, <2>3, QuietKept
<1>4. QED
  BY <1>1, <1>2, <1>3

LEMMA QuietStep ==
  ASSUME Sound, Orderly, Quiet, Undisturbed, [Next]_vars
  PROVE  Quiet'
<1>1. CASE \E p \in Post : PostBegin(p) \/ PostKeeps(p) \/ MountAppears(p) \/ PostStep(p)
  BY <1>1, PostQuiet
<1>2. CASE \E d \in Delete : DeleteBegin(d) \/ DeleteStep(d)
  BY <1>2, DeleteQuiet
<1>3. CASE \E c \in Call : CallBegin(c) \/ CallStep(c)
  BY <1>3, OthersQuiet
<1>4. CASE \E x \in Run : QueueRun(x) \/ RunStep(x)
  BY <1>4, OthersQuiet
<1>5. CASE (\E r \in Repo : ListRow(r)) \/ (\E m \in fuse : MountLost(m)) \/ Restart
  BY <1>5, WorldQuiet
<1>6. CASE UNCHANGED vars
  BY <1>6 DEF vars, Quiet, NoCapacity, Mounting, MountsLast, NoneBeside, InFlight, Finished
<1>7. QED
  BY <1>1, <1>2, <1>3, <1>4, <1>5, <1>6 DEF Next

-----------------------------------------------------------------------------
LEMMA CondStays ==
  ASSUME [Next]_vars PROVE cond' = cond
  BY DEF Next, vars, PostBegin, PostKeeps, MountAppears, PostStep, GetCapacity, CommandEnds,
    PostCancelled, PostActive, PostTimeout, PostCleaned, DeleteBegin, DeleteStep, Unmounted,
    DeleteFails, DeleteEnds, CallBegin, CallStep, Finish, QueueRun, RunStep, Claim, ListRow,
    MountLost, Restart

(***************************************************************************)
(* The inductive invariant holds in every reachable state, of any number   *)
(* of repositories and requests, under any condition.                      *)
(***************************************************************************)
THEOREM MountInvariant == Spec => []MountInv
<1>1. MountInv /\ [Next]_vars => MountInv'
  <2> SUFFICES ASSUME MountInv, [Next]_vars PROVE MountInv'
    OBVIOUS
  <2>1. Sound /\ Sound'
    BY SoundStep DEF MountInv
  <2>2. OneByOne' = OneByOne /\ Undisturbed' = Undisturbed
    BY CondStays DEF OneByOne, Undisturbed
  <2>3. OneByOne => Orderly /\ Orderly'
    BY <2>1, OrderlyStep DEF MountInv
  <2>4. Undisturbed => Quiet'
    <3>1. Undisturbed => OneByOne
      BY DEF Undisturbed
    <3>2. QED
      BY <2>1, <2>3, <3>1, QuietStep DEF MountInv
  <2>5. QED
    BY <2>1, <2>2, <2>3, <2>4 DEF MountInv
<1>2. QED
  BY InitEstablishes, <1>1, PTL DEF Spec

(***************************************************************************)
(* Every active mount has its row (app/main.py:3526-3822): with the types, *)
(* however requests interleave, and with the rows when they come one by    *)
(* one and no unmount of a failed mount fails.                             *)
(***************************************************************************)
THEOREM RowsCoverMounts == Spec => []MountsHaveRows
<1>1. MountInv => MountsHaveRows
  <2> SUFFICES ASSUME MountInv PROVE MountsHaveRows
    OBVIOUS
  <2>1. TypeOK
    BY DEF MountInv, Sound
  <2>2. ASSUME OneByOne, NEW m \in fuse PROVE HasRow(m[1]) /\ RowPath(m[1]) = m
    <3>1. m \in Repo \X Archive /\ HasRow(m[1]) /\ row[m[1]].archive = m[2]
      BY <2>1, <2>2 DEF MountInv, Orderly, FuseMatches, TypeOK
    <3>2. QED
      BY <3>1 DEF RowPath
  <2>3. QED
    BY <2>1, <2>2 DEF MountsHaveRows
<1>2. QED
  BY MountInvariant, <1>1, PTL

(***************************************************************************)
(* No Borg command of a run or of an interactive call executes on a        *)
(* repository with an active mount (app/service.py): the check before the  *)
(* lock suffices, because whoever passed it is ahead of the mount command  *)
(* in the repository's queue, and nobody passes it after the row is there. *)
(***************************************************************************)
THEOREM NothingBesideMounts == Spec => []NoBorgBesideMount
<1>1. MountInv => NoBorgBesideMount
  BY DEF MountInv, Quiet, NoneBeside, NoBorgBesideMount, Executing
<1>2. QED
  BY MountInvariant, <1>1, PTL
=============================================================================
