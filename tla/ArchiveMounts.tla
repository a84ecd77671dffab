---------------------------- MODULE ArchiveMounts ----------------------------
(***************************************************************************)
(* Archive mounts of BorgBackup Manager (app/main.py:950-962, 3526-3822)   *)
(* beside the persisted runs and the interactive Borg calls of the same    *)
(* repository (app/service.py).                                            *)
(*                                                                         *)
(* Three things describe one mount: its row in manager_archive_mounts, the *)
(* FUSE entry of the kernel, and the request that is working on it.  The   *)
(* planner and execute_interactive decide by the row and by the FUSE entry *)
(* of the path the row names; a FUSE entry without a row is invisible.     *)
(*                                                                         *)
(* Requests run on the event loop; each action is the code between two     *)
(* suspensions.  Borg commands of a repository run one after the other     *)
(* under its FIFO lock, except the unmount command, which takes no lock.   *)
(***************************************************************************)
EXTENDS Integers, Sequences, FiniteSets

CONSTANTS
  Repo,                \* managed repositories
  Archive,             \* archives
  Post,                \* requests to mount an archive
  Delete,              \* requests to unmount one
  Call,                \* calls of execute_interactive for other commands
  Run,                 \* persisted runs that use a repository
  RepoOf, ArchiveOf,   \* what each request is about
  NoRow, NoEntry,
  Conditions           \* what behaviours are considered, one of which is chosen

(***************************************************************************)
(* A condition names the repositories on a filesystem with a parallel limit,*)
(* the requests that come, whether mount and unmount requests overlap in   *)
(* time, whether a transition may last more than 30 seconds, whether the   *)
(* unmount of a failed POST may fail, and whether the manager restarts.    *)
(***************************************************************************)

Proc == Post \cup Delete \cup Call \cup Run

ASSUME RequestsAssumption ==
  /\ RepoOf \in [Post \cup Call \cup Run -> Repo]
  /\ ArchiveOf \in [Post -> Archive]
  /\ IsFiniteSet(Post)
  /\ Post \cap (Delete \cup Call \cup Run) = {} /\ Delete \cap (Call \cup Run) = {} /\ Call \cap Run = {}
ASSUME ConditionsAssumption ==
  Conditions \subseteq [limited : SUBSET Repo, requests : SUBSET Proc, overlap : BOOLEAN,
                        slow : BOOLEAN, cleanupFails : BOOLEAN, restarts : BOOLEAN]

VARIABLES
  cond,                \* the condition of the behaviour
  row,                 \* each repository's row, unique by constraint, or NoRow
  fuse,                \* active FUSE mounts
  pc,                  \* where each request is
  entry,               \* row id, repository and archive a request works on
  appeared,            \* mount commands whose FUSE entry has appeared
  lockQueue            \* holder and waiters of each repository lock

vars == <<cond, row, fuse, pc, entry, appeared, lockQueue>>

RowStatus == {"mounting", "mounted", "unmounting", "error", "stale"}
Id == 1..(Cardinality(Post) + 1)
Row == [id : Id, archive : Archive, status : RowStatus]
Entry == [id : Id, repo : Repo, archive : Archive]
ASSUME NoRowAssumption == NoRow \notin Row
PC == {"new", "queued", "capacity", "lock", "activating", "cleaning",
       "unmounting", "unmounted", "cancelled", "done"}

-----------------------------------------------------------------------------
Finished(x) == pc[x] \in {"done", "cancelled"}
InFlight(x) == pc[x] # "new" /\ ~Finished(x)

RowPath(r) == <<r, row[r].archive>>
EntryPath(x) == <<entry[x].repo, entry[x].archive>>
HasRow(r) == row[r] # NoRow

\* archive_mount_is_active for the path a row names.
RowActive(r) == HasRow(r) /\ RowPath(r) \in fuse

\* Mutant: the status alone decides, as it does not know of failed unmounts.
BlocksByStatus(r) == HasRow(r) /\ row[r].status # "stale"

\* A row that is being mounted or whose path is active blocks its repository.
Blocks(r) == HasRow(r) /\ (row[r].status = "mounting" \/ RowActive(r))

\* The repository whose row carries the id of request x, if any.
RowsOf(x) == {r \in Repo : HasRow(r) /\ row[r].id = entry[x].id}

SetStatus(R, s) == [r \in Repo |-> IF r \in R THEN [row[r] EXCEPT !.status = s] ELSE row[r]]
DropRows(R) == [r \in Repo |-> IF r \in R THEN NoRow ELSE row[r]]

\* Rows that block nothing are marked stale where the planner meets them.
MarkStale(R) == SetStatus({r \in R : HasRow(r) /\ ~Blocks(r)}, "stale")

\* SQLite gives out the largest id in use plus one, so ids come back.
NewId(r) ==
  CHOOSE n \in Id :
    /\ \A s \in Repo \ {r} : HasRow(s) => row[s].id < n
    /\ n = 1 \/ \E s \in Repo \ {r} : HasRow(s) /\ row[s].id = n - 1

-----------------------------------------------------------------------------
(* The repository lock: a FIFO limiter with one slot.                      *)

Executing(x) ==
  /\ pc[x] = "lock"
  /\ Head(lockQueue[RepoOf[x]]) = x

Enqueue(x) == lockQueue' = [lockQueue EXCEPT ![RepoOf[x]] = Append(@, x)]
Dequeue(x) == lockQueue' = [lockQueue EXCEPT ![RepoOf[x]] = Tail(@)]
MoveTo(x, where) == pc' = [pc EXCEPT ![x] = where]

\* execute_interactive up to its first suspension: the waiters for a limited
\* filesystem queue up anew every 0.25 s and so are served in any order.
EnterLocks(x) ==
  IF RepoOf[x] \in cond.limited
  THEN MoveTo(x, "capacity") /\ UNCHANGED lockQueue
  ELSE MoveTo(x, "lock") /\ Enqueue(x)

GetCapacity(x) ==
  /\ pc[x] = "capacity"
  /\ MoveTo(x, "lock") /\ Enqueue(x)
  /\ UNCHANGED <<cond, row, fuse, entry, appeared>>

-----------------------------------------------------------------------------
Init ==
  /\ cond \in Conditions
  /\ row = [r \in Repo |-> NoRow]
  /\ fuse = {}
  /\ pc = [x \in Proc |-> IF x \in cond.requests THEN "new" ELSE "done"]
  /\ entry = [x \in Post \cup Delete |-> NoEntry]
  /\ appeared = {}
  /\ lockQueue = [r \in Repo |-> <<>>]

MayBegin == cond.overlap \/ \A x \in Post \cup Delete : ~InFlight(x)

RunActive(r) == \E x \in Run : RepoOf[x] = r /\ InFlight(x)

(***************************************************************************)
(* create_manager_archive_mount up to its Borg command.  A row whose path  *)
(* is not active is taken for a leftover and replaced.                     *)
(***************************************************************************)
PostBegin(p) ==
  /\ pc[p] = "new" /\ MayBegin
  /\ LET r == RepoOf[p] IN
     /\ ~RunActive(r)
     /\ ~RowActive(r)
     /\ row' = [row EXCEPT ![r] = [id |-> NewId(r), archive |-> ArchiveOf[p], status |-> "mounting"]]
     /\ entry' = [entry EXCEPT ![p] = [id |-> NewId(r), repo |-> r, archive |-> ArchiveOf[p]]]
  /\ EnterLocks(p)
  /\ UNCHANGED <<cond, fuse, appeared>>

\* An active mount of the repository is returned or refused.
PostKeeps(p) ==
  /\ pc[p] = "new" /\ MayBegin
  /\ RowActive(RepoOf[p]) /\ ~RunActive(RepoOf[p])
  /\ MoveTo(p, "done")
  /\ UNCHANGED <<cond, row, fuse, entry, appeared, lockQueue>>

\* Borg's FUSE process mounts while its command runs or shortly after it.
MountAppears(p) ==
  /\ Executing(p) \/ pc[p] = "activating"
  /\ p \notin appeared
  /\ fuse' = fuse \cup {EntryPath(p)}
  /\ appeared' = appeared \cup {p}
  /\ UNCHANGED <<cond, row, pc, entry, lockQueue>>

\* Mutant: a failed POST does not unmount.
PostFailsWithoutUnmount(p) == MoveTo(p, "done") /\ row' = DropRows(RowsOf(p))

\* except Exception: an active path is unmounted first; then the row goes.
PostFails(p) ==
  IF EntryPath(p) \in fuse
  THEN MoveTo(p, "cleaning") /\ UNCHANGED row
  ELSE MoveTo(p, "done") /\ row' = DropRows(RowsOf(p))

CommandEnds(p) ==
  /\ Executing(p)
  /\ \/ MoveTo(p, "activating") /\ UNCHANGED row
     \/ PostFails(p)
  /\ Dequeue(p)
  /\ UNCHANGED <<cond, fuse, entry, appeared>>

(***************************************************************************)
(* wait_for_archive_mount_activation and what follows it.                  *)
(***************************************************************************)
CancelSeen(p) ==
  \/ RowsOf(p) = {}
  \/ \E r \in RowsOf(p) : row[r].status \in {"unmounting", "stale"}

PostCancelled(p) ==
  /\ pc[p] = "activating" /\ CancelSeen(p)
  /\ MoveTo(p, "cancelled")
  /\ UNCHANGED <<cond, row, fuse, entry, appeared, lockQueue>>

PostActive(p) ==
  /\ pc[p] = "activating" /\ ~CancelSeen(p)
  /\ EntryPath(p) \in fuse
  /\ row' = SetStatus(RowsOf(p), "mounted")
  /\ MoveTo(p, "done")
  /\ UNCHANGED <<cond, fuse, entry, appeared, lockQueue>>

\* The mount did not become active within 15 s.
PostTimeout(p) ==
  /\ pc[p] = "activating" /\ ~CancelSeen(p)
  /\ EntryPath(p) \notin fuse
  /\ PostFails(p)
  /\ UNCHANGED <<cond, fuse, entry, appeared, lockQueue>>

\* Mutant: the row of a failed mount is kept.
PostCleanedKeepsRow(p) ==
  /\ pc[p] = "cleaning"
  /\ fuse' = fuse \ {EntryPath(p)}
  /\ MoveTo(p, "done")
  /\ UNCHANGED <<cond, row, entry, appeared, lockQueue>>

PostCleaned(p) ==
  /\ pc[p] = "cleaning"
  /\ fuse' = fuse \ {EntryPath(p)} \/ (cond.cleanupFails /\ UNCHANGED fuse)
  /\ row' = DropRows(RowsOf(p))
  /\ MoveTo(p, "done")
  /\ UNCHANGED <<cond, entry, appeared, lockQueue>>

-----------------------------------------------------------------------------
(* delete_manager_archive_mount.                                           *)

DeleteBegin(d) ==
  /\ pc[d] = "new" /\ MayBegin
  /\ \E r \in Repo :
       /\ HasRow(r) /\ row[r].status # "unmounting"
       /\ entry' = [entry EXCEPT ![d] = [id |-> row[r].id, repo |-> r, archive |-> row[r].archive]]
       /\ IF RowActive(r)
          THEN row' = SetStatus({r}, "unmounting") /\ MoveTo(d, "unmounting")
          ELSE row' = DropRows({r}) /\ MoveTo(d, "done")
  /\ UNCHANGED <<cond, fuse, appeared, lockQueue>>

Unmounted(d) ==
  /\ pc[d] = "unmounting"
  /\ fuse' = fuse \ {EntryPath(d)}
  /\ MoveTo(d, "unmounted")
  /\ UNCHANGED <<cond, row, entry, appeared, lockQueue>>

\* archive_unmount_incident: the command failed or ran into its time limit,
\* with or without effect, or the path is active again afterwards.
DeleteFails(d) ==
  /\ \/ pc[d] = "unmounting" /\ fuse' \in {fuse, fuse \ {EntryPath(d)}}
     \/ pc[d] = "unmounted" /\ EntryPath(d) \in fuse /\ UNCHANGED fuse
  /\ row' = SetStatus(RowsOf(d), "error")
  /\ MoveTo(d, "done")
  /\ UNCHANGED <<cond, entry, appeared, lockQueue>>

DeleteEnds(d) ==
  /\ pc[d] = "unmounted" /\ EntryPath(d) \notin fuse
  /\ row' = DropRows(RowsOf(d))
  /\ MoveTo(d, "done")
  /\ UNCHANGED <<cond, fuse, entry, appeared, lockQueue>>

-----------------------------------------------------------------------------
(* Runs and interactive calls.                                             *)

QueueRun(x) ==
  /\ pc[x] = "new" /\ MoveTo(x, "queued")
  /\ UNCHANGED <<cond, row, fuse, entry, appeared, lockQueue>>

\* _claim_execution_turn, reduced to the repository and its mount.
Claim(x) ==
  /\ pc[x] = "queued"
  /\ ~Blocks(RepoOf[x])
  /\ \A y \in Run : RepoOf[y] = RepoOf[x] => pc[y] # "lock"
  /\ row' = MarkStale(Repo)
  /\ MoveTo(x, "lock") /\ Enqueue(x)
  /\ UNCHANGED <<cond, fuse, entry, appeared>>

\* Mutant: interactive calls ignore archive mounts.
CallBeginAnytime(c) ==
  /\ pc[c] = "new" /\ EnterLocks(c)
  /\ UNCHANGED <<cond, row, fuse, entry, appeared>>

\* execute_interactive looks for a mount before it waits for anything.
CallBegin(c) ==
  /\ pc[c] = "new"
  /\ IF Blocks(RepoOf[c])
     THEN MoveTo(c, "done") /\ UNCHANGED <<cond, row, lockQueue>>
     ELSE row' = MarkStale({RepoOf[c]}) /\ EnterLocks(c)
  /\ UNCHANGED <<cond, fuse, entry, appeared>>

Finish(x) ==
  /\ Executing(x)
  /\ MoveTo(x, "done") /\ Dequeue(x)
  /\ UNCHANGED <<cond, row, fuse, entry, appeared>>

-----------------------------------------------------------------------------
\* A FUSE process ends by itself, or somebody unmounts the path by hand.
MountLost(m) ==
  /\ fuse' = fuse \ {m}
  /\ UNCHANGED <<cond, row, pc, entry, appeared, lockQueue>>

\* list_manager_archive_mounts corrects one row; transitions of less than
\* 30 seconds are left to the request that makes them.
ListRow(r) ==
  /\ HasRow(r)
  /\ LET s == row[r].status IN
     \/ RowActive(r) /\ (s = "stale" \/ (s = "mounting" /\ cond.slow)) /\ row' = SetStatus({r}, "mounted")
     \/ ~RowActive(r) /\ (s = "mounted" \/ (s \in {"mounting", "unmounting"} /\ cond.slow))
        /\ row' = SetStatus({r}, "stale")
  /\ UNCHANGED <<cond, fuse, pc, entry, appeared, lockQueue>>

\* The process dies and reconcile_manager_archive_mounts runs at its start.
Restart ==
  /\ cond.restarts
  /\ fuse' \in SUBSET fuse
  /\ row' = [r \in Repo |->
       IF HasRow(r) /\ RowPath(r) \in fuse' THEN [row[r] EXCEPT !.status = "mounted"] ELSE NoRow]
  /\ pc' = [x \in Proc |-> IF InFlight(x) THEN "done" ELSE pc[x]]
  /\ lockQueue' = [r \in Repo |-> <<>>]
  /\ UNCHANGED <<cond, entry, appeared>>

PostStep(p) ==
  \/ GetCapacity(p) \/ CommandEnds(p) \/ PostCancelled(p) \/ PostActive(p)
  \/ PostTimeout(p) \/ PostCleaned(p)
DeleteStep(d) == Unmounted(d) \/ DeleteFails(d) \/ DeleteEnds(d)
CallStep(c) == GetCapacity(c) \/ Finish(c)
RunStep(x) == Claim(x) \/ Finish(x)

Next ==
  \/ \E p \in Post : PostBegin(p) \/ PostKeeps(p) \/ MountAppears(p) \/ PostStep(p)
  \/ \E d \in Delete : DeleteBegin(d) \/ DeleteStep(d)
  \/ \E c \in Call : CallBegin(c) \/ CallStep(c)
  \/ \E x \in Run : QueueRun(x) \/ RunStep(x)
  \/ \E r \in Repo : ListRow(r)
  \/ \E m \in fuse : MountLost(m)
  \/ Restart

Spec == Init /\ [][Next]_vars

(***************************************************************************)
(* Handlers are resumed, commands have a timeout and queued runs poll.     *)
(* Nobody is obliged to send a request or to look at the list of mounts.   *)
(***************************************************************************)
Fairness ==
  /\ \A p \in Post : WF_vars(PostStep(p))
  /\ \A d \in Delete : WF_vars(DeleteStep(d))
  /\ \A c \in Call : WF_vars(CallStep(c))
  /\ \A x \in Run : WF_vars(RunStep(x))

FairSpec == Spec /\ Fairness

-----------------------------------------------------------------------------
TypeOK ==
  /\ cond \in Conditions
  /\ row \in [Repo -> Row \cup {NoRow}]
  /\ \A r, s \in Repo : HasRow(r) /\ HasRow(s) /\ row[r].id = row[s].id => r = s
  /\ fuse \subseteq Repo \X Archive
  /\ pc \in [Proc -> PC]
  /\ entry \in [Post \cup Delete -> Entry \cup {NoEntry}]
  /\ appeared \subseteq Post
  /\ lockQueue \in [Repo -> Seq(Post \cup Call \cup Run)]

(***************************************************************************)
(* Every active FUSE mount has its row, without which neither the planner  *)
(* nor the user knows of it: no failure, restart or correction of rows     *)
(* forgets a mount, as long as requests come one by one and the unmount of *)
(* a failed one works.  A repository has one row, so at most one mount is  *)
(* active per repository (README.md:343).  Stated with the types, among    *)
(* them that two rows never share an id.                                   *)
(***************************************************************************)
OneByOne == ~cond.overlap /\ ~cond.cleanupFails

MountsHaveRows ==
  /\ TypeOK
  /\ OneByOne => \A m \in fuse : HasRow(m[1]) /\ RowPath(m[1]) = m

(***************************************************************************)
(* Neither a persisted run nor an interactive call executes Borg on a      *)
(* repository with an active mount, although the mount is only checked     *)
(* when the run is admitted or the call begins, and the lock is acquired   *)
(* after that.  Beside one by one, no transition lasts so long that the    *)
(* list of mounts ends it, and nobody waits for a limited filesystem.      *)
(***************************************************************************)
Undisturbed == OneByOne /\ ~cond.slow /\ cond.limited = {}

NoBorgBesideMount ==
  Undisturbed => \A q \in Run \cup Call, m \in fuse : Executing(q) => m[1] # RepoOf[q]

(***************************************************************************)
(* However requests overlap, a row does not stay in a transition: the      *)
(* request that began it, or one that took it over, ends it.               *)
(***************************************************************************)
InTransition(r) == HasRow(r) /\ row[r].status \in {"mounting", "unmounting"}

TransitionsEnd == \A r \in Repo : InTransition(r) ~> ~InTransition(r)

(***************************************************************************)
(* A queued run starts unless an archive of its repository is mounted: no  *)
(* leftover row and no lost request blocks it for ever.                    *)
(***************************************************************************)
RunsStart ==
  \A x \in Run :
    pc[x] = "queued" ~> (pc[x] # "queued" \/ \E m \in fuse : m[1] = RepoOf[x])
=============================================================================
