------------------------------ MODULE ClientCaches ------------------------------
(***************************************************************************)
(* Borg's local state on the devices and on the manager: the caches kept    *)
(* for the manager's repositories, copies of caches that a restore replaced,*)
(* the security directories of Borg and other caches of Borg                *)
(* (app/client_cache.py, app/manager_cache.py, app/runner.py:1211-1830,     *)
(* app/backups.py:1094-1263, app/main.py:4390-4455).                        *)
(*                                                                         *)
(* Administrators clean up and restore this state through shell scripts     *)
(* that run on the device over SSH.  A request reads the database once,     *)
(* scans the device where its kind asks for it, and then has entries        *)
(* deleted; jobs, devices and runs change in between.                       *)
(***************************************************************************)
EXTENDS Integers, FiniteSets

CONSTANTS
  Host, Manager,       \* devices, and the manager itself
  Repo, Borg,          \* repository records, Borg's repository ids
  Location,            \* where repositories are or were
  BorgOf, LocationOf,  \* of every record
  Managed,             \* records whose repository is in the manager's storage
  Req,                 \* requests
  Offered,             \* kinds each request may be of
  Registered,          \* requests whose cache backup is a task of the registry;
                       \* create_cache_backup_sync has none
  Selections,          \* sets of entries a user selects, by the kind of clean up
  Assigned,            \* jobs and records at first
  Locals,              \* local states at first
  Artifacts,           \* entries of cache backups at first
  Changes,             \* bound on the changes of jobs and devices
  Writes               \* bound on the runs that write local state

None == "none"
NoCache == [borg |-> None, data |-> None]
NoState == [loc |-> None, stamp |-> -1]
\* What a place holds: of earlier times, written by a run, or put back.
CacheDir == {NoCache} \cup [borg : Borg \cup {None}, data : {"old", "run", "saved"}]
SecurityState == [loc : Location \cup {None}, stamp : Int]
ClientCleanups == {"orphan", "rollback", "security", "security_orphan", "user_cache", "reset"}
ManagerCleanups == {"manager_cache", "manager_security", "manager_legacy"}
Cleanups == ClientCleanups \cup ManagerCleanups
Kinds == Cleanups \cup {"collect", "restore"}
Node == Host \cup {Manager}
Place == Node \X Repo

ASSUME ConstantAssumption ==
  /\ Manager \notin Host /\ Managed \subseteq Repo
  /\ Repo \subseteq Nat /\ None \notin Borg \cup Host \cup Req
  /\ IsFiniteSet(Borg) /\ None \notin Location
  /\ BorgOf \in [Repo -> Borg] /\ LocationOf \in [Repo -> Location]
  /\ Offered \in [Req -> SUBSET Kinds] /\ Registered \subseteq Req
  /\ Changes \in Nat /\ Writes \in Nat
  /\ Assigned \subseteq Place
  /\ Locals \subseteq [Node -> [cache : [Repo -> CacheDir], security : [Borg -> SecurityState],
                                legacy : SUBSET Borg]]
  /\ Artifacts \subseteq [repo : Repo, cache : CacheDir \ {NoCache},
                          states : SUBSET (Borg \X SecurityState)]

VARIABLES
  jobs,                \* pairs of a device and a repository with a job, and of
                       \* the manager and a record that exists
  enabled,             \* enabled devices
  active,              \* runs that are queued or running, as pairs
  cache,               \* repository-<id> of a place: borg (its config), data
  copies,              \* repository-<id>.pre-bbm-restore-<time> of a place
  security,            \* security directories of a device: loc, stamp
  legacy,              \* caches of Borg outside of the manager
  artifacts,           \* saved entries of cache backups
  changes, writes,     \* bounded counters
  kind, at,            \* of every request
  req                  \* its local variables

database == <<jobs, enabled>>
disk == <<cache, copies, security, legacy>>
cachesVars == <<database, active, disk, artifacts, changes, writes, kind, at, req>>

NoReq == [place |-> <<>>, names |-> {}, assigned |-> {}, seen |-> <<>>, saved |-> NoCache,
          states |-> {}, moved |-> NoCache]
Goto(q, where) == at' = [at EXCEPT ![q] = where]
Idle == {"new", "done", "interrupted"}

-----------------------------------------------------------------------------
(* The scan of a device and what _parse_scan_output makes of it.  An entry *)
(* that is no regular directory is never selectable and left out here.     *)

AssignedOf(h) == {r \in Repo : <<h, r>> \in jobs}
View(h) == [node |-> h, known |-> AssignedOf(Manager),
            cache |-> [r \in Repo |-> cache[<<h, r>>]], copies |-> [r \in Repo |-> copies[<<h, r>>]],
            security |-> security[h], legacy |-> legacy[h]]

\* The Borg ids that the caches name; the manager also reads the configs of the
\* repositories it stores.
IdsOf(view, R) == {view.cache[r].borg : r \in R} \ {None}
ActiveIds(view, assigned) ==
  IdsOf(view, assigned)
    \cup {BorgOf[r] : r \in IF view.node = Manager THEN assigned \cap Managed ELSE {}}
OrphanIds(view, assigned) == IdsOf(view, Repo \ assigned) \ ActiveIds(view, assigned)
Locations(R) == {LocationOf[r] : r \in R}
Secured(view) == {b \in Borg : view.security[b] # NoState}

Classified(view, assigned, b) ==
  LET l == view.security[b].loc IN
  IF b \in ActiveIds(view, assigned) \/ l \in Locations(assigned) THEN "security_active"
  ELSE IF b \in OrphanIds(view, assigned) \/ l \in Locations(view.known) THEN "security_orphan"
  ELSE "security_unknown"

\* Mutant: the newer of two states of one location wins over the cache.
OlderUnprotected(view, assigned, b) ==
  LET group == {d \in Secured(view) : /\ view.security[d].loc = view.security[b].loc
                                      /\ view.security[d].loc # None
                                      /\ view.security[d].stamp > 0}
      newest == {d \in group : \A e \in group : view.security[e].stamp <= view.security[d].stamp}
  IN /\ b \in group \ newest /\ Cardinality(newest) = 1

\* Of several dated states of one location only the newest counts, if there is
\* one; what the cache of an assigned repository names stays protected.
Older(view, assigned, b) ==
  LET group == {d \in Secured(view) : /\ view.security[d].loc = view.security[b].loc
                                      /\ view.security[d].loc # None
                                      /\ view.security[d].stamp > 0}
      newest == {d \in group : \A e \in group : view.security[e].stamp <= view.security[d].stamp}
  IN /\ b \in group \ newest /\ Cardinality(newest) = 1
     /\ b \notin ActiveIds(view, assigned)

SecurityKind(view, assigned, b) ==
  IF Older(view, assigned, b) THEN "security_duplicate_old" ELSE Classified(view, assigned, b)

Active(assigned, r) == r \in assigned

\* Mutant: what the user selected is deleted.
AllowedUnchecked(what, assigned, seen, n) == what # None

\* What may still be deleted, by the assignments that were read and, for some
\* kinds, by the scan that was just made.
Allowed(what, assigned, seen, n) ==
  CASE what = "orphan" -> ~Active(assigned, n)
    [] what = "rollback" -> TRUE
    [] what = "reset" -> Active(assigned, n) /\ seen.cache[n] # NoCache
    [] what = "security_orphan" ->
         n \in Secured(seen) /\ SecurityKind(seen, assigned, n) = "security_orphan"
    [] what = "security" ->
         n \in Secured(seen) /\ SecurityKind(seen, assigned, n) # "security_active"
    [] what = "user_cache" -> n \in seen.legacy
    [] what = "manager_cache" -> ~Active(assigned, n) /\ seen.cache[n] # NoCache
    [] what = "manager_security" ->
         n \in Secured(seen) /\ SecurityKind(seen, assigned, n) # "security_active"
    [] what = "manager_legacy" ->
         n \in seen.legacy /\ n \notin ActiveIds(seen, assigned)
           /\ (n \in Secured(seen) => seen.security[n].loc \notin Locations(assigned))

-----------------------------------------------------------------------------
CachesInit ==
  /\ jobs = Assigned /\ enabled = Node
  /\ active = {}
  /\ \E d \in Locals :
       /\ cache = [p \in Place |-> d[p[1]].cache[p[2]]]
       /\ security = [h \in Node |-> d[h].security]
       /\ legacy = [h \in Node |-> d[h].legacy]
  /\ copies = [p \in Place |-> {}]
  /\ artifacts = Artifacts
  /\ changes = 0 /\ writes = 0
  /\ kind = [q \in Req |-> None]
  /\ at = [q \in Req |-> "new"]
  /\ req = [q \in Req |-> NoReq]

Ask(q, what) ==
  /\ at[q] = "new" /\ what \in Offered[q]
  /\ kind' = [kind EXCEPT ![q] = what]

End(q) == Goto(q, "done") /\ req' = [req EXCEPT ![q] = NoReq]

-----------------------------------------------------------------------------
(* cleanup_client_borg_caches, one device at a time, and                   *)
(* cleanup_orphaned_manager_borg_data, one type of entry at a time.        *)

\* The checks of a reset come before everything: no active run and no cache
\* backup in the registry.  Then the assignments of all devices are read.  A
\* disabled device is skipped.
BeginCleanup(q, what, h, names) ==
  /\ Ask(q, what) /\ what \in Cleanups /\ h \in enabled
  /\ what \in ManagerCleanups <=> h = Manager
  /\ what = "reset" => active = {} /\ \A p \in Registered : kind[p] = "collect" => at[p] \in Idle
  /\ req' = [req EXCEPT ![q] = [NoReq EXCEPT !.place = <<h>>, !.names = names,
                                             !.assigned = AssignedOf(h)]]
  /\ Goto(q, IF what \in {"orphan", "rollback"} THEN "select" ELSE "scan")
  /\ UNCHANGED <<database, active, disk, artifacts, changes, writes>>

Rescan(q) ==
  /\ at[q] = "scan"
  /\ req' = [req EXCEPT ![q].seen = View(req[q].place[1])]
  /\ Goto(q, "select")
  /\ UNCHANGED <<database, active, disk, artifacts, changes, writes, kind>>

Select(q) ==
  LET safe == {n \in req[q].names : Allowed(kind[q], req[q].assigned, req[q].seen, n)} IN
  /\ at[q] = "select"
  /\ IF safe = {} THEN End(q)
     ELSE Goto(q, "delete") /\ req' = [req EXCEPT ![q].names = safe]
  /\ UNCHANGED <<database, active, disk, artifacts, changes, writes, kind>>

\* The scripts remove the directories that are still there, one by one: caches
\* or the copies of replaced ones, ...
DeleteCaches(q) ==
  LET chosen == {p \in Place : p[1] = req[q].place[1] /\ p[2] \in req[q].names} IN
  /\ at[q] = "delete" /\ kind[q] \in {"orphan", "reset", "manager_cache", "rollback"}
  /\ IF kind[q] = "rollback"
     THEN copies' = [p \in Place |-> IF p \in chosen THEN {} ELSE copies[p]] /\ UNCHANGED cache
     ELSE cache' = [p \in Place |-> IF p \in chosen THEN NoCache ELSE cache[p]] /\ UNCHANGED copies
  /\ End(q)
  /\ UNCHANGED <<database, active, security, legacy, artifacts, changes, writes, kind>>

\* ... security directories, ...
DeleteSecurity(q) ==
  /\ at[q] = "delete" /\ kind[q] \in {"security", "security_orphan", "manager_security"}
  /\ security' = [security EXCEPT ![req[q].place[1]] =
                    [b \in Borg |-> IF b \in req[q].names THEN NoState ELSE @[b]]]
  /\ End(q)
  /\ UNCHANGED <<database, active, cache, copies, legacy, artifacts, changes, writes, kind>>

\* ... or other caches of Borg.
DeleteUserCaches(q) ==
  /\ at[q] = "delete" /\ kind[q] \in {"user_cache", "manager_legacy"}
  /\ legacy' = [legacy EXCEPT ![req[q].place[1]] = @ \ req[q].names]
  /\ End(q)
  /\ UNCHANGED <<database, active, cache, copies, security, artifacts, changes, writes, kind>>

\* The scan, the login or the first removals fail.
CleanupFails(q) ==
  /\ at[q] \in {"scan", "delete"}
  /\ \/ End(q)
     \/ /\ at[q] = "delete" /\ Cardinality(req[q].names) > 1
        /\ \E n \in req[q].names : req' = [req EXCEPT ![q].names = @ \ {n}]
        /\ UNCHANGED at
  /\ UNCHANGED <<database, active, disk, artifacts, changes, writes, kind>>

-----------------------------------------------------------------------------
(* collect_client_borg_caches for one device and repository.               *)

BeginCollect(q, p) ==
  /\ Ask(q, "collect") /\ active = {} /\ p \in jobs /\ p[1] \in enabled \cap Host
  /\ req' = [req EXCEPT ![q] = [NoReq EXCEPT !.place = p]]
  /\ Goto(q, "stream")
  /\ UNCHANGED <<database, active, disk, artifacts, changes, writes>>

StreamCache(q) ==
  /\ at[q] = "stream"
  /\ req' = [req EXCEPT ![q].saved = cache[req[q].place]]
  /\ Goto(q, "stream-security")
  /\ UNCHANGED <<database, active, disk, artifacts, changes, writes, kind>>

\* The id that the cache names by now, else the only state of the location.
Resolved(h, r) ==
  LET found == {b \in Borg : security[h][b] # NoState /\ security[h][b].loc = LocationOf[r]}
      named == cache[<<h, r>>].borg
  IN IF named # None THEN {named} ELSE IF Cardinality(found) = 1 THEN found ELSE {}

\* An entry can be restored only if the cache itself was saved.
StreamSecurity(q) ==
  LET h == req[q].place[1] r == req[q].place[2] IN
  /\ at[q] = "stream-security"
  /\ artifacts' = IF req[q].saved = NoCache THEN artifacts
       ELSE artifacts \cup
              {[repo |-> r, cache |-> req[q].saved,
                states |-> {<<b, security[h][b]>> : b \in {d \in Resolved(h, r) : security[h][d] # NoState}}]}
  /\ End(q)
  /\ UNCHANGED <<database, active, disk, changes, writes, kind>>

CollectFails(q) ==
  /\ at[q] \in {"stream", "stream-security"}
  /\ End(q)
  /\ UNCHANGED <<database, active, disk, artifacts, changes, writes, kind>>

-----------------------------------------------------------------------------
(* restore_client_borg_cache_from_backup and the two scripts it runs.      *)

\* The entries of the backup that may be restored to a place: those of its
\* repository, from whichever device.
Restorable(p) == {entry \in artifacts : entry.repo = p[2]}

BeginRestore(q, p, entry) ==
  /\ Ask(q, "restore") /\ active = {} /\ p \in jobs /\ p[1] \in enabled \cap Host
  /\ req' = [req EXCEPT ![q] = [NoReq EXCEPT !.place = p, !.saved = entry.cache, !.states = entry.states]]
  /\ Goto(q, "unpack")
  /\ UNCHANGED <<database, active, disk, artifacts, changes, writes>>

Unpack(q) ==
  /\ at[q] = "unpack" /\ Goto(q, "move")
  /\ UNCHANGED <<database, active, disk, artifacts, changes, writes, kind, req>>

\* mv "$target" "$previous", if there is a target.
MoveOut(q) ==
  LET p == req[q].place IN
  /\ at[q] = "move"
  /\ copies' = [copies EXCEPT ![p] = @ \cup ({cache[p]} \ {NoCache})]
  /\ cache' = [cache EXCEPT ![p] = NoCache]
  /\ req' = [req EXCEPT ![q].moved = cache[p]]
  /\ Goto(q, "install")
  /\ UNCHANGED <<database, active, security, legacy, artifacts, changes, writes, kind>>

\* mv "$incoming" "$target".  Into a cache that a run has created meanwhile the
\* directory is moved as one more entry; the script succeeds.
Install(q) ==
  LET p == req[q].place IN
  /\ at[q] = "install"
  /\ cache' = [cache EXCEPT ![p] = IF @ = NoCache THEN req[q].saved ELSE @]
  /\ Goto(q, "installed")
  /\ UNCHANGED <<database, active, copies, security, legacy, artifacts, changes, writes, kind, req>>

\* Mutant: the target is cleared and nothing put back.
RollbackForgets(q) ==
  LET p == req[q].place IN
  /\ cache' = [cache EXCEPT ![p] = NoCache]
  /\ copies' = [copies EXCEPT ![p] = @ \ {req[q].moved}]

\* rollback(): the target goes, the copy returns.
Rollback(q) ==
  LET p == req[q].place m == req[q].moved IN
  IF m # NoCache /\ m \in copies[p]
  THEN /\ cache' = [cache EXCEPT ![p] = m]
       /\ copies' = [copies EXCEPT ![p] = @ \ {m}]
  ELSE /\ cache' = [cache EXCEPT ![p] = NoCache]
       /\ UNCHANGED copies

\* Unpacking fails, a copy bears the name of this second, or the last rename
\* fails.
RestoreFails(q) ==
  /\ \/ /\ at[q] = "unpack" \/ (at[q] = "move" /\ copies[req[q].place] # {})
        /\ UNCHANGED <<cache, copies>>
     \/ at[q] = "install" /\ Rollback(q)
  /\ End(q)
  /\ UNCHANGED <<database, active, security, legacy, artifacts, changes, writes, kind>>

\* HUP, INT or TERM: the trap rolls back and deletes the staging directory, and
\* the script goes on: what it does next fails, and the last rename then rolls
\* back once more.
Signal(q) ==
  LET p == req[q].place IN
  /\ at[q] \in {"unpack", "move", "install"}
  /\ cache' = [cache EXCEPT ![p] = NoCache]
  /\ copies' = [copies EXCEPT ![p] = @ \ {req[q].moved}]
  /\ Goto(q, "interrupted") /\ req' = [req EXCEPT ![q] = NoReq]
  /\ UNCHANGED <<database, active, security, legacy, artifacts, changes, writes, kind>>

\* The security state of the entry follows, if there is one: existing state is
\* kept, whatever its age.
RestoreSecurity(q) ==
  LET h == req[q].place[1] IN
  /\ at[q] = "installed"
  /\ \/ \E s \in req[q].states :
          /\ Goto(q, IF security[h][s[1]] # NoState THEN "done" ELSE "install-security")
          /\ req' = IF security[h][s[1]] # NoState THEN [req EXCEPT ![q] = NoReq] ELSE req
     \/ req[q].states = {} /\ End(q)
  /\ UNCHANGED <<database, active, disk, artifacts, changes, writes, kind>>

\* A state that a run has created since the look is a directory into which the
\* restored one is moved; Borg does not look at it there.
InstallSecurity(q) ==
  /\ at[q] = "install-security"
  /\ \E s \in req[q].states :
       security' = [security EXCEPT ![req[q].place[1]][s[1]] = IF @ = NoState THEN s[2] ELSE @]
  /\ End(q)
  /\ UNCHANGED <<database, active, cache, copies, legacy, artifacts, changes, writes, kind>>

SecurityFails(q) ==
  /\ at[q] \in {"installed", "install-security"}
  /\ End(q)
  /\ UNCHANGED <<database, active, disk, artifacts, changes, writes, kind>>

-----------------------------------------------------------------------------
(* Jobs, devices and runs.                                                 *)

ChangeJobs(p) ==
  /\ changes < Changes /\ changes' = changes + 1
  /\ jobs' = IF p \in jobs THEN jobs \ {p} ELSE jobs \cup {p}
  /\ UNCHANGED <<enabled, active, disk, artifacts, writes, kind, at, req>>

SwitchHost(h) ==
  /\ changes < Changes /\ changes' = changes + 1
  /\ enabled' = IF h \in enabled THEN enabled \ {h} ELSE enabled \cup {h}
  /\ UNCHANGED <<jobs, active, disk, artifacts, writes, kind, at, req>>

QueueRun(p) ==
  /\ writes < Writes /\ writes' = writes + 1
  /\ p \in jobs /\ p[1] \in enabled /\ active' = active \cup {p}
  /\ UNCHANGED <<database, disk, artifacts, changes, kind, at, req>>

\* Borg creates or updates both, as a fresh state of the repository.
RunEnds(p) ==
  LET h == p[1] b == BorgOf[p[2]] IN
  /\ p \in active /\ active' = active \ {p}
  /\ \/ /\ cache' = [cache EXCEPT ![p] = [borg |-> b, data |-> "run"]]
        /\ security' = [security EXCEPT ![h][b] =
                          [loc |-> LocationOf[p[2]], stamp |-> IF @ = NoState THEN 1 ELSE 2]]
     \/ UNCHANGED <<cache, security>>
  /\ UNCHANGED <<database, copies, legacy, artifacts, changes, writes, kind, at, req>>

-----------------------------------------------------------------------------
CleanupStep(q) == \/ Rescan(q) \/ Select(q) \/ DeleteCaches(q) \/ DeleteSecurity(q)
                  \/ DeleteUserCaches(q) \/ CleanupFails(q)
CollectStep(q) == StreamCache(q) \/ StreamSecurity(q) \/ CollectFails(q)
RestoreStep(q) == \/ Unpack(q) \/ MoveOut(q) \/ Install(q) \/ RestoreFails(q) \/ Signal(q)
                  \/ RestoreSecurity(q) \/ InstallSecurity(q) \/ SecurityFails(q)
Work(q) == CleanupStep(q) \/ CollectStep(q) \/ RestoreStep(q)

CachesNext ==
  \/ \E q \in Req :
       \/ Work(q)
       \/ \E what \in Cleanups, h \in Node : \E names \in Selections[what] :
            BeginCleanup(q, what, h, names)
       \/ \E p \in Place : BeginCollect(q, p)
       \/ \E p \in Place : \E entry \in Restorable(p) : BeginRestore(q, p, entry)
  \/ \E p \in Place : ChangeJobs(p) \/ QueueRun(p) \/ RunEnds(p)
  \/ \E h \in Host : SwitchHost(h)

CachesSpec == CachesInit /\ [][CachesNext]_cachesVars

-----------------------------------------------------------------------------
(* Properties.                                                             *)

Acts(q, what) == kind[q] \in what /\ at'[q] # at[q]

\* A cache that a job uses disappears only by a reset, by a restore that puts
\* something in its place, or if the job was assigned after the clean up had
\* read the assignments (client_cache.py re-reads them for every clean up, the
\* user's selection may be hours old).
CleanupSparesActive ==
  [][\A p \in jobs : cache[p] # NoCache /\ cache'[p] = NoCache =>
       \E q \in Req : \/ Acts(q, {"reset", "restore"}) /\ req[q].place[1] = p[1]
                      \/ Acts(q, {"orphan", "manager_cache"}) /\ p[2] \notin req[q].assigned]_cachesVars

\* If a device is still as the clean up has scanned it, then its security states
\* that the cache of an assigned repository names are kept, and so is, for each
\* assigned location, the newest one, however many states, times and locations
\* contradict each other (_parse_scan_output, cleanup_client_borg_caches).
AssignedSecurityKept ==
  [][\A q \in Req : Acts(q, {"security", "security_orphan", "manager_security"}) /\ at[q] = "delete" =>
       LET h == req[q].place[1] R == req[q].assigned IN
       req[q].seen = View(h) =>
         /\ \A b \in ActiveIds(View(h), R) : security'[h][b] = security[h][b]
         /\ \A b \in Secured(View(h)) : security[h][b].loc \in Locations(R) =>
              \E d \in Secured(View(h)) : /\ security[h][d].loc = security[h][b].loc
                                         /\ security[h][d].stamp >= security[h][b].stamp
                                         /\ security'[h][d] = security[h][d]]_cachesVars

\* A cache survives its replacement: until the restore has moved it, and after
\* that as its copy, unless a clean up of the copies comes in between.
KeepsPrevious(q) ==
  LET p == req[q].place
      moved == at[q] \notin {"unpack", "move"}
      c == IF moved THEN req[q].moved ELSE cache[p]
  IN c # NoCache /\ (moved => c \in copies[p]) => c \in {cache'[p]} \cup copies'[p]

\* No failure of the restore script loses the cache that was there before, and
\* Borg's state about a repository is never put back to that of a backup, even
\* if a run creates it while the restore is at work.
ExistingStateKept ==
  [][\A q \in Req : Acts(q, {"restore"}) =>
       /\ at'[q] # "interrupted" => KeepsPrevious(q)
       /\ \A h \in Node, b \in Borg :
            security[h][b] # NoState => security'[h][b] = security[h][b]]_cachesVars
===============================================================================
