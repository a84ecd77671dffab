----------------------------- MODULE MCRunQueue -----------------------------
(***************************************************************************)
(* The instance of RunQueue.  Repositories a and b are two records of one  *)
(* physical repository, c is another one on the same filesystem.           *)
(***************************************************************************)
EXTENDS RunQueue, TLC

CONSTANTS a, b, c, T1, T2, fs, j1, j2, j3, j4, j5, s1

MCTargetOf == (a :> T1) @@ (b :> T1) @@ (c :> T2)
MCMountOf == (T1 :> fs) @@ (T2 :> fs)

Plain(kind, job, repo) ==
  [kind |-> kind, job |-> job, repo |-> repo, schedule |-> NoSchedule, limit |-> 0,
   chain |-> FALSE, compact |-> FALSE]

Chain(job, repo, compact) ==
  [Plain("borg", job, repo) EXCEPT !.chain = TRUE, !.compact = compact]

Scheduled(job, repo, limit) ==
  [Plain("borg", job, repo) EXCEPT !.schedule = s1, !.limit = limit]

Refresh(repo) == Plain("refresh", NoJob, repo)

\* Runs that meet at the repository, schedule, mount, stats and global limits,
\* among them two chains and a refresh that meet on T1.
LimitRequests ==
  {Chain(j1, a, TRUE), Chain(j2, b, FALSE), Refresh(b), Scheduled(j3, c, 1),
   Plain("borg", j4, b), Plain("stats", j5, c)}

MCHome == (j1 :> a) @@ (j2 :> b) @@ (j3 :> c) @@ (j4 :> b) @@ (j5 :> c)

\* Runs of T1 that meet an archive mounted from b, also a chain from its other
\* record, and a chain moved there.
MountRequests ==
  {Chain(j1, a, FALSE), Chain(j3, c, FALSE), Refresh(b), Plain("borg", j4, b)}

\* Two chains in different repositories whose jobs change places meanwhile.
MovedChains == {Chain(j1, a, FALSE), Chain(j3, c, FALSE)}

MCRequest == LimitRequests \cup MountRequests \cup MovedChains

MCPlans ==
  {[requests |-> LimitRequests, rows |-> 3, moves |-> {}, globalLimits |-> {0, 1},
    events |-> {"cancelled twice", "restart"}],
   [requests |-> MountRequests, rows |-> 3, moves |-> {<<j3, b>>}, globalLimits |-> {0},
    events |-> {"mounts"}],
   [requests |-> MovedChains, rows |-> 4, moves |-> {<<j1, c>>, <<j3, a>>}, globalLimits |-> {0},
    events |-> {}]}
=============================================================================
