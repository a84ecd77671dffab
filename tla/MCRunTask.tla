------------------------------- MODULE MCRunTask -------------------------------
(* An instance of RunTask: one run of each kind that differs in its steps.   *)
EXTENDS RunTask

CONSTANTS bk, pr, dl, rf, c1

MCActionOf ==
  [r \in Run |-> CASE r = bk -> "backup" [] r = pr -> "prune"
                   [] r = dl -> "delete-archive" [] r = rf -> "archive-refresh"]

\* The run with the longest way through stop, probe and cleanup is cancelled
\* up to twice.
Cancels == [r \in Run |-> IF r = bk THEN 2 ELSE 1]
=============================================================================
