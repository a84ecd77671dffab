------------------------------- MODULE MCAccounts -------------------------------
EXTENDS Accounts, TLC

Admin(e) == [Gone EXCEPT !.role = "admin", !.enabled = e, !.pass = "p"]
SessionOf(u, expires, seen) == [user |-> u, expires |-> expires, seen |-> seen, token |-> TRUE]

\* Two administrators, of whom the second is disabled or uses a second factor
\* and was idle for a while, and an id that is still free.
MCStarts ==
  {[account |-> "u1" :> Admin(TRUE) @@ "u2" :> Admin(FALSE) @@ "u3" :> Unborn,
    session |-> "u1" :> SessionOf("u1", 3, 0) @@ "u2" :> SessionOf("u2", 0, 0)],
   [account |-> "u1" :> Admin(TRUE) @@ "u3" :> Unborn @@
                "u2" :> [Admin(TRUE) EXCEPT !.on = TRUE, !.secret = "old", !.codes = {"code"}],
    session |-> "u1" :> SessionOf("u1", 0, 0) @@ "u2" :> SessionOf("u2", 3, -2)]}

Guesses == {"w1", "w2", "w3", "w4"}

\* Two sign-ins, one beside a session and a change, or guesses of a password.
MCTeams == {{"l1", "l2"}, {"l1", "k", "c"}, Guesses}

MCOffered ==
  [r \in Req |-> CASE r \in {"l1", "l2"} \cup Guesses -> {"login"}
                   [] r = "k" -> {"check", "logout"}
                   [] OTHER -> Changes]

MCTries == [r \in Req |-> IF r \in Guesses THEN {"q"} ELSE Word]

\* Guesses go on until a pause is over that outlasts its window.
MCPatience == [r \in Req |-> CASE r \in Guesses -> 3 [] r = "l2" -> 2 [] OTHER -> 1]

MCAfter ==
  [r \in Req |-> CASE r = "w2" -> {"w1"} [] r = "w3" -> {"w2"} [] r = "w4" -> {"w3"} [] OTHER -> {}]
=================================================================================
