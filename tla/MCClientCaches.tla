----------------------------- MODULE MCClientCaches -----------------------------
(* The manager and one device, two repositories, the first of which the manager *)
(* stores.  Borg id "z" is an earlier repository at its location.          *)
EXTENDS ClientCaches, TLC

MCBorgOf == <<"x", "y">>
MCLocationOf == <<"A", "B">>
MCAssigned == {<<"h", 1>>, <<"bbm", 1>>, <<"bbm", 2>>}
Cache(b) == [borg |-> b, data |-> "old"]
State(l, t) == [loc |-> l, stamp |-> t]
Device ==
  {[cache |-> c, legacy |-> {"z"}, security |-> "x" :> x @@ "y" :> NoState @@ "z" :> z] :
     c \in {<<NoCache, Cache("y")>>, <<Cache("x"), NoCache>>, <<Cache("z"), Cache(None)>>},
     x \in {NoState, State("A", 1)}, z \in {NoState, State("A", 1), State("A", 2)}}
Server ==
  {[cache |-> <<NoCache, Cache("y")>>, legacy |-> {"x", "z"},
    security |-> "x" :> State("A", 1) @@ "y" :> NoState @@ "z" :> z] :
     z \in {State("A", 2), State("C", 1)}}
MCLocals == {"h" :> d @@ "bbm" :> CHOOSE s \in Server : TRUE : d \in Device}
              \cup {"h" :> (CHOOSE d \in Device : TRUE) @@ "bbm" :> s : s \in Server}
MCArtifacts ==
  {[repo |-> 1, cache |-> [borg |-> "x", data |-> "saved"], states |-> {<<"x", State("A", 0)>>}]}
MCSelections ==
  [what \in Cleanups |->
     IF what \in {"orphan", "rollback", "reset", "manager_cache"} THEN {{1}, {1, 2}} ELSE {{"x", "y", "z"}}]
MCOffered == "q1" :> ClientCleanups \ {"user_cache"}
               @@ "q2" :> {"user_cache", "collect", "restore"} \cup ManagerCleanups
===============================================================================
