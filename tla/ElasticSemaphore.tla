-------------------------- MODULE ElasticSemaphore --------------------------
(***************************************************************************)
(* What a capacity limiter of BorgBackup Manager promises to its callers:  *)
(* a counting semaphore whose limit may change while it is in use.         *)
(*                                                                         *)
(*  - a step gives up the slot of at most one owner;                       *)
(*  - new owners appear only as far as the limit in force allows, while    *)
(*    a lowered limit never takes a slot away from an owner;               *)
(*  - no slot is left idle: while somebody wants one, all of them are      *)
(*    owned.                                                               *)
(***************************************************************************)
EXTENDS Integers, FiniteSets

CONSTANT Task          \* the callers

VARIABLES
  limit,               \* the limit in force
  owners,              \* the tasks a slot is assigned to
  wanting              \* the tasks that wait for a slot

vars == <<limit, owners, wanting>>

TypeOK ==
  /\ limit \in Nat \ {0}
  /\ owners \in SUBSET Task
  /\ wanting \in SUBSET (Task \ owners)

\* Every slot is used before anybody is made to wait.
WorkConserving == wanting # {} => Cardinality(owners) >= limit

Init ==
  /\ limit \in Nat \ {0}
  /\ owners = {}
  /\ wanting = {}

Next ==
  /\ limit' \in Nat \ {0}
  /\ wanting' \in SUBSET Task
  /\ \E gone \in SUBSET owners, new \in SUBSET (Task \ owners) :
        /\ \A s, t \in gone : s = t
        /\ owners' = (owners \ gone) \cup new
        /\ new # {} => Cardinality(owners') <= limit'
  /\ wanting' \cap owners' = {}
  /\ WorkConserving'

Spec == Init /\ [][Next]_vars
=============================================================================
