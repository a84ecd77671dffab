SPECIFICATION Spec
CONSTANTS
  User = {"u1", "u2", "u3"}
  Req = {"l1", "l2", "k", "c", "w1", "w2", "w3", "w4"}
  Teams <- MCTeams
  Offered <- MCOffered
  After <- MCAfter
  Tries <- MCTries
  Starts <- MCStarts
  Word = {"p", "q"}
  Fresh = "q"
  Source = "ip"
  SourceLimit = 2
  PairLimit = 1
  Window = 2
  Block = 3
  TTL = 3
  Idle = 2
  Patience <- MCPatience
  Restarts = 1
  Overlap = FALSE
INVARIANTS AdministratorCanSignIn NoOrphanSessions ChangeEndsSessions
PROPERTY LoginBudget
CHECK_DEADLOCK FALSE
