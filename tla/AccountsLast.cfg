SPECIFICATION Spec
CONSTANTS
  User = {"u1", "u2", "u3"}
  Req = {"c", "d"}
  Teams = {{"c", "d"}}
  Offered <- MCOffered
  After <- MCAfter
  Tries <- MCTries
  Starts <- MCStarts
  Word = {"p", "q"}
  Fresh = "q"
  Source = "ip"
  SourceLimit = 2
  PairLimit = 1
  Window = 2
  Block = 3
  TTL = 3
  Idle = 2
  Patience <- MCPatience
  Restarts = 0
  Overlap = TRUE
INVARIANT LastAdministratorStays
CHECK_DEADLOCK FALSE
