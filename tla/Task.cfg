SPECIFICATION FairSpec
CONSTANTS
  bk = bk
  pr = pr
  dl = dl
  rf = rf
  c1 = c1
  Run = {bk, dl, rf}
  Call = {c1}
  ActionOf <- MCActionOf
  Guarded = {bk}
  MaxCancels <- Cancels
  Restarts = TRUE
CHECK_DEADLOCK FALSE
INVARIANTS
  LockDiscipline
  PublishedIsSeen
  CancelledIsReported
PROPERTIES
  AbortsForCause
  RunsEnd
