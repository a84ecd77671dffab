SPECIFICATION FairSpec
CONSTANTS
  A = A
  B = B
  g1 = g1
  Job = {1, 2}
  Repo = {A, B}
  Group = {g1}
  Targets <- MCTargets
  Retention = {1, 2}
  HomeOf <- MCHomeOf
  NoRun = NoRun
  CompactAfterPrune = TRUE
  Manual = TRUE
  Moves = TRUE
CHECK_DEADLOCK FALSE
INVARIANTS
  OneActiveRunPerJob
  PhasesInOrder
  CompactOncePerRepository
PROPERTIES
  GroupEnds
