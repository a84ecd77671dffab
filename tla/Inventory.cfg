SPECIFICATION Spec
CONSTANTS
  MaxHost = 2
  MaxRepo = 2
  MaxJob = 2
  MaxRun = 2
  Schedule = {"s", "t"}
  Client = {"c", "d"}
  Plans <- MCPlans
INVARIANTS
  OneScheduleEach
  AssignmentsInForce
PROPERTIES
  ArchiveSeriesFresh
  BaselineKept
CHECK_DEADLOCK FALSE
