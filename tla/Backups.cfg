SPECIFICATION Spec
CONSTANTS
  Req = {"r1", "r2"}
  Offered <- MCOffered
  Plans <- MCPlans
  Labels <- MCLabels
  Stored <- MCStored
  Data <- MCData
  Foreign <- MCForeign
  UploadName <- MCUploadName
  MaxTasks = 1
  Seconds = {0}
  Restarts = 1
INVARIANTS RegistrySound PlaintextIsTemporary OriginalsKept RestoreAllOrNothing
PROPERTY TasksEnd
CHECK_DEADLOCK FALSE
