SPECIFICATION Spec
CONSTANT Outputs <- MCOutputs
INVARIANTS
  LogComplete
  ReportsExact
CHECK_DEADLOCK FALSE
