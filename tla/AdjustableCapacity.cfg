SPECIFICATION FairSpec
CONSTANTS
  Task = {t1, t2, t3, t4}
  Request <- MCRequest
PROPERTIES
  FirstComeFirstServed
  Implements
  WaiterServed
