SPECIFICATION CachesSpec
CONSTANTS
  Host = {"h"}
  Manager = "bbm"
  Managed = {1}
  Repo = {1, 2}
  Borg = {"x", "y", "z"}
  Location = {"A", "B", "C"}
  BorgOf <- MCBorgOf
  LocationOf <- MCLocationOf
  Req = {"q1", "q2"}
  Offered <- MCOffered
  Registered = {}
  Selections <- MCSelections
  Assigned <- MCAssigned
  Locals <- MCLocals
  Artifacts <- MCArtifacts
  Changes = 1
  Writes = 1
PROPERTIES CleanupSparesActive AssignedSecurityKept ExistingStateKept
CHECK_DEADLOCK FALSE
