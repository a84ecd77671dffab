SPECIFICATION FairSpec
CONSTANTS
  Repo = {a, b, c}
  Managed = {b}
  Target = {T1, T2}
  TargetOf <- MCTargetOf
  Mount = {fs}
  MountOf <- MCMountOf
  Job = {j1, j2, j3, j4, j5}
  Schedule = {s1}
  NoMount = NoMount
  NoJob = NoJob
  NoSchedule = NoSchedule
  NoRow = NoRow
  a = a
  b = b
  c = c
  T1 = T1
  T2 = T2
  fs = fs
  j1 = j1
  j2 = j2
  j3 = j3
  j4 = j4
  j5 = j5
  s1 = s1
  Home <- MCHome
  Request <- MCRequest
  MaxRuns = 4
  Plans <- MCPlans
  MountLimits = {1}
  StatsLimits = {1}
  Results = {"success", "failed"}
INVARIANTS
  RepositoryExclusive
  ChainProtected
PROPERTIES
  PlannerRespectsLimits
  OvertakesOnlyBlocked
  QueueProgress
  ChainReleased
