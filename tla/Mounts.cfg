SPECIFICATION FairSpec
CONSTANTS
  a = a
  b = b
  x = x
  y = y
  p1 = p1
  p2 = p2
  p3 = p3
  d1 = d1
  d2 = d2
  c1 = c1
  r1 = r1
  Repo = {a, b}
  Archive = {x, y}
  Post = {p1, p2, p3}
  Delete = {d1, d2}
  Call = {c1}
  Run = {r1}
  RepoOf <- MCRepoOf
  ArchiveOf <- MCArchiveOf
  NoRow = NoRow
  NoEntry = NoEntry
  Conditions <- MCConditions
CHECK_DEADLOCK FALSE
INVARIANTS
  MountsHaveRows
  NoBorgBesideMount
PROPERTIES
  TransitionsEnd
  RunsStart
