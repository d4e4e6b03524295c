SPECIFICATION Spec
CONSTANTS
  None = None
  Tracks = {0}
  Steps = {1, 2}
  PoolSize = 3
  Top = 2
  Sets <- MCSets
  MaxSets = 2
  MaxPanel = 1
INVARIANTS LocksReadBack RepeatConverges OnlyTheNamedChange
CHECK_DEADLOCK FALSE
