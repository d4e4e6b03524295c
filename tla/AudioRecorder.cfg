SPECIFICATION Spec
CONSTANTS
  a = a
  b = b
  None = None
  Ids = {a, b}
  QueueBlocks = 2
  BlockFrames = 2
  MaxHeard = 4
  MaxStreamFaults = 1
  Bracket = 3
  Tolerance = 1
  Ceiling = 5
  MaxFileFaults = 1
  MaxCrashes = 1
INVARIANTS SidecarMatchesWav GaplessUnlessReported
PROPERTIES PublishedStays StopReturns
CHECK_DEADLOCK FALSE
