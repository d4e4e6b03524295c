SPECIFICATION Spec
CONSTANTS
  a = a
  main = main
  bd = bd
  None = None
  Ids = {a}
  Durations = {3, 5}
  Stems = {main, bd}
  QueueBlocks = 2
  BlockFrames = 2
  MaxHeard = 4
  MaxStreamFaults = 2
  MaxFileFaults = 1
  MaxCrashes = 2
  MaxRequests = 4
  PreferredRate = 2
  Rates = {1, 2, 3}
  Channels = {2, 10, 12}
  Formats = {"f32", "i16", "i8"}
INVARIANTS StemsMatchMetadata ReplayedForGood SummaryNamesOpened
PROPERTY CompletedIsGapless
CHECK_DEADLOCK FALSE
