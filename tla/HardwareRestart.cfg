SPECIFICATION Spec
CONSTANTS
  a = a
  b = b
  c = c
  A01 = A01
  pattern = pattern
  song = song
  kit = kit
  MaxValue = 2
  None = None
  Idle = Idle
  ClocksPerStep = 1
  StepsPerBeat = 2
  BeatsPerMeasure = 2
  Patterns = {A01}
  DefaultPattern = A01
  MaxLength = 2
  DefaultLength = 2
  Values <- MCValues
  SlotOf <- MCSlotOf
  LengthOf <- MCLengthOf
  PatternObject = pattern
  Ids = {a, b}
  WorkBuffer = {pattern}
  StoredSongs = {}
  StoredKits = {}
  Edits <- PatternInserts
  RetainCap = 9
  QueueKinds = {"next_beat"}
  BlindClients = FALSE
  SlowPersists = FALSE
  FailingSaves = FALSE
  Rollbacks = FALSE
  MaxStep = 2
  MaxQueued = 2
  MaxPanelEdits = 0
  MaxFaults = 2
  MaxRestarts = 1
  MaxCommands = 1
INVARIANT WrittenOnce
PROPERTIES OutcomesAreFinal IsLedger
SYMMETRY Symmetry
