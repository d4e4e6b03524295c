SPECIFICATION Spec
CONSTANTS
  a = a
  b = b
  c = c
  A01 = A01
  pattern = pattern
  song = song
  kit = kit
  MaxValue = 1
  None = None
  Idle = Idle
  ClocksPerStep = 1
  StepsPerBeat = 2
  BeatsPerMeasure = 2
  Patterns = {A01}
  DefaultPattern = A01
  MaxLength = 2
  DefaultLength = 2
  Values <- MCValues
  SlotOf <- MCSlotOf
  LengthOf <- MCLengthOf
  PatternObject = pattern
  Ids = {a, b}
  WorkBuffer = {pattern}
  StoredSongs = {}
  StoredKits = {}
  Edits <- PatternFlip
  RetainCap = 9
  QueueKinds = {"next_beat"}
  BlindClients = FALSE
  SlowPersists = FALSE
  FailingSaves = FALSE
  Rollbacks = TRUE
  MaxStep = 2
  MaxQueued = 2
  MaxPanelEdits = 1
  MaxFaults = 1
  MaxRestarts = 0
  MaxCommands = 1
INVARIANTS TypeOK OneWinnerPerRevision QueuedWorkIsAhead LastObservedIsDevice
PROPERTY AppliedWhenDue
SYMMETRY Symmetry
