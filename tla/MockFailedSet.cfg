SPECIFICATION Spec
CONSTANTS
  None = None
  A = A
  B = B
  Patterns = {A, B}
  FirstPattern = A
  Kits = {1}
  Values = {0, 1}
  Default = 1
  Length = 4
  StepsPerBeat = 1
  BeatsPerMeasure = 2
  MaxRows = 2
  Sets <- MCSets
  Ids = {i1, i2}
  SnapshotIds = {s1}
  Advances = {1, 3}
  MaxSteps = 4
  MaxCommands = 1
SYMMETRY Symmetry
PROPERTY RevisionNamesContent
CHECK_DEADLOCK FALSE
