SPECIFICATION Spec
CONSTANTS
  ClocksPerStep = 2
  StepsPerBeat = 2
  BeatsPerMeasure = 2
  Patterns = {A01, A02}
  DefaultPattern = A01
  MaxLength = 3
  DefaultLength = 3
  NoBoundary = NoBoundary
  MaxEpoch = 2
  MaxStep = 9
INVARIANTS TypeOK NeverMissed StableResolution FiresAtFirstBoundary
