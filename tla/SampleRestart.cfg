SPECIFICATION Spec
CONSTANTS
  kick = kick
  snare = snare
  p = p
  q = q
  None = None
  Paths = {p}
  Contents = {kick, snare}
  Slots = {1}
  MaxRequests = 2
  MaxPanel = 1
  MaxCliFaults = 1
  MaxPersistFaults = 1
  MaxCrashes = 1
INVARIANT ReturnedIdsAreKnown
CHECK_DEADLOCK FALSE
