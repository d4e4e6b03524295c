SPECIFICATION Spec
CONSTANTS
  kick = kick
  snare = snare
  p = p
  q = q
  None = None
  Paths = {p, q}
  Contents = {kick, snare}
  Slots = {1, 2}
  MaxRequests = 4
  MaxPanel = 1
  MaxCliFaults = 1
  MaxPersistFaults = 1
  MaxCrashes = 1
INVARIANT RegisteredIdsSurvive
PROPERTIES NothingReplaced ClearsOnlyTheNamed AssignsTheNamed AnswersWereTrue
CHECK_DEADLOCK FALSE
