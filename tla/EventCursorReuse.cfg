SPECIFICATION Spec
CONSTANTS
  a = a
  b = b
  inspect = inspect
  apply = apply
  trigger = trigger
  Ids = {a, b}
  Payloads = {apply, trigger}
  EffectOf <- MCEffectOf
  Limit = 1
  MaxInputs = 3
  MaxLives = 2
CHECK_DEADLOCK FALSE
INVARIANTS CursorNamesOneEvent
