\* Two calls on two vehicles; the cloud does not even tie pAuth to a vehicle.
CONSTANTS
  Calls = {c1, c2}
  Vehicles = {v1, v2}
  None = None
  MaxAttempts = 2
  MaxPolls = 1
  PinBound = FALSE
SPECIFICATION AnsweringSpec
INVARIANTS
  TypeOK
  MisdirectionNeedsOverlap
  RepeatNeedsLostAnswer
PROPERTY
  CallsReturn
CHECK_DEADLOCK FALSE
