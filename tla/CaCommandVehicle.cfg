\* Two overlapping calls on two vehicles; the cloud ties a pAuth to its vehicle.
CONSTANTS
  Calls = {c1, c2}
  Vehicles = {v1, v2}
  None = None
  MaxAttempts = 2
  MaxPolls = 1
  PinBound = TRUE
SPECIFICATION Spec
INVARIANT
  ActsOnItsVehicle
CHECK_DEADLOCK FALSE
