\* Two threads and two cars; the coordinates the cars share.
CONSTANTS
  u1 = u1
  u2 = u2
  v1 = v1
  v2 = v2
  Updaters = {u1, u2}
  Vehicles = {v1, v2}
  Places = {p, q}
  Rosters <- OneCarOrTwo
  None = None
  MaxTrips = 1
SPECIFICATION Spec
SYMMETRY Symmetry
INVARIANTS
  TypeOK
  StaleLocationWasMissed
  UnpromptedFetchOnce
  WrongGeocodeIsForeign
CHECK_DEADLOCK FALSE
