\* Two threads that check the token again and again, all five kinds of client.
CONSTANTS
  Threads = {t1, t2}
  Clients = {"gspa", "eu", "type1", "bluelink", "ca"}
  None = None
  MaxFamily = 4
SPECIFICATION Spec
SYMMETRY Symmetry
INVARIANTS
  TypeOK
  CallsRecover
  RefreshIsSilent
  SignInBudget
  VehiclesAreKept
CHECK_DEADLOCK FALSE
