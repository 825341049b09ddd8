\* Three commands; PIN entry is locked after two failures.
CONSTANTS
  Calls = {c1, c2, c3}
  Clients = {"CCI", "Type1", "BR"}
  None = None
  MaxToken = 4
  PinTries = 2
SPECIFICATION Spec
SYMMETRY Symmetry
INVARIANTS
  TypeOK
  SoloCommandRecovers
  TriesAreReported
PROPERTY
  ActsAtMostOnce
CHECK_DEADLOCK FALSE
