\* Two threads at one vehicle of every client.
CONSTANTS
  Threads = {t1, t2}
  Clients <- AllClients
  Offsets <- Hosts
  Intervals = {1}
  MaxTime = 3
SPECIFICATION Spec
SYMMETRY Symmetry
INVARIANTS
  TypeOK
  StampWithinOffset
  OldDataIsForced
  LocationKeepsUp
  SoftwareCheckIsNew
PROPERTY
  TakesFreshReports
CHECK_DEADLOCK FALSE
