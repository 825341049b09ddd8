\* A European CCS2 car whose wake-up is refused.
CONSTANTS
  Threads = {t1}
  Clients = {"EU"}
  Offsets <- Hosts
  Intervals = {1}
  MaxTime = 3
SPECIFICATION Spec
INVARIANT
  WakeErrorsPropagate
CHECK_DEADLOCK FALSE
