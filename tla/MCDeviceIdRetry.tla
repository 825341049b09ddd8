--------------------------- MODULE MCDeviceIdRetry ---------------------------
(* One thread makes calls of any kind, the other one a call for each kind   *)
(* of lock: of a command, of the schedules and of the status calls.         *)
EXTENDS DeviceIdRetry, TLC

CONSTANTS c1, c2

AnyAndAnother ==
  (c1 :> {"lock_action", "start_climate", "charge", "climate", "both", "check", "check_sync"})
  @@ (c2 :> {"lock_action", "charge", "check"})
=============================================================================
