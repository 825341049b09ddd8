--------------------------- MODULE MCVehicleRefresh ---------------------------
(* Every client, with a host west or east of Greenwich.                     *)
EXTENDS VehicleRefresh, TLC

Hosts ==
  [c \in AllClients |-> CASE c = "BR"                        -> {-1, 1}
                          [] c \in {"KiaUSA", "HyundaiUSA"} -> {-1}
                          [] OTHER                          -> {1}]

Symmetry == Permutations(Threads)
=============================================================================
