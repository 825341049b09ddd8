--------------------------- MODULE MCVehicleLocation ---------------------------
(* Two threads at one car, which a forced refresh and a cached update may   *)
(* update at once, or one thread that updates two cars in turn.             *)
EXTENDS VehicleLocation, TLC

CONSTANTS u1, u2, v1, v2

OneCarOrTwo == {(u1 :> {v1}) @@ (u2 :> {v1}), (u1 :> {v1, v2}) @@ (u2 :> {})}

Symmetry == Permutations(Places)
=============================================================================
