--------------------------- MODULE MCControlToken ---------------------------
(* Worker threads that share one Token object, for each family of clients.  *)
EXTENDS ControlToken, TLC

Symmetry == Permutations(Calls)
=============================================================================
