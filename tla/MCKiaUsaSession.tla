--------------------------- MODULE MCKiaUsaSession ---------------------------
(* Two worker threads on two vehicles.  Three Token objects are enough: the *)
(* manager's and one that each call can still hold.                         *)
EXTENDS KiaUsaSession, TLC

Symmetry == Permutations(Calls) \cup Permutations(Vehicles) \cup Permutations(Tokens)
=============================================================================
