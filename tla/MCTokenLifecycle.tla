--------------------------- MODULE MCTokenLifecycle ---------------------------
(* Instances of TokenLifecycle for TLC: the threads are interchangeable.    *)
EXTENDS TokenLifecycle, TLC

Symmetry == Permutations(Threads)
=============================================================================
