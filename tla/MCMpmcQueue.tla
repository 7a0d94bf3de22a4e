----------------------------- MODULE MCMpmcQueue -----------------------------
(***************************************************************************)
(* Instances of MpmcQueue for TLC: producers are interchangeable.          *)
(***************************************************************************)
EXTENDS MpmcQueueInv, TLC

Symmetry == Permutations(Producers)
=============================================================================
