-------------------------------- MODULE MCBench --------------------------------
(***************************************************************************)
(* Instances of Bench for TLC: every driver, with more entries than slots. *)
(***************************************************************************)
EXTENDS Bench
=============================================================================
