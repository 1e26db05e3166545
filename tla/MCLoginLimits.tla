---------------------------- MODULE MCLoginLimits ----------------------------
(***************************************************************************)
(* Small instance of LoginLimits for TLC.                                  *)
(***************************************************************************)
EXTENDS LoginLimits

Symmetry == Permutations(Requests)
=============================================================================
