---------------------------- MODULE MCInventory ----------------------------
(***************************************************************************)
(* Small instances of Inventory for TLC.                                   *)
(***************************************************************************)
EXTENDS Inventory, TLC

\* Requests are interchangeable; NoArgs singles out a mapping and a device.
Symmetry == Permutations(Requests)
=============================================================================
