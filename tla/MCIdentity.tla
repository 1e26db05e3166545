----------------------------- MODULE MCIdentity -----------------------------
(***************************************************************************)
(* Small instances of Identity for TLC.                                    *)
(***************************************************************************)
EXTENDS Identity, TLC

Symmetry == Permutations(Requests) \cup Permutations(Users)
              \cup Permutations(Names) \cup Permutations(Sessions)
              \cup Permutations(Tokens)
=============================================================================
