------------------------------ MODULE MCEngine ------------------------------
(***************************************************************************)
(* Small instances of Engine for TLC.  MaxBusy + Cardinality(Mappings)     *)
(* thread identities suffice: a thread that is neither serving nor busy    *)
(* has been joined.                                                        *)
(***************************************************************************)
EXTENDS Engine, TLC

ASSUME EnoughThreads ==
    Cardinality(Threads) >= MaxBusy + Cardinality(Mappings)

\* Workers, thread identities, ports and mappings are interchangeable.
Symmetry == Permutations(Requests) \cup Permutations(Threads)
                \cup Permutations(Ports) \cup Permutations(Mappings)
=============================================================================
