---------------------------- MODULE MCHostAgent ----------------------------
(***************************************************************************)
(* Small instances of HostAgent for TLC.                                   *)
(***************************************************************************)
EXTENDS HostAgent, TLC

Symmetry == Permutations(Threads)

\* Which commands fail in a run.
NoRollbackFails == {"apply", "deployment", "upgrade"} \X Commands
RestoreFails == {<<"rollback", "restore">>}
EverythingFails == Operations \X Commands
=============================================================================
