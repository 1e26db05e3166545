----------------------------- MODULE MCJournal ------------------------------
(***************************************************************************)
(* Small instance of Journal for TLC.                                      *)
(***************************************************************************)
EXTENDS Journal

LongAudit == [wake |-> 1, audit |-> 2]
ShortAndLong == {LongAudit, [wake |-> 2, audit |-> 1]}
=============================================================================
