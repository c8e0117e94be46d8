---------------------------- MODULE MCLeaveLedger ----------------------------
(* Small instances of LeaveLedger for TLC.                                 *)
EXTENDS LeaveLedger, TLC

Interchangeable == Permutations(Requests)
=============================================================================
