-------------------------- MODULE MCExpenseVersions --------------------------
(* Small instances of ExpenseVersions for TLC.                             *)
EXTENDS ExpenseVersions, TLC

Interchangeable == Permutations(Requests)
=============================================================================
