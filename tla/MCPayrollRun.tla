---------------------------- MODULE MCPayrollRun ----------------------------
(* Small instances of PayrollRun for TLC.                                  *)
EXTENDS PayrollRun, TLC

\* Slots and primary keys are interchangeable (used with safety only).
Interchangeable == Permutations(Requests) \cup Permutations(PayrollIds)
                     \cup Permutations(Bonuses)
=============================================================================
