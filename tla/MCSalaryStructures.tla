-------------------------- MODULE MCSalaryStructures --------------------------
(* Small instances of SalaryStructures for TLC.                            *)
EXTENDS SalaryStructures
=============================================================================
