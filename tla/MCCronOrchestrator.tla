------------------------- MODULE MCCronOrchestrator -------------------------
(* Small instances of CronOrchestrator for TLC.                            *)
EXTENDS CronOrchestrator
=============================================================================
