--------------------------- MODULE MCCronTrigger ---------------------------
(* Small instance of CronTrigger for TLC: one key of each kind of job.     *)
EXTENDS CronTrigger

TheDependent == {"DAILY_ATTENDANCE_ENTRY_today", "DAILY_ATTENDANCE_ENTRY_tomorrow",
                 "LEAVE_CARRY_FORWARD_2025"}
ThePeriodic  == {"DAILY_ATTENDANCE_ENTRY_today", "DAILY_ATTENDANCE_ENTRY_tomorrow"}
TheFuture    == {"DAILY_ATTENDANCE_ENTRY_tomorrow"}
TheKeys      == TheDependent \cup {"CARD_EXPIRY_ALERT"}
=============================================================================
