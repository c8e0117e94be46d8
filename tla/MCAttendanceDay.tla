---------------------------- MODULE MCAttendanceDay ----------------------------
EXTENDS AttendanceDay, TLC

Interchangeable == Permutations(Callers)
=============================================================================
