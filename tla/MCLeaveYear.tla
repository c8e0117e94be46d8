------------------------------ MODULE MCLeaveYear ------------------------------
EXTENDS LeaveYear, TLC

Interchangeable == Permutations(Runs)
=============================================================================
