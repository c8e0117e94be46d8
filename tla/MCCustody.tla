------------------------------- MODULE MCCustody -------------------------------
EXTENDS Custody, TLC

Interchangeable == Permutations(Requests) \cup Permutations(Users)
=============================================================================
