---------------------------- MODULE MCFnfSettlement ----------------------------
EXTENDS FnfSettlement, TLC

Interchangeable == Permutations(Requests)
=============================================================================
