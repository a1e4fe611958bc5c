----------------------------- MODULE MCReadPath -----------------------------
EXTENDS Recovery, TLC

Symmetry == Permutations(Requests)
=============================================================================
