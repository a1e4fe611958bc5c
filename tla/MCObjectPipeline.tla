-------------------------- MODULE MCObjectPipeline --------------------------
EXTENDS ObjectPipeline, TLC

Symmetry == Permutations(Requests) \cup Permutations(Workers) \cup Permutations(Keys)
=============================================================================
