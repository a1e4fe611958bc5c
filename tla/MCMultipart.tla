---------------------------- MODULE MCMultipart ----------------------------
EXTENDS Multipart, TLC

Symmetry == Permutations(Requests) \cup Permutations(Uploads) \cup Permutations(Bodies)
=============================================================================
