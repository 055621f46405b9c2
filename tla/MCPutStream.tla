---------------------------- MODULE MCPutStream ----------------------------
EXTENDS PutStream, TLC
CONSTANTS u1, u2
Symmetry == Permutations(Upload)
=============================================================================
