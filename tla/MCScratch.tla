----------------------------- MODULE MCScratch -----------------------------
EXTENDS Scratch, TLC
CONSTANTS c1, c2, c3
Symmetry == Permutations(Call)
=============================================================================
