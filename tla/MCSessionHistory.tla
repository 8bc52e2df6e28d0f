--------------------------- MODULE MCSessionHistory ---------------------------
EXTENDS SessionHistory, TLC
Symmetry == Permutations(Sessions)
=============================================================================
