---------------------------- MODULE MCLspRename ----------------------------
EXTENDS LspRename, TLC
CONSTANTS A, B, C, X
Symmetry == Permutations(File \ {Queried})
=============================================================================
