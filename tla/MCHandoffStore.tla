--------------------------- MODULE MCHandoffStore ---------------------------
(* Two imports and two purges of entries of two files                        *)
EXTENDS HandoffStore, TLC

CONSTANTS i1, i2, p1, p2

MCImporters == {i1, i2}
MCPurgers   == {p1, p2}
Symmetry    == Permutations(MCImporters) \cup Permutations(MCPurgers)
=============================================================================
