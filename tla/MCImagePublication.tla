------------------------- MODULE MCImagePublication -------------------------
(* Two publications of one image name, to one directory.  What the checks of *)
(* the adapters whose images these are let through is decided here too, as   *)
(* the assumption of ImageEvidence.                                          *)
EXTENDS ImagePublication, ImageEvidence, TLC

CONSTANTS p1, p2

MCPublishers == {p1, p2}
Symmetry     == Permutations(MCPublishers)
=============================================================================
