--------------------------- MODULE MCLegacyCleanup ---------------------------
(* Two rules, a file and a symbolic link, over two transactions.           *)
EXTENDS LegacyCleanup

MCRules    == {1, 2}
MCSymlinks == {2}
=============================================================================
