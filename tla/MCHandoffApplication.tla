------------------------ MODULE MCHandoffApplication ------------------------
(* Two destinations: a file, and a path that must be absent.                 *)
EXTENDS HandoffApplication

MCSelections == {{1}, {1, 2}}
=============================================================================
