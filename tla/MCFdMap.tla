------------------------------ MODULE MCFdMap -------------------------------
(***************************************************************************)
(* Two socket slots and four to six host descriptors, so that both tables  *)
(* fill; the host's descriptors stay below the socket numbers.             *)
(***************************************************************************)
EXTENDS FdMap

BothKinds  == {{"fdopen", "dup"}, {"fdopen", "fdopen_full", "dup_unmapped", "close_any"}}

ASSUME MaxHost < FDMAP_BASE
=============================================================================
