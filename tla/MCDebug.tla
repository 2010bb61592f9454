------------------------------ MODULE MCDebug -------------------------------
(***************************************************************************)
(* Small rings, breakpoint lists and stacks for Debug.                     *)
(***************************************************************************)
EXTENDS Debug

MCBreakLists == {<<1>>, <<1, 2, 1>>}
=============================================================================
