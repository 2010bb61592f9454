------------------------------- MODULE MCBind -------------------------------
(***************************************************************************)
(* A table of five entries, one name twice, and images of up to five       *)
(* pointers.  As in hle.c, the traps of dyld_func_lookup have the numbers  *)
(* of other entries (62 and 63 there).                                     *)
(***************************************************************************)
EXTENDS Bind

Table == <<"_close", "_open", HEADER_FN, "_close", NAME_FN>>
NotInTable == {"_fork", "_tmpfile"}

\* So what the guest finds through dyld_func_lookup is not what it asked for.
ASSUME \A name \in {HEADER_FN, NAME_FN} : Runs(DyldFuncLookup(name)) # name
=============================================================================
