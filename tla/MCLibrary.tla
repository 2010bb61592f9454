----------------------------- MODULE MCLibrary ------------------------------
(***************************************************************************)
(* Every memory of up to five mapped bytes over NUL, A and a, every pair   *)
(* of addresses in it and counts on both sides of the buffers' sizes; and  *)
(* fd_sets of two words of four bytes of one bit.                          *)
(***************************************************************************)
EXTENDS Library

CONSTANTS Top, Letters

SomeMemories == UNION {[1 .. k -> Letters] : k \in 0 .. Top}

SomeMaps == [0 .. SocketSlots - 1 -> {UNMAPPED, 0, 3, 4}]

SmallSets(n) == {S \in SUBSET (0 .. FdBits - 1) : Cardinality(S) <= n}

SomeAsked == {[w \in Directions |-> IF w = "read" THEN S ELSE T] : S \in SmallSets(2), T \in SmallSets(1)}
=============================================================================
