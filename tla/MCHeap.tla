------------------------------- MODULE MCHeap -------------------------------
(***************************************************************************)
(* A word of 9 bits and a heap of 120 bytes, with requests on both sides   *)
(* of the rounding.                                                        *)
(***************************************************************************)
EXTENDS Heap

ModestRequests == {0, 1, 16, 17, 60}
ModestArrays   == {<<0, 5>>, <<5, 7>>, <<4, 130>>}

ASSUME ModestGuest /\ SmallMoves
=============================================================================
