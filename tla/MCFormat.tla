------------------------------ MODULE MCFormat ------------------------------
(***************************************************************************)
(* Every format of up to three pieces over all kinds, with three words and  *)
(* one double in registers.                                                *)
(***************************************************************************)
EXTENDS Format

CONSTANT MaxPieces

\* Text of one character and text longer than the buffers.
Pieces == {[kind |-> k, len |-> 1] : k \in Kinds} \cup {[kind |-> "text", len |-> 5]}

SomeFormats == UNION {[1 .. n -> Pieces] : n \in 0 .. MaxPieces}
=============================================================================
