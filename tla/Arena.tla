------------------------------- MODULE Arena --------------------------------
(***************************************************************************)
(* What a guest may expect of malloc and free: a block handed out lies in  *)
(* the arena and overlaps no block still in use.  Where the block is, and  *)
(* whether there is one, is the allocator's choice.                        *)
(***************************************************************************)
EXTENDS Integers

CONSTANTS Low, High   \* the arena's addresses are Low .. High - 1

VARIABLE used         \* the blocks in use

Overlap(a, b) == a.at < b.at + b.n /\ b.at < a.at + a.n

\* b may be handed out beside the blocks of s.
Fresh(b, s) ==
  /\ b.at \in Low .. High - 1 /\ b.n \in 1 .. High - Low
  /\ b.at + b.n <= High
  /\ \A u \in s : ~Overlap(b, u)

Init == used = {}

Allocate == \E b \in used' : Fresh(b, used) /\ used' = used \cup {b}

Release == \E u \in used : used' = used \ {u}

\* realloc: the old block is given up only when the new one is had, and the
\* new one is clear of it: the bytes are copied from one to the other.
Move == \E u \in used, b \in used' :
  Fresh(b, used) /\ used' = (used \ {u}) \cup {b}

\* The guest is gone, and its memory with it.
Discard == used' = {}

Next == Allocate \/ Release \/ Move \/ Discard

Spec == Init /\ [][Next]_used
=============================================================================
