-------------------------------- MODULE Heap --------------------------------
(***************************************************************************)
(* The guest heap of hle.c: a bump allocator over HEAP_SIZE bytes at       *)
(* HEAP_BASE, behind malloc, calloc, realloc, free and the block a null    *)
(* (keymgr) call hands out.  Addresses and sizes are machine words: every  *)
(* sum is cut to the word, as uint32_t arithmetic is.                      *)
(***************************************************************************)
EXTENDS Integers

CONSTANTS
  Word,       \* addresses and sizes are below this power of two (2^32)
  HeapBase,   \* HEAP_BASE
  HeapSize,   \* HEAP_SIZE
  CopyMax,    \* the most realloc copies (its static buffer, 1 MB)
  Requests,   \* the sizes the guest asks malloc and realloc for
  Arrays      \* the counts and sizes it asks calloc for

HEADER == 8
ALIGN  == 16

HeapEnd == HeapBase + HeapSize
First   == HeapBase + HEADER     \* where the first block goes

ASSUME HeapAssumption ==
  /\ Word \in Nat /\ HeapBase \in Nat /\ HeapSize \in Nat /\ CopyMax \in Nat
  /\ HeapSize > HEADER /\ HeapBase > 0 /\ HeapEnd + HeapSize <= Word
  /\ Requests \subseteq 0 .. Word - 1
  /\ Arrays \subseteq (0 .. Word - 1) \X (0 .. Word - 1)

VARIABLES
  heap_bump,  \* the static bump pointer, 0 until the first allocation
  blocks,     \* every block handed out to this guest, freed ones included
  ret         \* what the last call returned

vars == <<heap_bump, blocks, ret>>

(***************************************************************************)
(* A block: where its header is, its size with the header, the size asked  *)
(* for, whether the guest still holds it; for a block made by realloc, how *)
(* many of its first bytes are the old block's, and how many should be.    *)
(***************************************************************************)
BlockType == [at : 0 .. Word - 1, need : 0 .. Word - 1, n : Nat,
              live : {0, 1}, kept : 0 .. Word - 1, due : 0 .. Word - 1]

\* Types; the bump pointer never leaves the heap.
TypeOK ==
  /\ heap_bump \in 0 .. HeapEnd
  /\ blocks \subseteq BlockType
  /\ ret \in 0 .. Word - 1

Init == heap_bump = 0 /\ blocks = {} /\ ret = 0

Least(a, b) == IF a <= b THEN a ELSE b

Pointer(b) == b.at + HEADER

Live == {b \in blocks : b.live = 1}

-----------------------------------------------------------------------------
\* Mutant: the size is not rounded up and has no room for the header.
Need_NoHeader(n) == n

\* need: the request rounded up to 16 with the header, in a word.
Need(n) ==
  LET up == (n + ALIGN - 1) % Word
  IN  ((up - (up % ALIGN)) + HEADER) % Word

\* Mutant: only the start of the block is held against the end of the heap.
Fits_StartOnly(n) == n # 0 /\ heap_bump < HeapEnd

\* The test of halloc.  The end of the block is computed in a word, and from a
\* heap_bump that is still 0 before the first allocation.
Fits(n) ==
  /\ n # 0
  /\ Need(n) >= HEADER
  /\ (heap_bump + Need(n)) % Word <= HeapEnd

Start == IF heap_bump < First THEN First ELSE heap_bump

NewBlock(n, kept, due) ==
  [at |-> Start, need |-> Need(n % Word), n |-> n, live |-> 1, kept |-> kept, due |-> due]

Bump(n) == heap_bump' = (Start + Need(n)) % Word

\* halloc(n), for the block b and with the blocks `others` kept beside it.
Halloc(n, b, others) ==
  /\ Fits(n)
  /\ Bump(n)
  /\ blocks' = others \cup {b}
  /\ ret' = Pointer(b) % Word

HallocFails(n) ==
  /\ ~Fits(n)
  /\ ret' = 0
  /\ UNCHANGED <<heap_bump, blocks>>

\* malloc, and the block of a null call (sosetta_hle_alloc_zeroed), which is
\* not zeroed.
Malloc == \E n \in Requests :
  Halloc(n, NewBlock(n, 0, 0), blocks) \/ HallocFails(n)

ProductExact(c, s) == c # 0 => ((c * s) % Word) \div c = s

\* calloc: the product is taken in a word and tested by dividing it back.
Calloc == \E array \in Arrays :
  LET c == array[1]
      s == array[2]
  IN  \/ /\ ProductExact(c, s)
         /\ \/ Halloc((c * s) % Word, NewBlock(c * s, 0, 0), blocks)
            \/ HallocFails((c * s) % Word)
      \/ /\ ~ProductExact(c, s)
         /\ ret' = 0
         /\ UNCHANGED <<heap_bump, blocks>>

\* Mutant: hfree gives the block back by moving the bump pointer to it.
HFree_Rewinds(b) ==
  /\ blocks' = (blocks \ {b}) \cup {[b EXCEPT !.live = 0]}
  /\ heap_bump' = b.at

\* hfree does nothing: the block is the guest's no longer, and nobody's.
HFree(b) ==
  /\ blocks' = (blocks \ {b}) \cup {[b EXCEPT !.live = 0]}
  /\ UNCHANGED heap_bump

Free == \E b \in Live : HFree(b) /\ ret' = 0

\* Mutant: the copy is as long as the rounded old block even if the new one
\* is shorter, and is then not made at all.
Kept_OnlyGrowing(old, n) ==
  IF old.need - HEADER > n THEN 0 ELSE Least(old.need - HEADER, CopyMax)

\* realloc copies what the old header says, cut to the new size and the buffer.
Kept(old, n) == Least(Least(old.need - HEADER, n), CopyMax)

Realloc == \E b \in Live, n \in Requests :
  \/ n = 0 /\ HFree(b) /\ ret' = 0
  \/ /\ n # 0
     /\ \/ Halloc(n, NewBlock(n, Kept(b, n), Least(b.n, n)),
                  (blocks \ {b}) \cup {[b EXCEPT !.live = 0]})
        \/ HallocFails(n)

\* A new guest in the same process: its memory is new and heap_init writes the
\* arena's first header, but the static bump pointer stays where it was.
HeapInit ==
  /\ blocks' = {} /\ ret' = 0
  /\ UNCHANGED heap_bump

Next == Malloc \/ Calloc \/ Free \/ Realloc \/ HeapInit

Spec == Init /\ [][Next]_vars

-----------------------------------------------------------------------------
(***************************************************************************)
(* Properties.                                                             *)
(***************************************************************************)

\* No request, rounded and with its header, is longer than the whole heap: the
\* condition under which the word arithmetic of halloc is exact.
Modest(n) == n + ALIGN + HEADER <= HeapSize - HEADER

ModestGuest ==
  /\ \A n \in Requests : Modest(n)
  /\ \A a \in Arrays : a[1] * a[2] < Word => Modest(a[1] * a[2])

\* A block handed out lies between the arena's header and its end.
InHeap(b) == First <= b.at /\ b.at + b.need <= HeapEnd
BlocksInHeap == \A b \in blocks : InHeap(b)

\* Sizes, addresses and the bump pointer stay machine words, and the blocks in the
\* heap: no sum of halloc wraps around or passes the end.
HeapWhole == TypeOK /\ BlocksInHeap

Apart(a, b) == a.at + a.need <= b.at \/ b.at + b.need <= a.at

\* No two blocks ever given to a guest share a byte, headers included, and the
\* bytes the guest asked for fit behind the header.  sosetta_hle_alloc_zeroed
\* depends on the blocks already freed too: it does not zero the memory it
\* returns, which is zero only because no block has been there.
BlocksApart ==
  /\ \A a, b \in blocks : a # b => Apart(a, b)
  /\ \A b \in blocks : HEADER + b.n <= b.need

\* realloc keeps the old block's bytes, as many as fit in the new one; for
\* requests no longer than the buffer it copies through.
SmallMoves == \A n \in Requests : n <= CopyMax

ReallocKeepsData == \A b \in blocks : b.kept >= b.due

(***************************************************************************)
(* The heap implements the arena, a block being what the guest asked for.  *)
(***************************************************************************)
Promised(b) == [at |-> Pointer(b), n |-> b.n]

A == INSTANCE Arena WITH
       Low  <- HeapBase,
       High <- HeapEnd,
       used <- {Promised(b) : b \in Live}

ImplementsArena == A!Spec
=============================================================================
