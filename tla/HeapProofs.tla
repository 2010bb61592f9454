----------------------------- MODULE HeapProofs -----------------------------
(***************************************************************************)
(* For a guest whose requests are modest (each fits in an empty heap) the  *)
(* word arithmetic of halloc is exact, and the blocks are where malloc     *)
(* promises: in the heap, apart from each other, as long as asked for.     *)
(***************************************************************************)
EXTENDS Heap, TLAPS

\* The blocks of S are well placed below top.
Sound(S, top) ==
  /\ S \subseteq BlockType
  /\ \A b \in S : First <= b.at /\ b.at + b.need <= top
  /\ \A b \in S : HEADER + b.n <= b.need
  /\ \A a, b \in S : a # b => Apart(a, b)

HeapInv ==
  /\ heap_bump \in 0 .. HeapEnd
  /\ ret \in 0 .. Word - 1
  /\ Sound(blocks, heap_bump)

\* The facts about the constants that the arithmetic below needs.
LEMMA Constants ==
  /\ Word \in Nat /\ HeapBase \in Nat /\ HeapSize \in Nat /\ CopyMax \in Nat
  /\ HEADER = 8 /\ ALIGN = 16 /\ First = HeapBase + 8 /\ HeapEnd = HeapBase + HeapSize
  /\ HeapSize > 8 /\ HeapBase > 0 /\ HeapEnd + HeapSize <= Word
BY HeapAssumption DEF HEADER, ALIGN, First, HeapEnd

-----------------------------------------------------------------------------
\* A number below the word is not cut.
LEMMA Uncut == ASSUME NEW x \in Nat, x < Word PROVE x % Word = x
BY Constants

\* A modest request is rounded up, by less than 16, and given its header.
LEMMA NeedBounds ==
  ASSUME NEW n \in Nat, Modest(n)
  PROVE  /\ n < Word /\ Need(n) \in Nat
         /\ n + HEADER <= Need(n) /\ Need(n) < n + HEADER + ALIGN
<1>1. n + 15 < Word /\ n + 24 <= HeapSize - 8
  BY Constants DEF Modest
<1> DEFINE r == (n + 15) % 16
<1>2. r \in 0 .. 15
  OBVIOUS
<1>3. (n + ALIGN - 1) % Word = n + 15
  BY <1>1, Uncut, Constants
<1>4. Need(n) = ((n + 15) - r + 8) % Word
  BY <1>3, Constants DEF Need
<1> HIDE DEF r
<1>5. (n + 15) - r + 8 \in Nat /\ (n + 15) - r + 8 < Word
  BY <1>1, <1>2, Constants
<1>6. Need(n) = (n + 15) - r + 8
  BY <1>4, <1>5, Uncut
<1> QED
  BY <1>1, <1>2, <1>6, Constants

\* calloc's test by division lets no product through that does not fit a word.
LEMMA ExactProduct ==
  ASSUME NEW c \in 0 .. Word - 1, NEW s \in 0 .. Word - 1, ProductExact(c, s)
  PROVE  c * s \in Nat /\ c * s < Word
<1>1. c * s \in Nat
  OBVIOUS
<1>2. CASE c = 0
  BY <1>2, Constants
<1>3. CASE c # 0
  <2> DEFINE n == (c * s) % Word
  <2>1. n \in 0 .. Word - 1
    BY <1>1, Constants
  <2>2. n \div c = s
    BY <1>3 DEF ProductExact
  <2> HIDE DEF n
  <2>3. c * (n \div c) <= n
    BY <2>1, <1>3, Constants
  <2>4. c * s <= n
    BY <2>2, <2>3
  <2> QED
    BY <1>1, <2>1, <2>4, Constants
<1> QED
  BY <1>2, <1>3

\* Freeing a block moves nothing.
LEMMA Retire ==
  ASSUME NEW S, NEW top \in Nat, Sound(S, top), NEW b \in S
  PROVE  Sound((S \ {b}) \cup {[b EXCEPT !.live = 0]}, top)
<1> DEFINE f == [b EXCEPT !.live = 0]
<1>1. f \in BlockType /\ f.at = b.at /\ f.need = b.need /\ f.n = b.n
  BY DEF Sound, BlockType
<1> HIDE DEF f
<1>2. \A a \in S \ {b} : Apart(a, f) /\ Apart(f, a)
  BY <1>1 DEF Sound, Apart
<1> QED
  BY <1>1, <1>2 DEF Sound, f

\* A block placed at or above the top is apart from all below it.
LEMMA Extend ==
  ASSUME NEW S, NEW top \in Nat, Sound(S, top), NEW b \in BlockType,
         First <= b.at, top <= b.at, HEADER + b.n <= b.need
  PROVE  Sound(S \cup {b}, b.at + b.need)
<1>1. b.at \in Nat /\ b.need \in Nat
  BY Constants DEF BlockType
<1>2. \A a \in S : a.at \in Nat /\ a.need \in Nat /\ a.at + a.need <= top
  BY Constants DEF Sound, BlockType
<1>3. \A a \in S : Apart(a, b) /\ Apart(b, a) /\ a.at + a.need <= b.at + b.need
  BY <1>1, <1>2 DEF Apart
<1> QED
  BY <1>1, <1>2, <1>3 DEF Sound

-----------------------------------------------------------------------------
(***************************************************************************)
(* halloc, called with a modest size and the old blocks, some freed.       *)
(***************************************************************************)
LEMMA HallocInv ==
  ASSUME HeapInv, NEW n \in Nat, Modest(n),
         NEW kept \in 0 .. Word - 1, NEW due \in 0 .. Word - 1,
         NEW others, Sound(others, heap_bump),
         Halloc(n, NewBlock(n, kept, due), others)
  PROVE  /\ HeapInv'
         /\ NewBlock(n, kept, due) \in BlockType
         /\ Sound(others \cup {NewBlock(n, kept, due)}, heap_bump')
         /\ heap_bump <= Start /\ n > 0
<1> DEFINE b == NewBlock(n, kept, due)
<1>1. /\ n < Word /\ Need(n) \in Nat /\ n > 0 /\ n % Word = n
      /\ n + HEADER <= Need(n) /\ Need(n) < n + HEADER + ALIGN
  BY NeedBounds, Uncut DEF Halloc, Fits
<1>2. heap_bump \in Nat /\ heap_bump <= HeapEnd
  BY Constants DEF HeapInv
<1>3. n + 24 <= HeapSize - 8
  BY Constants DEF Modest
<1>4. Start \in Nat /\ First <= Start /\ heap_bump <= Start
  BY <1>2, Constants DEF Start
<1>5. Start + Need(n) <= HeapEnd
  <2>1. (heap_bump + Need(n)) % Word = heap_bump + Need(n)
    BY <1>1, <1>2, <1>3, Uncut, Constants
  <2>2. heap_bump + Need(n) <= HeapEnd
    BY <2>1 DEF Halloc, Fits
  <2>3. First + Need(n) <= HeapEnd
    BY <1>1, <1>3, Constants
  <2> QED
    BY <1>2, <2>2, <2>3 DEF Start
<1>6. heap_bump' = Start + Need(n)
  BY <1>1, <1>4, <1>5, Uncut, Constants DEF Halloc, Bump
<1>7. /\ b = [at |-> Start, need |-> Need(n), n |-> n, live |-> 1,
              kept |-> kept, due |-> due]
      /\ b \in BlockType
  BY <1>1, <1>4, <1>5, Constants DEF NewBlock, BlockType
<1>8. Sound(others \cup {b}, Start + Need(n))
  BY <1>1, <1>2, <1>4, <1>7, Extend, Constants
<1>9. ret' \in 0 .. Word - 1
  BY <1>4, <1>7, Constants DEF Halloc, Pointer
<1> HIDE DEF b
<1>10. blocks' = others \cup {b}
  BY DEF Halloc, b
<1> QED
  BY <1>1, <1>4, <1>5, <1>6, <1>7, <1>8, <1>9, <1>10, Constants DEF HeapInv, b

\* The sizes each allocating call may pass to halloc.
LEMMA CallocModest ==
  ASSUME ModestGuest, NEW a \in Arrays, ProductExact(a[1], a[2])
  PROVE  /\ a[1] * a[2] \in Nat /\ Modest(a[1] * a[2])
         /\ (a[1] * a[2]) % Word = a[1] * a[2]
<1>1. a[1] \in 0 .. Word - 1 /\ a[2] \in 0 .. Word - 1
  BY HeapAssumption
<1>2. a[1] * a[2] \in Nat /\ a[1] * a[2] < Word
  BY <1>1, ExactProduct
<1> QED
  BY <1>2, Uncut DEF ModestGuest

LEMMA KeptType ==
  ASSUME HeapInv, ModestGuest, NEW b \in blocks, NEW n \in Requests
  PROVE  Kept(b, n) \in 0 .. Word - 1 /\ Least(b.n, n) \in 0 .. Word - 1
<1>1. /\ n \in 0 .. Word - 1
      /\ b.need \in 0 .. Word - 1 /\ b.n \in Nat /\ 8 + b.n <= b.need
  BY HeapAssumption, Constants DEF HeapInv, Sound, BlockType
<1> QED
  BY <1>1, Constants DEF Kept, Least

LEMMA InitHeapInv == Init => HeapInv
BY Constants DEF Init, HeapInv, Sound

LEMMA NextHeapInv ==
  ASSUME ModestGuest, HeapInv, [Next]_vars
  PROVE  HeapInv'
<1>0. Sound(blocks, heap_bump) /\ heap_bump \in Nat /\ 0 \in 0 .. Word - 1
  BY Constants DEF HeapInv
<1>1. ASSUME NEW n, HallocFails(n) PROVE HeapInv'
  BY <1>1, Constants DEF HallocFails, HeapInv
<1>2. CASE Malloc
  <2>1. PICK n \in Requests : Halloc(n, NewBlock(n, 0, 0), blocks) \/ HallocFails(n)
    BY <1>2 DEF Malloc
  <2>2. n \in Nat /\ Modest(n)
    BY HeapAssumption, Constants DEF ModestGuest
  <2> QED
    BY <1>0, <1>1, <2>1, <2>2, HallocInv
<1>3. CASE Calloc
  <2>1. PICK a \in Arrays :
          \/ /\ ProductExact(a[1], a[2])
             /\ \/ Halloc((a[1] * a[2]) % Word, NewBlock(a[1] * a[2], 0, 0), blocks)
                \/ HallocFails((a[1] * a[2]) % Word)
          \/ /\ ~ProductExact(a[1], a[2])
             /\ ret' = 0
             /\ UNCHANGED <<heap_bump, blocks>>
    BY <1>3 DEF Calloc
  <2>2. CASE ProductExact(a[1], a[2])
    <3>1. /\ a[1] * a[2] \in Nat /\ Modest(a[1] * a[2])
          /\ (a[1] * a[2]) % Word = a[1] * a[2]
      BY <2>2, CallocModest
    <3> DEFINE m == a[1] * a[2]
    <3>2. Halloc(m, NewBlock(m, 0, 0), blocks) \/ HallocFails(m)
      BY <2>1, <2>2, <3>1
    <3> HIDE DEF m
    <3> QED
      BY <1>0, <1>1, <3>1, <3>2, HallocInv DEF m
  <2>3. CASE ~ProductExact(a[1], a[2])
    BY <2>1, <2>3, Constants DEF HeapInv
  <2> QED
    BY <2>2, <2>3
<1>4. CASE Free
  <2>1. PICK b \in blocks : HFree(b) /\ ret' = 0
    BY <1>4 DEF Free, Live
  <2> QED
    BY <1>0, <2>1, Retire DEF HFree, HeapInv
<1>5. CASE Realloc
  <2>1. PICK b \in blocks, n \in Requests :
          \/ n = 0 /\ HFree(b) /\ ret' = 0
          \/ Halloc(n, NewBlock(n, Kept(b, n), Least(b.n, n)),
                    (blocks \ {b}) \cup {[b EXCEPT !.live = 0]})
          \/ HallocFails(n)
    BY <1>5 DEF Realloc, Live
  <2>2. Sound((blocks \ {b}) \cup {[b EXCEPT !.live = 0]}, heap_bump)
    BY <1>0, Retire
  <2>3. CASE HFree(b) /\ ret' = 0
    BY <1>0, <2>2, <2>3 DEF HFree, HeapInv
  <2>4. n \in Nat /\ Modest(n)
    BY HeapAssumption, Constants DEF ModestGuest
  <2>5. Kept(b, n) \in 0 .. Word - 1 /\ Least(b.n, n) \in 0 .. Word - 1
    BY KeptType
  <2> QED
    BY <1>1, <2>1, <2>2, <2>3, <2>4, <2>5, HallocInv
<1>6. CASE HeapInit
  BY <1>6, Constants DEF HeapInit, HeapInv, Sound
<1>7. CASE UNCHANGED vars
  BY <1>7 DEF vars, HeapInv, Sound
<1> QED
  BY <1>2, <1>3, <1>4, <1>5, <1>6, <1>7 DEF Next

\* Under a modest guest the bump pointer, the blocks and the results are words.
THEOREM HeapTypes ==
  ASSUME ModestGuest
  PROVE  Spec => []TypeOK
<1>1. HeapInv => TypeOK
  BY Constants DEF HeapInv, Sound, TypeOK
<1>2. HeapInv /\ [Next]_vars => HeapInv'
  BY NextHeapInv
<1> QED
  BY <1>1, <1>2, InitHeapInv, PTL DEF Spec

\* Every block given to a modest guest lies between the arena's header and the
\* end of the heap (halloc's bound holds, the first allocation included).
THEOREM BlocksStayInHeap ==
  ASSUME ModestGuest
  PROVE  Spec => []BlocksInHeap
<1>1. HeapInv => BlocksInHeap
  BY Constants DEF HeapInv, Sound, BlocksInHeap, InHeap, BlockType
<1>2. HeapInv /\ [Next]_vars => HeapInv'
  BY NextHeapInv
<1> QED
  BY <1>1, <1>2, InitHeapInv, PTL DEF Spec

\* Both together: for a modest guest the sums of halloc are exact.
THEOREM HeapStaysWhole ==
  ASSUME ModestGuest
  PROVE  Spec => []HeapWhole
<1> QED
  BY HeapTypes, BlocksStayInHeap, PTL DEF HeapWhole

\* No two blocks ever given to a modest guest share a byte, freed blocks
\* included, so the memory of a new block has never been written.
THEOREM BlocksStayApart ==
  ASSUME ModestGuest
  PROVE  Spec => []BlocksApart
<1>1. HeapInv => BlocksApart
  BY DEF HeapInv, Sound, BlocksApart
<1>2. HeapInv /\ [Next]_vars => HeapInv'
  BY NextHeapInv
<1> QED
  BY <1>1, <1>2, InitHeapInv, PTL DEF Spec

-----------------------------------------------------------------------------
(***************************************************************************)
(* realloc keeps the data.                                                 *)
(***************************************************************************)
LEMMA KeptEnough ==
  ASSUME HeapInv, ModestGuest, SmallMoves, NEW b \in blocks, NEW n \in Requests
  PROVE  Kept(b, n) >= Least(b.n, n)
<1>1. /\ n \in Nat /\ n <= CopyMax
      /\ b.need \in Nat /\ b.n \in Nat /\ 8 + b.n <= b.need
  BY HeapAssumption, Constants DEF HeapInv, Sound, BlockType, SmallMoves
<1> QED
  BY <1>1, Constants DEF Kept, Least

LEMMA NextReallocKeepsData ==
  ASSUME ModestGuest, SmallMoves, HeapInv, ReallocKeepsData, [Next]_vars
  PROVE  ReallocKeepsData'
<1>1. ASSUME NEW n, NEW kept \in Nat, NEW due \in Nat, kept >= due,
             blocks' = blocks \cup {NewBlock(n, kept, due)}
      PROVE  ReallocKeepsData'
  BY <1>1 DEF ReallocKeepsData, NewBlock
<1>2. ASSUME NEW b \in blocks, blocks' = (blocks \ {b}) \cup {[b EXCEPT !.live = 0]}
      PROVE  ReallocKeepsData'
  <2>1. b \in BlockType
    BY DEF HeapInv, Sound
  <2>2. [b EXCEPT !.live = 0].kept = b.kept /\ [b EXCEPT !.live = 0].due = b.due
    BY <2>1 DEF BlockType
  <2> QED
    BY <1>2, <2>2 DEF ReallocKeepsData
<1>3. CASE Malloc
  BY <1>1, <1>3 DEF Malloc, Halloc, HallocFails, ReallocKeepsData
<1>4. CASE Calloc
  BY <1>1, <1>4 DEF Calloc, Halloc, HallocFails, ReallocKeepsData
<1>5. CASE Free
  BY <1>2, <1>5 DEF Free, HFree, Live
<1>6. CASE Realloc
  <2>1. PICK b \in blocks, n \in Requests :
          \/ HFree(b)
          \/ Halloc(n, NewBlock(n, Kept(b, n), Least(b.n, n)),
                    (blocks \ {b}) \cup {[b EXCEPT !.live = 0]})
          \/ HallocFails(n)
    BY <1>6 DEF Realloc, Live
  <2> DEFINE new == NewBlock(n, Kept(b, n), Least(b.n, n))
             old == [b EXCEPT !.live = 0]
  <2>2. b \in BlockType
    BY DEF HeapInv, Sound
  <2>3. old.kept = b.kept /\ old.due = b.due
    BY <2>2 DEF BlockType
  <2>4. new.kept = Kept(b, n) /\ new.due = Least(b.n, n)
    BY DEF NewBlock
  <2> HIDE DEF new, old
  <2>5. CASE blocks' = (blocks \ {b}) \cup {old} \cup {new}
    BY <2>3, <2>4, <2>5, KeptEnough DEF ReallocKeepsData
  <2> QED
    BY <1>2, <2>1, <2>5 DEF HFree, Halloc, HallocFails, ReallocKeepsData, new, old
<1>7. CASE HeapInit \/ UNCHANGED vars
  BY <1>7 DEF HeapInit, vars, ReallocKeepsData
<1> QED
  BY <1>3, <1>4, <1>5, <1>6, <1>7 DEF Next

\* realloc of a block, for sizes its copy buffer holds, keeps the bytes of the
\* old block that fit in the new one (hle_realloc reads the rounded size).
THEOREM ReallocKeeps ==
  ASSUME ModestGuest, SmallMoves
  PROVE  Spec => []ReallocKeepsData
<1>1. Init => ReallocKeepsData
  BY DEF Init, ReallocKeepsData
<1>2. HeapInv /\ [Next]_vars => HeapInv'
  BY NextHeapInv
<1>3. HeapInv /\ ReallocKeepsData /\ [Next]_vars => ReallocKeepsData'
  BY NextReallocKeepsData
<1> QED
  BY <1>1, <1>2, <1>3, InitHeapInv, PTL DEF Spec

-----------------------------------------------------------------------------
(***************************************************************************)
(* The heap implements the arena.                                          *)
(***************************************************************************)
Used == {Promised(b) : b \in Live}

LEMMA LiveBlocks ==
  ASSUME HeapInv, NEW b \in blocks
  PROVE  /\ b.at \in Nat /\ b.need \in Nat /\ b.n \in Nat
         /\ First <= b.at /\ b.at + b.need <= heap_bump /\ 8 + b.n <= b.need
BY Constants DEF HeapInv, Sound, BlockType

\* Two live blocks are two promises.
LEMMA PromisesDiffer ==
  ASSUME HeapInv, NEW a \in blocks, NEW b \in blocks, a # b
  PROVE  Promised(a) # Promised(b)
<1>1. a.at # b.at
  <2>1. Apart(a, b)
    BY DEF HeapInv, Sound
  <2> QED
    BY <2>1, LiveBlocks DEF Apart
<1> QED
  BY <1>1, LiveBlocks, Constants DEF Promised, Pointer

\* A block from halloc may be promised beside every block still in use.
LEMMA FreshBlock ==
  ASSUME HeapInv, HeapInv', NEW b \in blocks', b.at = Start, heap_bump <= Start, b.n > 0
  PROVE  A!Fresh(Promised(b), Used)
<1>1. /\ b.at \in Nat /\ b.need \in Nat /\ b.n \in Nat
      /\ First <= b.at /\ b.at + b.need <= heap_bump' /\ 8 + b.n <= b.need
      /\ heap_bump' \in 0 .. HeapEnd
  BY Constants DEF HeapInv, Sound, BlockType
<1>2. Promised(b).at = b.at + 8 /\ Promised(b).n = b.n
  BY Constants DEF Promised, Pointer
<1>3. ASSUME NEW u \in Used PROVE ~A!Overlap(Promised(b), u)
  <2>1. PICK a \in blocks : u = Promised(a)
    BY <1>3 DEF Used, Live
  <2>2. u.at = a.at + 8 /\ u.n = a.n
    BY <2>1, Constants DEF Promised, Pointer
  <2>3. a.at + 8 + a.n <= heap_bump /\ a.at \in Nat /\ a.n \in Nat /\ heap_bump \in Nat
    BY LiveBlocks, Constants DEF HeapInv
  <2> QED
    BY <1>1, <1>2, <2>2, <2>3 DEF A!Overlap
<1> QED
  BY <1>1, <1>2, <1>3, Constants DEF A!Fresh

\* halloc for malloc and calloc.
LEMMA AllocateStep ==
  ASSUME HeapInv, NEW n \in Nat, Modest(n), Halloc(n, NewBlock(n, 0, 0), blocks)
  PROVE  A!Allocate
<1> DEFINE b == NewBlock(n, 0, 0)
<1>0. 0 \in 0 .. Word - 1 /\ Sound(blocks, heap_bump)
  BY Constants DEF HeapInv
<1>1. HeapInv' /\ heap_bump <= Start /\ n > 0
  BY <1>0, HallocInv
<1>2. b.at = Start /\ b.n = n /\ b.live = 1
  BY DEF NewBlock
<1> HIDE DEF b
<1>3. blocks' = blocks \cup {b}
  BY DEF Halloc, b
<1>4. Live' = Live \cup {b}
  BY <1>2, <1>3 DEF Live
<1>5. Used' = Used \cup {Promised(b)}
  BY <1>4 DEF Used
<1>6. A!Fresh(Promised(b), Used)
  BY <1>1, <1>2, <1>3, FreshBlock
<1> QED
  BY <1>5, <1>6 DEF A!Allocate, Used

LEMMA ReleaseStep ==
  ASSUME HeapInv, NEW b \in Live, HFree(b)
  PROVE  A!Release
<1> DEFINE f == [b EXCEPT !.live = 0]
<1>1. b \in BlockType /\ b \in blocks
  BY DEF HeapInv, Sound, Live
<1>2. f.live = 0
  BY <1>1 DEF BlockType
<1>3. blocks' = (blocks \ {b}) \cup {f}
  BY DEF HFree
<1> HIDE DEF f
<1>4. Live' = Live \ {b}
  BY <1>2, <1>3 DEF Live
<1>5. Used' = Used \ {Promised(b)}
  BY <1>4, PromisesDiffer DEF Used, Live
<1> QED
  BY <1>5 DEF A!Release, Used

LEMMA MoveStep ==
  ASSUME HeapInv, ModestGuest, NEW b \in Live, NEW n \in Requests,
         Halloc(n, NewBlock(n, Kept(b, n), Least(b.n, n)),
                (blocks \ {b}) \cup {[b EXCEPT !.live = 0]})
  PROVE  A!Move
<1> DEFINE f   == [b EXCEPT !.live = 0]
           new == NewBlock(n, Kept(b, n), Least(b.n, n))
<1>1. b \in BlockType /\ b \in blocks /\ n \in Nat /\ Modest(n)
  BY HeapAssumption, Constants DEF HeapInv, Sound, Live, ModestGuest
<1>2. f.live = 0
  BY <1>1 DEF BlockType
<1>3. HeapInv' /\ heap_bump <= Start /\ n > 0
  <2>1. Kept(b, n) \in 0 .. Word - 1 /\ Least(b.n, n) \in 0 .. Word - 1
    BY <1>1, KeptType
  <2>2. Sound((blocks \ {b}) \cup {[b EXCEPT !.live = 0]}, heap_bump)
    BY <1>1, Retire, Constants DEF HeapInv
  <2> QED
    BY <1>1, <2>1, <2>2, HallocInv
<1>4. new.at = Start /\ new.n = n /\ new.live = 1
  BY DEF NewBlock
<1> HIDE DEF f, new
<1>5. blocks' = (blocks \ {b}) \cup {f} \cup {new}
  BY DEF Halloc, f, new
<1>6. Live' = (Live \ {b}) \cup {new}
  BY <1>2, <1>4, <1>5 DEF Live
<1>7. Used' = (Used \ {Promised(b)}) \cup {Promised(new)}
  BY <1>1, <1>6, PromisesDiffer DEF Used, Live
<1>8. A!Fresh(Promised(new), Used)
  BY <1>3, <1>4, <1>5, FreshBlock
<1> QED
  BY <1>7, <1>8 DEF A!Move, Used

LEMMA StepImplements ==
  ASSUME ModestGuest, HeapInv, [Next]_vars
  PROVE  A!Next \/ UNCHANGED Used
<1>1. ASSUME NEW n, HallocFails(n) PROVE UNCHANGED Used
  BY <1>1 DEF HallocFails, Used, Live
<1>2. CASE Malloc
  <2>1. PICK n \in Requests : Halloc(n, NewBlock(n, 0, 0), blocks) \/ HallocFails(n)
    BY <1>2 DEF Malloc
  <2>2. n \in Nat /\ Modest(n)
    BY HeapAssumption, Constants DEF ModestGuest
  <2> QED
    BY <1>1, <2>1, <2>2, AllocateStep DEF A!Next
<1>3. CASE Calloc
  <2>1. PICK a \in Arrays :
          \/ /\ ProductExact(a[1], a[2])
             /\ \/ Halloc((a[1] * a[2]) % Word, NewBlock(a[1] * a[2], 0, 0), blocks)
                \/ HallocFails((a[1] * a[2]) % Word)
          \/ UNCHANGED blocks
    BY <1>3 DEF Calloc
  <2> DEFINE m == a[1] * a[2]
  <2>2. CASE /\ ProductExact(a[1], a[2])
             /\ Halloc((a[1] * a[2]) % Word, NewBlock(a[1] * a[2], 0, 0), blocks)
    <3>1. m \in Nat /\ Modest(m) /\ m % Word = m
      BY <2>2, CallocModest
    <3>2. Halloc(m, NewBlock(m, 0, 0), blocks)
      BY <2>2, <3>1
    <3> HIDE DEF m
    <3> QED
      BY <3>1, <3>2, AllocateStep DEF A!Next
  <2> QED
    BY <1>1, <2>1, <2>2 DEF Used, Live
<1>4. CASE Free
  BY <1>4, ReleaseStep DEF Free, A!Next
<1>5. CASE Realloc
  BY <1>1, <1>5, ReleaseStep, MoveStep DEF Realloc, A!Next
<1>6. CASE HeapInit
  BY <1>6 DEF HeapInit, A!Next, A!Discard, Live
<1>7. CASE UNCHANGED vars
  BY <1>7 DEF vars, Used, Live
<1> QED
  BY <1>2, <1>3, <1>4, <1>5, <1>6, <1>7 DEF Next

\* The bump allocator implements the abstract arena: each call hands out a
\* block clear of every block in use, gives one up, moves one, or does nothing.
THEOREM HeapImplementsArena ==
  ASSUME ModestGuest
  PROVE  Spec => ImplementsArena
<1>1. Init => A!Init
  BY DEF Init, A!Init, Live
<1>2. HeapInv /\ [Next]_vars => HeapInv'
  BY NextHeapInv
<1>3. HeapInv /\ [Next]_vars => [A!Next]_Used
  BY StepImplements
<1> QED
  BY <1>1, <1>2, <1>3, InitHeapInv, PTL DEF Spec, ImplementsArena, A!Spec, Used

=============================================================================
