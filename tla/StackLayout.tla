---------------------------- MODULE StackLayout -----------------------------
(***************************************************************************)
(* The block that sosetta_runtime_setup_stack (runtime.c) lays on top of   *)
(* the guest's stack: argc, the argument and environment vectors, then the *)
(* strings they point to.  One pass adds up the sizes, a second one places *)
(* the strings, and the words before them come last.  A string is its      *)
(* size, the final NUL included; main passes no environment, so the        *)
(* strings are the arguments.                                              *)
(***************************************************************************)
EXTENDS Integers, Sequences, FiniteSets

CONSTANT ADDRESSES   \* the number of guest addresses, 2^32

ASSUME StackLayoutAssumption == ADDRESSES \in Nat \ {0} /\ ADDRESSES % 16 = 0

VARIABLES
  phase,       \* the step of the start-up
  strings,     \* the sizes of the strings
  stack_top, stack_base,
  i,           \* how many strings the current loop has handled
  pool_len,    \* their total size
  off,         \* where the next string goes, counted from the vectors' end
  placed,      \* where each string was put, counted from the block's start
  argv_ptr,    \* the address of each string
  words,       \* what stands at the start of the block
  sp           \* the guest's r1: the address of the block

layout == <<i, pool_len, off, placed, argv_ptr, words, sp>>

\* (n + 3) & ~3, and & ~15
RoundUp4(n)   == n + ((-n) % 4)
Floor16(addr) == addr - (addr % 16)

Loops == 0 .. Len(strings)

LayoutOK ==
  /\ strings \in Seq(Nat \ {0})
  /\ stack_top \in Nat /\ stack_base \in Nat
  /\ i \in Loops
  /\ pool_len \in Nat /\ off \in Nat /\ sp \in Nat
  /\ placed \in Seq(Nat) /\ argv_ptr \in Seq(Nat) /\ words \in Seq(Nat)

NoLayout ==
  /\ i = 0 /\ pool_len = 0 /\ off = 0 /\ sp = 0
  /\ placed = <<>> /\ argv_ptr = <<>> /\ words = <<>>

-----------------------------------------------------------------------------
\* argc, the vectors with their two null ends, and the apple vector's.
WordsLen == 4 * (Len(strings) + 4)

TopAligned == Floor16(stack_top)

\* The size of the block, and of what is written to the guest.
BlockLen == (TopAligned - sp) % ADDRESSES

Measure ==
  /\ phase = "measure" /\ i < Len(strings)
  /\ pool_len' = pool_len + strings[i + 1]
  /\ i' = i + 1
  /\ UNCHANGED <<phase, off, placed, argv_ptr, words, sp>>

\* Mutant: the vectors get no room.
Reserve_StringsOnly ==
  /\ phase = "measure" /\ i = Len(strings)
  /\ LET at == Floor16((TopAligned - RoundUp4(pool_len)) % ADDRESSES)
     IN  /\ at >= stack_base
         /\ sp' = at /\ phase' = "place"
  /\ i' = 0
  /\ UNCHANGED <<pool_len, off, placed, argv_ptr, words>>

\* The block's address; the start-up fails when it is below the stack, or when the
\* host has no memory to build the block in.
Reserve ==
  /\ phase = "measure" /\ i = Len(strings)
  /\ LET at == Floor16((TopAligned - (WordsLen + RoundUp4(pool_len))) % ADDRESSES)
     IN  \/ /\ at >= stack_base
            /\ sp' = at /\ phase' \in {"place", "failed"}
         \/ /\ at < stack_base
            /\ sp' = sp /\ phase' = "failed"
  /\ i' = 0
  /\ UNCHANGED <<pool_len, off, placed, argv_ptr, words>>

Place ==
  /\ phase = "place" /\ i < Len(strings)
  /\ placed' = Append(placed, WordsLen + off)
  /\ argv_ptr' = Append(argv_ptr, (sp + (WordsLen + off)) % ADDRESSES)
  /\ off' = RoundUp4(off + strings[i + 1])
  /\ i' = i + 1
  /\ UNCHANGED <<phase, pool_len, words, sp>>

\* A string that ran past the block ran past the host's memory for it.
Overran == \E k \in 1 .. Len(placed) : placed[k] + strings[k] > BlockLen

\* argc, the arguments and a null, no environment but its null, and no apple vector.
\* The block goes to the guest; a host whose memory was overrun may die.
Write(mapped) ==
  /\ phase = "place" /\ i = Len(strings)
  /\ \/ mapped /\ phase' = "run"
     \/ ~mapped /\ phase' = "failed"
     \/ Overran /\ phase' = "failed"
  /\ words' = <<Len(strings)>> \o argv_ptr \o <<0, 0, 0>>
  /\ UNCHANGED <<i, pool_len, off, placed, argv_ptr, sp>>

-----------------------------------------------------------------------------
\* In the block, string k is where its pointer says, whole, clear of the
\* vectors and of every other string.
Whole(k) ==
  /\ WordsLen <= placed[k]
  /\ placed[k] + strings[k] <= BlockLen
  /\ \A j \in 1 .. Len(strings) :
       j < k => placed[j] + strings[j] <= placed[k]

AllWhole == Len(placed) = Len(strings) /\ \A k \in 1 .. Len(strings) : Whole(k)

\* The words are as many as there was room kept for, and each pointer has the address
\* of its string.
VectorsLead ==
  /\ 4 * Len(words) = WordsLen
  /\ words[1] = Len(strings)
  /\ \A k \in 1 .. Len(strings) : words[1 + k] = (sp + placed[k]) % ADDRESSES
  /\ \A k \in 1 .. 3 : words[1 + Len(strings) + k] = 0

\* The bytes left free behind the first k strings, by string and number.
Padding(k) == {x \in (1 .. k) \X (1 .. 3) : x[2] <= (-strings[x[1]]) % 4}

RoundUp16(n) == n + ((-n) % 16)

\* The padding behind all strings but the last is not counted in the size of the
\* block: it has to find room in what that was rounded up by.
RoomForPadding ==
  WordsLen + pool_len + Cardinality(Padding(Len(strings) - 1))
    <= RoundUp16(WordsLen + RoundUp4(pool_len))

\* The guest starts with argc and vectors that lead to its arguments, and finds all of
\* these whole exactly if their padding fits in the rounding of the block.
ArgumentsOnStack == phase = "run" => VectorsLead /\ (AllWhole <=> RoomForPadding)
=============================================================================
