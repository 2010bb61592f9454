----------------------------- MODULE MCStartup ------------------------------
(***************************************************************************)
(* Seventeen pages of 64 bytes, in the order of the real address space:    *)
(* the image from page 1, unfixed mappings from 3, the heap, the library's *)
(* other regions, the traps, the default stack in two pages, the stubs,    *)
(* and a last page that Unicorn does not map.                              *)
(***************************************************************************)
EXTENDS Startup

Addresses == 64 * 17
Window    == 0 .. 15
HeapAt  == {6, 7}
MiscAt  == {8}
RuneAt  == {9}
SFAt    == {10}
ShimAt  == {11}
TrapsAt == {12}
StubAt  == {15}

Plain == [segments |-> <<{1}, {2}>>, indirect |-> 1, entry_sp |-> 0, entry_pc |-> 1]

\* Images that differ from the plain one: no entry point; segments that share a
\* page, that take the place of the hint, the heap, a library page, the stubs,
\* the traps, a part of the default stack or of both stacks; a thread stack in
\* the hint's way, unaligned, taken, wrapping below 0, not mappable.
With(segments) == [Plain EXCEPT !.segments = segments]
At(top) == [Plain EXCEPT !.entry_sp = top]

SomeImages ==
  {Plain, [Plain EXCEPT !.entry_pc = 0], [Plain EXCEPT !.indirect = 0],
   With(<<{1, 2}, {2, 3}>>), With(<<{1}, {3}>>), With(<<{1}, {5, 6}>>),
   With(<<{1}, {8}>>), With(<<{1}, {15}>>),
   With(<<{1}, {12}>>), With(<<{1}, {13}>>), With(<<{1}, {14}>>),
   [segments |-> <<{4}, {13}>>, indirect |-> 1, entry_sp |-> 64 * 5, entry_pc |-> 1],
   At(64 * 5), At(64 * 4), At(64 * 5 + 24), At(64 * 12), At(40), At(64 * 17 - 8)}

\* None; one short argument; curl -V; a padding that fits, one that just fits, one a
\* byte too much; arguments that fill their words, too many of them; the command line
\* of the repository's own test.
SomeCommands ==
  {<<>>, <<5>>, <<5, 3>>, <<5, 7>>, <<9, 2, 4>>, <<9, 2, 5>>, <<4, 8, 3>>, <<60, 40, 4>>,
   <<9, 6, 5>>}

ASSUME RegionsApart
=============================================================================
