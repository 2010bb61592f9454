------------------------------ MODULE MCImage -------------------------------
(***************************************************************************)
(* Small damaged and sound files for Image, in words of 10 bits.           *)
(***************************************************************************)
EXTENDS Image

MCWord == 1024

NoTab == [symoff |-> 0, nsyms |-> 0, stroff |-> 0, strsize |-> 0]

Cmd(kind, size, count) == [kind |-> kind, size |-> size, n |-> count, tab |-> NoTab]
Sym(size, tab) == [kind |-> "symtab", size |-> size, n |-> 0, tab |-> tab]

Tab(a, b, c, d) == [symoff |-> a, nsyms |-> b, stroff |-> c, strsize |-> d]

SomeCommands ==
  { Cmd("segment", 56, 3), Cmd("segment", 124, 1), Cmd("segment", 124, 2), Cmd("segment", 192, 2),
    Cmd("segment64", 72, 0), Cmd("dysymtab", 80, 0), Cmd("dysymtab", 79, 0),
    Cmd("thread", 32, 4), Cmd("thread", 32, 5), Cmd("thread", 168, 38),
    Cmd("other", 8, 0), Cmd("other", 4, 0), Cmd("other", 1000, 0),
    Sym(24, Tab(28, 2, 52, 4)), Sym(24, Tab(1020, 3, 28, 8)), Sym(24, Tab(28, 1, 1000, 40)),
    Sym(24, Tab(28, 0, 28, 8)), Sym(20, Tab(28, 2, 52, 4)) }

CommandLists == UNION { [1 .. k -> SomeCommands] : k \in 0 .. 2 }

RECURSIVE Bytes(_, _)
Bytes(cmds, k) == IF k = 0 THEN 0 ELSE Bytes(cmds, k - 1) + cmds[k].size

ThinOf(magic, cmds, ncmds, sizeofcmds) ==
  [magic |-> magic, ppc |-> TRUE, ncmds |-> ncmds, sizeofcmds |-> sizeofcmds, cmds |-> cmds]

HeaderOf(magic) == IF magic = "64" THEN 32 ELSE 28

\* Sound and cut off; with a command too many or too few, and sizes that are too
\* small, exact, a little too large or wrap around.
Of(size, thin) == [size |-> size, fat |-> FALSE, nfat |-> 0, slices |-> <<>>, thin |-> thin]

ThinFiles ==
  { f \in
      { Of(Greatest(HeaderOf(magic) + Bytes(cmds, Len(cmds)) + cut, 4),
           ThinOf(magic, cmds, Greatest(Len(cmds) + extra, 0),
                  (Bytes(cmds, Len(cmds)) + wrong) % MCWord)) :
          magic \in {"32", "64"}, cmds \in CommandLists,
          cut \in {-1, 0, 40}, extra \in {-1, 0, 1}, wrong \in {-24, -4, 0, 12} } : f.size < 700 }

OddHeaders ==
  { Of(size, ThinOf(magic, <<>>, 1, sizeofcmds)) :
      size \in {4, 27, 28, 40}, magic \in {"32", "64", "none"}, sizeofcmds \in {0, 8, 1000} }
  \cup { Of(60, [ThinOf("32", <<>>, 0, 0) EXCEPT !.ppc = FALSE]) }

Slice(ppc, offset, size) == [ppc |-> ppc, offset |-> offset, size |-> size]

SomeSlices == { Slice(FALSE, 48, 60), Slice(TRUE, 48, 60), Slice(TRUE, 80, 60), Slice(TRUE, 1000, 60),
                Slice(TRUE, 100, 10) }

FatFiles ==
  { [size |-> size, fat |-> TRUE, nfat |-> nfat, slices |-> slices,
     thin |-> ThinOf(magic, <<Sym(24, Tab(28, 1, 40, 8))>>, 1, 24)] :
      size \in {6, 20, 120, 200}, nfat \in {Len(slices) : slices \in {<<>>}} \cup {1, 2, 1001},
      slices \in UNION { [1 .. k -> SomeSlices] : k \in 0 .. 2 }, magic \in {"32", "64", "none"} }

MCFiles == ThinFiles \cup OddHeaders \cup
           { f \in FatFiles : f.nfat = Len(f.slices) \/ f.nfat = 1001 }

MCSymbolTables ==
  { <<>>,
    << [sect |-> TRUE, value |-> 5, named |-> TRUE], [sect |-> FALSE, value |-> 6, named |-> TRUE],
       [sect |-> TRUE, value |-> 2, named |-> FALSE], [sect |-> TRUE, value |-> 5, named |-> TRUE] >>,
    << [sect |-> TRUE, value |-> 0, named |-> TRUE], [sect |-> TRUE, value |-> 3, named |-> TRUE],
       [sect |-> TRUE, value |-> 7, named |-> TRUE], [sect |-> TRUE, value |-> 4, named |-> TRUE] >> }

MCAddresses == {0, 2, 3, 5, 6, 9}
=============================================================================
