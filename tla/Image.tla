------------------------------- MODULE Image --------------------------------
(***************************************************************************)
(* What becomes of a parsed image: the binding reads the names of its      *)
(* symbols (macho.c), and the debug tools walk its load commands a second  *)
(* time with a loop of their own to index its symbol table (debug.c).      *)
(***************************************************************************)
EXTENDS Macho, Symbols

VARIABLES
  walk,  \* the second walk: "before", "walking", "loaded" or "none"
  woff,  \* its offset, in a word
  wdone, \* how many commands it has passed
  wtab   \* the command it took the table from, or 0

ImageInit ==
  /\ Init /\ SymbolsInit
  /\ walk = "before" /\ woff = 0 /\ wdone = 0 /\ wtab = 0

walker == <<walk, woff, wdone, wtab>>
imageVars == <<vars, symbolVars, walker>>

\* How far the second walk and the names reach is measured as the parser's reach is.
Reads(to) == reach' = Greatest(reach, base + to)

-----------------------------------------------------------------------------
(***************************************************************************)
(* sosetta_debug_symtab_load, up to the allocation.                        *)
(***************************************************************************)
WalkBegins ==
  /\ phase = "parsed" /\ walk = "before"
  /\ walk' = IF Image.magic = "32" THEN "walking" ELSE "none"
  /\ woff' = HDR32_SIZE
  /\ UNCHANGED <<vars, symbolVars, wdone, wtab>>

Met == CommandAt(wdone + 1)

WalkOn == wdone < Image.ncmds /\ woff + 8 <= n

MetSymtab == Met.kind = "symtab" /\ Met.size >= SYMTAB_SIZE

\* The size of the command is not held against the end of the commands or the file.
WalkCommand ==
  /\ walk = "walking" /\ WalkOn /\ Met.size >= 8
  /\ wtab' = IF MetSymtab THEN wdone + 1 ELSE wtab
  /\ Reads(woff + IF MetSymtab THEN SYMTAB_SIZE ELSE 8)
  /\ woff' = (woff + Met.size) % Word
  /\ wdone' = wdone + 1
  /\ UNCHANGED <<file, phase, parse, symbolVars, walk>>

\* A command of less than 8 bytes, the end of the file or the last command.
WalkEnds == ~WalkOn \/ Met.size < 8

TablesFit(t) ==
  /\ t.symoff + t.nsyms * 12 <= n
  /\ t.stroff + t.strsize <= n

Usable == wtab # 0 /\ Image.cmds[wtab].tab.nsyms # 0 /\ TablesFit(Image.cmds[wtab].tab)

WalkLoads ==
  /\ walk = "walking" /\ WalkEnds /\ Usable
  /\ walk' = "loaded"
  /\ UNCHANGED <<vars, symbolVars, woff, wdone, wtab>>

\* No table, one outside the file, or no memory for the index.
WalkGivesUp ==
  /\ walk = "walking" /\ WalkEnds
  /\ walk' = "none"
  /\ UNCHANGED <<vars, symbolVars, woff, wdone, wtab>>

Walk == WalkBegins \/ WalkCommand \/ WalkLoads \/ WalkGivesUp

-----------------------------------------------------------------------------
(***************************************************************************)
(* sosetta_macho_sym_name and sosetta_macho_sym_undef, for a symbol of the *)
(* table the parser found.                                                 *)
(***************************************************************************)
Table == CommandAt(symtab).tab

Entry(k) == Table.symoff + ((k * 12) % Word)

\* The entry is read and, when its name begins in the strings, at the most all of
\* them; or only its type.
SymName ==
  /\ phase = "parsed"
  /\ \E k \in 0 .. Table.nsyms - 1 :
       \/ Reads(Greatest(Entry(k) + 4, IF Table.strsize > 0 THEN Table.stroff + Table.strsize ELSE 0))
       \/ Reads(Entry(k) + 4)
       \/ Reads(Entry(k) + 5)
  /\ UNCHANGED <<file, phase, parse, symbolVars, walker>>

-----------------------------------------------------------------------------
Index ==
  /\ walk = "loaded"
  /\ SymbolsNext
  /\ UNCHANGED <<vars, walker>>

ImageNext ==
  \/ Parse /\ UNCHANGED <<symbolVars, walker>>
  \/ Walk
  \/ SymName
  \/ Index

\* The host's loops run on; a lookup is one of them, asking for it is not.
ImageSpec == ImageInit /\ [][ImageNext]_imageVars /\ WF_imageVars(walk = "loaded" /\ Lookup /\ UNCHANGED <<vars, walker>>)

-----------------------------------------------------------------------------
(***************************************************************************)
(* Properties.                                                             *)
(***************************************************************************)
TypeOK == ParseOK /\ SymbolsOK

\* The header counts the commands that are there, and the parser's table is in the
\* file; neither is tested by the parser.
CountTrue  == done = Image.ncmds
TableTrue  == symtab # 0 => TablesFit(Table)
WellFormedImage == Ordinary /\ (phase = "parsed" => CountTrue /\ TableTrue)

\* However a file is cut off and whatever counts and sizes it has, fat or thin, the
\* parser never reads past its end, unless a command's size is so near 2^32 that
\* its end wraps around; nor, when the counts and the symbol table are true, do
\* the second walk and the reading of names (macho.c, debug.c 43-66).
ReadsInFile ==
  (IF phase = "parsed" THEN WellFormedImage ELSE Ordinary) => reach <= file.size

\* The debug tools index the table that the binding takes its names from: two loops
\* over the same commands, with different tests, end with the same LC_SYMTAB.
SymtabAgrees ==
  walk = "loaded" /\ Ordinary /\ CountTrue => wtab = symtab

\* A lookup of an address ends, whatever the table: each turn of the binary search
\* makes the window smaller (debug.c 105-112).
LookupEnds == state = "asked" ~> state = "ready"

\* The parser never counts more commands than the header has, and the search over the
\* index never loses its entry.
SearchSound == TypeOK /\ SearchKeepsNearest
=============================================================================
