------------------------------- MODULE Macho --------------------------------
(***************************************************************************)
(* The Mach-O parser of macho.c.  A file may be damaged: every size, count *)
(* and offset in it is as it comes.  Sums of 32-bit fields are cut to 32   *)
(* bits, as the code's are, while a read goes to the address it goes to.   *)
(*                                                                         *)
(* A file is its size, its header's fields and the load commands in the    *)
(* order a walk over their sizes meets them; what a command holds beyond   *)
(* its kind and size matters only where the parser tests it.               *)
(***************************************************************************)
EXTENDS Integers, Sequences, FiniteSets

CONSTANTS
  Word,     \* 2^32
  MaxSects, \* the most sections of a segment (256)
  Files     \* the files: thin ones, and fat ones with their slices

HDR32_SIZE == 28
HDR64_SIZE == 32
SEG32_SIZE == 56
SEG64_SIZE == 72
SECT32_SIZE == 68
SYMTAB_SIZE == 24
DYSYMTAB_SIZE == 80
THREAD_CMD_SIZE == 16
FAT_HEADER == 8
FAT_ARCH_SIZE == 20
MAX_ARCHS == 1000

Kinds == {"segment", "segment64", "symtab", "dysymtab", "thread", "other"}

\* Where a symbol table and its strings are in the image, and their sizes.
Tables == [symoff : 0 .. Word - 1, nsyms : 0 .. Word - 1,
           stroff : 0 .. Word - 1, strsize : 0 .. Word - 1]

\* n: the section count of a segment, the word count of a thread state.
\* tab: what a symtab command says.
Commands == [kind : Kinds, size : 0 .. Word - 1, n : 0 .. Word - 1, tab : Tables]

Thin == [magic : {"32", "64", "fat", "none"}, ppc : BOOLEAN,
         ncmds : 0 .. Word - 1, sizeofcmds : 0 .. Word - 1, cmds : Seq(Commands)]

Slices == [ppc : BOOLEAN, offset : 0 .. Word - 1, size : 0 .. Word - 1]

\* A thin file has no slices; in a fat one `thin' is what each slice holds.
FileType == [size : Nat, fat : BOOLEAN, nfat : 0 .. Word - 1, slices : Seq(Slices), thin : Thin]

ASSUME MachoAssumption ==
  /\ Word \in Nat /\ MaxSects \in Nat
  /\ Word > SEG32_SIZE + (MaxSects + 1) * SECT32_SIZE
  /\ Files \subseteq FileType

VARIABLES
  file,     \* the file, the same all along
  phase,    \* "start", "commands", "parsed" or "error"
  base, n,  \* where the Mach-O image is in the file, and its size
  off,      \* the offset of the next load command, in a word
  cend,     \* where the load commands end, in a word
  done,     \* how many commands have been handled
  segs,     \* the commands that became segments
  sects,    \* the sections: for each its command
  symtab,   \* the command the symbol table was taken from, or 0
  thread,   \* the same for the thread state
  reach     \* how far into the file the parser has read

parse == <<base, n, off, cend, done, segs, sects, symtab, thread>>
vars  == <<file, phase, parse, reach>>

ParseOK ==
  /\ base \in Nat /\ n \in Nat
  /\ off \in 0 .. Word - 1 /\ cend \in 0 .. Word - 1
  /\ done \in Nat /\ done <= file.thin.ncmds
  /\ segs \in Seq(1 .. done) /\ sects \in Seq(1 .. done)
  /\ symtab \in 0 .. done /\ thread \in 0 .. done
  /\ reach \in Nat

Init ==
  /\ file \in Files /\ phase = "start"
  /\ base = 0 /\ n = 0 /\ off = 0 /\ cend = 0 /\ done = 0
  /\ segs = <<>> /\ sects = <<>> /\ symtab = 0 /\ thread = 0
  /\ reach = 0

-----------------------------------------------------------------------------
Greatest(a, b) == IF a >= b THEN a ELSE b

\* The image's bytes up to `to' are read.
ReadsTo(to) == reach' = Greatest(reach, base' + to)

Fails == phase' = "error"

Image == file.thin

(***************************************************************************)
(* sosetta_macho_parse and parse_fat: which part of the file is parsed.    *)
(***************************************************************************)
\* Mutant: the sum is cut to a word, as the others are.
SliceFits_Word(s) == (s.offset + s.size) % Word <= file.size

\* This one sum has 64 bits.
SliceFits(s) == s.offset + s.size <= file.size

\* Slices that are for other machines or not in the file are passed over.
Chosen(k) ==
  /\ k \in DOMAIN file.slices
  /\ file.slices[k].ppc /\ SliceFits(file.slices[k])
  /\ \A j \in 1 .. k - 1 : ~(file.slices[j].ppc /\ SliceFits(file.slices[j]))

TableFits ==
  /\ file.size >= FAT_HEADER /\ file.nfat <= MAX_ARCHS
  /\ file.size >= FAT_HEADER + file.nfat * FAT_ARCH_SIZE

\* The image at b, of m bytes: its header is tested and its loop set up.
HeaderSize == IF Image.magic = "64" THEN HDR64_SIZE ELSE HDR32_SIZE

Begin(b, m) ==
  /\ base' = b /\ n' = m
  /\ LET end == (HeaderSize + Image.sizeofcmds) % Word
     IN  \/ /\ m < HDR32_SIZE
            /\ Fails
            /\ UNCHANGED <<off, cend, reach>>
         \/ /\ m >= HDR32_SIZE
            /\ ReadsTo(HDR32_SIZE)
            /\ off' = HeaderSize
            /\ cend' = end
            /\ phase' = IF Image.magic \in {"32", "64"} /\ Image.ppc /\ end <= m
                        THEN "commands" ELSE "error"
  /\ UNCHANGED <<file, done, segs, sects, symtab, thread>>

ParseThin == phase = "start" /\ ~file.fat /\ Begin(0, file.size)

ParseFat ==
  /\ phase = "start" /\ file.fat
  /\ \/ \E k \in DOMAIN file.slices :
          TableFits /\ Chosen(k) /\ Begin(file.slices[k].offset, file.slices[k].size)
     \/ /\ ~TableFits \/ \A k \in DOMAIN file.slices : ~Chosen(k)
        /\ Fails
        /\ UNCHANGED <<file, parse, reach>>

-----------------------------------------------------------------------------
(***************************************************************************)
(* The loop over the load commands.                                        *)
(***************************************************************************)
\* After the file's last command there are zeros.
Zeros == [kind |-> "other", size |-> 0, n |-> 0,
          tab |-> [symoff |-> 0, nsyms |-> 0, stroff |-> 0, strsize |-> 0]]

CommandAt(k) == IF k \in DOMAIN Image.cmds THEN Image.cmds[k] ELSE Zeros

Here    == done + 1
Command == CommandAt(Here)

More == done < Image.ncmds /\ (off + 8) % Word <= cend

WellFormed == Command.size >= 8 /\ (off + Command.size) % Word <= cend

\* A segment too short for one section has none, whatever its count says.
HasSects == Command.size >= SEG32_SIZE + SECT32_SIZE

SectsFit == Command.n <= MaxSects /\ SEG32_SIZE + Command.n * SECT32_SIZE <= Command.size

ThreadFits == Command.n <= (Command.size - THREAD_CMD_SIZE) \div 4

\* Each kind's own tests.
Accepted ==
  CASE Command.kind = "segment" ->
         Image.magic = "32" /\ Command.size >= SEG32_SIZE /\ (HasSects => SectsFit)
    [] Command.kind = "segment64" -> Image.magic = "64" /\ Command.size >= SEG64_SIZE
    [] Command.kind = "symtab"    -> Command.size >= SYMTAB_SIZE
    [] Command.kind = "dysymtab"  -> Command.size >= DYSYMTAB_SIZE
    [] Command.kind = "thread"    -> Command.size >= THREAD_CMD_SIZE /\ ThreadFits
    [] OTHER -> TRUE

\* A command of the kind is handled, `len' of its bytes being read.
Handles(kind, len) ==
  /\ phase = "commands" /\ More /\ WellFormed /\ Accepted
  /\ Command.kind = kind
  /\ UNCHANGED <<file, phase, base, n, cend>>
  /\ ReadsTo(off + len)
  /\ done' = done + 1
  /\ off' = (off + Command.size) % Word

\* Mutant: a section too many is read.
SectsRead_Through == IF HasSects THEN Command.n + 1 ELSE 0

SectsRead == IF HasSects THEN Command.n ELSE 0

Segment ==
  /\ Handles("segment", SEG32_SIZE + SectsRead * SECT32_SIZE)
  /\ segs' = Append(segs, Here)
  /\ sects' = sects \o [j \in 1 .. SectsRead |-> Here]
  /\ UNCHANGED <<symtab, thread>>

\* The sections of a 64-bit segment are not read.
Segment64 ==
  /\ Handles("segment64", SEG64_SIZE)
  /\ segs' = Append(segs, Here)
  /\ UNCHANGED <<sects, symtab, thread>>

\* Mutant: the first table found is kept.
Symtab_First ==
  /\ Handles("symtab", SYMTAB_SIZE)
  /\ symtab' = IF symtab = 0 THEN Here ELSE symtab
  /\ UNCHANGED <<segs, sects, thread>>

Symtab ==
  /\ Handles("symtab", SYMTAB_SIZE)
  /\ symtab' = Here
  /\ UNCHANGED <<segs, sects, thread>>

Dysymtab ==
  /\ Handles("dysymtab", 64)
  /\ UNCHANGED <<segs, sects, symtab, thread>>

\* Four words give the entry point and r1, 38 the other registers.
ThreadWords == IF Command.n >= 38 THEN 38 ELSE IF Command.n >= 4 THEN 4 ELSE 0

Thread ==
  /\ Handles("thread", THREAD_CMD_SIZE + 4 * ThreadWords)
  /\ thread' = IF ThreadWords > 0 THEN Here ELSE thread
  /\ UNCHANGED <<segs, sects, symtab>>

Other == Handles("other", 8) /\ UNCHANGED <<segs, sects, symtab, thread>>

\* What is read of a command before it is found wanting.
ReadOfMalformed ==
  CASE WellFormed /\ Command.kind = "segment" /\ Command.size >= SEG32_SIZE -> SEG32_SIZE
    [] WellFormed /\ Command.kind = "thread" /\ Command.size >= THREAD_CMD_SIZE -> THREAD_CMD_SIZE
    [] OTHER -> 8

Malformed ==
  /\ phase = "commands" /\ More /\ ~(WellFormed /\ Accepted)
  /\ Fails
  /\ reach' = Greatest(reach, base + off + ReadOfMalformed)
  /\ UNCHANGED <<file, parse>>

Parsed ==
  /\ phase = "commands" /\ ~More
  /\ phase' = "parsed"
  /\ UNCHANGED <<file, parse, reach>>

Handle == Segment \/ Segment64 \/ Symtab \/ Dysymtab \/ Thread \/ Other

Parse == ParseThin \/ ParseFat \/ Handle \/ Malformed \/ Parsed

-----------------------------------------------------------------------------
(***************************************************************************)
(* Properties.                                                             *)
(***************************************************************************)
\* No command's size is within a file's length of the end of the 32 bits.
Ordinary == \A k \in DOMAIN Image.cmds : Image.cmds[k].size + file.size < Word

\* Where the k-th command ends, and the header before them.
End[k \in 0 .. Image.ncmds] ==
  IF k = 0 THEN HeaderSize ELSE End[k - 1] + CommandAt(k).size

\* What a parsed file has (parse_thin's loop): the commands that end before the
\* commands' end and no others, every segment among them in the file's order, and
\* for each the sections it announces.
ParsedWhole ==
  phase = "parsed" /\ Ordinary =>
    /\ \A k \in 1 .. done : End[k] <= cend
    /\ done < Image.ncmds => End[done] + 8 > cend
    /\ \A j, k \in DOMAIN segs : j < k => segs[j] < segs[k]
    /\ {segs[j] : j \in DOMAIN segs} =
         {k \in 1 .. done : Image.cmds[k].kind \in {"segment", "segment64"}}
    /\ \A k \in 1 .. done : Image.cmds[k].kind = "segment" =>
         Cardinality({j \in DOMAIN sects : sects[j] = k}) =
           IF Image.cmds[k].size >= SEG32_SIZE + SECT32_SIZE THEN Image.cmds[k].n ELSE 0
=============================================================================
