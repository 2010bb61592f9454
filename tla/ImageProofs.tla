----------------------------- MODULE ImageProofs -----------------------------
(***************************************************************************)
(* For every symbol table and every address: the index holds the symbols   *)
(* of the sections and no others, in the order of their addresses, and the *)
(* search ends at the last one at or below the address.                    *)
(*                                                                         *)
(* For files of any size, with any counts, sizes and offsets: the parser   *)
(* reads inside the file, and so do the second walk and the reading of     *)
(* names when the header's count and the symbol table are true; the two    *)
(* walks then end with the same symbol table. A file that is parsed is     *)
(* parsed whole.                                                           *)
(*                                                                         *)
(* For every table of functions, image and size of the trap region: which  *)
(* function the binding gives each symbol of a parsed image.               *)
(***************************************************************************)
EXTENDS Image, Bind, FiniteSetTheorems, WellFoundedInduction, TLAPS

Sorted == \A j, k \in 1 .. Len(entries) : j < k => AddrOf(j) <= AddrOf(k)

\* The index has the symbols read so far that belong in it, and only those.
Faithful ==
  /\ \A k \in 1 .. Len(entries) : entries[k] < i /\ Indexed(syms[entries[k]])
  /\ \A s \in 1 .. i - 1 :
       Indexed(syms[s]) => \E k \in 1 .. Len(entries) : entries[k] = s

SymbolsInv ==
  /\ SymbolsOK /\ Faithful
  /\ Len(entries) < i
  /\ state \in {"none", "reading"} => lo = 0 /\ hi = 0 /\ answer = Hex
  /\ state \in {"ready", "asked"} => Sorted /\ i = Len(syms) + 1
  /\ SearchKeepsNearest
  /\ NamedAfterNearest

\* A symbol table is a sequence of symbols with natural addresses.
LEMMA SymbolType ==
  ASSUME SymbolsOK
  PROVE  /\ syms \in Seq(Symbol) /\ Len(syms) \in Nat /\ Len(entries) \in Nat
         /\ \A s \in 1 .. Len(syms) : syms[s] \in Symbol /\ syms[s].value \in Nat
         /\ \A k \in 1 .. Len(entries) : entries[k] \in 1 .. Len(syms) /\ AddrOf(k) \in Nat
<1>1. syms \in Seq(Symbol) /\ Len(syms) \in Nat /\ Len(entries) \in Nat
  BY SymbolsAssumption DEF SymbolsOK
<1>2. \A s \in 1 .. Len(syms) : syms[s] \in Symbol /\ syms[s].value \in Nat
  <2>1. \A s \in 1 .. Len(syms) : syms[s] \in Symbol
    BY <1>1
  <2>2. \A r \in Symbol : r.value \in Nat
    BY DEF Symbol
  <2> QED BY <2>1, <2>2
<1>3. \A k \in 1 .. Len(entries) : entries[k] \in 1 .. Len(syms)
  BY <1>1 DEF SymbolsOK
<1> QED BY <1>1, <1>2, <1>3 DEF AddrOf

\* An arrangement of the entries leaves none out.
LEMMA ArrangementIsOnto ==
  ASSUME NEW len \in Nat, NEW p \in [1 .. len -> 1 .. len],
         \A j, k \in 1 .. len : j # k => p[j] # p[k]
  PROVE  \A m \in 1 .. len : \E k \in 1 .. len : p[k] = m
<1>1. p \in Injection(1 .. len, 1 .. len)
  BY DEF Injection, IsInjective
<1>2. IsFiniteSet(1 .. len)
  BY FS_Interval
<1>3. p \in Surjection(1 .. len, 1 .. len)
  BY <1>1, <1>2, FS_Injection
<1> QED BY <1>3 DEF Surjection

LEMMA SymbolsInvHolds == SymbolsInit => SymbolsInv
<1> SUFFICES ASSUME SymbolsInit PROVE SymbolsInv
  OBVIOUS
<1>1. syms \in Seq(Symbol) /\ Len(syms) \in Nat
  BY SymbolsAssumption DEF SymbolsInit
<1>2. SymbolsOK
  BY <1>1 DEF SymbolsInit, SymbolsOK, Hex
<1>3. Faithful
  BY DEF SymbolsInit, Faithful
<1> QED BY <1>2, <1>3 DEF SymbolsInit, SymbolsInv, SearchKeepsNearest, NamedAfterNearest

-----------------------------------------------------------------------------
LEMMA ReadSymbolStep == SymbolsInv /\ ReadSymbol => SymbolsInv'
<1> SUFFICES ASSUME SymbolsInv, ReadSymbol PROVE SymbolsInv'
  OBVIOUS
<1> USE DEF SymbolsInv
<1>1. /\ syms' = syms /\ state' = state /\ i' = i + 1 /\ i \in 1 .. Len(syms)
      /\ lo' = lo /\ hi' = hi /\ addr' = addr /\ answer' = answer
      /\ state = "reading" /\ lo = 0 /\ hi = 0 /\ answer = Hex
  BY DEF ReadSymbol, search, SymbolsOK
<1>2. entries \in Seq(1 .. Len(syms)) /\ Len(entries) < i /\ Len(syms) \in Nat
  BY SymbolType DEF SymbolsOK
<1>3. CASE Indexed(syms[i])
  <2>1. entries' = Append(entries, i)
    BY <1>3 DEF ReadSymbol
  <2>2. /\ entries' \in Seq(1 .. Len(syms)) /\ Len(entries') = Len(entries) + 1
        /\ entries'[Len(entries) + 1] = i
        /\ \A k \in 1 .. Len(entries) : entries'[k] = entries[k]
    BY <1>1, <1>2, <2>1
  <2>3. SymbolsOK' /\ Len(entries') < i'
    BY <1>1, <1>2, <2>2 DEF SymbolsOK, Hex
  <2>4. Faithful'
    <3>1. \A k \in 1 .. Len(entries') : entries'[k] < i' /\ Indexed(syms[entries'[k]])
      <4> TAKE k \in 1 .. Len(entries')
      <4>1. CASE k = Len(entries) + 1
        BY <4>1, <1>1, <1>3, <2>2
      <4>2. CASE k \in 1 .. Len(entries)
        <5>1. entries'[k] = entries[k] BY <4>2, <2>2
        <5>2. entries[k] < i /\ Indexed(syms[entries[k]]) BY <4>2, <1>1 DEF Faithful
        <5>3. entries[k] \in Int /\ i \in Int BY <4>2, <1>1, <1>2
        <5> QED BY <1>1, <5>1, <5>2, <5>3
      <4> QED BY <4>1, <4>2, <2>2, <1>2
    <3>2. ASSUME NEW s \in 1 .. i' - 1, Indexed(syms[s])
          PROVE  \E k \in 1 .. Len(entries') : entries'[k] = s
      <4>1. CASE s = i
        BY <4>1, <1>2, <2>2
      <4>2. CASE s \in 1 .. i - 1
        <5>1. PICK k \in 1 .. Len(entries) : entries[k] = s
          BY <4>2, <3>2 DEF Faithful
        <5> QED BY <5>1, <1>2, <2>2
      <4> QED BY <4>1, <4>2, <1>1
    <3> QED BY <3>1, <3>2, <1>1 DEF Faithful, Indexed
  <2> QED BY <1>1, <2>3, <2>4 DEF SearchKeepsNearest, NamedAfterNearest
<1>4. CASE ~Indexed(syms[i])
  <2>1. entries' = entries
    BY <1>4 DEF ReadSymbol
  <2>2. SymbolsOK' /\ Len(entries') < i'
    BY <1>1, <1>2, <2>1 DEF SymbolsOK, Hex
  <2>3. Faithful'
    <3>1. \A k \in 1 .. Len(entries) : entries[k] < i + 1 /\ Indexed(syms[entries[k]])
      BY <1>1, <1>2 DEF Faithful
    <3>2. \A s \in 1 .. i : Indexed(syms[s]) => \E k \in 1 .. Len(entries) : entries[k] = s
      BY <1>1, <1>4 DEF Faithful
    <3> QED BY <3>1, <3>2, <1>1, <2>1 DEF Faithful, Indexed
  <2> QED BY <1>1, <2>2, <2>3 DEF SearchKeepsNearest, NamedAfterNearest
<1> QED BY <1>3, <1>4

LEMMA SortEntriesStep == SymbolsInv /\ SortEntries => SymbolsInv'
<1> SUFFICES ASSUME SymbolsInv, SortEntries PROVE SymbolsInv'
  OBVIOUS
<1> USE DEF SymbolsInv
<1> DEFINE len == Len(entries)
<1>1. /\ syms' = syms /\ state' = "ready" /\ i' = i /\ i > Len(syms)
      /\ lo' = lo /\ hi' = hi /\ addr' = addr /\ answer' = answer
      /\ lo = 0 /\ hi = 0 /\ answer = Hex
  BY DEF SortEntries, search
<1>2. PICK p \in [1 .. len -> 1 .. len] :
        Arranges(p) /\ entries' = [k \in 1 .. len |-> entries[p[k]]]
  BY DEF SortEntries
<1>3. len \in Nat /\ Len(syms) \in Nat /\ \A k \in 1 .. len : entries[k] \in 1 .. Len(syms)
  BY SymbolType
<1>4. /\ entries' \in Seq(1 .. Len(syms)) /\ Len(entries') = len
      /\ \A k \in 1 .. len : entries'[k] = entries[p[k]]
  BY <1>2, <1>3
<1>5. SymbolsOK'
  BY <1>1, <1>3, <1>4 DEF SymbolsOK, Hex
<1>6. Faithful'
  <2>1. \A k \in 1 .. len : entries'[k] < i /\ Indexed(syms[entries'[k]])
    BY <1>2, <1>4 DEF Faithful
  <2>2. ASSUME NEW s \in 1 .. i - 1, Indexed(syms[s])
        PROVE  \E k \in 1 .. len : entries'[k] = s
    <3>1. PICK m \in 1 .. len : entries[m] = s
      BY <2>2 DEF Faithful
    <3>2. PICK k \in 1 .. len : p[k] = m
      BY <1>2, <1>3, ArrangementIsOnto, ZenonT(30) DEF Arranges
    <3> QED BY <3>1, <3>2, <1>4
  <2> QED BY <2>1, <2>2, <1>1, <1>4 DEF Faithful, Indexed
<1>7. Sorted'
  BY <1>1, <1>2, <1>3, <1>4 DEF Sorted, AddrOf, Arranges
<1>8. i' = Len(syms) + 1 /\ Len(entries') < i'
  BY <1>1, <1>3, <1>4 DEF SymbolsOK
<1> QED BY <1>1, <1>5, <1>6, <1>7, <1>8 DEF SearchKeepsNearest, NamedAfterNearest

-----------------------------------------------------------------------------
\* The middle of the window lies in it.
LEMMA MidInWindow ==
  ASSUME NEW a \in Nat, NEW b \in Nat, a < b
  PROVE  a + (b - a) \div 2 \in Nat /\ a <= a + (b - a) \div 2 /\ a + (b - a) \div 2 < b
OBVIOUS

LEMMA HalveStep == SymbolsInv /\ Halve => SymbolsInv'
<1> SUFFICES ASSUME SymbolsInv, Halve PROVE SymbolsInv'
  OBVIOUS
<1> USE DEF SymbolsInv
<1>1. /\ syms' = syms /\ entries' = entries /\ state' = "asked" /\ state = "asked"
      /\ i' = i /\ addr' = addr /\ answer' = answer /\ lo < hi
  BY DEF Halve
<1>2. /\ lo \in Nat /\ hi \in Nat /\ hi <= Len(entries) /\ Len(entries) \in Nat /\ addr \in Nat
      /\ \A k \in 1 .. Len(entries) : AddrOf(k) \in Nat
  BY SymbolType DEF SymbolsOK
<1>3. Mid \in Nat /\ lo <= Mid /\ Mid < hi
  BY <1>1, <1>2, MidInWindow DEF Mid
<1>4. SymbolsOK'
  BY <1>1, <1>2, <1>3 DEF SymbolsOK, Halve
<1>5. Faithful' /\ Sorted'
  BY <1>1 DEF Faithful, Indexed, Sorted, AddrOf
<1>6. SearchKeepsNearest'
  <2>1. /\ \A k \in 1 .. lo : AddrOf(k) <= addr
        /\ \A k \in hi + 1 .. Len(entries) : AddrOf(k) > addr
        /\ \A j, k \in 1 .. Len(entries) : j < k => AddrOf(j) <= AddrOf(k)
    BY <1>1 DEF SearchKeepsNearest, Sorted
  <2>2. CASE Before /\ lo' = Mid + 1 /\ hi' = hi
    <3>1. \A k \in 1 .. Mid + 1 : AddrOf(k) <= addr
      <4> TAKE k \in 1 .. Mid + 1
      <4>1. AddrOf(Mid + 1) <= addr
        BY <2>2 DEF Before
      <4>2. k \in 1 .. Len(entries) /\ Mid + 1 \in 1 .. Len(entries)
        BY <1>2, <1>3
      <4>3. k = Mid + 1 \/ AddrOf(k) <= AddrOf(Mid + 1)
        BY <4>2, <1>3, <2>1
      <4> QED BY <4>1, <4>2, <4>3, <1>2
    <3> QED BY <3>1, <2>1, <2>2, <1>1 DEF SearchKeepsNearest, AddrOf
  <2>3. CASE ~Before /\ hi' = Mid /\ lo' = lo
    <3>1. \A k \in Mid + 1 .. Len(entries) : AddrOf(k) > addr
      <4> TAKE k \in Mid + 1 .. Len(entries)
      <4>1. ~(AddrOf(Mid + 1) <= addr)
        BY <2>3 DEF Before
      <4>2. k \in 1 .. Len(entries) /\ Mid + 1 \in 1 .. Len(entries)
        BY <1>2, <1>3
      <4>3. k = Mid + 1 \/ AddrOf(Mid + 1) <= AddrOf(k)
        BY <4>2, <1>3, <2>1
      <4> QED BY <4>1, <4>2, <4>3, <1>2
    <3> QED BY <3>1, <2>1, <2>3, <1>1 DEF SearchKeepsNearest, AddrOf
  <2> QED BY <2>2, <2>3 DEF Halve
<1> QED BY <1>1, <1>4, <1>5, <1>6 DEF NamedAfterNearest

\* The last entry at or below the address is the answer, for no symbol of a section
\* is outside the index.
LEMMA TellStep == SymbolsInv /\ Tell => SymbolsInv'
<1> SUFFICES ASSUME SymbolsInv, Tell PROVE SymbolsInv'
  OBVIOUS
<1> USE DEF SymbolsInv
<1>1. /\ syms' = syms /\ entries' = entries /\ state' = "ready" /\ state = "asked"
      /\ i' = i /\ lo' = lo /\ hi' = hi /\ addr' = addr /\ answer' = Found /\ lo >= hi
  BY DEF Tell
<1>2. /\ lo = hi /\ lo \in 0 .. Len(entries) /\ Len(entries) \in Nat /\ addr \in Nat
      /\ \A k \in 1 .. Len(entries) : entries[k] \in 1 .. Len(syms) /\ AddrOf(k) \in Nat
      /\ Len(syms) \in Nat
  BY <1>1, SymbolType DEF SymbolsOK
<1>3. Found \in 0 .. Len(syms)
  BY <1>2 DEF Found, Hex
<1>4. SymbolsOK'
  BY <1>1, <1>2, <1>3 DEF SymbolsOK
<1>5. Faithful' /\ Sorted'
  BY <1>1 DEF Faithful, Indexed, Sorted, AddrOf
<1>6. NamedAfterNearest'
  <2> SUFFICES ASSUME Found # Hex
               PROVE  /\ syms[Found].sect /\ syms[Found].value <= addr
                      /\ \A s \in 1 .. Len(syms) :
                           syms[s].sect /\ syms[s].value # 0 /\ syms[s].value <= addr
                             => syms[s].value <= syms[Found].value
    BY <1>1 DEF NamedAfterNearest
  <2>1. lo \in 1 .. Len(entries) /\ Found = entries[lo]
    BY <1>2 DEF Found
  <2>2. syms[Found].sect
    BY <2>1 DEF Faithful, Indexed
  <2>3. syms[Found].value = AddrOf(lo) /\ AddrOf(lo) <= addr
    BY <1>1, <1>2, <2>1 DEF AddrOf, SearchKeepsNearest
  <2>4. ASSUME NEW s \in 1 .. Len(syms),
               syms[s].sect, syms[s].value # 0, syms[s].value <= addr
        PROVE  syms[s].value <= syms[Found].value
    <3>1. PICK k \in 1 .. Len(entries) : entries[k] = s
      BY <1>1, <1>2, <2>4 DEF Faithful, Indexed
    <3>2. AddrOf(k) <= addr
      BY <3>1, <2>4 DEF AddrOf
    <3>3. ~(k \in hi + 1 .. Len(entries))
      BY <1>1, <1>2, <3>2 DEF SearchKeepsNearest
    <3>4. k = lo \/ k < lo
      BY <1>2, <3>3
    <3>5. AddrOf(k) <= AddrOf(lo)
      BY <1>1, <1>2, <2>1, <3>4 DEF Sorted
    <3> QED BY <3>1, <3>5, <2>3 DEF AddrOf
  <2> QED BY <2>2, <2>3, <2>4
<1> QED BY <1>1, <1>2, <1>4, <1>5, <1>6 DEF SearchKeepsNearest

-----------------------------------------------------------------------------
\* Every step of the index keeps the invariant.
LEMMA SymbolsStep == SymbolsInv /\ [SymbolsNext]_symbolVars => SymbolsInv'
<1> SUFFICES ASSUME SymbolsInv, [SymbolsNext]_symbolVars PROVE SymbolsInv'
  OBVIOUS
<1> USE DEF SymbolsInv
<1>1. CASE StartLoad
  BY <1>1 DEF StartLoad, search, SymbolsOK, Faithful, Indexed, SearchKeepsNearest, NamedAfterNearest
<1>2. CASE ReadSymbol
  BY <1>2, ReadSymbolStep
<1>3. CASE SortEntries
  BY <1>3, SortEntriesStep
<1>4. CASE Ask
  <2>1. /\ syms' = syms /\ entries' = entries /\ state' = "asked" /\ state = "ready"
        /\ i' = i /\ answer' = answer /\ lo' = 0 /\ hi' = Len(entries) /\ addr' \in Addresses
    BY <1>4 DEF Ask
  <2>2. addr' \in Nat /\ Len(entries) \in Nat
    BY <2>1, SymbolsAssumption, SymbolType
  <2>3. SymbolsOK'
    BY <2>1, <2>2 DEF SymbolsOK
  <2>4. Faithful' /\ Sorted'
    BY <2>1 DEF Faithful, Indexed, Sorted, AddrOf
  <2> QED BY <2>1, <2>2, <2>3, <2>4 DEF SearchKeepsNearest, NamedAfterNearest
<1>5. CASE Halve
  BY <1>5, HalveStep
<1>6. CASE Tell
  BY <1>6, TellStep
<1>7. CASE UNCHANGED symbolVars
  BY <1>7 DEF symbolVars, search, SymbolsOK, Faithful, Indexed, Sorted, AddrOf,
              SearchKeepsNearest, NamedAfterNearest
<1> QED BY <1>1, <1>2, <1>3, <1>4, <1>5, <1>6, <1>7 DEF SymbolsNext, Lookup

\* An address is named after the nearest symbol of a section at or below it, whatever
\* the table: debug.c's qsort and binary search (debug.c 67-131).
THEOREM IndexNamesNearest == SymbolsSpec => []NamedAfterNearest
<1>1. SymbolsSpec => []SymbolsInv
  BY SymbolsInvHolds, SymbolsStep, PTL DEF SymbolsSpec
<1> QED BY <1>1, PTL DEF SymbolsInv

-----------------------------------------------------------------------------
(***************************************************************************)
(* The image's two walks.                                                  *)
(***************************************************************************)
\* A command that a walk takes the symbol table from, and the last one of the first m.
IsTable(k) == CommandAt(k).kind = "symtab" /\ CommandAt(k).size >= SYMTAB_SIZE

LastTable(t, m) ==
  /\ t \in 0 .. m
  /\ t # 0 => IsTable(t)
  /\ \A k \in 1 .. m : IsTable(k) => k <= t

\* The offsets the parser has come to, one command after the other.
Chain(o) ==
  /\ o \in [0 .. done -> Nat]
  /\ o[0] = HeaderSize /\ o[done] = off
  /\ \A k \in 1 .. done :
       /\ CommandAt(k).size >= 8
       /\ o[k] = o[k - 1] + CommandAt(k).size
       /\ o[k] <= cend

Types ==
  /\ file \in Files
  /\ phase \in {"start", "commands", "parsed", "error"}
  /\ walk \in {"before", "walking", "loaded", "none"}
  /\ ParseOK
  /\ woff \in 0 .. Word - 1 /\ wdone \in 0 .. Image.ncmds /\ wtab \in Nat

\* The image lies in the file, its commands in the image; one walk follows the other.
Places ==
  /\ base + n <= file.size
  /\ phase \in {"commands", "parsed"} => cend <= n
  /\ phase = "start" => done = 0 /\ symtab = 0
  /\ phase # "parsed" => walk = "before"
  /\ walk = "before" => wdone = 0 /\ wtab = 0
  /\ walk = "walking" => Image.magic = "32"
  /\ walk = "loaded" /\ Ordinary /\ CountTrue => wdone = done

\* When the count is true the second walk goes through the parser's offsets.
Chained ==
  phase \in {"commands", "parsed"} /\ Ordinary =>
    \E o : Chain(o) /\ (walk = "walking" /\ CountTrue => woff = o[wdone])

ImageInv ==
  /\ Types /\ Places /\ Chained
  /\ LastTable(symtab, done) /\ LastTable(wtab, wdone)
  /\ WellFormedImage => reach <= file.size
  /\ SymbolsInv

-----------------------------------------------------------------------------
\* Words.
LEMMA WordFacts == Word \in Nat /\ Word > 124
BY MachoAssumption DEF SEG32_SIZE, SECT32_SIZE

LEMMA Uncut == ASSUME NEW x \in Nat, x < Word PROVE x % Word = x
BY WordFacts

LEMMA UncutSum ==
  ASSUME NEW a \in Nat, NEW b \in Nat, NEW c \in 0 .. Word - 1, a + b <= c
  PROVE  (a + b) % Word = a + b
<1>1. a + b \in Nat /\ a + b < Word
  BY WordFacts
<1> QED BY <1>1, Uncut

LEMMA Cut == ASSUME NEW x \in Nat PROVE x % Word \in 0 .. Word - 1 /\ x % Word \in Nat /\ x % Word <= x
BY WordFacts

\* Whatever a file holds, its fields are numbers.
LEMMA FileFacts ==
  ASSUME file \in Files
  PROVE  /\ file.size \in Nat /\ file.fat \in BOOLEAN /\ file.nfat \in Nat
         /\ file.slices \in Seq(Slices) /\ Image \in Thin
         /\ Image.ncmds \in Nat /\ Image.sizeofcmds \in Nat
         /\ Image.cmds \in Seq(Commands)
<1>1. file \in FileType
  BY MachoAssumption
<1>2. /\ file.size \in Nat /\ file.fat \in BOOLEAN /\ file.nfat \in 0 .. Word - 1
      /\ file.slices \in Seq(Slices) /\ file.thin \in Thin
  BY <1>1 DEF FileType
<1>3. /\ file.thin.ncmds \in 0 .. Word - 1 /\ file.thin.sizeofcmds \in 0 .. Word - 1
      /\ file.thin.cmds \in Seq(Commands)
  BY <1>2 DEF Thin
<1> QED BY <1>2, <1>3, WordFacts DEF Image

LEMMA SliceFacts ==
  ASSUME file \in Files, NEW k \in DOMAIN file.slices
  PROVE  file.slices[k].offset \in Nat /\ file.slices[k].size \in Nat
<1>1. file.slices[k] \in Slices
  BY FileFacts
<1>2. \A s \in Slices : s.offset \in 0 .. Word - 1 /\ s.size \in 0 .. Word - 1
  BY DEF Slices
<1> QED BY <1>1, <1>2, WordFacts

LEMMA CommandFacts ==
  ASSUME file \in Files, NEW k \in Nat
  PROVE  /\ CommandAt(k).size \in Nat /\ CommandAt(k).n \in Nat
         /\ CommandAt(k).kind \in Kinds
         /\ CommandAt(k).tab.symoff \in Nat /\ CommandAt(k).tab.nsyms \in Nat
         /\ CommandAt(k).tab.stroff \in Nat /\ CommandAt(k).tab.strsize \in Nat
         /\ CommandAt(k).size > 0 => k \in DOMAIN Image.cmds
<1>1. \A c \in Commands : /\ c.size \in 0 .. Word - 1 /\ c.n \in 0 .. Word - 1
                          /\ c.kind \in Kinds /\ c.tab \in Tables
  BY DEF Commands
<1>2. \A t \in Tables : /\ t.symoff \in 0 .. Word - 1 /\ t.nsyms \in 0 .. Word - 1
                        /\ t.stroff \in 0 .. Word - 1 /\ t.strsize \in 0 .. Word - 1
  BY DEF Tables
<1>3. CASE k \in DOMAIN Image.cmds
  <2>1. Image.cmds[k] \in Commands /\ CommandAt(k) = Image.cmds[k]
    BY <1>3, FileFacts DEF CommandAt
  <2> QED BY <2>1, <1>1, <1>2, <1>3, WordFacts
<1>4. CASE k \notin DOMAIN Image.cmds
  <2>1. CommandAt(k) = Zeros
    BY <1>4 DEF CommandAt
  <2> QED BY <2>1 DEF Zeros, Kinds
<1> QED BY <1>3, <1>4

\* Of a command whose size is not near the word's end, no sum below the file's end wraps.
LEMMA NoWrap ==
  ASSUME file \in Files, Ordinary, NEW k \in Nat, CommandAt(k).size > 0
  PROVE  CommandAt(k).size + file.size < Word
BY CommandFacts DEF Ordinary, CommandAt

LEMMA GreatestFacts ==
  ASSUME NEW a \in Nat, NEW b \in Nat, NEW c \in Nat
  PROVE  /\ Greatest(a, b) \in Nat
         /\ a <= c /\ b <= c => Greatest(a, b) <= c
BY DEF Greatest

LEMMA HeaderFacts == HeaderSize \in Nat /\ 28 <= HeaderSize /\ HeaderSize <= 32
BY DEF HeaderSize, HDR32_SIZE, HDR64_SIZE

\* The parser's tests are on sums that have not wrapped.
LEMMA InsideCommands ==
  ASSUME ImageInv, phase = "commands", Ordinary, More
  PROVE  /\ off + 8 <= cend
         /\ WellFormed => off + Command.size <= cend
<1> USE DEF ImageInv, Types
<1>1. /\ off \in Nat /\ cend \in Nat /\ n \in Nat /\ base \in Nat /\ done \in Nat
      /\ file.size \in Nat /\ cend <= n /\ n <= file.size
  BY FileFacts, SMTT(20) DEF ParseOK, Places
<1>2. off + 8 < Word
  <2>1. PICK o : Chain(o)
    BY DEF Chained
  <2>2. CASE done = 0
    BY <2>1, <2>2, HeaderFacts, WordFacts DEF Chain
  <2>3. CASE done > 0
    <3>1. CommandAt(done).size >= 8 /\ off <= cend
      BY <2>1, <2>3, <1>1 DEF Chain
    <3>2. CommandAt(done).size + file.size < Word
      BY <3>1, <1>1, NoWrap, CommandFacts
    <3> QED BY <3>1, <3>2, <1>1, CommandFacts, WordFacts
  <2> QED BY <2>2, <2>3, <1>1
<1>3. off + 8 <= cend
  BY <1>1, <1>2, Uncut DEF More
<1>4. ASSUME WellFormed PROVE off + Command.size <= cend
  <2>1. Here \in Nat /\ Command = CommandAt(Here)
    BY <1>1 DEF Here, Command
  <2>2. Command.size \in Nat /\ Command.size >= 8
    BY <1>4, <2>1, CommandFacts DEF WellFormed
  <2>3. Command.size + file.size < Word
    BY <2>1, <2>2, NoWrap
  <2>4. off + Command.size < Word /\ off + Command.size \in Nat
    BY <1>1, <1>3, <2>2, <2>3, WordFacts
  <2>5. (off + Command.size) % Word = off + Command.size
    BY <2>4, Uncut
  <2> QED BY <1>4, <2>5 DEF WellFormed
<1> QED BY <1>3, <1>4

-----------------------------------------------------------------------------
(***************************************************************************)
(* The parser.                                                             *)
(***************************************************************************)
\* A step that leaves the walker and the index alone keeps what is said of them.
LEMMA OthersStay ==
  ASSUME UNCHANGED <<symbolVars, walker>>
  PROVE  /\ SymbolsInv => SymbolsInv'
         /\ walk' = walk /\ woff' = woff /\ wdone' = wdone /\ wtab' = wtab
BY SymbolsStep DEF walker

\* The file alone decides these.
LEMMA SameFile ==
  ASSUME file' = file
  PROVE  /\ Image' = Image /\ HeaderSize' = HeaderSize /\ (Ordinary <=> Ordinary')
         /\ \A k : CommandAt(k)' = CommandAt(k)
         /\ \A k : IsTable(k)' <=> IsTable(k)
         /\ \A t, m : LastTable(t, m)' <=> LastTable(t, m)
BY DEF Image, HeaderSize, Ordinary, CommandAt, IsTable, LastTable

LEMMA BeginStep ==
  ASSUME ImageInv, phase = "start", UNCHANGED <<symbolVars, walker>>,
         NEW b \in Nat, NEW m \in Nat, b + m <= file.size, Begin(b, m)
  PROVE  ImageInv'
<1> USE DEF ImageInv, Types
<1>1. /\ file' = file /\ done' = done /\ segs' = segs /\ sects' = sects
      /\ symtab' = symtab /\ thread' = thread /\ base' = b /\ n' = m
      /\ done = 0 /\ symtab = 0 /\ wdone = 0 /\ wtab = 0 /\ walk = "before" /\ reach \in Nat
  BY DEF Begin, Places, ParseOK
<1>2. /\ SymbolsInv' /\ walk' = walk /\ woff' = woff /\ wdone' = wdone /\ wtab' = wtab
  BY OthersStay
<1>3. (HeaderSize + Image.sizeofcmds) % Word \in 0 .. Word - 1
  <2>1. HeaderSize + Image.sizeofcmds \in Nat
    BY FileFacts, HeaderFacts, SMTT(20)
  <2> QED BY <2>1, Cut
<1>4. HeaderSize \in 0 .. Word - 1
  BY HeaderFacts, WordFacts
<1>5. LastTable(symtab, done)' /\ LastTable(wtab, wdone)'
  BY <1>1, <1>2, SameFile
<1>6. CASE m < HDR32_SIZE /\ Fails /\ UNCHANGED <<off, cend, reach>>
  <2>1. phase' = "error"
    BY <1>6 DEF Fails
  <2>2. Types'
    BY <1>1, <1>2, <1>6, <2>1, SameFile, FileFacts DEF ParseOK, Image
  <2>3. Places' /\ Chained'
    BY <1>1, <1>2, <2>1 DEF Places, Chained
  <2>4. WellFormedImage' => reach' <= file'.size
    BY <1>1, <1>6, SameFile DEF WellFormedImage
  <2> QED BY <1>2, <1>5, <2>2, <2>3, <2>4
<1>7. CASE /\ m >= HDR32_SIZE
           /\ ReadsTo(HDR32_SIZE)
           /\ off' = HeaderSize
           /\ cend' = (HeaderSize + Image.sizeofcmds) % Word
           /\ phase' = IF Image.magic \in {"32", "64"} /\ Image.ppc
                          /\ (HeaderSize + Image.sizeofcmds) % Word <= m
                       THEN "commands" ELSE "error"
  <2>1. phase' \in {"commands", "error"} /\ (phase' = "commands" => cend' <= n')
    BY <1>1, <1>7
  <2>2. reach' \in Nat
    BY <1>1, <1>7, GreatestFacts DEF ReadsTo, HDR32_SIZE
  <2>3. Types'
    BY <1>1, <1>2, <1>3, <1>4, <1>7, <2>1, <2>2, SameFile, FileFacts DEF ParseOK, Image
  <2>4. Places'
    BY <1>1, <1>2, <2>1 DEF Places
  <2>5. Chained'
    <3> DEFINE o == [k \in 0 .. 0 |-> HeaderSize]
    <3>1. Chain(o)'
      BY <1>1, <1>7, HeaderFacts, SameFile DEF Chain
    <3> QED BY <3>1, <1>1, <1>2, <2>1 DEF Chained
  <2>6. WellFormedImage' => reach' <= file'.size
    <3> SUFFICES ASSUME WellFormedImage' PROVE reach' <= file'.size
      OBVIOUS
    <3>1. WellFormedImage
      BY <1>1, SameFile DEF WellFormedImage
    <3>2. b + HDR32_SIZE \in Nat /\ b + HDR32_SIZE <= file.size /\ reach <= file.size
      BY <1>7, <3>1, FileFacts, SMTT(20) DEF HDR32_SIZE
    <3> QED BY <1>1, <1>7, <3>2, FileFacts, GreatestFacts DEF ReadsTo
  <2> QED BY <1>2, <1>5, <2>3, <2>4, <2>5, <2>6
<1> QED BY <1>6, <1>7 DEF Begin

\* Each kind of command is read no further than it is long.
LEMMA HandlesStep ==
  ASSUME ImageInv, UNCHANGED <<symbolVars, walker>>,
         NEW kind \in Kinds, NEW len \in Nat, len <= Command.size, Handles(kind, len),
         segs' \in Seq(1 .. done'), sects' \in Seq(1 .. done'), thread' \in 0 .. done',
         symtab' = IF IsTable(Here) THEN Here ELSE symtab
  PROVE  ImageInv'
<1> USE DEF ImageInv, Types
<1>1. /\ file' = file /\ base' = base /\ n' = n /\ cend' = cend
      /\ phase' = "commands" /\ phase = "commands" /\ More /\ WellFormed /\ Accepted
      /\ done' = done + 1 /\ off' = (off + Command.size) % Word
      /\ reach' = Greatest(reach, base + (off + len))
      /\ walk = "before" /\ wdone = 0 /\ wtab = 0
  BY DEF Handles, ReadsTo, Places
<1>2. /\ SymbolsInv' /\ walk' = walk /\ woff' = woff /\ wdone' = wdone /\ wtab' = wtab
  BY OthersStay
<1>3. /\ done \in Nat /\ off \in Nat /\ cend \in Nat /\ n \in Nat /\ base \in Nat /\ reach \in Nat
      /\ file.size \in Nat /\ Image.ncmds \in Nat /\ symtab \in 0 .. done
      /\ base + n <= file.size /\ cend <= n
  BY <1>1, FileFacts DEF ParseOK, Places
<1> DEFINE size == CommandAt(done + 1).size
<1>4. size \in Nat /\ size >= 8 /\ len <= size
  BY <1>1, <1>3, CommandFacts, SMTT(20) DEF Here, Command, WellFormed
<1>4a. off' = (off + size) % Word /\ symtab' = IF IsTable(done + 1) THEN done + 1 ELSE symtab
  BY <1>1 DEF Here, Command
<1> HIDE DEF size
<1>5. reach' \in Nat
  <2>1. base + (off + len) \in Nat
    BY <1>3
  <2> QED BY <2>1, <1>1, <1>3, GreatestFacts
<1>6. Types'
  <2>1. done' <= Image.ncmds
    BY <1>1, <1>3, SMTT(20) DEF More
  <2>2. off' \in 0 .. Word - 1
    <3>1. off + size \in Nat
      BY <1>3, <1>4
    <3> QED BY <3>1, <1>4a, Cut
  <2>3. symtab' \in 0 .. done'
    BY <1>1, <1>3, <1>4a, SMTT(20)
  <2>4. base' \in Nat /\ n' \in Nat /\ cend' \in 0 .. Word - 1 /\ done' \in Nat
    BY <1>1, <1>3 DEF ParseOK
  <2>5. ParseOK'
    BY <1>1, <1>5, <2>1, <2>2, <2>3, <2>4 DEF ParseOK, Image
  <2> QED BY <1>1, <1>2, <2>5, SameFile
<1>7. Places'
  BY <1>1, <1>2, <1>3 DEF Places
<1>8. LastTable(symtab, done)' /\ LastTable(wtab, wdone)'
  <2>1. LastTable(symtab', done + 1)
    <3>1. CASE IsTable(done + 1)
      BY <3>1, <1>3, <1>4a DEF LastTable
    <3>2. CASE ~IsTable(done + 1)
      BY <3>2, <1>3, <1>4a DEF LastTable
    <3> QED BY <3>1, <3>2
  <2>2. \A k : IsTable(k)' <=> IsTable(k)
    BY <1>1, SameFile
  <2> QED BY <2>1, <2>2, <1>1, <1>2 DEF LastTable
<1>9. ASSUME Ordinary
      PROVE  off + size <= cend /\ off' = off + size
  <2>1. off + size <= cend
    BY <1>1, <1>9, InsideCommands DEF size, Here, Command
  <2>2. cend \in 0 .. Word - 1
    BY DEF ParseOK
  <2> HIDE DEF ImageInv, Types
  <2>3. (off + size) % Word = off + size
    BY <2>1, <2>2, <1>3, <1>4, UncutSum
  <2> QED BY <2>1, <2>3, <1>4a
<1>10. Chained'
  <2> SUFFICES ASSUME Ordinary PROVE \E o : Chain(o)'
    BY <1>1, <1>2, SameFile DEF Chained
  <2>1. PICK o : Chain(o)
    BY <1>1 DEF Chained
  <2> DEFINE q == [k \in 0 .. done + 1 |-> IF k <= done THEN o[k] ELSE off + size]
  <2>2. q \in [0 .. done + 1 -> Nat]
    BY <1>3, <1>4, <2>1, SMTT(20) DEF Chain
  <2>3. q[0] = HeaderSize /\ q[done + 1] = off'
    BY <1>3, <1>9, <2>1 DEF Chain
  <2>4. ASSUME NEW k \in 1 .. done + 1
        PROVE  /\ CommandAt(k).size >= 8
               /\ q[k] = q[k - 1] + CommandAt(k).size
               /\ q[k] <= cend
    <3>1. CASE k \in 1 .. done
      BY <3>1, <1>3, <2>1, SMTT(20) DEF Chain
    <3>2. CASE k = done + 1
      BY <3>2, <1>3, <1>4, <1>9, <2>1 DEF Chain, size
    <3> QED BY <3>1, <3>2, <1>3
  <2> HIDE DEF q
  <2>5. PICK f : f = q
    OBVIOUS
  <2>6. Chain(f)'
    BY <1>1, <2>2, <2>3, <2>4, <2>5, SameFile DEF Chain
  <2> QED BY <2>6
<1>11. WellFormedImage' => reach' <= file'.size
  <2> SUFFICES ASSUME Ordinary PROVE reach' <= file.size
    BY <1>1, SameFile DEF WellFormedImage
  <2>1. reach <= file.size
    BY <1>1 DEF WellFormedImage
  <2>2. base + (off + len) \in Nat /\ base + (off + len) <= file.size
    BY <1>3, <1>4, <1>9
  <2> QED BY <1>1, <1>3, <2>1, <2>2, GreatestFacts
<1> QED BY <1>2, <1>6, <1>7, <1>8, <1>10, <1>11

\* What each kind of command needs to be read, and what it makes.
LEMMA HandleStep ==
  ASSUME ImageInv, Handle, UNCHANGED <<symbolVars, walker>>
  PROVE  ImageInv'
<1>1. /\ done \in Nat /\ segs \in Seq(1 .. done) /\ sects \in Seq(1 .. done)
      /\ thread \in 0 .. done /\ symtab \in 0 .. done
  BY DEF ImageInv, Types, ParseOK
<1> DEFINE cmd == CommandAt(done + 1)
<1>2. Here = done + 1 /\ Command = cmd /\ cmd.size \in Nat /\ cmd.n \in Nat
  BY <1>1, CommandFacts DEF ImageInv, Types, Here, Command
<1> HIDE DEF cmd
<1>3. ASSUME NEW kind \in Kinds, NEW len \in Nat, Handles(kind, len)
      PROVE  done' = done + 1 /\ cmd.kind = kind /\ cmd.size >= 8 /\ Accepted
  BY <1>2, <1>3 DEF Handles, WellFormed
<1>4. /\ segs \in Seq(1 .. done + 1) /\ sects \in Seq(1 .. done + 1)
      /\ Append(segs, done + 1) \in Seq(1 .. done + 1)
      /\ 1 .. done \subseteq 1 .. done + 1
  BY <1>1
<1>5. ASSUME cmd.kind # "symtab" PROVE ~IsTable(Here)
  BY <1>2, <1>5 DEF IsTable, cmd
<1>6. CASE Segment
  <2> DEFINE len == SEG32_SIZE + SectsRead * SECT32_SIZE
  <2>1. Handles("segment", len) /\ symtab' = symtab /\ thread' = thread
    BY <1>6 DEF Segment
  <2>2. cmd.kind = "segment" /\ Accepted
    BY <2>1, <1>2 DEF Handles
  <2>3. cmd.size >= SEG32_SIZE /\ (HasSects => SectsFit)
    BY <2>2, <1>2 DEF Accepted
  <2>4. len \in Nat /\ len <= cmd.size /\ SectsRead \in Nat
    BY <2>3, <1>2 DEF SectsRead, HasSects, SectsFit, SEG32_SIZE, SECT32_SIZE
  <2>5. done' = done + 1
    BY <2>1 DEF Handles
  <2>6. segs' \in Seq(1 .. done')
    BY <1>6, <1>2, <1>4, <2>5 DEF Segment
  <2>7. sects' \in Seq(1 .. done')
    <3> DEFINE added == [j \in 1 .. SectsRead |-> done + 1]
    <3>1. sects' = sects \o added
      BY <1>6, <1>2 DEF Segment
    <3>2. added \in Seq(1 .. done + 1)
      BY <2>4, <1>1
    <3> HIDE DEF added
    <3>3. sects \o added \in Seq(1 .. done + 1)
      BY <3>2, <1>4
    <3> QED BY <3>1, <3>3, <2>5
  <2>8. symtab' = IF IsTable(Here) THEN Here ELSE symtab
    BY <2>1, <2>2, <1>5
  <2> HIDE DEF len
  <2> QED BY <1>1, <1>2, <2>1, <2>4, <2>5, <2>6, <2>7, <2>8, HandlesStep DEF Kinds
<1>7. CASE Segment64
  <2>1. Handles("segment64", SEG64_SIZE)
    BY <1>7 DEF Segment64
  <2>2. cmd.kind = "segment64" /\ Accepted /\ done' = done + 1
    BY <2>1, <1>2 DEF Handles
  <2>3. SEG64_SIZE \in Nat /\ SEG64_SIZE <= Command.size
    BY <2>2, <1>2 DEF Accepted, SEG64_SIZE
  <2>4. symtab' = IF IsTable(Here) THEN Here ELSE symtab
    BY <1>7, <2>2, <1>5 DEF Segment64
  <2> QED BY <1>1, <1>2, <1>4, <1>7, <2>1, <2>2, <2>3, <2>4, HandlesStep DEF Segment64, Kinds
<1>8. CASE Symtab
  <2>1. Handles("symtab", SYMTAB_SIZE)
    BY <1>8 DEF Symtab
  <2>2. cmd.kind = "symtab" /\ Accepted /\ done' = done + 1
    BY <2>1, <1>2 DEF Handles
  <2>3. SYMTAB_SIZE \in Nat /\ SYMTAB_SIZE <= Command.size
    BY <2>2, <1>2 DEF Accepted, SYMTAB_SIZE
  <2>4. symtab' = IF IsTable(Here) THEN Here ELSE symtab
    BY <1>8, <1>2, <2>2, <2>3 DEF Symtab, IsTable, SYMTAB_SIZE, cmd
  <2> QED BY <1>1, <1>2, <1>4, <1>8, <2>1, <2>2, <2>3, <2>4, HandlesStep DEF Symtab, Kinds
<1>9. CASE Dysymtab
  <2>1. Handles("dysymtab", 64)
    BY <1>9 DEF Dysymtab
  <2>2. cmd.kind = "dysymtab" /\ Accepted /\ done' = done + 1
    BY <2>1, <1>2 DEF Handles
  <2>3. 64 <= Command.size
    BY <2>2, <1>2 DEF Accepted, DYSYMTAB_SIZE
  <2>4. symtab' = IF IsTable(Here) THEN Here ELSE symtab
    BY <1>9, <2>2, <1>5 DEF Dysymtab
  <2> QED BY <1>1, <1>2, <1>4, <1>9, <2>1, <2>2, <2>3, <2>4, HandlesStep DEF Dysymtab, Kinds
<1>10. CASE Thread
  <2> DEFINE len == THREAD_CMD_SIZE + 4 * ThreadWords
  <2>1. Handles("thread", len)
    BY <1>10 DEF Thread
  <2>2. cmd.kind = "thread" /\ Accepted /\ done' = done + 1
    BY <2>1, <1>2 DEF Handles
  <2>3. cmd.size >= 16 /\ cmd.n <= (cmd.size - 16) \div 4
    BY <2>2, <1>2 DEF Accepted, ThreadFits, THREAD_CMD_SIZE
  <2>4. 4 * cmd.n <= cmd.size - 16
    BY <2>3, <1>2
  <2>5. len \in Nat /\ len <= Command.size
    BY <2>3, <2>4, <1>2 DEF ThreadWords, THREAD_CMD_SIZE
  <2>6. symtab' = IF IsTable(Here) THEN Here ELSE symtab
    BY <1>10, <2>2, <1>5 DEF Thread
  <2>7. thread' \in 0 .. done'
    BY <1>10, <1>1, <1>2, <2>2 DEF Thread
  <2> HIDE DEF len
  <2> QED BY <1>1, <1>2, <1>4, <1>10, <2>1, <2>2, <2>5, <2>6, <2>7, HandlesStep DEF Thread, Kinds
<1>11. CASE Other
  <2>1. Handles("other", 8)
    BY <1>11 DEF Other
  <2>2. cmd.kind = "other" /\ WellFormed /\ done' = done + 1
    BY <2>1, <1>2 DEF Handles
  <2>3. 8 <= Command.size
    BY <2>2 DEF WellFormed
  <2>4. symtab' = IF IsTable(Here) THEN Here ELSE symtab
    BY <1>11, <2>2, <1>5 DEF Other
  <2> QED BY <1>1, <1>2, <1>4, <1>11, <2>1, <2>2, <2>3, <2>4, HandlesStep DEF Other, Kinds
<1> QED BY <1>6, <1>7, <1>8, <1>9, <1>10, <1>11 DEF Handle

\* A step that fails, having read a part of a command or nothing.
LEMMA FailStep ==
  ASSUME ImageInv, phase \in {"start", "commands"}, UNCHANGED <<symbolVars, walker>>,
         UNCHANGED <<file, parse>>, phase' = "error",
         reach' \in Nat, Ordinary => reach' <= file.size
  PROVE  ImageInv'
<1> USE DEF ImageInv, Types
<1>1. /\ base' = base /\ n' = n /\ off' = off /\ cend' = cend /\ done' = done
      /\ segs' = segs /\ sects' = sects /\ symtab' = symtab /\ thread' = thread
      /\ file' = file /\ walk = "before"
  BY DEF parse, Places
<1>2. /\ SymbolsInv' /\ walk' = walk /\ woff' = woff /\ wdone' = wdone /\ wtab' = wtab
  BY OthersStay
<1>3. Types'
  BY <1>1, <1>2, SameFile DEF ParseOK
<1>4. Places' /\ Chained'
  BY <1>1, <1>2 DEF Places, Chained
<1>5. LastTable(symtab, done)' /\ LastTable(wtab, wdone)'
  BY <1>1, <1>2, SameFile
<1>6. WellFormedImage' => reach' <= file'.size
  BY <1>1, SameFile DEF WellFormedImage
<1> QED BY <1>2, <1>3, <1>4, <1>5, <1>6

LEMMA MalformedStep ==
  ASSUME ImageInv, Malformed, UNCHANGED <<symbolVars, walker>>
  PROVE  ImageInv'
<1> DEFINE to == off + ReadOfMalformed
<1> DEFINE size == CommandAt(done + 1).size
<1>1. /\ phase = "commands" /\ More /\ phase' = "error" /\ UNCHANGED <<file, parse>>
      /\ reach' = Greatest(reach, base + off + ReadOfMalformed)
  BY DEF Malformed, Fails
<1>2. /\ off \in Nat /\ cend \in Nat /\ n \in Nat /\ base \in Nat /\ reach \in Nat /\ done \in Nat
      /\ file.size \in Nat /\ base + n <= file.size /\ cend <= n
  BY <1>1, FileFacts DEF ImageInv, Types, ParseOK, Places
<1>3. size \in Nat
  BY <1>2, CommandFacts DEF ImageInv, Types
<1>4. /\ ReadOfMalformed \in Nat
      /\ ReadOfMalformed = 8 \/ (WellFormed /\ ReadOfMalformed <= size)
  BY <1>3 DEF ReadOfMalformed, Here, Command, SEG32_SIZE, THREAD_CMD_SIZE
<1>5. ASSUME Ordinary PROVE base + off + ReadOfMalformed <= file.size
  <2>1. off + 8 <= cend /\ (WellFormed => off + size <= cend)
    BY <1>1, <1>5, InsideCommands DEF Here, Command
  <2> HIDE DEF size
  <2> QED BY <2>1, <1>2, <1>3, <1>4
<1>6. base + off + ReadOfMalformed \in Nat
  BY <1>2, <1>4
<1>7. reach' \in Nat
  BY <1>1, <1>2, <1>6, GreatestFacts
<1>8. Ordinary => reach' <= file.size
  <2>1. Ordinary => reach <= file.size
    BY <1>1 DEF ImageInv, WellFormedImage
  <2> QED BY <2>1, <1>1, <1>2, <1>5, <1>6, GreatestFacts
<1> QED BY <1>1, <1>7, <1>8, FailStep

LEMMA ParseStep ==
  ASSUME ImageInv, Parse, UNCHANGED <<symbolVars, walker>>
  PROVE  ImageInv'
<1> USE DEF ImageInv, Types
<1>1. CASE ParseThin
  BY <1>1, BeginStep, FileFacts DEF ParseThin
<1>2. CASE ParseFat
  <2>1. phase = "start"
    BY <1>2 DEF ParseFat
  <2>2. ASSUME NEW k \in DOMAIN file.slices, Chosen(k),
               Begin(file.slices[k].offset, file.slices[k].size)
        PROVE  ImageInv'
    <3>1. file.slices[k].offset + file.slices[k].size <= file.size
      BY <2>2 DEF Chosen, SliceFits
    <3> QED BY <2>1, <2>2, <3>1, SliceFacts, BeginStep
  <2>3. ASSUME Fails, UNCHANGED <<file, parse, reach>>
        PROVE  ImageInv'
    <3>1. reach' = reach /\ reach \in Nat /\ (Ordinary => reach <= file.size)
      BY <2>1, <2>3 DEF WellFormedImage, ParseOK
    <3> QED BY <2>1, <2>3, <3>1, FailStep DEF Fails
  <2> QED BY <1>2, <2>2, <2>3 DEF ParseFat
<1>3. CASE Handle
  BY <1>3, HandleStep
<1>4. CASE Malformed
  BY <1>4, MalformedStep
<1>5. CASE Parsed
  <2>1. /\ base' = base /\ n' = n /\ off' = off /\ cend' = cend /\ done' = done
        /\ segs' = segs /\ sects' = sects /\ symtab' = symtab /\ thread' = thread
        /\ file' = file /\ reach' = reach /\ walk = "before"
        /\ phase' = "parsed" /\ phase = "commands"
    BY <1>5 DEF Parsed, parse, Places
  <2>2. /\ SymbolsInv' /\ walk' = walk /\ woff' = woff /\ wdone' = wdone /\ wtab' = wtab
    BY OthersStay
  <2>3. Types'
    BY <2>1, <2>2, SameFile DEF ParseOK
  <2>4. Places'
    BY <2>1, <2>2 DEF Places
  <2>5. Chained'
    <3> SUFFICES ASSUME Ordinary PROVE \E o : Chain(o)'
      BY <2>1, <2>2, SameFile DEF Chained
    <3>1. PICK o : Chain(o)
      BY <2>1 DEF Chained
    <3> QED BY <2>1, <3>1, SameFile DEF Chain
  <2>6. LastTable(symtab, done)' /\ LastTable(wtab, wdone)'
    BY <2>1, <2>2, SameFile
  <2>7. WellFormedImage' => reach' <= file'.size
    BY <2>1, SameFile DEF WellFormedImage
  <2> QED BY <2>2, <2>3, <2>4, <2>5, <2>6, <2>7
<1> QED BY <1>1, <1>2, <1>3, <1>4, <1>5 DEF Parse

-----------------------------------------------------------------------------
(***************************************************************************)
(* The image in use.                                                       *)
(***************************************************************************)
\* A step that leaves what the parser found keeps what is said of it.
LEMMA ParsedStays ==
  ASSUME ImageInv, UNCHANGED <<file, phase, parse>>
  PROVE  /\ base' = base /\ n' = n /\ off' = off /\ cend' = cend /\ done' = done
         /\ symtab' = symtab
         /\ reach' \in Nat => ParseOK'
         /\ LastTable(symtab, done)'
         /\ Image' = Image /\ (Ordinary' <=> Ordinary) /\ (CountTrue' <=> CountTrue)
         /\ WellFormedImage' <=> WellFormedImage
         /\ \A o : Chain(o)' <=> Chain(o)
<1>1. /\ base' = base /\ n' = n /\ off' = off /\ cend' = cend /\ done' = done
      /\ segs' = segs /\ sects' = sects /\ symtab' = symtab /\ thread' = thread
      /\ file' = file /\ phase' = phase
  BY DEF parse
<1>2. reach' \in Nat => ParseOK'
  BY <1>1 DEF ImageInv, Types, ParseOK
<1>3. LastTable(symtab, done)'
  BY <1>1, SameFile DEF ImageInv
<1>4. CountTrue' <=> CountTrue
  BY <1>1, SameFile DEF CountTrue
<1>5. Table' = Table
  BY <1>1, SameFile DEF Table
<1>6. TableTrue' <=> TableTrue
  BY <1>1, <1>5 DEF TableTrue, TablesFit
<1>7. \A o : Chain(o)' <=> Chain(o)
  BY <1>1, SameFile DEF Chain
<1> QED BY <1>1, <1>2, <1>3, <1>4, <1>6, <1>7, SameFile DEF WellFormedImage

\* When the count is true the second walk stands where the parser stood, and has
\* a command of the image before it until the last.
LEMMA WalkFollows ==
  ASSUME ImageInv, walk = "walking", Ordinary, CountTrue
  PROVE  /\ base + n <= file.size /\ wdone <= done
         /\ wdone = done \/ (/\ CommandAt(wdone + 1).size >= 8
                             /\ woff + CommandAt(wdone + 1).size <= n
                             /\ woff + CommandAt(wdone + 1).size < Word)
<1> USE DEF ImageInv, Types
<1>1. /\ phase = "parsed" /\ base + n <= file.size /\ cend <= n
      /\ n \in Nat /\ cend \in 0 .. Word - 1 /\ done \in Nat /\ base \in Nat
      /\ file.size \in Nat /\ woff \in Nat
  BY FileFacts, WordFacts DEF Places, ParseOK
<1>2. wdone \in 0 .. done
  BY <1>1 DEF CountTrue
<1>3. PICK o : Chain(o) /\ woff = o[wdone]
  BY <1>1 DEF Chained
<1>4. CASE wdone # done
  <2>1. wdone + 1 \in 1 .. done /\ (wdone + 1) - 1 = wdone
    BY <1>1, <1>2, <1>4
  <2> DEFINE size == CommandAt(wdone + 1).size
  <2>2. size >= 8 /\ o[wdone + 1] = o[(wdone + 1) - 1] + size /\ o[wdone + 1] <= cend
    BY <1>3, <2>1 DEF Chain
  <2>3. size \in Nat
    BY <1>2, <1>1, CommandFacts
  <2> HIDE DEF size
  <2>4. woff + size <= cend
    BY <1>3, <2>1, <2>2
  <2>5. size >= 8 /\ woff + size <= n /\ woff + size < Word
    BY <1>1, <2>2, <2>3, <2>4, WordFacts
  <2> QED BY <1>1, <1>2, <2>5 DEF size
<1> QED BY <1>1, <1>2, <1>4

LEMMA WalkCommandStep ==
  ASSUME ImageInv, WalkCommand
  PROVE  ImageInv'
<1> USE DEF ImageInv, Types
<1> DEFINE size == CommandAt(wdone + 1).size
           len  == IF IsTable(wdone + 1) THEN SYMTAB_SIZE ELSE 8
<1>1. /\ file' = file /\ phase' = phase /\ UNCHANGED parse
      /\ walk' = "walking" /\ walk = "walking" /\ phase = "parsed"
      /\ wdone < Image.ncmds /\ woff + 8 <= n /\ size >= 8
      /\ wtab' = IF IsTable(wdone + 1) THEN wdone + 1 ELSE wtab
      /\ reach' = Greatest(reach, base + (woff + len))
      /\ woff' = (woff + size) % Word /\ wdone' = wdone + 1
  BY DEF WalkCommand, WalkOn, Met, MetSymtab, IsTable, Reads, Places
<1>2. SymbolsInv'
  BY SymbolsStep DEF WalkCommand
<1>3. /\ base \in Nat /\ n \in Nat /\ reach \in Nat /\ woff \in Nat /\ wdone \in Nat
      /\ Image.ncmds \in Nat /\ file.size \in Nat /\ size \in Nat /\ done \in Nat
  BY FileFacts, CommandFacts, WordFacts DEF ParseOK
<1>4. len \in Nat /\ len <= size
  BY <1>1, <1>3 DEF IsTable, SYMTAB_SIZE
<1>5. \A k : IsTable(k)' <=> IsTable(k)
  BY <1>1, SameFile
<1>6. LastTable(wtab', wdone + 1)
  <2>1. CASE IsTable(wdone + 1)
    BY <2>1, <1>1, <1>3 DEF LastTable
  <2>2. CASE ~IsTable(wdone + 1)
    BY <2>2, <1>1, <1>3 DEF LastTable
  <2> QED BY <2>1, <2>2
<1>7. LastTable(wtab, wdone)'
  BY <1>1, <1>5, <1>6 DEF LastTable
<1> HIDE DEF size, len
<1>8. base + (woff + len) \in Nat /\ woff + size \in Nat
  BY <1>3, <1>4
<1>9. reach' \in Nat
  BY <1>1, <1>3, <1>8, GreatestFacts
<1>10. Types'
  <2>1. wtab' \in Nat
    BY <1>1, <1>3
  <2>2. woff' \in 0 .. Word - 1 /\ wdone' \in 0 .. Image.ncmds
    BY <1>1, <1>3, <1>8, Cut
  <2> QED BY <2>1, <2>2, <1>1, <1>9, ParsedStays
<1>11. Places'
  BY <1>1, ParsedStays DEF Places
<1>12. Chained'
  <2> SUFFICES ASSUME Ordinary
               PROVE  \E o : Chain(o) /\ (CountTrue => woff' = o[wdone + 1])
    BY <1>1, ParsedStays DEF Chained
  <2>1. PICK o : Chain(o) /\ (CountTrue => woff = o[wdone])
    BY <1>1 DEF Chained
  <2>2. ASSUME CountTrue PROVE woff' = o[wdone + 1]
    <3>1. wdone + 1 \in 1 .. done /\ (wdone + 1) - 1 = wdone
      BY <1>1, <1>3, <2>2 DEF CountTrue
    <3>2. o[wdone + 1] = o[(wdone + 1) - 1] + size
      BY <2>1, <3>1 DEF Chain, size
    <3>3. woff + size < Word
      BY <1>1, <1>3, <2>2, <3>1, WalkFollows DEF size
    <3>4. woff' = woff + size
      BY <1>1, <1>8, <3>3, Uncut
    <3> QED BY <2>1, <2>2, <3>1, <3>2, <3>4
  <2> QED BY <2>1, <2>2
<1>13. ASSUME WellFormedImage PROVE reach' <= file.size
  <2>1. Ordinary /\ CountTrue /\ wdone # done /\ reach <= file.size
    BY <1>1, <1>3, <1>13 DEF WellFormedImage, CountTrue
  <2>2. base + n <= file.size /\ woff + size <= n
    BY <1>1, <2>1, WalkFollows DEF size
  <2>3. base + (woff + len) <= file.size
    BY <1>3, <1>4, <2>2
  <2> QED BY <1>1, <1>3, <1>8, <2>1, <2>3, GreatestFacts
<1> QED BY <1>1, <1>2, <1>7, <1>10, <1>11, <1>12, <1>13, ParsedStays

\* The walk begins or ends; nothing is read.
LEMMA WalkStep ==
  ASSUME ImageInv, Walk
  PROVE  ImageInv'
<1> USE DEF ImageInv, Types
<1>1. CASE WalkCommand
  BY <1>1, WalkCommandStep
<1>2. ASSUME WalkBegins \/ WalkLoads \/ WalkGivesUp
      PROVE  ImageInv'
  <2>1. /\ file' = file /\ phase' = phase /\ UNCHANGED parse /\ reach' = reach
        /\ phase = "parsed" /\ walk \in {"before", "walking"}
        /\ wdone' = wdone /\ wtab' = wtab /\ walk' \in {"walking", "loaded", "none"}
    BY <1>2 DEF WalkBegins, WalkLoads, WalkGivesUp, vars, Places
  <2>2. SymbolsInv'
    BY <1>2, SymbolsStep DEF WalkBegins, WalkLoads, WalkGivesUp
  <2>3. reach \in Nat
    BY DEF ParseOK
  <2>4. woff' \in 0 .. Word - 1
    BY <1>2, WordFacts DEF WalkBegins, WalkLoads, WalkGivesUp, HDR32_SIZE
  <2>5. Types'
    BY <2>1, <2>3, <2>4, ParsedStays
  <2>6. LastTable(wtab, wdone)'
    BY <2>1, SameFile
  <2>7. walk' = "walking" => Image.magic = "32"
    BY <1>2, <2>1 DEF WalkBegins, WalkLoads, WalkGivesUp
  <2>8. ASSUME walk' = "loaded", Ordinary, CountTrue
        PROVE  wdone = done
    <3>1. walk = "walking" /\ WalkEnds
      BY <1>2, <2>8 DEF WalkBegins, WalkLoads, WalkGivesUp
    <3>2. \/ wdone = done
          \/ CommandAt(wdone + 1).size >= 8 /\ woff + CommandAt(wdone + 1).size <= n
      BY <3>1, <2>8, WalkFollows
    <3>3. /\ wdone \in 0 .. Image.ncmds /\ Image.ncmds \in Nat /\ done = Image.ncmds
          /\ woff \in Nat /\ n \in Nat /\ CommandAt(wdone + 1).size \in Nat
      BY <2>8, FileFacts, CommandFacts, WordFacts DEF CountTrue, ParseOK
    <3> DEFINE size == CommandAt(wdone + 1).size
    <3>4. ~(wdone < Image.ncmds /\ woff + 8 <= n) \/ size < 8
      BY <3>1 DEF WalkEnds, WalkOn, Met
    <3> HIDE DEF size
    <3> QED BY <3>2, <3>3, <3>4 DEF size
  <2>9. Places'
    BY <2>1, <2>7, <2>8, ParsedStays DEF Places
  <2>10. Chained'
    <3> SUFFICES ASSUME Ordinary
                 PROVE  \E o : Chain(o) /\ (walk' = "walking" /\ CountTrue => woff' = o[wdone])
      BY <2>1, ParsedStays DEF Chained
    <3>1. PICK o : Chain(o)
      BY <2>1 DEF Chained
    <3>2. CASE WalkBegins
      <4>1. wdone = 0 /\ woff' = 28
        BY <3>2 DEF WalkBegins, Places, HDR32_SIZE
      <4>2. walk' = "walking" => HeaderSize = 28
        BY <2>7 DEF HeaderSize, HDR32_SIZE
      <4> QED BY <3>1, <4>1, <4>2 DEF Chain
    <3>3. CASE WalkLoads \/ WalkGivesUp
      BY <3>1, <3>3 DEF WalkLoads, WalkGivesUp
    <3> QED BY <1>2, <3>2, <3>3
  <2> QED BY <2>1, <2>2, <2>5, <2>6, <2>9, <2>10, ParsedStays
<1> QED BY <1>1, <1>2 DEF Walk

LEMMA SymNameStep ==
  ASSUME ImageInv, SymName
  PROVE  ImageInv'
<1> USE DEF ImageInv, Types
<1>1. /\ file' = file /\ phase' = phase /\ UNCHANGED parse /\ UNCHANGED <<symbolVars, walker>>
      /\ phase = "parsed"
  BY DEF SymName
<1>2. /\ SymbolsInv' /\ walk' = walk /\ woff' = woff /\ wdone' = wdone /\ wtab' = wtab
  BY <1>1, OthersStay
<1>3. /\ base \in Nat /\ n \in Nat /\ reach \in Nat /\ file.size \in Nat
      /\ symtab \in 0 .. done /\ done \in Nat /\ base + n <= file.size
  BY FileFacts DEF ParseOK, Places
<1> DEFINE symoff == Table.symoff
           nsyms == Table.nsyms
           stroff == Table.stroff
           strsize == Table.strsize
<1>4. symoff \in Nat /\ nsyms \in Nat /\ stroff \in Nat /\ strsize \in Nat
  BY <1>3, CommandFacts DEF Table
<1>5. PICK k \in 0 .. nsyms - 1 :
         \/ Reads(Greatest(Entry(k) + 4, IF strsize > 0 THEN stroff + strsize ELSE 0))
         \/ Reads(Entry(k) + 4)
         \/ Reads(Entry(k) + 5)
  BY DEF SymName
<1>6. symtab # 0
  <2>1. ASSUME symtab = 0 PROVE nsyms = 0
    <3>1. 0 \notin DOMAIN Image.cmds
      BY FileFacts
    <3> QED BY <2>1, <3>1 DEF Table, CommandAt, Zeros
  <2> QED BY <2>1, <1>4
<1> DEFINE entry == Entry(k)
<1>7. entry \in Nat /\ entry <= symoff + k * 12
  <2>1. k * 12 \in Nat
    BY <1>4
  <2>2. (k * 12) % Word \in Nat /\ (k * 12) % Word <= k * 12
    BY <2>1, Cut
  <2> QED BY <1>4, <2>1, <2>2 DEF Entry
<1>k. k \in Nat /\ k < nsyms
  BY <1>4, <1>5
<1>8. TableTrue => symoff + nsyms * 12 <= n /\ stroff + strsize <= n
  BY <1>6 DEF TableTrue, TablesFit
<1> HIDE DEF symoff, nsyms, stroff, strsize, entry
<1>9. PICK to \in Nat : Reads(to) /\ (TableTrue => to <= n)
  <2>1. TableTrue => entry + 5 <= n
    BY <1>3, <1>4, <1>7, <1>8, <1>k
  <2>2. CASE Reads(entry + 4)
    BY <2>1, <2>2, <1>3, <1>7
  <2>3. CASE Reads(entry + 5)
    BY <2>1, <2>3, <1>7
  <2>4. CASE Reads(Greatest(entry + 4, IF strsize > 0 THEN stroff + strsize ELSE 0))
    <3> DEFINE strs == IF strsize > 0 THEN stroff + strsize ELSE 0
    <3>1. strs \in Nat /\ (TableTrue => strs <= n) /\ entry + 4 \in Nat
      BY <1>3, <1>4, <1>7, <1>8
    <3> HIDE DEF strs
    <3>2. Greatest(entry + 4, strs) \in Nat
      BY <3>1, <1>3, GreatestFacts
    <3>3. TableTrue => Greatest(entry + 4, strs) <= n
      BY <2>1, <3>1, <1>3, <1>7, GreatestFacts
    <3> QED BY <2>4, <3>2, <3>3 DEF strs
  <2> QED BY <1>5, <2>2, <2>3, <2>4 DEF entry, strsize, stroff
<1>10. reach' = Greatest(reach, base + to) /\ base + to \in Nat
  BY <1>3, <1>9 DEF Reads
<1>11. reach' \in Nat
  BY <1>3, <1>10, GreatestFacts
<1>12. Types' /\ Places' /\ Chained'
  BY <1>1, <1>2, <1>11, ParsedStays DEF Places, Chained
<1>13. LastTable(wtab, wdone)'
  BY <1>1, <1>2, SameFile
<1>14. ASSUME WellFormedImage PROVE reach' <= file.size
  <2>1. TableTrue /\ reach <= file.size
    BY <1>1, <1>14 DEF WellFormedImage
  <2>2. base + to <= file.size
    BY <2>1, <1>3, <1>9
  <2> QED BY <2>1, <2>2, <1>3, <1>10, GreatestFacts
<1> QED BY <1>1, <1>2, <1>12, <1>13, <1>14, ParsedStays

LEMMA ImageInvHolds == ImageInit => ImageInv
<1> SUFFICES ASSUME ImageInit PROVE ImageInv
  OBVIOUS
<1> USE DEF ImageInit, Init
<1>1. SymbolsInv
  BY SymbolsInvHolds
<1>2. Types
  BY FileFacts, WordFacts DEF Types, ParseOK, Image
<1>3. Places /\ Chained
  BY FileFacts DEF Places, Chained
<1>4. LastTable(symtab, done) /\ LastTable(wtab, wdone)
  BY DEF LastTable
<1> QED BY <1>1, <1>2, <1>3, <1>4, FileFacts DEF ImageInv

LEMMA ImageStep == ImageInv /\ [ImageNext]_imageVars => ImageInv'
<1> SUFFICES ASSUME ImageInv, [ImageNext]_imageVars PROVE ImageInv'
  OBVIOUS
<1>1. CASE Parse /\ UNCHANGED <<symbolVars, walker>>
  BY <1>1, ParseStep
<1>2. CASE Walk
  BY <1>2, WalkStep
<1>3. CASE SymName
  BY <1>3, SymNameStep
<1>4. ASSUME UNCHANGED <<vars, walker>>, [SymbolsNext]_symbolVars
      PROVE  ImageInv'
  <2>1. /\ file' = file /\ phase' = phase /\ UNCHANGED parse /\ reach' = reach
        /\ walk' = walk /\ woff' = woff /\ wdone' = wdone /\ wtab' = wtab
    BY <1>4 DEF vars, walker
  <2>2. SymbolsInv'
    BY <1>4, SymbolsStep DEF ImageInv
  <2>3. Types' /\ Places' /\ Chained'
    BY <2>1, ParsedStays DEF ImageInv, Types, ParseOK, Places, Chained
  <2>4. LastTable(wtab, wdone)'
    BY <2>1, SameFile DEF ImageInv
  <2> QED BY <2>1, <2>2, <2>3, <2>4, ParsedStays DEF ImageInv
<1> QED BY <1>1, <1>2, <1>3, <1>4 DEF ImageNext, Index, imageVars

LEMMA ImageInvAlways == ImageSpec => []ImageInv
BY ImageInvHolds, ImageStep, PTL DEF ImageSpec

-----------------------------------------------------------------------------
(***************************************************************************)
(* Theorems.                                                               *)
(***************************************************************************)

\* Whatever a file's size, counts, sizes and offsets, the parser reads inside it
\* unless a command's size is near 2^32, and so do the debug tools' walk and the
\* reading of names when the count and the table are true (macho.c, debug.c 43-66).
THEOREM FileIsReadInside == ImageSpec => []ReadsInFile
<1>1. ImageInv => ReadsInFile
  BY DEF ImageInv, ReadsInFile, WellFormedImage
<1> QED BY <1>1, ImageInvAlways, PTL

\* Two loops over the same commands, macho.c's and debug.c's, choose one LC_SYMTAB.
THEOREM TablesAgree == ImageSpec => []SymtabAgrees
<1>1. ImageInv => SymtabAgrees
  <2> SUFFICES ASSUME ImageInv, walk = "loaded", Ordinary, CountTrue PROVE wtab = symtab
    BY DEF SymtabAgrees
  <2>1. wdone = done /\ done \in Nat
    BY DEF ImageInv, Places, Types, ParseOK
  <2>2. LastTable(symtab, done) /\ LastTable(wtab, done)
    BY <2>1 DEF ImageInv
  <2>3. /\ symtab \in 0 .. done /\ wtab \in 0 .. done
        /\ symtab # 0 => symtab <= wtab
        /\ wtab # 0 => wtab <= symtab
    BY <2>1, <2>2 DEF LastTable
  <2> QED BY <2>1, <2>3
<1> QED BY <1>1, ImageInvAlways, PTL

\* The parser keeps its types and counts no command the header has not, and the
\* search over the index never loses its entry (debug.c 105-112).
THEOREM SearchIsSound == ImageSpec => []SearchSound
<1>1. ImageInv => SearchSound
  BY DEF ImageInv, Types, SymbolsInv, SearchSound, TypeOK
<1> QED BY <1>1, ImageInvAlways, PTL

\* An address of the guest's code is named after the nearest symbol of a section at
\* or below it, whatever the image's symbol table (debug.c 67-131).
THEOREM NamesAreNearest == ImageSpec => []NamedAfterNearest
<1>1. ImageInv => NamedAfterNearest
  BY DEF ImageInv, SymbolsInv
<1> QED BY <1>1, ImageInvAlways, PTL

-----------------------------------------------------------------------------
(***************************************************************************)
(* What the parser has collected.                                          *)
(***************************************************************************)
IsSegment(k) == CommandAt(k).kind \in {"segment", "segment64"}
SectsOf(k) ==
  IF CommandAt(k).size >= SEG32_SIZE + SECT32_SIZE THEN CommandAt(k).n ELSE 0

Copies(x, m) == [j \in 1 .. m |-> x]
Where(g, k) == {j \in 1 .. Len(g) : g[j] = k}

\* The segments among the commands handled, in their order, with their sections;
\* the loop ends at the last command or where no other fits.
Collected ==
  /\ \A j, k \in 1 .. Len(segs) : j < k => segs[j] < segs[k]
  /\ \A k \in 1 .. done : IsSegment(k) <=> \E j \in 1 .. Len(segs) : segs[j] = k
  /\ \A k \in 1 .. done : CommandAt(k).kind = "segment" =>
       Cardinality(Where(sects, k)) = SectsOf(k)
  /\ phase = "parsed" => done = Image.ncmds \/ off + 8 > cend

LEMMA Joined ==
  ASSUME NEW s \in Seq(Int), NEW t \in Seq(Int)
  PROVE  /\ Len(s \o t) = Len(s) + Len(t)
         /\ \A j \in 1 .. Len(s) : (s \o t)[j] = s[j]
         /\ \A j \in Len(s) + 1 .. Len(s) + Len(t) : (s \o t)[j] = t[j - Len(s)]
OBVIOUS

\* The sequence g is s, of l elements up to d, with m more that are x.
Grown(g, s, l, d, x, m) ==
  /\ x \notin 1 .. d
  /\ Len(s) = l /\ Len(g) = l + m
  /\ \A j \in 1 .. l : g[j] = s[j] /\ s[j] \in 1 .. d
  /\ \A j \in l + 1 .. l + m : g[j] = x

Added(g, s, d, x, m) ==
  x \notin 1 .. d /\ s \in Seq(1 .. d) /\ g = s \o Copies(x, m)

\* A sequence that grows by m elements of a new kind has m of them.
LEMMA Counted ==
  ASSUME NEW d \in Nat, NEW x, NEW l \in Nat, NEW m \in Nat, NEW s, NEW g,
         Grown(g, s, l, d, x, m)
  PROVE  /\ Cardinality(Where(g, x)) = m
         /\ \A k \in 1 .. d : Where(g, k) = Where(s, k)
<1> USE DEF Grown
<1>1. Where(g, x) = l + 1 .. l + m
  <2>1. \A j \in 1 .. l + m : j \in 1 .. l \/ j \in l + 1 .. l + m
    OBVIOUS
  <2>2. l + 1 .. l + m \subseteq 1 .. l + m
    OBVIOUS
  <2> QED BY <2>1, <2>2 DEF Where
<1>2. Cardinality(l + 1 .. l + m) = m
  <2>1. PICK a \in Int, b \in Int : a = l + 1 /\ b = l + m
    OBVIOUS
  <2>2. Cardinality(a .. b) = IF a > b THEN 0 ELSE b - a + 1
    BY FS_Interval
  <2> QED BY <2>1, <2>2
<1>3. ASSUME NEW k \in 1 .. d
      PROVE  Where(g, k) = Where(s, k)
  <2>1. \A j \in 1 .. l + m : j \in 1 .. l \/ j \in l + 1 .. l + m
    OBVIOUS
  <2>2. 1 .. l \subseteq 1 .. l + m
    OBVIOUS
  <2> QED BY <2>1, <2>2 DEF Where
<1> QED BY <1>1, <1>2, <1>3

LEMMA Repeated ==
  ASSUME NEW d \in Nat, NEW x \in Int, NEW s, NEW m \in Nat, NEW g, Added(g, s, d, x, m)
  PROVE  /\ Cardinality(Where(g, x)) = m
         /\ \A k \in 1 .. d : Where(g, k) = Where(s, k)
<1> USE DEF Added
<1>1. /\ Copies(x, m) \in Seq(Int) /\ Len(Copies(x, m)) = m
      /\ \A j \in 1 .. m : Copies(x, m)[j] = x
  BY DEF Copies
<1>2. PICK l \in Nat : l = Len(s)
  OBVIOUS
<1>3. s \in Seq(Int) /\ \A j \in 1 .. l : s[j] \in 1 .. d
  BY <1>2
<1>4. /\ Len(g) = l + m
      /\ \A j \in 1 .. l : g[j] = s[j]
      /\ \A j \in l + 1 .. l + m : g[j] = Copies(x, m)[j - l]
  <2>1. PICK t : t = Copies(x, m)
    OBVIOUS
  <2>2. t \in Seq(Int) /\ Len(t) = m /\ g = s \o t
    BY <1>1, <2>1
  <2>3. /\ Len(s \o t) = Len(s) + Len(t)
        /\ \A j \in 1 .. Len(s) : (s \o t)[j] = s[j]
        /\ \A j \in Len(s) + 1 .. Len(s) + Len(t) : (s \o t)[j] = t[j - Len(s)]
    BY <1>3, <2>2, Joined, Zenon
  <2> QED BY <1>2, <2>1, <2>2, <2>3
<1>5. ASSUME NEW j \in l + 1 .. l + m PROVE g[j] = x
  <2>1. PICK k : k = j - l
    OBVIOUS
  <2>2. k \in 1 .. m
    BY <1>2, <2>1
  <2>3. g[j] = Copies(x, m)[k]
    BY <1>4, <2>1
  <2> QED BY <1>1, <2>2, <2>3
<1>6. \A j \in 1 .. l : g[j] = s[j] /\ s[j] \in 1 .. d
  BY <1>3, <1>4
<1>7. Grown(g, s, l, d, x, m)
  BY <1>2, <1>4, <1>5, <1>6 DEF Grown
<1> HIDE DEF Added
<1>8. l \in Nat /\ m \in Nat /\ d \in Nat
  BY <1>2
<1>9. Cardinality(Where(g, x)) = m
  BY <1>8, <1>7, Counted
<1>10. \A k \in 1 .. d : Where(g, k) = Where(s, k)
  BY <1>8, <1>7, Counted
<1> QED BY <1>9, <1>10

\* An ordered sequence stays so when a greater number is added.
LEMMA GreaterAdded ==
  ASSUME NEW d \in Nat, NEW s \in Seq(1 .. d), NEW g, g = Append(s, d + 1),
         \A j, k \in 1 .. Len(s) : j < k => s[j] < s[k]
  PROVE  /\ \A j, k \in 1 .. Len(g) : j < k => g[j] < g[k]
         /\ \E j \in 1 .. Len(g) : g[j] = d + 1
         /\ \A k \in 1 .. d : (\E j \in 1 .. Len(g) : g[j] = k) <=> \E j \in 1 .. Len(s) : s[j] = k
<1> DEFINE l == Len(s)
<1>1. /\ l \in Nat /\ Len(g) = l + 1 /\ g[l + 1] = d + 1 /\ l + 1 \in 1 .. l + 1
      /\ \A j \in 1 .. l : g[j] = s[j] /\ s[j] \in 1 .. d
  OBVIOUS
<1>2. \A j, k \in 1 .. l : j < k => s[j] < s[k]
  OBVIOUS
<1> HIDE DEF l
<1>3. ASSUME NEW j \in 1 .. l + 1, NEW k \in 1 .. l + 1, j < k
      PROVE  g[j] < g[k]
  <2>1. CASE k = l + 1
    <3>1. j \in 1 .. l
      BY <1>1, <1>3, <2>1
    <3> QED BY <1>1, <2>1, <3>1
  <2>2. CASE k # l + 1
    <3>1. j \in 1 .. l /\ k \in 1 .. l
      BY <1>1, <1>3, <2>2
    <3> QED BY <1>1, <1>2, <1>3, <3>1
  <2> QED BY <2>1, <2>2
<1>4. ASSUME NEW k \in 1 .. d, NEW j \in 1 .. l + 1, g[j] = k
      PROVE  j \in 1 .. l /\ s[j] = k
  <2>1. j # l + 1
    BY <1>1, <1>4
  <2>2. j \in 1 .. l
    BY <1>1, <2>1
  <2> QED BY <1>1, <1>4, <2>2
<1>5. ASSUME NEW k \in 1 .. d, NEW j \in 1 .. l, s[j] = k
      PROVE  j \in 1 .. l + 1 /\ g[j] = k
  BY <1>1, <1>5
<1> QED BY <1>1, <1>3, <1>4, <1>5 DEF l

\* A segment is added at the end, after all that came before it.
LEMMA SegmentAdded ==
  ASSUME ImageInv, Collected, file' = file, done' = done + 1
  PROVE  /\ IsSegment(done + 1) /\ segs' = Append(segs, done + 1) =>
              /\ \A j, k \in 1 .. Len(segs') : j < k => segs'[j] < segs'[k]
              /\ \A k \in 1 .. done' : IsSegment(k) <=> \E j \in 1 .. Len(segs') : segs'[j] = k
         /\ ~IsSegment(done + 1) /\ segs' = segs =>
              /\ \A j, k \in 1 .. Len(segs') : j < k => segs'[j] < segs'[k]
              /\ \A k \in 1 .. done' : IsSegment(k) <=> \E j \in 1 .. Len(segs') : segs'[j] = k
<1>1. done \in Nat /\ segs \in Seq(1 .. done)
  BY DEF ImageInv, Types, ParseOK
<1> DEFINE l == Len(segs)
<1>2. l \in Nat /\ \A j \in 1 .. l : segs[j] \in 1 .. done
  BY <1>1
<1>3. ASSUME IsSegment(done + 1), segs' = Append(segs, done + 1)
      PROVE  /\ \A j, k \in 1 .. Len(segs') : j < k => segs'[j] < segs'[k]
             /\ \A k \in 1 .. done' : IsSegment(k) <=> \E j \in 1 .. Len(segs') : segs'[j] = k
  <2>1. \A j, k \in 1 .. Len(segs) : j < k => segs[j] < segs[k]
    BY DEF Collected
  <2>2. PICK g : g = segs'
    OBVIOUS
  <2>3. /\ \A j, k \in 1 .. Len(g) : j < k => g[j] < g[k]
        /\ \E j \in 1 .. Len(g) : g[j] = done + 1
        /\ \A k \in 1 .. done :
             (\E j \in 1 .. Len(g) : g[j] = k) <=> \E j \in 1 .. Len(segs) : segs[j] = k
    BY <1>1, <1>3, <2>1, <2>2, GreaterAdded
  <2>4. ASSUME NEW k \in 1 .. done + 1
        PROVE  IsSegment(k) <=> \E j \in 1 .. Len(g) : g[j] = k
    <3>1. CASE k = done + 1
      BY <1>3, <2>3, <3>1
    <3>2. CASE k \in 1 .. done
      BY <2>3, <3>2 DEF Collected
    <3> QED BY <1>1, <3>1, <3>2
  <2> QED BY <2>2, <2>3, <2>4
<1>4. ASSUME ~IsSegment(done + 1), segs' = segs
      PROVE  /\ \A j, k \in 1 .. Len(segs') : j < k => segs'[j] < segs'[k]
             /\ \A k \in 1 .. done' : IsSegment(k) <=> \E j \in 1 .. Len(segs') : segs'[j] = k
  <2>1. \A j, k \in 1 .. Len(segs') : j < k => segs'[j] < segs'[k]
    BY <1>4 DEF Collected
  <2>2. ASSUME NEW k \in 1 .. done + 1
        PROVE  IsSegment(k) <=> \E j \in 1 .. l : segs[j] = k
    <3>1. CASE k = done + 1
      BY <1>1, <1>2, <1>4, <3>1
    <3>2. CASE k \in 1 .. done
      BY <3>2 DEF Collected
    <3> QED BY <1>1, <3>1, <3>2
  <2> QED BY <1>4, <2>1, <2>2
<1> QED BY <1>3, <1>4

LEMMA HandleCollects ==
  ASSUME ImageInv, Collected, Handle
  PROVE  Collected'
<1>1. /\ file' = file /\ phase' = "commands" /\ done' = done + 1 /\ done \in Nat
      /\ Here = done + 1 /\ Command = CommandAt(done + 1)
      /\ sects \in Seq(1 .. done) /\ Accepted
  BY DEF Handle, Segment, Segment64, Symtab, Dysymtab, Thread, Other, Handles, ImageInv, Types,
         ParseOK, Here, Command
<1>2. /\ \A k : (IsSegment(k)' <=> IsSegment(k)) /\ SectsOf(k)' = SectsOf(k)
      /\ \A k : CommandAt(k)' = CommandAt(k)
  BY <1>1, SameFile DEF IsSegment, SectsOf
<1>3. CommandAt(done + 1).n \in Nat
  BY <1>1, CommandFacts DEF ImageInv, Types
<1>4. \/ IsSegment(done + 1) /\ segs' = Append(segs, done + 1)
      \/ ~IsSegment(done + 1) /\ segs' = segs
  BY <1>1 DEF Handle, Segment, Segment64, Symtab, Dysymtab, Thread, Other, Handles, IsSegment
<1>5. \/ /\ CommandAt(done + 1).kind = "segment"
         /\ sects' = sects \o Copies(done + 1, SectsOf(done + 1))
      \/ CommandAt(done + 1).kind # "segment" /\ sects' = sects
  <2>1. SectsRead = SectsOf(done + 1)
    BY <1>1 DEF SectsRead, HasSects, SectsOf
  <2> QED
    BY <1>1, <2>1 DEF Handle, Segment, Segment64, Symtab, Dysymtab, Thread, Other, Handles, Copies
<1>6. ASSUME NEW k \in 1 .. done + 1, CommandAt(k).kind = "segment"
      PROVE  Cardinality(Where(sects', k)) = SectsOf(k)
  <2>1. CASE CommandAt(done + 1).kind # "segment" /\ sects' = sects
    <3>1. k \in 1 .. done
      BY <1>1, <1>6, <2>1
    <3> QED BY <1>6, <2>1, <3>1 DEF Collected
  <2>2. CASE sects' = sects \o Copies(done + 1, SectsOf(done + 1))
    <3>0. PICK m, g : m = SectsOf(done + 1) /\ g = sects' /\ m \in Nat
      BY <1>3 DEF SectsOf
    <3>1. PICK x \in Int : x = done + 1
      BY <1>1
    <3>2. Cardinality(Where(g, x)) = m /\ \A h \in 1 .. done : Where(g, h) = Where(sects, h)
      <4>1. Added(g, sects, done, x, m)
        BY <1>1, <2>2, <3>0, <3>1 DEF Added
      <4>2. done \in Nat /\ x \in Int /\ m \in Nat
        BY <1>1, <3>0, <3>1
      <4> QED BY <4>1, <4>2, Repeated
    <3>3. CASE k = done + 1
      BY <3>0, <3>1, <3>2, <3>3
    <3>4. CASE k \in 1 .. done
      BY <3>0, <3>1, <3>2, <3>4, <1>6 DEF Collected
    <3> QED BY <1>1, <3>3, <3>4
  <2> QED BY <1>5, <2>1, <2>2
<1>7. /\ \A j, k \in 1 .. Len(segs') : j < k => segs'[j] < segs'[k]
      /\ \A k \in 1 .. done' : IsSegment(k) <=> \E j \in 1 .. Len(segs') : segs'[j] = k
  BY <1>1, <1>4, SegmentAdded
<1> QED BY <1>1, <1>2, <1>6, <1>7 DEF Collected

LEMMA ImageCollects ==
  ASSUME ImageInv, Collected, [ImageNext]_imageVars
  PROVE  Collected'
<1>1. ASSUME file' = file, done' = done, segs' = segs, sects' = sects, phase' # "parsed"
      PROVE  Collected'
  <2>1. /\ \A k : (IsSegment(k)' <=> IsSegment(k)) /\ SectsOf(k)' = SectsOf(k)
        /\ \A k : CommandAt(k)' = CommandAt(k)
    BY <1>1, SameFile DEF IsSegment, SectsOf
  <2> QED BY <1>1, <2>1 DEF Collected
<1>2. ASSUME UNCHANGED <<file, parse>>,
             phase' = "parsed" => phase = "parsed" \/ ~More
      PROVE  Collected'
  <2>1. /\ file' = file /\ done' = done /\ segs' = segs /\ sects' = sects /\ off' = off
        /\ cend' = cend /\ Image' = Image
    BY <1>2, SameFile DEF parse
  <2>2. /\ \A k : (IsSegment(k)' <=> IsSegment(k)) /\ SectsOf(k)' = SectsOf(k)
        /\ \A k : CommandAt(k)' = CommandAt(k)
    BY <2>1, SameFile DEF IsSegment, SectsOf
  <2>3. /\ done \in Nat /\ Image.ncmds \in Nat /\ done <= Image.ncmds /\ off \in Nat /\ cend \in Nat
    BY FileFacts DEF ImageInv, Types, ParseOK, Image
  <2>4. phase' = "parsed" => done = Image.ncmds \/ off + 8 > cend
    <3>1. ASSUME ~More PROVE done = Image.ncmds \/ off + 8 > cend
      <4>1. (off + 8) % Word <= off + 8 /\ (off + 8) % Word \in Nat
        BY <2>3, Cut
      <4> QED BY <2>3, <3>1, <4>1 DEF More
    <3> QED BY <1>2, <3>1 DEF Collected
  <2> QED BY <2>1, <2>2, <2>4 DEF Collected
<1>3. CASE Parse
  <2>1. CASE ParseThin \/ ParseFat
    <3>1. /\ file' = file /\ done' = done /\ segs' = segs /\ sects' = sects
          /\ phase' \in {"error", "commands"}
      BY <2>1 DEF ParseThin, ParseFat, Begin, Fails, parse
    <3> QED BY <1>1, <3>1
  <2>2. CASE Malformed
    BY <1>1, <2>2 DEF Malformed, Fails, parse
  <2>3. CASE Parsed
    BY <1>2, <2>3 DEF Parsed
  <2> QED BY <1>3, <2>1, <2>2, <2>3, HandleCollects DEF Parse
<1>4. CASE Walk
  <2>1. file' = file /\ parse' = parse /\ (phase' = "parsed" => phase = "parsed")
    BY <1>4 DEF Walk, WalkBegins, WalkCommand, WalkLoads, WalkGivesUp, vars
  <2> QED BY <1>2, <2>1
<1>5. CASE SymName \/ Index \/ UNCHANGED imageVars
  <2>1. file' = file /\ parse' = parse /\ (phase' = "parsed" => phase = "parsed")
    BY <1>5 DEF SymName, Index, imageVars, vars
  <2> QED BY <1>2, <2>1
<1> QED BY <1>3, <1>4, <1>5 DEF ImageNext

(***************************************************************************)
(* Where the commands end is defined by recursion over their count: there  *)
(* is such a function, since there is one for every smaller count.         *)
(***************************************************************************)
EndsOf(e, m) ==
  e = [k \in 0 .. m |-> IF k = 0 THEN HeaderSize ELSE e[k - 1] + CommandAt(k).size]

LEMMA EndsExist ==
  ASSUME file \in Files
  PROVE  End = [k \in 0 .. Image.ncmds |->
                  IF k = 0 THEN HeaderSize ELSE End[k - 1] + CommandAt(k).size]
<1> DEFINE Without == {m \in Nat : ~\E e : EndsOf(e, m)}
<1>1. ASSUME Without # {} PROVE FALSE
  <2>1. PICK m \in Without : \A k \in Without : <<k, m>> \notin OpToRel(<, Nat)
    BY <1>1, NatLessThanWellFounded, WFMin
  <2>2. m \in Nat /\ \A k \in Nat : k < m => \E e : EndsOf(e, k)
    BY <2>1 DEF OpToRel
  <2>3. CASE m = 0
    <3> DEFINE e == [k \in 0 .. 0 |-> HeaderSize]
    <3>1. EndsOf(e, 0)
      BY DEF EndsOf
    <3> QED BY <2>1, <2>3, <3>1
  <2>4. CASE m > 0
    <3>1. m - 1 \in Nat /\ m - 1 < m
      BY <2>2, <2>4
    <3>2. PICK e : EndsOf(e, m - 1)
      BY <2>2, <3>1
    <3>3. PICK x : x = e[m - 1] + CommandAt(m).size
      OBVIOUS
    <3> DEFINE f == [k \in 0 .. m |-> IF k = m THEN x ELSE e[k]]
    <3>4. ASSUME NEW k \in 0 .. m
          PROVE  f[k] = IF k = 0 THEN HeaderSize ELSE f[k - 1] + CommandAt(k).size
      <4>1. CASE k = m
        <5>1. f[k] = x /\ f[k - 1] = e[m - 1] /\ k # 0
          BY <2>2, <2>4, <4>1
        <5> QED BY <3>3, <4>1, <5>1
      <4>2. CASE k # m
        <5>1. k \in 0 .. m - 1 /\ f[k] = e[k] /\ (k # 0 => f[k - 1] = e[k - 1])
          BY <2>2, <4>2
        <5>2. e[k] = IF k = 0 THEN HeaderSize ELSE e[k - 1] + CommandAt(k).size
          BY <3>2, <5>1 DEF EndsOf
        <5> QED BY <5>1, <5>2
      <4> QED BY <4>1, <4>2
    <3>5. EndsOf(f, m)
      BY <3>4 DEF EndsOf
    <3> QED BY <2>1, <3>5
  <2> QED BY <2>2, <2>3, <2>4
<1>2. \E e : EndsOf(e, Image.ncmds)
  BY <1>1, FileFacts
<1> QED BY <1>2 DEF EndsOf, End

(***************************************************************************)
(* What a parsed file has: every command that ends before the commands'    *)
(* end, every segment among them in the file's order, and for each the     *)
(* sections it announces, for files of any size (macho.c, parse_thin).     *)
(***************************************************************************)
THEOREM ParsedIsWhole == ImageSpec => []ParsedWhole
<1>1. ImageInv /\ Collected => ParsedWhole
  <2> SUFFICES ASSUME ImageInv, Collected, phase = "parsed", Ordinary PROVE ParsedWhole
    BY DEF ParsedWhole
  <2>1. /\ file \in Files /\ done \in Nat /\ done <= Image.ncmds /\ Image.ncmds \in Nat
        /\ segs \in Seq(1 .. done) /\ sects \in Seq(1 .. done) /\ off \in Nat /\ cend \in Nat
    BY FileFacts, SMTT(20) DEF ImageInv, Types, ParseOK, Image
  <2>2. PICK o : Chain(o)
    BY DEF ImageInv, Chained
  <2>3. \A k \in 1 .. done : k \in DOMAIN Image.cmds /\ Image.cmds[k] = CommandAt(k)
    <3>1. \A k \in 1 .. done : k \in Nat /\ CommandAt(k).size \in Nat /\ CommandAt(k).size >= 8
      BY <2>1, <2>2, CommandFacts DEF Chain
    <3>2. ASSUME NEW k \in 1 .. done PROVE k \in DOMAIN Image.cmds
      <4>1. k \in Nat /\ CommandAt(k).size > 0
        BY <3>1
      <4> QED BY <2>1, <4>1, CommandFacts
    <3> QED BY <3>2 DEF CommandAt
  <2>4. \A k \in 0 .. done : End[k] = o[k]
    <3> DEFINE Wrong == {k \in 0 .. done : End[k] # o[k]}
    <3>1. ASSUME Wrong # {} PROVE FALSE
      <4>0. Wrong \subseteq Nat
        BY <2>1
      <4>1. PICK m \in Wrong : \A k \in Wrong : <<k, m>> \notin OpToRel(<, Nat)
        BY <3>1, <4>0, NatLessThanWellFounded, WFMin
      <4>2. m \in 0 .. done /\ \A k \in 0 .. done : k < m => End[k] = o[k]
        <5>1. \A k \in Wrong : ~(k < m)
          BY <4>0, <4>1 DEF OpToRel
        <5>2. m \in 0 .. done
          BY <4>1
        <5> QED BY <5>1, <5>2
      <4>3. End[m] = IF m = 0 THEN HeaderSize ELSE End[m - 1] + CommandAt(m).size
        BY <2>1, <4>2, EndsExist
      <4>4. o[m] = IF m = 0 THEN HeaderSize ELSE o[m - 1] + CommandAt(m).size
        BY <2>1, <2>2, <4>2 DEF Chain
      <4>5. m # 0 => m - 1 \in 0 .. done /\ m - 1 < m
        BY <2>1, <4>2
      <4> QED BY <4>1, <4>2, <4>3, <4>4, <4>5
    <3> QED BY <3>1
  <2>5. \A k \in 1 .. done : End[k] <= cend
    BY <2>1, <2>2, <2>4 DEF Chain
  <2>6. done < Image.ncmds => End[done] + 8 > cend
    BY <2>1, <2>2, <2>4 DEF Chain, Collected
  <2> DEFINE l == Len(segs)
  <2>6a. l \in Nat /\ DOMAIN segs = 1 .. l /\ \A j \in 1 .. l : segs[j] \in 1 .. done
    BY <2>1
  <2>6b. /\ \A j, k \in 1 .. l : j < k => segs[j] < segs[k]
         /\ \A k \in 1 .. done : IsSegment(k) <=> \E j \in 1 .. l : segs[j] = k
    BY DEF Collected
  <2> HIDE DEF l
  <2>7. {segs[j] : j \in DOMAIN segs} =
          {k \in 1 .. done : Image.cmds[k].kind \in {"segment", "segment64"}}
    <3>1. ASSUME NEW j \in 1 .. l
          PROVE  segs[j] \in 1 .. done /\ IsSegment(segs[j])
      BY <2>6a, <2>6b
    <3>2. ASSUME NEW k \in 1 .. done, IsSegment(k)
          PROVE  \E j \in 1 .. l : k = segs[j]
      BY <2>6b, <3>2
    <3>3. \A k \in 1 .. done : IsSegment(k) <=> Image.cmds[k].kind \in {"segment", "segment64"}
      BY <2>3 DEF IsSegment
    <3> QED BY <2>6a, <3>1, <3>2, <3>3
  <2>8. ASSUME NEW k \in 1 .. done, Image.cmds[k].kind = "segment"
        PROVE  Cardinality({j \in DOMAIN sects : sects[j] = k}) =
                 IF Image.cmds[k].size >= SEG32_SIZE + SECT32_SIZE THEN Image.cmds[k].n ELSE 0
    <3>1. DOMAIN sects = 1 .. Len(sects)
      BY <2>1
    <3> QED BY <2>3, <2>8, <3>1 DEF Collected, SectsOf, Where
  <2>9. \A j, k \in DOMAIN segs : j < k => segs[j] < segs[k]
    BY <2>6a, <2>6b
  <2> QED BY <2>5, <2>6, <2>7, <2>8, <2>9 DEF ParsedWhole
<1>2. ImageInit => Collected
  BY DEF ImageInit, Init, Collected
<1>3. ImageInv /\ Collected /\ [ImageNext]_imageVars => Collected'
  BY ImageCollects
<1> QED BY <1>1, <1>2, <1>3, ImageInvAlways, PTL DEF ImageSpec

-----------------------------------------------------------------------------
(***************************************************************************)
(* Binding: the ids given to unknown symbols lie after the table, below    *)
(* the next id, and no two pointers share one.                             *)
(***************************************************************************)
\* The pointers before `next` are bound as their symbols ask.
BoundSoFar ==
  \A p \in 1 .. Pointers :
    /\ p >= next => pointer[p] = UNBOUND
    /\ imports[p] = LOCAL_SYM => pointer[p] = UNBOUND
    /\ imports[p] \in Known /\ pointer[p] # UNBOUND => pointer[p] = HleLookup(imports[p])
    /\ imports[p] \in Unknown /\ pointer[p] # UNBOUND
         => TableN <= pointer[p] /\ pointer[p] < hle_ids_used

\* No more ids are taken than pointers have been looked at, nor is the last.
IdsCounted ==
  /\ result # -1 => hle_ids_used < TableN + next /\ hle_ids_used < TrapSlots
  /\ result = -1 => hle_ids_used <= TableN + next /\ next <= Pointers

BindInv == BindTypeOK /\ BoundSoFar /\ UnknownTrapsDiffer /\ IdsCounted

-----------------------------------------------------------------------------
\* The facts about the constants that the arithmetic needs.
LEMMA Constants ==
  /\ Pointers \in Nat /\ TrapSlots \in Nat /\ TableN \in Nat /\ TableN <= TrapSlots
  /\ PTHREAD_RET \in Ids /\ BSEARCH_RET \in Ids
  /\ TableN <= PTHREAD_RET /\ TableN <= BSEARCH_RET
  /\ Known \cap Unknown = {} /\ LOCAL_SYM \notin Known \cup Unknown
  /\ UNBOUND \in Int /\ UNBOUND < 0
<1>1. TableN \in Nat
  BY BindAssumption DEF TableN
<1>2. UNBOUND \in Int /\ UNBOUND < 0
  BY DEF UNBOUND
<1> QED
  BY <1>1, <1>2, BindAssumption

\* A name of the table is found at the index of an entry with that name.
LEMMA LookupFinds ==
  ASSUME NEW name \in Known
  PROVE  /\ HleLookup(name) \in 0 .. TableN - 1
         /\ hle_table[HleLookup(name) + 1] = name
<1>1. Indices(name) # {} /\ Indices(name) \subseteq 1 .. TableN
  BY DEF Known, Indices, TableN
<1>2. PICK p \in Indices(name) : \A j \in Indices(name) : p <= j
  <2>1. Indices(name) \subseteq Nat
    BY <1>1, Constants
  <2>2. PICK p \in Indices(name) : \A j \in Indices(name) : <<j, p>> \notin OpToRel(<, Nat)
    BY <1>1, <2>1, NatLessThanWellFounded, WFMin
  <2>3. \A j \in Indices(name) : ~(j < p)
    BY <2>1, <2>2 DEF OpToRel
  <2> QED
    BY <2>1, <2>3
<1>3. DEFINE least == CHOOSE k \in Indices(name) : \A j \in Indices(name) : k <= j
<1>4. least \in Indices(name)
  BY <1>2
<1>5. HleLookup(name) = least - 1
  BY DEF HleLookup
<1> HIDE DEF least
<1>6. least \in 1 .. TableN /\ hle_table[least] = name
  BY <1>1, <1>4 DEF Indices
<1>7. HleLookup(name) + 1 = least /\ HleLookup(name) \in 0 .. TableN - 1
  BY <1>5, <1>6, Constants
<1> QED
  BY <1>6, <1>7

\* A number the table has no entry for runs nothing, if no return trap has it.
LEMMA BeyondTable ==
  ASSUME NEW id \in Int, TableN <= id, id # PTHREAD_RET, id # BSEARCH_RET
  PROVE  Runs(id) = NO_FUNCTION
BY Constants DEF Runs

\* An entry of the table is run by its own number.
LEMMA InTable ==
  ASSUME NEW id \in 0 .. TableN - 1
  PROVE  Runs(id) = hle_table[id + 1]
BY Constants DEF Runs, Ids

-----------------------------------------------------------------------------
LEMMA InitBindInv == BindInit => BindInv
<1> SUFFICES ASSUME BindInit PROVE BindInv
  OBVIOUS
<1>1. BindTypeOK
  BY Constants DEF BindInit, BindTypeOK
<1>2. BoundSoFar /\ UnknownTrapsDiffer
  BY DEF BindInit, BoundSoFar, UnknownTrapsDiffer
<1>3. IdsCounted
  BY Constants DEF BindInit, IdsCounted, Ids
<1> QED
  BY <1>1, <1>2, <1>3 DEF BindInv

LEMMA NextBindInv == BindInv /\ [BindNext]_bindVars => BindInv'
<1> SUFFICES ASSUME BindInv, [BindNext]_bindVars PROVE BindInv'
  OBVIOUS
<1> USE Constants DEF BindInv
<1>1. CASE BindLocal /\ result = 1 /\ next <= Pointers
  BY <1>1 DEF BindLocal, BindTypeOK, BoundSoFar, UnknownTrapsDiffer, IdsCounted
<1>2. CASE BindKnown /\ result = 1 /\ next <= Pointers
  <2> DEFINE id == HleLookup(imports[next])
  <2>1. id \in Ids /\ imports[next] \notin Unknown /\ imports[next] # LOCAL_SYM
    BY <1>2, LookupFinds DEF BindKnown, Ids
  <2>2. pointer' = [pointer EXCEPT ![next] = id]
    BY <1>2 DEF BindKnown
  <2>3. \A p \in 1 .. Pointers : imports[p] \in Unknown /\ pointer'[p] # UNBOUND
          => p # next /\ pointer[p] # UNBOUND /\ TableN <= pointer'[p]
    BY <2>1, <2>2 DEF BindTypeOK, BoundSoFar
  <2>4. id < TableN
    BY <1>2, LookupFinds DEF BindKnown
  <2> HIDE DEF id
  <2>5. BindTypeOK'
    BY <1>2, <2>1, <2>2 DEF BindKnown, BindTypeOK
  <2>6. BoundSoFar'
    BY <1>2, <2>1, <2>2 DEF BindKnown, BindTypeOK, BoundSoFar, id
  <2>7. UnknownTrapsDiffer'
    <3>1. imports' = imports /\ next \in 1 .. Pointers
      BY <1>2 DEF BindKnown, BindTypeOK
    <3>2. pointer'[next] < TableN /\ \A p \in 1 .. Pointers : p # next => pointer'[p] = pointer[p]
      BY <3>1, <2>2, <2>4 DEF BindTypeOK
    <3>3. \A p \in 1 .. Pointers : pointer'[p] \in Int
      BY <2>5 DEF BindTypeOK, Ids
    <3> QED
      BY <3>1, <3>2, <3>3, <2>3 DEF UnknownTrapsDiffer
  <2> QED
    BY <1>2, <2>5, <2>6, <2>7 DEF BindKnown, BindTypeOK, IdsCounted
<1>3. CASE BindUnknown /\ result = 1 /\ next <= Pointers
  <2>1. imports[next] \notin Known /\ imports[next] # LOCAL_SYM
    BY <1>3 DEF BindUnknown
  <2>2. \A p \in 1 .. Pointers : p # next => pointer'[p] = pointer[p]
    BY <1>3 DEF BindUnknown, BindTypeOK
  <2>3. pointer'[next] = hle_ids_used
    BY <1>3 DEF BindUnknown, BindTypeOK
  <2>4. \A p \in 1 .. Pointers : pointer[p] # hle_ids_used
    BY LookupFinds DEF BindTypeOK, BoundSoFar, Symbols
  <2>5. BindTypeOK'
    BY <1>3 DEF BindUnknown, BindTypeOK, Ids
  <2>6. BoundSoFar'
    BY <1>3, <2>1, <2>2, <2>3 DEF BindUnknown, BindTypeOK, BoundSoFar, Ids
  <2>7. UnknownTrapsDiffer'
    <3>1. imports' = imports
      BY <1>3 DEF BindUnknown
    <3> QED
      BY <3>1, <2>2, <2>3, <2>4 DEF UnknownTrapsDiffer
  <2> QED
    BY <1>3, <2>5, <2>6, <2>7 DEF BindUnknown, BindTypeOK, IdsCounted
<1>4. CASE BindFails /\ result = 1 /\ next <= Pointers
  <2>1. hle_ids_used < TrapSlots
    BY <1>4 DEF IdsCounted
  <2>2. BindTypeOK'
    BY <1>4, <2>1 DEF BindFails, BindTypeOK
  <2>3. BoundSoFar'
    BY <1>4, <2>1 DEF BindFails, BindTypeOK, BoundSoFar, Ids
  <2>4. UnknownTrapsDiffer' /\ IdsCounted'
    BY <1>4 DEF BindFails, UnknownTrapsDiffer, IdsCounted, BindTypeOK
  <2> QED
    BY <2>2, <2>3, <2>4
<1>5. CASE BindDone
  BY <1>5 DEF BindDone, BindTypeOK, BoundSoFar, UnknownTrapsDiffer, IdsCounted
<1>6. CASE UNCHANGED bindVars
  BY <1>6 DEF bindVars, BindTypeOK, BoundSoFar, UnknownTrapsDiffer, IdsCounted
<1> QED
  BY <1>1, <1>2, <1>3, <1>4, <1>5, <1>6 DEF BindNext, BindPointer

LEMMA AlwaysBindInv == BindSpec => []BindInv
BY InitBindInv, NextBindInv, PTL DEF BindSpec

-----------------------------------------------------------------------------
\* hle_bind writes only numbers of the trap region and counts within it.
THEOREM BindTypes == BindSpec => []BindTypeOK
<1>1. BindInv => BindTypeOK
  BY DEF BindInv
<1> QED
  BY <1>1, AlwaysBindInv, PTL

\* No two imports share the trap of a symbol the table lacks.
THEOREM UnknownTrapsStayApart == BindSpec => []UnknownTrapsDiffer
<1>1. BindInv => UnknownTrapsDiffer
  BY DEF BindInv
<1> QED
  BY <1>1, AlwaysBindInv, PTL

\* Both together: every trap handed out is in the region, those of unknown symbols apart.
THEOREM TrapsStayWhole == BindSpec => []TrapsWhole
<1> QED
  BY BindTypes, UnknownTrapsStayApart, PTL DEF TrapsWhole

\* An import runs the function of its name, or none, while the numbers handed
\* out are below the return traps.
LEMMA BoundRunTheirOwn == BindInv => ImportsRunTheirOwn
<1> SUFFICES ASSUME BindInv, BelowReturnTraps, NEW p \in 1 .. Pointers, pointer[p] # UNBOUND
             PROVE  Runs(pointer[p]) = IF imports[p] \in Known THEN imports[p] ELSE NO_FUNCTION
  BY DEF ImportsRunTheirOwn
<1> USE DEF BindInv
<1>1. imports[p] \in Known \cup Unknown
  BY DEF BindTypeOK, BoundSoFar, Symbols
<1>2. CASE imports[p] \in Known
  BY <1>2, LookupFinds, InTable DEF BoundSoFar
<1>3. CASE imports[p] \in Unknown
  <2>1. TableN <= pointer[p] /\ pointer[p] < hle_ids_used /\ pointer[p] \in Int
    BY <1>3, Constants DEF BindTypeOK, BoundSoFar, Ids
  <2>2. hle_ids_used \in Int
    BY Constants DEF BindTypeOK
  <2>3. pointer[p] # PTHREAD_RET /\ pointer[p] # BSEARCH_RET
    BY <2>1, <2>2, Constants DEF BelowReturnTraps, Ids
  <2>4. Runs(pointer[p]) = NO_FUNCTION
    BY <2>1, <2>3, BeyondTable
  <2> QED
    BY <1>3, <2>4, Constants
<1> QED
  BY <1>1, <1>2, <1>3

\* Throughout the binding and after it, failed or not, an import that is bound
\* runs its own function as long as the ids stay below the return traps.
THEOREM ImportsAreTheirOwn == BindSpec => []ImportsRunTheirOwn
BY BoundRunTheirOwn, AlwaysBindInv, PTL

\* They do stay below them, and so every import always runs its own function,
\* for an image whose pointers and the table together fit below the return
\* traps: no more ids are handed out than pointers were looked at.
COROLLARY SmallImagesRunTheirOwn ==
  ASSUME TableN + Pointers <= PTHREAD_RET, TableN + Pointers <= BSEARCH_RET
  PROVE  BindSpec => [](BelowReturnTraps /\ ImportsRunTheirOwn)
<1>1. BindInv => BelowReturnTraps
  BY Constants DEF BindInv, IdsCounted, BindTypeOK, BelowReturnTraps, Ids
<1> QED
  BY <1>1, BoundRunTheirOwn, AlwaysBindInv, PTL
=============================================================================
