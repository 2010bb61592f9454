------------------------------ MODULE Symbols -------------------------------
(***************************************************************************)
(* The symbol index of debug.c: the entries of a symbol table that lie in  *)
(* a section, sorted by address, and the binary search that names an       *)
(* address after the last entry at or below it.                            *)
(***************************************************************************)
EXTENDS Integers, Sequences

CONSTANTS
  SymbolTables, \* the symbol tables: sequences of Symbols
  Addresses     \* what is looked up

\* sect: N_SECT.  named: its name lies in the strings and ends there.
Symbol == [sect : BOOLEAN, value : Nat, named : BOOLEAN]

ASSUME SymbolsAssumption ==
  /\ \A t \in SymbolTables : t \in Seq(Symbol)
  /\ Addresses \subseteq Nat

\* An answer that is no symbol: the address itself is printed.
Hex == 0

VARIABLES
  syms,    \* the symbol table of the file
  entries, \* the index: positions of syms
  state,   \* "none", "reading", "ready", "asked"
  i,       \* the next symbol to read
  lo, hi,  \* the window of the search, entries before lo are at or below addr
  addr,    \* what is looked up
  answer   \* the position in syms the last lookup found, or Hex

search == <<lo, hi, addr, answer>>
symbolVars == <<syms, entries, state, i, search>>

SymbolsInit ==
  /\ syms \in SymbolTables
  /\ entries = <<>> /\ state = "none" /\ i = 1
  /\ lo = 0 /\ hi = 0 /\ addr = 0 /\ answer = Hex

AddrOf(k) == syms[entries[k]].value

-----------------------------------------------------------------------------
(***************************************************************************)
(* sosetta_debug_symtab_load, from the allocation on.                      *)
(***************************************************************************)
StartLoad ==
  /\ state = "none" /\ syms # <<>>
  /\ state' = "reading"
  /\ UNCHANGED <<syms, entries, i, search>>

\* Mutant: symbols outside the sections are kept too.
Indexed_Any(s) == s.value # 0

Indexed(s) == s.sect /\ s.value # 0

ReadSymbol ==
  /\ state = "reading" /\ i <= Len(syms)
  /\ entries' = IF Indexed(syms[i]) THEN Append(entries, i) ELSE entries
  /\ i' = i + 1
  /\ UNCHANGED <<syms, state, search>>

\* qsort: symbols of one address come in any order.
Arranges(p) ==
  /\ \A j, k \in 1 .. Len(entries) : j # k => p[j] # p[k]
  /\ \A j, k \in 1 .. Len(entries) :
       j < k => syms[entries[p[j]]].value <= syms[entries[p[k]]].value

SortEntries ==
  /\ state = "reading" /\ i > Len(syms)
  /\ \E p \in [1 .. Len(entries) -> 1 .. Len(entries)] :
       /\ Arranges(p)
       /\ entries' = [k \in 1 .. Len(entries) |-> entries[p[k]]]
  /\ state' = "ready"
  /\ UNCHANGED <<syms, i, search>>

-----------------------------------------------------------------------------
(***************************************************************************)
(* sosetta_debug_symtab_sym.                                               *)
(***************************************************************************)
Ask ==
  /\ state = "ready"
  /\ addr' \in Addresses
  /\ lo' = 0 /\ hi' = Len(entries)
  /\ state' = "asked"
  /\ UNCHANGED <<syms, entries, i, answer>>

\* The code's array starts at 0.
Mid == lo + (hi - lo) \div 2

\* Mutant: an entry at the address itself is not taken.
Before_Strict == AddrOf(Mid + 1) < addr

Before == AddrOf(Mid + 1) <= addr

\* Mutant: the entry tried stays in the window.
Halve_Stays ==
  /\ state = "asked" /\ lo < hi
  /\ \/ Before /\ lo' = Mid /\ hi' = hi
     \/ ~Before /\ hi' = Mid /\ lo' = lo
  /\ UNCHANGED <<syms, entries, state, i, addr, answer>>

Halve ==
  /\ state = "asked" /\ lo < hi
  /\ \/ Before /\ lo' = Mid + 1 /\ hi' = hi
     \/ ~Before /\ hi' = Mid /\ lo' = lo
  /\ UNCHANGED <<syms, entries, state, i, addr, answer>>

\* The entry before the window, if it has a name.
Found == IF lo > 0 /\ syms[entries[lo]].named THEN entries[lo] ELSE Hex

Tell ==
  /\ state = "asked" /\ lo >= hi
  /\ answer' = Found
  /\ state' = "ready"
  /\ UNCHANGED <<syms, entries, i, lo, hi, addr>>

Lookup == Halve \/ Tell

SymbolsNext == StartLoad \/ ReadSymbol \/ SortEntries \/ Ask \/ Lookup

SymbolsSpec == SymbolsInit /\ [][SymbolsNext]_symbolVars

-----------------------------------------------------------------------------
(***************************************************************************)
(* Properties.                                                             *)
(***************************************************************************)
SymbolsOK ==
  /\ syms \in SymbolTables
  /\ entries \in Seq(1 .. Len(syms)) /\ Len(entries) <= Len(syms)
  /\ state \in {"none", "reading", "ready", "asked"}
  /\ i \in 1 .. Len(syms) + 1
  /\ lo \in 0 .. hi /\ hi \in 0 .. Len(entries)
  /\ addr \in Nat /\ answer \in 0 .. Len(syms)

\* While an address is looked up, the entries before the window are at or below it
\* and those after the window above it: the search never loses the entry it seeks.
SearchKeepsNearest ==
  state = "asked" =>
    /\ \A k \in 1 .. lo : AddrOf(k) <= addr
    /\ \A k \in hi + 1 .. Len(entries) : AddrOf(k) > addr

\* An address is named after a symbol of a section at or below it, and no symbol of
\* a section lies between them: a backtrace never names a function too early.
NamedAfterNearest ==
  state = "ready" /\ answer # Hex =>
    /\ syms[answer].sect /\ syms[answer].value <= addr
    /\ \A s \in 1 .. Len(syms) :
         syms[s].sect /\ syms[s].value # 0 /\ syms[s].value <= addr
           => syms[s].value <= syms[answer].value
=============================================================================
