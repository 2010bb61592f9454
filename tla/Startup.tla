------------------------------ MODULE Startup -------------------------------
(***************************************************************************)
(* The guest's address space from sosetta_runtime_load to the system calls *)
(* mmap and munmap: the image's segments, the stubs at dyld's place, the   *)
(* regions of the library (hle.c), the stack, and what the guest maps.     *)
(* One table says what every page belongs to; sosetta_guest_map (cpu.c)    *)
(* extends every request to whole pages.                                   *)
(*                                                                         *)
(* uc_mem_map and uc_mem_unmap are external: the first takes any range of  *)
(* free pages in a window of addresses it accepts, the second any range of *)
(* mapped pages.                                                           *)
(***************************************************************************)
EXTENDS StackLayout

CONSTANTS
  PAGE, PAGES,      \* bytes of a page, pages of the address space
  WINDOW,           \* the pages Unicorn can map
  Stub, Misc, Rune, SF, Heap, Shim,     \* the host's regions, sets of pages
  Traps,            \* the pages that have to fault: the trap region
  HINT,             \* where the first unfixed mapping goes
  STACK_TOP, STACK_SIZE,
  Images,           \* the images a guest may be loaded from
  Commands,         \* the command lines
  MaxPages,         \* bound on the pages of one mapping
  Habits            \* what the guest does beyond mapping and unmapping

NONE == "none"
Page == 0 .. PAGES - 1
Library == <<Misc, Rune, SF, Heap>>   \* in the order hle_bind maps them

\* The initial stack's lowest address, and its pages, from its top.
StackBase(top)  == LET low == (top - STACK_SIZE) % ADDRESSES IN  low - (low % PAGE)
StackPages(top) ==
  LET base == StackBase(top)
  IN  base \div PAGE .. (base + ((top - base) % ADDRESSES) - 1) \div PAGE

Owners == {NONE, "segment", "stub", "library", "shim", "stack", "guest"}

\* An image is its segments but __PAGEZERO, as the pages they touch, whether it
\* has indirect symbols and hle_bind a trap for each (module Bind), and r1 and
\* the entry point it starts with (0 if none).
ASSUME StartupAssumption ==
  /\ PAGE \in Nat \ {0} /\ PAGES \in Nat \ {0} /\ ADDRESSES = PAGE * PAGES
  /\ WINDOW \subseteq Page /\ HINT \in Page
  /\ Traps # {} /\ Traps \subseteq Page
  /\ \A t \in Traps : t > HINT
  /\ STACK_TOP \in 1 .. ADDRESSES - 1 /\ STACK_SIZE \in Nat \ {0}
  /\ Commands \subseteq Seq(Nat \ {0})
  /\ \A m \in Images : /\ m.segments \in Seq(SUBSET Page)
                       /\ m.indirect \in {0, 1}
                       /\ m.entry_sp \in 0 .. ADDRESSES - 1 /\ m.entry_pc \in Nat
  /\ MaxPages \in Nat
  /\ Habits \subseteq {"unmap_any", "fixed_any"}

\* The regions lie apart, the library's between the first mapping and the traps.
RegionsApart ==
  /\ \A r \in 1 .. 4 : /\ Library[r] # {} /\ Library[r] \subseteq WINDOW
                       /\ \A p \in Library[r], t \in Traps : HINT < p /\ p < t
  /\ Stub \cap Traps = {} /\ Shim \cap Traps = {}
  /\ LET default == StackPages(STACK_TOP)
     IN  /\ default # {} /\ default \subseteq WINDOW
         /\ default \cap (Traps \cup Stub \cup Shim \cup UNION {Library[r] : r \in 1 .. 4}) = {}

\* The image leaves the trap region and the default stack alone.
KeepsAway(m) ==
  /\ \A s \in 1 .. Len(m.segments) :
       m.segments[s] \cap (Traps \cup StackPages(STACK_TOP)) = {}
  /\ m.entry_sp # 0 => StackPages(m.entry_sp) \cap Traps = {}

VARIABLES
  image,     \* the image being run
  loaded,    \* how many of its segments are mapped
  owner,     \* what each page belongs to
  map_hint,  \* sosetta_syscall_ctx: where the next unfixed mapping goes
  bound      \* whether hle_bind mapped the library's regions

vars == <<phase, strings, stack_top, stack_base, layout, image, loaded, owner, map_hint, bound>>

Phases == {"segments", "bind", "stack", "measure", "place", "run", "failed"}

TypeOK ==
  /\ phase \in Phases
  /\ image \in Images
  /\ owner \in [Page -> Owners]
  /\ map_hint \in Page
  /\ bound \in {0, 1}
  /\ loaded \in 0 .. Len(image.segments)
  /\ LayoutOK

Init ==
  /\ image \in Images /\ strings \in Commands
  /\ phase = "segments" /\ NoLayout
  /\ stack_top = 0 /\ stack_base = 0
  /\ loaded = 0
  /\ owner = [p \in Page |-> NONE]
  /\ map_hint = HINT
  /\ bound = 0

-----------------------------------------------------------------------------
(***************************************************************************)
(* sosetta_guest_map and rt_mem_unmap, on whole pages.                     *)
(***************************************************************************)
CanMap(pages) ==
  /\ pages # {} /\ pages \subseteq WINDOW
  /\ \A p \in pages : owner[p] = NONE

Owned(own, pages, who) == [p \in Page |-> IF p \in pages THEN who ELSE own[p]]

MapAs(pages, who) == owner' = Owned(owner, pages, who)

-----------------------------------------------------------------------------
(***************************************************************************)
(* sosetta_runtime_load.                                                   *)
(***************************************************************************)
\* The load fails at a segment that cannot be mapped and, after mapping it, at
\* one whose bytes are not all in the file.
LoadSegment ==
  /\ phase = "segments" /\ loaded < Len(image.segments)
  /\ LET pages == image.segments[loaded + 1]
     IN  \/ /\ CanMap(pages)
            /\ MapAs(pages, "segment")
            /\ loaded' = loaded + 1
            /\ phase' \in {"segments", "failed"}
         \/ /\ ~CanMap(pages)
            /\ phase' = "failed"
            /\ UNCHANGED <<owner, loaded>>
  /\ UNCHANGED <<strings, stack_top, stack_base, layout, image, map_hint, bound>>

\* The stubs are done without if their place is taken.
LoadStub ==
  /\ phase = "segments" /\ loaded = Len(image.segments)
  /\ IF CanMap(Stub) THEN MapAs(Stub, "stub") ELSE UNCHANGED owner
  /\ phase' = "bind"
  /\ UNCHANGED <<strings, stack_top, stack_base, layout, image, loaded, map_hint, bound>>

\* The page of the shim, mapped after the symbol pointers; done without if taken.
ShimFits(own) == \A p \in Shim : p \in WINDOW /\ own[p] = NONE

\* Whether hle_bind succeeded does not matter; the image has to have an entry.
Entered == IF image.entry_pc = 0 THEN "failed" ELSE "stack"

\* hle_bind maps the library's regions up to the first that does not fit; only
\* with all of them does it go on to the pointers and the shim.
Bind ==
  /\ phase = "bind"
  /\ \E fit \in 0 .. 4 :
       LET mapped == Owned(owner, UNION {Library[r] : r \in 1 .. fit}, "library")
       IN  /\ \A r \in 1 .. fit : CanMap(Library[r])
           /\ fit < 4 => ~CanMap(Library[fit + 1])
           /\ bound' = IF fit = 4 THEN 1 ELSE 0
           /\ owner' = IF fit = 4 /\ image.indirect = 1 /\ ShimFits(mapped)
                       THEN Owned(mapped, Shim, "shim") ELSE mapped
  /\ phase' = Entered
  /\ UNCHANGED <<strings, stack_top, stack_base, layout, image, loaded, map_hint>>

-----------------------------------------------------------------------------
(***************************************************************************)
(* sosetta_runtime_setup_stack maps the stack where the thread state says, *)
(* or else at the default place.  A default that is taken goes unnoticed   *)
(* if it was the first choice.  StackLayout has the rest.                  *)
(***************************************************************************)
Wanted == IF image.entry_sp # 0 THEN image.entry_sp ELSE STACK_TOP

StackAt(top) == stack_top' = top /\ stack_base' = StackBase(top)

\* Mutant: the fallback maps the default stack but keeps the first choice's top.
MapStack_KeepsTop ==
  /\ phase = "stack"
  /\ LET wanted == StackPages(Wanted)
         default == StackPages(STACK_TOP)
     IN  \/ /\ CanMap(wanted)
            /\ MapAs(wanted, "stack") /\ StackAt(Wanted)
         \/ /\ ~CanMap(wanted) /\ CanMap(default)
            /\ MapAs(default, "stack") /\ StackAt(Wanted)
  /\ phase' = "measure"
  /\ UNCHANGED <<strings, layout, image, loaded, map_hint, bound>>

MapStack ==
  /\ phase = "stack"
  /\ LET wanted == StackPages(Wanted)
         default == StackPages(STACK_TOP)
     IN  \/ /\ CanMap(wanted)
            /\ MapAs(wanted, "stack") /\ StackAt(Wanted)
            /\ phase' = "measure"
         \/ /\ ~CanMap(wanted) /\ Wanted = STACK_TOP
            /\ StackAt(STACK_TOP)
            /\ phase' = "measure" /\ UNCHANGED owner
         \/ /\ ~CanMap(wanted) /\ Wanted # STACK_TOP /\ CanMap(default)
            /\ MapAs(default, "stack") /\ StackAt(STACK_TOP)
            /\ phase' = "measure"
         \/ /\ ~CanMap(wanted) /\ Wanted # STACK_TOP /\ ~CanMap(default)
            /\ phase' = "failed"
            /\ UNCHANGED <<owner, stack_top, stack_base>>
  /\ UNCHANGED <<strings, layout, image, loaded, map_hint, bound>>

\* The block's pages, when its addresses do not wrap, are mapped.
BlockMapped ==
  /\ sp + BlockLen <= ADDRESSES
  /\ \A p \in Page : (p + 1) * PAGE > sp /\ p * PAGE < sp + BlockLen => owner[p] # NONE

LayStack ==
  /\ Measure \/ Reserve \/ Place \/ Write(BlockMapped)
  /\ UNCHANGED <<strings, stack_top, stack_base, image, loaded, owner, map_hint, bound>>

-----------------------------------------------------------------------------
(***************************************************************************)
(* The system calls of the running guest, and the library functions of the *)
(* same names, which are routed to them (syscall.c).                       *)
(***************************************************************************)
\* Mutant: the hint moves before the mapping is tried.
MmapAnywhere_MovesFirst ==
  /\ phase = "run"
  /\ \E n \in 1 .. MaxPages :
       LET pages == map_hint .. map_hint + n - 1
       IN  /\ map_hint' = (map_hint + n) % PAGES
           /\ IF CanMap(pages) THEN MapAs(pages, "guest") ELSE UNCHANGED owner
  /\ UNCHANGED <<phase, strings, stack_top, stack_base, layout, image, loaded, bound>>

\* A size whose rounding wraps is 0 pages, which is refused like any range that
\* does not fit; the hint moves only when the mapping was made.
MmapAnywhere ==
  /\ phase = "run"
  /\ \E n \in 0 .. MaxPages :
       LET pages == map_hint .. map_hint + n - 1
       IN  /\ CanMap(pages)
           /\ MapAs(pages, "guest")
           /\ map_hint' = (map_hint + n) % PAGES
  /\ UNCHANGED <<phase, strings, stack_top, stack_base, layout, image, loaded, bound>>

\* MAP_FIXED
MmapFixed ==
  /\ phase = "run"
  /\ \E at \in Page, n \in 0 .. MaxPages :
       LET pages == at .. at + n - 1
       IN  /\ "fixed_any" \in Habits \/ pages \cap Traps = {}
           /\ CanMap(pages)
           /\ MapAs(pages, "guest")
  /\ UNCHANGED <<phase, strings, stack_top, stack_base, layout, image, loaded, map_hint, bound>>

\* Page 0 can be named only by an address inside it.
Munmap ==
  /\ phase = "run"
  /\ \E at \in Page, n \in 1 .. MaxPages :
       LET pages == at .. at + n - 1
       IN  /\ pages \subseteq Page
           /\ \A p \in pages : owner[p] \in IF "unmap_any" \in Habits THEN Owners \ {NONE}
                                            ELSE {"guest"}
           /\ MapAs(pages, NONE)
  /\ UNCHANGED <<phase, strings, stack_top, stack_base, layout, image, loaded, map_hint, bound>>

Load == LoadSegment \/ LoadStub \/ Bind
Run  == MmapAnywhere \/ MmapFixed \/ Munmap

Next == Load \/ MapStack \/ LayStack \/ Run

Spec == Init /\ [][Next]_vars

-----------------------------------------------------------------------------
(***************************************************************************)
(* Properties.                                                             *)
(***************************************************************************)

\* No mapping of the library, the stack or the guest covers the trap region: a
\* call of a library function always faults into the host.  Above all the hint,
\* which only ever grows, never gets past the library.
TrapsFault == KeepsAway(image) => \A t \in Traps : owner[t] = NONE

\* The stack that r1 points into was mapped for it, whichever of the two places
\* it got and whatever the image had taken before; and what the library keeps
\* its data in stays the library's.
HostMemoryIsOwn ==
  /\ KeepsAway(image) /\ phase \in {"measure", "place", "run"} =>
       \A p \in StackPages(stack_top) : p \in Page /\ owner[p] = "stack"
  /\ bound = 1 => \A r \in 1 .. 4 : \A p \in Library[r] : owner[p] = "library"

\* Loading and laying out the stack keep to their types, and a guest that starts finds
\* argc and the vectors, and its arguments whole exactly where the padding between them
\* fits in what the block was rounded up by (runtime.c 300-376).
ArgumentsPlaced == TypeOK /\ ArgumentsOnStack
=============================================================================
