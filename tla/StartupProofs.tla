--------------------------- MODULE StartupProofs ----------------------------
(***************************************************************************)
(* Theorems about the guest's address space, for every layout that keeps   *)
(* the host's regions apart and a guest that unmaps only what it mapped    *)
(* and keeps MAP_FIXED off the trap region; and about the initial stack,   *)
(* for every command line whose block fits the address space.              *)
(***************************************************************************)
EXTENDS Startup, FiniteSetTheorems, TLAPS

\* What the host and the image own: the guest does not unmap it.
Kept == Owners \ {NONE, "guest"}

SpaceOK ==
  /\ image \in Images
  /\ owner \in [Page -> Owners]
  /\ map_hint \in Page
  /\ phase \in Phases
  /\ loaded \in Nat

\* Until the guest runs nothing is its own, and the hint is where it was.
BeforeRun ==
  phase # "run" => map_hint = HINT /\ \A p \in Page : owner[p] # "guest"

\* Between the hint and the traps there is a page that stays mapped.
Barrier ==
  phase \in {"stack", "measure", "place", "run"} =>
    \E b \in Page : map_hint <= b /\ owner[b] \in Kept /\ \A t \in Traps : b < t

\* The default stack is free until the stack is mapped.
DefaultFree ==
  KeepsAway(image) /\ phase \in {"segments", "bind", "stack"} =>
    \A p \in StackPages(STACK_TOP) : owner[p] = NONE

SpaceInv == SpaceOK /\ BeforeRun /\ Barrier /\ DefaultFree /\ TrapsFault /\ HostMemoryIsOwn

-----------------------------------------------------------------------------
LEMMA Constants ==
  /\ PAGES \in Nat /\ Page = 0 .. PAGES - 1 /\ HINT \in Page
  /\ WINDOW \subseteq Page /\ Traps \subseteq Page /\ Page \subseteq Int
BY StartupAssumption DEF Page

LEMMA Uncut == ASSUME NEW x \in Page PROVE x % PAGES = x
<1>1. PAGES \in Nat /\ PAGES > 0
  BY StartupAssumption
<1> QED
  BY <1>1 DEF Page

\* Pages given to an owner belong to it, and the others to whom they did.
LEMMA OwnedPages ==
  ASSUME NEW own \in [Page -> Owners], NEW pages, NEW who \in Owners
  PROVE  /\ Owned(own, pages, who) \in [Page -> Owners]
         /\ \A p \in Page : Owned(own, pages, who)[p] = IF p \in pages THEN who ELSE own[p]
BY DEF Owned

(***************************************************************************)
(* A mapping of free pages that are no traps, while the hint stands still, *)
(* keeps what was there.                                                   *)
(***************************************************************************)
LEMMA MapKeeps ==
  ASSUME SpaceInv, NEW pages, NEW who \in Owners \ {NONE}, CanMap(pages), MapAs(pages, who)
  PROVE  /\ owner' \in [Page -> Owners]
         /\ pages \subseteq Page
         /\ \A p \in pages : owner'[p] = who
         /\ \A p \in Page : owner[p] # NONE => owner'[p] = owner[p]
         /\ \A p \in Page \ pages : owner'[p] = owner[p]
         /\ \A p \in pages : owner[p] = NONE
<1>1. pages \subseteq Page /\ \A p \in pages : owner[p] = NONE
  BY Constants DEF CanMap
<1>2. owner' = Owned(owner, pages, who)
  BY DEF MapAs
<1> QED
  BY <1>1, <1>2, OwnedPages DEF SpaceInv, SpaceOK

LEMMA InitSpace ==
  ASSUME RegionsApart, Init
  PROVE  SpaceInv
<1>1. SpaceOK
  BY Constants DEF Init, SpaceOK, Owners, Phases
<1>2. BeforeRun
  BY DEF Init, BeforeRun, NONE
<1>3. Barrier
  BY DEF Init, Barrier
<1>4. DefaultFree
  BY Constants DEF Init, DefaultFree, RegionsApart
<1>5. TrapsFault /\ HostMemoryIsOwn
  BY Constants DEF Init, TrapsFault, HostMemoryIsOwn
<1> QED
  BY <1>1, <1>2, <1>3, <1>4, <1>5 DEF SpaceInv

\* Mapping free pages leaves what the guest's safety rests on as it is.
LEMMA MapKeepsBarrier ==
  ASSUME SpaceInv, NEW pages, NEW who \in Owners \ {NONE}, CanMap(pages), MapAs(pages, who),
         NEW b \in Page, owner[b] \in Kept
  PROVE  owner'[b] \in Kept
BY MapKeeps DEF Kept

\* The library's pages are above the hint, below the traps, and can be mapped.
LEMMA RegionPages ==
  ASSUME RegionsApart, NEW r \in 1 .. 4, NEW p \in Library[r]
  PROVE  p \in Page /\ p \in WINDOW /\ HINT < p /\ p \notin Traps /\ \A t \in Traps : p < t
<1>1. p \in WINDOW /\ HINT < p /\ \A t \in Traps : p < t
  BY StartupAssumption DEF RegionsApart
<1>2. p \in Page /\ p \in Int
  BY <1>1, Constants
<1>3. p \notin Traps
  <2>1. \A t \in Traps : p < t
    BY <1>1
  <2> QED
    BY <1>2, <2>1
<1> QED
  BY <1>1, <1>2, <1>3

LEMMA LoadSegmentSpace ==
  ASSUME RegionsApart, SpaceInv, LoadSegment
  PROVE  SpaceInv'
<1>1. /\ UNCHANGED <<image, map_hint, bound, stack_top>> /\ phase = "segments"
      /\ loaded < Len(image.segments)
  BY DEF LoadSegment
<1>2. CASE phase' = "failed" /\ UNCHANGED <<owner, loaded>>
  BY <1>1, <1>2 DEF SpaceInv, SpaceOK, BeforeRun, Barrier, DefaultFree, TrapsFault,
                    HostMemoryIsOwn, Phases
<1>3. CASE /\ CanMap(image.segments[loaded + 1]) /\ phase' \in {"segments", "failed"}
           /\ MapAs(image.segments[loaded + 1], "segment") /\ loaded' = loaded + 1
  <2> DEFINE pages == image.segments[loaded + 1]
  <2>1. /\ owner' \in [Page -> Owners] /\ pages \subseteq Page
        /\ \A p \in pages : owner'[p] = "segment"
        /\ \A p \in Page : owner[p] # NONE => owner'[p] = owner[p]
        /\ \A p \in Page \ pages : owner'[p] = owner[p]
    BY <1>3, MapKeeps DEF Owners, NONE
  <2>2. KeepsAway(image) => pages \cap (Traps \cup StackPages(STACK_TOP)) = {}
    <3>1. image.segments \in Seq(SUBSET Page) /\ loaded \in Nat
      BY StartupAssumption DEF SpaceInv, SpaceOK
    <3>2. loaded + 1 \in 1 .. Len(image.segments)
      BY <1>1, <3>1
    <3> QED
      BY <3>2 DEF KeepsAway
  <2>3. SpaceOK' /\ BeforeRun'
    BY <1>1, <1>3, <2>1 DEF SpaceInv, SpaceOK, BeforeRun, Phases
  <2>4. Barrier' /\ HostMemoryIsOwn'
    <3>1. Barrier'
      BY <1>3 DEF Barrier
    <3>2. HostMemoryIsOwn'
      BY <1>1, <1>3, <2>1, RegionPages DEF SpaceInv, HostMemoryIsOwn, NONE
    <3> QED
      BY <3>1, <3>2
  <2>5. DefaultFree'
    <3>1. StackPages(STACK_TOP) \subseteq Page
      BY Constants DEF RegionsApart
    <3>2. SUFFICES ASSUME KeepsAway(image), NEW p \in StackPages(STACK_TOP)
                   PROVE  owner'[p] = NONE
      BY <1>1 DEF DefaultFree
    <3>3. owner[p] = NONE
      BY <1>1, <3>2 DEF SpaceInv, DefaultFree
    <3> QED
      BY <2>1, <2>2, <3>1, <3>2, <3>3
  <2>6. TrapsFault'
    BY <1>1, <2>1, <2>2, Constants DEF SpaceInv, TrapsFault
  <2> QED
    BY <2>3, <2>4, <2>5, <2>6 DEF SpaceInv
<1> QED
  BY <1>2, <1>3 DEF LoadSegment

LEMMA LoadStubSpace ==
  ASSUME RegionsApart, SpaceInv, LoadStub
  PROVE  SpaceInv'
<1>1. /\ UNCHANGED <<image, map_hint, bound, stack_top, loaded>>
      /\ phase = "segments" /\ phase' = "bind"
  BY DEF LoadStub
<1>2. CASE UNCHANGED owner
  BY <1>1, <1>2 DEF SpaceInv, SpaceOK, BeforeRun, Barrier, DefaultFree, TrapsFault,
                    HostMemoryIsOwn, Phases
<1>3. CASE CanMap(Stub) /\ MapAs(Stub, "stub")
  <2>1. /\ owner' \in [Page -> Owners] /\ Stub \subseteq Page
        /\ \A p \in Stub : owner'[p] = "stub"
        /\ \A p \in Page : owner[p] # NONE => owner'[p] = owner[p]
        /\ \A p \in Page \ Stub : owner'[p] = owner[p]
    BY <1>3, MapKeeps DEF Owners, NONE
  <2>2. SpaceOK' /\ BeforeRun' /\ Barrier'
    BY <1>1, <2>1 DEF SpaceInv, SpaceOK, BeforeRun, Barrier, Phases
  <2>3. HostMemoryIsOwn'
    BY <1>1, <2>1, RegionPages DEF SpaceInv, HostMemoryIsOwn, NONE
  <2>4. DefaultFree'
    <3>1. StackPages(STACK_TOP) \subseteq Page /\ StackPages(STACK_TOP) \cap Stub = {}
      BY Constants DEF RegionsApart
    <3>2. SUFFICES ASSUME KeepsAway(image), NEW p \in StackPages(STACK_TOP)
                   PROVE  owner'[p] = NONE
      BY <1>1 DEF DefaultFree
    <3>3. owner[p] = NONE
      BY <1>1, <3>2 DEF SpaceInv, DefaultFree
    <3> QED
      BY <2>1, <3>1, <3>2, <3>3
  <2>5. TrapsFault'
    BY <1>1, <2>1, Constants DEF SpaceInv, TrapsFault, RegionsApart
  <2> QED
    BY <2>2, <2>3, <2>4, <2>5 DEF SpaceInv
<1> QED
  BY <1>2, <1>3 DEF LoadStub

(***************************************************************************)
(* Bind: either the heap's pages, or the page that was in the library's    *)
(* way, stand between the hint and the traps from now on.                  *)
(***************************************************************************)
LEMMA BindSpace ==
  ASSUME RegionsApart, SpaceInv, Bind
  PROVE  SpaceInv'
<1>1. /\ UNCHANGED <<image, map_hint, stack_top, loaded>>
      /\ phase = "bind" /\ phase' \in {"failed", "stack"}
  BY DEF Bind, Entered
<1> DEFINE U(fit) == UNION {Library[r] : r \in 1 .. fit}
           M(fit) == Owned(owner, U(fit), "library")
<1>2. PICK fit \in 0 .. 4 :
         /\ \A r \in 1 .. fit : CanMap(Library[r])
         /\ fit < 4 => ~CanMap(Library[fit + 1])
         /\ bound' = IF fit = 4 THEN 1 ELSE 0
         /\ owner' = IF fit = 4 /\ image.indirect = 1
                        /\ \A p \in Shim : p \in WINDOW /\ M(fit)[p] = NONE
                     THEN Owned(M(fit), Shim, "shim") ELSE M(fit)
  BY DEF Bind, ShimFits
<1>3. /\ M(fit) \in [Page -> Owners]
      /\ \A p \in Page : M(fit)[p] = IF p \in U(fit) THEN "library" ELSE owner[p]
  BY OwnedPages DEF SpaceInv, SpaceOK, Owners
<1>4. /\ owner' \in [Page -> Owners]
      /\ \A p \in Page : \/ owner'[p] = M(fit)[p]
                         \/ p \in Shim /\ M(fit)[p] = NONE /\ owner'[p] = "shim"
  <2>1. CASE owner' = M(fit)
    BY <2>1, <1>3
  <2>2. CASE /\ owner' = Owned(M(fit), Shim, "shim")
             /\ \A p \in Shim : p \in WINDOW /\ M(fit)[p] = NONE
    <3> HIDE DEF M
    <3>1. /\ Owned(M(fit), Shim, "shim") \in [Page -> Owners]
          /\ \A p \in Page : Owned(M(fit), Shim, "shim")[p] = IF p \in Shim THEN "shim" ELSE M(fit)[p]
      BY <1>3, OwnedPages DEF Owners
    <3> QED
      BY <2>2, <3>1
  <2> HIDE DEF M
  <2> QED
    BY <1>2, <2>1, <2>2
<1>5. \A p \in U(fit) : /\ p \in Page /\ p \notin Traps /\ owner'[p] = "library"
                        /\ p \notin StackPages(STACK_TOP)
  <2>1. SUFFICES ASSUME NEW r \in 1 .. fit, NEW p \in Library[r]
                 PROVE  /\ p \in Page /\ p \notin Traps /\ owner'[p] = "library"
                        /\ p \notin StackPages(STACK_TOP)
    OBVIOUS
  <2>2. r \in 1 .. 4 /\ p \in Page /\ p \notin Traps
    BY RegionPages
  <2>3. p \notin StackPages(STACK_TOP)
    BY <2>2 DEF RegionsApart
  <2> QED
    BY <2>1, <2>2, <2>3, <1>3, <1>4 DEF NONE
<1> HIDE DEF M
<1>6. SpaceOK' /\ BeforeRun'
  <2>1. SpaceOK'
    BY <1>1, <1>4 DEF SpaceInv, SpaceOK, Phases
  <2>2. ASSUME NEW p \in Page  PROVE owner'[p] # "guest"
    BY <1>1, <1>3, <1>4 DEF SpaceInv, BeforeRun
  <2> QED
    BY <1>1, <2>1, <2>2 DEF SpaceInv, BeforeRun
<1>7. Barrier'
  <2>1. CASE fit = 4
    <3>1. PICK p \in Library[4] : TRUE
      BY DEF RegionsApart
    <3>2. owner'[p] = "library"
      BY <2>1, <3>1, <1>5
    <3>3. p \in Page /\ HINT < p /\ \A t \in Traps : p < t
      BY <3>1, RegionPages
    <3>4. map_hint' <= p
      BY <3>3, <1>1, Constants DEF SpaceInv, BeforeRun
    <3> QED
      BY <3>2, <3>3, <3>4 DEF Barrier, Kept, Owners, NONE
  <2>2. CASE fit < 4
    <3>1. PICK p \in Library[fit + 1] : owner[p] # NONE
      <4>1. ~CanMap(Library[fit + 1]) /\ fit + 1 \in 1 .. 4
        BY <1>2, <2>2
      <4> QED
        BY <4>1 DEF CanMap, RegionsApart
    <3>2. p \in Page /\ HINT < p /\ \A t \in Traps : p < t
      <4>1. fit + 1 \in 1 .. 4
        BY <2>2
      <4> QED
        BY <4>1, RegionPages
    <3>3. owner[p] \in Kept
      BY <1>1, <3>1, <3>2 DEF SpaceInv, SpaceOK, BeforeRun, Kept
    <3>4. owner'[p] \in Kept
      BY <3>2, <3>3, <1>3, <1>4 DEF Kept, Owners, NONE
    <3>5. map_hint' <= p
      BY <3>2, <1>1, Constants DEF SpaceInv, BeforeRun
    <3> QED
      BY <3>2, <3>4, <3>5 DEF Barrier
  <2> QED
    BY <2>1, <2>2
<1>8. \A p \in Page : p \notin Shim /\ p \notin U(fit) => owner'[p] = owner[p]
  BY <1>3, <1>4
<1>9. DefaultFree'
  <2>1. SUFFICES ASSUME KeepsAway(image), NEW p \in StackPages(STACK_TOP)
                 PROVE  owner'[p] = NONE
    BY <1>1 DEF DefaultFree
  <2>2. owner[p] = NONE
    BY <1>1, <2>1 DEF SpaceInv, DefaultFree
  <2>3. p \in Page /\ p \notin Shim
    BY Constants DEF RegionsApart
  <2> QED
    BY <1>5, <1>8, <2>2, <2>3
<1>10. TrapsFault'
  <2>1. SUFFICES ASSUME KeepsAway(image), NEW p \in Traps
                 PROVE  owner'[p] = NONE
    BY <1>1 DEF TrapsFault
  <2>2. owner[p] = NONE /\ p \in Page
    BY <2>1, Constants DEF SpaceInv, TrapsFault
  <2>3. p \notin Shim
    BY DEF RegionsApart
  <2> QED
    BY <1>5, <1>8, <2>2, <2>3
<1>11. HostMemoryIsOwn'
  BY <1>1, <1>2, <1>5 DEF HostMemoryIsOwn
<1> QED
  BY <1>6, <1>7, <1>9, <1>10, <1>11 DEF SpaceInv

-----------------------------------------------------------------------------
\* A stack mapped on pages that are no traps.
LEMMA StackMapped ==
  ASSUME RegionsApart, SpaceInv, phase = "stack", phase' = "measure",
         UNCHANGED <<image, map_hint, bound, loaded>>,
         CanMap(StackPages(stack_top')), MapAs(StackPages(stack_top'), "stack"),
         KeepsAway(image) => StackPages(stack_top') \cap Traps = {}
  PROVE  SpaceInv'
<1> DEFINE pages == StackPages(stack_top')
<1>1. /\ owner' \in [Page -> Owners] /\ pages \subseteq Page
      /\ \A p \in pages : owner'[p] = "stack"
      /\ \A p \in Page : owner[p] # NONE => owner'[p] = owner[p]
      /\ \A p \in Page \ pages : owner'[p] = owner[p]
  BY MapKeeps DEF Owners, NONE
<1>2. SpaceOK' /\ BeforeRun' /\ DefaultFree'
  BY <1>1 DEF SpaceInv, SpaceOK, BeforeRun, DefaultFree, Phases
<1>3. Barrier'
  <2>1. PICK b \in Page : map_hint <= b /\ owner[b] \in Kept /\ \A t \in Traps : b < t
    BY DEF SpaceInv, Barrier
  <2> QED
    BY <1>1, <2>1 DEF Barrier, Kept
<1>4. TrapsFault'
  BY <1>1, Constants DEF SpaceInv, TrapsFault
<1>5. HostMemoryIsOwn'
  <2>1. \A p \in StackPages(stack_top') : p \in Page /\ owner'[p] = "stack"
    BY <1>1
  <2>2. bound' = 1 => \A r \in 1 .. 4 : \A p \in Library[r] : owner'[p] = "library"
    BY <1>1, RegionPages DEF SpaceInv, HostMemoryIsOwn, NONE
  <2> QED
    BY <2>1, <2>2 DEF HostMemoryIsOwn
<1> QED
  BY <1>2, <1>3, <1>4, <1>5 DEF SpaceInv

LEMMA MapStackSpace ==
  ASSUME RegionsApart, SpaceInv, MapStack
  PROVE  SpaceInv'
<1>1. UNCHANGED <<image, map_hint, bound, loaded>> /\ phase = "stack"
  BY DEF MapStack
<1>2. KeepsAway(image) => /\ StackPages(Wanted) \cap Traps = {}
                          /\ StackPages(STACK_TOP) \cap Traps = {}
                          /\ CanMap(StackPages(STACK_TOP))
  <2>1. StackPages(STACK_TOP) \cap Traps = {}
    BY DEF RegionsApart
  <2>2. KeepsAway(image) => StackPages(Wanted) \cap Traps = {}
    BY <2>1 DEF KeepsAway, Wanted
  <2>3. KeepsAway(image) => CanMap(StackPages(STACK_TOP))
    BY <1>1 DEF SpaceInv, DefaultFree, CanMap, RegionsApart
  <2> QED
    BY <2>1, <2>2, <2>3
<1>3. CASE /\ CanMap(StackPages(Wanted)) /\ MapAs(StackPages(Wanted), "stack")
           /\ stack_top' = Wanted /\ phase' = "measure"
  <2>1. StackPages(stack_top') = StackPages(Wanted)
    BY <1>3
  <2> QED
    BY <1>1, <1>2, <1>3, <2>1, StackMapped
<1>4. CASE /\ ~CanMap(StackPages(Wanted)) /\ Wanted = STACK_TOP
           /\ stack_top' = STACK_TOP /\ phase' = "measure" /\ UNCHANGED owner
  <2>1. ~KeepsAway(image)
    BY <1>2, <1>4
  <2> QED
    BY <1>1, <1>4, <2>1 DEF SpaceInv, SpaceOK, BeforeRun, Barrier, DefaultFree, TrapsFault,
                            HostMemoryIsOwn, Phases
<1>5. CASE /\ CanMap(StackPages(STACK_TOP)) /\ MapAs(StackPages(STACK_TOP), "stack")
           /\ stack_top' = STACK_TOP /\ phase' = "measure"
  <2>1. StackPages(stack_top') = StackPages(STACK_TOP)
    BY <1>5
  <2> QED
    BY <1>1, <1>2, <1>5, <2>1, StackMapped
<1>6. CASE phase' = "failed" /\ UNCHANGED <<owner, stack_top>>
  BY <1>1, <1>6 DEF SpaceInv, SpaceOK, BeforeRun, Barrier, DefaultFree, TrapsFault,
                    HostMemoryIsOwn, Phases
<1> QED
  BY <1>3, <1>4, <1>5, <1>6 DEF MapStack, StackAt

LEMMA LayStackSpace ==
  ASSUME SpaceInv, LayStack
  PROVE  SpaceInv'
<1>1. UNCHANGED <<image, map_hint, bound, loaded, owner, stack_top>>
  BY DEF LayStack
<1>2. /\ phase \in {"measure", "place"}
      /\ phase' \in {"measure", "place", "run", "failed"}
  BY DEF LayStack, Measure, Reserve, Place, Write, layout
<1> QED
  BY <1>1, <1>2 DEF SpaceInv, SpaceOK, BeforeRun, Barrier, DefaultFree, TrapsFault,
                    HostMemoryIsOwn, Phases

-----------------------------------------------------------------------------
LEMMA MmapAnywhereSpace ==
  ASSUME RegionsApart, SpaceInv, MmapAnywhere
  PROVE  SpaceInv'
<1>1. UNCHANGED <<image, bound, loaded, stack_top, phase>> /\ phase = "run"
  BY DEF MmapAnywhere
<1>2. PICK n \in 0 .. MaxPages : /\ CanMap(map_hint .. map_hint + n - 1)
                                 /\ MapAs(map_hint .. map_hint + n - 1, "guest")
                                 /\ map_hint' = (map_hint + n) % PAGES
  BY DEF MmapAnywhere
<1> DEFINE pages == map_hint .. map_hint + n - 1
<1>3. PICK b \in Page : map_hint <= b /\ owner[b] \in Kept /\ \A t \in Traps : b < t
  BY <1>1 DEF SpaceInv, Barrier
<1>4. /\ owner' \in [Page -> Owners] /\ pages \subseteq Page
      /\ \A p \in pages : owner'[p] = "guest"
      /\ \A p \in pages : owner[p] = NONE
      /\ \A p \in Page : owner[p] # NONE => owner'[p] = owner[p]
      /\ \A p \in Page \ pages : owner'[p] = owner[p]
  BY <1>2, MapKeeps DEF Owners, NONE
<1>5. map_hint \in Nat /\ n \in Nat /\ b \in Nat /\ PAGES \in Nat /\ b < PAGES
  BY <1>3, StartupAssumption DEF SpaceInv, SpaceOK, Page
<1>6. map_hint + n <= b
  BY <1>3, <1>4, <1>5 DEF Kept
<1>7. map_hint' = map_hint + n /\ map_hint' \in Page
  <2>1. map_hint + n \in Page
    BY <1>5, <1>6 DEF Page
  <2> QED
    BY <1>2, <2>1, Uncut
<1>8. SpaceOK' /\ BeforeRun' /\ DefaultFree'
  BY <1>1, <1>4, <1>7 DEF SpaceInv, SpaceOK, BeforeRun, DefaultFree
<1>9. Barrier'
  <2>1. owner'[b] \in Kept
    BY <1>3, <1>4 DEF Kept
  <2> QED
    BY <1>3, <1>6, <1>7, <2>1 DEF Barrier
<1>10. TrapsFault'
  <2>1. pages \cap Traps = {}
    <3>1. ASSUME NEW t \in Traps  PROVE t \notin pages
      <4>1. b < t /\ t \in Int
        BY <1>3, Constants
      <4> QED
        BY <4>1, <1>5, <1>6
    <3> QED
      BY <3>1
  <2> QED
    BY <1>1, <1>4, <2>1, Constants DEF SpaceInv, TrapsFault
<1>11. HostMemoryIsOwn'
  BY <1>1, <1>4, RegionPages DEF SpaceInv, HostMemoryIsOwn, NONE
<1> QED
  BY <1>8, <1>9, <1>10, <1>11 DEF SpaceInv

LEMMA MmapFixedSpace ==
  ASSUME RegionsApart, Habits = {}, SpaceInv, MmapFixed
  PROVE  SpaceInv'
<1>1. UNCHANGED <<image, bound, loaded, stack_top, phase, map_hint>> /\ phase = "run"
  BY DEF MmapFixed
<1>2. PICK at \in Page, n \in 0 .. MaxPages :
         /\ (at .. at + n - 1) \cap Traps = {}
         /\ CanMap(at .. at + n - 1) /\ MapAs(at .. at + n - 1, "guest")
  BY DEF MmapFixed
<1> DEFINE pages == at .. at + n - 1
<1>3. /\ owner' \in [Page -> Owners] /\ pages \subseteq Page
      /\ \A p \in Page : owner[p] # NONE => owner'[p] = owner[p]
      /\ \A p \in Page \ pages : owner'[p] = owner[p]
  BY <1>2, MapKeeps DEF Owners, NONE
<1> HIDE DEF pages
<1>4. SpaceOK' /\ BeforeRun' /\ DefaultFree'
  BY <1>1, <1>3 DEF SpaceInv, SpaceOK, BeforeRun, DefaultFree
<1>5. Barrier'
  <2>1. PICK b \in Page : map_hint <= b /\ owner[b] \in Kept /\ \A t \in Traps : b < t
    BY <1>1 DEF SpaceInv, Barrier
  <2> QED
    BY <1>1, <1>3, <2>1 DEF Barrier, Kept
<1>6. TrapsFault'
  BY <1>1, <1>2, <1>3, Constants DEF SpaceInv, TrapsFault, pages
<1>7. HostMemoryIsOwn'
  BY <1>1, <1>3, RegionPages DEF SpaceInv, HostMemoryIsOwn, NONE
<1> QED
  BY <1>4, <1>5, <1>6, <1>7 DEF SpaceInv

LEMMA MunmapSpace ==
  ASSUME RegionsApart, Habits = {}, SpaceInv, Munmap
  PROVE  SpaceInv'
<1>1. UNCHANGED <<image, bound, loaded, stack_top, phase, map_hint>> /\ phase = "run"
  BY DEF Munmap
<1>2. PICK at \in Page, n \in 1 .. MaxPages :
         /\ \A p \in at .. at + n - 1 : owner[p] = "guest"
         /\ MapAs(at .. at + n - 1, NONE)
  BY DEF Munmap
<1> DEFINE pages == at .. at + n - 1
<1>3. /\ owner' \in [Page -> Owners]
      /\ \A p \in Page : owner[p] # "guest" => owner'[p] = owner[p]
  <2>1. owner' = Owned(owner, pages, NONE) /\ NONE \in Owners
    BY <1>2 DEF MapAs, Owners
  <2>2. owner \in [Page -> Owners]
    BY DEF SpaceInv, SpaceOK
  <2> HIDE DEF pages
  <2>3. /\ Owned(owner, pages, NONE) \in [Page -> Owners]
        /\ \A p \in Page : Owned(owner, pages, NONE)[p] = IF p \in pages THEN NONE ELSE owner[p]
    BY <2>1, <2>2, OwnedPages
  <2> QED
    BY <1>2, <2>1, <2>3 DEF pages
<1>4. SpaceOK' /\ BeforeRun' /\ DefaultFree'
  BY <1>1, <1>3 DEF SpaceInv, SpaceOK, BeforeRun, DefaultFree
<1>5. Barrier'
  <2>1. PICK b \in Page : map_hint <= b /\ owner[b] \in Kept /\ \A t \in Traps : b < t
    BY <1>1 DEF SpaceInv, Barrier
  <2> QED
    BY <1>1, <1>3, <2>1 DEF Barrier, Kept
<1>6. TrapsFault'
  BY <1>1, <1>3, Constants DEF SpaceInv, TrapsFault, NONE
<1>7. HostMemoryIsOwn'
  BY <1>1, <1>3, RegionPages DEF SpaceInv, HostMemoryIsOwn
<1> QED
  BY <1>4, <1>5, <1>6, <1>7 DEF SpaceInv

-----------------------------------------------------------------------------
LEMMA NextSpace ==
  ASSUME RegionsApart, Habits = {}, SpaceInv, [Next]_vars
  PROVE  SpaceInv'
<1>1. CASE Load
  BY <1>1, LoadSegmentSpace, LoadStubSpace, BindSpace DEF Load
<1>2. CASE MapStack
  BY <1>2, MapStackSpace
<1>3. CASE LayStack
  BY <1>3, LayStackSpace
<1>4. CASE Run
  BY <1>4, MmapAnywhereSpace, MmapFixedSpace, MunmapSpace DEF Run
<1>5. CASE UNCHANGED vars
  BY <1>5 DEF vars, SpaceInv, SpaceOK, BeforeRun, Barrier, DefaultFree, TrapsFault,
              HostMemoryIsOwn
<1> QED
  BY <1>1, <1>2, <1>3, <1>4, <1>5 DEF Next

LEMMA SpaceInvariant ==
  ASSUME RegionsApart, Habits = {}
  PROVE  Spec => []SpaceInv
<1>1. Init => SpaceInv
  BY InitSpace
<1>2. SpaceInv /\ [Next]_vars => SpaceInv'
  BY NextSpace
<1> QED
  BY <1>1, <1>2, PTL DEF Spec

\* Whatever the image (that keeps off the traps and the default stack) and
\* however much the guest maps and unmaps, the trap region is never mapped.
THEOREM TrapsAlwaysFault ==
  ASSUME RegionsApart, Habits = {}
  PROVE  Spec => []TrapsFault
<1>1. SpaceInv => TrapsFault
  BY DEF SpaceInv
<1> QED
  BY <1>1, SpaceInvariant, PTL

\* The stack is where r1 says and the library's regions stay the library's,
\* through every start-up and every mapping the guest makes.
THEOREM HostMemoryStaysOwn ==
  ASSUME RegionsApart, Habits = {}
  PROVE  Spec => []HostMemoryIsOwn
<1>1. SpaceInv => HostMemoryIsOwn
  BY DEF SpaceInv
<1> QED
  BY <1>1, SpaceInvariant, PTL

-----------------------------------------------------------------------------
(***************************************************************************)
(* The block on the initial stack.                                         *)
(***************************************************************************)
\* What the strings of a command before the k-th add up to, for k from 0.
SumsOf(c) ==
  {t \in [0 .. Len(c) -> Nat] : t[0] = 0 /\ \A k \in 1 .. Len(c) : t[k] = t[k - 1] + c[k]}

\* The blocks of the command lines fit the address space: no size wraps.
CommandsFit ==
  \A c \in Commands : \E t \in SumsOf(c) : 4 * (Len(c) + 4) + t[Len(c)] + 18 < ADDRESSES

\* No string is in another or in the vectors; all end before what is counted from
\* their end.
InOrder ==
  \A k \in 1 .. Len(placed) :
    WordsLen <= placed[k] /\ \A j \in 1 .. k - 1 : placed[j] + strings[j] <= placed[k]
EndBy(n) == \A k \in 1 .. Len(placed) : placed[k] + strings[k] <= WordsLen + n

\* The sums that the two loops have come to, the second one with the padding, and the
\* size of the block.
Summed(t) ==
  /\ phase = "measure" => pool_len = t[i]
  /\ phase \in {"place", "run"} =>
       /\ pool_len = t[Len(strings)]
       /\ BlockLen = RoundUp16(WordsLen + RoundUp4(pool_len))
  /\ phase = "place" => off = t[i] + Cardinality(Padding(i))
  /\ \A k \in 1 .. Len(placed) :
       placed[k] = WordsLen + (t[k - 1] + Cardinality(Padding(k - 1)))

\* The pointers have the addresses of the strings.
Pointed ==
  /\ Len(argv_ptr) = Len(placed)
  /\ \A k \in 1 .. Len(placed) : argv_ptr[k] = (sp + placed[k]) % ADDRESSES

Fits(t) == WordsLen + t[Len(strings)] + 18 < ADDRESSES

LayoutInv ==
  /\ TypeOK /\ strings \in Commands
  /\ InOrder /\ Pointed
  /\ phase \in {"segments", "bind", "stack"} => NoLayout
  /\ phase = "measure" => off = 0 /\ placed = <<>>
  /\ phase = "place" => off % 4 = 0 /\ Len(placed) = i /\ EndBy(off)
  /\ phase = "run" =>
       Len(placed) = Len(strings) /\ words = <<Len(strings)>> \o argv_ptr \o <<0, 0, 0>>
  /\ \A t \in SumsOf(strings) : Fits(t) => Summed(t)

LEMMA Rounding ==
  ASSUME NEW n \in Nat
  PROVE  /\ RoundUp4(n) \in Nat /\ n <= RoundUp4(n) /\ RoundUp4(n) <= n + 3
         /\ RoundUp4(n) % 4 = 0 /\ (n % 4 = 0 => RoundUp4(n) = n)
BY DEF RoundUp4

LEMMA Flooring ==
  ASSUME NEW a \in Nat
  PROVE  /\ Floor16(a) \in Nat /\ Floor16(a) <= a /\ a <= Floor16(a) + 15
         /\ Floor16(a) % 16 = 0
BY DEF Floor16

\* What is left of a number known by its parts.
LEMMA Remainder ==
  ASSUME NEW d \in Nat \ {0}, NEW q \in Int, NEW r \in 0 .. d - 1, NEW x, x = q * d + r
  PROVE  x % d = r
<1>1. x \in Int /\ x \div d \in Int /\ x % d \in 0 .. d - 1
  OBVIOUS
<1>2. x = d * (x \div d) + (x % d)
  BY <1>1
<1>3. ASSUME NEW a \in Int, NEW s \in 0 .. d - 1, q * d + r = d * a + s
      PROVE  a = q
  <2>1. CASE a > q
    <3>1. d * (a - q) >= d
      BY <2>1
    <3> QED BY <3>1, <1>3
  <2>2. CASE a < q
    <3>1. d * (q - a) >= d
      BY <2>2
    <3> QED BY <3>1, <1>3
  <2> QED BY <2>1, <2>2
<1>4. x \div d = q
  BY <1>1, <1>2, <1>3
<1> QED BY <1>1, <1>2, <1>4

\* A block that fits the address space, put below an aligned address and aligned, is as
\* long as was asked for, rounded up.
LEMMA BlockIs ==
  ASSUME NEW top \in Nat, NEW size \in Nat, NEW d \in Nat \ {0}, size + 15 < d,
         top % 16 = 0, d % 16 = 0
  PROVE  (top - Floor16((top - size) % d)) % d = RoundUp16(size)
<1> DEFINE x == (top - size) % d
           q == (top - size) \div d
<1>1. x \in 0 .. d - 1 /\ q \in Int /\ top - size = q * d + x
  OBVIOUS
<1> HIDE DEF x, q
<1>2. PICK c \in Int : q * d = 16 * c
  <2>1. PICK a \in Int : d = 16 * a /\ a = d \div 16
    OBVIOUS
  <2>2. q * (16 * a) = 16 * (q * a) /\ q * a \in Int
    BY <1>1, <2>1
  <2> QED BY <2>1, <2>2
<1>3. PICK e \in 0 .. 15 : e = x % 16
  BY <1>1
<1>4. e = (-size) % 16
  <2>1. PICK b \in Int : top = 16 * b
    <3>1. top = 16 * (top \div 16) /\ top \div 16 \in Int
      OBVIOUS
    <3> QED BY <3>1
  <2>2. x = 16 * (b - c) - size /\ b - c \in Int
    BY <1>1, <1>2, <2>1
  <2>3. \A m \in Int : (16 * m - size) % 16 = (-size) % 16
    OBVIOUS
  <2> QED BY <1>3, <2>2, <2>3
<1> DEFINE r == size + e
           y == top - Floor16(x)
<1>5. y = q * d + r
  <2>1. q * d \in Int
    BY <1>1
  <2> QED BY <1>1, <1>3, <2>1 DEF Floor16
<1>6. r \in 0 .. d - 1 /\ r = RoundUp16(size)
  BY <1>3, <1>4 DEF RoundUp16
<1> HIDE DEF r, y
<1>7. y % d = r
  <2>1. \A z : z = q * d + r => z % d = r
    BY <1>1, <1>6, Remainder
  <2> QED BY <1>5, <2>1
<1> QED BY <1>6, <1>7 DEF x, y

\* What the second loop rounds up by is the padding of the string.
LEMMA PaddingIs ==
  ASSUME NEW a \in Nat, NEW b \in Nat, a % 4 = 0
  PROVE  RoundUp4(a + b) = a + b + ((-b) % 4) /\ (-b) % 4 \in 0 .. 3
<1>1. PICK c \in Int : a = 4 * c
  <2>1. a = 4 * (a \div 4) /\ a \div 4 \in Int
    OBVIOUS
  <2> QED BY <2>1
<1>2. \A m \in Int : (-(4 * m + b)) % 4 = (-b) % 4
  OBVIOUS
<1> QED BY <1>1, <1>2 DEF RoundUp4

LEMMA NoPadding == IsFiniteSet(Padding(0)) /\ Cardinality(Padding(0)) = 0
<1>1. Padding(0) = {}
  BY DEF Padding
<1> QED BY <1>1, FS_EmptySet

LEMMA PaddingAdvances ==
  ASSUME NEW k \in Nat, NEW m, m = k + 1, strings[m] \in Nat, IsFiniteSet(Padding(k))
  PROVE  /\ IsFiniteSet(Padding(m))
         /\ Cardinality(Padding(m)) = Cardinality(Padding(k)) + ((-strings[m]) % 4)
<1> DEFINE n == (-strings[m]) % 4
           With(b) == Padding(k) \cup {<<m, x>> : x \in 1 .. b}
<1>1. n \in 0 .. 3
  OBVIOUS
<1> HIDE DEF n
<1>2. Padding(m) = With(n)
  <2>1. 1 .. m = (1 .. k) \cup {m}
    OBVIOUS
  <2>2. \A x \in 1 .. 3 : x <= n <=> x \in 1 .. n
    BY <1>1
  <2>3. \A x \in 1 .. n : x \in 1 .. 3
    BY <1>1
  <2>4. Padding(m) = Padding(k) \cup {x \in {m} \X (1 .. 3) : x[2] <= n}
    BY <2>1 DEF Padding, n
  <2>5. {x \in {m} \X (1 .. 3) : x[2] <= n} = {<<m, x>> : x \in 1 .. n}
    BY <2>2, <2>3
  <2> QED BY <2>4, <2>5
<1>3. Cardinality(Padding(k)) \in Nat
  BY FS_CardinalityType
<1>4. With(0) = Padding(k)
  OBVIOUS
<1>5. ASSUME NEW b \in 0 .. 2, IsFiniteSet(With(b)),
             Cardinality(With(b)) = Cardinality(Padding(k)) + b
      PROVE  /\ IsFiniteSet(With(b + 1))
             /\ Cardinality(With(b + 1)) = Cardinality(Padding(k)) + (b + 1)
  <2>1. 1 .. b + 1 = (1 .. b) \cup {b + 1}
    OBVIOUS
  <2>2. With(b + 1) = With(b) \cup {<<m, b + 1>>}
    BY <2>1
  <2>3. <<m, b + 1>> \notin Padding(k)
    BY DEF Padding
  <2>4. <<m, b + 1>> \notin With(b)
    BY <2>3
  <2> HIDE DEF With
  <2>5. IsFiniteSet(With(b + 1)) /\ Cardinality(With(b + 1)) = Cardinality(With(b)) + 1
    BY <1>5, <2>2, <2>4, FS_AddElement
  <2> QED BY <1>3, <1>5, <2>5
<1> HIDE DEF With
<1>6. \A b \in 0 .. 3 : IsFiniteSet(With(b)) /\ Cardinality(With(b)) = Cardinality(Padding(k)) + b
  <2>1. IsFiniteSet(With(0)) /\ Cardinality(With(0)) = Cardinality(Padding(k)) + 0
    BY <1>3, <1>4
  <2>2. IsFiniteSet(With(1)) /\ Cardinality(With(1)) = Cardinality(Padding(k)) + 1
    BY <1>5, <2>1
  <2>3. IsFiniteSet(With(2)) /\ Cardinality(With(2)) = Cardinality(Padding(k)) + 2
    BY <1>5, <2>2
  <2>4. IsFiniteSet(With(3)) /\ Cardinality(With(3)) = Cardinality(Padding(k)) + 3
    BY <1>5, <2>3
  <2> QED BY <2>1, <2>2, <2>3, <2>4
<1> QED BY <1>1, <1>2, <1>6 DEF n

-----------------------------------------------------------------------------
LEMMA LayoutTypes ==
  ASSUME TypeOK
  PROVE  /\ Len(strings) \in Nat /\ WordsLen \in Nat
         /\ \A k \in 1 .. Len(strings) : strings[k] \in Nat
         /\ i \in 0 .. Len(strings) /\ pool_len \in Nat /\ off \in Nat /\ sp \in Nat
         /\ placed \in Seq(Nat) /\ argv_ptr \in Seq(Nat) /\ words \in Seq(Nat)
         /\ ADDRESSES \in Nat \ {0}
BY StackLayoutAssumption DEF TypeOK, LayoutOK, WordsLen, Loops

LEMMA MappedOwners ==
  ASSUME owner \in [Page -> Owners], NEW pages, NEW who \in Owners, MapAs(pages, who)
  PROVE  owner' \in [Page -> Owners]
BY OwnedPages DEF MapAs

LEMMA InitLayout == Init => LayoutInv
<1> SUFFICES ASSUME Init PROVE LayoutInv
  OBVIOUS
<1>1. strings \in Seq(Nat \ {0}) /\ strings \in Commands /\ Len(strings) \in Nat
  BY StartupAssumption DEF Init
<1>2. Len(image.segments) \in Nat
  BY StartupAssumption DEF Init
<1>3. owner \in [Page -> Owners] /\ map_hint \in Page
  BY StartupAssumption DEF Init, Owners
<1>4. LayoutOK
  BY <1>1 DEF Init, NoLayout, LayoutOK, Loops
<1>5. TypeOK
  BY <1>2, <1>3, <1>4 DEF Init, TypeOK, Phases
<1>6. InOrder /\ Pointed
  BY DEF Init, NoLayout, InOrder, Pointed
<1> QED BY <1>1, <1>5, <1>6 DEF Init, NoLayout, LayoutInv, Summed

LEMMA SumsTypes ==
  ASSUME NEW c, Len(c) \in Nat, NEW t \in SumsOf(c), NEW m \in 1 .. Len(c)
  PROVE  t[m - 1] \in Nat /\ t[m] \in Nat /\ t[m] = t[m - 1] + c[m]
<1>1. m \in 0 .. Len(c) /\ m - 1 \in 0 .. Len(c)
  OBVIOUS
<1>2. t \in [0 .. Len(c) -> Nat]
  BY DEF SumsOf
<1>3. t[m] \in Nat /\ t[m - 1] \in Nat
  BY <1>1, <1>2
<1> QED BY <1>3 DEF SumsOf

\* A bound on what the elements of two sequences add up to, when one more is added.
LEMMA AppendBound ==
  ASSUME NEW s \in Seq(Nat), NEW c, NEW x \in Nat, NEW m \in Nat, m = Len(s) + 1,
         NEW most \in Nat, x + c[m] <= most, \A k \in 1 .. Len(s) : s[k] + c[k] <= most
  PROVE  \A k \in 1 .. m : Append(s, x)[k] + c[k] <= most
<1> SUFFICES ASSUME NEW k \in 1 .. m PROVE Append(s, x)[k] + c[k] <= most
  OBVIOUS
<1>1. CASE k = m
  <2>1. Append(s, x)[k] = x
    BY <1>1
  <2> QED BY <1>1, <2>1
<1>2. CASE k # m
  <2>1. k \in 1 .. Len(s)
    BY <1>2
  <2>2. Append(s, x)[k] = s[k]
    BY <2>1
  <2> QED BY <2>1, <2>2
<1> QED BY <1>1, <1>2

\* No greater bound is needed.
LEMMA Weaken ==
  ASSUME NEW s \in Seq(Nat), NEW c, \A k \in 1 .. Len(s) : c[k] \in Nat,
         NEW w \in Nat, NEW a \in Nat, NEW b \in Nat, a <= b,
         \A k \in 1 .. Len(s) : s[k] + c[k] <= w + a
  PROVE  \A k \in 1 .. Len(s) : s[k] + c[k] <= w + b
<1> SUFFICES ASSUME NEW k \in 1 .. Len(s) PROVE s[k] + c[k] <= w + b
  OBVIOUS
<1>1. s[k] \in Nat /\ c[k] \in Nat /\ s[k] + c[k] <= w + a
  OBVIOUS
<1> QED BY <1>1

LEMMA PaddingFinite == ASSUME NEW k \in Nat PROVE IsFiniteSet(Padding(k))
<1>1. 1 \in Int /\ 3 \in Int /\ k \in Int
  OBVIOUS
<1>2. IsFiniteSet((1 .. k) \X (1 .. 3))
  BY <1>1, FS_Interval, FS_Product
<1> QED BY <1>2, FS_Subset DEF Padding

\* Steps that leave the block alone.
LEMMA LayoutUnchanged ==
  ASSUME LayoutInv, UNCHANGED <<strings, layout, image>>, phase' \in Phases,
         stack_top' \in Nat, stack_base' \in Nat,
         owner' \in [Page -> Owners], map_hint' \in Page, bound' \in {0, 1},
         loaded' \in 0 .. Len(image.segments),
         \/ phase' = phase /\ stack_top' = stack_top
         \/ phase \in {"segments", "bind", "stack"}
              /\ phase' \in {"segments", "bind", "stack", "measure", "failed"}
  PROVE  LayoutInv'
<1>1. /\ i' = i /\ pool_len' = pool_len /\ off' = off /\ placed' = placed /\ sp' = sp
      /\ argv_ptr' = argv_ptr /\ words' = words /\ strings' = strings /\ image' = image
  BY DEF layout
<1>2. TypeOK'
  BY <1>1 DEF LayoutInv, TypeOK, LayoutOK, Loops
<1>3. InOrder' /\ Pointed' /\ (EndBy(off) => EndBy(off)')
  BY <1>1 DEF LayoutInv, InOrder, EndBy, WordsLen, Pointed
<1>4. phase' \in {"segments", "bind", "stack"} => NoLayout'
  BY <1>1 DEF LayoutInv, NoLayout
<1>5. /\ phase' = "measure" => off = 0 /\ placed = <<>>
      /\ phase' = "place" => phase = "place"
      /\ phase' = "run" => phase = "run"
  BY DEF LayoutInv, NoLayout
<1>6. ASSUME NEW t \in SumsOf(strings), Fits(t)
      PROVE  Summed(t)'
  <2>1. Summed(t) /\ t[0] = 0
    BY <1>6 DEF LayoutInv, SumsOf
  <2>2. phase' = "measure" => pool_len = t[i]
    BY <2>1 DEF LayoutInv, NoLayout, Summed
  <2>3. phase' \in {"place", "run"} => BlockLen' = BlockLen
    BY <1>1 DEF BlockLen, TopAligned
  <2>4. WordsLen' = WordsLen /\ \A k : Padding(k)' = Padding(k)
    BY <1>1 DEF WordsLen, Padding
  <2> QED BY <1>1, <1>5, <2>1, <2>2, <2>3, <2>4 DEF Summed
<1>7. \A t \in SumsOf(strings)' : Fits(t)' => Summed(t)'
  BY <1>1, <1>6 DEF SumsOf, Fits, WordsLen
<1> QED BY <1>1, <1>2, <1>3, <1>4, <1>5, <1>7 DEF LayoutInv

LEMMA MeasureLayout ==
  ASSUME LayoutInv, Measure, UNCHANGED <<strings, stack_top, stack_base, image, loaded, owner,
                                         map_hint, bound>>
  PROVE  LayoutInv'
<1>1. /\ phase = "measure" /\ phase' = phase /\ i < Len(strings)
      /\ pool_len' = pool_len + strings[i + 1] /\ i' = i + 1
      /\ off' = off /\ placed' = placed /\ sp' = sp /\ strings' = strings
      /\ argv_ptr' = argv_ptr /\ words' = words
  BY DEF Measure
<1>2. /\ Len(strings) \in Nat /\ i \in 0 .. Len(strings) /\ pool_len \in Nat
      /\ i + 1 \in 1 .. Len(strings) /\ strings[i + 1] \in Nat
  BY <1>1, LayoutTypes DEF LayoutInv
<1>3. TypeOK'
  BY <1>1, <1>2 DEF LayoutInv, TypeOK, LayoutOK, Loops
<1>4. InOrder' /\ Pointed'
  BY <1>1 DEF LayoutInv, InOrder, WordsLen, Pointed
<1>5. ASSUME NEW t \in SumsOf(strings), Fits(t)
      PROVE  Summed(t)'
  <2>1. pool_len = t[i] /\ placed = <<>>
    BY <1>1, <1>5 DEF LayoutInv, Summed
  <2>2. t[i + 1] = t[(i + 1) - 1] + strings[i + 1] /\ (i + 1) - 1 = i
    BY <1>2 DEF SumsOf
  <2> QED BY <1>1, <2>1, <2>2 DEF Summed
<1>6. \A t \in SumsOf(strings)' : Fits(t)' => Summed(t)'
  BY <1>1, <1>5 DEF SumsOf, Fits, WordsLen
<1> QED BY <1>1, <1>3, <1>4, <1>6 DEF LayoutInv

LEMMA ReserveLayout ==
  ASSUME LayoutInv, Reserve, UNCHANGED <<strings, stack_top, stack_base, image, loaded, owner,
                                         map_hint, bound>>
  PROVE  LayoutInv'
<1> DEFINE size == WordsLen + RoundUp4(pool_len)
           at == Floor16((TopAligned - size) % ADDRESSES)
<1>1. /\ phase = "measure" /\ i = Len(strings) /\ i' = 0
      /\ pool_len' = pool_len /\ off' = off /\ placed' = placed /\ strings' = strings
      /\ argv_ptr' = argv_ptr /\ words' = words /\ stack_top' = stack_top
      /\ phase' \in {"place", "failed"} /\ sp' \in {at, sp}
      /\ phase' = "place" => sp' = at
  BY DEF Reserve
<1>2. /\ Len(strings) \in Nat /\ pool_len \in Nat /\ WordsLen \in Nat
      /\ ADDRESSES \in Nat \ {0} /\ ADDRESSES % 16 = 0 /\ off = 0 /\ placed = <<>> /\ sp \in Nat
  BY <1>1, LayoutTypes, StackLayoutAssumption DEF LayoutInv
<1>3. /\ RoundUp4(pool_len) \in Nat /\ pool_len <= RoundUp4(pool_len)
      /\ RoundUp4(pool_len) <= pool_len + 3
  BY <1>2, Rounding
<1>4. TopAligned \in Nat /\ TopAligned % 16 = 0
  <2>1. stack_top \in Nat
    BY DEF LayoutInv, TypeOK, LayoutOK
  <2> QED BY <2>1, Flooring DEF TopAligned
<1>5. size \in Nat
  BY <1>2, <1>3
<1>6. at \in Nat
  <2>1. (TopAligned - size) % ADDRESSES \in Nat
    BY <1>2, <1>4, <1>5
  <2> QED BY <2>1, Flooring
<1>7. TypeOK'
  BY <1>1, <1>2, <1>6 DEF LayoutInv, TypeOK, LayoutOK, Loops, Phases
<1>8. InOrder' /\ Pointed' /\ EndBy(off)'
  BY <1>1, <1>2 DEF LayoutInv, InOrder, EndBy, WordsLen, Pointed
<1>9. ASSUME NEW t \in SumsOf(strings), Fits(t)
      PROVE  Summed(t)'
  <2>1. pool_len = t[Len(strings)] /\ t[0] = 0
    BY <1>1, <1>9 DEF LayoutInv, Summed, SumsOf
  <2>2. size + 15 < ADDRESSES
    BY <1>2, <1>3, <1>9, <2>1, SMTT(20) DEF Fits
  <2>3. (TopAligned - at) % ADDRESSES = RoundUp16(size)
    <3> HIDE DEF size
    <3> QED BY <1>2, <1>4, <1>5, <2>2, BlockIs
  <2>4. phase' = "place" => BlockLen' = (TopAligned - at) % ADDRESSES
    BY <1>1 DEF BlockLen, TopAligned
  <2>5. WordsLen' = WordsLen
    BY <1>1 DEF WordsLen
  <2>6. phase' = "place" => BlockLen' = RoundUp16(WordsLen' + RoundUp4(pool_len'))
    BY <1>1, <2>3, <2>4, <2>5
  <2>7. off' = t[0] + Cardinality(Padding(0))'
    BY <1>1, <1>2, <2>1, NoPadding DEF Padding
  <2> QED BY <1>1, <1>2, <2>1, <2>6, <2>7 DEF Summed
<1>10. \A t \in SumsOf(strings)' : Fits(t)' => Summed(t)'
  BY <1>1, <1>9 DEF SumsOf, Fits, WordsLen
<1> QED BY <1>1, <1>2, <1>7, <1>8, <1>10 DEF LayoutInv

LEMMA PlaceLayout ==
  ASSUME LayoutInv, Place, UNCHANGED <<strings, stack_top, stack_base, image, loaded, owner,
                                       map_hint, bound>>
  PROVE  LayoutInv'
<1>1. /\ phase = "place" /\ phase' = phase /\ i < Len(strings)
      /\ placed' = Append(placed, WordsLen + off) /\ off' = RoundUp4(off + strings[i + 1])
      /\ i' = i + 1 /\ argv_ptr' = Append(argv_ptr, (sp + (WordsLen + off)) % ADDRESSES)
      /\ pool_len' = pool_len /\ sp' = sp /\ strings' = strings /\ stack_top' = stack_top
      /\ words' = words
  BY DEF Place
<1>2. /\ Len(strings) \in Nat /\ i \in 0 .. Len(strings) /\ off \in Nat /\ WordsLen \in Nat
      /\ placed \in Seq(Nat) /\ argv_ptr \in Seq(Nat) /\ sp \in Nat /\ ADDRESSES \in Nat \ {0}
      /\ \A k \in 1 .. Len(strings) : strings[k] \in Nat
  BY <1>1, LayoutTypes DEF LayoutInv
<1>3. PICK m \in 1 .. Len(strings) : m = i + 1 /\ m - 1 = i
  BY <1>1, <1>2
<1>4. PICK size \in Nat : size = strings[m]
  BY <1>2
<1>5. PICK n \in Nat : n = off + size
  BY <1>2
<1>6. off' \in Nat /\ n <= off' /\ off' % 4 = 0
  <2>1. off' = RoundUp4(n)
    BY <1>1, <1>3, <1>4, <1>5
  <2> QED BY <2>1, Rounding
<1>7. off % 4 = 0 /\ Len(placed) = i /\ EndBy(off) /\ InOrder /\ Pointed
  BY <1>1 DEF LayoutInv
<1>8. /\ placed' \in Seq(Nat) /\ Len(placed') = m /\ WordsLen' = WordsLen
      /\ \A k \in 1 .. i : placed'[k] = placed[k] /\ placed[k] \in Nat
      /\ placed'[m] = WordsLen + off
  BY <1>1, <1>2, <1>3, <1>7, SMTT(20) DEF WordsLen
<1>9. TypeOK' /\ Pointed'
  <2>1. PICK at \in Nat : at = (sp + (WordsLen + off)) % ADDRESSES
    <3>1. PICK a \in Nat : a = sp + (WordsLen + off)
      BY <1>2
    <3>2. a % ADDRESSES \in Nat
      BY <1>2
    <3> QED BY <3>1, <3>2
  <2>2. argv_ptr' \in Seq(Nat) /\ Len(argv_ptr') = m /\ argv_ptr'[m] = at
        /\ \A k \in 1 .. i : argv_ptr'[k] = argv_ptr[k]
    BY <1>1, <1>2, <1>3, <1>7, <2>1 DEF Pointed
  <2>3. Pointed'
    <3>1. \A k \in 1 .. m : k = m \/ k \in 1 .. i
      BY <1>2, <1>3
    <3>2. \A k \in 1 .. i : argv_ptr[k] = (sp + placed[k]) % ADDRESSES
      BY <1>7 DEF Pointed
    <3> QED BY <1>1, <1>8, <2>1, <2>2, <3>1, <3>2 DEF Pointed
  <2> QED BY <1>1, <1>2, <1>3, <1>6, <1>8, <2>2, <2>3 DEF LayoutInv, TypeOK, LayoutOK, Loops
<1>10. \A k \in 1 .. Len(placed) : strings[k] \in Nat
  BY <1>2, <1>7
<1>11. InOrder'
  <2> SUFFICES ASSUME NEW k \in 1 .. m
               PROVE  /\ WordsLen <= placed'[k]
                      /\ \A j \in 1 .. k - 1 : placed'[j] + strings[j] <= placed'[k]
    BY <1>1, <1>8 DEF InOrder
  <2>1. CASE k \in 1 .. i
    BY <1>2, <1>7, <1>8, <2>1 DEF InOrder
  <2>2. CASE k = m
    BY <1>2, <1>3, <1>7, <1>8, <2>2 DEF EndBy
  <2> QED BY <1>2, <1>3, <2>1, <2>2
<1>12. ASSUME NEW u \in Nat, n <= u, EndBy(u)
       PROVE  \A k \in 1 .. Len(placed') : placed'[k] + strings'[k] <= WordsLen' + u
  <2>1. \A k \in 1 .. Len(placed) : placed[k] + strings[k] <= WordsLen + u
    BY <1>12 DEF EndBy
  <2>2. WordsLen + off \in Nat /\ WordsLen + u \in Nat /\ (WordsLen + off) + size <= WordsLen + u
    <3> USE <1>2
    <3>1. off + size <= u
      BY <1>5, <1>12
    <3> HIDE DEF WordsLen
    <3> QED BY <3>1, <1>12
  <2>3. m \in Nat /\ m = Len(placed) + 1
    BY <1>2, <1>3, <1>7
  <2>4. (WordsLen + off) + strings[m] <= WordsLen + u
    BY <2>2, <1>4
  <2>5. \A k \in 1 .. m : Append(placed, WordsLen + off)[k] + strings[k] <= WordsLen + u
    BY <1>2, <2>1, <2>2, <2>3, <2>4, AppendBound
  <2> QED BY <1>1, <1>8, <2>5
<1>13. EndBy(off)'
  <2>1. off <= off' /\ n <= off' /\ off' \in Nat
    BY <1>2, <1>5, <1>6
  <2>2. \A k \in 1 .. Len(placed) : placed[k] + strings[k] <= WordsLen + off
    BY <1>7 DEF EndBy
  <2> DEFINE u == off'
  <2>3. u \in Nat /\ off <= u /\ n <= u
    BY <2>1
  <2> HIDE DEF u
  <2>4. \A k \in 1 .. Len(placed) : placed[k] + strings[k] <= WordsLen + u
    BY <1>2, <1>10, <2>2, <2>3, Weaken
  <2>5. EndBy(u)
    BY <2>4 DEF EndBy
  <2>6. \A k \in 1 .. Len(placed') : placed'[k] + strings'[k] <= WordsLen' + u
    BY <1>12, <2>3, <2>5
  <2> QED BY <2>6 DEF u, EndBy
<1>14. ASSUME NEW t \in SumsOf(strings), Fits(t)
       PROVE  Summed(t)'
  <2>1. /\ pool_len = t[Len(strings)] /\ BlockLen = RoundUp16(WordsLen + RoundUp4(pool_len))
        /\ off = t[i] + Cardinality(Padding(i))
        /\ \A k \in 1 .. i : placed[k] = WordsLen + (t[k - 1] + Cardinality(Padding(k - 1)))
    BY <1>1, <1>7, <1>14 DEF LayoutInv, Summed
  <2>2. t[m] = t[i] + size /\ t[i] \in Nat /\ t[m] \in Nat
    <3>1. t[m] = t[m - 1] + strings[m] /\ t[m - 1] \in Nat /\ t[m] \in Nat
      BY <1>2, <1>14, SumsTypes
    <3> QED BY <1>3, <1>4, <3>1
  <2>3. BlockLen' = BlockLen /\ \A k : Padding(k)' = Padding(k)
    BY <1>1 DEF BlockLen, TopAligned, Padding
  <2>4. /\ Cardinality(Padding(m)) = Cardinality(Padding(i)) + ((-size) % 4)
        /\ Cardinality(Padding(i)) \in Nat
    <3>1. IsFiniteSet(Padding(i))
      BY <1>2, PaddingFinite
    <3>2. i \in Nat /\ m = i + 1 /\ strings[m] \in Nat
      BY <1>2, <1>3
    <3> QED BY <1>4, <3>1, <3>2, PaddingAdvances, FS_CardinalityType
  <2>5. off' = off + size + ((-size) % 4) /\ (-size) % 4 \in 0 .. 3
    BY <1>1, <1>2, <1>3, <1>4, <1>7, PaddingIs
  <2>6. off' = t[m] + Cardinality(Padding(m))
    BY <2>1, <2>2, <2>4, <2>5
  <2>7. \A k \in 1 .. m : placed'[k] = WordsLen + (t[k - 1] + Cardinality(Padding(k - 1)))
    <3>1. \A k \in 1 .. m : k = m \/ k \in 1 .. i
      BY <1>2, <1>3
    <3> QED BY <1>3, <1>8, <2>1, <3>1
  <2>8. i' = m
    BY <1>1, <1>3
  <2> QED BY <1>1, <1>8, <2>1, <2>3, <2>6, <2>7, <2>8 DEF Summed
<1>15. \A t \in SumsOf(strings)' : Fits(t)' => Summed(t)'
  BY <1>1, <1>14 DEF SumsOf, Fits, WordsLen
<1> QED BY <1>1, <1>3, <1>6, <1>8, <1>9, <1>11, <1>13, <1>15 DEF LayoutInv

LEMMA WriteLayout ==
  ASSUME LayoutInv, Write(BlockMapped),
         UNCHANGED <<strings, stack_top, stack_base, image, loaded, owner, map_hint, bound>>
  PROVE  LayoutInv'
<1>1. /\ phase = "place" /\ i = Len(strings) /\ phase' \in {"run", "failed"}
      /\ i' = i /\ pool_len' = pool_len /\ off' = off /\ placed' = placed /\ sp' = sp
      /\ strings' = strings /\ stack_top' = stack_top /\ argv_ptr' = argv_ptr
      /\ words' = <<Len(strings)>> \o argv_ptr \o <<0, 0, 0>>
  BY DEF Write
<1>2. TypeOK'
  <2>1. argv_ptr \in Seq(Nat) /\ Len(strings) \in Nat
    BY LayoutTypes DEF LayoutInv
  <2>2. words' \in Seq(Nat)
    BY <1>1, <2>1
  <2> QED BY <1>1, <2>2 DEF LayoutInv, TypeOK, LayoutOK, Loops, Phases
<1>3. InOrder' /\ Pointed' /\ Len(placed') = Len(strings)
  BY <1>1 DEF LayoutInv, InOrder, WordsLen, Pointed
<1>4. ASSUME NEW t \in SumsOf(strings), Fits(t)
      PROVE  Summed(t)'
  <2>1. Summed(t)
    BY <1>4 DEF LayoutInv
  <2>2. BlockLen' = BlockLen /\ WordsLen' = WordsLen /\ \A k : Padding(k)' = Padding(k)
    BY <1>1 DEF BlockLen, TopAligned, WordsLen, Padding
  <2> QED BY <1>1, <2>1, <2>2 DEF Summed
<1>5. \A t \in SumsOf(strings)' : Fits(t)' => Summed(t)'
  BY <1>1, <1>4 DEF SumsOf, Fits, WordsLen
<1> QED BY <1>1, <1>2, <1>3, <1>5 DEF LayoutInv

-----------------------------------------------------------------------------
LEMMA StackPlace ==
  ASSUME TypeOK
  PROVE  /\ Wanted \in Nat /\ StackBase(Wanted) \in Nat
         /\ STACK_TOP \in Nat /\ StackBase(STACK_TOP) \in Nat
<1>1. ADDRESSES \in Nat \ {0} /\ PAGE \in Nat \ {0} /\ STACK_TOP \in Nat /\ STACK_SIZE \in Nat
  BY StartupAssumption, StackLayoutAssumption
<1>2. Wanted \in Nat
  BY StartupAssumption, <1>1 DEF TypeOK, Wanted
<1>3. ASSUME NEW top \in Nat
      PROVE  StackBase(top) \in Nat
  <2> DEFINE low == (top - STACK_SIZE) % ADDRESSES
  <2>1. low \in Nat
    BY <1>1
  <2>2. StackBase(top) = low - (low % PAGE)
    BY DEF StackBase
  <2> HIDE DEF low
  <2> QED BY <1>1, <2>1, <2>2
<1> QED BY <1>1, <1>2, <1>3

LEMMA LoadLayout ==
  ASSUME LayoutInv, Load
  PROVE  LayoutInv'
<1> USE DEF LayoutInv, TypeOK, LayoutOK
<1>1. \A who \in {"segment", "stub", "library", "shim"} : who \in Owners
  BY DEF Owners
<1>2. CASE LoadSegment
  <2>1. owner' \in [Page -> Owners]
    BY <1>1, <1>2, MappedOwners DEF LoadSegment
  <2>2. loaded' \in 0 .. Len(image.segments) /\ Len(image.segments) \in Nat
    BY <1>2, StartupAssumption DEF LoadSegment
  <2>3. /\ phase \in {"segments", "bind", "stack"}
        /\ phase' \in {"segments", "bind", "stack", "measure", "failed"}
        /\ UNCHANGED <<strings, stack_top, stack_base, layout, image, map_hint, bound>>
    BY <1>2 DEF LoadSegment
  <2> QED BY <2>1, <2>2, <2>3, LayoutUnchanged DEF Phases
<1>3. CASE LoadStub
  <2>1. owner' \in [Page -> Owners]
    BY <1>1, <1>3, MappedOwners DEF LoadStub
  <2>2. /\ phase \in {"segments", "bind", "stack"}
        /\ phase' \in {"segments", "bind", "stack", "measure", "failed"}
        /\ UNCHANGED <<strings, stack_top, stack_base, layout, image, loaded, map_hint, bound>>
    BY <1>3 DEF LoadStub
  <2> QED BY <2>1, <2>2, LayoutUnchanged DEF Phases
<1>4. CASE Bind
  <2>1. owner' \in [Page -> Owners]
    <3> DEFINE mapped(fit) == Owned(owner, UNION {Library[r] : r \in 1 .. fit}, "library")
    <3>1. PICK fit \in 0 .. 4 : owner' \in {Owned(mapped(fit), Shim, "shim"), mapped(fit)}
      BY <1>4 DEF Bind
    <3>2. owner \in [Page -> Owners] /\ "library" \in Owners /\ "shim" \in Owners
      BY <1>1
    <3>3. mapped(fit) \in [Page -> Owners]
      BY ONLY <3>2, OwnedPages
    <3> HIDE DEF mapped
    <3>4. Owned(mapped(fit), Shim, "shim") \in [Page -> Owners]
      BY ONLY <3>2, <3>3, OwnedPages
    <3> QED BY ONLY <3>1, <3>3, <3>4
  <2>2. /\ phase \in {"segments", "bind", "stack"} /\ bound' \in {0, 1}
        /\ phase' \in {"segments", "bind", "stack", "measure", "failed"}
        /\ UNCHANGED <<strings, stack_top, stack_base, layout, image, loaded, map_hint>>
    BY <1>4 DEF Bind, Entered
  <2> QED BY <2>1, <2>2, LayoutUnchanged DEF Phases
<1> QED BY <1>2, <1>3, <1>4 DEF Load

LEMMA MapStackLayout ==
  ASSUME LayoutInv, MapStack
  PROVE  LayoutInv'
<1> USE DEF LayoutInv, TypeOK, LayoutOK
<1>1. owner' \in [Page -> Owners]
  BY MappedOwners DEF MapStack, Owners
<1>2. stack_top' \in Nat /\ stack_base' \in Nat
  BY StackPlace DEF MapStack, StackAt
<1>3. /\ phase \in {"segments", "bind", "stack"}
      /\ phase' \in {"segments", "bind", "stack", "measure", "failed"}
      /\ UNCHANGED <<strings, layout, image, loaded, map_hint, bound>>
  BY DEF MapStack
<1> QED BY <1>1, <1>2, <1>3, LayoutUnchanged DEF Phases

LEMMA RunLayout ==
  ASSUME LayoutInv, Run
  PROVE  LayoutInv'
<1> USE DEF LayoutInv, TypeOK, LayoutOK
<1>1. owner' \in [Page -> Owners]
  BY MappedOwners DEF Run, MmapAnywhere, MmapFixed, Munmap, Owners, NONE
<1>2. map_hint' \in Page
  <2>1. CASE MmapAnywhere
    <3>1. PICK n \in 0 .. MaxPages : map_hint' = (map_hint + n) % PAGES
      BY <2>1 DEF MmapAnywhere
    <3>2. map_hint \in Nat /\ n \in Nat /\ PAGES \in Nat \ {0}
      BY StartupAssumption DEF Page
    <3> QED BY <3>1, <3>2 DEF Page
  <2> QED BY <2>1 DEF Run, MmapFixed, Munmap
<1>3. /\ phase' = phase
      /\ UNCHANGED <<strings, stack_top, stack_base, layout, image, loaded, bound>>
  BY DEF Run, MmapAnywhere, MmapFixed, Munmap
<1>4. /\ phase' \in Phases /\ stack_top' \in Nat /\ stack_base' \in Nat /\ bound' \in {0, 1}
      /\ loaded' \in 0 .. Len(image.segments) /\ UNCHANGED <<strings, layout, image>>
      /\ phase' = phase /\ stack_top' = stack_top
  BY <1>3
<1>5. \/ phase' = phase /\ stack_top' = stack_top
      \/ phase \in {"segments", "bind", "stack"}
           /\ phase' \in {"segments", "bind", "stack", "measure", "failed"}
  BY <1>4
<1> HIDE DEF LayoutInv, TypeOK, LayoutOK
<1> QED BY <1>1, <1>2, <1>4, <1>5, LayoutUnchanged

LEMMA NextLayout ==
  ASSUME LayoutInv, [Next]_vars
  PROVE  LayoutInv'
<1>1. CASE LayStack
  <2>1. UNCHANGED <<strings, stack_top, stack_base, image, loaded, owner, map_hint, bound>>
    BY <1>1 DEF LayStack
  <2> QED BY <1>1, <2>1, MeasureLayout, ReserveLayout, PlaceLayout, WriteLayout DEF LayStack
<1>2. CASE UNCHANGED vars
  <2>1. /\ phase' \in Phases /\ stack_top' \in Nat /\ stack_base' \in Nat /\ bound' \in {0, 1}
        /\ loaded' \in 0 .. Len(image.segments) /\ UNCHANGED <<strings, layout, image>>
        /\ phase' = phase /\ stack_top' = stack_top
        /\ owner' \in [Page -> Owners] /\ map_hint' \in Page
    BY <1>2 DEF vars, LayoutInv, TypeOK, LayoutOK
  <2>2. \/ phase' = phase /\ stack_top' = stack_top
        \/ phase \in {"segments", "bind", "stack"}
             /\ phase' \in {"segments", "bind", "stack", "measure", "failed"}
    BY <2>1
  <2> QED BY <2>1, <2>2, LayoutUnchanged
<1> QED BY <1>1, <1>2, LoadLayout, MapStackLayout, RunLayout DEF Next

LEMMA WordsAre ==
  ASSUME NEW s \in Seq(Nat), NEW n \in Nat, Len(s) = n, NEW w, w = <<n>> \o s \o <<0, 0, 0>>
  PROVE  /\ Len(w) = n + 4 /\ w[1] = n
         /\ \A k \in 1 .. n : w[1 + k] = s[k]
         /\ \A k \in 1 .. 3 : w[1 + n + k] = 0
<1>1. PICK v \in Seq(Nat) : v = <<n>> \o s
  <2>1. <<n>> \in Seq(Nat)
    OBVIOUS
  <2>2. <<n>> \o s \in Seq(Nat)
    BY <2>1
  <2> QED BY <2>2
<1>2. Len(v) = n + 1 /\ v[1] = n /\ \A k \in 1 .. n : v[1 + k] = s[k]
  BY <1>1
<1>3. w = v \o <<0, 0, 0>>
  BY <1>1
<1>4. Len(w) = n + 4 /\ \A k \in 1 .. n + 1 : w[k] = v[k]
  BY <1>2, <1>3
<1>5. w[n + 2] = 0 /\ w[n + 3] = 0 /\ w[n + 4] = 0
  BY <1>2, <1>3
<1>6. \A k \in 1 .. 3 : w[1 + n + k] = 0
  BY <1>5
<1> QED BY <1>2, <1>4, <1>6

\* Once the two loops are through, the strings are apart, and in the block if the last
\* one ends there.
LEMMA LaidOut ==
  ASSUME LayoutInv, CommandsFit
  PROVE  ArgumentsPlaced
<1> SUFFICES ASSUME phase = "run" PROVE VectorsLead /\ (AllWhole <=> RoomForPadding)
  BY DEF LayoutInv, ArgumentsPlaced, ArgumentsOnStack
<1>1. PICK t \in SumsOf(strings) : 4 * (Len(strings) + 4) + t[Len(strings)] + 18 < ADDRESSES
  BY DEF LayoutInv, CommandsFit
<1>2. Summed(t)
  BY <1>1 DEF LayoutInv, Fits, WordsLen
<1>3. PICK n \in Nat : n = Len(strings)
  BY LayoutTypes DEF LayoutInv
<1>4. Len(placed) = n /\ InOrder /\ Pointed /\ words = <<n>> \o argv_ptr \o <<0, 0, 0>>
  BY <1>3 DEF LayoutInv
<1>5. /\ WordsLen = 4 * (n + 4) /\ placed \in Seq(Nat) /\ argv_ptr \in Seq(Nat)
      /\ \A k \in 1 .. n : strings[k] \in Nat /\ placed[k] \in Nat
      /\ pool_len \in Nat
  BY <1>3, <1>4, LayoutTypes DEF LayoutInv, WordsLen
<1>6. VectorsLead
  <2>1. /\ Len(words) = n + 4 /\ words[1] = n
        /\ \A k \in 1 .. n : words[1 + k] = argv_ptr[k]
        /\ \A k \in 1 .. 3 : words[1 + n + k] = 0
    BY <1>4, <1>5, WordsAre DEF Pointed
  <2>2. \A k \in 1 .. n : argv_ptr[k] = (sp + placed[k]) % ADDRESSES
    BY <1>4 DEF Pointed
  <2> QED BY <1>3, <1>5, <2>1, <2>2 DEF VectorsLead
<1>7. pool_len = t[n] /\ BlockLen = RoundUp16(WordsLen + RoundUp4(pool_len))
  BY <1>2, <1>3 DEF Summed
<1> DEFINE room == RoundUp16(WordsLen + RoundUp4(pool_len))
<1>8. room \in Nat /\ WordsLen + pool_len <= room
  <2>1. PICK size \in Nat : size = WordsLen + RoundUp4(pool_len) /\ WordsLen + pool_len <= size
    <3>1. RoundUp4(pool_len) \in Nat /\ pool_len <= RoundUp4(pool_len)
      BY <1>5, Rounding
    <3>2. WordsLen \in Nat
      BY <1>5
    <3>3. WordsLen + RoundUp4(pool_len) \in Nat /\ WordsLen + pool_len <= WordsLen + RoundUp4(pool_len)
      BY <1>5, <3>1, <3>2
    <3> QED BY <3>3
  <2>2. RoundUp16(size) \in Nat /\ size <= RoundUp16(size)
    BY DEF RoundUp16
  <2> QED BY <1>5, <2>1, <2>2
<1> HIDE DEF room
<1>9. AllWhole <=> \A k \in 1 .. n : placed[k] + strings[k] <= room
  <2>1. ASSUME NEW k \in 1 .. n
        PROVE  /\ WordsLen <= placed[k]
               /\ \A j \in 1 .. n : j < k => placed[j] + strings[j] <= placed[k]
    BY <1>4 DEF InOrder
  <2> QED BY <1>3, <1>4, <1>7, <2>1 DEF AllWhole, Whole, room
<1>10. CASE n = 0
  <2>1. Padding(n - 1) = {}
    BY <1>10 DEF Padding
  <2>2. Cardinality(Padding(n - 1)) = 0
    BY <2>1, FS_EmptySet
  <2>3. RoomForPadding
    BY <1>3, <1>5, <1>8, <2>2 DEF RoomForPadding, room
  <2> QED BY <1>6, <1>9, <1>10, <2>3
<1>11. CASE n # 0
  <2>1. n \in 1 .. n
    BY <1>11
  <2>2. placed[n] = WordsLen + (t[n - 1] + Cardinality(Padding(n - 1)))
    BY <1>2, <1>4, <2>1 DEF Summed
  <2>3. t[n] = t[n - 1] + strings[n] /\ t[n - 1] \in Nat
    BY <1>1, <1>3, <2>1, SumsTypes
  <2>4. Cardinality(Padding(n - 1)) \in Nat
    <3>1. n - 1 \in Nat
      BY <1>11
    <3> QED BY <3>1, PaddingFinite, FS_CardinalityType
  <2>5. RoomForPadding <=> placed[n] + strings[n] <= room
    <3>1. RoomForPadding <=> WordsLen + pool_len + Cardinality(Padding(n - 1)) <= room
      BY <1>3 DEF RoomForPadding, room
    <3> QED BY <1>5, <1>7, <2>1, <2>2, <2>3, <2>4, <3>1
  <2>6. ASSUME placed[n] + strings[n] <= room, NEW k \in 1 .. n
        PROVE  placed[k] + strings[k] <= room
    <3>1. k # n => placed[k] + strings[k] <= placed[n]
      BY <1>4, <2>1 DEF InOrder
    <3> QED BY <1>5, <1>8, <2>1, <2>6, <3>1
  <2> QED BY <1>6, <1>9, <2>1, <2>5, <2>6
<1> QED BY <1>10, <1>11

(***************************************************************************)
(* The guest finds its command line (runtime.c 300-376): argc and vectors   *)
(* that lead to the arguments, which are apart from these and from each    *)
(* other.  The pool is sized by the strings' sum and filled at rounded     *)
(* offsets: all arguments are whole exactly if the padding between them is *)
(* no more than what the block was rounded up by, and else the last one    *)
(* runs past the host's memory.  So it is whatever the top of the stack    *)
(* and the number and sizes of the strings, as long as the block fits the  *)
(* address space.  Nothing is assumed of the host's regions or of what the *)
(* guest does.                                                             *)
(***************************************************************************)
THEOREM ArgumentsArePlaced ==
  ASSUME CommandsFit
  PROVE  Spec => []ArgumentsPlaced
<1>1. LayoutInv => ArgumentsPlaced
  BY LaidOut
<1>2. Init => LayoutInv
  BY InitLayout
<1>3. LayoutInv /\ [Next]_vars => LayoutInv'
  BY NextLayout
<1> QED
  BY <1>1, <1>2, <1>3, PTL DEF Spec
=============================================================================
