------------------------------- MODULE Debug --------------------------------
(***************************************************************************)
(* The debug tools of debug.c while a guest runs: the ring of executed     *)
(* instructions, the breakpoints with their limit, and the report of a     *)
(* fault with its backtrace along the frames of the guest's stack.         *)
(*                                                                         *)
(* The guest calls, with a frame or without one, and returns as PowerPC    *)
(* code does: a function with a frame stores the link register 8 bytes     *)
(* above its caller's r1 and the caller's r1 at its own.  A return address *)
(* is a number that no other activation has: the calls made so far.        *)
(***************************************************************************)
EXTENDS Integers, Sequences, FiniteSets

CONSTANTS
  Code,               \* addresses of instructions
  MinDepth, MaxDepth, \* the depths a ring may have (16 and 2^20)
  Depths,             \* what SOSETTA_RING may ask for
  Listed,             \* the most instructions a report lists (32)
  BreakLists,         \* what SOSETTA_BREAK may list: sequences of addresses
  Limits,             \* what SOSETTA_BP_HITS may say
  DefaultLimit,       \* 3
  StackTop,           \* the first frame's address
  FrameSizes, MaxJump, \* the sizes of frames; the largest the backtrace steps over
  MaxFrames,          \* how many frames the backtrace reads (16)
  MaxSteps, MaxCalls, MaxLoads \* bounds of the model: instructions and calls, calls, runs

ASSUME DebugAssumption ==
  /\ Code \subseteq Nat /\ \A b \in BreakLists : b \in Seq(Code)
  /\ {MinDepth, MaxDepth, Listed, DefaultLimit, MaxFrames} \subseteq Nat \ {0}
  /\ Depths \subseteq Nat /\ Limits \subseteq Nat
  /\ StackTop \in Nat /\ StackTop % 4 = 0
  /\ FrameSizes \subseteq Nat \ {0} /\ \A size \in FrameSizes : size % 4 = 0
  /\ {MaxJump, MaxSteps, MaxCalls, MaxLoads} \subseteq Nat

VARIABLES
  mode,      \* "closed", "running", "report" or "reported"
  setting,   \* the environment: depth, breaks and limit
  ring, pos, \* d_ring, <<>> without one, and d_ring_pos
  bps,       \* d_bps: an address and its hits
  lines,     \* for each address the lines its breakpoints have printed
  listing,   \* the instructions the report has listed
  trace,     \* the return addresses the backtrace has listed
  fp, frame, \* the backtrace's frame pointer and count
  r1, lr, back, saved, \* the guest's registers and stack: what is at a frame, and 8 above
  \* What was really done, to compare with.
  ran,       \* the instructions executed in this run, in their order
  entered,   \* for each address how many times a block began at it
  acts,      \* the activations: for each its return address, and whether it has its frame
  calls,     \* how many calls it has made
  whole,     \* r1 and the frames are as its code left them
  loads

tools == <<ring, pos, bps, lines, listing, trace, fp, frame>>
stack == <<r1, lr, back, saved, acts, calls, whole>>
debugVars == <<mode, setting, tools, stack, ran, entered, loads>>

Slots == 0 .. StackTop

Start == [ret |-> 0, framed |-> TRUE]

DebugInit ==
  /\ mode = "closed"
  /\ setting \in [depth : Depths, breaks : BreakLists, limit : Limits]
  /\ ring = <<>> /\ pos = 0 /\ bps = <<>> /\ lines = [a \in Code |-> 0]
  /\ listing = <<>> /\ trace = <<>> /\ fp = 0 /\ frame = 0
  /\ r1 = StackTop /\ lr = 0
  /\ back = [s \in Slots |-> 0] /\ saved = [s \in Slots |-> 0]
  /\ acts = <<Start>> /\ calls = 0 /\ whole = TRUE
  /\ ran = <<>> /\ entered = [a \in Code |-> 0] /\ loads = 0

-----------------------------------------------------------------------------
(***************************************************************************)
(* sosetta_debug_init and sosetta_debug_shutdown.                          *)
(***************************************************************************)
RingWanted == setting.depth \in MinDepth .. MaxDepth

\* Mutant: the ring of the last run goes on.
LoadRing_KeepsPos ==
  ring' = (IF RingWanted THEN [k \in 1 .. setting.depth |-> 0] ELSE <<>>) /\ pos' = pos

\* The position is set only when there is a ring.
LoadRing ==
  IF RingWanted THEN ring' = [k \in 1 .. setting.depth |-> 0] /\ pos' = 0
                ELSE UNCHANGED <<ring, pos>>

Load ==
  /\ mode = "closed" /\ loads < MaxLoads
  /\ mode' = "running" /\ loads' = loads + 1
  /\ LoadRing
  /\ bps' = [k \in DOMAIN setting.breaks |-> [addr |-> setting.breaks[k], hits |-> 0]]
  /\ UNCHANGED <<setting, lines, listing, trace, fp, frame, stack, ran, entered>>

\* The guest has been closed, and what was printed has been read.
Shutdown ==
  /\ mode = "reported"
  /\ mode' = "closed"
  /\ ring' = <<>> /\ bps' = <<>>
  /\ lines' = [a \in Code |-> 0] /\ listing' = <<>> /\ trace' = <<>>
  /\ r1' = StackTop /\ lr' = 0
  /\ back' = [s \in Slots |-> 0] /\ saved' = [s \in Slots |-> 0]
  /\ acts' = <<Start>> /\ calls' = 0 /\ whole' = TRUE
  /\ ran' = <<>> /\ entered' = [a \in Code |-> 0]
  /\ UNCHANGED <<setting, pos, fp, frame, loads>>

-----------------------------------------------------------------------------
(***************************************************************************)
(* An instruction is executed: d_ring_cb for each, d_bp_cb for each        *)
(* breakpoint at the start of a block.                                     *)
(***************************************************************************)
Runs == mode = "running" /\ whole

RingTakes(a) ==
  IF ring = <<>> THEN UNCHANGED <<ring, pos>>
  ELSE /\ ring' = [ring EXCEPT ![(pos % Len(ring)) + 1] = a]
       /\ pos' = pos + 1

Limit == IF setting.limit = 0 THEN DefaultLimit ELSE setting.limit

\* The breakpoints at a: each has a hook of its own, all charge the first.
At(a) == {k \in DOMAIN bps : bps[k].addr = a}
First(a) == CHOOSE k \in At(a) : \A j \in At(a) : k <= j

Lesser(a, b) == IF a <= b THEN a ELSE b

\* Mutant: the limit is passed by one.
Prints_OneMore(a) == Lesser(Cardinality(At(a)), Limit + 1 - bps[First(a)].hits)

\* How many of the hooks at a print.
Prints(a) == Lesser(Cardinality(At(a)), Limit - bps[First(a)].hits)

Hit(a) ==
  IF At(a) = {} THEN UNCHANGED <<bps, lines>>
  ELSE /\ bps' = [bps EXCEPT ![First(a)].hits = @ + Prints(a)]
       /\ lines' = [lines EXCEPT ![a] = @ + Prints(a)]

Execute(a) ==
  /\ Runs /\ Len(ran) + calls < MaxSteps
  /\ RingTakes(a)
  /\ ran' = Append(ran, a)
  /\ \/ Hit(a) /\ entered' = [entered EXCEPT ![a] = @ + 1]
     \/ UNCHANGED <<bps, lines, entered>>
  /\ UNCHANGED <<mode, setting, listing, trace, fp, frame, stack, loads>>

-----------------------------------------------------------------------------
(***************************************************************************)
(* The guest's calls.                                                      *)
(***************************************************************************)
Top == acts[Len(acts)]
OnTop(a) == [acts EXCEPT ![Len(acts)] = a]

\* bl: the activation has no frame yet, and need not make one.
Call ==
  /\ Runs /\ Top.framed /\ calls < MaxCalls /\ Len(ran) + calls < MaxSteps
  /\ lr' = calls + 1 /\ calls' = calls + 1
  /\ acts' = Append(acts, [ret |-> calls + 1, framed |-> FALSE])
  /\ UNCHANGED <<mode, setting, tools, r1, back, saved, whole, ran, entered, loads>>

\* stw r0, 8(r1); stwu r1, -size(r1).
Prologue ==
  /\ Runs /\ ~Top.framed
  /\ \E size \in FrameSizes :
       /\ r1 - size >= 0
       /\ saved' = [saved EXCEPT ![r1] = lr, ![r1 - size] = 0]
       /\ back' = [back EXCEPT ![r1 - size] = r1]
       /\ r1' = r1 - size
  /\ acts' = OnTop([Top EXCEPT !.framed = TRUE])
  /\ UNCHANGED <<mode, setting, tools, lr, calls, whole, ran, entered, loads>>

Return ==
  /\ Runs /\ Len(acts) > 1
  /\ IF Top.framed THEN r1' = back[r1] /\ lr' = saved[back[r1]]
                   ELSE UNCHANGED <<r1, lr>>
  /\ acts' = SubSeq(acts, 1, Len(acts) - 1)
  /\ UNCHANGED <<mode, setting, tools, back, saved, calls, whole, ran, entered, loads>>

\* r1 is lost: it is not aligned, or points into the stack or outside memory.
LoseStack ==
  /\ Runs
  /\ r1' \in {StackTop, 2, StackTop + 4}
  /\ whole' = FALSE
  /\ UNCHANGED <<mode, setting, tools, lr, back, saved, acts, calls, ran, entered, loads>>

-----------------------------------------------------------------------------
(***************************************************************************)
(* sosetta_debug_report: the instructions, then the frames.                *)
(***************************************************************************)
\* The k-th before the last, k from 0.
RingEntry(k) == ring[((pos - 1 - k) % Len(ring)) + 1]

ReportBegins ==
  /\ mode = "running"
  /\ mode' = "report"
  /\ listing' = IF ring = <<>> \/ pos = 0 THEN <<>>
                ELSE [k \in 1 .. Lesser(pos, Listed) |-> RingEntry(k - 1)]
  /\ trace' = <<>> /\ fp' = r1 /\ frame' = 0
  /\ UNCHANGED <<setting, ring, pos, bps, lines, stack, ran, entered, loads>>

Readable(a) == a % 4 = 0 /\ a \in Slots

\* Mutant: the slot of the frame above is read first.
SavedAt_Above(a) == saved[back[a]]

SavedAt(a) == saved[a]

FrameFound == frame < MaxFrames /\ Readable(fp) /\ SavedAt(fp) # 0

Onward == back[fp] > fp /\ back[fp] - fp <= MaxJump /\ back[fp] % 4 = 0

WalkFrame ==
  /\ mode = "report" /\ FrameFound
  /\ trace' = Append(trace, SavedAt(fp))
  /\ IF Onward THEN fp' = back[fp] /\ frame' = frame + 1 /\ mode' = mode
               ELSE fp' = 0 /\ frame' = 0 /\ mode' = "reported"
  /\ UNCHANGED <<setting, ring, pos, bps, lines, listing, stack, ran, entered, loads>>

WalkStops ==
  /\ mode = "report" /\ ~FrameFound
  /\ fp' = 0 /\ frame' = 0 /\ mode' = "reported"
  /\ UNCHANGED <<setting, ring, pos, bps, lines, listing, trace, stack, ran, entered, loads>>

DebugNext ==
  \/ Load \/ Shutdown
  \/ \E a \in Code : Execute(a)
  \/ Call \/ Prologue \/ Return \/ LoseStack
  \/ ReportBegins \/ WalkFrame \/ WalkStops

DebugSpec == DebugInit /\ [][DebugNext]_debugVars

-----------------------------------------------------------------------------
(***************************************************************************)
(* Properties.                                                             *)
(***************************************************************************)
ToolTypes ==
  /\ ring \in Seq(Code \cup {0}) /\ pos \in Nat
  /\ bps \in Seq([addr : Code, hits : 0 .. Limit]) /\ lines \in [Code -> Nat]
ReportTypes ==
  /\ listing \in Seq(Code \cup {0}) /\ trace \in Seq(1 .. MaxCalls)
  /\ fp \in Nat /\ frame \in 0 .. MaxFrames
StackTypes ==
  /\ r1 \in Nat /\ lr \in 0 .. MaxCalls
  /\ back \in [Slots -> Slots] /\ saved \in [Slots -> 0 .. MaxCalls]
  /\ acts \in Seq([ret : 0 .. MaxCalls, framed : BOOLEAN])
  /\ calls \in 0 .. MaxCalls /\ whole \in BOOLEAN
RunTypes ==
  /\ mode \in {"closed", "running", "report", "reported"}
  /\ setting \in [depth : Depths, breaks : BreakLists, limit : Limits]
  /\ ran \in Seq(Code) /\ entered \in [Code -> Nat] /\ loads \in 0 .. MaxLoads
DebugTypeOK == ToolTypes /\ ReportTypes /\ StackTypes /\ RunTypes

\* A report lists the last instructions of this run and no others, newest first,
\* when the ring is as deep as the list is long; a shallower ring repeats itself after
\* its depth, in the same order (debug.c 155-165, 459-469).
ListsLatest ==
  mode \in {"report", "reported"} =>
    LET count == IF RingWanted THEN Lesser(Listed, Len(ran)) ELSE 0
    IN  /\ Len(listing) = count
        /\ \A k \in 1 .. count : listing[k] = ran[Len(ran) - ((k - 1) % setting.depth)]

\* A breakpoint prints the first hits of its address up to the limit and no more, one
\* line for each time it is listed, whatever else is listed (debug.c 192-224).
HitsLimited ==
  mode # "closed" =>
    \A a \in Code :
      lines[a] = Lesser(Limit, entered[a] * Cardinality({k \in DOMAIN setting.breaks : setting.breaks[k] = a}))

\* The counters of the tools stay within their limits, and say what was printed.
CountsSound == DebugTypeOK /\ HitsLimited

\* The activations that have frames: only the innermost can be without one.
Framed == SubSeq(acts, 1, Len(acts) - (IF Top.framed THEN 0 ELSE 1))

\* The return addresses of these, the innermost first; the first has none.
Callers == [k \in 1 .. Len(Framed) - 1 |-> Framed[Len(Framed) + 1 - k].ret]

\* While the guest's stack is whole, a backtrace goes up its callers in their order and
\* skips none: each line after the first is the return address of the next activation
\* with a frame, up to the first or the count of lines.  (The first line is what the
\* innermost frame's slot holds, where its last call left it; a slot never used, or a
\* frame too large, ends the trace.)  debug.c 432-458.
TracesCallers ==
  whole =>
    /\ \A k \in 2 .. Len(trace) : k - 1 <= Len(Callers) /\ trace[k] = Callers[k - 1]
    /\ mode = "reported" /\ trace # <<>> /\ (\A s \in Slots : back[s] > s => back[s] - s <= MaxJump) =>
         Len(trace) = Lesser(MaxFrames, Len(Callers) + 1)
=============================================================================
