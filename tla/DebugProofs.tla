---------------------------- MODULE DebugProofs -----------------------------
(***************************************************************************)
(* Theorems about the debug tools, for rings of any depth, any list of     *)
(* breakpoints, any number of runs and stacks of any depth: a report lists *)
(* the last instructions of its own run, a breakpoint prints its first     *)
(* hits up to the limit, and a backtrace goes up the callers in their      *)
(* order.                                                                  *)
(***************************************************************************)
EXTENDS Debug, FiniteSetTheorems, WellFoundedInduction, TLAPS

\* The activations with frames.
Deep == Len(acts) - (IF Top.framed THEN 0 ELSE 1)

\* Every activation but the innermost has its frame, and every one but the first has a
\* return address, which the link register holds until the frame is made.
ActsOK ==
  /\ Len(acts) >= 1 /\ acts[1] = Start
  /\ \A k \in 1 .. Len(acts) - 1 : acts[k].framed
  /\ \A k \in 2 .. Len(acts) : acts[k].ret >= 1
  /\ whole /\ ~Top.framed => lr = Top.ret

\* Frames down the stack, each with the address of the one above and, above it, the
\* return address of its activation.
Chain(fr) ==
  /\ fr \in [1 .. Deep -> Slots]
  /\ fr[1] = StackTop /\ fr[Deep] = r1
  /\ \A k \in 1 .. Deep : fr[k] % 4 = 0
  /\ \A j, k \in 1 .. Deep : j < k => fr[k] < fr[j]
  /\ \A k \in 2 .. Deep : back[fr[k]] = fr[k - 1] /\ saved[fr[k - 1]] = acts[k].ret

Small == \A s \in Slots : back[s] > s => back[s] - s <= MaxJump

\* Where a backtrace is among these.
Walked(fr) ==
  /\ mode \in {"closed", "running"} => trace = <<>>
  /\ mode = "report" => frame = Len(trace) /\ frame < Deep /\ fp = fr[Deep - frame]
  /\ Len(trace) <= Deep
  /\ \A k \in 1 .. Len(trace) : trace[k] = saved[fr[Deep + 1 - k]]
  /\ mode = "reported" /\ trace # <<>> /\ Small => Len(trace) = Lesser(MaxFrames, Deep)

StackOK == whole => back[StackTop] = 0 /\ \E fr : Chain(fr) /\ Walked(fr)

\* Where an address is listed.
Places(a) == {k \in DOMAIN setting.breaks : setting.breaks[k] = a}

FirstPlace(a) == CHOOSE k \in Places(a) : \A j \in Places(a) : k <= j

\* The first breakpoint of an address counts what was printed for it.
BreaksOK ==
  /\ mode = "closed" => lines = [a \in Code |-> 0] /\ entered = [a \in Code |-> 0]
  /\ mode # "closed" =>
       /\ DOMAIN bps = DOMAIN setting.breaks
       /\ \A k \in DOMAIN bps : bps[k].addr = setting.breaks[k]
       /\ \A a \in Code : /\ lines[a] = Lesser(Limit, entered[a] * Cardinality(Places(a)))
                          /\ Places(a) # {} => bps[FirstPlace(a)].hits = lines[a]

\* The ring holds the last instructions, each at its position modulo the depth.
RingOK ==
  /\ ~RingWanted => ring = <<>>
  /\ mode = "closed" => ran = <<>>
  /\ mode # "closed" /\ RingWanted =>
       /\ Len(ring) = setting.depth /\ pos = Len(ran)
       /\ \A j \in 1 .. pos : j > pos - setting.depth => ring[((j - 1) % setting.depth) + 1] = ran[j]
  /\ ListsLatest

DebugInv == DebugTypeOK /\ ActsOK /\ StackOK /\ BreaksOK /\ RingOK
-----------------------------------------------------------------------------
\* Arithmetic modulo a depth: what division gives, and that it is the only way.
LEMMA DivisionGives ==
  ASSUME NEW d \in Nat \ {0}, NEW x \in Int
  PROVE  x \div d \in Int /\ x % d \in 0 .. d - 1 /\ x = d * (x \div d) + (x % d)
OBVIOUS

LEMMA SmallMultiple ==
  ASSUME NEW d \in Nat \ {0}, NEW m \in Int, NEW e \in Int, e = d * m, - d < e, e < d
  PROVE  m = 0
<1>1. m >= 1 => e >= d OBVIOUS
<1>2. m <= -1 => e <= - d OBVIOUS
<1> QED BY <1>1, <1>2

LEMMA RemainderIs ==
  ASSUME NEW d \in Nat \ {0}, NEW q \in Int, NEW r \in 0 .. d - 1, NEW x \in Int, x = d * q + r
  PROVE  x % d = r
<1> DEFINE p == x \div d
           s == x % d
<1>1. p \in Int /\ s \in 0 .. d - 1 /\ x = d * p + s BY DivisionGives
<1>2. d * (p - q) = d * p - d * q BY <1>1
<1>3. d * (p - q) = r - s
  <2> HIDE DEF p, s
  <2> DEFINE u == d * p
             v == d * q
             w == d * (p - q)
  <2>1. u \in Int /\ v \in Int BY <1>1
  <2>2. x = u + s /\ x = v + r /\ w = u - v BY <1>1, <1>2
  <2> QED BY <2>1, <2>2, <1>1
<1>4. p - q = 0 BY <1>1, <1>3, SmallMultiple
<1> QED BY <1>1, <1>3, <1>4

\* Positions less than a depth apart have places of their own.
LEMMA ApartModulo ==
  ASSUME NEW d \in Nat \ {0}, NEW x \in Int, NEW y \in Int, x < y, y < x + d
  PROVE  x % d # y % d
<1> DEFINE p == x \div d
           q == y \div d
           r == x % d
<1>1. p \in Int /\ q \in Int /\ r \in 0 .. d - 1 /\ x = d * p + r BY DivisionGives
<1> SUFFICES ASSUME y % d = r PROVE FALSE OBVIOUS
<1>2. y = d * q + r BY DivisionGives
<1>3. d * (q - p) = d * q - d * p BY <1>1
<1>4. d * (q - p) = y - x
  <2> HIDE DEF p, q, r
  <2> DEFINE u == d * p
             v == d * q
             w == d * (q - p)
  <2>1. u \in Int /\ v \in Int BY <1>1
  <2>2. x = u + r /\ y = v + r /\ w = v - u BY <1>1, <1>2, <1>3
  <2> QED BY <2>1, <2>2, <1>1
<1>5. q - p = 0 BY <1>1, <1>4, SmallMultiple
<1>6. d * 0 = 0 OBVIOUS
<1> QED BY <1>1, <1>4, <1>5, <1>6

\* Going back a whole number of depths leads to the same place.
LEMMA SamePlace ==
  ASSUME NEW d \in Nat \ {0}, NEW x \in Int, NEW k \in Int
  PROVE  (x - k) % d = (x - (k % d)) % d
<1> DEFINE q == k \div d
           r == k % d
           p == (x - r) \div d
           s == (x - r) % d
<1>1. q \in Int /\ r \in 0 .. d - 1 /\ k = d * q + r BY DivisionGives
<1>2. x - r \in Int BY <1>1
<1>3. p \in Int /\ s \in 0 .. d - 1 /\ x - r = d * p + s BY <1>2, DivisionGives
<1>4. d * (p - q) = d * p - d * q BY <1>1, <1>3
<1>5. x - k = d * (p - q) + s
  <2> HIDE DEF p, q, r, s
  <2> DEFINE u == d * p
             v == d * q
             w == d * (p - q)
  <2>1. u \in Int /\ v \in Int BY <1>1, <1>3
  <2>2. x - r = u + s /\ k = v + r /\ w = u - v BY <1>1, <1>3, <1>4
  <2> QED BY <2>1, <2>2, <1>1, <1>3
<1>6. x - k \in Int /\ p - q \in Int BY <1>1, <1>3
<1>7. \A m \in Int, e \in Int : e = d * m + s => e % d = s
  BY <1>3, RemainderIs, ZenonT(30)
<1>8. (x - k) % d = s
  <2> HIDE DEF p, q, r, s
  <2> QED BY <1>5, <1>6, <1>7
<1> QED BY <1>8

-----------------------------------------------------------------------------
LEMMA LesserType == ASSUME NEW x \in Nat, NEW y \in Nat
                    PROVE  Lesser(x, y) \in Nat /\ Lesser(x, y) <= x /\ Lesser(x, y) <= y
BY DEF Lesser

LEMMA LimitType == ASSUME DebugTypeOK PROVE Limit \in Nat \ {0} /\ setting.depth \in Nat
BY DebugAssumption DEF DebugTypeOK, RunTypes, Limit

\* The depth of a ring is positive, and the ring asked for has it.
LEMMA RingDepth ==
  ASSUME DebugTypeOK, RingWanted
  PROVE  setting.depth \in Nat \ {0} /\ setting.depth \in Int
BY LimitType, DebugAssumption DEF RingWanted

\* A sequence's positions are finitely many.
LEMMA FinitePlaces == ASSUME NEW S, NEW s \in Seq(S), NEW P, P \subseteq DOMAIN s
                      PROVE  IsFiniteSet(P) /\ Cardinality(P) \in Nat /\ P \subseteq Nat
<1>1. DOMAIN s = 1 .. Len(s) /\ Len(s) \in Nat OBVIOUS
<1>2. IsFiniteSet(1 .. Len(s)) BY <1>1, FS_Interval
<1> QED BY <1>1, <1>2, FS_Subset, FS_CardinalityType

LEMMA LeastNumber ==
  ASSUME NEW S, S \subseteq Nat, S # {}
  PROVE  \E d \in S : \A e \in S : d <= e
<1>1. PICK d \in S : \A e \in S : <<e, d>> \notin OpToRel(<, Nat)
  BY NatLessThanWellFounded, WFMin
<1>2. \A e \in S : ~(e < d)
  BY <1>1 DEF OpToRel
<1> QED BY <1>2

\* The first of the breakpoints at an address is one of them.
LEMMA FirstFound == ASSUME DebugTypeOK, NEW a, At(a) # {}
                    PROVE  First(a) \in At(a) /\ First(a) \in DOMAIN bps
<1>1. At(a) \subseteq DOMAIN bps BY DEF At
<1>2. At(a) \subseteq Nat BY <1>1, FinitePlaces DEF DebugTypeOK, ToolTypes
<1>3. \E k \in At(a) : \A j \in At(a) : k <= j
  BY <1>2, LeastNumber
<1>4. First(a) \in At(a) BY <1>3 DEF First
<1> QED BY <1>1, <1>4

-----------------------------------------------------------------------------
\* While the stack is whole r1 is a frame's address.
LEMMA FrameInStack == ASSUME DebugInv, whole PROVE r1 \in Slots /\ Deep >= 1
<1>1. PICK fr : Chain(fr) BY DEF DebugInv, StackOK
<1>2. Deep >= 1 /\ Deep \in Nat
  BY DEF DebugInv, DebugTypeOK, StackTypes, ActsOK, Deep, Top, Start
<1> QED BY <1>1, <1>2 DEF Chain

LEMMA DebugTypeInit == DebugInit => DebugTypeOK
BY DebugAssumption DEF DebugInit, DebugTypeOK, ToolTypes, ReportTypes, StackTypes, RunTypes, Slots, Start

\* Parts of the types that a step leaves alone.
LEMMA SameTypes ==
  ASSUME DebugTypeOK
  PROVE  /\ UNCHANGED <<ring, pos, bps, lines, setting>> => ToolTypes'
         /\ UNCHANGED <<listing, trace, fp, frame>> => ReportTypes'
         /\ UNCHANGED stack => StackTypes'
         /\ UNCHANGED <<mode, setting, ran, entered, loads>> => RunTypes'
         /\ UNCHANGED setting => UNCHANGED Limit
BY DEF DebugTypeOK, ToolTypes, ReportTypes, StackTypes, RunTypes, Limit, stack

\* What a list of breakpoints is.
LEMMA ListTypes == ASSUME DebugTypeOK PROVE setting.breaks \in Seq(Code)
BY DebugAssumption DEF DebugTypeOK, RunTypes

LEMMA LoadTypes == DebugInv /\ Load => DebugTypeOK'
<1> SUFFICES ASSUME DebugInv, Load PROVE DebugTypeOK' OBVIOUS
<1> USE DEF DebugInv
<1>1. ReportTypes' /\ StackTypes' /\ Limit' = Limit BY SameTypes DEF Load
<1>2. bps' \in Seq([addr : Code, hits : 0 .. Limit'])
  <2> DEFINE B == setting.breaks
             R == [addr : Code, hits : 0 .. Limit]
  <2>1. B \in Seq(Code) BY ListTypes
  <2>2. \A k \in DOMAIN B : [addr |-> B[k], hits |-> 0] \in R
    BY <2>1, LimitType
  <2>3. bps' = [k \in DOMAIN B |-> [addr |-> B[k], hits |-> 0]] BY DEF Load
  <2> HIDE DEF B, R
  <2>4. bps' \in Seq(R) BY <2>1, <2>2, <2>3
  <2> QED BY <2>4, <1>1 DEF R
<1>3. ring' \in Seq(Code \cup {0}) /\ pos' \in Nat
  BY LimitType DEF Load, LoadRing, DebugTypeOK, ToolTypes
<1>4. ToolTypes' BY <1>2, <1>3 DEF Load, DebugTypeOK, ToolTypes
<1>5. RunTypes' BY DebugAssumption DEF Load, DebugTypeOK, RunTypes
<1> QED BY <1>1, <1>4, <1>5 DEF DebugTypeOK

LEMMA ShutdownTypes == DebugInv /\ Shutdown => DebugTypeOK'
<1> SUFFICES ASSUME DebugInv, Shutdown PROVE DebugTypeOK' OBVIOUS
<1> USE DEF DebugInv, DebugTypeOK, Shutdown
<1>1. ToolTypes' BY SameTypes DEF ToolTypes
<1>2. ReportTypes' BY DEF ReportTypes
<1>3. StackTypes' BY DebugAssumption DEF StackTypes, Slots, Start
<1>4. RunTypes' BY DEF RunTypes
<1> QED BY <1>1, <1>2, <1>3, <1>4

\* A breakpoint prints what its limit leaves.
LEMMA PrintsType ==
  ASSUME DebugTypeOK, NEW a \in Code, At(a) # {}
  PROVE  /\ bps[First(a)] \in [addr : Code, hits : 0 .. Limit]
         /\ Prints(a) \in Nat /\ bps[First(a)].hits + Prints(a) \in 0 .. Limit
<1>1. First(a) \in DOMAIN bps BY FirstFound
<1> DEFINE R == [addr : Code, hits : 0 .. Limit]
<1>2. bps \in Seq(R) BY DEF DebugTypeOK, ToolTypes
<1>3. bps[First(a)] \in R
  <2> HIDE DEF R
  <2> QED BY <1>1, <1>2
<1>4. Cardinality(At(a)) \in Nat BY <1>2, FinitePlaces DEF At
<1>5. Limit \in Nat BY LimitType
<1>6. bps[First(a)].hits \in 0 .. Limit BY <1>3
<1> QED BY <1>3, <1>4, <1>5, <1>6 DEF Prints, Lesser

LEMMA ExecuteTypes == ASSUME NEW a \in Code, DebugInv, Execute(a) PROVE DebugTypeOK'
<1> USE DEF DebugInv
<1>1. ReportTypes' /\ StackTypes' /\ Limit' = Limit BY SameTypes DEF Execute
<1>2. ring' \in Seq(Code \cup {0}) /\ pos' \in Nat
  <2>1. ring \in Seq(Code \cup {0}) /\ pos \in Nat BY DEF DebugTypeOK, ToolTypes
  <2> QED BY <2>1, SMTT(20) DEF Execute, RingTakes
<1>3. bps' \in Seq([addr : Code, hits : 0 .. Limit]) /\ lines' \in [Code -> Nat]
  <2> DEFINE R == [addr : Code, hits : 0 .. Limit]
             b == bps[First(a)]
  <2>1. bps \in Seq(R) /\ lines \in [Code -> Nat] BY DEF DebugTypeOK, ToolTypes
  <2>2. CASE Hit(a) /\ At(a) # {}
    <3>1. First(a) \in DOMAIN bps BY <2>2, FirstFound
    <3>2. b \in R /\ b.hits + Prints(a) \in 0 .. Limit /\ Prints(a) \in Nat
      BY <2>2, PrintsType
    <3> DEFINE c == [b EXCEPT !.hits = b.hits + Prints(a)]
    <3>3. c \in R BY <3>2
    <3>4. bps' = [bps EXCEPT ![First(a)] = c] BY <2>2 DEF Hit
    <3> HIDE DEF R, c
    <3>5. bps' \in Seq(R) BY <2>1, <3>1, <3>3, <3>4
    <3>6. lines' \in [Code -> Nat] BY <2>1, <2>2, <3>2 DEF Hit
    <3> QED BY <3>5, <3>6 DEF R
  <2>3. CASE UNCHANGED <<bps, lines>> BY <2>1, <2>3
  <2> QED BY <2>2, <2>3 DEF Hit, Execute
<1>4. RunTypes'
  <2>1. ran \in Seq(Code) /\ entered \in [Code -> Nat] BY DEF DebugTypeOK, RunTypes
  <2>2. ran' \in Seq(Code) /\ entered' \in [Code -> Nat] BY <2>1 DEF Execute
  <2> QED BY <2>2 DEF Execute, DebugTypeOK, RunTypes
<1>5. ToolTypes' BY <1>1, <1>2, <1>3 DEF ToolTypes
<1> QED BY <1>1, <1>4, <1>5 DEF DebugTypeOK

LEMMA GuestStackTypes == DebugInv /\ (Call \/ Prologue \/ Return \/ LoseStack) => StackTypes'
<1> SUFFICES ASSUME DebugInv, Call \/ Prologue \/ Return \/ LoseStack PROVE StackTypes' OBVIOUS
<1> DEFINE R == [ret : 0 .. MaxCalls, framed : BOOLEAN]
<1>1. whole /\ r1 \in Slots BY FrameInStack DEF Call, Prologue, Return, LoseStack, Runs
<1>2. /\ r1 \in Nat /\ lr \in 0 .. MaxCalls /\ calls \in 0 .. MaxCalls
      /\ back \in [Slots -> Slots] /\ saved \in [Slots -> 0 .. MaxCalls]
  BY DEF DebugInv, DebugTypeOK, StackTypes
<1>3. acts \in Seq(R) /\ Len(acts) >= 1 BY DEF DebugInv, DebugTypeOK, StackTypes, ActsOK
<1>4. CASE Call
  <2>1. calls + 1 \in 0 .. MaxCalls BY <1>2, <1>4, DebugAssumption DEF Call
  <2>2. [ret |-> calls + 1, framed |-> FALSE] \in R BY <2>1
  <2>3. acts' = Append(acts, [ret |-> calls + 1, framed |-> FALSE]) BY <1>4 DEF Call
  <2>4. acts' \in Seq(R) BY <2>2, <2>3, <1>3
  <2> QED BY <2>1, <2>4, <1>1, <1>2, <1>4 DEF Call, StackTypes
<1>5. CASE Prologue
  <2>1. PICK size \in FrameSizes :
          /\ r1 - size >= 0
          /\ saved' = [saved EXCEPT ![r1] = lr, ![r1 - size] = 0]
          /\ back' = [back EXCEPT ![r1 - size] = r1]
          /\ r1' = r1 - size
    BY <1>5 DEF Prologue
  <2>2. size \in Nat BY DebugAssumption
  <2>3. r1' \in Slots /\ r1' \in Nat BY <1>1, <2>1, <2>2, DebugAssumption DEF Slots
  <2>4. saved' \in [Slots -> 0 .. MaxCalls] /\ back' \in [Slots -> Slots]
    <3>1. 0 \in 0 .. MaxCalls BY DebugAssumption
    <3>2. r1 - size \in Slots BY <2>1, <2>3
    <3> QED BY <3>1, <3>2, <1>1, <1>2, <2>1
  <2>5. Len(acts) \in DOMAIN acts /\ Top \in R
    <3> HIDE DEF R
    <3> QED BY <1>3 DEF Top
  <2>6. [Top EXCEPT !.framed = TRUE] \in R BY <2>5
  <2>7. acts' = [acts EXCEPT ![Len(acts)] = [Top EXCEPT !.framed = TRUE]]
    BY <1>5 DEF Prologue, OnTop
  <2>8. acts' \in Seq(R)
    <3> HIDE DEF R
    <3> QED BY <2>5, <2>6, <2>7, <1>3
  <2> QED BY <2>3, <2>4, <2>8, <1>1, <1>2, <1>5 DEF Prologue, StackTypes
<1>6. CASE Return
  <2>1. back[r1] \in Slots /\ saved[back[r1]] \in 0 .. MaxCalls BY <1>1, <1>2
  <2>2. r1' \in Nat /\ lr' \in 0 .. MaxCalls
    BY <2>1, <1>2, <1>6, DebugAssumption, SMTT(20) DEF Return, Slots
  <2>3. Len(acts) - 1 \in 0 .. Len(acts) BY <1>3
  <2>4. acts' \in Seq(R)
    <3> HIDE DEF R
    <3> QED BY <2>3, <1>3, <1>6 DEF Return
  <2> QED BY <2>2, <2>4, <1>1, <1>2, <1>6 DEF Return, StackTypes
<1>7. CASE LoseStack
  <2>1. r1' \in Nat BY <1>7, DebugAssumption DEF LoseStack
  <2> QED BY <2>1, <1>2, <1>3, <1>7 DEF LoseStack, StackTypes
<1> QED BY <1>4, <1>5, <1>6, <1>7

\* What a report lists are entries of the ring.
LEMMA ListedEntry ==
  ASSUME DebugTypeOK, ring # <<>>, NEW x \in Int
  PROVE  (x % Len(ring)) + 1 \in 1 .. Len(ring) /\ ring[(x % Len(ring)) + 1] \in Code \cup {0}
<1>1. ring \in Seq(Code \cup {0}) BY DEF DebugTypeOK, ToolTypes
<1>2. Len(ring) \in Nat \ {0} BY <1>1
<1> DEFINE s == x % Len(ring)
<1>3. s \in 0 .. Len(ring) - 1 BY <1>2, DivisionGives
<1> HIDE DEF s
<1>4. s + 1 \in 1 .. Len(ring) BY <1>2, <1>3
<1>5. ring[s + 1] \in Code \cup {0} BY <1>1, <1>4
<1> QED BY <1>4, <1>5 DEF s

LEMMA WalkTypes == DebugInv /\ (ReportBegins \/ WalkFrame \/ WalkStops) => ReportTypes'
<1> SUFFICES ASSUME DebugInv, ReportBegins \/ WalkFrame \/ WalkStops PROVE ReportTypes' OBVIOUS
<1>1. /\ listing \in Seq(Code \cup {0}) /\ trace \in Seq(1 .. MaxCalls)
      /\ fp \in Nat /\ frame \in 0 .. MaxFrames /\ r1 \in Nat /\ pos \in Nat
      /\ back \in [Slots -> Slots] /\ saved \in [Slots -> 0 .. MaxCalls]
  BY DEF DebugInv, DebugTypeOK, ReportTypes, StackTypes, ToolTypes
<1>2. CASE ReportBegins
  <2>1. listing' \in Seq(Code \cup {0})
    <3>1. CASE ring # <<>> /\ pos # 0
      <4> DEFINE n == Lesser(pos, Listed)
      <4>1. n \in Nat BY <1>1, LesserType, DebugAssumption
      <4>2. ASSUME NEW k \in 1 .. n PROVE RingEntry(k - 1) \in Code \cup {0}
        <5>1. pos - 1 - (k - 1) \in Int BY <1>1, <4>1
        <5> QED BY <3>1, <5>1, ListedEntry DEF RingEntry, DebugInv
      <4>3. listing' = [k \in 1 .. n |-> RingEntry(k - 1)] BY <1>2, <3>1 DEF ReportBegins
      <4> HIDE DEF n
      <4> QED BY <4>1, <4>2, <4>3
    <3>2. CASE ring = <<>> \/ pos = 0
      BY <1>2, <3>2 DEF ReportBegins
    <3> QED BY <3>1, <3>2
  <2> QED BY <2>1, <1>1, <1>2, DebugAssumption DEF ReportBegins, ReportTypes
<1>3. CASE WalkFrame
  <2>1. fp \in Slots /\ saved[fp] \in 1 .. MaxCalls
    BY <1>1, <1>3 DEF WalkFrame, FrameFound, Readable, SavedAt
  <2>2. frame + 1 \in 0 .. MaxFrames
    BY <1>1, <1>3, DebugAssumption DEF WalkFrame, FrameFound
  <2>3. trace' \in Seq(1 .. MaxCalls) BY <2>1, <1>1, <1>3 DEF WalkFrame, SavedAt
  <2>4. back[fp] \in Nat BY <2>1, <1>1, DebugAssumption DEF Slots
  <2>5. fp' \in Nat /\ frame' \in 0 .. MaxFrames
    BY <2>2, <2>4, <1>3, DebugAssumption DEF WalkFrame
  <2> QED BY <2>3, <2>5, <1>1, <1>3 DEF WalkFrame, ReportTypes
<1>4. CASE WalkStops
  BY <1>4, <1>1, DebugAssumption DEF WalkStops, ReportTypes
<1> QED BY <1>2, <1>3, <1>4

LEMMA DebugTypeStep == DebugInv /\ [DebugNext]_debugVars => DebugTypeOK'
<1> SUFFICES ASSUME DebugInv, [DebugNext]_debugVars PROVE DebugTypeOK' OBVIOUS
<1>1. CASE UNCHANGED debugVars
  BY <1>1, SameTypes DEF DebugInv, DebugTypeOK, debugVars, tools
<1>2. CASE Call \/ Prologue \/ Return \/ LoseStack
  <2>1. UNCHANGED <<mode, setting, tools, ran, entered, loads>>
    BY <1>2 DEF Call, Prologue, Return, LoseStack
  <2> QED BY <2>1, <1>2, SameTypes, GuestStackTypes DEF DebugInv, DebugTypeOK, tools
<1>3. CASE ReportBegins \/ WalkFrame \/ WalkStops
  <2>1. UNCHANGED <<setting, ring, pos, bps, lines, stack, ran, entered, loads>>
    BY <1>3 DEF ReportBegins, WalkFrame, WalkStops
  <2>2. mode' \in {"closed", "running", "report", "reported"}
    BY <1>3 DEF ReportBegins, WalkFrame, WalkStops, DebugInv, DebugTypeOK, RunTypes
  <2>3. RunTypes' BY <2>1, <2>2 DEF DebugInv, DebugTypeOK, RunTypes
  <2> QED BY <2>1, <2>3, <1>3, SameTypes, WalkTypes DEF DebugInv, DebugTypeOK
<1> QED BY <1>1, <1>2, <1>3, LoadTypes, ShutdownTypes, ExecuteTypes DEF DebugNext

-----------------------------------------------------------------------------
LEMMA ActsStep == DebugInv /\ [DebugNext]_debugVars => ActsOK'
<1> SUFFICES ASSUME DebugInv, [DebugNext]_debugVars PROVE ActsOK' OBVIOUS
<1> DEFINE R == [ret : 0 .. MaxCalls, framed : BOOLEAN]
           n == Len(acts)
<1>1. acts \in Seq(R) /\ n \in Nat /\ n >= 1 /\ calls \in Nat
  BY DEF DebugInv, DebugTypeOK, StackTypes, ActsOK
<1>2. /\ acts[1] = Start /\ \A k \in 1 .. n - 1 : acts[k].framed
      /\ \A k \in 2 .. n : acts[k].ret >= 1
  BY DEF DebugInv, ActsOK
<1>3. CASE UNCHANGED stack
  BY <1>3 DEF DebugInv, ActsOK, stack, Top
<1>4. CASE Shutdown
  BY <1>4 DEF Shutdown, ActsOK, Start, Top
<1>5. CASE Call
  <2> DEFINE e == [ret |-> calls + 1, framed |-> FALSE]
  <2>1. acts' = Append(acts, e) /\ lr' = calls + 1 /\ acts[n].framed BY <1>5 DEF Call, Top
  <2>2. e.ret >= 1 /\ e.ret = lr' BY <1>1, <2>1
  <2> HIDE DEF R, e
  <2>3. Len(acts') = n + 1 /\ acts'[n + 1] = e /\ \A k \in 1 .. n : acts'[k] = acts[k]
    BY <1>1, <2>1
  <2> QED BY <1>1, <1>2, <2>1, <2>2, <2>3 DEF ActsOK, Top
<1>6. CASE Prologue
  <2> DEFINE e == [Top EXCEPT !.framed = TRUE]
  <2>1. acts' = [acts EXCEPT ![n] = e] /\ ~acts[n].framed BY <1>6 DEF Prologue, OnTop, Top
  <2>2. n # 1 BY <1>2, <2>1 DEF Start
  <2>3. acts[n] \in R
    <3> HIDE DEF R
    <3> QED BY <1>1
  <2>4. e.ret = acts[n].ret /\ e.framed BY <2>3 DEF Top
  <2> HIDE DEF R, e
  <2>5. Len(acts') = n /\ acts'[n] = e /\ \A k \in 1 .. n - 1 : acts'[k] = acts[k]
    BY <1>1, <2>1
  <2> QED BY <1>1, <1>2, <2>2, <2>4, <2>5 DEF ActsOK, Top
<1>7. CASE Return
  <2>1. n > 1 /\ acts' = SubSeq(acts, 1, n - 1) BY <1>7 DEF Return
  <2> HIDE DEF R
  <2>2. Len(acts') = n - 1 /\ \A k \in 1 .. n - 1 : acts'[k] = acts[k]
    BY <1>1, <2>1
  <2> QED BY <1>1, <1>2, <2>1, <2>2 DEF ActsOK, Top
<1>8. CASE LoseStack
  BY <1>8, <1>1, <1>2 DEF LoseStack, ActsOK
<1>9. Load \/ (\E a \in Code : Execute(a)) \/ ReportBegins \/ WalkFrame \/ WalkStops => UNCHANGED stack
  BY DEF Load, Execute, ReportBegins, WalkFrame, WalkStops
<1> QED BY <1>3, <1>4, <1>5, <1>6, <1>7, <1>8, <1>9 DEF DebugNext, debugVars

-----------------------------------------------------------------------------
LEMMA LeastChosen ==
  ASSUME NEW S, S \subseteq Nat, S # {}
  PROVE  (CHOOSE k \in S : \A j \in S : k <= j) \in S
BY LeastNumber

\* While a run is on the breakpoints are those listed.
LEMMA PlacesFound ==
  ASSUME DebugInv, NEW a \in Code
  PROVE  /\ Cardinality(Places(a)) \in Nat /\ (Places(a) = {} => Cardinality(Places(a)) = 0)
         /\ Places(a) # {} => FirstPlace(a) \in Places(a)
         /\ mode # "closed" => At(a) = Places(a) /\ First(a) = FirstPlace(a)
<1>1. setting.breaks \in Seq(Code) BY ListTypes DEF DebugInv
<1>2. Places(a) \subseteq DOMAIN setting.breaks BY DEF Places
<1>3. Cardinality(Places(a)) \in Nat /\ Places(a) \subseteq Nat BY <1>1, <1>2, FinitePlaces
<1>4. Places(a) # {} => FirstPlace(a) \in Places(a) BY <1>3, LeastChosen DEF FirstPlace
<1>5. mode # "closed" => At(a) = Places(a)
  BY DEF DebugInv, BreaksOK, At, Places
<1>6. mode # "closed" => First(a) = FirstPlace(a) BY <1>5 DEF First, FirstPlace
<1> QED BY <1>3, <1>4, <1>5, <1>6, FS_EmptySet

\* Hits are charged up to the limit.
LEMMA HitsAdd ==
  ASSUME NEW L \in Nat, NEW c \in Nat, NEW e \in Nat
  PROVE  Lesser(L, e * c) + Lesser(c, L - Lesser(L, e * c)) = Lesser(L, (e + 1) * c)
<1> DEFINE m == e * c
           s == (e + 1) * c
<1>1. m \in Nat /\ s = m + c OBVIOUS
<1> HIDE DEF m, s
<1>2. Lesser(L, m) + Lesser(c, L - Lesser(L, m)) = Lesser(L, s) BY <1>1 DEF Lesser
<1> QED BY <1>2 DEF m, s

LEMMA BreaksStep == DebugInv /\ [DebugNext]_debugVars => BreaksOK'
<1> SUFFICES ASSUME DebugInv, [DebugNext]_debugVars PROVE BreaksOK' OBVIOUS
<1>1. UNCHANGED setting
  BY DEF DebugNext, Load, Shutdown, Execute, Call, Prologue, Return, LoseStack, ReportBegins, WalkFrame,
         WalkStops, debugVars
<1>2. Limit' = Limit /\ \A a : Places(a)' = Places(a) /\ FirstPlace(a)' = FirstPlace(a)
  BY <1>1 DEF Limit, Places, FirstPlace
<1>3. Limit \in Nat /\ setting.breaks \in Seq(Code) BY LimitType, ListTypes DEF DebugInv
<1>4. ASSUME UNCHANGED <<bps, lines, entered>>, (mode' = "closed") <=> (mode = "closed")
      PROVE  BreaksOK'
  BY <1>1, <1>2, <1>4 DEF DebugInv, BreaksOK
<1>5. CASE Load
  <2>1. lines' = [a \in Code |-> 0] /\ entered' = [a \in Code |-> 0] /\ mode' = "running"
    BY <1>5 DEF Load, DebugInv, BreaksOK
  <2>2. bps' = [k \in DOMAIN setting.breaks |-> [addr |-> setting.breaks[k], hits |-> 0]]
    BY <1>5 DEF Load
  <2>3. ASSUME NEW a \in Code
        PROVE  /\ lines'[a] = Lesser(Limit, entered'[a] * Cardinality(Places(a)))
               /\ Places(a) # {} => bps'[FirstPlace(a)].hits = lines'[a]
    <3>1. Cardinality(Places(a)) \in Nat BY PlacesFound
    <3>2. entered'[a] * Cardinality(Places(a)) = 0 /\ lines'[a] = 0 BY <2>1, <3>1
    <3>3. Lesser(Limit, 0) = 0 BY <1>3 DEF Lesser
    <3>4. Places(a) # {} => FirstPlace(a) \in DOMAIN setting.breaks BY PlacesFound DEF Places
    <3> QED BY <2>2, <3>2, <3>3, <3>4
  <2> QED BY <2>1, <2>2, <2>3, <1>1, <1>2 DEF BreaksOK
<1>6. CASE Shutdown
  BY <1>6 DEF Shutdown, BreaksOK
<1>7. ASSUME NEW a \in Code, Execute(a), Hit(a), entered' = [entered EXCEPT ![a] = entered[a] + 1]
      PROVE  BreaksOK'
  <2>1. mode # "closed" /\ mode' # "closed" BY <1>7 DEF Execute, Runs
  <2>2. lines \in [Code -> Nat] /\ entered \in [Code -> Nat]
    BY DEF DebugInv, DebugTypeOK, ToolTypes, RunTypes
  <2>3. /\ DOMAIN bps = DOMAIN setting.breaks
        /\ \A k \in DOMAIN bps : bps[k].addr = setting.breaks[k]
        /\ \A b \in Code : /\ lines[b] = Lesser(Limit, entered[b] * Cardinality(Places(b)))
                           /\ Places(b) # {} => bps[FirstPlace(b)].hits = lines[b]
    BY <2>1 DEF DebugInv, BreaksOK
  <2>4. At(a) = Places(a) /\ First(a) = FirstPlace(a) /\ Cardinality(Places(a)) \in Nat
    BY <2>1, PlacesFound
  <2>5. CASE Places(a) = {}
    <3>1. UNCHANGED <<bps, lines>> BY <1>7, <2>4, <2>5 DEF Hit
    <3>2. Cardinality(Places(a)) = 0 BY <2>5, PlacesFound
    <3>3. entered'[a] * 0 = 0 /\ entered[a] * 0 = 0 BY <1>7, <2>2
    <3>4. \A b \in Code : lines'[b] = Lesser(Limit, entered'[b] * Cardinality(Places(b)))
      BY <1>7, <2>2, <2>3, <3>1, <3>2, <3>3
    <3> QED BY <2>1, <2>3, <3>1, <3>4, <1>1, <1>2 DEF BreaksOK
  <2>6. CASE Places(a) # {}
    <3> DEFINE c == FirstPlace(a)
               p == Prints(a)
    <3>1. c \in Places(a) /\ c \in DOMAIN bps BY <2>3, <2>6, PlacesFound DEF Places
    <3>2. /\ bps' = [bps EXCEPT ![c] = [bps[c] EXCEPT !.hits = bps[c].hits + p]]
          /\ lines' = [lines EXCEPT ![a] = lines[a] + p]
      BY <1>7, <2>4, <2>6 DEF Hit
    <3>3. p = Lesser(Cardinality(Places(a)), Limit - bps[c].hits) BY <2>4 DEF Prints
    <3>4. bps[c] \in [addr : Code, hits : 0 .. Limit] /\ p \in Nat
      BY <2>4, <2>6, PrintsType DEF DebugInv
    <3>5. lines[a] + p = Lesser(Limit, (entered[a] + 1) * Cardinality(Places(a)))
      <4>1. bps[c].hits = lines[a] BY <2>3, <2>6
      <4>2. lines[a] = Lesser(Limit, entered[a] * Cardinality(Places(a))) BY <2>3
      <4>3. entered[a] \in Nat BY <2>2
      <4> DEFINE n == Cardinality(Places(a))
                 e == entered[a]
      <4>4. Lesser(Limit, e * n) + Lesser(n, Limit - Lesser(Limit, e * n)) = Lesser(Limit, (e + 1) * n)
        <5> HIDE DEF n, e
        <5>1. n \in Nat /\ e \in Nat BY <2>4, <4>3 DEF n, e
        <5> QED BY <1>3, <5>1, HitsAdd
      <4>5. lines[a] = Lesser(Limit, e * n) /\ p = Lesser(n, Limit - lines[a])
        BY <3>3, <4>1, <4>2
      <4> HIDE DEF n, e, p
      <4>6. lines[a] + p = Lesser(Limit, (e + 1) * n) BY <4>4, <4>5
      <4> QED BY <4>6 DEF n, e
    <3> HIDE DEF c, p
    <3>6. DOMAIN bps' = DOMAIN bps /\ \A k \in DOMAIN bps : bps'[k].addr = bps[k].addr
      BY <3>2, <3>4
    <3>7. \A b \in Code : lines'[b] = Lesser(Limit, entered'[b] * Cardinality(Places(b)))
      BY <1>7, <2>2, <2>3, <3>2, <3>5
    <3>8. bps'[c].hits = lines'[a] BY <2>2, <2>3, <2>6, <3>1, <3>2, <3>4 DEF c
    <3>9. ASSUME NEW b \in Code, b # a, Places(b) # {} PROVE bps'[FirstPlace(b)].hits = lines'[b]
      <4>1. FirstPlace(b) \in Places(b) BY <3>9, PlacesFound
      <4>2. FirstPlace(b) # c /\ FirstPlace(b) \in DOMAIN bps BY <2>3, <3>1, <3>9, <4>1 DEF Places
      <4> QED BY <2>2, <2>3, <3>2, <3>9, <4>2
    <3>10. \A b \in Code : Places(b) # {} => bps'[FirstPlace(b)].hits = lines'[b]
      BY <3>8, <3>9 DEF c
    <3> QED BY <2>1, <2>3, <3>6, <3>7, <3>10, <1>1, <1>2 DEF BreaksOK
  <2> QED BY <2>5, <2>6
<1>8. CASE \E a \in Code : Execute(a)
  BY <1>4, <1>7, <1>8 DEF Execute
<1>9. CASE Call \/ Prologue \/ Return \/ LoseStack \/ UNCHANGED debugVars
  BY <1>4, <1>9 DEF Call, Prologue, Return, LoseStack, debugVars, tools
<1>10. CASE ReportBegins \/ WalkFrame \/ WalkStops
  <2>1. UNCHANGED <<bps, lines, entered>> /\ mode # "closed" /\ mode' # "closed"
    BY <1>10 DEF ReportBegins, WalkFrame, WalkStops
  <2> QED BY <1>4, <2>1
<1> QED BY <1>5, <1>6, <1>8, <1>9, <1>10 DEF DebugNext

-----------------------------------------------------------------------------
\* The ring takes the instruction in place of the oldest.
LEMMA RingTaken ==
  ASSUME DebugInv, RingWanted, mode # "closed", NEW a \in Code, RingTakes(a), ran' = Append(ran, a)
  PROVE  /\ Len(ring') = setting.depth /\ pos' = Len(ran')
         /\ \A j \in 1 .. pos' : j > pos' - setting.depth =>
              ring'[((j - 1) % setting.depth) + 1] = ran'[j]
<1> DEFINE d == setting.depth
<1>1. d \in Nat \ {0} BY RingDepth DEF DebugInv
<1>2. ring \in Seq(Code \cup {0}) /\ ran \in Seq(Code) /\ pos \in Nat
  BY DEF DebugInv, DebugTypeOK, ToolTypes, RunTypes
<1>3. /\ Len(ring) = d /\ pos = Len(ran)
      /\ \A j \in 1 .. pos : j > pos - d => ring[((j - 1) % d) + 1] = ran[j]
  BY DEF DebugInv, RingOK
<1> HIDE DEF d
<1>4. ring # <<>> BY <1>1, <1>2, <1>3
<1> DEFINE i == (pos % d) + 1
<1>5. pos' = pos + 1 /\ ring' = [ring EXCEPT ![i] = a] BY <1>3, <1>4 DEF RingTakes
<1>6. pos % d \in 0 .. d - 1
  <2>1. pos \in Int BY <1>2
  <2> QED BY <1>1, <2>1, DivisionGives
<1>7. i \in 1 .. d BY <1>1, <1>6
<1>8. Len(ring') = d BY <1>2, <1>3, <1>5, <1>7
<1>9. Len(ran') = pos + 1 /\ ran'[pos + 1] = a /\ \A j \in 1 .. pos : ran'[j] = ran[j]
  BY <1>2, <1>3
<1> DEFINE Placed(j) == ring'[((j - 1) % d) + 1] = ran'[j]
<1>10. ASSUME NEW j \in 1 .. pos + 1, j > pos + 1 - d
       PROVE  Placed(j)
  <2>1. CASE j = pos + 1
    <3> DEFINE k == ((j - 1) % d) + 1
    <3>1. j - 1 = pos BY <2>1, <1>2
    <3>2. k = i BY <3>1
    <3> HIDE DEF i, k
    <3>3. ring'[i] = a BY <1>2, <1>3, <1>5, <1>7
    <3>4. ran'[j] = a BY <2>1, <1>9
    <3>5. ring'[k] = ran'[j] BY <3>2, <3>3, <3>4
    <3> QED BY <3>5 DEF k
  <2>2. CASE j <= pos
    <3> DEFINE k == ((j - 1) % d) + 1
               y == j - 1
    <3>1. y \in Int /\ y < pos /\ pos < y + d /\ pos \in Int BY <2>2, <1>1, <1>2, <1>10
    <3>2. y % d # pos % d /\ y % d \in 0 .. d - 1
      <4> HIDE DEF y
      <4> QED BY <1>1, <3>1, ApartModulo, DivisionGives
    <3>3. k # i /\ k \in 1 .. d BY <3>2, <1>6, <1>1
    <3>4. ring[k] = ran[j] BY <2>2, <1>1, <1>2, <1>3, <1>10, SMTT(20)
    <3> HIDE DEF k, i
    <3>5. ring'[k] = ring[k] BY <1>2, <1>3, <1>5, <3>3
    <3>6. ran'[j] = ran[j] BY <1>9, <2>2
    <3> QED BY <3>4, <3>5, <3>6 DEF k
  <2>3. j = pos + 1 \/ j <= pos BY <1>2
  <2> HIDE DEF Placed, i
  <2> QED BY <2>1, <2>2, <2>3
<1>11. pos' = Len(ran') /\ \A j \in 1 .. pos' : j > pos' - d => Placed(j)
  <2> HIDE DEF Placed, i
  <2>1. pos' = Len(ran') BY <1>5, <1>9
  <2>2. \A j \in 1 .. pos + 1 : j > pos + 1 - d => Placed(j) BY <1>10
  <2>3. ASSUME NEW j \in 1 .. pos', j > pos' - d PROVE Placed(j)
    <3>1. j \in 1 .. pos + 1 /\ j > pos + 1 - d BY <1>1, <1>2, <1>5, <2>3
    <3> QED BY <2>2, <3>1
  <2> QED BY <2>1, <2>3
<1> QED BY <1>8, <1>11 DEF d

\* What a report lists are the last instructions.
LEMMA ListedLatest == ASSUME DebugInv, ReportBegins PROVE ListsLatest'
<1>1. UNCHANGED <<setting, ran>> /\ mode = "running" BY DEF ReportBegins
<1>2. ring \in Seq(Code \cup {0}) /\ ran \in Seq(Code) /\ pos \in Nat /\ Len(ran) \in Nat
  BY DEF DebugInv, DebugTypeOK, ToolTypes, RunTypes
<1>3. CASE ~RingWanted
  <2>1. ring = <<>> BY <1>3 DEF DebugInv, RingOK
  <2>2. listing' = <<>> BY <2>1 DEF ReportBegins
  <2> QED BY <1>1, <1>3, <2>2 DEF ListsLatest, RingWanted
<1>4. CASE RingWanted
  <2> DEFINE d == setting.depth
             n == Lesser(pos, Listed)
  <2>1. d \in Nat \ {0} BY <1>4, RingDepth DEF DebugInv
  <2>2. /\ Len(ring) = d /\ pos = Len(ran)
        /\ \A j \in 1 .. pos : j > pos - d => ring[((j - 1) % d) + 1] = ran[j]
    BY <1>1, <1>4 DEF DebugInv, RingOK
  <2> HIDE DEF d
  <2>3. ring # <<>> BY <2>1, <2>2, <1>2
  <2>4. n \in Nat /\ n <= pos /\ n = Lesser(Listed, Len(ran))
    BY <1>2, <2>2, LesserType, DebugAssumption DEF Lesser
  <2>5. listing' = [k \in 1 .. n |-> RingEntry(k - 1)]
    <3>1. CASE pos = 0
      <4>1. listing' = <<>> /\ n = 0 BY <3>1, <2>4 DEF ReportBegins
      <4> HIDE DEF n
      <4> QED BY <4>1
    <3>2. CASE pos # 0
      BY <3>2, <2>3 DEF ReportBegins
    <3> QED BY <3>1, <3>2
  <2> HIDE DEF n
  <2>6. ASSUME NEW k \in 1 .. n
        PROVE  RingEntry(k - 1) = ran[Len(ran) - ((k - 1) % d)]
    <3> DEFINE x == pos - 1
               h == k - 1
               r == (k - 1) % d
    <3>1. x \in Int /\ h \in Nat BY <1>2, <2>4
    <3>2. r \in 0 .. d - 1 /\ r <= h
      <4> HIDE DEF h
      <4>1. h % d \in 0 .. d - 1 /\ h = d * (h \div d) + (h % d) /\ h \div d \in Int
        BY <2>1, <3>1, DivisionGives
      <4>2. h \div d >= 0 BY <2>1, <3>1, <4>1
      <4>3. d * (h \div d) >= 0 BY <2>1, <4>1, <4>2
      <4>4. h % d <= h BY <4>1, <4>3, <3>1, <2>1
      <4> QED BY <4>1, <4>4 DEF h
    <3>3. (x - h) % d = (x - r) % d
      <4> HIDE DEF x, h
      <4>1. h \in Int BY <3>1
      <4>2. (x - h) % d = (x - (h % d)) % d BY <2>1, <3>1, <4>1, SamePlace
      <4> QED BY <4>2 DEF h
    <3>4. RingEntry(k - 1) = ring[((x - h) % d) + 1] BY <2>2 DEF RingEntry
    <3> DEFINE j == pos - r
    <3>5. j \in 1 .. pos /\ j > pos - d
      <4> HIDE DEF r
      <4> QED BY <1>2, <2>1, <2>4, <3>2
    <3>6. ring[((j - 1) % d) + 1] = ran[j]
      <4> HIDE DEF j
      <4> QED BY <2>2, <3>5
    <3>7. x - r = j - 1
      <4> HIDE DEF r
      <4> QED BY <3>2, <1>2, <2>1
    <3> QED BY <3>3, <3>4, <3>6, <3>7, <2>2
  <2>7. Len(listing') = n /\ \A k \in 1 .. n : listing'[k] = ran[Len(ran) - ((k - 1) % d)]
    BY <2>4, <2>5, <2>6
  <2> QED BY <1>1, <1>4, <2>4, <2>7 DEF ListsLatest, RingWanted, d
<1> QED BY <1>3, <1>4

LEMMA RingStep == DebugInv /\ [DebugNext]_debugVars => RingOK'
<1> SUFFICES ASSUME DebugInv, [DebugNext]_debugVars PROVE RingOK' OBVIOUS
<1>1. UNCHANGED setting
  BY DEF DebugNext, Load, Shutdown, Execute, Call, Prologue, Return, LoseStack, ReportBegins, WalkFrame,
         WalkStops, debugVars
<1>2. RingWanted' = RingWanted BY <1>1 DEF RingWanted
<1>3. CASE Load
  <2>1. ran = <<>> /\ ran' = <<>> /\ mode' = "running" BY <1>3 DEF Load, DebugInv, RingOK
  <2>2. CASE RingWanted
    <3>1. ring' = [k \in 1 .. setting.depth |-> 0] /\ pos' = 0 BY <1>3, <2>2 DEF Load, LoadRing
    <3>2. setting.depth \in Nat BY LimitType DEF DebugInv
    <3>3. Len(ring') = setting.depth BY <3>1, <3>2
    <3>4. Len(ran') = 0 BY <2>1
    <3>5. 1 .. pos' = {} BY <3>1
    <3>6. RingWanted' => Len(ring') = setting'.depth /\ pos' = Len(ran') BY <3>1, <3>3, <3>4, <1>1
    <3>7. ListsLatest' BY <2>1 DEF ListsLatest
    <3> QED BY <2>1, <2>2, <3>5, <3>6, <3>7, <1>2 DEF RingOK
  <2>3. CASE ~RingWanted
    <3>1. ring' = <<>> BY <1>3, <2>3 DEF Load, LoadRing, DebugInv, RingOK
    <3> QED BY <2>1, <2>3, <3>1, <1>2 DEF RingOK, ListsLatest
  <2> QED BY <2>2, <2>3
<1>4. CASE Shutdown
  BY <1>4 DEF Shutdown, RingOK, ListsLatest
<1>5. CASE \E a \in Code : Execute(a)
  <2>1. PICK a \in Code : Execute(a) BY <1>5
  <2>2. mode = "running" /\ mode' = "running" /\ RingTakes(a) /\ ran' = Append(ran, a)
    BY <2>1 DEF Execute, Runs
  <2>3. CASE RingWanted
    <3>1. /\ Len(ring') = setting.depth /\ pos' = Len(ran')
          /\ \A j \in 1 .. pos' : j > pos' - setting.depth =>
               ring'[((j - 1) % setting.depth) + 1] = ran'[j]
      BY <2>2, <2>3, RingTaken
    <3> QED BY <2>2, <2>3, <3>1, <1>1, <1>2 DEF RingOK, ListsLatest
  <2>4. CASE ~RingWanted
    <3>1. ring' = <<>> BY <2>2, <2>4 DEF RingTakes, DebugInv, RingOK
    <3> QED BY <2>2, <2>4, <3>1, <1>2 DEF RingOK, ListsLatest
  <2> QED BY <2>3, <2>4
<1>6. CASE ReportBegins
  <2>1. UNCHANGED <<ring, pos, ran>> /\ mode # "closed" /\ mode' # "closed" BY <1>6 DEF ReportBegins
  <2>2. ListsLatest' BY <1>6, ListedLatest
  <2> QED BY <1>1, <1>2, <2>1, <2>2 DEF RingOK, DebugInv
<1>7. CASE WalkFrame \/ WalkStops
  <2>1. UNCHANGED <<ring, pos, ran, listing>> /\ mode = "report" /\ mode' \in {"report", "reported"}
    BY <1>7 DEF WalkFrame, WalkStops
  <2> QED BY <1>1, <1>2, <2>1 DEF RingOK, DebugInv, ListsLatest
<1>8. CASE Call \/ Prologue \/ Return \/ LoseStack \/ UNCHANGED debugVars
  <2>1. UNCHANGED <<mode, ring, pos, ran, listing>>
    BY <1>8 DEF Call, Prologue, Return, LoseStack, debugVars, tools
  <2> QED BY <1>1, <1>2, <2>1 DEF RingOK, DebugInv, ListsLatest
<1> QED BY <1>3, <1>4, <1>5, <1>6, <1>7, <1>8 DEF DebugNext

-----------------------------------------------------------------------------
\* How many activations have frames, and what the stack is while it is whole.
LEMMA DeepType ==
  ASSUME DebugInv
  PROVE  /\ Deep \in Nat \ {0} /\ Len(acts) \in Nat \ {0} /\ Deep = (IF Top.framed THEN Len(acts) ELSE Len(acts) - 1)
         /\ \A k \in 2 .. Deep : acts[k].ret >= 1
BY DEF DebugInv, DebugTypeOK, StackTypes, ActsOK, Deep, Top, Start

LEMMA StackFacts ==
  ASSUME DebugInv
  PROVE  /\ r1 \in Nat /\ back \in [Slots -> Slots] /\ saved \in [Slots -> 0 .. MaxCalls]
         /\ StackTop \in Slots /\ Slots \subseteq Nat
         /\ trace \in Seq(1 .. MaxCalls) /\ frame \in 0 .. MaxFrames /\ fp \in Nat
<1>1. r1 \in Nat /\ back \in [Slots -> Slots] /\ saved \in [Slots -> 0 .. MaxCalls]
  BY DEF DebugInv, DebugTypeOK, StackTypes
<1>2. trace \in Seq(1 .. MaxCalls) /\ frame \in 0 .. MaxFrames /\ fp \in Nat
  BY DEF DebugInv, DebugTypeOK, ReportTypes
<1>3. StackTop \in Nat BY DebugAssumption
<1>4. StackTop \in Slots /\ Slots \subseteq Nat BY <1>3 DEF Slots
<1> QED BY <1>1, <1>2, <1>4

\* A step of a guest that leaves the frames as they were.
LEMMA SameFrames ==
  ASSUME DebugInv, StackOK, UNCHANGED <<whole, back, saved, r1, trace, frame, fp, mode>>, whole,
         Deep' = Deep, \A k \in 2 .. Deep : acts'[k] = acts[k]
  PROVE  StackOK'
<1>1. PICK fr : Chain(fr) /\ Walked(fr) BY DEF StackOK
<1>2. Chain(fr)' BY <1>1 DEF Chain
<1>3. Walked(fr)' BY <1>1 DEF Walked, Small
<1> QED BY <1>2, <1>3 DEF StackOK

\* The prologue puts a frame below the last.
LEMMA PrologueStack == DebugInv /\ Prologue => StackOK'
<1> SUFFICES ASSUME DebugInv, Prologue PROVE StackOK' OBVIOUS
<1>1. whole /\ ~Top.framed /\ mode = "running" BY DEF Prologue, Runs
<1>2. PICK fr : Chain(fr) /\ Walked(fr) BY <1>1 DEF DebugInv, StackOK
<1> DEFINE n == Deep
           m == n + 1
<1>3. n \in Nat \ {0} /\ Len(acts) = m BY <1>1, DeepType
<1>4. PICK size \in FrameSizes :
        /\ r1 - size >= 0
        /\ saved' = [saved EXCEPT ![r1] = lr, ![r1 - size] = 0]
        /\ back' = [back EXCEPT ![r1 - size] = r1]
        /\ r1' = r1 - size
  BY DEF Prologue
<1>5. /\ fr \in [1 .. n -> Slots] /\ fr[1] = StackTop /\ fr[n] = r1
      /\ \A k \in 1 .. n : fr[k] % 4 = 0
      /\ \A j, k \in 1 .. n : j < k => fr[k] < fr[j]
      /\ \A k \in 2 .. n : back[fr[k]] = fr[k - 1] /\ saved[fr[k - 1]] = acts[k].ret
  BY <1>2 DEF Chain
<1> DEFINE new == r1 - size
<1>6. r1 \in Slots /\ new \in Slots /\ new \in Nat /\ new < r1 /\ new % 4 = 0
  <2>1. r1 \in Slots BY <1>3, <1>5
  <2>2. size \in Nat \ {0} /\ size % 4 = 0 BY DebugAssumption
  <2>3. r1 % 4 = 0 BY <1>3, <1>5
  <2>4. r1 \in Nat /\ r1 <= StackTop /\ StackTop \in Nat BY <2>1, DebugAssumption DEF Slots
  <2> QED BY <1>4, <2>1, <2>2, <2>3, <2>4 DEF Slots
<1>7. acts' = [acts EXCEPT ![m] = [Top EXCEPT !.framed = TRUE]] /\ Top = acts[m]
  BY <1>3 DEF Prologue, OnTop, Top
<1>8. lr = acts[m].ret BY <1>1, <1>7 DEF DebugInv, ActsOK
<1> DEFINE R == [ret : 0 .. MaxCalls, framed : BOOLEAN]
<1>9. acts \in Seq(R) BY DEF DebugInv, DebugTypeOK, StackTypes
<1>10. /\ Len(acts') = m /\ acts'[m].framed /\ acts'[m].ret = acts[m].ret
       /\ \A k \in 1 .. n : acts'[k] = acts[k]
  <2> DEFINE e == [Top EXCEPT !.framed = TRUE]
  <2>1. m \in 1 .. Len(acts) BY <1>3
  <2>2. acts[m] \in R
    <3> HIDE DEF R, m
    <3> QED BY <1>9, <2>1
  <2>3. e.framed /\ e.ret = acts[m].ret BY <1>7, <2>2
  <2> HIDE DEF R, e
  <2>4. acts' = [acts EXCEPT ![m] = e] BY <1>7 DEF e
  <2> QED BY <1>3, <1>9, <2>1, <2>3, <2>4
<1>11. Deep' = m BY <1>3, <1>10 DEF Deep, Top
<1>12. PICK longer \in [1 .. m -> Slots] :
         /\ longer[m] = new
         /\ \A k \in 1 .. n : longer[k] = fr[k] /\ fr[k] \in Nat /\ fr[k] \in Slots /\ fr[k] >= r1
  <2> DEFINE h == [k \in 1 .. m |-> IF k = m THEN new ELSE fr[k]]
  <2>1. \A k \in 1 .. n : fr[k] \in Slots /\ fr[k] \in Nat BY <1>5, StackFacts
  <2>2. \A k \in 1 .. n : fr[k] >= r1 BY <1>3, <1>5, <2>1
  <2>3. m \in 1 .. m /\ \A k \in 1 .. n : k \in 1 .. m /\ k # m BY <1>3
  <2>4. \A k \in 1 .. m : k = m \/ k \in 1 .. n BY <1>3
  <2> HIDE DEF new, m, n
  <2>5. h \in [1 .. m -> Slots] /\ h[m] = new /\ \A k \in 1 .. n : h[k] = fr[k]
    BY <1>6, <2>1, <2>3, <2>4
  <2> HIDE DEF h
  <2> QED BY <2>1, <2>2, <2>5
<1>13. back'[new] = r1 /\ back'[StackTop] = 0 /\ saved'[r1] = lr
       /\ \A s \in Slots : s # new => back'[s] = back[s] /\ (s # r1 => saved'[s] = saved[s])
  <2>1. StackTop # new /\ StackTop \in Slots BY <1>3, <1>5, <1>6, <1>12, StackFacts
  <2>2. back[StackTop] = 0 BY <1>1 DEF DebugInv, StackOK
  <2>3. r1 # new BY <1>6, StackFacts
  <2> HIDE DEF new
  <2>4. saved' = [saved EXCEPT ![r1] = lr, ![new] = 0] /\ back' = [back EXCEPT ![new] = r1]
    BY <1>4 DEF new
  <2> QED BY <1>6, <2>1, <2>2, <2>3, <2>4, StackFacts
<1>14. \A k \in 1 .. n : new < fr[k] /\ fr[k] # new /\ longer[k] = fr[k] /\ fr[k] \in Slots
  <2> SUFFICES ASSUME NEW k \in 1 .. n PROVE new < fr[k] /\ fr[k] # new BY <1>12
  <2>1. fr[k] \in Nat /\ fr[k] >= r1 BY <1>12
  <2>2. new \in Nat /\ new < r1 /\ r1 \in Nat BY <1>6, StackFacts
  <2> HIDE DEF new
  <2> QED BY <2>1, <2>2
<1>15. Chain(longer)'
  <2> HIDE DEF new
  <2>1. longer[1] = StackTop /\ longer[m] = r1'
    <3>1. 1 \in 1 .. n BY <1>3
    <3> QED BY <3>1, <1>4, <1>5, <1>12 DEF new
  <2>2. \A k \in 1 .. m : k = m \/ k \in 1 .. n BY <1>3
  <2>3. \A k \in 1 .. m : longer[k] % 4 = 0 BY <2>2, <1>5, <1>6, <1>12
  <2>4. \A j, k \in 1 .. m : j < k => longer[k] < longer[j]
    <3> SUFFICES ASSUME NEW j \in 1 .. m, NEW k \in 1 .. m, j < k PROVE longer[k] < longer[j] OBVIOUS
    <3>1. j \in 1 .. n BY <1>3
    <3>2. CASE k = m BY <3>1, <3>2, <1>12, <1>14
    <3>3. CASE k \in 1 .. n BY <3>1, <3>3, <1>5, <1>14
    <3> QED BY <3>2, <3>3, <2>2
  <2>5. ASSUME NEW k \in 2 .. m
        PROVE  back'[longer[k]] = longer[k - 1] /\ saved'[longer[k - 1]] = acts'[k].ret
    <3>1. k - 1 \in 1 .. n BY <1>3
    <3>2. longer[k - 1] = fr[k - 1] /\ fr[k - 1] \in Slots /\ fr[k - 1] # new BY <3>1, <1>14
    <3>3. CASE k = m
      <4>1. k - 1 = n BY <3>3, <1>3
      <4>2. fr[k - 1] = r1 BY <4>1, <1>5
      <4> HIDE DEF n, m
      <4> QED BY <3>2, <3>3, <4>2, <1>8, <1>10, <1>12, <1>13
    <3>4. CASE k \in 2 .. n
      <4>1. k \in 1 .. n /\ n \in 1 .. n /\ k - 1 < n BY <3>4, <1>3
      <4>2. fr[n] < fr[k - 1] /\ fr[n] = r1 /\ fr[k - 1] \in Nat BY <3>1, <4>1, <1>5, <1>12
      <4>3. fr[k - 1] # r1 BY <4>2, StackFacts
      <4>4. longer[k] = fr[k] /\ fr[k] \in Slots /\ fr[k] # new BY <4>1, <1>14
      <4>5. back[fr[k]] = fr[k - 1] /\ saved[fr[k - 1]] = acts[k].ret BY <3>4, <1>5
      <4>6. acts'[k] = acts[k] BY <4>1, <1>10
      <4>7. back'[fr[k]] = back[fr[k]] /\ saved'[fr[k - 1]] = saved[fr[k - 1]]
        BY <3>2, <4>3, <4>4, <1>13
      <4> HIDE DEF n, m
      <4> QED BY <3>2, <4>4, <4>5, <4>6, <4>7
    <3>5. k = m \/ k \in 2 .. n BY <1>3
    <3> QED BY <3>3, <3>4, <3>5
  <2> HIDE DEF m
  <2> QED BY <1>11, <1>12, <2>1, <2>3, <2>4, <2>5 DEF Chain
<1>16. Walked(longer)'
  <2>1. trace = <<>> BY <1>1, <1>2 DEF Walked
  <2>2. mode' = "running" /\ trace' = <<>> BY <1>1, <2>1 DEF Prologue, tools
  <2> QED BY <1>3, <1>11, <2>2 DEF Walked
<1> QED BY <1>13, <1>15, <1>16 DEF StackOK

\* A return gives the last frame up.
LEMMA ReturnStack == DebugInv /\ Return => StackOK'
<1> SUFFICES ASSUME DebugInv, Return PROVE StackOK' OBVIOUS
<1> DEFINE n == Deep
           l == Len(acts) - 1
<1>1. whole /\ mode = "running" /\ l >= 1 /\ n \in Nat \ {0} /\ l \in Nat
  BY DeepType DEF Return, Runs
<1> DEFINE R == [ret : 0 .. MaxCalls, framed : BOOLEAN]
<1>2. acts \in Seq(R) BY DEF DebugInv, DebugTypeOK, StackTypes
<1>3. Len(acts') = l /\ \A k \in 1 .. l : acts'[k] = acts[k]
  <2>1. acts' = SubSeq(acts, 1, l) BY DEF Return
  <2> HIDE DEF R
  <2> QED BY <1>1, <1>2, <2>1
<1>4. Deep' = l BY <1>1, <1>3 DEF DebugInv, ActsOK, Deep, Top
<1>5. UNCHANGED <<whole, back, saved, trace, frame, fp, mode>> BY DEF Return, tools
<1>6. CASE ~Top.framed
  <2>1. n = l BY <1>6, <1>1, DeepType
  <2>2. r1' = r1 BY <1>6 DEF Return
  <2> QED BY <2>1, <2>2, <1>1, <1>3, <1>4, <1>5, SameFrames DEF DebugInv
<1>7. CASE Top.framed
  <2>1. n = l + 1 BY <1>7, <1>1, DeepType
  <2>2. PICK fr : Chain(fr) /\ Walked(fr) BY <1>1 DEF DebugInv, StackOK
  <2>3. /\ fr \in [1 .. n -> Slots] /\ fr[1] = StackTop /\ fr[n] = r1
        /\ \A k \in 1 .. n : fr[k] % 4 = 0
        /\ \A j, k \in 1 .. n : j < k => fr[k] < fr[j]
        /\ \A k \in 2 .. n : back[fr[k]] = fr[k - 1] /\ saved[fr[k - 1]] = acts[k].ret
    BY <2>2 DEF Chain
  <2>4. r1' = fr[l] BY <1>7, <1>1, <2>1, <2>3 DEF Return
  <2>5. PICK less \in [1 .. l -> Slots] : \A k \in 1 .. l : less[k] = fr[k]
    <3> DEFINE h == [k \in 1 .. l |-> fr[k]]
    <3>1. h \in [1 .. l -> Slots] /\ \A k \in 1 .. l : h[k] = fr[k] BY <1>1, <2>1, <2>3
    <3> HIDE DEF h
    <3> QED BY <3>1
  <2>6. Chain(less)'
    <3>1. less[1] = StackTop /\ less[l] = r1' BY <1>1, <2>3, <2>4, <2>5
    <3>2. \A k \in 1 .. l : less[k] % 4 = 0 BY <2>1, <2>3, <2>5, <1>1
    <3>3. \A j, k \in 1 .. l : j < k => less[k] < less[j] BY <2>1, <2>3, <2>5, <1>1
    <3>4. ASSUME NEW k \in 2 .. l
          PROVE  back'[less[k]] = less[k - 1] /\ saved'[less[k - 1]] = acts'[k].ret
      <4>1. k \in 2 .. n /\ k \in 1 .. l /\ k - 1 \in 1 .. l BY <1>1, <2>1
      <4> HIDE DEF l, n
      <4> QED BY <4>1, <1>3, <1>5, <2>3, <2>5
    <3> QED BY <1>4, <2>5, <3>1, <3>2, <3>3, <3>4 DEF Chain
  <2>7. Walked(less)'
    <3>1. trace' = <<>> /\ mode' = "running" BY <1>1, <1>5, <2>2 DEF Walked
    <3> QED BY <1>1, <1>4, <3>1 DEF Walked
  <2> QED BY <1>1, <1>5, <2>6, <2>7 DEF StackOK, DebugInv
<1> QED BY <1>6, <1>7

\* The slots a backtrace reads, from the innermost frame out.
LEMMA ChainFacts ==
  ASSUME DebugInv, NEW fr, Chain(fr), back[StackTop] = 0, NEW i \in 1 .. Deep
  PROVE  /\ fr[i] \in Slots /\ fr[i] \in Nat /\ Readable(fr[i])
         /\ i = 1 => ~(back[fr[i]] > fr[i])
         /\ i > 1 => back[fr[i]] = fr[i - 1] /\ fr[i - 1] > fr[i] /\ fr[i - 1] % 4 = 0
         /\ i < Deep => saved[fr[i]] = acts[i + 1].ret /\ saved[fr[i]] # 0
<1>1. Deep \in Nat \ {0} /\ \A k \in 2 .. Deep : acts[k].ret >= 1 BY DeepType
<1>2. /\ fr \in [1 .. Deep -> Slots] /\ fr[1] = StackTop
      /\ \A k \in 1 .. Deep : fr[k] % 4 = 0
      /\ \A j, k \in 1 .. Deep : j < k => fr[k] < fr[j]
      /\ \A k \in 2 .. Deep : back[fr[k]] = fr[k - 1] /\ saved[fr[k - 1]] = acts[k].ret
  BY DEF Chain
<1> HIDE DEF Deep
<1>3. fr[i] \in Slots /\ fr[i] \in Nat BY <1>2, StackFacts
<1>4. Readable(fr[i]) BY <1>2, <1>3 DEF Readable
<1>5. i = 1 => ~(back[fr[i]] > fr[i]) BY <1>2, <1>3
<1>6. ASSUME i > 1
      PROVE  back[fr[i]] = fr[i - 1] /\ fr[i - 1] > fr[i] /\ fr[i - 1] % 4 = 0
  <2>1. i \in 2 .. Deep /\ i - 1 \in 1 .. Deep /\ i - 1 < i BY <1>1, <1>6
  <2> QED BY <2>1, <1>2
<1>7. ASSUME i < Deep
      PROVE  saved[fr[i]] = acts[i + 1].ret /\ saved[fr[i]] # 0
  <2>1. i + 1 \in 2 .. Deep /\ (i + 1) - 1 = i BY <1>1, <1>7
  <2> QED BY <2>1, <1>1, <1>2
<1> QED BY <1>3, <1>4, <1>5, <1>6, <1>7

LEMMA WalkStack == DebugInv /\ (WalkFrame \/ WalkStops) => StackOK'
<1> SUFFICES ASSUME DebugInv, WalkFrame \/ WalkStops, whole PROVE StackOK'
  BY DEF StackOK, WalkFrame, WalkStops, stack
<1>1. PICK fr : Chain(fr) /\ Walked(fr) BY DEF DebugInv, StackOK
<1>2. back[StackTop] = 0 BY DEF DebugInv, StackOK
<1>3. UNCHANGED stack /\ mode = "report" /\ Deep' = Deep /\ Small' = Small
  BY DEF WalkFrame, WalkStops, stack, Deep, Top, Small
<1>4. Chain(fr)' BY <1>1, <1>3 DEF Chain, stack
<1> DEFINE i == Deep - frame
<1>5. /\ frame = Len(trace) /\ frame < Deep /\ fp = fr[i]
      /\ \A k \in 1 .. Len(trace) : trace[k] = saved[fr[Deep + 1 - k]]
  BY <1>1, <1>3 DEF Walked
<1>6. i \in 1 .. Deep /\ Deep \in Nat /\ frame \in Nat /\ frame <= MaxFrames /\ MaxFrames \in Nat
  <2>1. Deep \in Nat \ {0} BY DeepType
  <2>2. frame \in Nat /\ frame <= MaxFrames /\ MaxFrames \in Nat BY StackFacts, DebugAssumption
  <2> HIDE DEF Deep
  <2> QED BY <1>5, <2>1, <2>2
<1>7. /\ fp \in Slots /\ fp \in Nat /\ Readable(fp)
      /\ i = 1 => ~(back[fp] > fp)
      /\ i > 1 => back[fp] = fr[i - 1] /\ fr[i - 1] > fp /\ fr[i - 1] % 4 = 0
      /\ i < Deep => saved[fp] # 0
  <2> HIDE DEF i
  <2> QED BY <1>1, <1>2, <1>5, <1>6, ChainFacts
<1>8. CASE WalkFrame
  <2>1. trace' = Append(trace, saved[fp]) BY <1>8 DEF WalkFrame, SavedAt
  <2>2. Len(trace') = frame + 1 /\ \A k \in 1 .. frame : trace'[k] = trace[k]
    BY <2>1, <1>5, StackFacts
  <2>3. trace'[frame + 1] = saved[fp] BY <2>1, <1>5, StackFacts
  <2>4. ASSUME NEW k \in 1 .. Len(trace') PROVE trace'[k] = saved[fr[Deep + 1 - k]]
    <3>1. CASE k = frame + 1
      <4>1. Deep + 1 - k = i BY <3>1, <1>6
      <4> HIDE DEF i
      <4> QED BY <3>1, <4>1, <2>3, <1>5
    <3>2. CASE k \in 1 .. frame BY <3>2, <2>2, <1>5
    <3> QED BY <3>1, <3>2, <2>2, <1>6
  <2>5. CASE Onward
    <3>1. fp' = back[fp] /\ frame' = frame + 1 /\ mode' = "report" BY <1>3, <1>8, <2>5 DEF WalkFrame
    <3>2. i > 1 BY <1>6, <1>7, <2>5 DEF Onward
    <3>3. frame' < Deep /\ Deep - frame' = i - 1 BY <3>1, <3>2, <1>6
    <3>4. fp' = fr[Deep - frame'] BY <3>1, <3>2, <3>3, <1>7
    <3>5. Walked(fr)'
      <4>1. frame' = Len(trace') /\ Len(trace') <= Deep BY <3>1, <3>3, <2>2, <1>6
      <4> HIDE DEF i
      <4> QED BY <1>3, <2>4, <3>1, <3>3, <3>4, <4>1 DEF Walked, stack
    <3> QED BY <1>2, <1>3, <1>4, <3>5 DEF StackOK, stack
  <2>6. CASE ~Onward
    <3>1. mode' = "reported" /\ frame < MaxFrames BY <1>8, <2>6 DEF WalkFrame, FrameFound
    <3>2. ASSUME Small PROVE i = 1
      <4> SUFFICES ASSUME i > 1 PROVE FALSE BY <1>6
      <4>1. back[fp] > fp /\ back[fp] % 4 = 0 BY <1>7
      <4>2. back[fp] - fp <= MaxJump BY <3>2, <4>1, <1>7 DEF Small
      <4> QED BY <4>1, <4>2, <2>6 DEF Onward
    <3>3. Small => Len(trace') = Lesser(MaxFrames, Deep)
      <4>1. Small => Deep = frame + 1 BY <3>2, <1>6
      <4> QED BY <4>1, <3>1, <2>2, <1>6 DEF Lesser
    <3>4. Len(trace') <= Deep BY <2>2, <1>5, <1>6
    <3>5. Walked(fr)' BY <1>3, <2>4, <3>1, <3>3, <3>4 DEF Walked, stack
    <3> QED BY <1>2, <1>3, <1>4, <3>5 DEF StackOK, stack
  <2> QED BY <2>5, <2>6
<1>9. CASE WalkStops
  <2>1. mode' = "reported" /\ trace' = trace /\ ~FrameFound BY <1>9 DEF WalkStops
  <2>2. frame >= 1 => frame = MaxFrames
    <3> SUFFICES ASSUME frame >= 1, frame < MaxFrames PROVE FALSE BY <1>6
    <3>1. i < Deep BY <1>6
    <3> QED BY <3>1, <2>1, <1>7 DEF FrameFound, SavedAt
  <2>3. trace # <<>> => Len(trace) = Lesser(MaxFrames, Deep)
    <3>1. trace # <<>> => frame >= 1 BY <1>5, StackFacts
    <3> QED BY <3>1, <2>2, <1>5, <1>6 DEF Lesser
  <2>4. Len(trace) <= Deep BY <1>5, <1>6
  <2>5. Walked(fr)' BY <1>3, <1>5, <2>1, <2>3, <2>4 DEF Walked, stack
  <2> QED BY <1>2, <1>3, <1>4, <2>5 DEF StackOK, stack
<1> QED BY <1>8, <1>9

LEMMA StackStep == DebugInv /\ [DebugNext]_debugVars => StackOK'
<1> SUFFICES ASSUME DebugInv, [DebugNext]_debugVars PROVE StackOK' OBVIOUS
<1>1. CASE Load \/ (\E a \in Code : Execute(a)) \/ UNCHANGED debugVars
  <2>1. UNCHANGED <<stack, trace, frame, fp>> /\ (mode' = mode \/ (mode = "closed" /\ mode' = "running"))
    BY <1>1 DEF Load, Execute, debugVars, tools
  <2>2. ASSUME whole PROVE StackOK'
    <3>1. PICK fr : Chain(fr) /\ Walked(fr) BY <2>2 DEF DebugInv, StackOK
    <3>2. UNCHANGED Deep BY <2>1 DEF stack, Deep, Top
    <3>3. Chain(fr)' BY <2>1, <3>1, <3>2 DEF Chain, stack
    <3>4. Walked(fr)' BY <2>1, <3>1, <3>2 DEF Walked, Small, stack
    <3> QED BY <2>1, <2>2, <3>3, <3>4 DEF DebugInv, StackOK, stack
  <2> QED BY <2>1, <2>2 DEF StackOK, stack
<1>2. CASE Shutdown
  <2>1. /\ mode' = "closed" /\ trace' = <<>> /\ r1' = StackTop /\ acts' = <<Start>>
        /\ back' = [s \in Slots |-> 0]
    BY <1>2 DEF Shutdown
  <2>2. Deep' = 1 BY <2>1 DEF Deep, Top, Start
  <2>3. PICK fr \in [1 .. 1 -> Slots] : fr[1] = StackTop
    <3> DEFINE h == [k \in 1 .. 1 |-> StackTop]
    <3>1. h \in [1 .. 1 -> Slots] /\ h[1] = StackTop BY StackFacts
    <3> QED BY <3>1
  <2>4. Chain(fr)'
    <3>1. StackTop % 4 = 0 BY DebugAssumption
    <3>2. \A k \in 1 .. 1 : k = 1 OBVIOUS
    <3>3. 2 .. 1 = {} OBVIOUS
    <3> QED BY <2>1, <2>2, <2>3, <3>1, <3>2, <3>3 DEF Chain
  <2>5. Walked(fr)' BY <2>1, <2>2 DEF Walked
  <2>6. back'[StackTop] = 0 BY <2>1, StackFacts
  <2> QED BY <2>4, <2>5, <2>6 DEF StackOK
<1>3. CASE Call
  <2>1. UNCHANGED <<whole, back, saved, r1, trace, frame, fp, mode>> /\ whole BY <1>3 DEF Call, tools, Runs
  <2> DEFINE R == [ret : 0 .. MaxCalls, framed : BOOLEAN]
             e == [ret |-> calls + 1, framed |-> FALSE]
             n == Len(acts)
  <2>2. acts \in Seq(R) /\ acts' = Append(acts, e) /\ ~e.framed
    BY <1>3 DEF Call, DebugInv, DebugTypeOK, StackTypes
  <2> HIDE DEF R, e
  <2>3. Len(acts') = n + 1 /\ acts'[n + 1] = e /\ \A k \in 1 .. n : acts'[k] = acts[k] /\ n \in Nat
    BY <2>2
  <2>4. Deep = n /\ n \in Nat \ {0} BY <1>3, DeepType DEF Call
  <2>5. Deep' = n BY <2>2, <2>3, <2>4 DEF Deep, Top
  <2>6. \A k \in 2 .. Deep : acts'[k] = acts[k] BY <2>3, <2>4
  <2> QED BY <2>1, <2>4, <2>5, <2>6, SameFrames DEF DebugInv
<1>4. CASE LoseStack
  BY <1>4 DEF LoseStack, StackOK
<1>5. CASE ReportBegins
  <2>1. UNCHANGED stack /\ mode' = "report" /\ trace' = <<>> /\ fp' = r1 /\ frame' = 0
    BY <1>5 DEF ReportBegins
  <2>2. ASSUME whole PROVE StackOK'
    <3>1. PICK fr : Chain(fr) /\ Walked(fr) BY <2>2 DEF DebugInv, StackOK
    <3>2. UNCHANGED Deep BY <2>1 DEF stack, Deep, Top
    <3>3. Chain(fr)' BY <2>1, <3>1, <3>2 DEF Chain, stack
    <3>4. fr[Deep] = r1 /\ Deep \in Nat \ {0} /\ Deep - 0 = Deep BY <3>1, DeepType DEF Chain
    <3>5. Walked(fr)' BY <2>1, <3>2, <3>4 DEF Walked
    <3> QED BY <2>1, <2>2, <3>3, <3>5 DEF DebugInv, StackOK, stack
  <2> QED BY <2>1, <2>2 DEF StackOK, stack
<1> QED BY <1>1, <1>2, <1>3, <1>4, <1>5, PrologueStack, ReturnStack, WalkStack DEF DebugNext

-----------------------------------------------------------------------------
LEMMA DebugInvInit == DebugInit => DebugInv
<1> SUFFICES ASSUME DebugInit PROVE DebugInv OBVIOUS
<1>1. DebugTypeOK BY DebugTypeInit
<1>2. ActsOK BY DEF DebugInit, ActsOK, Start, Top
<1>3. StackOK
  <2>1. Deep = 1 BY DEF DebugInit, Deep, Top, Start
  <2>2. StackTop \in Slots BY DebugAssumption DEF Slots
  <2>3. PICK fr \in [1 .. 1 -> Slots] : fr[1] = StackTop
    <3> DEFINE h == [k \in 1 .. 1 |-> StackTop]
    <3>1. h \in [1 .. 1 -> Slots] /\ h[1] = StackTop BY <2>2
    <3> QED BY <3>1
  <2>4. Chain(fr)
    <3>1. StackTop % 4 = 0 BY DebugAssumption
    <3>2. \A k \in 1 .. 1 : k = 1 OBVIOUS
    <3>3. 2 .. 1 = {} OBVIOUS
    <3> QED BY <2>1, <2>3, <3>1, <3>2, <3>3 DEF Chain, DebugInit
  <2>5. Walked(fr) BY <2>1 DEF Walked, DebugInit
  <2>6. back[StackTop] = 0 BY <2>2 DEF DebugInit
  <2> QED BY <2>4, <2>5, <2>6 DEF StackOK
<1>4. BreaksOK BY DEF DebugInit, BreaksOK
<1>5. RingOK BY DEF DebugInit, RingOK, ListsLatest
<1> QED BY <1>1, <1>2, <1>3, <1>4, <1>5 DEF DebugInv

LEMMA AlwaysDebugInv == DebugSpec => []DebugInv
<1>1. DebugInv /\ [DebugNext]_debugVars => DebugInv'
  BY DebugTypeStep, ActsStep, StackStep, BreaksStep, RingStep DEF DebugInv
<1> QED BY <1>1, DebugInvInit, PTL DEF DebugSpec

\* A report lists the last instructions of this run, newest first, for rings of any depth
\* over any number of runs (debug.c 155-165, 459-469).
THEOREM ReportsListLatest == DebugSpec => []ListsLatest
BY AlwaysDebugInv, PTL DEF DebugInv, RingOK

\* A breakpoint prints the first hits of its address up to the limit, whatever else is
\* listed and however often (debug.c 192-224).
THEOREM BreakpointsCount == DebugSpec => []CountsSound
<1>1. DebugInv => CountsSound
  <2> SUFFICES ASSUME DebugInv PROVE HitsLimited BY DEF DebugInv, CountsSound
  <2> QED BY DEF DebugInv, BreaksOK, HitsLimited, Places
<1> QED BY <1>1, AlwaysDebugInv, PTL

\* A backtrace of a stack of any depth goes up the callers in their order and skips none
\* (debug.c 432-458).
THEOREM BacktraceTracesCallers == DebugSpec => []TracesCallers
<1>1. DebugInv => TracesCallers
  <2> SUFFICES ASSUME DebugInv, whole PROVE TracesCallers BY DEF TracesCallers
  <2>1. PICK fr : Chain(fr) /\ Walked(fr) BY DEF DebugInv, StackOK
  <2>2. back[StackTop] = 0 BY DEF DebugInv, StackOK
  <2> DEFINE n == Deep
             R == [ret : 0 .. MaxCalls, framed : BOOLEAN]
  <2>3. n \in Nat \ {0} /\ n <= Len(acts) /\ Framed = SubSeq(acts, 1, n)
    BY DeepType DEF Framed, Deep
  <2>4. acts \in Seq(R) BY DEF DebugInv, DebugTypeOK, StackTypes
  <2>5. Len(Framed) = n /\ \A k \in 1 .. n : Framed[k] = acts[k]
    <3> HIDE DEF R, n
    <3> QED BY <2>3, <2>4
  <2>6. Len(Callers) = n - 1 /\ \A k \in 1 .. n - 1 : Callers[k] = acts[n + 1 - k].ret
    <3>1. Callers = [k \in 1 .. n - 1 |-> Framed[n + 1 - k].ret] BY <2>5 DEF Callers
    <3>2. \A k \in 1 .. n - 1 : n + 1 - k \in 1 .. n BY <2>3
    <3> HIDE DEF n
    <3> QED BY <2>3, <2>5, <3>1, <3>2
  <2>7. Len(trace) \in Nat /\ Len(trace) <= n BY <2>1, StackFacts DEF Walked
  <2>8. ASSUME NEW k \in 2 .. Len(trace) PROVE k - 1 <= Len(Callers) /\ trace[k] = Callers[k - 1]
    <3> DEFINE i == n + 1 - k
    <3>1. i \in 1 .. n /\ i < n /\ k - 1 \in 1 .. n - 1 /\ n + 1 - (k - 1) = i + 1 BY <2>3, <2>7
    <3>2. trace[k] = saved[fr[i]] BY <2>1, <2>7 DEF Walked
    <3> HIDE DEF i
    <3>3. saved[fr[i]] = acts[i + 1].ret BY <2>1, <2>2, <3>1, ChainFacts
    <3> QED BY <2>6, <3>1, <3>2, <3>3
  <2>9. mode = "reported" /\ trace # <<>> /\ (\A s \in Slots : back[s] > s => back[s] - s <= MaxJump)
          => Len(trace) = Lesser(MaxFrames, Len(Callers) + 1)
    <3>1. Len(Callers) + 1 = n BY <2>3, <2>6
    <3> QED BY <3>1, <2>1 DEF Walked, Small
  <2> QED BY <2>8, <2>9 DEF TracesCallers
<1> QED BY <1>1, AlwaysDebugInv, PTL
=============================================================================
