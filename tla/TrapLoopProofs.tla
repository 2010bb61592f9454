--------------------------- MODULE TrapLoopProofs ---------------------------
(***************************************************************************)
(* Theorems about TrapLoop: the types of its variables, with what the      *)
(* search window needs to stay in range; the fate of an exit; and, for a   *)
(* guest of any depth whose callbacks start no call of their own kind,     *)
(* where control goes and with what in r3: every trap resumes the          *)
(* activation that called, with its own answer; so that the library's      *)
(* calls are the synchronous ones of Synchronous.                          *)
(***************************************************************************)
EXTENDS TrapLoop, Sequences, TLAPS

\* While a search is on its window is not empty and holds the middle element.
WindowOK == bs.active = 1 => bs.lo <= bs.mid /\ bs.mid <= bs.hi

TypeInv == TypeOK /\ WindowOK

-----------------------------------------------------------------------------
\* The middle of a non-empty window lies in the window.
LEMMA MidInWindow ==
  ASSUME NEW lo \in Int, NEW hi \in Int, lo <= hi
  PROVE  Mid(lo, hi) \in Int /\ lo <= Mid(lo, hi) /\ Mid(lo, hi) <= hi
BY DEF Mid

\* The answer of a search is null or a pointer into the array.
LEMMA AnswerType ==
  ASSUME NEW n \in 0 .. MaxElems, NEW k \in Keys(n)
  PROVE  k \in Int /\ Answer(n, k) \in 0 .. MaxElems
BY TrapLoopAssumption DEF Keys, Answer, NULL

\* A comparison function returns a number.
LEMMA ResultType ==
  ASSUME NEW f \in Frame
  PROVE  Result(f) \in Int
BY DEF Result, Compare, Frame

\* Every named address is an address.
LEMMA AddrType ==
  /\ NULL \in Addr /\ TRAP_BSEARCH_RET \in Addr /\ TRAP_PTHREAD_RET \in Addr
  /\ COMPAR \in Addr /\ START \in Addr
  /\ \A d \in 1 .. MaxDepth : d \in Addr /\ d \in Code
BY DEF Addr, Code, Traps, Entry

LEMMA NoFrameType == NoFrame \in Frame
BY AddrType DEF NoFrame, Frame, ANY, NULL

LEMMA InitTypeInv == Init => TypeInv
<1> SUFFICES ASSUME Init PROVE TypeInv
  OBVIOUS
<1>1. RegsOK
  BY TrapLoopAssumption, AddrType DEF Init, RegsOK, NULL
<1>2. StackOK
  BY TrapLoopAssumption, NoFrameType DEF Init, StackOK
<1>3. bs \in Search /\ pts \in [active : {0, 1}, caller_lr : Addr]
  BY TrapLoopAssumption, AddrType DEF Init, Search, NULL
<1>4. ctx \in Context
  BY AddrType DEF Init, Context
<1> QED
  BY <1>1, <1>2, <1>3, <1>4 DEF Init, TypeInv, TypeOK, WindowOK

-----------------------------------------------------------------------------
(***************************************************************************)
(* What the two ways to leave the hook establish.                          *)
(***************************************************************************)
Stopped == mode' = "after" /\ uerr' = 0 /\ ctx' \in Context

LEMMA ReturnToType ==
  ASSUME TypeInv, NEW link \in Addr, NEW value \in Int, ReturnTo(link, value)
  PROVE  r3' \in Int /\ r4' \in Int /\ lr' \in Addr /\ Stopped
BY DEF ReturnTo, StopSlice, Stopped, TypeInv, TypeOK, RegsOK, Context

LEMMA RedirectToType ==
  ASSUME TypeInv, NEW target \in Addr, NEW arg3 \in Int, NEW arg4 \in Int,
         NEW link \in Addr, RedirectTo(target, arg3, arg4, link)
  PROVE  r3' \in Int /\ r4' \in Int /\ lr' \in Addr /\ Stopped
BY DEF RedirectTo, StopSlice, Stopped, TypeInv, TypeOK, RegsOK, Context

\* A search starts with its window inside the array.
LEMMA StartSearchType ==
  ASSUME TypeInv, NEW n \in 0 .. MaxElems, NEW k \in Int,
         NEW compar \in {COMPAR, NULL}, NEW link \in Addr,
         StartSearch(n, k, compar, link)
  PROVE  /\ r3' \in Int /\ r4' \in Int /\ lr' \in Addr /\ Stopped
         /\ bs' \in Search /\ WindowOK'
<1> USE TrapLoopAssumption, AddrType
<1>1. CASE n = 0
  <2>1. ReturnTo(link, NULL)
    BY <1>1 DEF StartSearch
  <2>2. bs' \in Search /\ WindowOK'
    BY <1>1 DEF StartSearch, Search, WindowOK, TypeInv, TypeOK
  <2> QED
    BY <2>1, <2>2, ReturnToType DEF NULL
<1>2. CASE n > 0
  <2> DEFINE first == Mid(0, n - 1)
  <2>1. first \in Int /\ 0 <= first /\ first <= n - 1
    BY <1>2, MidInWindow
  <2>2. RedirectTo(compar, k, Pointer(first), TRAP_BSEARCH_RET)
    BY <1>2 DEF StartSearch
  <2>3. bs' = [active |-> 1, key |-> k, compar |-> compar, orig_lr |-> link,
               lo |-> 0, hi |-> n - 1, mid |-> first]
    BY <1>2 DEF StartSearch
  <2>4. bs' \in Search /\ WindowOK'
    BY <2>1, <2>3 DEF Search, WindowOK
  <2>5. Pointer(first) \in Int
    BY <2>1 DEF Pointer
  <2> HIDE DEF first
  <2> QED
    BY <2>2, <2>4, <2>5, RedirectToType
<1> QED
  BY <1>1, <1>2

\* Every comparison leaves the window inside the array, or ends the search.
LEMMA SearchStepType ==
  ASSUME TypeInv, SearchStep
  PROVE  /\ r3' \in Int /\ r4' \in Int /\ lr' \in Addr /\ Stopped
         /\ bs' \in Search /\ WindowOK'
<1> USE TrapLoopAssumption, AddrType
<1> DEFINE next == Narrow(bs, r3)
           mid  == Mid(next.lo, next.hi)
<1>1. bs \in Search /\ r3 \in Int /\ r4 \in Int /\ WindowOK
  BY DEF TypeInv, TypeOK, RegsOK
<1>2. ASSUME bs.active = 1
      PROVE  next \in Search /\ next.active = 1
  BY <1>1, <1>2 DEF Narrow, Search, WindowOK
<1>3. CASE bs.active = 0 /\ UNCHANGED bs
             /\ RedirectTo(bs.orig_lr, 0, r4, TRAP_BSEARCH_RET)
  BY <1>1, <1>3, RedirectToType DEF Search, WindowOK
<1>4. CASE bs.active = 1 /\ bs' = [bs EXCEPT !.active = 0]
             /\ RedirectTo(bs.orig_lr, Pointer(bs.mid), r4, TRAP_BSEARCH_RET)
  <2>1. bs' \in Search /\ WindowOK' /\ Pointer(bs.mid) \in Int /\ bs.orig_lr \in Addr
    BY <1>1, <1>4 DEF Search, WindowOK, Pointer
  <2> QED
    BY <1>1, <1>4, <2>1, RedirectToType
<1>5. CASE bs.active = 1 /\ bs' = [next EXCEPT !.active = 0]
             /\ RedirectTo(bs.orig_lr, NULL, r4, TRAP_BSEARCH_RET)
  <2>1. bs' \in Search /\ WindowOK' /\ bs.orig_lr \in Addr
    BY <1>1, <1>2, <1>5 DEF Search, WindowOK
  <2>2. NULL \in Int
    BY DEF NULL
  <2> QED
    BY <1>1, <1>5, <2>1, <2>2, RedirectToType
<1>6. CASE bs.active = 1 /\ next.lo <= next.hi /\ bs' = [next EXCEPT !.mid = mid]
             /\ RedirectTo(bs.compar, bs.key, Pointer(mid), TRAP_BSEARCH_RET)
  <2>1. next.lo \in 0 .. MaxElems /\ next.hi \in -1 .. MaxElems - 1
    BY <1>2, <1>6 DEF Search
  <2>2. mid \in Int /\ next.lo <= mid /\ mid <= next.hi
    BY <2>1, <1>6, MidInWindow
  <2> HIDE DEF next, mid
  <2>3. bs' \in Search /\ WindowOK' /\ Pointer(mid) \in Int
    BY <1>2, <1>6, <2>1, <2>2 DEF Search, WindowOK, Pointer
  <2> QED
    BY <1>1, <1>6, <2>3, RedirectToType DEF Search
<1> QED
  BY <1>3, <1>4, <1>5, <1>6 DEF SearchStep

-----------------------------------------------------------------------------
(***************************************************************************)
(* Every step preserves the type invariant.                                *)
(***************************************************************************)
LEMMA GuestStep ==
  ASSUME TypeInv, GuestEnter \/ GuestReturn \/ CallNull
  PROVE  TypeInv'
<1> USE TrapLoopAssumption, AddrType
<1>1. RegsOK /\ StackOK
  BY DEF TypeInv, TypeOK
<1>2. CASE GuestEnter
  <2> DEFINE f == [fn |-> IF pc = COMPAR THEN "compar" ELSE "start", ret |-> lr,
                   await |-> "none", want |-> ANY, key |-> r3, elem |-> r4]
  <2>1. f \in Frame
    BY <1>1 DEF RegsOK, Frame, ANY
  <2>2. sp + 1 \in 1 .. MaxDepth
    BY <1>1, <1>2 DEF GuestEnter, StackOK
  <2>3. frame' = [frame EXCEPT ![sp + 1] = f] /\ sp' = sp + 1
    BY <1>2 DEF GuestEnter
  <2> HIDE DEF f
  <2>4. StackOK'
    BY <1>1, <2>1, <2>2, <2>3 DEF StackOK, Code
  <2>5. RegsOK'
    BY <1>1, <1>2, <2>2 DEF RegsOK, GuestEnter
  <2> QED
    BY <1>2, <2>4, <2>5 DEF GuestEnter, TypeInv, TypeOK, WindowOK, slots
<1>3. CASE GuestReturn
  <2>1. sp \in 1 .. MaxDepth /\ frame[sp] \in Frame
    BY <1>1, <1>3 DEF GuestReturn, Running, StackOK, Code
  <2>2. StackOK'
    BY <1>1, <1>3, <2>1, NoFrameType DEF GuestReturn, Pop, StackOK
  <2>3. frame[sp].ret \in Addr /\ Result(frame[sp]) \in Int
    BY <2>1, ResultType DEF Frame
  <2>4. RegsOK'
    BY <1>1, <1>3, <2>3 DEF RegsOK, GuestReturn
  <2> QED
    BY <1>3, <2>2, <2>4 DEF GuestReturn, TypeInv, TypeOK, WindowOK, slots
<1>4. CASE CallNull
  <2>1. sp \in 1 .. MaxDepth /\ frame[sp] \in Frame
    BY <1>1, <1>4 DEF CallNull, Running, StackOK, Code
  <2>2. StackOK'
    BY <1>1, <1>4, <2>1 DEF CallNull, Awaiting, StackOK, Frame, ANY
  <2>3. RegsOK'
    BY <1>1, <1>4, <2>1 DEF RegsOK, CallNull
  <2> QED
    BY <1>4, <2>2, <2>3 DEF CallNull, TypeInv, TypeOK, WindowOK, slots
<1> QED
  BY <1>2, <1>3, <1>4

LEMMA AwaitingType ==
  ASSUME TypeInv, Running, sp' = sp,
         NEW what \in {"none", "import", "bsearch", "pthread"},
         NEW answer \in {ANY, THREAD_ID} \cup 0 .. MaxElems,
         Awaiting(what, answer)
  PROVE  StackOK'
<1>1. sp \in 1 .. MaxDepth /\ sp \in Code /\ frame \in [Code -> Frame]
  BY AddrType DEF TypeInv, TypeOK, StackOK, Running
<1> DEFINE f == [frame[sp] EXCEPT !.await = what, !.want = answer]
<1>2. f \in Frame
  BY <1>1 DEF Frame
<1>3. frame' = [frame EXCEPT ![sp] = f]
  BY DEF Awaiting
<1> HIDE DEF f
<1> QED
  BY <1>1, <1>2, <1>3 DEF StackOK

LEMMA CallStep ==
  ASSUME TypeInv, CallImport \/ TailCallImport \/ CallBsearch \/ CallPthreadCreate
  PROVE  TypeInv'
<1> USE TrapLoopAssumption, AddrType
<1>1. RegsOK /\ StackOK /\ sp \in 1 .. MaxDepth /\ sp \in Addr /\ frame[sp] \in Frame
  BY DEF TypeInv, TypeOK, StackOK, Running, Code, CallImport, TailCallImport,
         CallBsearch, CallPthreadCreate
<1>2. ASSUME Stopped, r3' \in Int, r4' \in Int, lr' \in Addr, UNCHANGED <<pc, status>>,
             StackOK', bs' \in Search, WindowOK', pts' \in [active : {0, 1}, caller_lr : Addr]
      PROVE  TypeInv'
  BY <1>1, <1>2 DEF TypeInv, TypeOK, RegsOK, Stopped
<1>3. CASE CallImport
  <2>1. r3' \in Int /\ r4' \in Int /\ lr' \in Addr /\ Stopped
    BY <1>1, <1>3, ReturnToType DEF CallImport
  <2>2. StackOK'
    BY <1>3, AwaitingType DEF CallImport, ANY
  <2> QED
    BY <1>2, <1>3, <2>1, <2>2 DEF CallImport, TypeInv, TypeOK, WindowOK, slots
<1>4. CASE TailCallImport
  <2>1. frame[sp].ret \in Addr /\ Result(frame[sp]) \in Int
    BY <1>1, ResultType DEF Frame
  <2>2. r3' \in Int /\ r4' \in Int /\ lr' \in Addr /\ Stopped
    BY <1>4, <2>1, ReturnToType DEF TailCallImport
  <2>3. StackOK'
    BY <1>1, <1>4, NoFrameType DEF TailCallImport, Pop, StackOK
  <2> QED
    BY <1>2, <1>4, <2>2, <2>3 DEF TailCallImport, TypeInv, TypeOK, WindowOK, slots
<1>5. CASE CallBsearch
  <2>1. PICK n \in 0 .. MaxElems : \E k \in Keys(n), compar \in {COMPAR, NULL} :
          /\ Awaiting("bsearch", IF compar = COMPAR THEN Answer(n, k) ELSE ANY)
          /\ StartSearch(n, k, compar, sp)
    BY <1>5 DEF CallBsearch
  <2>2. PICK k \in Keys(n), compar \in {COMPAR, NULL} :
          /\ Awaiting("bsearch", IF compar = COMPAR THEN Answer(n, k) ELSE ANY)
          /\ StartSearch(n, k, compar, sp)
    BY <2>1
  <2>3. k \in Int /\ Answer(n, k) \in 0 .. MaxElems
    BY AnswerType
  <2>4. /\ r3' \in Int /\ r4' \in Int /\ lr' \in Addr /\ Stopped
        /\ bs' \in Search /\ WindowOK'
    BY <1>1, <2>2, <2>3, StartSearchType
  <2>5. StackOK'
    BY <1>5, <2>2, <2>3, AwaitingType DEF CallBsearch
  <2> QED
    BY <1>2, <1>5, <2>4, <2>5 DEF CallBsearch, TypeInv, TypeOK
<1>6. CASE CallPthreadCreate
  <2>1. PICK start \in {START, NULL}, arg \in {0, 1} : StartThread(start, arg, sp)
    BY <1>6 DEF CallPthreadCreate
  <2>2. r3' \in Int /\ r4' \in Int /\ lr' \in Addr /\ Stopped
    BY <2>1, RedirectToType DEF StartThread
  <2>3. pts' \in [active : {0, 1}, caller_lr : Addr]
    BY <1>1, <2>1 DEF StartThread
  <2>4. StackOK'
    BY <1>6, AwaitingType DEF CallPthreadCreate
  <2> QED
    BY <1>2, <1>6, <2>2, <2>3, <2>4 DEF CallPthreadCreate, TypeInv, TypeOK, WindowOK
<1> QED
  BY <1>3, <1>4, <1>5, <1>6

LEMMA HookStep ==
  ASSUME TypeInv, Hook
  PROVE  TypeInv'
<1> USE TrapLoopAssumption, AddrType
<1>1. CASE FetchBsearchRet
  BY <1>1, SearchStepType
     DEF FetchBsearchRet, TypeInv, TypeOK, RegsOK, StackOK, Stopped, stack
<1>2. CASE FetchPthreadRet
  <2>1. pts \in [active : {0, 1}, caller_lr : Addr] /\ lr \in Addr
    BY DEF TypeInv, TypeOK, RegsOK
  <2>2. CASE /\ pts' = [pts EXCEPT !.active = 0]
             /\ RedirectTo(pts.caller_lr, THREAD_ID, 0, TRAP_BSEARCH_RET)
    <3>1. THREAD_ID \in Int /\ pts.caller_lr \in Addr
      BY <2>1 DEF THREAD_ID
    <3>2. r3' \in Int /\ r4' \in Int /\ lr' \in Addr /\ Stopped
      <4>1. 0 \in Int
        OBVIOUS
      <4>2. RedirectTo(pts.caller_lr, THREAD_ID, 0, TRAP_BSEARCH_RET)
        BY <2>2
      <4> QED
        BY <3>1, <4>1, <4>2, RedirectToType
    <3> QED
      BY <1>2, <2>1, <2>2, <3>2
         DEF FetchPthreadRet, TypeInv, TypeOK, WindowOK, RegsOK, StackOK, Stopped, stack
  <2>3. CASE ReturnTo(lr, 0) /\ UNCHANGED pts
    <3>1. r3' \in Int /\ r4' \in Int /\ lr' \in Addr /\ Stopped
      BY <2>1, <2>3, ReturnToType
    <3> QED
      BY <1>2, <2>1, <2>3, <3>1
         DEF FetchPthreadRet, TypeInv, TypeOK, WindowOK, RegsOK, StackOK, Stopped, stack
  <2> QED
    BY <1>2, <2>2, <2>3 DEF FetchPthreadRet, ThreadReturn
<1>3. CASE FetchNull
  <2>1. PICK block \in {0, BLOCK} : ReturnTo(lr, block)
    BY <1>3 DEF FetchNull
  <2>2. block \in Int /\ lr \in Addr
    BY DEF BLOCK, TypeInv, TypeOK, RegsOK
  <2>3. r3' \in Int /\ r4' \in Int /\ lr' \in Addr /\ Stopped
    BY <2>1, <2>2, ReturnToType
  <2> QED
    BY <1>3, <2>3
       DEF FetchNull, TypeInv, TypeOK, WindowOK, RegsOK, StackOK, Stopped, stack, slots
<1> QED
  BY <1>1, <1>2, <1>3 DEF Hook

LEMMA StopStep ==
  ASSUME TypeInv, CallExit \/ SyscallExit \/ Fault \/ Timeout
  PROVE  TypeInv'
<1> USE TrapLoopAssumption, AddrType
<1>1. RegsOK /\ StackOK /\ ctx \in Context
  BY DEF TypeInv, TypeOK
<1>2. ASSUME ctx' \in Context, RegsOK', StackOK', UNCHANGED <<slots, status>>,
             mode' = "after", uerr' \in {0, 1}
      PROVE  TypeInv'
  BY <1>2 DEF TypeInv, TypeOK, WindowOK, slots
<1>3. CASE CallExit
  <2>1. sp \in Addr
    BY <1>1, <1>3 DEF CallExit, Running, StackOK
  <2>2. ctx' \in Context
    BY <1>3, <2>1 DEF CallExit, Context, ABORTED
  <2> QED
    BY <1>1, <1>2, <1>3, <2>1, <2>2 DEF CallExit, RegsOK, StackOK, stack
<1>4. CASE SyscallExit
  <2>1. ctx' \in Context
    BY <1>1, <1>4 DEF SyscallExit, Context
  <2>2. r3' = 0 /\ UNCHANGED <<pc, lr, r4, sp, frame>>
    BY <1>4 DEF SyscallExit, stack
  <2>3. RegsOK' /\ StackOK'
    BY <1>1, <2>2 DEF RegsOK, StackOK
  <2> QED
    BY <1>2, <1>4, <2>1, <2>3 DEF SyscallExit
<1>5. CASE Fault \/ Timeout
  BY <1>1, <1>2, <1>5 DEF Fault, Timeout, RegsOK, StackOK, stack, regs
<1> QED
  BY <1>3, <1>4, <1>5

LEMMA FinishType ==
  ASSUME NEW code \in Int, Finish(code)
  PROVE  mode' = "done" /\ status' \in 0 .. 255
BY DEF Finish, FAILED

LEMMA HostStep ==
  ASSUME TypeInv, Host
  PROVE  TypeInv'
<1> USE TrapLoopAssumption, AddrType
<1>1. RegsOK /\ StackOK /\ ctx \in Context
  BY DEF TypeInv, TypeOK
<1>2. CASE LoopNull
  <2>1. r3' \in Int /\ pc' \in Addr
    BY <1>1, <1>2 DEF LoopNull, BLOCK, RegsOK
  <2>2. mode' \in {"loop", "done"} /\ status' \in 0 .. 255
    BY <1>2, FinishType DEF LoopNull, TypeInv, TypeOK
  <2> QED
    BY <1>1, <1>2, <2>1, <2>2
       DEF LoopNull, TypeInv, TypeOK, WindowOK, RegsOK, StackOK, stack, slots
<1>3. CASE StartSlice
  BY <1>3 DEF StartSlice, TypeInv, TypeOK, WindowOK, RegsOK, StackOK, stack, slots, regs
<1>4. CASE Resume
  <2>1. ctx' \in Context /\ pc' \in Addr
    BY <1>1, <1>4 DEF Resume, Context
  <2> QED
    BY <1>4, <2>1 DEF Resume, TypeInv, TypeOK, WindowOK, RegsOK, StackOK, stack, slots
<1>5. CASE Leave
  <2>1. ctx' \in Context
    BY <1>1, <1>5 DEF Leave, Context
  <2>2. mode' = "done" /\ status' \in 0 .. 255
    BY <1>1, <1>5, FinishType DEF Leave, Context
  <2> QED
    BY <1>5, <2>1, <2>2
       DEF Leave, TypeInv, TypeOK, WindowOK, RegsOK, StackOK, stack, slots, regs
<1> QED
  BY <1>2, <1>3, <1>4, <1>5 DEF Host

LEMMA NextTypeInv == TypeInv /\ [Next]_vars => TypeInv'
<1> SUFFICES ASSUME TypeInv, [Next]_vars PROVE TypeInv'
  OBVIOUS
<1>1. CASE UNCHANGED vars
  BY <1>1 DEF vars, regs, stack, slots, TypeInv, TypeOK, WindowOK, RegsOK, StackOK
<1> QED
  BY <1>1, GuestStep, CallStep, HookStep, StopStep, HostStep
     DEF Next, Guest, GuestCall, Done

\* In every run, of any guest, each variable keeps its type and an active
\* search keeps its window inside the array: bsearch never makes the guest
\* compare an element that is not there (hle_bsearch, hle_bsearch_return).
THEOREM TypeCorrect == Spec => []TypeOK
<1>1. TypeInv => TypeOK
  BY DEF TypeInv
<1> QED
  BY <1>1, InitTypeInv, NextTypeInv, PTL DEF Spec

-----------------------------------------------------------------------------
(***************************************************************************)
(* Exit.  A stop request is only made inside a slice, by the step that     *)
(* ends it, and only Leave is enabled afterwards.                          *)
(***************************************************************************)
ExitInv ==
  ctx.should_stop = 1 => /\ mode \in {"after", "done"}
                         /\ mode = "after" => uerr = 0
                         /\ ctx.exit_code \in ExitCodes \cup {ABORTED}

LEMMA NextExitInv ==
  ASSUME TypeInv, ExitInv, [Next]_vars
  PROVE  ExitInv'
<1>1. ctx \in Context
  BY DEF TypeInv, TypeOK
<1>2. CASE \/ GuestEnter \/ GuestReturn \/ CallNull \/ LoopNull \/ StartSlice
           \/ UNCHANGED vars
  BY <1>2 DEF GuestEnter, GuestReturn, CallNull, LoopNull, StartSlice, Running, vars,
              Finish, ExitInv
<1>3. CASE CallImport \/ TailCallImport \/ CallBsearch \/ CallPthreadCreate \/ Hook
  <2>1. mode = "guest"
    BY <1>3 DEF CallImport, TailCallImport, CallBsearch, CallPthreadCreate, Hook,
                Running, FetchBsearchRet, FetchPthreadRet, FetchNull
  <2>2. \E resume : ctx' = [ctx EXCEPT !.trap_pending = 1, !.resume_pc = resume]
    BY <1>3 DEF CallImport, TailCallImport, CallBsearch, CallPthreadCreate, Hook,
                FetchBsearchRet, FetchPthreadRet, FetchNull, StartSearch, SearchStep,
                StartThread, ThreadReturn, ReturnTo, RedirectTo, StopSlice
  <2> QED
    BY <1>1, <2>1, <2>2 DEF ExitInv, Context
<1>4. CASE CallExit \/ SyscallExit
  <2>1. mode' = "after" /\ uerr' = 0
    BY <1>4 DEF CallExit, SyscallExit
  <2>2. CASE CallExit
    <3>1. PICK code \in ExitCodes \cup {ABORTED} :
            ctx' = [trap_pending |-> 1, resume_pc |-> sp, should_stop |-> 1,
                    exit_code |-> code]
      BY <2>2 DEF CallExit
    <3> QED
      BY <2>1, <3>1 DEF ExitInv
  <2>3. CASE SyscallExit
    <3>1. PICK code \in ExitCodes :
            ctx' = [ctx EXCEPT !.should_stop = 1, !.exit_code = code]
      BY <2>3 DEF SyscallExit
    <3>2. ctx'.exit_code = code
      BY <1>1, <3>1 DEF Context
    <3> QED
      BY <2>1, <3>2 DEF ExitInv
  <2> QED
    BY <1>4, <2>2, <2>3
<1>5. CASE Fault \/ Timeout
  BY <1>5 DEF Fault, Timeout, ExitInv
<1>6. CASE Resume
  BY <1>1, <1>6 DEF Resume, ExitInv, Context
<1>7. CASE Leave
  BY <1>1, <1>7 DEF Leave, Finish, ExitInv, Context
<1> QED
  BY <1>2, <1>3, <1>4, <1>5, <1>6, <1>7 DEF Next, Guest, GuestCall, Host, Done

LEMMA InitExitInv == Init => ExitInv
BY DEF Init, ExitInv

\* Once the guest has asked to stop it never runs again, whatever callbacks
\* were open when it did.
THEOREM NothingRunsAfterExit == Spec => []NoCodeAfterExit
<1>1. ExitInv => NoCodeAfterExit
  BY DEF ExitInv, NoCodeAfterExit
<1>2. TypeInv /\ ExitInv /\ [Next]_vars => ExitInv'
  BY NextExitInv
<1> QED
  BY <1>1, <1>2, InitTypeInv, NextTypeInv, InitExitInv, PTL DEF Spec

LEMMA NextExitStatus ==
  ASSUME ExitCodes \subseteq Nat, TypeInv, ExitInv, ExitStatus, [Next]_vars
  PROVE  ExitStatus'
<1>1. CASE mode = "done"
  BY <1>1 DEF Next, Guest, GuestCall, Hook, Host, Done, vars, ExitStatus, Running,
     GuestEnter, GuestReturn, CallImport, TailCallImport, CallBsearch,
     CallPthreadCreate, CallNull, CallExit, SyscallExit, Fault, Timeout,
     FetchBsearchRet, FetchPthreadRet, FetchNull, LoopNull, StartSlice, Resume, Leave
<1>2. CASE LoopNull
  BY <1>2 DEF LoopNull, ExitStatus, ExitInv, Finish, FAILED, TypeInv, TypeOK, Context
<1>3. CASE Leave
  <2>1. ctx \in Context /\ ABORTED \in Nat
    BY DEF TypeInv, TypeOK, ABORTED
  <2>2. CASE ctx.should_stop = 0
    BY <1>3, <2>1, <2>2 DEF Leave, ExitStatus, Finish, Context
  <2>3. CASE ctx.should_stop = 1
    <3>1. Finish(ctx.exit_code) /\ ctx.exit_code \in Nat
      BY <1>3, <2>1, <2>3 DEF Leave, ExitInv
    <3> QED
      BY <1>3, <2>1, <2>3, <3>1 DEF Leave, ExitStatus, Finish, Context
  <2> QED
    BY <2>1, <2>2, <2>3 DEF Context
<1>4. CASE mode' # "done"
  BY <1>4 DEF ExitStatus
<1>5. ASSUME mode # "done", mode' = "done"
      PROVE  LoopNull \/ Leave
  BY <1>5 DEF Next, Guest, GuestCall, Hook, Host, Done, vars, Running,
     GuestEnter, GuestReturn, CallImport, TailCallImport, CallBsearch,
     CallPthreadCreate, CallNull, CallExit, SyscallExit, Fault, Timeout,
     FetchBsearchRet, FetchPthreadRet, FetchNull, StartSlice, Resume,
     StartSearch, SearchStep, StartThread, ThreadReturn, ReturnTo, RedirectTo, StopSlice
<1> QED
  BY <1>1, <1>2, <1>3, <1>4, <1>5

\* A guest whose exit codes are not negative has its own exit status, cut to a
\* byte, reported by the host; a guest that does not exit is reported as failed.
THEOREM ExitStatusReported ==
  ASSUME ExitCodes \subseteq Nat
  PROVE  Spec => []ExitStatus
<1>1. Init => ExitStatus
  BY DEF Init, ExitStatus
<1>2. TypeInv /\ ExitInv /\ [Next]_vars => ExitInv'
  BY NextExitInv
<1>3. TypeInv /\ ExitInv /\ ExitStatus /\ [Next]_vars => ExitStatus'
  BY NextExitStatus
<1> QED
  BY <1>1, <1>2, <1>3, InitTypeInv, NextTypeInv, InitExitInv, PTL DEF Spec

\* An exit is the last thing the guest does and what its process ends with.
THEOREM ExitIsHonoured ==
  ASSUME ExitCodes \subseteq Nat
  PROVE  Spec => []ExitHonoured
<1>1. NoCodeAfterExit /\ ExitStatus => ExitHonoured
  BY DEF ExitHonoured
<1> QED
  BY <1>1, NothingRunsAfterExit, ExitStatusReported, PTL

-----------------------------------------------------------------------------
(***************************************************************************)
(* Where control goes.                                                     *)
(***************************************************************************)
\* Going to r takes control to activation d: r is in its code, or the return
\* trap of a call that d waits for and that the static slot knows to be d's.
Goes(r, d, b, p, f) ==
  \/ r = d /\ d \in Code
  \/ r = NULL /\ d = 0
  \/ /\ r = TRAP_BSEARCH_RET /\ d \in Code
     /\ b.active = 1 /\ b.orig_lr = d /\ f[d].await = "bsearch"
  \/ /\ r = TRAP_PTHREAD_RET /\ d \in Code
     /\ p.active = 1 /\ p.caller_lr = d /\ f[d].await = "pthread"

Back(r, d) == Goes(r, d, bs, pts, frame)

\* Every activation returns to the one below it.
ChainInv == \A d \in 1 .. sp : Back(frame[d].ret, d - 1)

\* So does what runs next: by itself, or, a callback, by the link register.
GoesBack ==
  /\ Target \in Code \cup Traps => Back(Target, sp)
  /\ Target \in Entry \cup {NULL} => Back(lr, sp)

ControlInv ==
  /\ mode \in {"loop", "guest"} => ctx.trap_pending = 0
  /\ ChainInv
  /\ mode # "done" => GoesBack

-----------------------------------------------------------------------------
\* The addresses of activations and the others are different numbers.
LEMMA Addresses ==
  /\ Code = 1 .. MaxDepth /\ MaxDepth \in Nat /\ MaxDepth > 0
  /\ NULL = 0 /\ TRAP_BSEARCH_RET = -1 /\ TRAP_PTHREAD_RET = -2
  /\ COMPAR = -3 /\ START = -4
  /\ Traps = {-1, -2} /\ Entry = {-3, -4}
BY TrapLoopAssumption
   DEF Code, NULL, TRAP_BSEARCH_RET, TRAP_PTHREAD_RET, COMPAR, START, Traps, Entry

\* The types that the steps below need.
LEMMA Types ==
  ASSUME TypeInv
  PROVE  /\ sp \in Int /\ 0 <= sp /\ sp <= MaxDepth
         /\ frame \in [Code -> Frame]
         /\ pc \in Addr /\ lr \in Addr /\ r3 \in Int /\ r4 \in Int
         /\ bs \in Search /\ pts \in [active : {0, 1}, caller_lr : Addr]
         /\ ctx \in Context
BY TrapLoopAssumption DEF TypeInv, TypeOK, RegsOK, StackOK

\* A return address stays good while its activation waits for the same call.
LEMMA StillGoes ==
  ASSUME NEW r, NEW d, NEW b, NEW p, NEW f, NEW g, Goes(r, d, b, p, f),
         d \in Code => g[d].await = f[d].await
  PROVE  Goes(r, d, b, p, g)
BY DEF Goes

\* A trap's resume address is where the guest runs next.
LEMMA TrapTarget ==
  ASSUME TypeInv, NEW resume \in Addr, StopSlice(resume)
  PROVE  Target' = resume /\ mode' = "after"
BY Types DEF StopSlice, Target, Context

\* Inside a slice and at the top of the loop it is pc.
LEMMA RunningTarget ==
  ASSUME ControlInv, mode \in {"loop", "guest"}
  PROVE  Target = pc /\ GoesBack
BY DEF Target, ControlInv

\* The activation that runs is the one on top.
LEMMA RunningOnTop ==
  ASSUME TypeInv, ControlInv, Running
  PROVE  /\ pc = sp /\ sp \in Code /\ sp \in Int /\ Target = sp
         /\ \A d \in 1 .. sp : Back(frame[d].ret, d - 1)
<1>1. Back(pc, sp) /\ Target = pc
  BY RunningTarget DEF Running, GoesBack
<1> QED
  BY <1>1, Addresses, Types DEF Back, Goes, Running, ControlInv, ChainInv

\* A call of the activation on top leaves the chain of returns as it is.
LEMMA ChainKept ==
  ASSUME TypeInv, ChainInv, UNCHANGED slots, sp' = sp,
         \A d \in 1 .. sp - 1 : frame'[d] = frame[d],
         sp \in Code => frame'[sp].ret = frame[sp].ret
  PROVE  ChainInv'
<1> SUFFICES ASSUME NEW d \in 1 .. sp
             PROVE  Goes(frame'[d].ret, d - 1, bs, pts, frame')
  BY DEF ChainInv, Back, slots
<1>1. frame'[d].ret = frame[d].ret
  BY Addresses, Types
<1>2. d - 1 \in Code => frame'[d - 1].await = frame[d - 1].await
  BY Addresses, Types
<1>3. Goes(frame[d].ret, d - 1, bs, pts, frame)
  BY DEF ChainInv, Back
<1> QED
  BY <1>1, <1>2, <1>3, StillGoes

-----------------------------------------------------------------------------
(***************************************************************************)
(* Steps that touch neither the stack nor the slots.                       *)
(***************************************************************************)
LEMMA StillControl ==
  ASSUME ControlInv, UNCHANGED <<stack, slots>>,
         mode' \in {"loop", "guest"} => ctx'.trap_pending = 0,
         mode' # "done" => GoesBack'
  PROVE  ControlInv'
BY DEF ControlInv, ChainInv, Back, stack, slots

\* The slice begins or ends, or the loop is left or resumes where it was told.
LEMMA LoopControl ==
  ASSUME TypeInv, ControlInv, StartSlice \/ Fault \/ Timeout \/ Resume \/ Leave
  PROVE  ControlInv'
<1>1. ctx \in Context
  BY Types
<1>2. CASE Leave
  BY <1>2, StillControl DEF Leave, Finish
<1>3. CASE Resume
  <2>1. Target' = Target /\ UNCHANGED <<lr, stack, slots>> /\ mode = "after" /\ mode' = "loop"
    BY <1>3 DEF Resume, Target
  <2>2. GoesBack'
    BY <2>1 DEF ControlInv, GoesBack, Back, stack, slots
  <2>3. ctx'.trap_pending = 0
    BY <1>1, <1>3 DEF Resume, Context
  <2> QED
    BY <2>1, <2>2, <2>3, StillControl
<1>4. CASE StartSlice \/ Fault \/ Timeout
  <2>1. /\ mode \in {"loop", "guest"} /\ mode' \in {"guest", "after"}
        /\ UNCHANGED <<pc, lr, ctx, stack, slots>>
    BY <1>4 DEF StartSlice, Fault, Timeout, regs
  <2>2. ctx'.trap_pending = 0 /\ Target' = Target
    BY <2>1 DEF ControlInv, Target
  <2>3. GoesBack'
    BY <2>1, <2>2 DEF ControlInv, GoesBack, Back, stack, slots
  <2> QED
    BY <2>1, <2>2, <2>3, StillControl
<1> QED
  BY <1>2, <1>3, <1>4

\* A null call is answered and returns by the link register.
LEMMA NullControl ==
  ASSUME TypeInv, ControlInv, FetchNull \/ LoopNull
  PROVE  ControlInv'
<1>1. Target = pc /\ GoesBack /\ pc = NULL /\ lr \in Addr
  BY RunningTarget, Types DEF FetchNull, LoopNull
<1>2. Back(lr, sp)
  BY <1>1 DEF GoesBack
<1>3. UNCHANGED <<stack, slots>> /\ lr' = lr
  BY DEF FetchNull, LoopNull, ReturnTo
<1>4. Back(lr, sp)'
  BY <1>2, <1>3 DEF Back, stack, slots
<1>5. CASE FetchNull
  <2>1. Target' = lr /\ mode' = "after"
    BY <1>1, <1>5, TrapTarget DEF FetchNull, ReturnTo
  <2> QED
    BY <1>3, <1>4, <2>1, StillControl DEF GoesBack
<1>6. CASE LoopNull /\ mode' = "loop"
  <2>1. pc' = lr /\ ctx' = ctx /\ mode = "loop"
    BY <1>6 DEF LoopNull, Finish
  <2>2. Target' = lr /\ ctx'.trap_pending = 0
    BY <1>6, <2>1 DEF Target, ControlInv
  <2> QED
    BY <1>3, <1>4, <1>6, <2>2, StillControl DEF GoesBack
<1>7. CASE LoopNull /\ mode' = "done"
  BY <1>3, <1>7, StillControl
<1> QED
  BY <1>5, <1>6, <1>7 DEF LoopNull, Finish

\* An exit stays where it is.
LEMMA ExitControl ==
  ASSUME TypeInv, ControlInv, CallExit \/ SyscallExit
  PROVE  ControlInv'
<1>1. /\ pc = sp /\ sp \in Code /\ sp \in Int /\ mode' = "after" /\ mode = "guest"
      /\ UNCHANGED <<pc, stack, slots>>
  BY RunningOnTop DEF CallExit, SyscallExit, Running, slots
<1>2. Target' = sp
  <2>1. CASE CallExit
    <3>1. PICK code \in ExitCodes \cup {ABORTED} :
            ctx' = [trap_pending |-> 1, resume_pc |-> sp, should_stop |-> 1,
                    exit_code |-> code]
      BY <2>1 DEF CallExit
    <3> QED
      BY <1>1, <3>1 DEF Target
  <2>2. CASE SyscallExit
    <3>1. PICK code \in ExitCodes :
            ctx' = [ctx EXCEPT !.should_stop = 1, !.exit_code = code]
      BY <2>2 DEF SyscallExit
    <3>2. ctx'.trap_pending = 0
      BY <1>1, <3>1, Types DEF ControlInv, Context
    <3> QED
      BY <1>1, <3>2 DEF Target
  <2> QED
    BY <2>1, <2>2
<1>3. sp' = sp
  BY <1>1 DEF stack
<1>4. GoesBack'
  BY <1>1, <1>2, <1>3, Addresses DEF GoesBack, Back, Goes
<1> QED
  BY <1>1, <1>4, StillControl

-----------------------------------------------------------------------------
(***************************************************************************)
(* Steps of the guest that move its stack.                                 *)
(***************************************************************************)
\* A callback's return address is the link register it was entered with.
LEMMA EnterControl ==
  ASSUME TypeInv, ControlInv, GuestEnter
  PROVE  ControlInv'
<1>1. /\ mode = "guest" /\ pc \in Entry /\ sp < MaxDepth
      /\ sp' = sp + 1 /\ pc' = sp + 1 /\ UNCHANGED <<mode, lr, ctx, bs, pts>>
  BY DEF GuestEnter, slots
<1>2. Goes(lr, sp, bs, pts, frame) /\ ctx.trap_pending = 0
  BY <1>1, RunningTarget DEF GoesBack, ControlInv, Back
<1>3. sp \in Int /\ 0 <= sp /\ sp + 1 \in Code /\ sp + 1 \in Int
  BY <1>1, Types, Addresses
<1>4. /\ frame'[sp + 1].ret = lr
      /\ \A d \in Code : d # sp + 1 => frame'[d] = frame[d]
  BY <1>3, Types DEF GuestEnter
<1>5. ChainInv'
  <2> SUFFICES ASSUME NEW d \in 1 .. sp + 1
               PROVE  Goes(frame'[d].ret, d - 1, bs, pts, frame')
    BY <1>1 DEF ChainInv, Back
  <2>1. d - 1 \in Code => frame'[d - 1] = frame[d - 1]
    BY <1>3, <1>4, Addresses
  <2>2. CASE d = sp + 1
    <3>1. d - 1 = sp
      BY <1>3, <2>2
    <3> QED
      BY <1>2, <1>4, <2>1, <2>2, <3>1, StillGoes
  <2>3. CASE d \in 1 .. sp
    <3>1. frame'[d] = frame[d]
      BY <1>3, <1>4, <2>3, Addresses
    <3>2. Goes(frame[d].ret, d - 1, bs, pts, frame)
      BY <2>3 DEF ControlInv, ChainInv, Back
    <3> QED
      BY <2>1, <3>1, <3>2, StillGoes
  <2> QED
    BY <1>3, <2>2, <2>3
<1>6. Target' = sp + 1
  BY <1>1, <1>2 DEF Target
<1>7. GoesBack'
  BY <1>1, <1>3, <1>6, Addresses DEF GoesBack, Back, Goes
<1> QED
  BY <1>1, <1>2, <1>5, <1>7 DEF ControlInv

\* An activation that ends hands control to the one below, in the same slice
\* or through the trap of its tail call.
LEMMA PopControl ==
  ASSUME TypeInv, ControlInv, Running, Pop, UNCHANGED slots,
         lr' = frame[sp].ret, Target' = frame[sp].ret,
         mode' \in {"loop", "guest"} => ctx'.trap_pending = 0
  PROVE  ControlInv'
<1>1. /\ sp \in Code /\ sp \in Int /\ sp' = sp - 1
      /\ \A d \in 1 .. sp : Goes(frame[d].ret, d - 1, bs, pts, frame)
  BY RunningOnTop DEF Pop, Back
<1>2. \A d \in Code : d # sp => frame'[d] = frame[d]
  BY <1>1, Types DEF Pop
<1>3. ASSUME NEW d \in 1 .. sp
      PROVE  Goes(frame[d].ret, d - 1, bs, pts, frame')
  <2>1. d - 1 \in Code => frame'[d - 1] = frame[d - 1]
    BY <1>1, <1>2, Addresses
  <2> QED
    BY <1>1, <2>1, StillGoes
<1>4. ChainInv'
  <2> SUFFICES ASSUME NEW d \in 1 .. sp - 1
               PROVE  Goes(frame'[d].ret, d - 1, bs, pts, frame')
    BY <1>1 DEF ChainInv, Back, slots
  <2>1. d \in 1 .. sp /\ frame'[d] = frame[d]
    BY <1>1, <1>2, Addresses
  <2> QED
    BY <1>3, <2>1
<1>5. Goes(frame[sp].ret, sp - 1, bs, pts, frame')
  BY <1>1, <1>3, Addresses
<1>6. GoesBack'
  BY <1>1, <1>5 DEF GoesBack, Back, slots
<1> QED
  BY <1>4, <1>6 DEF ControlInv

LEMMA ReturnControl ==
  ASSUME TypeInv, ControlInv, GuestReturn \/ TailCallImport
  PROVE  ControlInv'
<1>1. Running /\ Pop /\ UNCHANGED slots /\ mode = "guest"
  BY DEF GuestReturn, TailCallImport, Running
<1>2. frame[sp].ret \in Addr
  BY <1>1, RunningOnTop, Types DEF Frame
<1>3. CASE GuestReturn
  <2>1. lr' = frame[sp].ret /\ pc' = frame[sp].ret /\ UNCHANGED <<mode, ctx>>
    BY <1>3 DEF GuestReturn
  <2>2. Target' = frame[sp].ret /\ ctx'.trap_pending = 0
    BY <1>1, <2>1 DEF Target, ControlInv
  <2> QED
    BY <1>1, <2>1, <2>2, PopControl
<1>4. CASE TailCallImport
  <2>1. lr' = frame[sp].ret /\ StopSlice(frame[sp].ret)
    BY <1>4 DEF TailCallImport, ReturnTo
  <2>2. Target' = frame[sp].ret /\ mode' = "after"
    BY <1>2, <2>1, TrapTarget
  <2> QED
    BY <1>1, <2>1, <2>2, PopControl
<1> QED
  BY <1>3, <1>4

-----------------------------------------------------------------------------
(***************************************************************************)
(* Calls.  The activation on top waits, no other frame changes, and no     *)
(* return below depends on the slot the call takes: the activation it      *)
(* would return to would be a pending call of the same kind.               *)
(***************************************************************************)
LEMMA CallFrames ==
  ASSUME TypeInv, ControlInv, Running, NEW what, NEW answer, Awaiting(what, answer)
  PROVE  /\ \A d \in Code : d # sp => frame'[d] = frame[d]
         /\ frame'[sp].ret = frame[sp].ret
         /\ frame'[sp].await = what /\ frame'[sp].want = answer
<1>1. sp \in Code /\ frame \in [Code -> Frame]
  BY RunningOnTop, Types
<1>2. frame[sp] \in Frame
  BY <1>1
<1> QED
  BY <1>1, <1>2 DEF Awaiting, Frame

LEMMA CallControl ==
  ASSUME TypeInv, ControlInv, Running, sp' = sp,
         NEW what, NEW answer, Awaiting(what, answer),
         bs' = bs \/ Pending("bsearch") = {},
         pts' = pts \/ Pending("pthread") = {},
         mode' \in {"loop", "guest"} => ctx'.trap_pending = 0,
         mode' # "done" => GoesBack'
  PROVE  ControlInv'
<1>1. /\ sp \in Code /\ sp \in Int
      /\ \A d \in 1 .. sp : Goes(frame[d].ret, d - 1, bs, pts, frame)
  BY RunningOnTop DEF Back
<1>2. ChainInv'
  <2> SUFFICES ASSUME NEW d \in 1 .. sp
               PROVE  Goes(frame'[d].ret, d - 1, bs', pts', frame')
    BY DEF ChainInv, Back
  <2>1. d \in Code /\ frame'[d].ret = frame[d].ret
    BY <1>1, CallFrames, Addresses
  <2>2. d - 1 \in Code => d - 1 \in 1 .. sp - 1 /\ frame'[d - 1] = frame[d - 1]
    BY <1>1, CallFrames, Addresses
  <2>3. Goes(frame[d].ret, d - 1, bs', pts', frame)
    BY <1>1, <2>2 DEF Goes, Pending
  <2> QED
    BY <2>1, <2>2, <2>3, StillGoes
<1> QED
  BY <1>2 DEF ControlInv

\* A call of an ordinary function, or of a null pointer, returns to its caller.
LEMMA PlainCallControl ==
  ASSUME TypeInv, ControlInv, CallImport \/ CallNull
  PROVE  ControlInv'
<1>1. Running /\ Awaiting("import", ANY) /\ UNCHANGED <<sp, bs, pts>>
  BY DEF CallImport, CallNull, slots
<1>2. sp \in Code /\ sp \in Addr /\ mode = "guest"
  BY <1>1, RunningOnTop, Types DEF Addr, Running
<1>3. CASE CallImport
  <2>1. Target' = sp /\ mode' = "after"
    BY <1>2, <1>3, TrapTarget DEF CallImport, ReturnTo
  <2>2. GoesBack'
    BY <1>1, <1>2, <2>1, Addresses DEF GoesBack, Back, Goes
  <2> QED
    BY <1>1, <2>1, <2>2, CallControl
<1>4. CASE CallNull
  <2>1. Target' = NULL /\ lr' = sp /\ ctx'.trap_pending = 0
    BY <1>2, <1>4 DEF CallNull, Target, ControlInv
  <2>2. GoesBack'
    BY <1>1, <1>2, <2>1, Addresses DEF GoesBack, Back, Goes
  <2> QED
    BY <1>1, <2>1, <2>2, CallControl
<1> QED
  BY <1>3, <1>4

LEMMA BsearchControl ==
  ASSUME TypeInv, ControlInv, Nested = FALSE, CallBsearch
  PROVE  ControlInv'
<1>1. /\ Running /\ Pending("bsearch") = {} /\ UNCHANGED <<sp, pts>>
  BY DEF CallBsearch, MayStart
<1>2. sp \in Code /\ sp \in Addr /\ mode = "guest"
  BY <1>1, RunningOnTop, Types DEF Addr, Running
<1>3. PICK n \in 0 .. MaxElems, k \in Int, compar \in {COMPAR, NULL}, answer \in Int :
        Awaiting("bsearch", answer) /\ StartSearch(n, k, compar, sp)
  <2>1. PICK n \in 0 .. MaxElems : \E k \in Keys(n), compar \in {COMPAR, NULL} :
          /\ Awaiting("bsearch", IF compar = COMPAR THEN Answer(n, k) ELSE ANY)
          /\ StartSearch(n, k, compar, sp)
    BY DEF CallBsearch
  <2>2. PICK k \in Keys(n), compar \in {COMPAR, NULL} :
          /\ Awaiting("bsearch", IF compar = COMPAR THEN Answer(n, k) ELSE ANY)
          /\ StartSearch(n, k, compar, sp)
    BY <2>1
  <2>3. k \in Int /\ Answer(n, k) \in Int
    BY AnswerType, Addresses
  <2> QED
    BY <2>2, <2>3 DEF ANY
<1>4. frame'[sp].await = "bsearch"
  BY <1>1, <1>3, CallFrames
<1>5. CASE n = 0
  <2>1. Target' = sp /\ mode' = "after"
    BY <1>2, <1>3, <1>5, TrapTarget DEF StartSearch, ReturnTo
  <2>2. GoesBack'
    BY <1>1, <1>2, <2>1, Addresses DEF GoesBack, Back, Goes
  <2> QED
    BY <1>1, <1>3, <2>1, <2>2, CallControl
<1>6. CASE n > 0
  <2>1. /\ lr' = TRAP_BSEARCH_RET /\ StopSlice(compar)
        /\ bs'.active = 1 /\ bs'.orig_lr = sp
    BY <1>3, <1>6 DEF StartSearch, RedirectTo
  <2>2. Target' = compar /\ mode' = "after"
    BY <2>1, TrapTarget, AddrType
  <2>3. Goes(TRAP_BSEARCH_RET, sp', bs', pts', frame')
    BY <1>1, <1>2, <1>4, <2>1 DEF Goes
  <2>4. GoesBack'
    BY <2>1, <2>2, <2>3, Addresses DEF GoesBack, Back
  <2> QED
    BY <1>1, <1>3, <2>2, <2>4, CallControl
<1> QED
  BY <1>5, <1>6

LEMMA PthreadControl ==
  ASSUME TypeInv, ControlInv, Nested = FALSE, CallPthreadCreate
  PROVE  ControlInv'
<1>1. /\ Running /\ Pending("pthread") = {} /\ UNCHANGED <<sp, bs>>
      /\ Awaiting("pthread", THREAD_ID)
  BY DEF CallPthreadCreate, MayStart
<1>2. sp \in Code /\ sp \in Addr
  BY <1>1, RunningOnTop, Types DEF Addr
<1>3. PICK start \in {START, NULL}, arg \in {0, 1} : StartThread(start, arg, sp)
  BY DEF CallPthreadCreate
<1>4. /\ lr' = TRAP_PTHREAD_RET /\ StopSlice(start)
      /\ pts' = [active |-> 1, caller_lr |-> sp]
  BY <1>3 DEF StartThread, RedirectTo
<1>5. Target' = start /\ mode' = "after"
  BY <1>4, TrapTarget, AddrType
<1>6. Goes(TRAP_PTHREAD_RET, sp', bs', pts', frame')
  BY <1>1, <1>2, <1>4, CallFrames DEF Goes
<1>7. GoesBack'
  BY <1>4, <1>5, <1>6, Addresses DEF GoesBack, Back
<1> QED
  BY <1>1, <1>5, <1>7, CallControl

-----------------------------------------------------------------------------
(***************************************************************************)
(* The return traps.  The slot is the top activation's, so no return below *)
(* depends on it.                                                          *)
(***************************************************************************)
LEMMA TrapControl ==
  ASSUME TypeInv, ControlInv, UNCHANGED stack, mode' = "after",
         bs' = bs \/ bs.orig_lr = sp, pts' = pts \/ pts.caller_lr = sp, GoesBack'
  PROVE  ControlInv'
<1>1. ChainInv'
  <2> SUFFICES ASSUME NEW d \in 1 .. sp
               PROVE  Goes(frame[d].ret, d - 1, bs', pts', frame)
    BY DEF ChainInv, Back, stack
  <2>1. Goes(frame[d].ret, d - 1, bs, pts, frame)
    BY DEF ControlInv, ChainInv, Back
  <2>2. d - 1 # sp
    BY Types
  <2> QED
    BY <2>1, <2>2 DEF Goes
<1> QED
  BY <1>1 DEF ControlInv

\* At a return trap its slot is active, and its caller on top.
LEMMA AtBsearchRet ==
  ASSUME TypeInv, ControlInv, mode = "guest", pc = TRAP_BSEARCH_RET
  PROVE  /\ sp \in Code /\ bs.active = 1 /\ bs.orig_lr = sp
         /\ frame[sp].await = "bsearch" /\ Target = TRAP_BSEARCH_RET
<1>1. Target = pc /\ Goes(pc, sp, bs, pts, frame)
  BY RunningTarget, Addresses DEF GoesBack, Back
<1> QED
  BY <1>1, Addresses, Types DEF Goes

LEMMA AtPthreadRet ==
  ASSUME TypeInv, ControlInv, mode = "guest", pc = TRAP_PTHREAD_RET
  PROVE  /\ sp \in Code /\ pts.active = 1 /\ pts.caller_lr = sp
         /\ frame[sp].await = "pthread" /\ Target = TRAP_PTHREAD_RET
<1>1. Target = pc /\ Goes(pc, sp, bs, pts, frame)
  BY RunningTarget, Addresses DEF GoesBack, Back
<1> QED
  BY <1>1, Addresses, Types DEF Goes

LEMMA BsearchRetControl ==
  ASSUME TypeInv, ControlInv, FetchBsearchRet
  PROVE  ControlInv'
<1>1. /\ sp \in Code /\ bs.active = 1 /\ bs.orig_lr = sp /\ frame[sp].await = "bsearch"
      /\ UNCHANGED <<stack, pts>> /\ SearchStep
  BY AtBsearchRet DEF FetchBsearchRet
<1>2. bs \in Search /\ sp \in Addr /\ bs.compar \in Addr
  BY <1>1, Types, AddrType DEF Addr, Search
<1>3. CASE StopSlice(sp)
  <2>1. Target' = sp /\ mode' = "after" /\ sp' = sp
    BY <1>1, <1>2, <1>3, TrapTarget DEF stack
  <2>2. GoesBack'
    BY <1>1, <2>1, Addresses DEF GoesBack, Back, Goes
  <2> QED
    BY <1>1, <2>1, <2>2, TrapControl
<1>4. CASE /\ StopSlice(bs.compar) /\ lr' = TRAP_BSEARCH_RET
           /\ bs'.active = 1 /\ bs'.orig_lr = sp
  <2>1. Target' = bs.compar /\ mode' = "after"
    BY <1>2, <1>4, TrapTarget
  <2>2. Goes(TRAP_BSEARCH_RET, sp', bs', pts', frame')
    BY <1>1, <1>4 DEF Goes, stack
  <2>3. GoesBack'
    BY <1>2, <1>4, <2>1, <2>2, Addresses DEF GoesBack, Back, Search
  <2> QED
    BY <1>1, <2>1, <2>3, TrapControl
<1>5. \/ StopSlice(sp)
      \/ /\ StopSlice(bs.compar) /\ lr' = TRAP_BSEARCH_RET
         /\ bs'.active = 1 /\ bs'.orig_lr = sp
  BY <1>1, <1>2 DEF SearchStep, RedirectTo, Narrow, Search
<1> QED
  BY <1>3, <1>4, <1>5

LEMMA PthreadRetControl ==
  ASSUME TypeInv, ControlInv, FetchPthreadRet
  PROVE  ControlInv'
<1>1. /\ sp \in Code /\ pts.active = 1 /\ pts.caller_lr = sp
      /\ UNCHANGED <<stack, bs>> /\ ThreadReturn
  BY AtPthreadRet DEF FetchPthreadRet
<1>2. StopSlice(sp) /\ sp \in Addr
  BY <1>1 DEF ThreadReturn, RedirectTo, Addr
<1>3. Target' = sp /\ mode' = "after" /\ sp' = sp
  BY <1>1, <1>2, TrapTarget DEF stack
<1>4. GoesBack'
  BY <1>1, <1>3, Addresses DEF GoesBack, Back, Goes
<1> QED
  BY <1>1, <1>3, <1>4, TrapControl

-----------------------------------------------------------------------------
LEMMA InitControl == Init => ControlInv
<1> SUFFICES ASSUME Init PROVE ControlInv
  OBVIOUS
<1>1. frame[1].ret = NULL
  BY Addresses DEF Init, NoFrame
<1>2. ChainInv
  BY <1>1, Addresses DEF Init, ChainInv, Back, Goes
<1>3. GoesBack
  BY Addresses DEF Init, GoesBack, Target, Back, Goes
<1> QED
  BY <1>2, <1>3 DEF Init, ControlInv

LEMMA NextControl ==
  ASSUME TypeInv, ControlInv, Nested = FALSE, [Next]_vars
  PROVE  ControlInv'
<1>1. CASE UNCHANGED vars
  BY <1>1 DEF vars, regs, stack, slots, ControlInv, ChainInv, GoesBack, Target, Back
<1> QED
  BY <1>1, LoopControl, NullControl, ExitControl, EnterControl, ReturnControl,
     PlainCallControl, BsearchControl, PthreadControl, BsearchRetControl,
     PthreadRetControl
     DEF Next, Guest, GuestCall, Hook, Host, Done

LEMMA AlwaysControl ==
  ASSUME Nested = FALSE
  PROVE  Spec => [](TypeInv /\ ControlInv)
<1>1. TypeInv /\ ControlInv /\ [Next]_vars => ControlInv'
  BY NextControl
<1> QED
  BY <1>1, InitTypeInv, NextTypeInv, InitControl, PTL DEF Spec

\* Whatever traps, callbacks and tail calls come in between, guest code runs
\* only in the activation on top of the guest's stack.
THEOREM ControlReturnsToCaller ==
  ASSUME Nested = FALSE
  PROVE  Spec => []ControlMatchesStack
<1>1. TypeInv /\ ControlInv => ControlMatchesStack
  BY RunningTarget, Addresses, Types DEF GoesBack, Back, Goes, ControlMatchesStack
<1> QED
  BY <1>1, AlwaysControl, PTL

\* A callback returns while the call that started it is still in its slot.
THEOREM ReturnsAreAwaited ==
  ASSUME Nested = FALSE
  PROVE  Spec => []NoStrayReturn
<1>1. TypeInv /\ ControlInv => NoStrayReturn
  BY AtBsearchRet, AtPthreadRet DEF NoStrayReturn
<1> QED
  BY <1>1, AlwaysControl, PTL

-----------------------------------------------------------------------------
(***************************************************************************)
(* Answers.  What a call returns survives every callback it makes, because *)
(* the search it is part of keeps its place between two comparisons.       *)
(***************************************************************************)
\* The answer w is null, or the pointer of an element in the search's window.
Due(s, w) == \/ s.key % 2 = 0 /\ w = NULL
             \/ s.key = 2*w + 1 /\ s.lo <= w - 1 /\ w - 1 <= s.hi

\* The caller of an active search waits for what the search can still find.
SearchInv ==
  bs.active = 1 =>
    /\ bs.orig_lr \in Code /\ frame[bs.orig_lr].await = "bsearch"
    /\ bs.compar = COMPAR => Due(bs, frame[bs.orig_lr].want)
    /\ bs.compar = NULL => frame[bs.orig_lr].want = ANY

\* The comparison of the middle element is about to be entered, or runs as the
\* activation on top of the caller, or has answered.
ComparCalled ==
  /\ bs.orig_lr = sp /\ Target = bs.compar /\ lr = TRAP_BSEARCH_RET
  /\ r3 = bs.key /\ r4 = Pointer(bs.mid)

ComparRuns ==
  /\ bs.orig_lr + 1 \in 1 .. sp
  /\ LET f == frame[bs.orig_lr + 1]
     IN  /\ f.fn = "compar" /\ f.ret = TRAP_BSEARCH_RET
         /\ f.key = bs.key /\ f.elem = Pointer(bs.mid)

ComparReturns ==
  /\ bs.orig_lr = sp /\ Target = TRAP_BSEARCH_RET
  /\ bs.compar = COMPAR => r3 = Compare(bs.key, Pointer(bs.mid))

Comparing == bs.active = 1 => ComparCalled \/ ComparRuns \/ ComparReturns

\* What an activation waits for when it is not in a search.
WantInv == \A d \in Code :
  /\ frame[d].await = "pthread" => frame[d].want = THREAD_ID
  /\ frame[d].await \in {"none", "import"} => frame[d].want = ANY

\* Only the null call of an ordinary call returns without passing a trap.
PlainReturns ==
  /\ \A d \in 1 .. sp : frame[d].ret \notin Code
  /\ mode # "done" /\ Target \in Entry => lr \notin Code
  /\ mode # "done" /\ Target = NULL /\ lr \in Code => frame[lr].want = ANY

\* An activation that runs next has its answer.
Answered == Target \in Code => frame[Target].want = ANY \/ frame[Target].want = r3

AnswerInv ==
  /\ SearchInv
  /\ WantInv
  /\ PlainReturns
  /\ mode # "done" => Comparing
  /\ mode # "done" /\ ctx.should_stop = 0 => Answered

-----------------------------------------------------------------------------
\* The window of a search keeps the element that is due, and a comparison that
\* finds it equal finds the answer.
LEMMA DueKept ==
  ASSUME NEW s \in Search, NEW w \in Int, Due(s, w),
         NEW c \in Int, c = Compare(s.key, Pointer(s.mid))
  PROVE  /\ c = 0 => w = Pointer(s.mid)
         /\ c # 0 => Due(Narrow(s, c), w)
<1>1. /\ s.key \in Int /\ s.lo \in Int /\ s.hi \in Int /\ s.mid \in Int
  BY TrapLoopAssumption DEF Search
<1>2. Pointer(s.mid) = s.mid + 1
  BY DEF Pointer
<1>3. CASE c = 0
  <2>1. s.key = 2 * (s.mid + 1) + 1
    BY <1>1, <1>2, <1>3 DEF Compare
  <2> QED
    BY <1>1, <1>2, <1>3, <2>1 DEF Due
<1>4. CASE c < 0
  <2>1. s.key < 2 * (s.mid + 1) + 1
    BY <1>1, <1>2, <1>4 DEF Compare
  <2>2. Narrow(s, c) = [s EXCEPT !.hi = s.mid - 1]
    BY <1>4 DEF Narrow
  <2>3. /\ Narrow(s, c).key = s.key /\ Narrow(s, c).lo = s.lo
        /\ Narrow(s, c).hi = s.mid - 1
    BY <2>2 DEF Search
  <2> QED
    BY <1>1, <1>4, <2>1, <2>3 DEF Due
<1>5. CASE c > 0
  <2>1. s.key > 2 * (s.mid + 1) + 1
    BY <1>1, <1>2, <1>5 DEF Compare
  <2>2. Narrow(s, c) = [s EXCEPT !.lo = s.mid + 1]
    BY <1>5 DEF Narrow
  <2>3. /\ Narrow(s, c).key = s.key /\ Narrow(s, c).hi = s.hi
        /\ Narrow(s, c).lo = s.mid + 1
    BY <2>2 DEF Search
  <2> QED
    BY <1>1, <1>5, <2>1, <2>3 DEF Due
<1> QED
  BY <1>3, <1>4, <1>5

\* An empty window holds nothing.
LEMMA NothingDue ==
  ASSUME NEW s, s.lo \in Int, s.hi \in Int, s.lo > s.hi, NEW w \in Int, Due(s, w)
  PROVE  w = NULL
BY DEF Due

\* While an activation runs, an active search waits below it.
LEMMA SearchBelow ==
  ASSUME TypeInv, ControlInv, AnswerInv, mode = "guest", bs.active = 1,
         pc \in Code \cup {TRAP_PTHREAD_RET}
  PROVE  ComparRuns /\ bs.orig_lr \in Int /\ 0 < bs.orig_lr /\ bs.orig_lr < sp
<1>1. Target = pc /\ bs.compar \in {COMPAR, NULL}
  BY RunningTarget, Types DEF Search
<1>2. ComparRuns
  BY <1>1, Addresses DEF AnswerInv, Comparing, ComparCalled, ComparReturns
<1>3. bs.orig_lr \in Code
  BY DEF AnswerInv, SearchInv
<1> QED
  BY <1>2, <1>3, Addresses, Types DEF ComparRuns

(***************************************************************************)
(* Steps that leave the stack and the search alone.                        *)
(***************************************************************************)
LEMMA StillAnswers ==
  ASSUME AnswerInv, UNCHANGED <<stack, bs>>, mode # "done",
         mode' # "done" => PlainReturns' /\ Comparing',
         mode' # "done" /\ ctx'.should_stop = 0 => Answered'
  PROVE  AnswerInv'
<1>1. SearchInv' /\ WantInv'
  BY DEF AnswerInv, SearchInv, WantInv, stack
<1>2. PlainReturns'
  BY DEF AnswerInv, PlainReturns, stack
<1> QED
  BY <1>1, <1>2 DEF AnswerInv

LEMMA LoopAnswers ==
  ASSUME TypeInv, ControlInv, AnswerInv,
         StartSlice \/ Fault \/ Timeout \/ Resume \/ Leave
  PROVE  AnswerInv'
<1>1. CASE Leave
  BY <1>1, StillAnswers DEF Leave, Finish, slots
<1>2. CASE ~Leave
  <2>1. /\ UNCHANGED <<lr, r3, r4, stack, slots>> /\ mode # "done"
        /\ ctx'.should_stop = ctx.should_stop
    BY <1>2, Types DEF StartSlice, Fault, Timeout, Resume, regs, Context
  <2>2. Target' = Target
    <3>1. CASE Resume
      BY <3>1 DEF Resume, Target
    <3>2. CASE StartSlice \/ Fault \/ Timeout
      BY <3>2 DEF StartSlice, Fault, Timeout, regs, Target, ControlInv
    <3> QED
      BY <1>2, <3>1, <3>2
  <2>3. PlainReturns' /\ Comparing'
    BY <2>1, <2>2 DEF AnswerInv, PlainReturns, Comparing, ComparCalled, ComparRuns,
                      ComparReturns, stack, slots
  <2>4. ctx'.should_stop = 0 => Answered'
    BY <2>1, <2>2 DEF AnswerInv, Answered, stack
  <2> QED
    BY <2>1, <2>3, <2>4, StillAnswers DEF slots
<1> QED
  BY <1>1, <1>2

\* A null comparison answers anything and is asked for nothing.
LEMMA NullAnswers ==
  ASSUME TypeInv, ControlInv, AnswerInv, FetchNull \/ LoopNull
  PROVE  AnswerInv'
<1>1. /\ Target = pc /\ pc = NULL /\ lr \in Addr /\ mode # "done"
      /\ UNCHANGED <<stack, slots>> /\ lr' = lr
  BY RunningTarget, Types DEF FetchNull, LoopNull, ReturnTo
<1>2. CASE mode' = "done"
  BY <1>1, <1>2, StillAnswers DEF slots
<1>3. CASE mode' # "done"
  <2>1. Target' = lr
    <3>1. CASE FetchNull
      BY <1>1, <3>1, TrapTarget DEF FetchNull, ReturnTo
    <3>2. CASE LoopNull
      BY <1>3, <3>2 DEF LoopNull, Finish, Target
    <3> QED
      BY <3>1, <3>2
  <2>2. lr = NULL \/ lr \in Code \cup Traps
    BY <1>1, RunningTarget DEF FetchNull, LoopNull, GoesBack, Back, Goes, Traps
  <2>3. Comparing'
    BY <1>1, <2>1, Addresses
       DEF AnswerInv, Comparing, ComparCalled, ComparRuns, ComparReturns, stack, slots
  <2>4. PlainReturns'
    BY <1>1, <2>1, <2>2, Addresses DEF AnswerInv, PlainReturns, stack
  <2>5. Answered'
    BY <1>1, <2>1 DEF AnswerInv, PlainReturns, Answered, stack
  <2> QED
    BY <1>1, <2>3, <2>4, <2>5, StillAnswers DEF slots
<1> QED
  BY <1>2, <1>3

LEMMA ExitAnswers ==
  ASSUME TypeInv, ControlInv, AnswerInv, CallExit \/ SyscallExit
  PROVE  AnswerInv'
<1>1. /\ pc = sp /\ sp \in Code /\ mode = "guest" /\ Target = sp
      /\ UNCHANGED <<pc, stack, slots>>
  BY RunningOnTop DEF CallExit, SyscallExit, Running, slots
<1>2. Target' = sp /\ ctx'.should_stop = 1
  <2>1. CASE CallExit
    <3>1. PICK code \in ExitCodes \cup {ABORTED} :
            ctx' = [trap_pending |-> 1, resume_pc |-> sp, should_stop |-> 1,
                    exit_code |-> code]
      BY <2>1 DEF CallExit
    <3>2. ctx'.resume_pc = sp /\ ctx'.should_stop = 1
      BY <3>1
    <3> QED
      BY <1>1, <3>2 DEF Target
  <2>2. CASE SyscallExit
    <3>1. PICK code \in ExitCodes :
            ctx' = [ctx EXCEPT !.should_stop = 1, !.exit_code = code]
      BY <2>2 DEF SyscallExit
    <3>2. ctx'.trap_pending = 0 /\ ctx'.should_stop = 1
      BY <1>1, <3>1, Types DEF ControlInv, Context
    <3> QED
      BY <1>1, <3>2 DEF Target
  <2> QED
    BY <2>1, <2>2
<1>4. Comparing'
  BY <1>1, SearchBelow DEF Comparing, ComparRuns, stack, slots
<1>5. PlainReturns'
  BY <1>1, <1>2, Addresses DEF AnswerInv, PlainReturns, stack
<1> QED
  BY <1>1, <1>2, <1>4, <1>5, StillAnswers DEF slots

LEMMA PthreadRetAnswers ==
  ASSUME TypeInv, ControlInv, AnswerInv, FetchPthreadRet
  PROVE  AnswerInv'
<1>1. /\ sp \in Code /\ pts.active = 1 /\ pts.caller_lr = sp
      /\ frame[sp].await = "pthread" /\ mode = "guest" /\ pc = TRAP_PTHREAD_RET
      /\ UNCHANGED <<stack, bs>> /\ ThreadReturn
  BY AtPthreadRet DEF FetchPthreadRet
<1>2. StopSlice(sp) /\ r3' = THREAD_ID /\ sp \in Addr
  BY <1>1 DEF ThreadReturn, RedirectTo, Addr
<1>3. Target' = sp
  BY <1>2, TrapTarget
<1>4. Answered'
  BY <1>1, <1>2, <1>3 DEF AnswerInv, WantInv, Answered, stack
<1>5. Comparing'
  BY <1>1, SearchBelow DEF Comparing, ComparRuns, stack
<1>6. PlainReturns'
  BY <1>1, <1>3, Addresses DEF AnswerInv, PlainReturns, stack
<1> QED
  BY <1>1, <1>4, <1>5, <1>6, StillAnswers

(***************************************************************************)
(* The comparison has returned to the search.                              *)
(***************************************************************************)
LEMMA BsearchRetAnswers ==
  ASSUME TypeInv, ControlInv, AnswerInv, FetchBsearchRet
  PROVE  AnswerInv'
<1> DEFINE want == frame[sp].want
           next == Narrow(bs, r3)
           mid  == Mid(next.lo, next.hi)
<1>1. /\ sp \in Code /\ bs.active = 1 /\ bs.orig_lr = sp /\ mode = "guest"
      /\ frame[sp].await = "bsearch" /\ Target = TRAP_BSEARCH_RET
      /\ UNCHANGED stack /\ SearchStep
  BY AtBsearchRet DEF FetchBsearchRet
<1>2. bs \in Search /\ r3 \in Int /\ sp \in Addr /\ sp \in Int /\ want \in Int
  BY <1>1, Types, TrapLoopAssumption DEF Addr, Frame, ANY, THREAD_ID
<1>3. /\ bs.compar \in {COMPAR, NULL}
      /\ bs.compar = COMPAR => Due(bs, want) /\ r3 = Compare(bs.key, Pointer(bs.mid))
      /\ bs.compar = NULL => want = ANY
  <2>1. ComparReturns
    BY <1>1, <1>2, Addresses
       DEF AnswerInv, Comparing, ComparCalled, ComparRuns, Search
  <2> QED
    BY <1>1, <1>2, <2>1 DEF ComparReturns, AnswerInv, SearchInv, Search
<1>4. /\ next.orig_lr = sp /\ next.compar = bs.compar /\ next.key = bs.key
      /\ next.active = 1 /\ next.lo \in Int /\ next.hi \in Int
  BY <1>1, <1>2, TrapLoopAssumption DEF Narrow, Search
<1>5. CASE StopSlice(sp) /\ bs'.active = 0 /\ (want = ANY \/ want = r3')
  <2>1. Target' = sp
    BY <1>2, <1>5, TrapTarget
  <2>2. Answered' /\ PlainReturns'
    BY <1>1, <1>5, <2>1, Addresses DEF AnswerInv, Answered, PlainReturns, stack
  <2>3. SearchInv' /\ Comparing' /\ WantInv'
    BY <1>1, <1>5 DEF AnswerInv, SearchInv, Comparing, WantInv, stack
  <2> QED
    BY <2>2, <2>3 DEF AnswerInv
<1>6. CASE /\ bs.compar = COMPAR => Due(next, want)
           /\ bs' = [next EXCEPT !.mid = mid]
           /\ RedirectTo(bs.compar, bs.key, Pointer(mid), TRAP_BSEARCH_RET)
  <2>1. /\ bs'.active = 1 /\ bs'.orig_lr = sp /\ bs'.compar = bs.compar
        /\ bs'.key = bs.key /\ bs'.lo = next.lo /\ bs'.hi = next.hi /\ bs'.mid = mid
    BY <1>1, <1>2, <1>4, <1>6 DEF Narrow, Search
  <2>2. Target' = bs.compar
    BY <1>3, <1>6, AddrType, TrapTarget DEF RedirectTo
  <2>3. SearchInv'
    BY <1>1, <1>3, <1>4, <1>6, <2>1 DEF SearchInv, Due, stack
  <2>4. Comparing'
    BY <1>1, <1>6, <2>1, <2>2 DEF Comparing, ComparCalled, RedirectTo, stack
  <2>5. PlainReturns' /\ Answered' /\ WantInv'
    BY <1>1, <1>3, <1>6, <2>2, Addresses
       DEF AnswerInv, PlainReturns, Answered, WantInv, RedirectTo, stack
  <2> QED
    BY <2>3, <2>4, <2>5 DEF AnswerInv
<1>7. CASE r3 = 0
  <2>1. StopSlice(sp) /\ bs'.active = 0 /\ r3' = Pointer(bs.mid)
    BY <1>1, <1>2, <1>7 DEF SearchStep, RedirectTo, Search
  <2>2. want = ANY \/ want = Pointer(bs.mid)
    BY <1>2, <1>3, <1>7, DueKept
  <2> QED
    BY <1>5, <2>1, <2>2
<1>8. CASE r3 # 0
  <2>1. bs.compar = COMPAR => Due(next, want)
    BY <1>2, <1>3, <1>8, DueKept
  <2>2. CASE next.lo > next.hi
    <3>1. StopSlice(sp) /\ bs'.active = 0 /\ r3' = NULL
      BY <1>1, <1>2, <1>4, <1>8, <2>2, Addresses, SMTT(20)
         DEF SearchStep, RedirectTo, Narrow, Search
    <3>2. want = ANY \/ want = NULL
      BY <1>2, <1>3, <1>4, <2>1, <2>2, NothingDue
    <3> QED
      BY <1>5, <3>1, <3>2
  <2>3. CASE next.lo <= next.hi
    BY <1>1, <1>4, <1>6, <1>8, <2>1, <2>3 DEF SearchStep
  <2> QED
    BY <1>4, <2>2, <2>3
<1> QED
  BY <1>2, <1>7, <1>8

-----------------------------------------------------------------------------
(***************************************************************************)
(* Steps of the guest.  The frame that moves is above a search's caller.   *)
(***************************************************************************)
LEMMA EnterAnswers ==
  ASSUME TypeInv, ControlInv, AnswerInv, GuestEnter
  PROVE  AnswerInv'
<1>1. /\ mode = "guest" /\ mode' = "guest" /\ pc \in Entry /\ sp < MaxDepth
      /\ sp' = sp + 1 /\ UNCHANGED <<lr, r3, r4, ctx, bs>> /\ pc' = sp + 1
  BY DEF GuestEnter, slots
<1>2. /\ Target = pc /\ Target' = sp + 1
      /\ sp \in Int /\ 0 <= sp /\ sp + 1 \in Code /\ lr \in Addr
  BY <1>1, RunningTarget, Types, Addresses DEF ControlInv, Target
<1>3. /\ frame'[sp + 1] = [fn |-> IF pc = COMPAR THEN "compar" ELSE "start", ret |-> lr,
                           await |-> "none", want |-> ANY, key |-> r3, elem |-> r4]
      /\ \A d \in Code : d # sp + 1 => frame'[d] = frame[d]
  BY <1>2, Types DEF GuestEnter
<1>4. /\ frame'[sp + 1].fn = IF pc = COMPAR THEN "compar" ELSE "start"
      /\ frame'[sp + 1].ret = lr /\ frame'[sp + 1].await = "none"
      /\ frame'[sp + 1].want = ANY /\ frame'[sp + 1].key = r3 /\ frame'[sp + 1].elem = r4
  BY <1>3
<1>5. bs.active = 1 => bs.orig_lr \in Code /\ bs.orig_lr <= sp
  BY <1>1, <1>2, Addresses
     DEF AnswerInv, SearchInv, Comparing, ComparCalled, ComparRuns, ComparReturns
<1>6. SearchInv'
  BY <1>1, <1>2, <1>3, <1>5, Addresses DEF AnswerInv, SearchInv
<1>7. WantInv'
  BY <1>3, <1>4 DEF AnswerInv, WantInv
<1>8. PlainReturns'
  <2>1. ASSUME NEW d \in 1 .. sp + 1 PROVE frame'[d].ret \notin Code
    BY <1>1, <1>2, <1>3, <1>4, Addresses DEF AnswerInv, PlainReturns
  <2> QED
    BY <1>1, <1>2, <2>1, Addresses DEF PlainReturns
<1>9. ASSUME bs.active = 1
      PROVE  ComparRuns'
  <2>1. CASE ComparCalled
    <3>1. bs.compar \in {COMPAR, NULL} /\ pc = COMPAR /\ bs.orig_lr = sp
      BY <1>1, <1>2, <2>1, Addresses, Types DEF ComparCalled, Search
    <3>2. /\ frame'[sp + 1].fn = "compar" /\ frame'[sp + 1].ret = TRAP_BSEARCH_RET
          /\ frame'[sp + 1].key = bs.key /\ frame'[sp + 1].elem = Pointer(bs.mid)
      BY <1>4, <2>1, <3>1 DEF ComparCalled
    <3>3. bs'.orig_lr + 1 = sp + 1 /\ sp + 1 \in 1 .. sp'
      BY <1>1, <1>2, <3>1
    <3> QED
      BY <1>1, <3>2, <3>3 DEF ComparRuns
  <2>2. CASE ComparRuns
    <3>1. bs.orig_lr + 1 \in 1 .. sp /\ frame'[bs.orig_lr + 1] = frame[bs.orig_lr + 1]
      BY <1>2, <1>3, <2>2, Addresses DEF ComparRuns
    <3> QED
      BY <1>1, <1>2, <2>2, <3>1 DEF ComparRuns
  <2> QED
    BY <1>1, <1>2, <1>9, <2>1, <2>2, Addresses DEF AnswerInv, Comparing, ComparReturns
<1>10. Answered'
  BY <1>2, <1>4 DEF Answered
<1> QED
  BY <1>1, <1>6, <1>7, <1>8, <1>9, <1>10 DEF AnswerInv, Comparing

LEMMA ReturnAnswers ==
  ASSUME TypeInv, ControlInv, AnswerInv, GuestReturn \/ TailCallImport
  PROVE  AnswerInv'
<1>1. /\ Running /\ Pop /\ UNCHANGED slots /\ mode = "guest"
      /\ lr' = frame[sp].ret /\ r3' = Result(frame[sp])
  BY DEF GuestReturn, TailCallImport, Running, ReturnTo
<1>2. /\ pc = sp /\ sp \in Code /\ sp \in Int /\ sp' = sp - 1
      /\ \A d \in Code : d # sp => frame'[d] = frame[d]
      /\ frame'[sp] = NoFrame /\ frame[sp].ret \in Addr
  BY <1>1, RunningOnTop, Types DEF Pop, Frame
<1>3. Target' = frame[sp].ret
  <2>1. CASE GuestReturn
    BY <1>1, <2>1 DEF GuestReturn, Target, ControlInv
  <2>2. CASE TailCallImport
    BY <1>2, <2>2, TrapTarget DEF TailCallImport, ReturnTo
  <2> QED
    BY <2>1, <2>2
<1>4. frame[sp].ret \notin Code /\ lr' = Target'
  BY <1>1, <1>2, <1>3, Addresses DEF AnswerInv, PlainReturns
<1>5. ASSUME bs.active = 1
      PROVE  /\ ComparRuns /\ bs.orig_lr \in Int /\ 0 < bs.orig_lr /\ bs.orig_lr < sp
             /\ frame'[bs.orig_lr] = frame[bs.orig_lr]
  <2>1. ComparRuns /\ bs.orig_lr \in Int /\ 0 < bs.orig_lr /\ bs.orig_lr < sp
    BY <1>1, <1>2, <1>5, SearchBelow
  <2> QED
    BY <1>2, <2>1, Addresses
<1>6. SearchInv'
  BY <1>1, <1>5 DEF AnswerInv, SearchInv, slots
<1>7. WantInv'
  BY <1>2 DEF AnswerInv, WantInv, NoFrame
<1>8. PlainReturns'
  <2>1. ASSUME NEW d \in 1 .. sp - 1 PROVE frame'[d].ret \notin Code
    BY <1>2, Addresses DEF AnswerInv, PlainReturns
  <2> QED
    BY <1>2, <1>3, <1>4, <2>1 DEF PlainReturns
<1>9. Comparing'
  <2> SUFFICES ASSUME bs.active = 1 PROVE ComparRuns' \/ ComparReturns'
    BY <1>1 DEF Comparing, slots
  <2>1. CASE bs.orig_lr + 1 = sp
    <3>1. /\ frame[sp].fn = "compar" /\ frame[sp].ret = TRAP_BSEARCH_RET
          /\ frame[sp].key = bs.key /\ frame[sp].elem = Pointer(bs.mid)
      BY <1>5, <2>1 DEF ComparRuns
    <3>2. r3' = Compare(bs.key, Pointer(bs.mid))
      BY <1>1, <3>1 DEF Result
    <3>3. bs.orig_lr = sp - 1
      BY <1>2, <1>5, <2>1
    <3> QED
      BY <1>1, <1>2, <1>3, <3>1, <3>2, <3>3 DEF ComparReturns, slots
  <2>2. CASE bs.orig_lr + 1 # sp
    <3>1. /\ bs.orig_lr + 1 \in 1 .. sp - 1
          /\ frame'[bs.orig_lr + 1] = frame[bs.orig_lr + 1]
      BY <1>2, <1>5, <2>2, Addresses
    <3> QED
      BY <1>1, <1>2, <1>5, <3>1 DEF ComparRuns, slots
  <2> QED
    BY <2>1, <2>2
<1>10. Answered'
  BY <1>3, <1>4 DEF Answered
<1> QED
  BY <1>6, <1>7, <1>8, <1>9, <1>10 DEF AnswerInv

(***************************************************************************)
(* Calls.  One that starts no search leaves the search where it is: its    *)
(* caller waits below.                                                     *)
(***************************************************************************)
LEMMA CallAnswers ==
  ASSUME TypeInv, ControlInv, AnswerInv, Running, sp' = sp, bs' = bs,
         NEW what \in {"import", "pthread"}, NEW answer, Awaiting(what, answer),
         what = "import" => answer = ANY, what = "pthread" => answer = THREAD_ID,
         Target' = NULL /\ lr' \in Code => lr' = sp /\ what = "import",
         Target' \in Entry => lr' \notin Code,
         Target' \in Code => Target' = sp /\ what = "import"
  PROVE  AnswerInv'
<1>1. /\ sp \in Code /\ sp \in Int /\ pc = sp /\ mode = "guest"
      /\ \A d \in Code : d # sp => frame'[d] = frame[d]
      /\ frame'[sp].await = what /\ frame'[sp].want = answer
  BY RunningOnTop, CallFrames DEF Running
<1>2. \A d \in Code : /\ frame'[d].ret = frame[d].ret /\ frame'[d].fn = frame[d].fn
                      /\ frame'[d].key = frame[d].key /\ frame'[d].elem = frame[d].elem
  BY <1>1, Types DEF Awaiting, Frame
<1>3. ASSUME bs.active = 1
      PROVE  /\ ComparRuns /\ bs.orig_lr # sp
             /\ bs.orig_lr + 1 \in Code
  BY <1>1, <1>3, SearchBelow, Addresses
<1>4. SearchInv'
  BY <1>1, <1>3 DEF AnswerInv, SearchInv
<1>5. WantInv'
  BY <1>1 DEF AnswerInv, WantInv
<1>6. Comparing'
  BY <1>2, <1>3 DEF Comparing, ComparRuns
<1>7. PlainReturns'
  <2>1. ASSUME NEW d \in 1 .. sp PROVE frame'[d].ret \notin Code
    BY <1>1, <1>2, Addresses DEF AnswerInv, PlainReturns
  <2> QED
    BY <1>1, <2>1, Addresses DEF PlainReturns
<1>8. Answered'
  BY <1>1 DEF Answered
<1> QED
  BY <1>4, <1>5, <1>6, <1>7, <1>8 DEF AnswerInv

LEMMA PlainCallAnswers ==
  ASSUME TypeInv, ControlInv, AnswerInv, CallImport \/ CallNull
  PROVE  AnswerInv'
<1>1. Running /\ Awaiting("import", ANY) /\ sp' = sp /\ bs' = bs
  BY DEF CallImport, CallNull, slots
<1>2. sp \in Code /\ sp \in Addr /\ mode = "guest" /\ ctx.trap_pending = 0
  BY <1>1, RunningOnTop DEF Addr, Running, ControlInv
<1>3. lr' = sp /\ Target' \in {sp, NULL}
  <2>1. CASE CallImport
    BY <1>2, <2>1, TrapTarget DEF CallImport, ReturnTo
  <2>2. CASE CallNull
    BY <1>2, <2>2 DEF CallNull, Target
  <2> QED
    BY <2>1, <2>2
<1> QED
  BY <1>1, <1>2, <1>3, CallAnswers, Addresses

LEMMA PthreadAnswers ==
  ASSUME TypeInv, ControlInv, AnswerInv, CallPthreadCreate
  PROVE  AnswerInv'
<1>1. Running /\ Awaiting("pthread", THREAD_ID) /\ sp' = sp /\ bs' = bs
  BY DEF CallPthreadCreate
<1>2. PICK start \in {START, NULL}, arg \in {0, 1} : StartThread(start, arg, sp)
  BY DEF CallPthreadCreate
<1>3. lr' = TRAP_PTHREAD_RET /\ StopSlice(start)
  BY <1>2 DEF StartThread, RedirectTo
<1>4. Target' = start
  BY <1>3, TrapTarget, AddrType
<1> QED
  BY <1>1, <1>3, <1>4, CallAnswers, Addresses

\* The window of a new search is the whole array.
LEMMA NewSearchDue ==
  ASSUME NEW n \in 0 .. MaxElems, NEW k \in Keys(n), NEW s,
         s.key = k, s.lo = 0, s.hi = n - 1
  PROVE  Due(s, Answer(n, k)) /\ (n = 0 => Answer(n, k) = NULL)
<1>1. k \in Int /\ 2 <= k /\ k <= 2 * n + 2 /\ n \in Int
  BY TrapLoopAssumption DEF Keys
<1>2. CASE k % 2 = 1
  <2>1. Answer(n, k) = (k - 1) \div 2
    BY <1>2 DEF Answer
  <2>2. k = 2 * ((k - 1) \div 2) + 1
    BY <1>1, <1>2
  <2>3. 0 <= ((k - 1) \div 2) - 1 /\ ((k - 1) \div 2) - 1 <= n - 1
    BY <1>1, <2>2
  <2> QED
    BY <1>1, <2>1, <2>2, <2>3 DEF Due
<1>3. CASE k % 2 # 1
  BY <1>1, <1>3 DEF Answer, Due
<1> QED
  BY <1>2, <1>3

LEMMA BsearchAnswers ==
  ASSUME TypeInv, ControlInv, AnswerInv, Nested = FALSE, CallBsearch
  PROVE  AnswerInv'
<1>1. PICK n \in 0 .. MaxElems : \E k \in Keys(n), compar \in {COMPAR, NULL} :
        /\ Awaiting("bsearch", IF compar = COMPAR THEN Answer(n, k) ELSE ANY)
        /\ StartSearch(n, k, compar, sp)
  BY DEF CallBsearch
<1>2. PICK k \in Keys(n), compar \in {COMPAR, NULL} :
        /\ Awaiting("bsearch", IF compar = COMPAR THEN Answer(n, k) ELSE ANY)
        /\ StartSearch(n, k, compar, sp)
  BY <1>1
<1> DEFINE answer == IF compar = COMPAR THEN Answer(n, k) ELSE ANY
<1>3. Running /\ sp' = sp /\ Awaiting("bsearch", answer)
  BY <1>2 DEF CallBsearch
<1>4. /\ sp \in Code /\ sp \in Int /\ sp \in Addr /\ mode = "guest"
      /\ \A d \in Code : d # sp => frame'[d] = frame[d]
      /\ frame'[sp].await = "bsearch" /\ frame'[sp].want = answer
      /\ frame'[sp].ret = frame[sp].ret
  BY <1>3, RunningOnTop, CallFrames DEF Running, Addr
<1>5. /\ bs'.active = IF n > 0 THEN 1 ELSE 0
      /\ bs'.key = k /\ bs'.compar = compar /\ bs'.orig_lr = sp
      /\ bs'.lo = 0 /\ bs'.hi = n - 1
  BY <1>2 DEF StartSearch
<1>6. SearchInv'
  BY <1>4, <1>5, NewSearchDue, Addresses DEF SearchInv
<1>7. WantInv'
  BY <1>4 DEF AnswerInv, WantInv
<1>8. ASSUME NEW d \in 1 .. sp PROVE frame'[d].ret \notin Code
  BY <1>4, Addresses DEF AnswerInv, PlainReturns
<1>9. CASE n = 0
  <2>1. Target' = sp /\ lr' = sp /\ r3' = NULL
    BY <1>2, <1>4, <1>9, TrapTarget DEF StartSearch, ReturnTo
  <2>2. Answered'
    BY <1>4, <1>9, <2>1, <1>5, NewSearchDue DEF Answered
  <2>3. PlainReturns'
    BY <1>3, <1>4, <1>8, <2>1, Addresses DEF PlainReturns
  <2>4. Comparing'
    BY <1>5, <1>9 DEF Comparing
  <2> QED
    BY <1>6, <1>7, <2>2, <2>3, <2>4 DEF AnswerInv
<1>10. CASE n > 0
  <2>1. /\ StopSlice(compar) /\ lr' = TRAP_BSEARCH_RET
        /\ r3' = k /\ r4' = Pointer(bs'.mid)
    BY <1>2, <1>10 DEF StartSearch, RedirectTo
  <2>2. Target' = compar
    BY <2>1, TrapTarget, AddrType
  <2>3. Comparing'
    BY <1>3, <1>5, <2>1, <2>2 DEF Comparing, ComparCalled
  <2>4. PlainReturns' /\ Answered'
    BY <1>3, <1>8, <2>1, <2>2, Addresses DEF PlainReturns, Answered
  <2> QED
    BY <1>6, <1>7, <2>3, <2>4 DEF AnswerInv
<1> QED
  BY <1>9, <1>10

-----------------------------------------------------------------------------
LEMMA InitAnswers == Init => AnswerInv
<1> SUFFICES ASSUME Init PROVE AnswerInv
  OBVIOUS
<1>1. /\ \A d \in Code : frame[d] = NoFrame
      /\ mode = "loop" /\ pc = 1 /\ lr = NULL /\ sp = 1 /\ bs.active = 0
  BY DEF Init
<1>2. Target = 1 /\ 1 \in Code
  BY <1>1, Addresses DEF Target
<1> QED
  BY <1>1, <1>2, Addresses
     DEF AnswerInv, SearchInv, WantInv, PlainReturns, Comparing, Answered, NoFrame

LEMMA NextAnswers ==
  ASSUME TypeInv, ControlInv, AnswerInv, Nested = FALSE, [Next]_vars
  PROVE  AnswerInv'
<1>1. CASE UNCHANGED vars
  BY <1>1 DEF vars, regs, stack, slots, AnswerInv, SearchInv, WantInv, PlainReturns,
              Comparing, ComparCalled, ComparRuns, ComparReturns, Answered, Target
<1> QED
  BY <1>1, LoopAnswers, NullAnswers, ExitAnswers, EnterAnswers, ReturnAnswers,
     PlainCallAnswers, BsearchAnswers, PthreadAnswers, BsearchRetAnswers,
     PthreadRetAnswers
     DEF Next, Guest, GuestCall, Hook, Host, Done

LEMMA AlwaysAnswers ==
  ASSUME Nested = FALSE
  PROVE  Spec => [](TypeInv /\ ControlInv /\ AnswerInv)
<1>1. TypeInv /\ ControlInv /\ [Next]_vars => ControlInv'
  BY NextControl
<1>2. TypeInv /\ ControlInv /\ AnswerInv /\ [Next]_vars => AnswerInv'
  BY NextAnswers
<1> QED
  BY <1>1, <1>2, InitTypeInv, NextTypeInv, InitControl, InitAnswers, PTL DEF Spec

\* Control is back in an activation that called bsearch or pthread_create only
\* with that call's own answer in r3, whatever its callback called meanwhile.
THEOREM AnswersReachCallers ==
  ASSUME Nested = FALSE
  PROVE  Spec => []CallsAnswered
<1>1. TypeInv /\ ControlInv /\ AnswerInv /\ NoCodeAfterExit => CallsAnswered
  <2> SUFFICES ASSUME TypeInv, ControlInv, AnswerInv, NoCodeAfterExit,
                      mode = "guest", pc = sp, sp > 0
               PROVE  frame[sp].want = ANY \/ frame[sp].want = r3
    BY DEF CallsAnswered
  <2>1. ctx.should_stop = 0
    BY Types DEF NoCodeAfterExit, Context
  <2>2. Target = sp /\ sp \in Code
    BY RunningTarget, Addresses, Types
  <2> QED
    BY <2>1, <2>2 DEF AnswerInv, Answered
<1> QED
  BY <1>1, AlwaysAnswers, NothingRunsAfterExit, PTL

\* The element a search is for stays in its window, across every round trip
\* through the guest's comparison function.
THEOREM KeyStaysInWindow ==
  ASSUME Nested = FALSE
  PROVE  Spec => []KeyInWindow
<1>1. TypeInv /\ AnswerInv => KeyInWindow
  BY TrapLoopAssumption DEF AnswerInv, SearchInv, Due, KeyInWindow, NULL, TypeInv, TypeOK, Search
<1> QED
  BY <1>1, AlwaysAnswers, PTL

-----------------------------------------------------------------------------
(***************************************************************************)
(* The calls are synchronous: every step is one of Synchronous, or is not  *)
(* seen there.                                                             *)
(***************************************************************************)
\* A callback is entered with its call's return trap; a null call was made.
AskedInv ==
  mode # "done" =>
    /\ Target = COMPAR => lr = TRAP_BSEARCH_RET
    /\ Target = START => lr = TRAP_PTHREAD_RET
    /\ Target = NULL /\ lr \in Code => frame[lr].await # "none"

SyncInv == TypeInv /\ ExitInv /\ ControlInv /\ AnswerInv /\ AskedInv

\* The activations as the specification of synchronous calls has them.
LEMMA ActivationFacts ==
  ASSUME TypeInv
  PROVE  /\ Len(Activations) = sp /\ sp \in Nat
         /\ Activations \in Seq([fn : {"main", "start", "compar"},
                                 await : {"none", "import", "bsearch", "pthread"},
                                 want : {ANY, THREAD_ID} \cup 0 .. MaxElems])
         /\ \A d \in 1 .. sp :
              Activations[d] = [fn |-> frame[d].fn, await |-> frame[d].await, want |-> frame[d].want]
<1>1. sp \in Nat /\ 1 .. sp \subseteq Code /\ frame \in [Code -> Frame]
  BY Types, Addresses
<1>2. \A d \in 1 .. sp : frame[d] \in Frame
  BY <1>1
<1> QED
  BY <1>1, <1>2 DEF Activations, Frame

\* The guest runs, and has not exited.
LEMMA GuestHasControl ==
  ASSUME SyncInv, Running
  PROVE  /\ Who = "guest" /\ Target = sp /\ pc = sp /\ sp \in Code /\ Given = r3
         /\ ctx.should_stop = 0 /\ ctx.trap_pending = 0 /\ mode = "guest"
         /\ Exited = <<>>
<1>1. /\ Target = sp /\ pc = sp /\ sp \in Code /\ mode = "guest"
  BY RunningOnTop DEF SyncInv, Running
<1>2. ctx.should_stop = 0 /\ ctx.trap_pending = 0
  BY <1>1, Types DEF SyncInv, ExitInv, ControlInv, Context
<1> QED
  BY <1>1, <1>2 DEF Who, Given, Exited

\* Where a trap's resume address leads.
LEMMA TrapLeads ==
  ASSUME SyncInv, mode = "guest", NEW resume \in Addr, StopSlice(resume),
         resume \in Code => resume = sp'
  PROVE  /\ Target' = resume /\ ctx.should_stop = 0
         /\ Who' = IF resume \in Code THEN "guest" ELSE "host"
         /\ Exited = <<>> /\ Exited' = <<>>
<1>1. Target' = resume /\ mode' = "after"
  BY TrapTarget DEF SyncInv
<1>2. ctx.should_stop = 0 /\ ctx'.should_stop = 0
  BY Types DEF SyncInv, ExitInv, Context, StopSlice
<1> QED
  BY <1>1, <1>2 DEF Who, Exited

\* What is seen of a step that leaves the stack alone.
LEMMA SameActivations ==
  ASSUME UNCHANGED stack
  PROVE  Activations' = Activations
BY DEF stack, Activations

LEMMA Unseen ==
  ASSUME UNCHANGED stack, Who' = Who, Exited' = Exited, status' = status,
         Who = "guest" => r3' = r3
  PROVE  UNCHANGED S!vars
BY SameActivations DEF Given, S!vars

\* A call of the innermost activation, answered at once or not.
LEMMA CallSeen ==
  ASSUME SyncInv, Running, sp' = sp, status' = status, Exited' = <<>>,
         NEW what, NEW want, Awaiting(what, want), what # "none",
         \/ Who' = "host"
         \/ Who' = "guest" /\ want \in {ANY, r3'}
  PROVE  S!Call
<1> DEFINE call == [fn |-> frame[sp].fn, await |-> what, want |-> want]
<1>1. /\ Who = "guest" /\ Exited = <<>> /\ sp \in Code
  BY GuestHasControl
<1>2. Len(Activations) = sp /\ sp \in Nat /\ sp > 0 /\ sp \in 1 .. sp
  BY <1>1, ActivationFacts, Addresses DEF SyncInv
<1>3. frame \in [Code -> Frame] /\ 1 .. sp \subseteq Code
  BY <1>1, <1>2, Types, Addresses DEF SyncInv
<1>4. /\ frame'[sp] = [frame[sp] EXCEPT !.await = what, !.want = want]
      /\ \A d \in 1 .. sp : d # sp => frame'[d] = frame[d]
  BY <1>1, <1>3 DEF Awaiting
<1>5. /\ frame'[sp].fn = frame[sp].fn /\ frame'[sp].await = what /\ frame'[sp].want = want
  BY <1>1, <1>3, <1>4 DEF Frame
<1>6. Activations' = [Activations EXCEPT ![sp] = call]
  <2>1. Activations' = [d \in 1 .. sp |-> [fn |-> frame'[d].fn, await |-> frame'[d].await,
                                           want |-> frame'[d].want]]
    BY DEF Activations
  <2> QED
    BY <1>2, <1>4, <1>5, <2>1 DEF Activations
<1>7. Len(Activations') = sp /\ Activations'[sp] = call
  BY <1>2, <1>6 DEF Activations
<1>8. Activations[sp].fn = frame[sp].fn
  BY <1>2 DEF Activations
<1>9. Given' = IF Who' = "guest" THEN r3' ELSE 0
  BY DEF Given
<1> HIDE DEF call
<1>10. call.fn = frame[sp].fn /\ call.await = what /\ call.want = want
  BY DEF call
<1> QED
  BY <1>1, <1>2, <1>6, <1>7, <1>8, <1>9, <1>10
     DEF S!Call, S!HostRuns, S!AnswerDue, S!GuestRuns, S!Innermost

\* The innermost activation is gone, and the host has control.
LEMMA ReturnSeen ==
  ASSUME SyncInv, Running, Pop, Who' = "host", Exited' = <<>>, status' = status
  PROVE  S!Return
<1>1. Who = "guest" /\ Exited = <<>> /\ sp \in Code
  BY GuestHasControl
<1>2. Len(Activations) = sp /\ sp \in Nat /\ sp > 0
  BY <1>1, ActivationFacts, Addresses DEF SyncInv
<1>3. frame \in [Code -> Frame] /\ 1 .. sp \subseteq Code
  BY <1>1, <1>2, Types, Addresses DEF SyncInv
<1>4. sp' = sp - 1 /\ \A d \in 1 .. sp - 1 : frame'[d] = frame[d]
  BY <1>1, <1>2, <1>3 DEF Pop
<1>5. Activations' = [d \in 1 .. sp - 1 |-> Activations[d]]
  <2>1. Activations' = [d \in 1 .. sp - 1 |-> [fn |-> frame'[d].fn, await |-> frame'[d].await,
                                               want |-> frame'[d].want]]
    BY <1>4 DEF Activations
  <2> QED
    BY <1>2, <1>4, <2>1 DEF Activations
<1>6. SubSeq(Activations, 1, sp - 1) = [d \in 1 .. sp - 1 |-> Activations[d]]
  BY <1>2, ActivationFacts DEF SyncInv
<1> QED
  BY <1>1, <1>2, <1>5, <1>6 DEF S!Return, S!HostRuns, Given

\* The innermost activation is let run with its answer.
LEMMA AnswerSeen ==
  ASSUME SyncInv, UNCHANGED stack, status' = status, Who = "host",
         Exited = <<>>, Exited' = <<>>, Who' = "guest",
         sp \in Code, frame[sp].await # "none", frame[sp].want \in {ANY, r3'}
  PROVE  S!Answer
<1>1. Len(Activations) = sp /\ sp \in 1 .. sp /\ Activations # <<>>
  BY ActivationFacts, Addresses DEF SyncInv
<1>2. Activations[sp].await = frame[sp].await /\ Activations[sp].want = frame[sp].want
  BY <1>1 DEF Activations
<1>3. Given' = r3'
  BY DEF Given
<1> QED
  BY <1>1, <1>2, <1>3, SameActivations
     DEF S!Answer, S!HostTurn, S!AnswerDue, S!GuestRuns, S!Innermost

-----------------------------------------------------------------------------
(***************************************************************************)
(* Each step, with what it leaves to be asked.                             *)
(***************************************************************************)
Seen == (S!Next \/ UNCHANGED S!vars) /\ AskedInv'

\* What waits for an answer goes on waiting where neither it nor the slot is touched.
LEMMA StillAsked ==
  ASSUME AskedInv, mode # "done", UNCHANGED <<lr, stack>>, Target' = Target
  PROVE  AskedInv'
BY DEF AskedInv, stack

\* Going back to an activation or to its trap asks for nothing.
LEMMA BackAsks ==
  ASSUME (Target \in Code \cup Traps \cup {NULL})', (Target = NULL => lr \notin Code)'
  PROVE  AskedInv'
BY Addresses DEF AskedInv

LEMMA LoopSeen ==
  ASSUME SyncInv, StartSlice \/ Resume \/ Fault \/ Timeout
  PROVE  Seen
<1>1. mode # "done" /\ mode' # "done" /\ UNCHANGED <<lr, r3, stack, status>>
  BY DEF StartSlice, Resume, Fault, Timeout, regs
<1>2. ctx \in Context
  BY Types DEF SyncInv
<1>3. CASE Resume
  <2>1. Target' = Target
    BY <1>2, <1>3 DEF Resume, Target, Context
  <2>2. ctx'.should_stop = ctx.should_stop /\ ctx'.exit_code = ctx.exit_code
    BY <1>2, <1>3 DEF Resume, Context
  <2> QED
    BY <1>1, <2>1, <2>2, StillAsked, Unseen DEF SyncInv, Seen, Who, Exited, stack
<1>4. CASE StartSlice \/ Fault \/ Timeout
  <2>1. /\ ctx' = ctx /\ pc' = pc /\ mode \in {"loop", "guest"}
    BY <1>4 DEF StartSlice, Fault, Timeout, regs
  <2>2. Target' = Target
    BY <2>1 DEF Target, SyncInv, ControlInv
  <2> QED
    BY <1>1, <2>1, <2>2, StillAsked, Unseen DEF SyncInv, Seen, Who, Exited, stack
<1> QED
  BY <1>3, <1>4

\* The process ends with what the guest asked for, or as a run that failed.
LEMMA EndSeen ==
  ASSUME SyncInv, Leave \/ (LoopNull /\ mode' = "done")
  PROVE  Seen
<1>1. ctx \in Context
  BY Types DEF SyncInv
<1>2. /\ mode # "done" /\ mode' = "done" /\ UNCHANGED stack
      /\ ctx'.should_stop = ctx.should_stop /\ ctx'.exit_code = ctx.exit_code
  BY <1>1 DEF Leave, LoopNull, Finish, Context
<1>3. Who # "nobody" /\ Who' = "nobody" /\ Given' = 0 /\ Exited' = Exited /\ AskedInv'
  BY <1>2 DEF Who, Given, Exited, AskedInv
<1>4. status' = S!Reported
  <2>1. CASE ctx.should_stop = 1
    <3>1. Leave /\ uerr = 0
      BY <1>2, <2>1 DEF SyncInv, ExitInv, LoopNull, Leave
    <3>2. Finish(ctx.exit_code)
      BY <2>1, <3>1 DEF Leave
    <3>3. Exited = <<ctx.exit_code>> /\ Exited # <<>> /\ Exited[1] = ctx.exit_code
      BY <2>1 DEF Exited
    <3> QED
      BY <3>2, <3>3 DEF Finish, S!Reported
  <2>2. CASE ctx.should_stop = 0
    <3>1. Finish(-1)
      BY <1>2, <2>2 DEF Leave, LoopNull
    <3>2. Exited = <<>>
      BY <2>2 DEF Exited
    <3> QED
      BY <3>1, <3>2 DEF Finish, S!Reported
  <2> QED
    BY <1>1, <2>1, <2>2 DEF Context
<1>5. S!End
  BY <1>2, <1>3, <1>4, SameActivations DEF S!End
<1> QED
  BY <1>3, <1>5 DEF Seen, S!Next

\* A null call is answered; a null callback returns to its call's trap.
LEMMA NullSeen ==
  ASSUME SyncInv, FetchNull \/ (LoopNull /\ mode' # "done")
  PROVE  Seen
<1>1. /\ Target = pc /\ pc = NULL /\ lr \in Addr /\ Back(lr, sp)
      /\ mode \in {"loop", "guest"}
  BY RunningTarget, Types DEF SyncInv, FetchNull, LoopNull, GoesBack
<1>2. ctx.should_stop = 0 /\ ctx.trap_pending = 0
  BY <1>1, Types DEF SyncInv, ExitInv, ControlInv, Context
<1>3. Who = "host" /\ Exited = <<>>
  BY <1>1, <1>2, Addresses DEF Who, Exited
<1>4. UNCHANGED <<lr, stack, slots, status>>
  BY DEF FetchNull, LoopNull, ReturnTo, Finish
<1>5. /\ Target' = lr /\ Exited' = <<>>
      /\ Who' = IF lr \in Code THEN "guest" ELSE "host"
  <2>1. CASE FetchNull
    BY <1>1, <1>4, <2>1, TrapLeads, Addresses DEF FetchNull, ReturnTo, stack, Back, Goes
  <2>2. CASE LoopNull /\ mode' # "done"
    <3>1. pc' = lr /\ ctx' = ctx /\ mode' = "loop"
      BY <2>2 DEF LoopNull, Finish
    <3>2. lr \in Code => lr = sp'
      BY <1>1, <1>4, Addresses DEF stack, Back, Goes
    <3> QED
      BY <1>2, <3>1, <3>2 DEF Target, Who, Exited
  <2> QED
    BY <2>1, <2>2
<1>6. AskedInv'
  <2>1. lr \in Code \cup Traps \cup {NULL}
    BY <1>1, Addresses DEF Back, Goes
  <2> QED
    BY <1>4, <1>5, <2>1, Addresses, BackAsks
<1>7. CASE lr \in Code
  <2>1. lr = sp /\ sp \in Code
    BY <1>1, <1>7, Addresses DEF Back, Goes
  <2>2. frame[sp].await # "none" /\ frame[sp].want = ANY
    BY <1>1, <1>7, <2>1 DEF SyncInv, AskedInv, AnswerInv, PlainReturns
  <2>3. S!Answer
    BY <1>3, <1>4, <1>5, <1>7, <2>1, <2>2, AnswerSeen
  <2> QED
    BY <1>6, <2>3 DEF Seen, S!Next
<1>8. CASE lr \notin Code
  BY <1>3, <1>4, <1>5, <1>6, <1>8, Unseen DEF Seen
<1> QED
  BY <1>7, <1>8

\* The guest exits.
LEMMA ExitSeen ==
  ASSUME SyncInv, CallExit \/ SyscallExit
  PROVE  Seen
<1>1. /\ Who = "guest" /\ Exited = <<>> /\ sp \in Code /\ pc = sp
      /\ mode' = "after" /\ UNCHANGED <<pc, stack, status>>
  BY GuestHasControl DEF CallExit, SyscallExit
<1>2. \E code \in Int : Exited' = <<code>> /\ Target' = sp /\ ctx'.should_stop = 1
  <2>1. CASE CallExit
    <3>1. PICK code \in ExitCodes \cup {ABORTED} :
            ctx' = [trap_pending |-> 1, resume_pc |-> sp, should_stop |-> 1,
                    exit_code |-> code]
      BY <2>1 DEF CallExit
    <3> QED
      BY <1>1, <3>1, TrapLoopAssumption DEF Target, Exited, ABORTED
  <2>2. CASE SyscallExit
    <3>1. PICK code \in ExitCodes :
            ctx' = [ctx EXCEPT !.should_stop = 1, !.exit_code = code]
      BY <2>2 DEF SyscallExit
    <3>2. ctx'.trap_pending = 0 /\ ctx'.should_stop = 1 /\ ctx'.exit_code = code
      BY <2>2, <3>1, GuestHasControl, Types DEF SyscallExit, SyncInv, Context
    <3> QED
      BY <1>1, <3>1, <3>2, TrapLoopAssumption DEF Target, Exited
  <2> QED
    BY <2>1, <2>2
<1>3. Who' = "host" /\ Given' = 0
  BY <1>1, <1>2 DEF Who, Given
<1>4. Exited' \in Seq(Int) /\ Len(Exited') = 1
  BY <1>2
<1>5. AskedInv'
  BY <1>1, <1>2, Addresses DEF AskedInv
<1>6. S!Exit
  BY <1>1, <1>3, <1>4, SameActivations DEF S!Exit, S!HostRuns
<1> QED
  BY <1>5, <1>6 DEF Seen, S!Next

\* An activation that ends goes back to a trap, or ends the program.
LEMMA ReturnStepSeen ==
  ASSUME SyncInv, GuestReturn \/ TailCallImport
  PROVE  Seen
<1> DEFINE back == frame[sp].ret
<1>1. Running /\ Pop /\ status' = status /\ mode = "guest" /\ lr' = back
  BY DEF GuestReturn, TailCallImport, Running, ReturnTo
<1>2. /\ sp \in Code /\ sp \in 1 .. sp /\ Back(back, sp - 1) /\ back \in Addr
      /\ ctx.should_stop = 0 /\ ctx.trap_pending = 0
  BY <1>1, RunningOnTop, GuestHasControl, Addresses, Types DEF SyncInv, Frame
<1>3. back \notin Code /\ back \in Traps \cup {NULL}
  BY <1>2, Addresses DEF SyncInv, AnswerInv, PlainReturns, Back, Goes
<1>4. Target' = back /\ Who' = "host" /\ Exited' = <<>>
  <2>1. CASE GuestReturn
    BY <1>1, <1>2, <1>3, <2>1 DEF GuestReturn, Target, Who, Exited
  <2>2. CASE TailCallImport
    BY <1>1, <1>2, <1>3, <2>2, TrapLeads DEF TailCallImport, ReturnTo
  <2> QED
    BY <2>1, <2>2
<1>5. AskedInv'
  BY <1>1, <1>3, <1>4, BackAsks
<1>6. S!Return
  BY <1>1, <1>4, ReturnSeen
<1> QED
  BY <1>5, <1>6 DEF Seen, S!Next

\* A call of an ordinary function is answered in its trap, one of a null pointer
\* has yet to be.
LEMMA PlainCallSeen ==
  ASSUME SyncInv, CallImport \/ CallNull
  PROVE  Seen
<1>1. /\ Running /\ Awaiting("import", ANY) /\ sp' = sp /\ status' = status
      /\ mode = "guest" /\ lr' = sp
  BY DEF CallImport, CallNull, Running, ReturnTo
<1>2. /\ sp \in Code /\ sp \in Addr /\ ctx.should_stop = 0 /\ ctx.trap_pending = 0
      /\ frame'[sp].await = "import"
  BY <1>1, GuestHasControl, CallFrames DEF SyncInv, Addr
<1>3. CASE CallImport
  <2>1. Target' = sp /\ Who' = "guest" /\ Exited' = <<>>
    BY <1>2, <1>3, TrapLeads DEF CallImport, ReturnTo, Running
  <2>2. AskedInv'
    BY <1>2, <2>1, Addresses, BackAsks
  <2> QED
    BY <1>1, <2>1, <2>2, CallSeen DEF Seen, S!Next
<1>4. CASE CallNull
  <2>1. Target' = NULL /\ Who' = "host" /\ Exited' = <<>>
    BY <1>1, <1>2, <1>4, Addresses DEF CallNull, Target, Who, Exited
  <2>2. AskedInv'
    BY <1>1, <1>2, <2>1, Addresses DEF AskedInv
  <2> QED
    BY <1>1, <2>1, <2>2, CallSeen DEF Seen, S!Next
<1> QED
  BY <1>3, <1>4

\* Nothing is found in an empty array.
LEMMA NewSearchAnswer ==
  ASSUME NEW k \in Keys(0)
  PROVE  Answer(0, k) = NULL
BY DEF Keys, Answer

\* bsearch answers an empty array, and asks the guest about another.
LEMMA BsearchSeen ==
  ASSUME SyncInv, CallBsearch
  PROVE  Seen
<1>1. PICK n \in 0 .. MaxElems : \E k \in Keys(n), compar \in {COMPAR, NULL} :
        /\ Awaiting("bsearch", IF compar = COMPAR THEN Answer(n, k) ELSE ANY)
        /\ StartSearch(n, k, compar, sp)
  BY DEF CallBsearch
<1>2. PICK k \in Keys(n), compar \in {COMPAR, NULL} :
        /\ Awaiting("bsearch", IF compar = COMPAR THEN Answer(n, k) ELSE ANY)
        /\ StartSearch(n, k, compar, sp)
  BY <1>1
<1> DEFINE answer == IF compar = COMPAR THEN Answer(n, k) ELSE ANY
<1>3. /\ Running /\ sp' = sp /\ status' = status /\ mode = "guest"
      /\ Awaiting("bsearch", answer)
  BY <1>2 DEF CallBsearch, Running
<1>4. sp \in Code /\ sp \in Addr
  BY <1>3, GuestHasControl DEF Addr
<1>5. CASE n = 0
  <2>1. StopSlice(sp) /\ r3' = NULL
    BY <1>2, <1>5 DEF StartSearch, ReturnTo
  <2>2. answer \in {ANY, NULL}
    BY <1>5, NewSearchAnswer
  <2>3. Target' = sp /\ Who' = "guest" /\ Exited' = <<>>
    BY <1>3, <1>4, <2>1, TrapLeads
  <2>4. AskedInv'
    BY <1>4, <2>3, Addresses, BackAsks
  <2> QED
    BY <1>3, <2>1, <2>2, <2>3, <2>4, CallSeen DEF Seen, S!Next
<1>6. CASE n > 0
  <2>1. StopSlice(compar) /\ lr' = TRAP_BSEARCH_RET
    BY <1>2, <1>6 DEF StartSearch, RedirectTo
  <2>2. Target' = compar /\ Who' = "host" /\ Exited' = <<>>
    BY <1>3, <2>1, AddrType, Addresses, TrapLeads
  <2>3. AskedInv'
    BY <2>1, <2>2, Addresses DEF AskedInv
  <2> QED
    BY <1>3, <2>2, <2>3, CallSeen DEF Seen, S!Next
<1> QED
  BY <1>5, <1>6

\* pthread_create runs the start routine before it answers.
LEMMA PthreadSeen ==
  ASSUME SyncInv, CallPthreadCreate
  PROVE  Seen
<1>1. /\ Running /\ Awaiting("pthread", THREAD_ID) /\ sp' = sp /\ status' = status
      /\ mode = "guest"
  BY DEF CallPthreadCreate, Running
<1>2. PICK start \in {START, NULL}, arg \in {0, 1} : StartThread(start, arg, sp)
  BY DEF CallPthreadCreate
<1>3. lr' = TRAP_PTHREAD_RET /\ StopSlice(start)
  BY <1>2 DEF StartThread, RedirectTo
<1>4. Target' = start /\ Who' = "host" /\ Exited' = <<>>
  BY <1>1, <1>3, AddrType, Addresses, TrapLeads
<1>5. AskedInv'
  BY <1>3, <1>4, Addresses DEF AskedInv
<1> QED
  BY <1>1, <1>4, <1>5, CallSeen DEF Seen, S!Next

\* A callback is entered: its call is what the innermost activation waits for.
LEMMA EnterSeen ==
  ASSUME SyncInv, GuestEnter
  PROVE  Seen
<1> DEFINE entered == IF pc = COMPAR THEN "compar" ELSE "start"
<1>1. /\ mode = "guest" /\ mode' = "guest" /\ pc \in Entry /\ sp < MaxDepth
      /\ sp' = sp + 1 /\ pc' = sp + 1 /\ UNCHANGED <<lr, ctx, status>>
  BY DEF GuestEnter
<1>2. Target = pc /\ Back(lr, sp) /\ ctx.trap_pending = 0 /\ ctx.should_stop = 0
  BY <1>1, RunningTarget, Types DEF SyncInv, GoesBack, ControlInv, ExitInv, Context
<1>3. sp \in Int /\ 0 <= sp /\ sp + 1 \in Code /\ frame \in [Code -> Frame]
  BY <1>1, Types, Addresses DEF SyncInv
<1>4. /\ sp \in Code
      /\ \/ pc = COMPAR /\ frame[sp].await = "bsearch"
         \/ pc = START /\ frame[sp].await = "pthread"
  BY <1>1, <1>2, Addresses DEF SyncInv, AskedInv, Back, Goes
<1>5. Who = "host" /\ Exited = <<>> /\ Exited' = <<>>
  BY <1>1, <1>2, Addresses DEF Who, Exited
<1>6. Target' = sp + 1 /\ Who' = "guest"
  BY <1>1, <1>2, <1>3 DEF Target, Who
<1>7. AskedInv'
  BY <1>3, <1>6, Addresses, BackAsks
<1>8. /\ frame'[sp + 1] = [fn |-> entered, ret |-> lr, await |-> "none", want |-> ANY,
                           key |-> r3, elem |-> r4]
      /\ \A d \in 1 .. sp : frame'[d] = frame[d]
  BY <1>3, Addresses DEF GuestEnter
<1>9. Activations' = Append(Activations, S!Activation(entered))
  <2>1. Activations' = [d \in 1 .. sp + 1 |-> [fn |-> frame'[d].fn, await |-> frame'[d].await,
                                               want |-> frame'[d].want]]
    BY <1>1 DEF Activations
  <2>2. Len(Activations) = sp
    BY ActivationFacts DEF SyncInv
  <2>3. Append(Activations, S!Activation(entered)) =
          [d \in 1 .. sp + 1 |-> IF d = sp + 1 THEN S!Activation(entered) ELSE Activations[d]]
    BY <2>2, ActivationFacts DEF SyncInv
  <2>4. ASSUME NEW d \in 1 .. sp + 1
        PROVE  [fn |-> frame'[d].fn, await |-> frame'[d].await, want |-> frame'[d].want]
                 = IF d = sp + 1 THEN S!Activation(entered) ELSE Activations[d]
    BY <1>3, <1>8 DEF Activations, S!Activation
  <2> QED
    BY <2>1, <2>3, <2>4
<1>10. Activations # <<>> /\ Activations[Len(Activations)].await = frame[sp].await
  BY <1>4, ActivationFacts, Addresses DEF SyncInv
<1>11. entered = S!Callback[frame[sp].await] /\ frame[sp].await \in DOMAIN S!Callback
  BY <1>4, Addresses DEF S!Callback
<1>12. S!CallBack
  BY <1>1, <1>5, <1>6, <1>9, <1>10, <1>11
     DEF S!CallBack, S!HostTurn, S!GuestRuns, S!Innermost
<1> QED
  BY <1>7, <1>12 DEF Seen, S!Next

\* A comparison has returned: another one is called for, or the search answers.
LEMMA BsearchRetSeen ==
  ASSUME SyncInv, FetchBsearchRet
  PROVE  Seen
<1>1. /\ sp \in Code /\ bs.active = 1 /\ bs.orig_lr = sp /\ frame[sp].await = "bsearch"
      /\ Target = TRAP_BSEARCH_RET /\ mode = "guest" /\ UNCHANGED <<stack, status>>
      /\ SearchStep
  BY AtBsearchRet DEF FetchBsearchRet, SyncInv
<1>2. bs \in Search /\ sp \in Addr /\ bs.compar \in {COMPAR, NULL} /\ bs.compar \in Addr
  BY <1>1, Types, AddrType DEF Addr, Search, SyncInv
<1>3. AnswerInv'
  BY BsearchRetAnswers DEF SyncInv
<1>4. ctx.should_stop = 0 /\ ctx'.should_stop = 0 /\ Who = "host"
  <2>1. ctx \in Context /\ ctx.should_stop = 0
    BY <1>1, Types DEF SyncInv, ExitInv, Context
  <2>2. ctx'.should_stop = 0
    BY <1>1, <2>1 DEF SearchStep, RedirectTo, StopSlice, Context
  <2> QED
    BY <1>1, <2>1, <2>2, Addresses DEF Who
<1>5. CASE StopSlice(sp)
  <2>1. Target' = sp /\ Who' = "guest" /\ Exited = <<>> /\ Exited' = <<>>
    BY <1>1, <1>2, <1>5, TrapLeads DEF stack
  <2>2. frame[sp].want \in {ANY, r3'}
    BY <1>1, <1>3, <1>4, <1>5, <2>1 DEF AnswerInv, Answered, StopSlice, stack
  <2>3. AskedInv'
    BY <1>1, <2>1, Addresses, BackAsks
  <2>4. S!Answer
    BY <1>1, <1>4, <2>1, <2>2, AnswerSeen
  <2> QED
    BY <2>3, <2>4 DEF Seen, S!Next
<1>6. CASE StopSlice(bs.compar) /\ lr' = TRAP_BSEARCH_RET
  <2>1. Target' = bs.compar /\ Who' = "host" /\ Exited = <<>> /\ Exited' = <<>>
    BY <1>1, <1>2, <1>6, Addresses, TrapLeads
  <2>2. AskedInv'
    BY <1>2, <1>6, <2>1, Addresses DEF AskedInv
  <2> QED
    BY <1>1, <1>4, <2>1, <2>2, Unseen DEF Seen
<1>7. \/ StopSlice(sp)
      \/ StopSlice(bs.compar) /\ lr' = TRAP_BSEARCH_RET
  BY <1>1 DEF SearchStep, RedirectTo
<1> QED
  BY <1>5, <1>6, <1>7

\* The start routine has returned: its creator has the thread number.
LEMMA PthreadRetSeen ==
  ASSUME SyncInv, FetchPthreadRet
  PROVE  Seen
<1>1. /\ sp \in Code /\ pts.active = 1 /\ pts.caller_lr = sp /\ frame[sp].await = "pthread"
      /\ Target = TRAP_PTHREAD_RET /\ mode = "guest" /\ UNCHANGED <<stack, status>>
      /\ ThreadReturn
  BY AtPthreadRet DEF FetchPthreadRet, SyncInv
<1>2. StopSlice(sp) /\ r3' = THREAD_ID /\ sp \in Addr
  BY <1>1 DEF ThreadReturn, RedirectTo, Addr
<1>3. Target' = sp /\ Who' = "guest" /\ Exited = <<>> /\ Exited' = <<>>
  BY <1>1, <1>2, TrapLeads DEF stack
<1>4. Who = "host"
  BY <1>1, Addresses DEF Who, SyncInv
<1>5. frame[sp].want = THREAD_ID
  BY <1>1 DEF SyncInv, AnswerInv, WantInv
<1>6. AskedInv'
  BY <1>1, <1>3, Addresses, BackAsks
<1>7. S!Answer
  BY <1>1, <1>2, <1>3, <1>4, <1>5, AnswerSeen
<1> QED
  BY <1>6, <1>7 DEF Seen, S!Next

-----------------------------------------------------------------------------
LEMMA NextSeen ==
  ASSUME SyncInv, [Next]_vars
  PROVE  Seen
<1>1. CASE UNCHANGED vars
  <2>1. UNCHANGED S!vars
    BY <1>1 DEF vars, regs, stack, S!vars, Activations, Given, Who, Exited, Target
  <2>2. AskedInv'
    BY <1>1 DEF vars, regs, stack, SyncInv, AskedInv, Target
  <2> QED
    BY <2>1, <2>2 DEF Seen
<1> QED
  BY <1>1, LoopSeen, EndSeen, NullSeen, ExitSeen, EnterSeen, ReturnStepSeen,
     PlainCallSeen, BsearchSeen, PthreadSeen, BsearchRetSeen, PthreadRetSeen
     DEF Next, Guest, GuestCall, Hook, Host, Done

LEMMA InitSeen == Init => S!Init /\ AskedInv
<1> SUFFICES ASSUME Init PROVE S!Init /\ AskedInv
  OBVIOUS
<1>1. /\ sp = 1 /\ frame[1] = NoFrame /\ mode = "loop" /\ ctx.should_stop = 0
      /\ pc = 1 /\ r3 = 0 /\ status = 0
  BY Addresses DEF Init
<1>2. Target = 1 /\ 1 \in Code
  BY <1>1, Addresses DEF Target
<1>3. Who = "guest" /\ Given = 0 /\ Exited = <<>>
  BY <1>1, <1>2 DEF Who, Given, Exited
<1>4. Activations = <<S!Activation("main")>>
  <2>1. Activations = [d \in 1 .. 1 |-> S!Activation("main")]
    BY <1>1 DEF Activations, NoFrame, S!Activation
  <2> QED
    BY <2>1
<1>5. AskedInv
  BY <1>2, Addresses DEF AskedInv
<1> QED
  BY <1>1, <1>3, <1>4, <1>5 DEF S!Init

\* For a guest of any depth, whatever it searches and whichever ways it exits: the
\* traps, the two static slots and the loop that resumes implement synchronous calls.
THEOREM LibraryCallsAreSynchronous ==
  ASSUME Nested = FALSE
  PROVE  Spec => CallsAreSynchronous
<1>1. Init => SyncInv
  BY InitTypeInv, InitExitInv, InitControl, InitAnswers, InitSeen DEF SyncInv
<1>2. SyncInv /\ [Next]_vars => SyncInv'
  BY NextTypeInv, NextExitInv, NextControl, NextAnswers, NextSeen DEF SyncInv, Seen
<1>3. SyncInv /\ [Next]_vars => [S!Next]_S!vars
  BY NextSeen DEF Seen
<1>4. Init => S!Init
  BY InitSeen
<1> QED
  BY <1>1, <1>2, <1>3, <1>4, PTL DEF Spec, CallsAreSynchronous, S!Spec
=============================================================================
