------------------------------ MODULE TrapLoop ------------------------------
(***************************************************************************)
(* How control passes between the guest program and the host.              *)
(*                                                                         *)
(* The host runs the guest in slices of uc_emu_start.  A guest call of a   *)
(* library function branches into an unmapped trap region: the fetch hook  *)
(* (cpu.c) executes the function on the host (hle.c), leaves the address   *)
(* to resume at in the system-call context, and stops the slice; the loop  *)
(* of sosetta_runtime_run (runtime.c) resumes there.  Two functions call   *)
(* BACK into the guest, bsearch (the comparison) and pthread_create (the   *)
(* start routine, run synchronously): they redirect the guest to the       *)
(* callback with a trap address as its return address and keep what they   *)
(* must remember in one static slot each, bs and pts.                      *)
(*                                                                         *)
(* The guest is any program that obeys the PowerPC calling convention:     *)
(* every activation saves the link register it was entered with and        *)
(* returns to it.  It is not part of the repository.                       *)
(***************************************************************************)
EXTENDS Integers, FiniteSets

CONSTANTS
  MaxDepth,   \* bound on the guest's call depth
  MaxElems,   \* bound on the length of an array given to bsearch
  ExitCodes,  \* the 32-bit signed values the guest passes to exit
  Nested      \* whether a callback may start the call it is a callback of

ASSUME TrapLoopAssumption ==
  /\ MaxDepth \in Nat \ {0}
  /\ MaxElems \in Nat \ {0}
  /\ ExitCodes \subseteq Int
  /\ Nested \in BOOLEAN

(***************************************************************************)
(* Addresses.  The code of the function that runs at call depth d is the   *)
(* address d; the others are the null page, the two return traps and the   *)
(* entry points of the two kinds of callback.                              *)
(***************************************************************************)
NULL             == 0
TRAP_BSEARCH_RET == -1
TRAP_PTHREAD_RET == -2
COMPAR           == -3
START            == -4

Code  == 1 .. MaxDepth
Traps == {TRAP_BSEARCH_RET, TRAP_PTHREAD_RET}
Entry == {COMPAR, START}
Addr  == Code \cup Traps \cup Entry \cup {NULL}

THREAD_ID == 8192   \* what pthread_create leaves in r3
BLOCK     == 4096   \* a heap block handed out by a null call
ABORTED   == 134    \* the exit code of abort
FAILED    == 2      \* the host's exit status when the run failed
ANY       == -1     \* "no particular answer"

(***************************************************************************)
(* Element i (from 0) of a bsearch array is the odd number 2i+3 and is     *)
(* passed by a pointer, i+1; the keys around and between the elements make *)
(* every hit and every gap a case.  No key is 1, as no key pointer is.     *)
(***************************************************************************)
Pointer(i)   == i + 1
Keys(n)      == 2 .. 2*n + 2
Answer(n, k) == IF k % 2 = 1 THEN (k - 1) \div 2 ELSE NULL
Compare(k, p) == IF k < 2*p + 1 THEN -1 ELSE IF k = 2*p + 1 THEN 0 ELSE 1

VARIABLES
  mode,    \* "loop", "guest" (inside uc_emu_start), "after" (it returned), "done"
  pc, lr,  \* guest registers
  r3, r4,
  sp,      \* number of activations on the guest's stack
  frame,   \* the activations; memory beyond sp is dead and kept blank
  bs,      \* the static search state of bsearch
  pts,     \* the static state of pthread_create
  ctx,     \* sosetta_syscall_ctx: trap_pending, resume_pc, should_stop, exit_code
  uerr,    \* whether uc_emu_start returned an error
  status   \* exit status of the host process, meaningful when "done"

regs == <<pc, lr, r3, r4>>
stack == <<sp, frame>>
slots == <<bs, pts>>
vars == <<mode, regs, stack, slots, ctx, uerr, status>>

Frame == [fn    : {"main", "start", "compar"},
          ret   : Addr,                           \* the saved link register
          await : {"none", "import", "bsearch", "pthread"},
          want  : {ANY, THREAD_ID} \cup 0 .. MaxElems,  \* its due answer
          key   : Int,
          elem  : Int]

NoFrame == [fn |-> "main", ret |-> NULL, await |-> "none", want |-> ANY,
            key |-> 0, elem |-> 0]

RegsOK == pc \in Addr /\ lr \in Addr /\ r3 \in Int /\ r4 \in Int

StackOK == sp \in 0 .. MaxDepth /\ frame \in [Code -> Frame]

Search == [active : {0, 1}, key : Int, compar : {COMPAR, NULL}, orig_lr : Addr,
           lo : 0 .. MaxElems, hi : -1 .. MaxElems - 1, mid : 0 .. MaxElems - 1]

Context == [trap_pending : {0, 1}, resume_pc : Addr, should_stop : {0, 1},
            exit_code : Int]

\* The types of the variables; a search's window stays within the array.
TypeOK ==
  /\ mode \in {"loop", "guest", "after", "done"}
  /\ RegsOK
  /\ StackOK
  /\ bs \in Search
  /\ pts \in [active : {0, 1}, caller_lr : Addr]
  /\ ctx \in Context
  /\ uerr \in {0, 1}
  /\ status \in 0 .. 255

(***************************************************************************)
(* sosetta_runtime_run begins with the entry point of the image, the       *)
(* static slots zeroed, the link register as LC_UNIXTHREAD gives it (0).   *)
(***************************************************************************)
Init ==
  /\ mode = "loop"
  /\ pc = 1 /\ lr = NULL /\ r3 = 0 /\ r4 = 0
  /\ sp = 1
  /\ frame = [d \in Code |-> NoFrame]
  /\ bs = [active |-> 0, key |-> 0, compar |-> NULL, orig_lr |-> NULL,
           lo |-> 0, hi |-> 0, mid |-> 0]
  /\ pts = [active |-> 0, caller_lr |-> NULL]
  /\ ctx = [trap_pending |-> 0, resume_pc |-> NULL, should_stop |-> 0,
            exit_code |-> 0]
  /\ uerr = 0
  /\ status = 0

-----------------------------------------------------------------------------
(***************************************************************************)
(* The end of fetch_unmapped_cb: the trap's results and the resume address *)
(* are left for the loop and the slice is stopped.                         *)
(***************************************************************************)
StopSlice(resume) ==
  /\ ctx' = [ctx EXCEPT !.trap_pending = 1, !.resume_pc = resume]
  /\ mode' = "after"
  /\ uerr' = 0

\* The function returned a value: r3 holds it and the guest resumes at LR.
ReturnTo(link, value) ==
  /\ r3' = value
  /\ lr' = link
  /\ StopSlice(link)
  /\ UNCHANGED r4

\* The function redirected the guest: r3, r4 and LR are all overwritten.
RedirectTo(target, arg3, arg4, link) ==
  /\ r3' = arg3
  /\ r4' = arg4
  /\ lr' = link
  /\ StopSlice(target)

(***************************************************************************)
(* hle_bsearch, and hle_bsearch_return: the comparison's result is in r3.  *)
(***************************************************************************)
Mid(lo, hi) == lo + (hi - lo) \div 2

\* Mutant: the window ends one past the last element.
StartSearch_PastEnd(n, k, compar, link) ==
  /\ bs' = [active |-> 1, key |-> k, compar |-> compar, orig_lr |-> link,
            lo |-> 0, hi |-> n, mid |-> Mid(0, n)]
  /\ RedirectTo(compar, k, Pointer(Mid(0, n)), TRAP_BSEARCH_RET)

StartSearch(n, k, compar, link) ==
  LET first == [active |-> IF n > 0 THEN 1 ELSE 0, key |-> k, compar |-> compar, orig_lr |-> link,
                lo |-> 0, hi |-> n - 1,
                mid |-> IF n > 0 THEN Mid(0, n - 1) ELSE bs.mid]
  IN  /\ bs' = first
      /\ IF n > 0
           THEN RedirectTo(compar, k, Pointer(first.mid), TRAP_BSEARCH_RET)
           ELSE ReturnTo(link, NULL)

\* Mutants of Narrow: the halves swapped; no progress.
Narrow_Swapped(s, c) == IF c > 0 THEN [s EXCEPT !.hi = s.mid - 1]
                                 ELSE [s EXCEPT !.lo = s.mid + 1]
Narrow_Stays(s, c) == IF c < 0 THEN [s EXCEPT !.hi = s.mid - 1]
                               ELSE [s EXCEPT !.lo = s.mid]

\* The window after a comparison with result c.
Narrow(s, c) == IF c < 0 THEN [s EXCEPT !.hi = s.mid - 1]
                         ELSE [s EXCEPT !.lo = s.mid + 1]

SearchStep ==
  LET next == Narrow(bs, r3)
      mid  == Mid(next.lo, next.hi)
      LeaveWith(value) == RedirectTo(bs.orig_lr, value, r4, TRAP_BSEARCH_RET)
  IN  \/ /\ bs.active = 0
         /\ LeaveWith(0)
         /\ UNCHANGED bs
      \/ /\ bs.active = 1 /\ r3 = 0
         /\ bs' = [bs EXCEPT !.active = 0]
         /\ LeaveWith(Pointer(bs.mid))
      \/ /\ bs.active = 1 /\ r3 # 0 /\ next.lo > next.hi
         /\ bs' = [next EXCEPT !.active = 0]
         /\ LeaveWith(NULL)
      \/ /\ bs.active = 1 /\ r3 # 0 /\ next.lo <= next.hi
         /\ bs' = [next EXCEPT !.mid = mid]
         /\ RedirectTo(bs.compar, bs.key, Pointer(mid), TRAP_BSEARCH_RET)

(***************************************************************************)
(* hle_pthread_create runs the start routine at once; its return trap ends *)
(* the call.  With no creation pending the trap falls through to an        *)
(* ordinary return: r3 = 0 and the guest resumes at LR.                    *)
(***************************************************************************)
\* Mutant: the return trap is not set, and the start routine returns to the creator.
StartThread_DefaultLink(start, arg, link) ==
  /\ pts' = [active |-> 1, caller_lr |-> link]
  /\ RedirectTo(start, arg, 0, link)

StartThread(start, arg, link) ==
  /\ pts' = [active |-> 1, caller_lr |-> link]
  /\ RedirectTo(start, arg, 0, TRAP_PTHREAD_RET)

\* Mutant: the creator's address is taken from the other slot.
ThreadReturn_WrongSlot ==
  /\ pts.active = 1
  /\ pts' = [pts EXCEPT !.active = 0]
  /\ RedirectTo(bs.orig_lr, THREAD_ID, 0, TRAP_BSEARCH_RET)

ThreadReturn ==
  \/ /\ pts.active = 1
     /\ pts' = [pts EXCEPT !.active = 0]
     /\ RedirectTo(pts.caller_lr, THREAD_ID, 0, TRAP_BSEARCH_RET)
  \/ /\ pts.active = 0
     /\ ReturnTo(lr, 0)
     /\ UNCHANGED pts

-----------------------------------------------------------------------------
(***************************************************************************)
(* The guest, inside a slice.                                              *)
(***************************************************************************)
Running == mode = "guest" /\ pc \in Code /\ sp > 0

\* The activation that issues a call remembers what it waits for.
Awaiting(what, answer) ==
  frame' = [frame EXCEPT ![sp] = [@ EXCEPT !.await = what, !.want = answer]]

\* The calls the running activation is, directly or not, a callback of.
Pending(what) == {d \in 1 .. sp - 1 : frame[d].await = what}

MayStart(what) == Nested \/ Pending(what) = {}

\* The guest enters a callback: its prologue saves LR, r3 and r4 on the stack.
GuestEnter ==
  /\ mode = "guest" /\ pc \in Entry /\ sp < MaxDepth
  /\ frame' = [frame EXCEPT ![sp + 1] =
                 [fn |-> IF pc = COMPAR THEN "compar" ELSE "start", ret |-> lr,
                  await |-> "none", want |-> ANY, key |-> r3, elem |-> r4]]
  /\ sp' = sp + 1
  /\ pc' = sp + 1
  /\ UNCHANGED <<mode, lr, r3, r4, slots, ctx, uerr, status>>

\* What an activation returns: a comparison function its comparison.
Result(f) == IF f.fn = "compar" THEN Compare(f.key, f.elem) ELSE 0

Pop == sp' = sp - 1 /\ frame' = [frame EXCEPT ![sp] = NoFrame]

\* blr: the activation is popped and control goes to its saved LR.
GuestReturn ==
  /\ Running
  /\ pc' = frame[sp].ret /\ lr' = frame[sp].ret
  /\ r3' = Result(frame[sp])
  /\ Pop
  /\ UNCHANGED <<mode, r4, slots, ctx, uerr, status>>

\* A call of a function that takes no callback and returns to its caller.
CallImport ==
  /\ Running
  /\ Awaiting("import", ANY)
  /\ ReturnTo(sp, 0)
  /\ UNCHANGED <<pc, sp, slots, status>>

\* The same as a tail call: the activation is gone, LR is the one it saved
\* (a comparison function that ends in strcmp, for one).
TailCallImport ==
  /\ Running
  /\ Pop
  /\ ReturnTo(frame[sp].ret, Result(frame[sp]))
  /\ UNCHANGED <<pc, slots, status>>

CallBsearch ==
  /\ Running /\ MayStart("bsearch") /\ sp < MaxDepth
  /\ \E n \in 0 .. MaxElems : \E k \in Keys(n), compar \in {COMPAR, NULL} :
       /\ Awaiting("bsearch", IF compar = COMPAR THEN Answer(n, k) ELSE ANY)
       /\ StartSearch(n, k, compar, sp)
  /\ UNCHANGED <<pc, sp, pts, status>>

CallPthreadCreate ==
  /\ Running /\ MayStart("pthread") /\ sp < MaxDepth
  /\ \E start \in {START, NULL}, arg \in {0, 1} : StartThread(start, arg, sp)
  /\ Awaiting("pthread", THREAD_ID)
  /\ UNCHANGED <<pc, sp, bs, status>>

\* The guest calls through a null pointer (the keymgr convention).
CallNull ==
  /\ Running
  /\ Awaiting("import", ANY)
  /\ lr' = sp /\ pc' = NULL
  /\ UNCHANGED <<mode, r3, r4, sp, slots, ctx, uerr, status>>

(***************************************************************************)
(* The guest ends itself: exit, abort and pthread_exit are library calls,  *)
(* whose trap is also left pending; the exit system call just stops.       *)
(***************************************************************************)
CallExit ==
  /\ Running
  /\ \E code \in ExitCodes \cup {ABORTED} :
       ctx' = [trap_pending |-> 1, resume_pc |-> sp, should_stop |-> 1,
               exit_code |-> code]
  /\ mode' = "after" /\ uerr' = 0
  /\ r3' = 0 /\ lr' = sp
  /\ UNCHANGED <<pc, r4, stack, slots, status>>

SyscallExit ==
  /\ Running
  /\ \E code \in ExitCodes :
       ctx' = [ctx EXCEPT !.should_stop = 1, !.exit_code = code]
  /\ mode' = "after" /\ uerr' = 0
  /\ r3' = 0
  /\ UNCHANGED <<pc, lr, r4, stack, slots, status>>

\* The guest faults; or the slice's 5 s pass, which ends it without an error.
Fault ==
  /\ mode = "guest"
  /\ mode' = "after" /\ uerr' = 1
  /\ UNCHANGED <<regs, stack, slots, ctx, status>>

Timeout ==
  /\ mode = "guest"
  /\ mode' = "after" /\ uerr' = 0
  /\ UNCHANGED <<regs, stack, slots, ctx, status>>

(***************************************************************************)
(* The fetch hook, when the guest's pc reaches a trap or the null page.    *)
(* r3 of a null call is the allocated block or null, always with success.  *)
(***************************************************************************)
FetchBsearchRet ==
  /\ mode = "guest" /\ pc = TRAP_BSEARCH_RET
  /\ SearchStep
  /\ UNCHANGED <<pc, stack, pts, status>>

FetchPthreadRet ==
  /\ mode = "guest" /\ pc = TRAP_PTHREAD_RET
  /\ ThreadReturn
  /\ UNCHANGED <<pc, stack, bs, status>>

FetchNull ==
  /\ mode = "guest" /\ pc = NULL
  /\ \E block \in {0, BLOCK} : ReturnTo(lr, block)
  /\ UNCHANGED <<pc, stack, slots, status>>

-----------------------------------------------------------------------------
(***************************************************************************)
(* The loop of sosetta_runtime_run, and what main makes of its result.     *)
(***************************************************************************)
Finish(code) ==
  /\ mode' = "done"
  /\ status' = IF code < 0 THEN FAILED ELSE code % 256

\* A null pc at the top of the loop (a null callback): answered there, with a
\* block for the key 1, without a slice.
LoopNull ==
  /\ mode = "loop" /\ pc = NULL
  /\ r3' = IF r3 = 1 THEN BLOCK ELSE 0
  /\ \/ /\ lr = NULL
        /\ Finish(-1)
        /\ UNCHANGED pc
     \/ /\ lr # NULL
        /\ pc' = lr
        /\ UNCHANGED <<mode, status>>
  /\ UNCHANGED <<lr, r4, stack, slots, ctx, uerr>>

StartSlice ==
  /\ mode = "loop" /\ pc # NULL
  /\ mode' = "guest"
  /\ UNCHANGED <<regs, stack, slots, ctx, uerr, status>>

\* Mutant: a pending trap is resumed whether or not the guest has exited.
Resume_IgnoresStop ==
  /\ mode = "after" /\ ctx.trap_pending = 1
  /\ ctx' = [ctx EXCEPT !.trap_pending = 0]
  /\ pc' = ctx.resume_pc
  /\ mode' = "loop"
  /\ UNCHANGED <<lr, r3, r4, stack, slots, uerr, status>>

Resume ==
  /\ mode = "after" /\ ctx.trap_pending = 1 /\ ctx.should_stop = 0
  /\ ctx' = [ctx EXCEPT !.trap_pending = 0]
  /\ pc' = ctx.resume_pc
  /\ mode' = "loop"
  /\ UNCHANGED <<lr, r3, r4, stack, slots, uerr, status>>

\* Mutant: the exit code is returned without asking whether the guest exited.
Leave_AssumesExit ==
  /\ mode = "after"
  /\ ctx.trap_pending = 0 \/ ctx.should_stop = 1
  /\ ctx' = [ctx EXCEPT !.trap_pending = 0]
  /\ Finish(IF uerr = 1 /\ ctx.trap_pending = 0 THEN -1 ELSE ctx.exit_code)
  /\ UNCHANGED <<regs, stack, slots, uerr>>

\* The loop is left: by a stop request, an error, or a slice that just ended.
Leave ==
  /\ mode = "after"
  /\ ctx.trap_pending = 0 \/ ctx.should_stop = 1
  /\ ctx' = [ctx EXCEPT !.trap_pending = 0]
  /\ Finish(IF (uerr = 1 /\ ctx.trap_pending = 0) \/ ctx.should_stop = 0
            THEN -1 ELSE ctx.exit_code)
  /\ UNCHANGED <<regs, stack, slots, uerr>>

Done == mode = "done" /\ UNCHANGED vars

-----------------------------------------------------------------------------
GuestCall == CallImport \/ TailCallImport \/ CallBsearch \/ CallPthreadCreate
               \/ CallNull
Guest == GuestEnter \/ GuestReturn \/ GuestCall \/ CallExit \/ SyscallExit
           \/ Fault
Hook  == FetchBsearchRet \/ FetchPthreadRet \/ FetchNull
Host  == LoopNull \/ StartSlice \/ Resume \/ Leave

Next == Guest \/ Timeout \/ Hook \/ Host \/ Done

(***************************************************************************)
(* The host loop runs; a slice that lasts is ended by its timer.  The      *)
(* guest owes no progress.                                                 *)
(***************************************************************************)
Fairness == WF_vars(Host) /\ WF_vars(Timeout)

Spec == Init /\ [][Next]_vars /\ Fairness

-----------------------------------------------------------------------------
(***************************************************************************)
(* Safety.                                                                 *)
(***************************************************************************)

\* Whatever traps, callbacks and tail calls came in between, guest code runs
\* only in the activation on top of the guest's stack: every resume address
\* the host computes belongs to the frame the stack pointer is at.
ControlMatchesStack == mode = "guest" /\ pc \in Code => pc = sp

\* When control is back in an activation that called bsearch or pthread_create
\* r3 is that call's own answer: the element that compares equal, null if there
\* is none, the thread number; never the outcome of a call nested in it.
CallsAnswered ==
  mode = "guest" /\ pc = sp /\ sp > 0 =>
    \/ frame[sp].want = ANY
    \/ frame[sp].want = r3

\* The element searched for is inside the window for as long as the search is
\* on, across every round trip through the guest's comparison function.
KeyInWindow ==
  bs.active = 1 /\ bs.compar = COMPAR /\ bs.orig_lr \in Code =>
    LET answer == frame[bs.orig_lr].want
    IN  answer \in 1 .. MaxElems => answer - 1 \in bs.lo .. bs.hi

\* A callback returns while the call that started it is still in its slot: the
\* return traps never find the slot free, which would resume at a stale address
\* (hle_bsearch_return) or at the trap itself (TRAP_PTHREAD_RET).
NoStrayReturn ==
  mode = "guest" => /\ (pc = TRAP_BSEARCH_RET => bs.active = 1)
                    /\ (pc = TRAP_PTHREAD_RET => pts.active = 1)

\* Once the guest has asked to stop, by any of the four ways to exit and from
\* inside any callback, it never runs again.
NoCodeAfterExit == ctx.should_stop = 1 => mode \in {"after", "done"}

\* The host's exit status is the guest's, cut to a byte as exit does; it says
\* the run failed when the guest did not exit (sosetta_runtime_run, main).
ExitStatus ==
  mode = "done" =>
    status = IF ctx.should_stop = 1 THEN ctx.exit_code % 256 ELSE FAILED

\* An exit is honoured, from any depth and with any trap pending: nothing of the
\* guest runs after it (runtime.c 448-465), and its code is what the host ends with.
ExitHonoured == NoCodeAfterExit /\ ExitStatus

(***************************************************************************)
(* Callers and callees see synchronous calls.                              *)
(***************************************************************************)
\* Where the guest runs next: the resume address of a pending trap, else pc.
Target == IF mode = "after" /\ ctx.trap_pending = 1 THEN ctx.resume_pc ELSE pc

Activations ==
  [d \in 1 .. sp |-> [fn |-> frame[d].fn, await |-> frame[d].await, want |-> frame[d].want]]

\* A guest about to be resumed already runs: the innermost, or another, astray.
Who ==
  IF mode = "done" THEN "nobody"
  ELSE IF ctx.should_stop = 1 \/ Target \notin Code THEN "host"
  ELSE IF Target = sp THEN "guest" ELSE "astray"

Given  == IF Who = "guest" THEN r3 ELSE 0
Exited == IF ctx.should_stop = 1 THEN <<ctx.exit_code>> ELSE <<>>

S == INSTANCE Synchronous WITH
       acts <- Activations, who <- Who, given <- Given, exit <- Exited

\* Through traps, redirections, resumptions and two static slots, the library's calls
\* are synchronous: no callback is entered but by the call its caller waits for, no
\* caller runs before its callbacks have returned or with another answer, and an exit
\* from any depth is the last thing that happens (runtime.c 384-476, hle.c 2379-2527).
CallsAreSynchronous == S!Spec

(***************************************************************************)
(* Liveness.                                                               *)
(***************************************************************************)

\* The run ends: the guest exits, fails, or is timed out (RUN_TIMEOUT_US).
Termination == <>(mode = "done")

\* A guest that stops calling the host is ended: no exchange of traps and
\* resumptions that the host alone keeps going lasts forever.
QuietGuestEnds == <>[][~GuestCall]_vars => Termination

=============================================================================
