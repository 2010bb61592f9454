------------------------------- MODULE Calls --------------------------------
(***************************************************************************)
(* The Darwin calls of syscall.c, entered by the guest's own system call   *)
(* instruction (sosetta_syscall_hook) or by a library function that hands  *)
(* its arguments on (route_bsd), and the socket functions of hle.c that    *)
(* report errors themselves.  What a call leaves behind: the result in r3, *)
(* the word of errno, and the files of the host.                           *)
(*                                                                         *)
(* The guest writes a stream of bytes numbered from 1, going on from where *)
(* the results so far say it is, and reads an input by position.           *)
(***************************************************************************)
EXTENDS Integers, Sequences

CONSTANTS
  Word,        \* registers are below this power of two (2^32)
  MaxIo,       \* MAX_IO_SIZE, the most one read or write moves
  StreamLen,   \* the bytes the guest has to write
  MaxOutput,   \* bound on what the host takes, repeats included
  InputLen,    \* the bytes of the input
  Sizes,       \* the counts the guest asks for
  HostErrors,  \* the errors the host may answer with, by Linux number
  Habits       \* what the guest and the host may do, see below

\* "late_error": the host may fail a write it has already taken a part of.
\* "bad_buffer": the guest may read into memory it has not mapped.
\* "far": the host may answer with a number that has the top bit of a word.
\* "tell": the guest may use the library's lseek for more than rewinding.
\* "sc": the guest may have system call instructions of its own.
AllHabits == {"late_error", "bad_buffer", "far", "tell", "sc"}

ASSUME CallsAssumption ==
  /\ Word \in Nat /\ Word >= 65536 /\ Word % 512 = 0
  /\ MaxIo \in Nat \ {0} /\ StreamLen \in Nat /\ InputLen \in Nat
  /\ MaxOutput \in Nat /\ MaxOutput >= StreamLen
  /\ MaxIo < Word \div 2 /\ InputLen + 1 < Word \div 2
  /\ Sizes \subseteq Nat
  /\ HostErrors \subseteq 1 .. 133
  /\ Habits \subseteq SUBSET AllHabits

VARIABLES
  call,    \* the write under way, or none
  r3,      \* the guest's r3 after its last call
  errno,   \* the guest's errno word: the number stored and in whose byte order
  bound,   \* 1 if the guest has an errno word (errno_addr # 0)
  output,  \* what the host has been given to write
  sent,    \* how many bytes the guest believes written
  pos,     \* the host's position in the input
  at,      \* where the guest believes it is
  stop,    \* should_stop
  habits   \* one of Habits, the same all along

callsVars == <<call, r3, errno, bound, output, sent, pos, at, stop, habits>>

Vias == {"library"} \cup ({"sc"} \cap habits)
IDLE == [via |-> "none", n |-> 0, total |-> 0]

CallsTypeOK ==
  /\ call \in [via : {"none", "sc", "library"}, n : 0 .. MaxIo, total : 0 .. MaxIo]
  /\ r3 \in 0 .. Word - 1
  /\ errno \in [code : 0 .. Word - 1, order : {"big", "little"}]
  /\ bound \in {0, 1} /\ stop \in {0, 1}
  /\ output \in Seq(1 .. StreamLen)
  /\ sent \in 0 .. StreamLen
  /\ pos \in 0 .. InputLen + 1
  /\ at \in Nat
  /\ habits \in Habits

CallsInit ==
  /\ call = IDLE /\ r3 = 0
  /\ errno = [code |-> 0, order |-> "big"]
  /\ bound \in {0, 1}
  /\ output = <<>> /\ sent = 0
  /\ pos = 0 /\ at = 0
  /\ stop = 0
  /\ habits \in Habits

-----------------------------------------------------------------------------
(***************************************************************************)
(* Errors.  Linux and Darwin agree on the first numbers and part after 34; *)
(* a number the table does not have is handed on as it is.                 *)
(***************************************************************************)
EFAULT == 14
ENOMEM == 12
EINVAL == 22
EINTR == 4
ENOSYS == 38

\* The rows of the table that are not the identity, as <<darwin, linux>>.
Table == {<<11, 35>>, <<35, 11>>, <<36, 115>>, <<37, 114>>, <<38, 88>>, <<39, 89>>,
          <<40, 90>>, <<41, 91>>, <<42, 92>>, <<43, 93>>, <<44, 94>>, <<45, 95>>,
          <<46, 96>>, <<47, 97>>, <<48, 98>>, <<49, 99>>, <<50, 100>>, <<51, 101>>,
          <<52, 102>>, <<53, 103>>, <<54, 104>>, <<55, 105>>, <<56, 106>>,
          <<57, 107>>, <<58, 108>>, <<59, 109>>, <<60, 110>>, <<61, 111>>,
          <<62, 40>>, <<63, 36>>, <<64, 112>>, <<65, 113>>, <<66, 39>>, <<68, 87>>,
          <<69, 122>>, <<70, 116>>, <<78, 38>>, <<86, 75>>, <<91, 125>>, <<92, 43>>,
          <<93, 42>>, <<94, 84>>}

ToDarwin(linux) ==
  IF \E row \in Table : row[2] = linux
  THEN (CHOOSE row \in Table : row[2] = linux)[1]
  ELSE linux

\* gerr, fail_linux: the error negated in a word.
Negated(darwin) == (-darwin) % Word
Fail(linux)     == Negated(ToDarwin(linux))

\* (int32_t)r < 0
IsNegative(r) == r >= Word \div 2

-----------------------------------------------------------------------------
(***************************************************************************)
(* How a call ends.                                                        *)
(***************************************************************************)
\* Mutant: the hook stores an error whatever the result.
StoreError_Always(r) == IF bound = 1 THEN errno' = [code |-> Negated(r), order |-> "little"]
                                     ELSE UNCHANGED errno

\* The hook takes a result with the top bit for an error, and writes it as the
\* host keeps it.
StoreError(r) ==
  IF IsNegative(r) /\ bound = 1
  THEN errno' = [code |-> Negated(r), order |-> "little"]
  ELSE UNCHANGED errno

\* route_bsd leaves errno alone.
Ends(via, r) ==
  /\ r3' = r
  /\ IF via = "sc" THEN StoreError(r) ELSE UNCHANGED errno

\* sosetta_hle_set_errno, and the function's own negative result.
Reports(darwin, result) ==
  /\ errno' = IF bound = 1 THEN [code |-> darwin, order |-> "big"] ELSE errno
  /\ r3' = Negated(result)

Ready == call = IDLE /\ stop = 0

Least(a, b) == IF a <= b THEN a ELSE b

-----------------------------------------------------------------------------
(***************************************************************************)
(* write: the loop that goes on until the host has taken everything.       *)
(***************************************************************************)
\* The bytes are read before the loop.
WriteStart(via, n) ==
  /\ call' = [via |-> via, n |-> Least(n, MaxIo), total |-> 0]
  /\ UNCHANGED <<r3, errno, sent>>

Write == \E via \in Vias, n \in Sizes :
  /\ Ready /\ sent + n <= StreamLen
  /\ \/ WriteStart(via, n)
     \/ \E e \in {ENOMEM, EFAULT} :
          /\ e = EFAULT => n > 0     \* the guest's buffer is not mapped
          /\ Ends(via, Fail(e))
          /\ UNCHANGED <<call, sent>>
  /\ UNCHANGED <<bound, output, pos, at, stop, habits>>

\* The bytes sent + from .. of the stream.
Stretch(from, n) == [k \in 1 .. n |-> sent + from + k]

\* The host takes some of what is left.
HostTakes == \E k \in 1 .. call.n :
  /\ call # IDLE /\ call.total + k <= call.n /\ Len(output) + k <= MaxOutput
  /\ output' = output \o Stretch(call.total, k)
  /\ call' = [call EXCEPT !.total = @ + k]
  /\ UNCHANGED <<r3, errno, bound, sent, pos, at, stop, habits>>

\* It is interrupted, or takes nothing: the loop calls it again.
HostInterrupts ==
  /\ call # IDLE /\ call.total < call.n
  /\ UNCHANGED callsVars

\* Mutant: a partial write before the error is not reported, nor the error.
WriteFails_AsDone(e) == Ends(call.via, call.n) /\ sent' = sent + call.n

\* An error ends the loop, and is all the guest is told.
WriteFails(e) == Ends(call.via, Fail(e)) /\ UNCHANGED sent

HostFails == \E e \in HostErrors \ {EINTR} :
  /\ call # IDLE /\ call.total < call.n
  /\ call.total > 0 => "late_error" \in habits
  /\ WriteFails(e)
  /\ call' = IDLE
  /\ UNCHANGED <<bound, output, pos, at, stop, habits>>

\* Mutant: the loop runs once more when everything has been taken.
WriteDone_OneMore ==
  /\ call # IDLE /\ call.total > call.n
  /\ Ends(call.via, call.total)
  /\ sent' = sent + call.total
  /\ call' = IDLE

WriteDone ==
  /\ call # IDLE /\ call.total = call.n
  /\ Ends(call.via, call.total)
  /\ sent' = sent + call.total
  /\ call' = IDLE

WriteReturns == WriteDone /\ UNCHANGED <<bound, output, pos, at, stop, habits>>

-----------------------------------------------------------------------------
(***************************************************************************)
(* read and lseek.  The guest follows its position by the results it takes *)
(* for successes.                                                          *)
(***************************************************************************)
Follows(r, there) == at' = IF IsNegative(r) THEN at ELSE there

Left == IF pos < InputLen THEN InputLen - pos ELSE 0

\* Mutant: the buffer is read at full size, the guest told of what it asked for.
ReadGives_Asked(n, k) == n

ReadGives(n, k) == k

\* The host has moved on before the bytes are found to have no place.
ReadTakes(via, n, k, mapped) ==
  LET r == IF mapped \/ k = 0 THEN ReadGives(n, k) ELSE Fail(EFAULT)
  IN  /\ pos' = pos + k
      /\ Ends(via, r)
      /\ Follows(r, at + r)

Read == \E via \in Vias, n \in Sizes :
  /\ Ready
  /\ \/ \E k \in 0 .. Least(Least(n, MaxIo), Left), mapped \in BOOLEAN :
          /\ k = 0 => n = 0 \/ Left = 0     \* only at the end is nothing read
          /\ mapped \/ "bad_buffer" \in habits
          /\ ReadTakes(via, n, k, mapped)
     \/ \E e \in HostErrors \cup {ENOMEM} :
          /\ Ends(via, Fail(e))
          /\ UNCHANGED <<pos, at>>
  /\ UNCHANGED <<call, bound, output, sent, stop, habits>>

\* Where the host's lseek goes: one byte past the end at most, in this model.
Target(off, whence) ==
  off + (CASE whence = "set" -> 0 [] whence = "cur" -> pos [] whence = "end" -> InputLen)

Moves(off, whence) == Target(off, whence) >= 0

Lseek == \E off \in {-1, 0, 1}, whence \in {"set", "cur", "end"} :
  /\ Ready /\ "sc" \in habits /\ Target(off, whence) <= InputLen + 1
  /\ \/ /\ Moves(off, whence)
        /\ pos' = Target(off, whence)
        /\ Ends("sc", pos')
        /\ Follows(r3', r3')
     \/ \E e \in HostErrors \cup (IF Moves(off, whence) THEN {} ELSE {EINVAL}) :
          /\ Ends("sc", Fail(e))
          /\ UNCHANGED <<pos, at>>
  /\ UNCHANGED <<call, bound, output, sent, stop, habits>>

\* hle_lseek takes the low word of the guest's 64-bit offset for the high one:
\* it has to be zero, and the host is always asked for offset 0.
LibraryLseekTo(lo, whence) == Target(0, whence)

\* The position comes back in r3, which the guest reads as the high word.
LibraryLseek == \E lo \in {0, 1}, whence \in {"set", "cur", "end"} :
  /\ Ready
  /\ whence = "set" \/ "tell" \in habits
  /\ \/ /\ lo = 0
        /\ pos' = LibraryLseekTo(lo, whence)
        /\ Ends("library", pos')
        /\ Follows(r3', r3' * Word)
     \/ /\ lo = 0
        /\ \E e \in HostErrors : Ends("library", Fail(e))
        /\ UNCHANGED <<pos, at>>
     \/ /\ lo # 0
        /\ Ends("library", Negated(EINVAL))
        /\ UNCHANGED <<pos, at>>
  /\ UNCHANGED <<call, bound, output, sent, stop, habits>>

-----------------------------------------------------------------------------
(***************************************************************************)
(* The other calls: what each may answer.                                  *)
(***************************************************************************)
Far == IF "far" \in habits THEN {Word \div 2, Word - Word \div 4} ELSE {}

\* A descriptor, a process number, an address: small, or with the top bit.
Answers ==
  [open   |-> {3},                unlink |-> {0},  close |-> {0},
   getpid |-> {7} \cup Far,       mmap   |-> {64} \cup Far,
   munmap |-> {0},                other  |-> {}]

Failures ==
  [open   |-> HostErrors \cup {EFAULT},  unlink |-> HostErrors \cup {EFAULT},
   close  |-> HostErrors,                getpid |-> {},
   mmap   |-> {EINVAL},                  munmap |-> {EINVAL},
   other  |-> {ENOSYS}]

\* open, unlink, close, getpid, mmap, munmap, and every number not served: fork,
\* the Mach traps, ftruncate.
PlainCall == \E nr \in DOMAIN Answers, via \in Vias :
  /\ Ready
  /\ \/ \E v \in Answers[nr] : Ends(via, v)
     \/ \E e \in Failures[nr] : Ends(via, Fail(e))
  /\ UNCHANGED <<call, bound, output, sent, pos, at, stop, habits>>

\* What socket, connect, send, recv, fstat, stat and select store in errno, and
\* the number they return negated.
OwnErrors(name) ==
  LET Host(result) == {<<ToDarwin(e), result>> : e \in HostErrors}
  IN  CASE name = "socket"  -> {<<43, 43>>, <<78, 78>>, <<24, 24>>}
        [] name = "connect" -> {<<9, 9>>, <<14, 14>>} \cup Host(78)
        [] name = "send"    -> {<<9, 9>>, <<14, 14>>} \cup Host(78)
        [] name = "recv"    -> {<<9, 9>>} \cup Host(78)
        [] name = "fstat"   -> {<<9, 9>>}
        [] name = "stat"    -> Host(2)
        [] name = "select"  -> Host(78)

SocketCall == \E name \in {"socket", "connect", "send", "recv", "fstat", "stat", "select"} :
  /\ Ready
  /\ \/ r3' = 3 /\ UNCHANGED errno
     \/ \E e \in OwnErrors(name) : Reports(e[1], e[2])
  /\ UNCHANGED <<call, bound, output, sent, pos, at, stop, habits>>

\* exit; the hook sets r3 to the 0 it began with.
Exit ==
  /\ Ready
  /\ stop' = 1 /\ r3' = 0
  /\ UNCHANGED <<call, errno, bound, output, sent, pos, at, habits>>

CallsNext ==
  \/ Write \/ HostTakes \/ HostInterrupts \/ HostFails \/ WriteReturns
  \/ Read \/ Lseek \/ LibraryLseek
  \/ PlainCall \/ SocketCall \/ Exit

\* A host that is asked again and again takes something or fails in the end, and
\* the emulator goes on; the guest need not.
Fairness == WF_callsVars(HostTakes \/ HostFails \/ WriteReturns)

CallsSpec == CallsInit /\ [][CallsNext]_callsVars /\ Fairness

-----------------------------------------------------------------------------
(***************************************************************************)
(* Properties.                                                             *)
(***************************************************************************)

\* What the host has of the stream is exactly what the guest has been told was
\* written, and the part of the write under way: whatever the host interrupts,
\* splits or refuses, and however the guest's calls are capped, no byte is
\* missing, twice there or out of order, if no error follows a partial write.
StreamInOrder ==
  "late_error" \notin habits => output = [k \in 1 .. sent + call.total |-> k]

\* The registers stay words, no write counts past what it was asked, and the stream is
\* in order.
StreamSound == CallsTypeOK /\ StreamInOrder

\* A guest that reads into memory it has, and rewinds with the library's lseek
\* only, always knows where in the input it is.
PositionKnown ==
  habits \cap {"bad_buffer", "tell"} = {} => at = pos

\* The word of errno as the guest loads it.
ErrnoRead(e) == IF e.order = "big" THEN e.code ELSE (e.code * (Word \div 256)) % Word

DarwinNumbers == {ToDarwin(e) : e \in HostErrors} \cup {9, 12, 14, 22, 24, 43, 78}

\* Only a call that fails, and says so by its result, changes errno, and then to
\* an error's number: as long as no call succeeds with a number that has the top
\* bit; and a guest without system calls of its own reads the number right.
ErrnoOnlyByFailure ==
  [][errno' # errno /\ "far" \notin habits =>
       /\ IsNegative(r3')
       /\ errno'.code \in DarwinNumbers
       /\ "sc" \notin habits => ErrnoRead(errno') \in DarwinNumbers]_callsVars

\* Every write comes to an end, however often the host interrupts it.
WritesEnd == (call # IDLE) ~> (call = IDLE)
=============================================================================
