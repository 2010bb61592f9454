# A verification project for sosetta

sosetta runs a PowerPC Mach-O program of Mac OS X on Linux: a Unicorn CPU
executes the guest's instructions, and the guest's library and system calls are
executed on the host.  This directory holds TLA+ models of the parts of it that
keep state or carry control, TLC configurations that check them on small
instances, and TLAPS proofs of what matters most for every instance.  Source
references are to `src/` of the repository (`src/hle.c` below is `src/src/hle.c`
in `PROJECT.json`).

## 1. The system

| Component | State | Operations | Hard behaviour | Correct means |
|---|---|---|---|---|
| Run loop, trap dispatch, callbacks (`runtime.c` 384-476, `cpu.c` 110-190, 378-390, `hle.c` 2379-2389, 2453-2527, 2952-3015, `main.c`) | pc, lr, r3, r4; `sosetta_syscall_ctx` (`trap_pending`, `resume_pc`, `should_stop`, `exit_code`); the static slots `bs` and `pts` | slice start and end, fetch hook, resume; bsearch and pthread_create calling back into the guest; exit in four ways; null calls | one static slot for a call that can nest; an exit under a pending trap; a timeout per slice | control returns to the activation that called, with that call's answer; nothing runs after exit; the exit status is the guest's |
| Guest heap (`hle.c` 179-220, 1277-1347) | `heap_bump` (static), the blocks | malloc, calloc, realloc, free, alloc_zeroed | 32-bit sums, first allocation, `free` that does nothing, second guest in one process | blocks inside the arena and apart; realloc keeps data |
| Descriptors (`hle.c` 223-278, 403-523, 747-759; `syscall.c` 237-327) | `fdmap`, `fdmap_next`, the host's table | socket, open, close, read, write, fcntl, fdopen | two numberings that only some calls translate; both tables can fill | a transfer reaches the object its number was given for |
| Symbol binding (`hle.c` 2762-2939, 2982-2995) | `hle_ids_used`, the symbol pointers | hle_bind, hle_lookup, dyld_func_lookup | fixed and growing ids in one number space, a region that fills | an import runs the function of its name |
| stdio streams, directories (`hle.c` 283-353, 1656-2010, 2244-2310) | `sf_kind`, `sf_host`, `sf_eof`, `sf_err`, `sf_fd` | fopen .. closedir | slots shared by streams and directories, 17 of them | bytes once and in order, no slot lost |
| select (`hle.c` 540-623) | none of its own: the guest's sets, the descriptor map | select | a bit set read as bytes, two numberings | the answer is about descriptors that were asked for |
| Darwin system calls (`syscall.c`; `route_bsd`, socket functions of `hle.c`) | errno word of the guest, `should_stop` | every case of `sosetta_bsd_syscall`, by the hook and by the library | a write split, interrupted, refused half way; the error test on the sign of r3; two ways to store errno | no byte lost or repeated; errno changes by a failure only |
| Address space (`syscall.c` 153-204, `runtime.c` 76-101, `cpu.c` 236-262) | `map_hint`, the mapped pages | mmap, munmap, map | collisions, wrap-around, MAP_FIXED | mappings apart, trap region unmapped |
| Image loading (`runtime.c` 161-256), initial stack (`runtime.c` 258-377) | the guest's memory, `stack_top`, `stack_base` | load, setup_stack | failures ignored or half way, a second place for the stack, two ways to add up sizes | the stack is r1's, the arguments are on it |
| Mach-O parser (`macho.c`) | offset, end of the commands, segments, symbol table | parse (fat, thin, each load command), sym_name | 32-bit sums, counts and sizes as they come in a damaged file | reads stay inside the file, every command is handled |
| Debug tools (`debug.c`) | ring and its position, breakpoints, symbol index | load, block and instruction hooks, report, lookup, shutdown | a wrapped ring, static state over two runs, a stack read while it changes, a second parser | the report lists what ran and who called |
| C library: memory and strings (`hle.c` 896-1275) | host buffers of fixed sizes that keep old bytes | memcpy .. strcspn | the boundary of each buffer | as in the C standard |
| C library: printf (`hle.c` 355-401, 761-895, 2067-2202) | `obuf`, the argument counters | vfmt, vfmt_va, snprintf | arguments in three places and two byte orders, buffers' ends | each directive gets its argument, no write past a buffer |
| Command line, endian helpers, tests, vendored curl and keymgr sources | - | - | - | see `PROJECT.json` for why they are left out |

How they interact.  The guest runs inside `uc_emu_start`.  A branch to an
imported function goes through a symbol pointer (written by *binding*) into the
unmapped trap region; the fetch hook calls `sosetta_hle_call`, which chooses
the function by the trap's number; the function works on the *heap*, the
*descriptors* or the *streams*, several of them through `sosetta_bsd_syscall`;
`bsearch` and `pthread_create` redirect the guest to a callback.  The hook
leaves `resume_pc` in the context and stops the slice; the *run loop* resumes.
A system call traps into `intr_cb` and `sosetta_syscall_hook` instead.
Everything is one host thread; the concurrency is the interleaving of guest
activations, callbacks and host handlers over static state.

## 2. The modules

| Module | Models | State and actions |
|---|---|---|
| `TrapLoop` | run loop, hook, callbacks | `mode` says who runs: "loop" (top of `sosetta_runtime_run`), "guest" (inside `uc_emu_start`), "after" (it returned), "done". Guest actions: entering a callback, returning, calling (`CallImport`, `TailCallImport`, `CallBsearch`, `CallPthreadCreate`, `CallNull`), exiting, faulting. Hook actions: `FetchBsearchRet`, `FetchPthreadRet`, `FetchNull`. Host actions: `LoopNull`, `StartSlice`, `Resume`, `Leave` |
| `Synchronous` | what a guest may expect of a library that calls it back | the guest's activations, who runs, what the innermost was given, the exit; slices, traps and registers are not seen. `CallsAreSynchronous` of `TrapLoop` maps the guest's stack to the activations; the innermost runs as soon as it is about to be resumed, and one resumed in the code of another is astray, which `Synchronous` does not know |
| `Arena` | what an allocator promises | blocks in a range, apart, allocated, released, moved |
| `Heap` | `halloc` and its callers | one action per call; addresses and sizes cut to the machine word; `ImplementsArena` maps a block to what the guest asked for |
| `FdMap` | descriptor map, host table | one action per call; `Reached(n)` is what a transfer on n acts on |
| `Bind` | `hle_bind`, `hle_lookup`, dispatch | one action per kind of symbol pointer; `Runs(id)` is the dispatch |
| `Stdio` | slots of streams and directories, the host's FILEs, flags | one action per call; `given` of a stream is which of its bytes the guest was handed since it opened or rewound it, `astray` that an fseek moved it that was meant for another, or did not when it was meant for it |
| `StackLayout` | the argument block of `setup_stack` | the two loops over the strings, one action for each turn (`Measure`, `Place`), `Reserve` between them, `Write` at the end; `placed` is where each string went, `words` what stands before the strings |
| `Startup` | `sosetta_runtime_load`, the regions of `hle_bind`, the stack, mmap and munmap; extends `StackLayout` | `owner` says what each page belongs to; one action per segment, for the stubs, the binding, the stack, and per system call |
| `Calls` | `sosetta_bsd_syscall` behind its two entries, the library's own errors | the write loop as actions of the host (`HostTakes`, `HostInterrupts`, `HostFails`), read, lseek, the other calls by what they may answer; `output` is what the host was given, `sent` and `at` what the guest believes |
| `Macho` | the parser of `macho.c` | one action per kind of load command; `reach` is how far the file has been read, `off` and `cend` are 32-bit words |
| `Symbols` | the symbol index and search of `debug.c` | reading, sorting, and one action per turn of the binary search |
| `Image` | a parsed image in use; extends `Macho` and `Symbols` | the debug tools' own walk over the load commands, the reading of symbol names by the binding, the index |
| `Debug` | ring, breakpoints, report, backtrace of `debug.c` | a guest that executes, calls and returns with and without frames; load, report and close around it; `ran`, `entered` and `acts` are what really happened |
| `GuestMemory`, `CString` | the guest's bytes and 20 functions from memcpy to strcspn | an operator for each function: the set of results a call may have |
| `CStandard` | what the C standard says of the same functions | `Legal`, `Destination`, `Expected` |
| `FdSets` | `hle_select` | `Select`, on sets of descriptor numbers |
| `Library` | one call of a function of `CString` or of `select` | `request`, `reply` |
| `Format` | vfmt, vfmt_va, va_next, snprintf | one action per kind of directive and place of its argument, `Flush` at the end; `reads` is where each directive's arguments came from, and whether their bytes were taken in the wrong order |
| `MC...` | constants for TLC | |
| `TrapLoopProofs`, `HeapProofs`, `StdioProofs`, `StartupProofs`, `DebugProofs` | theorems about the module of that name | |
| `CallsProofs`, `ImageProofs`, `LibraryProofs` | theorems about `Calls` and `FdMap`; about `Symbols`, `Image` and `Bind`; about `Library` and `Format` | two components in one module: no state is shared |

The guest.  `TrapLoop` lets the guest be any program that keeps the PowerPC
calling convention: an activation saves the link register it was entered with
and returns to it, with calls, tail calls, callbacks of the two kinds, null
function pointers, faults and exits at every point.  An address is the call
depth whose code it is, so that "the resume address belongs to the activation
on top of the stack" is `pc = sp`.  A bsearch array is the odd numbers, its
element pointers 1, 2, ..., and the key any number in or around it, so that a
hit, a miss and every gap occur and the expected answer is known.  The
comparison function compares what its two arguments say, which is how the model
notices a lost or exchanged r3, r4.

In `Library` the request is any legal or illegal call over a small memory, and
the reply is compared with the standard's answer; a host buffer that keeps what
an earlier call left is a choice among results.  In `Image` a file is its size,
its header's fields and its commands, each of which may be wrong.

The operators named `X_Something` beside `X` are faulty variants of `X`, used to
see that each property can be violated by a plausible slip in that code.  No
action uses them.

## 3. The runs

Each module's type invariant is a conjunct of one of its properties (`HeapWhole`,
`TrapsWhole`, `DescriptorsOwned`, `SlotsMatchHost`, `ArgumentsPlaced`,
`StreamSound`, `BufferSafe`, `SearchSound`, `CountsSound`).

| Run | Checks | Bounds and why they are enough |
|---|---|---|
| `traploop` | `TypeOK`, `ControlMatchesStack`, `CallsAnswered`, `ExitHonoured`, `CallsAreSynchronous`, `QuietGuestEnds`, with callbacks that start no call of their own kind | depth 3: a callback inside a callback of the other kind; up to 4 elements: both halves of a search, and a second and a third step; exit codes 0, 3, 256 |
| `traploop_nested` | violation of `ControlMatchesStack` when a callback may start a call of its own kind | finding 1 |
| `heap` | `HeapWhole`, `BlocksApart`, `ReallocKeepsData`, `ImplementsArena` | a 9-bit word, a heap of 120 bytes: four or five blocks fill it, sizes on both sides of the rounding, an array product that overflows the word |
| `fdmap` | `DescriptorsOwned` for every guest; `NeverAnother`, `NotGivenTwice` for one that closes what it holds, has a FILE to spare for fdopen and duplicates what transfers reach | two kinds of guests, the second closing any number, duplicating files and running fdopen without a FILE; two socket slots, one FILE, five host descriptors, three objects beyond the standard ones: all three tables fill, the third socket meets a full map |
| `bind` | `TrapsWhole`, `ImportsRunTheirOwn`, `AllBound` | every image of five pointers over five entries, one name twice (as `_close` is), two unknown symbols, local symbols; a trap region that holds three ids after the table, so that the third is a return trap and the fourth unknown symbol finds it full |
| `stdio` | `SlotsMatchHost`, `OnlyTailsLost`, `FlagsTrue` | two free slots and three host objects, so that an open may find every slot taken; an empty file and one of two lines, the second without its newline, the same as standard input, reads of one and two bytes, a line buffer of three that reaches into the second line: a read ends before, at and after the end, and an fgets drops a byte; the register that fseek reads its stream from holds any stream or directory in use |
| `startup` | `TrapsFault`, `HostMemoryIsOwn`, `ArgumentsPlaced` | 17 pages of 64 bytes in the order of the real address space; 18 images, one for each way to be in the way of the hint, the heap, the library, the stubs, the traps or the stack, and thread stacks that are unaligned, taken, wrapping or not mappable; nine command lines: none, one argument, `curl -V`, paddings that fit, just fit and are a byte too much, whole words, one too long for its stack, and that of `tests/test_integration.c:125`; mappings of up to two pages, so that the hint reaches the heap |
| `calls` | `StreamSound`, `PositionKnown`, `ErrnoOnlyByFailure`, `WritesEnd` | four guests (`MCCalls`); a stream of three bytes written at most two at a time, so that a write is capped, split and interrupted, and a second one follows; an input of three bytes, so that a read ends before, at and after its end; one error that keeps its number on Darwin and one that changes it |
| `library` | `AgreesWithC`, `SelectAnswersAsked` | every memory of up to four bytes over NUL, A and a, so that regions are unterminated, overlap and end at the memory's end; buffers of two or three bytes and counts from 0 to 3, on both sides of each buffer; fd_sets of two words of four one-bit bytes, and every map of four slots over three host descriptors |
| `format` | `ArgumentsMatch`, `BufferHoldsText`, `BufferSafe` | every format of up to three pieces of eleven kinds, after one or two named arguments, with three words and one double in registers: each kind is met in registers, across their end and beyond; a conversion makes anything up to two characters and the text buffer has four, so that it fills between and within pieces; buffers of 0, 3 and 6 characters |
| `image` | `ReadsInFile`, `ParsedWhole`, `SymtabAgrees`, `SearchSound`, `NamedAfterNearest`, `LookupEnds` | every list of up to two of 18 commands, in a file cut off, exact and padded, with a command too many or too few, and sizes that are short, exact, long and past the 10-bit word; fat files with up to two slices; three symbol tables, one empty, with repeated, zero and unnamed entries; lookups below, at, between and above them |
| `debug` | `ListsLatest`, `CountsSound`, `TracesCallers` | rings of 2 and 4 with a list of 3, so that a report is shorter and longer than its ring; two runs of one process; two breakpoints at one address; five instructions and up to four calls with frames on both sides of the backtrace's step |

Fairness.  `TrapLoop` is weakly fair to `Host`, the straight-line code of the
run loop, and to `Timeout`, since `uc_emu_start` is given a timeout and ends
the slice.  The guest owes nothing.  `Bind` is weakly fair to `BindNext`: it is one
loop of the host.  `Calls` is weakly fair to `HostTakes`, `HostFails` and
`WriteReturns` together: a host asked again and again takes something or fails
in the end; one that returned 0 or was interrupted for ever would hold the
guest, since the loop has no bound of its own.  `Image` is weakly fair to a
turn of the lookup's loop, not to lookups being asked for.

Deadlock is checked except where the system may stop: `FdMap` and `Calls` (the
guest may stop calling, and the bounds on objects and output end a run), `Bind`,
`Library` and `Format` (they end), `Startup` and `Image` (they may fail), and
`Debug` (bounded in steps and runs).

## 4. Findings

1. `bs` and `pts` are single static slots.  A comparison function that calls
   `bsearch`, or a start routine that calls `pthread_create`, overwrites the
   outer call's state and control resumes in the wrong activation.

Met while modelling, and excluded from the passing runs by their constants or
by a condition of the property:

* The 5 s timeout is armed for each slice, and every library call ends a slice:
  a guest that keeps calling is never timed out.  `QuietGuestEnds` is therefore
  about a guest that stops calling.
* A guest exit code that is negative as an `int` is reported by `main` as a
  failed run (`ExitCodes` of the run are natural numbers).
* `siglongjmp` restores the saved registers and the hook then resumes at the
  link register of the `siglongjmp` call: it returns to its caller.
* A file opened with `open` cannot be read or written: transfers translate the
  number with `hle_host_fd`, which knows sockets and 0 to 2 only.  `close` of a
  socket closes neither the host's socket nor its slot.
* `TRAP_HEADER` and `TRAP_NAME` are ids 63 and 62 of `hle_table`: what the guest
  finds under `__dyld_get_image_header` runs another function (`MCBind` states
  it as an assumption, which TLC evaluates).
* `fgets` reads a whole buffer from the host, hands over its first line and
  drops the rest: a file read line by line loses lines.  `OnlyTailsLost` is what
  remains of the order of a stream: its bytes come once and in order, and what
  is missing lies behind a newline that was handed over, within one buffer.
  `fseek` takes its stream from the fourth argument register (habit "fourth" of
  `Stdio`, which the run has): the stream that is meant stays where it was,
  another is rewound, and nothing is said of either until the guest rewinds it;
  the others keep their order.  A short read of a standard stream marks its end (habit
  "pipe"); `fclose` of a directory leaves the host's directory open (habit
  "fclosedir"); `fgets` with a buffer of one byte marks the end.
* The block for the arguments has room for the sum of their sizes, rounded up
  once, but each is placed at an offset that is itself rounded: with `curl -V`
  the second string runs past the block, with the command line of
  `tests/test_integration.c:125` the last one lies wholly past it.  `startup` has
  both.  `RoomForPadding`, in `ArgumentsPlaced`, says exactly when it happens: the
  arguments are whole if and only if the padding behind all but the last fits in
  what the size of the block was rounded up by.
* The first allocation tests its end from `heap_bump = 0` (`hle.c:197`): any
  request up to the heap's end address succeeds and the block runs past the
  arena.  The requests of `heap` fit in an empty heap (`ModestGuest`).
* A mapping with MAP_FIXED may cover the trap region, and munmap takes away any
  page, the stack and the library's included.  `Habits` of `Startup` names the
  two; `TrapsFault` fails with "fixed_any", `HostMemoryIsOwn` with "unmap_any".
* `KeepsAway` of `Startup`: an image with a segment in the trap region is loaded
  all the same, and one in the place of the default stack is started on it
  (`runtime.c:286`: the failed mapping goes unnoticed when the default was the
  first choice).
* `free` gives nothing back, although `docs/reports/002-acceptance-first-run.md:116`
  speaks of a merged free list; `Heap` models the empty `hfree` that is there.
* An error after a partial write is all the guest is told (habit "late_error" of
  `Calls`).  The system-call hook takes any result with the top bit for an error
  (habit "far") and stores errno in the host's byte order, the library in the
  guest's; library functions that hand their arguments on (`route_bsd`) leave
  errno alone when they fail.  Linux numbers the table lacks are handed on, and
  some are other errors on Darwin.  Socket functions return the negated number
  78 for any failure of the host.
* The library's `lseek` takes the low word of its offset for the high one and
  returns the position where the guest looks for the high word: only a rewind
  does what it says (habit "tell").
* `select` takes the big-endian words of its sets for bytes: asked about
  descriptor n it watches another one, and mirrors the number back in the
  answer.  It never touches the third set.  A set that cannot be read is left
  out of the question and still written with the answer, if it can be.
* The directive printf hands to the host's snprintf gets neither its conversion
  letter nor an end (`hle.c` 778-828, 2112-2145): which argument a conversion
  takes is certain, what it prints is whatever follows on the host's stack.
  `Format` lets it be anything that fits.
* `%lld` takes the first word for the low one; `%llu`, `%llx` and a `%lld` with
  flags or a width take one word of two; `%zu` is copied and takes none; a double
  skips words of the saved registers of a va_list, never of its overflow area.
  A directive that the end of the format cuts off copies that end and goes on
  into what the host's array held before (`hle.c` 882-885, kind "cut"): the
  pieces that follow it in `Format` are the ones found there.  A text of no
  characters leaves snprintf's buffer unwritten, its end included, and a size
  of 0 is taken for the largest.  `Understood` and the guards of the properties
  of `Format` name the cases left.
* What printf reads from the guest's memory it does not put in the host's byte
  order: neither the words past the registers (`hle.c:167`), nor the fields of a
  va_list (`hle.c:2099`), nor the words and doubles it leads to (2084-2087,
  2178).  On a little-endian host such a word is another number, and a va_list
  leads astray: its two addresses are not the guest's areas, and its count of
  registers used is right only if it is 0 (1 is read as 2^24, so that the first word
  already comes from the overflow area, wherever that is).  `Format` says of
  each argument whether its bytes are `reversed`; `ArgumentsMatch` is about
  arguments in the call, and about the value of those in registers only.
* `strncpy` of a longer string copies n - 1 bytes; `strncmp` and `memchr` read n
  bytes as a block and see an empty string, or an earlier call's bytes, when the
  block is not mapped to its end; beyond a buffer's size `memcpy`, `memset` and
  `strcat` do nothing.  `WithinCaps` of `Library` names these.
* A load command whose size is near 2^32 wraps the parser's sum (`Ordinary` of
  `Macho`); the parser does not hold the symbol table's offsets against the
  file, and the second walk does not look at `sizeofcmds`: with a wrong count
  or table they read past the file's end (`WellFormedImage` of `Image`).
* A ring of less than 32 entries is listed more than once around; the first
  frame a backtrace prints is the slot its function has not written yet, and a
  zero ends it; of two breakpoints at one address the first counts for both.

## 5. What is proved

For every value of the constants, from the named assumptions of the modules and
the hypotheses each theorem states.  Every safety property of the passing runs
is among them.

* `TrapLoopProofs` - `TypeCorrect` (including that an active search keeps its
  window in the array), `NothingRunsAfterExit`, and `ExitIsHonoured` when no
  exit code is negative.  The invariants are the type invariant, with the
  facts about a search's window, and "a stop request is only seen after a
  slice": one step per action.
* `TrapLoopProofs`, control - for `Nested = FALSE`, at any depth:
  `ControlReturnsToCaller` (`ControlMatchesStack`), `AnswersReachCallers`
  (`CallsAnswered`), and two that no run checks: `ReturnsAreAwaited`
  (`NoStrayReturn`: a return trap finds its slot active) and `KeyStaysInWindow`
  (`KeyInWindow`: a search does not lose its element).  None of them is
  inductive: a return address is right only while the static slot still names
  the activation it belongs to.  `ControlInv` therefore follows the whole chain of returns:
  what runs next (pc, or `resume_pc` while a trap is pending) is the top
  activation, or a return trap whose active slot holds the top activation, or a
  callback or null page whose link register is one of these; and every frame
  returns in the same sense to the frame below.  A call may overwrite a slot
  because no activation below waits for a call of that kind - the hypothesis,
  and what finding 1 takes away.  `AnswerInv` adds that an active search owes
  its caller null or an element still in the window, and that its comparison
  is about to be entered with the middle element, runs on top of the caller, or
  has answered for that element.
* `TrapLoopProofs`, refinement - `LibraryCallsAreSynchronous`, under the same
  hypothesis: `TrapLoop` implements `Synchronous`.  The proof has one lemma for
  each action, which says what is seen of it: a call with its answer or without,
  an answer, a callback entered, a return, an exit, the end, or nothing (a slice
  begins or ends, a trap is resumed, a search asks for one more comparison).  It
  needs the three invariants above and `AskedInv`: a callback about to be
  entered has its own call's return trap in the link register, so that the
  activation it is a callback of is one that waits for that kind of call.  The
  exit code is reported as a byte or taken for a failure, so that this theorem
  holds for negative exit codes too.
* `HeapProofs` - for requests that fit in an empty heap (`ModestGuest`), the
  arithmetic in words is exact, every block lies in the heap (`HeapStaysWhole`),
  no two blocks ever overlap (`BlocksStayApart`), realloc keeps what fits, for
  sizes up to its buffer (`ReallocKeeps`), and the heap implements `Arena`
  (`HeapImplementsArena`).  The inductive invariant `HeapInv` says every block
  ends at or below the bump pointer: without it a new block could not be told
  apart from the old ones.  Without `ModestGuest` the first allocation may run
  past the arena (section 4).
* `ImageProofs`, binding - ids stay in the trap region and unknown symbols share no trap
  (`TrapsStayWhole`), and, while the ids handed out stay below the return traps
  (`BelowReturnTraps`), every import runs its own function or none
  (`ImportsAreTheirOwn`); they do stay below for an image whose pointers
  and the table together fit (`SmallImagesRunTheirOwn`).  The inductive
  invariant `BindInv` adds that the ids handed out lie between the table's end
  and `hle_ids_used`, and that no more ids are used than pointers were seen.
* `StartupProofs` - for regions that lie apart (`RegionsApart`) and a guest that
  unmaps what it mapped and keeps MAP_FIXED off the traps (`Habits = {}`), for
  every image: `TrapsAlwaysFault` and `HostMemoryStaysOwn`.  Nothing in
  `guest_mmap_anon` bounds the hint; what stops it is that some page between it
  and the traps stays mapped and is not the guest's (`Barrier` of `SpaceInv`).
  That page is the heap's if `hle_bind` got so far, and if not, the page of the
  image or the stubs that made it fail; as the hint passes no mapped page, it
  never comes to the traps, nor to its wrap-around.  `DefaultFree` carries the
  other half: the default stack is free until the stack is mapped.
* `StartupProofs`, initial stack - `ArgumentsArePlaced`, for every command line
  whose block fits the address space (`CommandsFit`: no size wraps; the real
  space is 2^32 bytes).  At r1 the guest finds argc, the address of each argument
  and the nulls; the arguments are whole and apart exactly when `RoomForPadding`.
  Which arguments these are is not assumed but said.  The two loops of
  `setup_stack` add up sizes in two ways, and `LayoutInv` relates them through
  the sums of the strings' sizes (`SumsOf`, a set of functions with one member):
  the first loop has come to the sum; in the second each string lies at the sum
  of those before it and their padding (`Padding`, a set whose size is the bytes
  left free), so that the last one ends in the block if and only if that sum does.
* `ImageProofs` - for files of any size, whatever counts, sizes
  and offsets they have: `FileIsReadInside` (`ReadsInFile`), `TablesAgree`
  (`SymtabAgrees`), `SearchIsSound` and `NamesAreNearest`.  The bound on reads
  needs that the parser's sums have not wrapped; that follows from the chain of
  offsets it has come along (`Chain` of `ImageInv`), each the end of a command
  that lay inside the commands' end, which lies inside the image, which lies
  inside the file.  The second walk tests none of this.  It stays inside because,
  when the count is true, it stands at an offset of the same chain
  (`WalkFollows`); and it takes the same table because both loops have met the
  same commands (`LastTable`).  For the names, `SymbolsInv` adds to the search's
  window that the index is sorted and has exactly the symbols that belong in it;
  that sorting loses none is that a one-to-one map of 1..n to itself is onto
  (`ArrangementIsOnto`).
  `ParsedIsWhole` (`ParsedWhole`): when parsing succeeds the segments are the
  segment commands in their order, each with its sections.  `End`, the offset a
  command ends at, is a recursive function of its position; what is needed of it
  is had from the least counterexample.
* `CallsProofs` - for any lengths, transfer sizes and errors:
  `StreamStaysSound`, `PositionStaysKnown` and the action property
  `ErrnoChangesByFailure`.  `CallsInv` adds that a write under way is within the
  stream and has taken no more than it was asked for; `ErrorWord` is the
  arithmetic of it: a number of a byte, negated in a word, has its top bit set
  and comes back when negated again, while no length below half the word has.
* `CallsProofs`, descriptors - `EveryDescriptorOwned` (`DescriptorsOwned`) in
  every run, whatever the guest does: each error path gives back what it had
  opened, with either table full.  `TransfersReachTheirOwn` (`NeverAnother`) and
  the action property `NumbersGivenOnce` (`NotGivenTwice`) where the host's
  numbers stay below the sockets' (`FilesBelowSockets`), for a careful guest.
  The inductive part is `OwnersApart`: the numbers in the guest's hands, the
  FILEs and the slots own different host descriptors, each open, and each number
  refers to the object it was given out for.  `RefusedOnlyWhenFull`: the search
  for a free slot wraps around and passes none by.
* `StdioProofs` - for a table of any size and any number of host objects:
  `HeldAreOpen` for every guest; `TablesAgree` (`SlotsMatchHost`) for one that
  closes directories with closedir; `BytesInOrder` (`OnlyTailsLost`) for every
  guest, file and buffer;
  `FlagsAreTrue` (`FlagsTrue`) where standard input is a file and no line buffer
  has one byte.  `TableInv` says that the slots in use hold different open
  objects and that every open object is in a slot, or is a directory fclose
  left open; `EndInv` that the host's end-of-file flags are set at the end only;
  `TailsInv` is `OnlyTailsLost` for streams of any mode: a read appends a stretch
  to what was handed over, or one that ends in a newline and a gap within a buffer.
* `DebugProofs` - `ReportsListLatest` (`ListsLatest`), `BreakpointsCount`
  (`CountsSound`) and `BacktraceTracesCallers` (`TracesCallers`).  `RingOK`: each
  of the last `depth` instructions is at its position modulo the depth, and the
  tool's own position counts them all.  `BreaksOK`: the first of an address's
  breakpoints has counted every line printed for it.  `StackOK`: there is a
  chain of frames down the stack, one for each activation that has one, and the
  walk stands on it.  Frames are whole words (`DebugAssumption`), as the PowerPC
  convention has them.
* `LibraryProofs`, memory and strings - `StringsAgree` (`AgreesWithC`), for every
  finite memory over the four bytes, every place and length and every size of
  the host's buffers: within these sizes each of the 20 functions returns and
  leaves what the C standard says, and no function writes outside its
  destination even beyond them.  The functions read blocks that may end in
  unmapped memory or in an earlier call's bytes; the argument for each is how
  far its answer depends on what it read (`Shown`, `BufferedAs`): a comparison
  of two buffers is one of the strings as long as each buffer shows its string
  up to the first difference or its end.  `BlocksAgree`, `CopiesAgree` and
  `LooksAgree` are the three families.
* `LibraryProofs`, select - `SelectAnswers` (`SelectAnswersAsked`), and what it
  says of one call for any sets and map, `SelectIsAboutAsked`: the descriptor
  the code sees at a bit and the bit it answers with are each other's mirror
  image in a word, so the two misreadings cancel.
* `LibraryProofs`, printf - `ArgumentsAreTheirs` (`ArgumentsMatch`),
  `TextIsCutAtTheEnd` (`BufferHoldsText`), `BuffersHold` (`BufferSafe`), for every
  format.  `ArgumentsAreTheirs` is about arguments in the call: the place of each, and the
  value of those that came in registers (section 4 on byte order).
  `FormatInv` says that as long as the pieces before are understood the
  counters stand where the calling convention has the next argument: in the
  registers, or as far into the parameter area as the registers do not reach.
  It needs that a function has no more named arguments than argument registers
  (`Firsts` of `FormatAssumption`), as its callers' have.

Only model-checked: the liveness properties (`QuietGuestEnds`, `AllBound`,
`WritesEnd`, `LookupEnds`), as the prover handles neither fairness nor ENABLED.
No module that is proved about declares a recursive operator, and no proof is by
induction over data: where a fact is about every length, it takes the least
counterexample.  The hypotheses named above leave out the cases of section 4 in
which the code does otherwise; what happens there is not proved.

## 6. Assumptions and what is left out

Assumptions.

* Unicorn: a slice ends by a stop request, an error or its timeout; registers
  are as last written.  Memory contents are modelled only where a property
  needs them (`kept` of a block, the bytes of `Library`).
* The guest keeps its stack discipline; it does not jump into the middle of a
  trap's sequence.
* `Heap` does not model a failing `sosetta_guest_write` of a header: the arena
  is mapped.
* `FdMap` keeps the host's numbers below the sockets' in its runs; a host number
  of 64 or more would be taken for a socket.  `getsockopt` touches no state.
* `Stdio`: a stream is read or written, not both; what is written is not kept,
  only whether the host failed.
* `Calls` counts bytes, not their values, and lets the host's lseek go one byte
  past the input's end at most.  The host may have no memory for the buffer of a
  read or write, and may refuse any lseek.
* `Format` knows lengths, not characters.  What lies behind a directive that is cut
  off is inside the host's array: that the code may go on past its 8192 bytes is
  not modelled.  No named argument of a function with a va_list is a double.  The
  width of a byte is `Octet`, 2 in the run instead of 256: enough for a word whose
  bytes are reversed to be another number.  `StackLayout` has the size of the
  address space a multiple of 16.  `Library` makes one call at a time;
  what an earlier one left in a buffer is arbitrary.

Not modelled, and why.

* The vendored curl and keymgr sources under `src/`, which are most of the
  repository's lines, are references for its authors: they are not built and the
  program has no state in them.  sosetta itself is about 5600 lines.
* `siglongjmp`: it has one outcome, the wrong one (section 4), and no property
  of `TrapLoop` survives it.
* `strdup` is a malloc (`Heap`) and a copy; strtok, realpath and strerror are
  stubs; sscanf converts nothing; strtol and its kin, time and the environment
  hand their arguments to the host.
* The code trace, the ring file and the register dump only print.
* `Startup` knows pages and their owners: protections, the bytes of segments and
  stubs are left out.  `main` passes no environment, so the strings of the block
  are the arguments.
* `ftell`, `fileno`, a failing read and the entries of a directory in `Stdio`;
  the flags of `open`; option parsing; the endian helpers (pure byte swaps).
* `Bind` covers lazy pointers.  Two bindings in one process are not composed:
  the second empties the descriptor map while sockets are open.

## 7. Plan

In order of importance.

1. `Stdio`, `Calls`: the abstract stream of bytes that each of them implements.
2. A second guest in one process: `Bind`, `FdMap` and `Heap` composed over two
   runs.
3. The facts about `heap_bump` for guests that are not modest: which requests
   succeed wrongly.
