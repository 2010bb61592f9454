------------------------------ MODULE Library -------------------------------
(***************************************************************************)
(* One call of a library function that works on the guest's memory alone:  *)
(* the functions of CString, against the C standard, and select.           *)
(***************************************************************************)
EXTENDS CString, CStandard, FdSets

CONSTANTS
  Memories,     \* guest memories
  Lengths,      \* the counts passed
  SlotMaps,     \* contents of the descriptor map
  AskedSets     \* questions to select: a set of descriptors for each direction

ASSUME LibraryAssumption ==
  /\ \A mem \in Memories :
       IsFiniteSet(DOMAIN mem) /\ DOMAIN mem \subseteq Nat /\ mem \in [DOMAIN mem -> 0 .. 3]
  /\ Lengths \subseteq Nat
  /\ AskedSets \subseteq [Directions -> SUBSET (0 .. FdBits - 1)]

VARIABLES request, reply

libraryVars == <<request, reply>>

Addresses == UNION {DOMAIN mem : mem \in Memories}
Byte == 0 .. 3

ByteArg  == {"memset", "memchr", "strchr", "strrchr"}
Counted  == {"memcpy", "memset", "memcmp", "memchr", "strncpy", "strncat", "strncmp", "strncasecmp"}
OnString == {"strlen", "strchr", "strrchr"}
Functions == Counted \cup OnString \cup TwoStrings \cup {"strcpy", "stpcpy", "strcat"}

\* Arguments a function does not take are 0.
CRequest ==
  UNION {[fn : {f}, mem : Memories, a : Addresses,
          b : IF f \in ByteArg THEN Byte ELSE IF f = "strlen" THEN {0} ELSE Addresses,
          n : IF f \in Counted THEN Lengths ELSE {0}] : f \in Functions}

\* The sets in mapped can be read.
SelectRequest ==
  [fn : {"select"}, slots : SlotMaps, asked : AskedSets, mapped : SUBSET Directions]

NoReply == [ret |-> "none"]

LibraryInit == request \in CRequest \cup SelectRequest /\ reply = NoReply

\* What the call may come to.
Results(r) ==
  CASE r.fn = "memcpy"  -> Memcpy(r.mem, r.a, r.b, r.n)
    [] r.fn = "memset"  -> Memset(r.mem, r.a, r.b, r.n)
    [] r.fn = "memcmp"  -> Memcmp(r.mem, r.a, r.b, r.n)
    [] r.fn = "memchr"  -> Memchr(r.mem, r.a, r.b, r.n)
    [] r.fn = "strlen"  -> Strlen(r.mem, r.a)
    [] r.fn = "strcpy"  -> Strcpy(r.mem, r.a, r.b)
    [] r.fn = "stpcpy"  -> Stpcpy(r.mem, r.a, r.b)
    [] r.fn = "strncpy" -> Strncpy(r.mem, r.a, r.b, r.n)
    [] r.fn = "strcat"  -> Strcat(r.mem, r.a, r.b)
    [] r.fn = "strncat" -> Strncat(r.mem, r.a, r.b, r.n)
    [] r.fn = "strcmp"  -> Strcmp(r.mem, r.a, r.b)
    [] r.fn = "strcasecmp"  -> Strcasecmp(r.mem, r.a, r.b)
    [] r.fn = "strncmp"     -> Strncmp(r.mem, r.a, r.b, r.n)
    [] r.fn = "strncasecmp" -> Strncasecmp(r.mem, r.a, r.b, r.n)
    [] r.fn = "strchr"  -> Strchr(r.mem, r.a, r.b)
    [] r.fn = "strrchr" -> Strrchr(r.mem, r.a, r.b)
    [] r.fn = "strstr"  -> Strstr(r.mem, r.a, r.b)
    [] r.fn = "strpbrk" -> Strpbrk(r.mem, r.a, r.b)
    [] r.fn = "strspn"  -> Strspn(r.mem, r.a, r.b)
    [] r.fn = "strcspn" -> Strcspn(r.mem, r.a, r.b)
    [] r.fn = "select"  -> Select(r.slots, r.asked, r.mapped)

Answer ==
  /\ reply = NoReply
  /\ reply' \in Results(request)
  /\ UNCHANGED request

LibrarySpec == LibraryInit /\ [][Answer]_libraryVars

-----------------------------------------------------------------------------
(***************************************************************************)
(* Properties.                                                             *)
(***************************************************************************)
Answered == reply # NoReply

Needles == {"strstr", "strpbrk", "strspn", "strcspn"}

\* Nothing the function has to look at or move is beyond the buffers' sizes; a
\* block is mapped whole even if a string in it ends early; and strncpy is given
\* room for the string's end (of a longer string it copies a byte too few).
WithinCaps(r) ==
  \/ r.fn \in {"memcpy", "memset"} /\ r.n <= CopyCap
  \/ r.fn \in {"memcmp", "memchr"} /\ r.n <= BlockCap
  \/ /\ r.fn \in {"strncmp", "strncasecmp"}
     /\ r.n <= StrCap /\ Mapped(r.mem, r.a, r.n) /\ Mapped(r.mem, r.b, r.n)
  \/ r.fn \in OnString /\ LengthOf(r.mem, r.a) < StrCap
  \/ r.fn \in Needles /\ LengthOf(r.mem, r.a) < StrCap /\ LengthOf(r.mem, r.b) < SetCap
  \/ /\ r.fn \in {"strcmp", "strcasecmp"}
     /\ LengthOf(r.mem, r.a) < StrCap /\ LengthOf(r.mem, r.b) < StrCap
  \/ r.fn \in {"strcpy", "stpcpy"} /\ LengthOf(r.mem, r.b) < StrCap
  \/ r.fn = "strncpy" /\ r.n <= StrCap /\ (r.n = 0 \/ LengthOf(r.mem, r.b) < r.n)
  \/ /\ r.fn \in {"strcat", "strncat"}
     /\ LengthOf(r.mem, r.a) + LengthOf(r.mem, r.b) + 1 < StrCap

OfStandard == request.fn # "select" /\ Legal(request.mem, request)

\* A legal call within the sizes of the host's buffers gives exactly what the C
\* standard says, in the value and in every byte of memory, up to the boundary of
\* each buffer; no byte an earlier call left in a buffer shows.  One of any size, cut
\* off at a buffer's or not, changes no byte outside its destination.
AgreesWithC ==
  Answered /\ OfStandard =>
    /\ WithinCaps(request) => reply = Expected(request.mem, request)
    /\ \A q \in DOMAIN request.mem \ Destination(request.mem, request) :
         reply.mem[q] = request.mem[q]

\* As long as no two numbers share a host descriptor, select answers only about
\* descriptors it was asked about, in each direction, and counts them right: the
\* byte order it misreads the question with is undone in the answer, and a set it
\* could not read is not counted (hle.c 540-623).
SelectAnswersAsked ==
  Answered /\ request.fn = "select" /\ Injective(request.slots) /\ reply.ret # UNMAPPED =>
    AboutAsked(request.asked, request.mapped, reply)
=============================================================================
