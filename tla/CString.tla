------------------------------ MODULE CString -------------------------------
(***************************************************************************)
(* The memory and string functions of hle.c.  Each copies its arguments    *)
(* from the guest into host buffers of a fixed size, calls the host's      *)
(* function on them and turns the answer into guest addresses.  An         *)
(* operator gives the set of results a call may have: several where a      *)
(* buffer may hold bytes of an earlier call.                               *)
(***************************************************************************)
EXTENDS GuestMemory

CONSTANTS
  CopyCap,   \* what memcpy and memset move at most (1 MB)
  BlockCap,  \* what memcmp and memchr look at most (64 KB)
  StrCap,    \* the buffers of the string functions (64 KB)
  SetCap     \* those of the needle and character-set arguments (4 KB)

ASSUME CStringAssumption ==
  /\ CopyCap \in Nat \ {0} /\ BlockCap \in Nat \ {0}
  /\ StrCap \in Nat \ {0} /\ SetCap \in Nat \ {0}

\* Bytes are NUL, A, a and b.
Fold(c) == IF c = 2 THEN 1 ELSE c

NULL == 0

Least(x, y) == IF x <= y THEN x ELSE y

Returns(ret, mem) == [ret |-> ret, mem |-> mem]

-----------------------------------------------------------------------------
(***************************************************************************)
(* The host's functions on the buffers (external).                         *)
(***************************************************************************)
\* The sign of the comparison of two blocks of the same length.
CompareBlocks(x, y) ==
  LET Differ == {i \in DOMAIN x : x[i] # y[i]}
  IN  IF Differ = {} THEN 0 ELSE IF x[Min(Differ)] < y[Min(Differ)] THEN -1 ELSE 1

\* Strings of different lengths differ at the shorter one's end.
CompareStrings(s, t) ==
  LET n == Len(s) + Len(t) + 1
      Padded(x) == [i \in 1 .. n |-> IF i <= Len(x) THEN x[i] ELSE NUL]
  IN  CompareBlocks(Padded(s), Padded(t))

Folded(s) == [i \in DOMAIN s |-> Fold(s[i])]

UpToNul(block) ==
  LET Ends == {i \in DOMAIN block : block[i] = NUL}
  IN  IF Ends = {} THEN block ELSE SubSeq(block, 1, Min(Ends) - 1)

\* Mutant: a needle at the very end is not found.
Begins_BeforeEnd(s, t) == {i \in 0 .. Len(s) - Len(t) - 1 : SubSeq(s, i + 1, i + Len(t)) = t}

\* The places (from 0) in s, the end included, where c is, and where t begins.
Finds(s, c)    == {i \in 0 .. Len(s) : (IF i < Len(s) THEN s[i + 1] ELSE NUL) = c}
Begins(s, t)   == {i \in 0 .. Len(s) - Len(t) : SubSeq(s, i + 1, i + Len(t)) = t}
Elements(s)    == {s[i] : i \in DOMAIN s}
InSet(s, t)    == {i \in 0 .. Len(s) - 1 : s[i + 1] \in Elements(t)}
OutOfSet(s, t) == {i \in 0 .. Len(s) - 1 : s[i + 1] \notin Elements(t)}

\* The guest address of a place in the buffer, null if there is none.
FirstAt(p, S) == IF S = {} THEN NULL ELSE p + Min(S)
LastAt(p, S)  == IF S = {} THEN NULL ELSE p + Max(S)

-----------------------------------------------------------------------------
(***************************************************************************)
(* Blocks.                                                                 *)
(***************************************************************************)
\* memcpy and memmove, which goes through the same buffer: beyond the cap, and
\* where the source cannot be read, nothing is copied and nobody told.
Memcpy(mem, d, s, n) ==
  {Returns(d, IF n <= CopyCap /\ Mapped(mem, s, n) THEN Write(mem, d, Bytes(mem, s, n)) ELSE mem)}

Memset(mem, d, c, n) ==
  {Returns(d, IF n <= CopyCap THEN Write(mem, d, [i \in 1 .. n |-> c]) ELSE mem)}

Memcmp(mem, p, q, n) ==
  {Returns(CompareBlocks(x, y), mem) : x \in ReadBlock(mem, p, Least(n, BlockCap)),
                                       y \in ReadBlock(mem, q, Least(n, BlockCap))}

Memchr(mem, p, c, n) ==
  {Returns(FirstAt(p, {i \in 0 .. Len(x) - 1 : x[i + 1] = c}), mem) :
     x \in ReadBlock(mem, p, Least(n, BlockCap))}

-----------------------------------------------------------------------------
(***************************************************************************)
(* Copying strings.                                                        *)
(***************************************************************************)
Strlen(mem, p) == {Returns(Len(s), mem) : s \in ReadStr(mem, p, StrCap)}

WithEnd(s) == s \o <<NUL>>

Strcpy(mem, d, p) == {Returns(d, Write(mem, d, WithEnd(s))) : s \in ReadStr(mem, p, StrCap)}

Stpcpy(mem, d, p) ==
  {Returns(d + Len(s), Write(mem, d, WithEnd(s))) : s \in ReadStr(mem, p, StrCap)}

\* The buffer is cleared first, so what cannot be read is zero.  The cap of the
\* read is n itself, which leaves room for n - 1 bytes and an end.  (With n = 0
\* the end goes before the buffer; nothing is written to the guest.)
Strncpy(mem, d, p, n) ==
  LET m == Least(n, StrCap)
      s == IF m = 0 THEN <<>> ELSE Bytes(mem, p, StopsAt(mem, p, m))
      Padded == [i \in 1 .. m |-> IF i <= Len(s) THEN s[i] ELSE NUL]
  IN  {Returns(d, Write(mem, d, Padded))}

Joined(x, s) == IF Len(x) + Len(s) + 1 < StrCap THEN WithEnd(x \o s) ELSE <<>>

\* Both strings are read before the destination is written again, whole.
Strcat(mem, d, p) ==
  {Returns(d, Write(mem, d, Joined(x, s))) : x \in ReadStr(mem, d, StrCap),
                                             s \in ReadStr(mem, p, StrCap)}

Strncat(mem, d, p, n) ==
  {Returns(d, Write(mem, d, Joined(x, SubSeq(s, 1, Least(n, Len(s)))))) :
     x \in ReadStr(mem, d, StrCap), s \in ReadStr(mem, p, StrCap)}

-----------------------------------------------------------------------------
(***************************************************************************)
(* Comparing and searching strings.                                        *)
(***************************************************************************)
Strcmp(mem, p, q) ==
  {Returns(CompareStrings(s, t), mem) : s \in ReadStr(mem, p, StrCap), t \in ReadStr(mem, q, StrCap)}

Strcasecmp(mem, p, q) ==
  {Returns(CompareStrings(Folded(s), Folded(t)), mem) :
     s \in ReadStr(mem, p, StrCap), t \in ReadStr(mem, q, StrCap)}

\* n bytes are read as a block, the strings' ends or not; a block that cannot be
\* read is an empty string.
FirstBytes(mem, p, n) ==
  LET m == Least(n, StrCap)
  IN  IF Mapped(mem, p, m) THEN UpToNul(Bytes(mem, p, m)) ELSE <<>>

Strncmp(mem, p, q, n) == {Returns(CompareStrings(FirstBytes(mem, p, n), FirstBytes(mem, q, n)), mem)}

Strncasecmp(mem, p, q, n) ==
  {Returns(CompareStrings(Folded(FirstBytes(mem, p, n)), Folded(FirstBytes(mem, q, n))), mem)}

Strchr(mem, p, c)  == {Returns(FirstAt(p, Finds(s, c)), mem) : s \in ReadStr(mem, p, StrCap)}
Strrchr(mem, p, c) == {Returns(LastAt(p, Finds(s, c)), mem) : s \in ReadStr(mem, p, StrCap)}

\* The needle's buffer is the smaller one.
Strstr(mem, p, q) ==
  {Returns(FirstAt(p, Begins(s, t)), mem) : s \in ReadStr(mem, p, StrCap), t \in ReadStr(mem, q, SetCap)}

Strpbrk(mem, p, q) ==
  {Returns(FirstAt(p, InSet(s, t)), mem) : s \in ReadStr(mem, p, StrCap), t \in ReadStr(mem, q, SetCap)}

Strspn(mem, p, q) ==
  {Returns(Min(OutOfSet(s, t) \cup {Len(s)}), mem) :
     s \in ReadStr(mem, p, StrCap), t \in ReadStr(mem, q, SetCap)}

Strcspn(mem, p, q) ==
  {Returns(Min(InSet(s, t) \cup {Len(s)}), mem) :
     s \in ReadStr(mem, p, StrCap), t \in ReadStr(mem, q, SetCap)}
=============================================================================
