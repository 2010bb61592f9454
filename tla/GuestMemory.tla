---------------------------- MODULE GuestMemory -----------------------------
(***************************************************************************)
(* Guest memory as the library of hle.c sees it: a function from the       *)
(* mapped addresses to bytes.  A transfer succeeds whole or not at all.    *)
(***************************************************************************)
EXTENDS Integers, Sequences, FiniteSetsExt

NUL == 0

Mapped(mem, p, n) == \A i \in 0 .. n - 1 : p + i \in DOMAIN mem

\* sosetta_guest_read, where it succeeds.
Bytes(mem, p, n) == [i \in 1 .. n |-> mem[p + i - 1]]

\* sosetta_guest_write: nothing is written if a byte of the place is not mapped.
Write(mem, p, bytes) ==
  IF Mapped(mem, p, Len(bytes))
  THEN [q \in DOMAIN mem |-> IF q \in p .. p + Len(bytes) - 1 THEN bytes[q - p + 1] ELSE mem[q]]
  ELSE mem

-----------------------------------------------------------------------------
(***************************************************************************)
(* g_read_str: a string is copied byte by byte into a buffer of cap bytes, *)
(* up to its end, the last place of the buffer, or the first byte that     *)
(* cannot be read; in that case the rest of the buffer is what it was.     *)
(***************************************************************************)
StopsAt(mem, p, cap) ==
  Min({i \in 0 .. cap - 1 : i = cap - 1 \/ p + i \notin DOMAIN mem \/ mem[p + i] = NUL})

Faults(mem, p, cap) ==
  LET i == StopsAt(mem, p, cap) IN i < cap - 1 /\ p + i \notin DOMAIN mem

\* What may be left in a host buffer by earlier calls.
Stale == {<<>>, <<1>>}

\* The strings the buffer may hold afterwards.
ReadStr(mem, p, cap) ==
  LET read == Bytes(mem, p, StopsAt(mem, p, cap))
  IN  IF Faults(mem, p, cap) THEN {read \o rest : rest \in Stale} ELSE {read}

\* A block read into a static buffer: what it held before if it cannot be read.
ReadBlock(mem, p, n) ==
  IF Mapped(mem, p, n) THEN {Bytes(mem, p, n)}
  ELSE {[i \in 1 .. n |-> x] : x \in {NUL, 1}}
=============================================================================
