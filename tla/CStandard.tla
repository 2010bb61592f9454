----------------------------- MODULE CStandard ------------------------------
(***************************************************************************)
(* What the C standard says of the same functions, stated on the guest's   *)
(* memory itself: no buffer, no cap.  A result is defined where `Legal'    *)
(* calls it so.                                                            *)
(***************************************************************************)
EXTENDS Integers, FiniteSetsExt

End == 0

AllMapped(mem, p, n) == \A i \in 0 .. n - 1 : p + i \in DOMAIN mem

\* A string starts at p and ends k bytes further.
EndsAfter(mem, p, k) ==
  /\ AllMapped(mem, p, k + 1)
  /\ mem[p + k] = End
  /\ \A i \in 0 .. k - 1 : mem[p + i] # End

Extents(mem) == 0 .. Cardinality(DOMAIN mem)

IsString(mem, p)  == \E k \in Extents(mem) : EndsAfter(mem, p, k)
LengthOf(mem, p)  == CHOOSE k \in Extents(mem) : EndsAfter(mem, p, k)

\* The same memory with n bytes, numbered from 0, put at d.
Overwritten(mem, d, n, byte) ==
  [q \in DOMAIN mem |-> IF q \in d .. d + n - 1 THEN byte[q - d] ELSE mem[q]]

Apart(p, n, q, m) == p + n <= q \/ q + m <= p

\* What bytes are compared by: themselves, or their letters whatever the case.
Plain == [c \in 0 .. 3 |-> c]
Lower == [c \in 0 .. 3 |-> IF c = 2 THEN 1 ELSE c]

\* Where, among n bytes, the first difference is, if there is one before the strings end.
FirstDifference(mem, p, q, n, stops, key) ==
  {i \in 0 .. n - 1 :
     /\ \A k \in 0 .. i - 1 : key[mem[p + k]] = key[mem[q + k]] /\ (stops => mem[p + k] # End)
     /\ key[mem[p + i]] # key[mem[q + i]]}

\* Its sign.
SignOf(mem, p, q, n, stops, key) ==
  LET i == CHOOSE i \in FirstDifference(mem, p, q, n, stops, key) : TRUE
  IN  IF FirstDifference(mem, p, q, n, stops, key) = {} THEN 0
      ELSE IF key[mem[p + i]] < key[mem[q + i]] THEN -1 ELSE 1

\* The first or last address of S, null if there is none.
Lowest(S)  == IF S = {} THEN 0 ELSE Min(S)
Highest(S) == IF S = {} THEN 0 ELSE Max(S)

\* The addresses of a string's bytes, and with its end.
Body(mem, p)  == p .. p + LengthOf(mem, p) - 1
Whole(mem, p) == p .. p + LengthOf(mem, p)

Set(mem, q) == {mem[r] : r \in Body(mem, q)}

\* How many bytes the string at p begins with, all in the set S.
Span(mem, p, S) == Max({k \in 0 .. LengthOf(mem, p) : \A i \in 0 .. k - 1 : mem[p + i] \in S})

-----------------------------------------------------------------------------
TwoStrings == {"strcmp", "strcasecmp", "strstr", "strpbrk", "strspn", "strcspn"}

\* r is [fn, a, b, n]: the function, its two first arguments, the third or a byte.
Legal(mem, r) ==
  \/ r.fn = "memcpy" /\ AllMapped(mem, r.a, r.n) /\ AllMapped(mem, r.b, r.n)
  \/ r.fn = "memset" /\ AllMapped(mem, r.a, r.n)
  \/ r.fn = "memcmp" /\ AllMapped(mem, r.a, r.n) /\ AllMapped(mem, r.b, r.n)
  \/ r.fn = "memchr" /\ AllMapped(mem, r.a, r.n)
  \/ r.fn \in {"strlen", "strchr", "strrchr"} /\ IsString(mem, r.a)
  \/ r.fn \in TwoStrings /\ IsString(mem, r.a) /\ IsString(mem, r.b)
  \/ /\ r.fn \in {"strncmp", "strncasecmp"}
     /\ \A p \in {r.a, r.b} : IsString(mem, p) \/ AllMapped(mem, p, r.n)
  \/ /\ r.fn \in {"strcpy", "stpcpy"}
     /\ IsString(mem, r.b)
     /\ LET n == LengthOf(mem, r.b) + 1
        IN  AllMapped(mem, r.a, n) /\ Apart(r.a, n, r.b, n)
  \/ /\ r.fn = "strncpy"
     /\ IsString(mem, r.b) /\ AllMapped(mem, r.a, r.n)
     /\ Apart(r.a, r.n, r.b, LengthOf(mem, r.b) + 1)
  \/ /\ r.fn \in {"strcat", "strncat"}
     /\ IsString(mem, r.a) /\ IsString(mem, r.b)
     /\ LET n == LengthOf(mem, r.a) + LengthOf(mem, r.b) + 1
        IN  AllMapped(mem, r.a, n) /\ Apart(r.a, n, r.b, LengthOf(mem, r.b) + 1)

\* The value of a function that leaves memory alone.
ValueOf(mem, r) ==
  CASE r.fn = "memcmp"      -> SignOf(mem, r.a, r.b, r.n, FALSE, Plain)
    [] r.fn = "memchr"      -> Lowest({p \in r.a .. r.a + r.n - 1 : mem[p] = r.b})
    [] r.fn = "strlen"      -> LengthOf(mem, r.a)
    [] r.fn = "strcmp"      -> SignOf(mem, r.a, r.b, Cardinality(DOMAIN mem), TRUE, Plain)
    [] r.fn = "strcasecmp"  -> SignOf(mem, r.a, r.b, Cardinality(DOMAIN mem), TRUE, Lower)
    [] r.fn = "strncmp"     -> SignOf(mem, r.a, r.b, r.n, TRUE, Plain)
    [] r.fn = "strncasecmp" -> SignOf(mem, r.a, r.b, r.n, TRUE, Lower)
    [] r.fn = "strchr"      -> Lowest({p \in Whole(mem, r.a) : mem[p] = r.b})
    [] r.fn = "strrchr"     -> Highest({p \in Whole(mem, r.a) : mem[p] = r.b})
    [] r.fn = "strpbrk"     -> Lowest({p \in Body(mem, r.a) : mem[p] \in Set(mem, r.b)})
    [] r.fn = "strspn"      -> Span(mem, r.a, Set(mem, r.b))
    [] r.fn = "strcspn"     -> Span(mem, r.a, (1 .. 3) \ Set(mem, r.b))
    [] r.fn = "strstr"      ->
         LET n == LengthOf(mem, r.b)
         IN  Lowest({p \in Whole(mem, r.a) :
               /\ p + n <= r.a + LengthOf(mem, r.a)
               /\ \A i \in 0 .. n - 1 : mem[p + i] = mem[r.b + i]})

\* The memory a copying function leaves.
MemoryAfter(mem, r) ==
  LET Copied(n) == [i \in 0 .. n - 1 |-> mem[r.b + i]]
      Cut(n, m) == [i \in 0 .. n - 1 |-> IF i < m THEN mem[r.b + i] ELSE End]
  IN  CASE r.fn = "memcpy"  -> Overwritten(mem, r.a, r.n, Copied(r.n))
        [] r.fn = "memset"  -> Overwritten(mem, r.a, r.n, [i \in 0 .. r.n - 1 |-> r.b])
        [] r.fn \in {"strcpy", "stpcpy"} ->
             LET n == LengthOf(mem, r.b) + 1 IN Overwritten(mem, r.a, n, Copied(n))
        [] r.fn = "strncpy" -> Overwritten(mem, r.a, r.n, Cut(r.n, LengthOf(mem, r.b)))
        [] r.fn = "strcat"  ->
             LET n == LengthOf(mem, r.b) + 1
             IN  Overwritten(mem, r.a + LengthOf(mem, r.a), n, Copied(n))
        [] r.fn = "strncat" ->
             LET n == Min({r.n, LengthOf(mem, r.b)})
             IN  Overwritten(mem, r.a + LengthOf(mem, r.a), n + 1, Cut(n + 1, n))

Copying == {"memcpy", "memset", "strcpy", "stpcpy", "strncpy", "strcat", "strncat"}

\* The one result the standard allows.
Expected(mem, r) ==
  IF r.fn \in Copying
  THEN [ret |-> IF r.fn = "stpcpy" THEN r.a + LengthOf(mem, r.b) ELSE r.a,
        mem |-> MemoryAfter(mem, r)]
  ELSE [ret |-> ValueOf(mem, r), mem |-> mem]

\* The bytes a legal call may change.
Destination(mem, r) ==
  CASE r.fn \in {"memcpy", "memset", "strncpy"} -> r.a .. r.a + r.n - 1
    [] r.fn \in {"strcpy", "stpcpy"} -> r.a .. r.a + LengthOf(mem, r.b)
    [] r.fn \in {"strcat", "strncat"} -> r.a .. r.a + LengthOf(mem, r.a) + LengthOf(mem, r.b)
    [] OTHER -> {}
=============================================================================
