---------------------------- MODULE LibraryProofs ----------------------------
(***************************************************************************)
(* Theorems about the functions the guest imports.  A legal call of any of *)
(* the memory and string functions does what the C standard says, for      *)
(* every finite memory, place and length.  select answers about what was   *)
(* asked, for fd_sets and maps of any size.  printf takes the arguments of *)
(* the calling convention and keeps to the guest's buffer, for every       *)
(* format.                                                                 *)
(***************************************************************************)
EXTENDS Library, Format, FiniteSetTheorems, WellFoundedInduction, TLAPS

\* What a guest memory is.
Memory(mem) ==
  /\ IsFiniteSet(DOMAIN mem) /\ DOMAIN mem \subseteq Nat
  /\ mem \in [DOMAIN mem -> 0 .. 3]

-----------------------------------------------------------------------------
LEMMA LeastNumber ==
  ASSUME NEW S, S \subseteq Nat, S # {}
  PROVE  \E d \in S : \A e \in S : d <= e
<1>1. PICK d \in S : \A e \in S : <<e, d>> \notin OpToRel(<, Nat)
  BY NatLessThanWellFounded, WFMin
<1>2. \A e \in S : ~(e < d)
  BY <1>1 DEF OpToRel
<1> QED BY <1>2

\* The least and the greatest of a set of numbers.
LEMMA MinFacts ==
  ASSUME NEW S, S \subseteq Nat, S # {}
  PROVE  Min(S) \in S /\ Min(S) \in Nat /\ \A e \in S : Min(S) <= e
BY LeastNumber DEF Min

LEMMA MinIs ==
  ASSUME NEW S, S \subseteq Nat, NEW m \in S, \A e \in S : m <= e
  PROVE  Min(S) = m
<1>1. Min(S) \in Nat /\ m \in Nat /\ Min(S) <= m /\ m <= Min(S) BY MinFacts
<1> QED BY <1>1

LEMMA MaxFacts ==
  ASSUME NEW S, S \subseteq Nat, S # {}, NEW b \in Nat, \A e \in S : e <= b
  PROVE  Max(S) \in S /\ Max(S) \in Nat /\ \A e \in S : Max(S) >= e
<1> DEFINE T == {b - e : e \in S}
<1>1. T \subseteq Nat /\ T # {}
  <2>1. \A e \in S : b - e \in Nat OBVIOUS
  <2> QED BY <2>1
<1>2. PICK d \in T : \A e \in T : d <= e BY <1>1, LeastNumber
<1>3. PICK m \in S : d = b - m BY <1>2
<1>4. \A e \in S : m >= e
  <2> TAKE e \in S
  <2>1. b - e \in T OBVIOUS
  <2>2. b - m <= b - e BY <1>2, <1>3, <2>1
  <2> QED BY <2>2
<1> HIDE DEF T
<1> QED BY <1>4 DEF Max

LEMMA MaxIs ==
  ASSUME NEW S, S \subseteq Nat, NEW m \in S, \A e \in S : m >= e
  PROVE  Max(S) = m
<1>1. m \in Nat OBVIOUS
<1>2. Max(S) \in Nat /\ Max(S) >= m /\ m >= Max(S) BY <1>1, MaxFacts
<1> QED BY <1>1, <1>2

\* The addresses of places from p.
From(p, S) == {p + i : i \in S}

\* Places in a buffer and addresses: the first and the last of the ones are those of the others.
LEMMA FirstShifted ==
  ASSUME NEW p \in Nat, NEW S, S \subseteq Nat
  PROVE  FirstAt(p, S) = Lowest(From(p, S))
<1> DEFINE T == {p + i : i \in S}
<1>1. CASE S = {}
  <2>1. T = {} BY <1>1
  <2> QED BY <1>1, <2>1 DEF FirstAt, Lowest, NULL, From
<1>2. CASE S # {}
  <2>1. Min(S) \in S /\ Min(S) \in Nat /\ \A e \in S : Min(S) <= e BY <1>2, MinFacts
  <2>2. T \subseteq Nat /\ p + Min(S) \in T BY <2>1
  <2>3. \A e \in T : p + Min(S) <= e BY <2>1
  <2>4. Min(T) = p + Min(S)
    <3> HIDE DEF T
    <3> QED BY <2>2, <2>3, MinIs
  <2>5. T # {} BY <2>2
  <2> HIDE DEF T
  <2>6. FirstAt(p, S) = Lowest(T) BY <1>2, <2>4, <2>5 DEF FirstAt, Lowest
  <2> QED BY <2>6 DEF T, From
<1> QED BY <1>1, <1>2

LEMMA LastShifted ==
  ASSUME NEW p \in Nat, NEW S, S \subseteq Nat, NEW b \in Nat, \A e \in S : e <= b
  PROVE  LastAt(p, S) = Highest(From(p, S))
<1> DEFINE T == {p + i : i \in S}
<1>1. CASE S = {}
  <2>1. T = {} BY <1>1
  <2> QED BY <1>1, <2>1 DEF LastAt, Highest, NULL, From
<1>2. CASE S # {}
  <2>1. Max(S) \in S /\ Max(S) \in Nat /\ \A e \in S : Max(S) >= e BY <1>2, MaxFacts
  <2>2. T \subseteq Nat /\ p + Max(S) \in T BY <2>1
  <2>3. \A e \in T : p + Max(S) >= e BY <2>1
  <2>4. Max(T) = p + Max(S)
    <3> HIDE DEF T
    <3> QED BY <2>2, <2>3, MaxIs
  <2>5. T # {} BY <2>2
  <2> HIDE DEF T
  <2>6. LastAt(p, S) = Highest(T) BY <1>2, <2>4, <2>5 DEF LastAt, Highest
  <2> QED BY <2>6 DEF T, From
<1> QED BY <1>1, <1>2

-----------------------------------------------------------------------------
\* A string's length.
LEMMA StringLength ==
  ASSUME NEW mem, Memory(mem), NEW p \in Nat, IsString(mem, p)
  PROVE  /\ LengthOf(mem, p) \in Nat /\ LengthOf(mem, p) + 1 <= Cardinality(DOMAIN mem)
         /\ Cardinality(DOMAIN mem) \in Nat
         /\ \A i \in 0 .. LengthOf(mem, p) : p + i \in DOMAIN mem
         /\ mem[p + LengthOf(mem, p)] = NUL
         /\ \A i \in 0 .. LengthOf(mem, p) - 1 : mem[p + i] # NUL
<1> DEFINE l == LengthOf(mem, p)
<1>1. Cardinality(DOMAIN mem) \in Nat BY FS_CardinalityType DEF Memory
<1>2. l \in Extents(mem) /\ EndsAfter(mem, p, l)
  <2>1. \E k \in Extents(mem) : EndsAfter(mem, p, k) BY DEF IsString
  <2> QED BY <2>1 DEF LengthOf
<1>3. l \in Nat BY <1>1, <1>2 DEF Extents
<1> HIDE DEF l
<1>4. /\ \A i \in 0 .. l : p + i \in DOMAIN mem
      /\ mem[p + l] = NUL /\ \A i \in 0 .. l - 1 : mem[p + i] # NUL
  BY <1>2, <1>3 DEF EndsAfter, AllMapped, End, NUL
<1>5. l + 1 <= Cardinality(DOMAIN mem)
  <2>1. p .. p + l \subseteq DOMAIN mem
    <3> SUFFICES ASSUME NEW q \in p .. p + l PROVE q \in DOMAIN mem OBVIOUS
    <3>1. q - p \in 0 .. l /\ p + (q - p) = q BY <1>3
    <3> QED BY <3>1, <1>4
  <2>2. Cardinality(p .. p + l) <= Cardinality(DOMAIN mem) BY <2>1, FS_Subset DEF Memory
  <2>3. Cardinality(p .. p + l) = l + 1 BY <1>3, FS_Interval
  <2> QED BY <2>2, <2>3
<1> QED BY <1>1, <1>3, <1>4, <1>5 DEF l

\* What is read of mapped memory.
LEMMA BytesFacts ==
  ASSUME NEW mem, Memory(mem), NEW p \in Nat, NEW n \in Nat, Mapped(mem, p, n)
  PROVE  /\ Bytes(mem, p, n) \in Seq(0 .. 3) /\ Len(Bytes(mem, p, n)) = n
         /\ \A i \in 1 .. n : Bytes(mem, p, n)[i] = mem[p + i - 1] /\ mem[p + i - 1] \in 0 .. 3
<1>1. ASSUME NEW i \in 1 .. n PROVE mem[p + i - 1] \in 0 .. 3
  <2>1. i - 1 \in 0 .. n - 1 /\ p + (i - 1) = p + i - 1 OBVIOUS
  <2>2. p + i - 1 \in DOMAIN mem BY <2>1 DEF Mapped
  <2> QED BY <2>2 DEF Memory
<1> QED BY <1>1 DEF Bytes

\* A string is read up to its end or the last place of the buffer.
LEMMA StringIsRead ==
  ASSUME NEW mem, Memory(mem), NEW p \in Nat, IsString(mem, p), NEW cap \in Nat \ {0}
  PROVE  /\ Least(LengthOf(mem, p), cap - 1) \in 0 .. LengthOf(mem, p)
         /\ LengthOf(mem, p) < cap => Least(LengthOf(mem, p), cap - 1) = LengthOf(mem, p)
         /\ StopsAt(mem, p, cap) = Least(LengthOf(mem, p), cap - 1)
         /\ ReadStr(mem, p, cap) = {Bytes(mem, p, Least(LengthOf(mem, p), cap - 1))}
         /\ Mapped(mem, p, Least(LengthOf(mem, p), cap - 1))
<1> DEFINE l == LengthOf(mem, p)
           k == Least(l, cap - 1)
           S == {i \in 0 .. cap - 1 : i = cap - 1 \/ p + i \notin DOMAIN mem \/ mem[p + i] = NUL}
<1>1. /\ l \in Nat /\ \A i \in 0 .. l : p + i \in DOMAIN mem
      /\ mem[p + l] = NUL /\ \A i \in 0 .. l - 1 : mem[p + i] # NUL
  BY StringLength
<1> HIDE DEF l
<1>2. k \in 0 .. l /\ k \in 0 .. cap - 1 /\ (l < cap => k = l) /\ (k = cap - 1 \/ k = l)
  BY <1>1 DEF Least
<1> HIDE DEF k
<1>3. k \in S BY <1>1, <1>2
<1>4. ASSUME NEW i \in S PROVE k <= i
  <2> SUFFICES ASSUME i < k PROVE FALSE BY <1>2
  <2>1. i \in 0 .. l - 1 /\ i # cap - 1 BY <1>1, <1>2
  <2> QED BY <2>1, <1>1
<1>5. S \subseteq Nat OBVIOUS
<1>6. StopsAt(mem, p, cap) = k
  <2>1. Min(S) = k
    <3> HIDE DEF S
    <3> QED BY <1>3, <1>4, <1>5, MinIs
  <2> QED BY <2>1 DEF StopsAt
<1>7. ~Faults(mem, p, cap) BY <1>1, <1>2, <1>6 DEF Faults
<1>8. ReadStr(mem, p, cap) = {Bytes(mem, p, k)} BY <1>6, <1>7 DEF ReadStr
<1>9. Mapped(mem, p, k) BY <1>1, <1>2 DEF Mapped
<1> QED BY <1>2, <1>6, <1>8, <1>9 DEF k, l

-----------------------------------------------------------------------------
\* What a write of bytes leaves, and that it changes nothing else.
LEMMA WriteAgrees ==
  ASSUME NEW mem, NEW d \in Nat, NEW bytes, NEW n \in Nat, Len(bytes) = n, Mapped(mem, d, n),
         NEW byte, \A i \in 0 .. n - 1 : bytes[i + 1] = byte[i]
  PROVE  Write(mem, d, bytes) = Overwritten(mem, d, n, byte)
<1>1. Write(mem, d, bytes) =
        [q \in DOMAIN mem |-> IF q \in d .. d + n - 1 THEN bytes[q - d + 1] ELSE mem[q]]
  BY DEF Write
<1>2. ASSUME NEW q \in DOMAIN mem, q \in d .. d + n - 1 PROVE bytes[q - d + 1] = byte[q - d]
  <2>1. q - d \in 0 .. n - 1 /\ q - d + 1 = (q - d) + 1 BY <1>2
  <2> QED BY <2>1
<1> QED BY <1>1, <1>2 DEF Overwritten

LEMMA WriteStaysInside ==
  ASSUME NEW mem, NEW d \in Nat, NEW bytes, Len(bytes) \in Nat, NEW n \in Nat, Len(bytes) <= n,
         NEW q \in DOMAIN mem, q \notin d .. d + n - 1
  PROVE  Write(mem, d, bytes)[q] = mem[q]
<1>1. q \notin d .. d + Len(bytes) - 1 OBVIOUS
<1> QED BY <1>1 DEF Write

LEMMA MappedPart ==
  ASSUME NEW mem, NEW p \in Nat, NEW n \in Nat, Mapped(mem, p, n), NEW m \in Nat, m <= n
  PROVE  Mapped(mem, p, m)
BY DEF Mapped

\* A string with its end, or a part of one.
LEMMA WithEndFacts ==
  ASSUME NEW s \in Seq(0 .. 3)
  PROVE  /\ Len(WithEnd(s)) = Len(s) + 1 /\ WithEnd(s)[Len(s) + 1] = NUL
         /\ \A i \in 1 .. Len(s) : WithEnd(s)[i] = s[i]
BY DEF WithEnd

\* The bytes that replace others, as the standard numbers them: those from b, as many of
\* them as come before `top' and then zeros, or all the same.
Copy(mem, b, size)       == [j \in 0 .. size - 1 |-> mem[b + j]]
CutAt(mem, b, size, top) == [j \in 0 .. size - 1 |-> IF j < top THEN mem[b + j] ELSE End]
Filled(c, size)          == [j \in 0 .. size - 1 |-> c]

\* A call changes nothing but its destination.
MemoryOK(x, mem, place) == \A q \in DOMAIN mem \ place : x.mem[q] = mem[q]

LEMMA MemcpyAgrees ==
  ASSUME NEW mem, Memory(mem), NEW a \in Nat, NEW b \in Nat, NEW n \in Nat,
         Mapped(mem, a, n), Mapped(mem, b, n), NEW x \in Memcpy(mem, a, b, n)
  PROVE  /\ n <= CopyCap => x = Returns(a, Overwritten(mem, a, n, Copy(mem, b, n)))
         /\ MemoryOK(x, mem, a .. a + n - 1)
<1> DEFINE s == Bytes(mem, b, n)
<1>1. Len(s) = n /\ \A i \in 1 .. n : s[i] = mem[b + i - 1] BY BytesFacts
<1>2. x = Returns(a, IF n <= CopyCap THEN Write(mem, a, s) ELSE mem) BY DEF Memcpy
<1> HIDE DEF s
<1> DEFINE byte == Copy(mem, b, n)
<1>3. \A i \in 0 .. n - 1 : s[i + 1] = byte[i]
  <2> TAKE i \in 0 .. n - 1
  <2>1. i + 1 \in 1 .. n /\ b + (i + 1) - 1 = b + i OBVIOUS
  <2> QED BY <1>1, <2>1 DEF Copy
<1> HIDE DEF byte
<1>4. Write(mem, a, s) = Overwritten(mem, a, n, byte) BY <1>1, <1>3, WriteAgrees
<1>5. \A q \in DOMAIN mem \ (a .. a + n - 1) : Write(mem, a, s)[q] = mem[q]
  BY <1>1, WriteStaysInside
<1> QED BY <1>2, <1>4, <1>5 DEF byte, Returns, MemoryOK

LEMMA MemsetAgrees ==
  ASSUME NEW mem, Memory(mem), NEW a \in Nat, NEW c, NEW n \in Nat,
         Mapped(mem, a, n), NEW x \in Memset(mem, a, c, n)
  PROVE  /\ n <= CopyCap => x = Returns(a, Overwritten(mem, a, n, Filled(c, n)))
         /\ MemoryOK(x, mem, a .. a + n - 1)
<1> DEFINE s == [i \in 1 .. n |-> c]
           byte == Filled(c, n)
<1>1. Len(s) = n /\ \A i \in 0 .. n - 1 : s[i + 1] = byte[i] BY DEF Filled
<1>2. x = Returns(a, IF n <= CopyCap THEN Write(mem, a, s) ELSE mem) BY DEF Memset
<1> HIDE DEF s, byte
<1>3. Write(mem, a, s) = Overwritten(mem, a, n, byte) BY <1>1, WriteAgrees
<1>4. \A q \in DOMAIN mem \ (a .. a + n - 1) : Write(mem, a, s)[q] = mem[q]
  BY <1>1, WriteStaysInside
<1> QED BY <1>2, <1>3, <1>4 DEF byte, Returns, MemoryOK

\* What is read of a string: all of it, or as much as the buffer has room for.
LEMMA ReadFacts ==
  ASSUME NEW mem, Memory(mem), NEW p \in Nat, IsString(mem, p), NEW cap \in Nat \ {0},
         NEW s \in ReadStr(mem, p, cap)
  PROVE  /\ LengthOf(mem, p) \in Nat /\ s \in Seq(0 .. 3)
         /\ Len(s) \in Nat /\ Len(s) <= LengthOf(mem, p)
         /\ LengthOf(mem, p) < cap => Len(s) = LengthOf(mem, p)
         /\ \A i \in 0 .. Len(s) - 1 : s[i + 1] = mem[p + i] /\ mem[p + i] \in 1 .. 3
         /\ mem[p + LengthOf(mem, p)] = 0
<1> DEFINE l == LengthOf(mem, p)
           k == Least(l, cap - 1)
<1>1. l \in Nat /\ mem[p + l] = 0 /\ \A i \in 0 .. l - 1 : mem[p + i] # 0
  BY StringLength DEF NUL
<1>2. k \in 0 .. l /\ (l < cap => k = l) /\ Mapped(mem, p, k) /\ s = Bytes(mem, p, k)
  BY StringIsRead
<1> HIDE DEF l, k
<1>3. k \in Nat BY <1>1, <1>2
<1>4. /\ s \in Seq(0 .. 3) /\ Len(s) = k
      /\ \A i \in 1 .. k : s[i] = mem[p + i - 1] /\ mem[p + i - 1] \in 0 .. 3
  <2>1. Mapped(mem, p, k) BY <1>2
  <2>2. /\ Bytes(mem, p, k) \in Seq(0 .. 3) /\ Len(Bytes(mem, p, k)) = k
        /\ \A i \in 1 .. k : Bytes(mem, p, k)[i] = mem[p + i - 1] /\ mem[p + i - 1] \in 0 .. 3
    BY ONLY <1>3, <2>1, Memory(mem), p \in Nat, BytesFacts
  <2>3. s = Bytes(mem, p, k) BY <1>2
  <2> QED BY ONLY <2>2, <2>3
<1>5. ASSUME NEW i \in 0 .. k - 1 PROVE s[i + 1] = mem[p + i] /\ mem[p + i] \in 1 .. 3
  <2>1. i + 1 \in 1 .. k /\ p + (i + 1) - 1 = p + i /\ i \in 0 .. l - 1 BY <1>1, <1>2, <1>3
  <2>2. s[i + 1] = mem[p + i] /\ mem[p + i] \in 0 .. 3 BY <1>4, <2>1
  <2>3. mem[p + i] # 0 BY <1>1, <2>1
  <2> QED BY <2>2, <2>3
<1> QED BY <1>1, <1>2, <1>3, <1>4, <1>5 DEF l

\* A copy of the string at b, for strcpy and stpcpy.
LEMMA StringCopied ==
  ASSUME NEW mem, Memory(mem), NEW a \in Nat, NEW b \in Nat, IsString(mem, b),
         NEW n \in Nat, n = LengthOf(mem, b) + 1, Mapped(mem, a, n),
         NEW s \in ReadStr(mem, b, StrCap)
  PROVE  /\ LengthOf(mem, b) < StrCap =>
              /\ Len(s) = LengthOf(mem, b)
              /\ Write(mem, a, WithEnd(s)) = Overwritten(mem, a, n, Copy(mem, b, n))
         /\ \A q \in DOMAIN mem \ (a .. a + n - 1) : Write(mem, a, WithEnd(s))[q] = mem[q]
<1> DEFINE l == LengthOf(mem, b)
<1>1. /\ l \in Nat /\ s \in Seq(0 .. 3) /\ Len(s) \in Nat /\ Len(s) <= l
      /\ l < StrCap => Len(s) = l
      /\ \A i \in 0 .. Len(s) - 1 : s[i + 1] = mem[b + i]
      /\ mem[b + l] = 0
  BY ReadFacts, CStringAssumption
<1>2. n = l + 1 OBVIOUS
<1> HIDE DEF l
<1>3. /\ Len(WithEnd(s)) = Len(s) + 1 /\ WithEnd(s)[Len(s) + 1] = NUL
      /\ \A i \in 1 .. Len(s) : WithEnd(s)[i] = s[i]
  BY <1>1, WithEndFacts
<1>4. ASSUME NEW q \in DOMAIN mem \ (a .. a + n - 1) PROVE Write(mem, a, WithEnd(s))[q] = mem[q]
  <2>1. Len(WithEnd(s)) \in Nat /\ Len(WithEnd(s)) <= n BY <1>1, <1>2, <1>3
  <2> QED BY <1>4, <2>1, WriteStaysInside
<1>5. ASSUME l < StrCap
      PROVE  Write(mem, a, WithEnd(s)) = Overwritten(mem, a, n, Copy(mem, b, n))
  <2> DEFINE byte == Copy(mem, b, n)
  <2>1. Len(s) = l /\ Len(WithEnd(s)) = n BY <1>1, <1>2, <1>3, <1>5
  <2>2. \A i \in 0 .. n - 1 : WithEnd(s)[i + 1] = byte[i]
    <3> TAKE i \in 0 .. n - 1
    <3>1. CASE i = l BY <1>1, <1>2, <1>3, <2>1, <3>1 DEF NUL, Copy
    <3>2. CASE i # l
      <4>1. i \in 0 .. Len(s) - 1 /\ i + 1 \in 1 .. Len(s) BY <1>1, <1>2, <2>1, <3>2
      <4> QED BY <1>1, <1>3, <4>1 DEF Copy
    <3> QED BY <3>1, <3>2
  <2> HIDE DEF byte
  <2>3. Write(mem, a, WithEnd(s)) = Overwritten(mem, a, n, byte) BY <2>1, <2>2, WriteAgrees
  <2> QED BY <2>3 DEF byte
<1> QED BY <1>1, <1>4, <1>5 DEF l

\* What strncpy leaves: the string, then zeros, as the block's last byte is within it.
LEMMA StrncpyAgrees ==
  ASSUME NEW mem, Memory(mem), NEW a \in Nat, NEW b \in Nat, IsString(mem, b),
         NEW n \in Nat, Mapped(mem, a, n), NEW x \in Strncpy(mem, a, b, n)
  PROVE  /\ n <= StrCap /\ (n = 0 \/ LengthOf(mem, b) < n) =>
              x = Returns(a, Overwritten(mem, a, n, CutAt(mem, b, n, LengthOf(mem, b))))
         /\ MemoryOK(x, mem, a .. a + n - 1)
<1> DEFINE l == LengthOf(mem, b)
           m == Least(n, StrCap)
           s == IF m = 0 THEN <<>> ELSE Bytes(mem, b, StopsAt(mem, b, m))
           block == [i \in 1 .. m |-> IF i <= Len(s) THEN s[i] ELSE NUL]
           byte == CutAt(mem, b, n, l)
<1>1. x = Returns(a, Write(mem, a, block)) BY DEF Strncpy
<1>2. m \in Nat /\ m <= n /\ (n <= StrCap => m = n) BY CStringAssumption DEF Least
<1>3. l \in Nat BY StringLength
<1>4. Len(block) = m BY <1>2
<1>5. ASSUME n <= StrCap, n = 0 \/ l < n
      PROVE  \A i \in 0 .. n - 1 : block[i + 1] = byte[i]
  <2>1. CASE n = 0 BY <2>1
  <2>2. CASE n # 0
    <3>1. m = n /\ m # 0 /\ l < m BY <1>2, <1>3, <1>5, <2>2
    <3>2. /\ Least(l, m - 1) \in 0 .. l /\ Least(l, m - 1) = l
          /\ StopsAt(mem, b, m) = Least(l, m - 1) /\ Mapped(mem, b, Least(l, m - 1))
      BY <1>2, <3>1, StringIsRead
    <3>3. s = Bytes(mem, b, l) /\ Mapped(mem, b, l) BY <3>1, <3>2
    <3>4. Len(s) = l /\ \A i \in 1 .. l : s[i] = mem[b + i - 1]
      <4> HIDE DEF l, s
      <4> QED BY <1>3, <3>3, BytesFacts
    <3> HIDE DEF l, m, s
    <3>5. SUFFICES ASSUME NEW i \in 0 .. n - 1 PROVE block[i + 1] = byte[i] OBVIOUS
    <3>6. i + 1 \in 1 .. m /\ b + (i + 1) - 1 = b + i BY <3>1
    <3>7. CASE i < l
      <4>1. i + 1 \in 1 .. l BY <1>3, <3>7
      <4> QED BY <3>4, <3>6, <3>7, <4>1 DEF CutAt
    <3>8. CASE ~(i < l)
      <4>1. ~(i + 1 <= Len(s)) BY <1>3, <3>4, <3>8
      <4> QED BY <3>6, <3>8, <4>1 DEF NUL, End, CutAt
    <3> QED BY <3>7, <3>8
  <2> QED BY <2>1, <2>2
<1>6. MemoryOK(x, mem, a .. a + n - 1)
  <2> HIDE DEF block, m
  <2>1. Len(block) \in Nat /\ Len(block) <= n BY <1>2, <1>4
  <2>2. ASSUME NEW q \in DOMAIN mem \ (a .. a + n - 1) PROVE Write(mem, a, block)[q] = mem[q]
    <3>1. q \in DOMAIN mem /\ q \notin a .. a + n - 1 OBVIOUS
    <3>2. q \notin a .. a + Len(block) - 1 BY <2>1, <3>1
    <3> QED BY <3>1, <3>2 DEF Write
  <2> QED BY <1>1, <2>2 DEF MemoryOK, Returns
<1>7. ASSUME n <= StrCap, n = 0 \/ l < n PROVE x = Returns(a, Overwritten(mem, a, n, byte))
  <2>1. Len(block) = n BY <1>2, <1>4, <1>7
  <2>2. \A i \in 0 .. n - 1 : block[i + 1] = byte[i] BY <1>5, <1>7
  <2> HIDE DEF block, byte
  <2>3. Write(mem, a, block) = Overwritten(mem, a, n, byte) BY <2>1, <2>2, WriteAgrees
  <2> QED BY <1>1, <2>3
<1> QED BY <1>6, <1>7

LEMMA JoinedFacts ==
  ASSUME NEW x \in Seq(0 .. 3), NEW t \in Seq(0 .. 3), NEW l \in Nat, l = Len(x),
         NEW k \in Nat, k = Len(t)
  PROVE  /\ Len(WithEnd(x \o t)) = l + k + 1 /\ WithEnd(x \o t)[l + k + 1] = NUL
         /\ \A i \in 1 .. l : WithEnd(x \o t)[i] = x[i]
         /\ \A i \in 1 .. k : WithEnd(x \o t)[l + i] = t[i]
<1>1. /\ x \o t \in Seq(0 .. 3) /\ Len(x \o t) = l + k
      /\ \A i \in 1 .. l : (x \o t)[i] = x[i]
      /\ \A i \in 1 .. k : (x \o t)[l + i] = t[i]
  OBVIOUS
<1>2. /\ Len(WithEnd(x \o t)) = Len(x \o t) + 1 /\ WithEnd(x \o t)[Len(x \o t) + 1] = NUL
      /\ \A i \in 1 .. Len(x \o t) : WithEnd(x \o t)[i] = (x \o t)[i]
  BY <1>1, WithEndFacts
<1>3. \A i \in 1 .. l : i \in 1 .. l + k OBVIOUS
<1>4. \A i \in 1 .. k : l + i \in 1 .. l + k OBVIOUS
<1> QED BY <1>1, <1>2, <1>3, <1>4

\* What is appended: t after the string x that is at a.
LEMMA StringsJoined ==
  ASSUME NEW mem, Memory(mem), NEW a \in Nat, IsString(mem, a), NEW x \in ReadStr(mem, a, StrCap),
         NEW t \in Seq(0 .. 3), NEW n \in Nat, Len(t) <= n,
         Mapped(mem, a, LengthOf(mem, a) + n + 1)
  PROVE  /\ \A q \in DOMAIN mem \ (a .. a + LengthOf(mem, a) + n) :
                 Write(mem, a, Joined(x, t))[q] = mem[q]
         /\ \A byte :
              /\ \A i \in 0 .. Len(t) - 1 : t[i + 1] = byte[i]
              /\ byte[Len(t)] = NUL /\ LengthOf(mem, a) + n + 1 < StrCap
              => Write(mem, a, Joined(x, t)) =
                   Overwritten(mem, a + LengthOf(mem, a), Len(t) + 1, byte)
<1> DEFINE l == LengthOf(mem, a)
<1>1. /\ l \in Nat /\ x \in Seq(0 .. 3) /\ Len(x) \in Nat /\ Len(x) <= l
      /\ l < StrCap => Len(x) = l
      /\ \A i \in 0 .. Len(x) - 1 : x[i + 1] = mem[a + i]
  BY ReadFacts, CStringAssumption
<1>2. Len(t) \in Nat OBVIOUS
<1>3. Mapped(mem, a, l + n + 1) OBVIOUS
<1> HIDE DEF l
<1>4. Len(Joined(x, t)) \in Nat /\ Len(Joined(x, t)) <= l + n + 1
  <2>1. Len(WithEnd(x \o t)) = Len(x) + Len(t) + 1 BY <1>1 DEF WithEnd
  <2> QED BY <1>1, <1>2, <2>1 DEF Joined
<1>5. ASSUME NEW q \in DOMAIN mem \ (a .. a + l + n) PROVE Write(mem, a, Joined(x, t))[q] = mem[q]
  <2>1. q \in DOMAIN mem /\ q \notin a .. a + Len(Joined(x, t)) - 1 BY <1>1, <1>4, <1>5
  <2> QED BY <2>1 DEF Write
<1>6. ASSUME NEW byte, \A i \in 0 .. Len(t) - 1 : t[i + 1] = byte[i], byte[Len(t)] = NUL,
             l + n + 1 < StrCap
      PROVE  Write(mem, a, Joined(x, t)) = Overwritten(mem, a + l, Len(t) + 1, byte)
  <2> DEFINE s == Joined(x, t)
             k == Len(t)
  <2>1. StrCap \in Nat BY CStringAssumption
  <2>2. Len(x) = l /\ s = WithEnd(x \o t) BY <1>1, <1>2, <1>6, <2>1 DEF Joined
  <2>3. /\ Len(s) = l + k + 1
        /\ \A i \in 1 .. l : s[i] = x[i]
        /\ \A i \in 1 .. k : s[l + i] = t[i]
        /\ s[l + k + 1] = NUL
    BY ONLY <1>1, <2>2, t \in Seq(0 .. 3), JoinedFacts, SMTT(20)
  <2>4. k \in Nat /\ k <= n OBVIOUS
  <2> HIDE DEF s, k
  <2>5. Mapped(mem, a, l + k + 1) 
    <3>1. l + k + 1 \in Nat /\ l + n + 1 \in Nat /\ l + k + 1 <= l + n + 1
      <4>1. l \in Nat /\ n \in Nat BY <1>1
      <4> QED BY ONLY <4>1, <2>4
    <3> QED BY ONLY <1>3, <3>1, a \in Nat, MappedPart
  <2>6. Mapped(mem, a, Len(s)) BY <2>3, <2>5
  <2>7. Write(mem, a, s) =
          [q \in DOMAIN mem |-> IF q \in a .. a + Len(s) - 1 THEN s[q - a + 1] ELSE mem[q]]
    BY <2>6 DEF Write
  <2>8. ASSUME NEW q \in DOMAIN mem, q \in a .. a + Len(s) - 1
        PROVE  s[q - a + 1] = IF q \in a + l .. a + l + (k + 1) - 1 THEN byte[q - (a + l)] ELSE mem[q]
    <3>0. q \in Nat /\ q - a \in 0 .. l + k BY <1>1, <2>3, <2>4, <2>8
    <3>1. CASE q < a + l
      <4>1. q - a + 1 \in 1 .. l /\ q - a \in 0 .. Len(x) - 1 /\ (q - a) + 1 = q - a + 1 /\ a + (q - a) = q
        BY <1>1, <2>2, <3>0, <3>1
      <4>2. x[q - a + 1] = mem[q] BY <1>1, <4>1
      <4>3. q \notin a + l .. a + l + (k + 1) - 1 BY <1>1, <3>0, <3>1
      <4> QED BY <2>3, <4>1, <4>2, <4>3
    <3>2. CASE q >= a + l /\ q < a + l + k
      <4>1. /\ q - (a + l) \in 0 .. k - 1 /\ q - (a + l) + 1 \in 1 .. k
            /\ l + (q - (a + l) + 1) = q - a + 1 /\ q \in a + l .. a + l + (k + 1) - 1
        <5>1. a \in Nat /\ l \in Nat /\ k \in Nat /\ q \in Nat BY <1>1, <2>4, <3>0
        <5> QED BY ONLY <5>1, <3>2
      <4>2. s[q - a + 1] = t[q - (a + l) + 1] BY <2>3, <4>1
      <4>3. t[q - (a + l) + 1] = byte[q - (a + l)] BY <1>6, <4>1 DEF k
      <4> QED BY <4>1, <4>2, <4>3
    <3>3. CASE q = a + l + k
      <4>1. q - (a + l) = k /\ q - a + 1 = l + k + 1 /\ q \in a + l .. a + l + (k + 1) - 1
        BY <1>1, <2>4, <3>3
      <4> QED BY <1>6, <2>3, <4>1 DEF k
    <3>4. q < a + l \/ (q >= a + l /\ q < a + l + k) \/ q = a + l + k
      <4>1. a \in Nat /\ l \in Nat /\ k \in Nat BY <1>1, <2>4
      <4> QED BY ONLY <4>1, <3>0
    <3> QED BY <3>1, <3>2, <3>3, <3>4
  <2>9. ASSUME NEW q \in DOMAIN mem, q \notin a .. a + Len(s) - 1
        PROVE  q \notin a + l .. a + l + (k + 1) - 1
    BY <1>1, <2>3, <2>4, <2>9
  <2>10. Write(mem, a, s) = Overwritten(mem, a + l, k + 1, byte)
    BY <2>7, <2>8, <2>9 DEF Overwritten
  <2> QED BY <2>10 DEF s, k
<1> QED BY <1>5, <1>6 DEF l

\* What strcat appends: all of the string; strncat: at most n bytes of it, and an end.
LEMMA Appended ==
  ASSUME NEW mem, Memory(mem), NEW a \in Nat, NEW b \in Nat, IsString(mem, a), IsString(mem, b),
         Mapped(mem, a, LengthOf(mem, a) + LengthOf(mem, b) + 1), NEW n \in Nat,
         NEW x \in ReadStr(mem, a, StrCap), NEW s \in ReadStr(mem, b, StrCap)
  PROVE  LET l == LengthOf(mem, a)
             m == LengthOf(mem, b)
             k == Least(n, m)
             t == SubSeq(s, 1, Least(n, Len(s)))
             within == l + m + 1 < StrCap
         IN  /\ \A q \in DOMAIN mem \ (a .. a + l + m) : Write(mem, a, Joined(x, t))[q] = mem[q]
             /\ \A q \in DOMAIN mem \ (a .. a + l + m) : Write(mem, a, Joined(x, s))[q] = mem[q]
             /\ within => Write(mem, a, Joined(x, t)) =
                    Overwritten(mem, a + l, k + 1, CutAt(mem, b, k + 1, k))
             /\ within => Write(mem, a, Joined(x, s)) =
                    Overwritten(mem, a + l, m + 1, Copy(mem, b, m + 1))
<1> DEFINE l == LengthOf(mem, a)
           m == LengthOf(mem, b)
           k == Least(n, m)
           t == SubSeq(s, 1, Least(n, Len(s)))
           cut == CutAt(mem, b, k + 1, k)
           all == Copy(mem, b, m + 1)
<1>1. /\ m \in Nat /\ s \in Seq(0 .. 3) /\ Len(s) \in Nat /\ Len(s) <= m
      /\ m < StrCap => Len(s) = m
      /\ \A i \in 0 .. Len(s) - 1 : s[i + 1] = mem[b + i]
      /\ mem[b + m] = 0
  BY ReadFacts, CStringAssumption
<1>2. l \in Nat BY StringLength
<1>3. Least(n, Len(s)) \in Nat /\ Least(n, Len(s)) <= Len(s) BY <1>1 DEF Least
<1>4. /\ t \in Seq(0 .. 3) /\ Len(t) = Least(n, Len(s))
      /\ \A i \in 1 .. Len(t) : t[i] = s[i]
  <2> DEFINE c == Least(n, Len(s))
  <2>1. c \in Nat /\ c <= Len(s) BY <1>3
  <2> HIDE DEF c
  <2>2. /\ SubSeq(s, 1, c) \in Seq(0 .. 3) /\ Len(SubSeq(s, 1, c)) = c
        /\ \A i \in 1 .. c : SubSeq(s, 1, c)[i] = s[i]
    BY <1>1, <2>1
  <2> QED BY <2>2 DEF c
<1>5. k \in Nat /\ k <= m BY <1>1 DEF Least
<1>6. Mapped(mem, a, l + m + 1) OBVIOUS
<1>7. \A q \in DOMAIN mem \ (a .. a + l + m) : Write(mem, a, Joined(x, s))[q] = mem[q]
  <2> HIDE DEF m, t
  <2> QED BY <1>1, <1>6, StringsJoined DEF l
<1>8. \A q \in DOMAIN mem \ (a .. a + l + m) : Write(mem, a, Joined(x, t))[q] = mem[q]
  <2>1. Len(t) <= m BY <1>1, <1>3, <1>4
  <2> HIDE DEF m, t
  <2> QED BY <1>1, <1>4, <1>6, <2>1, StringsJoined DEF l
<1>9. ASSUME l + m + 1 < StrCap
      PROVE  Write(mem, a, Joined(x, s)) = Overwritten(mem, a + l, m + 1, all)
  <2>1. StrCap \in Nat BY CStringAssumption
  <2>2. Len(s) = m BY <1>1, <1>2, <1>9, <2>1
  <2>3. \A i \in 0 .. Len(s) - 1 : s[i + 1] = all[i] BY <1>1, <2>2 DEF Copy
  <2>4. all[Len(s)] = NUL BY <1>1, <2>2 DEF NUL, Copy
  <2> HIDE DEF m, all
  <2>5. Write(mem, a, Joined(x, s)) = Overwritten(mem, a + l, Len(s) + 1, all)
    BY <1>1, <1>6, <1>9, <2>3, <2>4, StringsJoined DEF l
  <2> QED BY <2>2, <2>5
<1>10. ASSUME l + m + 1 < StrCap
       PROVE  Write(mem, a, Joined(x, t)) = Overwritten(mem, a + l, k + 1, cut)
  <2>1. StrCap \in Nat BY CStringAssumption
  <2>2. Len(s) = m /\ Len(t) = k BY <1>1, <1>2, <1>4, <1>10, <2>1
  <2>3. ASSUME NEW i \in 0 .. Len(t) - 1 PROVE t[i + 1] = cut[i]
    <3>1. /\ i \in 0 .. Len(s) - 1 /\ i + 1 \in 1 .. Len(t) /\ i < k /\ i \in 0 .. k + 1 - 1
      <4> HIDE DEF k, m, t
      <4> QED BY <1>1, <1>5, <2>2
    <3>2. t[i + 1] = mem[b + i] BY <1>1, <1>4, <3>1
    <3>3. cut[i] = mem[b + i]
      <4>1. i \in Nat /\ k \in Nat /\ i < k BY <1>1, <1>5, <3>1
      <4> HIDE DEF k, t
      <4> QED BY ONLY <4>1 DEF CutAt
    <3> QED BY <3>2, <3>3
  <2>4. cut[Len(t)] = NUL
    <3>1. k \in 0 .. k + 1 - 1 /\ ~(k < k) BY <1>5
    <3> QED BY <2>2, <3>1 DEF NUL, End, CutAt
  <2>5. Len(t) <= m BY <1>1, <1>3, <1>4
  <2> HIDE DEF m, cut, t, k
  <2>6. Write(mem, a, Joined(x, t)) = Overwritten(mem, a + l, Len(t) + 1, cut)
    <3>1. t \in Seq(0 .. 3) /\ Len(t) <= m /\ m \in Nat /\ Mapped(mem, a, LengthOf(mem, a) + m + 1)
      BY <1>1, <1>4, <1>6, <2>5
    <3>2. \A byte : (/\ \A i \in 0 .. Len(t) - 1 : t[i + 1] = byte[i]
                    /\ byte[Len(t)] = NUL /\ LengthOf(mem, a) + m + 1 < StrCap)
            => Write(mem, a, Joined(x, t)) = Overwritten(mem, a + LengthOf(mem, a), Len(t) + 1, byte)
      BY ONLY <3>1, StringsJoined, Memory(mem), a \in Nat, IsString(mem, a), x \in ReadStr(mem, a, StrCap)
    <3> QED BY <1>10, <2>3, <2>4, <3>2 DEF l
  <2> QED BY <2>2, <2>6
<1> HIDE DEF l, m, k, t, all, cut
<1> QED BY <1>7, <1>8, <1>9, <1>10 DEF l, m, k, t, all, cut

-----------------------------------------------------------------------------
\* The places F, from 0, are those of the first difference of two blocks of N bytes,
\* which hold there what is compared.
Decides(F, x, y, N, mem, p, q, key) ==
  /\ \A i \in F : i + 1 \in 1 .. N /\ x[i + 1] # y[i + 1] /\ \A j \in 1 .. i : x[j] = y[j]
  /\ \A m \in 1 .. N : x[m] # y[m] /\ (\A j \in 1 .. m - 1 : x[j] = y[j]) =>
        m - 1 \in F /\ x[m] = key[mem[p + (m - 1)]] /\ y[m] = key[mem[q + (m - 1)]]

\* Two blocks of N bytes differ first where the standard's first difference is.
LEMMA DifferenceDecides ==
  ASSUME NEW mem, NEW p \in Nat, NEW q \in Nat, NEW n \in Nat, NEW stops, NEW key,
         NEW N \in Nat, NEW x \in [1 .. N -> 0 .. 3], NEW y \in [1 .. N -> 0 .. 3],
         Decides(FirstDifference(mem, p, q, n, stops, key), x, y, N, mem, p, q, key)
  PROVE  CompareBlocks(x, y) = SignOf(mem, p, q, n, stops, key)
<1> DEFINE D == {i \in DOMAIN x : x[i] # y[i]}
           F == FirstDifference(mem, p, q, n, stops, key)
<1>1. F \subseteq Nat BY DEF FirstDifference
<1>0. /\ \A i \in F : i + 1 \in 1 .. N /\ x[i + 1] # y[i + 1] /\ \A j \in 1 .. i : x[j] = y[j]
      /\ \A m \in 1 .. N : x[m] # y[m] /\ (\A j \in 1 .. m - 1 : x[j] = y[j]) =>
            m - 1 \in F /\ x[m] = key[mem[p + (m - 1)]] /\ y[m] = key[mem[q + (m - 1)]]
  BY DEF Decides
<1>2. CASE D = {}
  <2>1. F = {} BY <1>0, <1>1, <1>2
  <2> QED BY <1>2, <2>1 DEF CompareBlocks, SignOf
<1>3. CASE D # {}
  <2>1. D \subseteq Nat OBVIOUS
  <2> DEFINE m == Min(D)
  <2>2. m \in D /\ m \in Nat /\ \A e \in D : m <= e
    <3> HIDE DEF D
    <3> QED BY <1>3, <2>1, MinFacts
  <2>3. m \in 1 .. N /\ x[m] # y[m] BY <2>2
  <2>4. ASSUME NEW j \in 1 .. m - 1 PROVE x[j] = y[j]
    <3> SUFFICES ASSUME x[j] # y[j] PROVE FALSE OBVIOUS
    <3>1. j \in D BY <2>3
    <3>2. m <= j BY <2>2, <3>1
    <3> QED BY <2>3, <3>2
  <2> HIDE DEF m
  <2>5. m - 1 \in F /\ x[m] = key[mem[p + (m - 1)]] /\ y[m] = key[mem[q + (m - 1)]]
    BY <1>0, <2>3, <2>4
  <2>6. ASSUME NEW i \in F PROVE i = m - 1
    <3>1. i \in Nat /\ i + 1 \in D /\ i + 1 \in 1 .. N /\ \A j \in 1 .. i : x[j] = y[j] BY <1>0, <1>1
    <3>2. m <= i + 1 BY <2>2, <3>1
    <3>3. ~(m <= i) BY <2>3, <3>1
    <3> QED BY <2>3, <3>1, <3>2, <3>3
  <2>7. (CHOOSE i \in F : TRUE) = m - 1 BY <2>5, <2>6
  <2>8. F # {} BY <2>5
  <2>9. CompareBlocks(x, y) = IF x[m] < y[m] THEN -1 ELSE 1 BY <1>3 DEF CompareBlocks, m
  <2> HIDE DEF F
  <2>10. SignOf(mem, p, q, n, stops, key) =
          IF key[mem[p + (m - 1)]] < key[mem[q + (m - 1)]] THEN -1 ELSE 1
    BY <2>7, <2>8 DEF SignOf, F
  <2> QED BY <2>5, <2>9, <2>10
<1> QED BY <1>2, <1>3

LEMMA MemcmpAgrees ==
  ASSUME NEW mem, Memory(mem), NEW p \in Nat, NEW q \in Nat, NEW n \in Nat,
         Mapped(mem, p, n), Mapped(mem, q, n), n <= BlockCap, NEW r \in Memcmp(mem, p, q, n)
  PROVE  r = Returns(SignOf(mem, p, q, n, FALSE, Plain), mem)
<1> DEFINE x == Bytes(mem, p, n)
           y == Bytes(mem, q, n)
           F == FirstDifference(mem, p, q, n, FALSE, Plain)
<1>1. r = Returns(CompareBlocks(x, y), mem)
  <2>1. Least(n, BlockCap) = n BY DEF Least
  <2> QED BY <2>1 DEF Memcmp, ReadBlock
<1>2. /\ \A i \in 1 .. n : x[i] = mem[p + i - 1] /\ mem[p + i - 1] \in 0 .. 3
      /\ \A i \in 1 .. n : y[i] = mem[q + i - 1] /\ mem[q + i - 1] \in 0 .. 3
  BY BytesFacts
<1>3. x \in [1 .. n -> 0 .. 3] /\ y \in [1 .. n -> 0 .. 3] BY <1>2 DEF Bytes
<1> HIDE DEF x, y
<1>4. \A c \in 0 .. 3 : Plain[c] = c BY DEF Plain
<1> HIDE DEF F
<1>5. \A i \in 0 .. n - 1 :
         /\ i + 1 \in 1 .. n
         /\ x[i + 1] = Plain[mem[p + i]] /\ y[i + 1] = Plain[mem[q + i]]
  <2> TAKE i \in 0 .. n - 1
  <2>1. i + 1 \in 1 .. n /\ p + (i + 1) - 1 = p + i /\ q + (i + 1) - 1 = q + i OBVIOUS
  <2> QED BY <1>2, <1>4, <2>1
<1>6. \A i \in Nat : i \in F <=>
         /\ i \in 0 .. n - 1
         /\ \A k \in 0 .. i - 1 : Plain[mem[p + k]] = Plain[mem[q + k]]
         /\ Plain[mem[p + i]] # Plain[mem[q + i]]
  BY DEF F, FirstDifference
<1>7. F \subseteq Nat BY DEF F, FirstDifference
<1>8. ASSUME NEW i \in F
      PROVE  i + 1 \in 1 .. n /\ x[i + 1] # y[i + 1] /\ \A j \in 1 .. i : x[j] = y[j]
  <2>1. i \in Nat /\ i \in 0 .. n - 1 BY <1>6, <1>7
  <2>2. ASSUME NEW j \in 1 .. i PROVE x[j] = y[j]
    <3>1. PICK k \in 0 .. i - 1 : k + 1 = j
      <4>1. j - 1 \in 0 .. i - 1 /\ (j - 1) + 1 = j BY <2>1
      <4> QED BY <4>1
    <3>2. k \in 0 .. n - 1 BY <2>1
    <3> QED BY <1>5, <1>6, <2>1, <3>1, <3>2
  <2> QED BY <1>5, <1>6, <2>1, <2>2
<1>9. ASSUME NEW m \in 1 .. n, x[m] # y[m], \A j \in 1 .. m - 1 : x[j] = y[j]
      PROVE  m - 1 \in F /\ x[m] = Plain[mem[p + (m - 1)]] /\ y[m] = Plain[mem[q + (m - 1)]]
  <2> DEFINE i == m - 1
  <2>1. i \in Nat /\ i \in 0 .. n - 1 /\ i + 1 = m /\ m - 1 = i OBVIOUS
  <2> HIDE DEF i
  <2>2. x[m] = Plain[mem[p + i]] /\ y[m] = Plain[mem[q + i]] BY <1>5, <2>1
  <2>3. ASSUME NEW k \in 0 .. i - 1 PROVE Plain[mem[p + k]] = Plain[mem[q + k]]
    <3>1. k \in 0 .. n - 1 /\ k + 1 \in 1 .. m - 1 BY <2>1
    <3> QED BY <1>5, <1>9, <3>1
  <2>4. i \in F BY <1>6, <1>9, <2>1, <2>2, <2>3
  <2> QED BY <2>1, <2>2, <2>4
<1>10. CompareBlocks(x, y) = SignOf(mem, p, q, n, FALSE, Plain)
  <2> DEFINE stops == FALSE
  <2>1. Decides(F, x, y, n, mem, p, q, Plain) BY <1>8, <1>9 DEF Decides
  <2>2. F = FirstDifference(mem, p, q, n, stops, Plain) BY DEF F
  <2> HIDE DEF stops
  <2>3. Decides(FirstDifference(mem, p, q, n, stops, Plain), x, y, n, mem, p, q, Plain)
    BY <2>1, <2>2
  <2>4. CompareBlocks(x, y) = SignOf(mem, p, q, n, stops, Plain)
    BY <1>3, <2>3, DifferenceDecides
  <2> QED BY <2>4 DEF stops
<1> QED BY <1>1, <1>10

\* How far a comparison of strings sees one: l bytes, then its end or the count's.
Shown(mem, p, n, l) ==
  /\ l \in 0 .. n
  /\ \A i \in 0 .. l - 1 : mem[p + i] \in 1 .. 3
  /\ l < n => mem[p + l] = 0

\* What the buffer holds of it, each byte as it is compared.
BufferedAs(s, mem, p, l, key) ==
  /\ s \in Seq(0 .. 3) /\ Len(s) = l
  /\ \A i \in 0 .. l - 1 : s[i + 1] = key[mem[p + i]]

\* What bytes may be compared by: the end of a string by itself.
IsKey(key) == key[0] = 0 /\ \A c \in 1 .. 3 : key[c] \in 1 .. 3

StringSign(mem, p, q, n, key) == SignOf(mem, p, q, n, TRUE, key)

LEMMA StringsCompare ==
  ASSUME NEW mem, NEW p \in Nat, NEW q \in Nat, NEW n \in Nat, NEW l \in Nat, NEW m \in Nat,
         Shown(mem, p, n, l), Shown(mem, q, n, m), NEW key, IsKey(key),
         NEW s, NEW t, BufferedAs(s, mem, p, l, key), BufferedAs(t, mem, q, m, key)
  PROVE  CompareStrings(s, t) = StringSign(mem, p, q, n, key)
<1> DEFINE N == l + m + 1
           x == [i \in 1 .. N |-> IF i <= Len(s) THEN s[i] ELSE NUL]
           y == [i \in 1 .. N |-> IF i <= Len(t) THEN t[i] ELSE NUL]
           F == FirstDifference(mem, p, q, n, TRUE, key)
<1>0. key[0] = 0 /\ \A c \in 1 .. 3 : key[c] \in 1 .. 3 BY DEF IsKey
<1>1. CompareStrings(s, t) = CompareBlocks(x, y) BY DEF CompareStrings, BufferedAs
<1>2. N \in Nat /\ l < N /\ m < N OBVIOUS
<1>3. x \in [1 .. N -> 0 .. 3] /\ y \in [1 .. N -> 0 .. 3]
  <2>1. ASSUME NEW i \in 1 .. N PROVE x[i] \in 0 .. 3 /\ y[i] \in 0 .. 3
    BY DEF BufferedAs, NUL
  <2> QED BY <2>1
<1>4. ASSUME NEW i \in 0 .. N - 1
      PROVE  /\ i + 1 \in 1 .. N
             /\ i < l => x[i + 1] = key[mem[p + i]] /\ x[i + 1] \in 1 .. 3 /\ mem[p + i] # 0
             /\ i < m => y[i + 1] = key[mem[q + i]] /\ y[i + 1] \in 1 .. 3 /\ mem[q + i] # 0
             /\ i >= l => x[i + 1] = 0
             /\ i >= m => y[i + 1] = 0
  <2>1. i + 1 \in 1 .. N OBVIOUS
  <2>2. ASSUME i < l PROVE x[i + 1] = key[mem[p + i]] /\ x[i + 1] \in 1 .. 3 /\ mem[p + i] # 0
    <3>1. i \in 0 .. l - 1 /\ i + 1 <= Len(s) BY <2>2 DEF BufferedAs
    <3>2. x[i + 1] = key[mem[p + i]] BY <2>1, <3>1 DEF BufferedAs
    <3>3. mem[p + i] \in 1 .. 3 BY <3>1 DEF Shown
    <3>4. key[mem[p + i]] \in 1 .. 3 BY <1>0, <3>3
    <3>5. mem[p + i] # 0 BY <3>3
    <3> QED BY <3>2, <3>4, <3>5
  <2>3. ASSUME i < m PROVE y[i + 1] = key[mem[q + i]] /\ y[i + 1] \in 1 .. 3 /\ mem[q + i] # 0
    <3>1. i \in 0 .. m - 1 /\ i + 1 <= Len(t) BY <2>3 DEF BufferedAs
    <3>2. y[i + 1] = key[mem[q + i]] BY <2>1, <3>1 DEF BufferedAs
    <3>3. mem[q + i] \in 1 .. 3 BY <3>1 DEF Shown
    <3>4. key[mem[q + i]] \in 1 .. 3 BY <1>0, <3>3
    <3>5. mem[q + i] # 0 BY <3>3
    <3> QED BY <3>2, <3>4, <3>5
  <2>4. ASSUME i >= l PROVE x[i + 1] = 0
    <3>1. ~(i + 1 <= Len(s)) BY <2>4 DEF BufferedAs
    <3> QED BY <2>1, <3>1 DEF NUL
  <2>5. ASSUME i >= m PROVE y[i + 1] = 0
    <3>1. ~(i + 1 <= Len(t)) BY <2>5 DEF BufferedAs
    <3> QED BY <2>1, <3>1 DEF NUL
  <2> QED BY <2>1, <2>2, <2>3, <2>4, <2>5
<1>5. l <= n /\ m <= n /\ (l < n => mem[p + l] = 0) /\ (m < n => mem[q + m] = 0) BY DEF Shown
<1> HIDE DEF x, y, N, F
<1>6. \A i \in Nat : i \in F <=>
         /\ i \in 0 .. n - 1
         /\ \A k \in 0 .. i - 1 : key[mem[p + k]] = key[mem[q + k]] /\ mem[p + k] # 0
         /\ key[mem[p + i]] # key[mem[q + i]]
  BY DEF F, FirstDifference, End
<1>7. F \subseteq Nat BY DEF F, FirstDifference
\* Up to both ends, the end included, the buffers hold what is compared.
<1>8. ASSUME NEW i \in 0 .. n - 1, i <= l, i <= m
      PROVE  /\ i \in 0 .. N - 1
             /\ x[i + 1] = key[mem[p + i]] /\ y[i + 1] = key[mem[q + i]]
  <2>1. i \in 0 .. N - 1 /\ i < n BY <1>2, <1>8
  <2>2. x[i + 1] = key[mem[p + i]]
    <3>1. CASE i < l BY <1>4, <2>1, <3>1
    <3>2. CASE i = l BY <1>0, <1>4, <1>5, <2>1, <3>2
    <3> QED BY <1>8, <3>1, <3>2
  <2>3. y[i + 1] = key[mem[q + i]]
    <3>1. CASE i < m BY <1>4, <2>1, <3>1
    <3>2. CASE i = m BY <1>0, <1>4, <1>5, <2>1, <3>2
    <3> QED BY <1>8, <3>1, <3>2
  <2> QED BY <2>1, <2>2, <2>3
<1>9. ASSUME NEW i \in F
      PROVE  i + 1 \in 1 .. N /\ x[i + 1] # y[i + 1] /\ \A j \in 1 .. i : x[j] = y[j]
  <2>1. /\ i \in Nat /\ i \in 0 .. n - 1 /\ key[mem[p + i]] # key[mem[q + i]]
        /\ \A k \in 0 .. i - 1 : key[mem[p + k]] = key[mem[q + k]] /\ mem[p + k] # 0
    BY <1>6, <1>7
  <2>2. i <= l
    <3> SUFFICES ASSUME l < i PROVE FALSE BY <2>1
    <3>1. l \in 0 .. i - 1 /\ l < n BY <2>1
    <3> QED BY <1>5, <2>1, <3>1
  <2>3. i <= m
    <3> SUFFICES ASSUME m < i PROVE FALSE BY <2>1
    <3>1. m \in 0 .. i - 1 /\ m < n /\ m < l /\ m \in 0 .. N - 1 BY <1>2, <2>1, <2>2
    <3>2. key[mem[p + m]] \in 1 .. 3 BY <1>4, <3>1
    <3>3. key[mem[q + m]] = 0 BY <1>0, <1>5, <3>1
    <3> QED BY <2>1, <3>1, <3>2, <3>3
  <2>4. i \in 0 .. N - 1 /\ x[i + 1] # y[i + 1] BY <1>8, <2>1, <2>2, <2>3
  <2>5. ASSUME NEW j \in 1 .. i PROVE x[j] = y[j]
    <3>1. j - 1 \in 0 .. i - 1 /\ j - 1 \in 0 .. n - 1 /\ j - 1 <= l /\ j - 1 <= m /\ (j - 1) + 1 = j
      BY <2>1, <2>2, <2>3
    <3> QED BY <1>8, <2>1, <3>1
  <2> QED BY <1>4, <2>4, <2>5
<1>10. ASSUME NEW d \in 1 .. N, x[d] # y[d], \A j \in 1 .. d - 1 : x[j] = y[j]
       PROVE  d - 1 \in F /\ x[d] = key[mem[p + (d - 1)]] /\ y[d] = key[mem[q + (d - 1)]]
  <2> DEFINE i == d - 1
  <2>1. i \in Nat /\ i \in 0 .. N - 1 /\ i + 1 = d /\ d - 1 = i BY <1>2
  <2> HIDE DEF i
  <2>2. ~(i >= l /\ i >= m)
    <3> SUFFICES ASSUME i >= l, i >= m PROVE FALSE OBVIOUS
    <3>1. x[d] = 0 /\ y[d] = 0 BY <1>4, <2>1
    <3> QED BY <1>10, <3>1
  <2>3. ASSUME NEW k \in 0 .. i - 1 PROVE k < l /\ k < m /\ x[k + 1] = y[k + 1]
    <3>1. k \in 0 .. N - 1 /\ k + 1 \in 1 .. d - 1 /\ k < i BY <1>2, <2>1
    <3>2. x[k + 1] = y[k + 1] BY <1>10, <3>1
    <3>3. ASSUME k >= l PROVE FALSE
      <4>1. CASE k < m
        <5>1. x[k + 1] = 0 /\ y[k + 1] \in 1 .. 3 BY <1>4, <3>1, <3>3, <4>1
        <5> QED BY <3>2, <5>1
      <4>2. CASE k >= m BY <2>1, <2>2, <3>1, <3>3, <4>2
      <4> QED BY <4>1, <4>2
    <3>4. ASSUME k >= m PROVE FALSE
      <4>1. CASE k < l
        <5>1. y[k + 1] = 0 /\ x[k + 1] \in 1 .. 3 BY <1>4, <3>1, <3>4, <4>1
        <5> QED BY <3>2, <5>1
      <4>2. CASE k >= l BY <3>3, <4>2
      <4> QED BY <4>1, <4>2
    <3> QED BY <3>2, <3>3, <3>4
  <2>4. i <= l /\ i <= m
    <3>1. CASE i = 0 BY <3>1
    <3>2. CASE i # 0
      <4>1. i - 1 \in 0 .. i - 1 BY <2>1, <3>2
      <4>2. i - 1 < l /\ i - 1 < m BY <2>3, <4>1
      <4> QED BY <2>1, <4>2
    <3> QED BY <3>1, <3>2
  <2>5. i < n
    <3>1. i <= n BY <1>5, <2>1, <2>4
    <3>2. i # n BY <1>5, <2>1, <2>2, <2>4
    <3> QED BY <2>1, <3>1, <3>2
  <2>6. i \in 0 .. n - 1 BY <2>1, <2>5
  <2>7. x[d] = key[mem[p + i]] /\ y[d] = key[mem[q + i]] BY <1>8, <2>1, <2>4, <2>6
  <2>8. ASSUME NEW k \in 0 .. i - 1 PROVE key[mem[p + k]] = key[mem[q + k]] /\ mem[p + k] # 0
    <3>1. k \in 0 .. N - 1 /\ k < l /\ k < m /\ x[k + 1] = y[k + 1] BY <1>2, <2>1, <2>3
    <3> QED BY <1>4, <3>1
  <2>9. i \in F BY <1>6, <1>10, <2>1, <2>6, <2>7, <2>8
  <2> QED BY <2>1, <2>7, <2>9
<1>11. CompareBlocks(x, y) = SignOf(mem, p, q, n, TRUE, key)
  <2> DEFINE stops == TRUE
  <2>1. Decides(F, x, y, N, mem, p, q, key) BY <1>9, <1>10 DEF Decides
  <2>2. F = FirstDifference(mem, p, q, n, stops, key) BY DEF F
  <2> HIDE DEF stops
  <2>3. Decides(FirstDifference(mem, p, q, n, stops, key), x, y, N, mem, p, q, key)
    BY <2>1, <2>2
  <2>4. CompareBlocks(x, y) = SignOf(mem, p, q, n, stops, key)
    BY <1>2, <1>3, <2>3, DifferenceDecides
  <2> QED BY <2>4 DEF stops
<1> QED BY <1>1, <1>11 DEF StringSign

LEMMA Keys ==
  /\ IsKey(Plain) /\ IsKey(Lower)
  /\ \A c \in 0 .. 3 : Plain[c] = c /\ Lower[c] = Fold(c)
BY DEF Plain, Lower, Fold, IsKey

LEMMA KeptFolded ==
  ASSUME NEW mem, NEW p \in Nat, NEW n \in Nat, NEW l \in Nat, Shown(mem, p, n, l),
         NEW s, BufferedAs(s, mem, p, l, Plain)
  PROVE  BufferedAs(Folded(s), mem, p, l, Lower)
<1>1. s \in Seq(0 .. 3) /\ Len(s) = l /\ \A i \in 0 .. l - 1 : s[i + 1] = Plain[mem[p + i]]
  BY DEF BufferedAs
<1>2. DOMAIN s = 1 .. l BY <1>1
<1>3. Folded(s) = [i \in 1 .. l |-> Fold(s[i])] BY <1>2 DEF Folded
<1>4. \A i \in 1 .. l : s[i] \in 0 .. 3 BY <1>1
<1>5. \A c \in 0 .. 3 : Fold(c) \in 0 .. 3 BY DEF Fold
<1>6. Folded(s) \in Seq(0 .. 3) /\ Len(Folded(s)) = l BY <1>3, <1>4, <1>5
<1>7. ASSUME NEW i \in 0 .. l - 1 PROVE Folded(s)[i + 1] = Lower[mem[p + i]]
  <2>1. i + 1 \in 1 .. l /\ mem[p + i] \in 0 .. 3 BY DEF Shown
  <2>2. Folded(s)[i + 1] = Fold(s[i + 1]) BY <1>3, <2>1
  <2> QED BY <1>1, <2>1, <2>2, Keys
<1> QED BY <1>6, <1>7 DEF BufferedAs

\* What strcmp and strcasecmp read is compared as it is.
LEMMA WholeStringKept ==
  ASSUME NEW mem, Memory(mem), NEW p \in Nat, IsString(mem, p), LengthOf(mem, p) < StrCap,
         NEW s \in ReadStr(mem, p, StrCap)
  PROVE  /\ LengthOf(mem, p) \in Nat
         /\ Shown(mem, p, Cardinality(DOMAIN mem), LengthOf(mem, p))
         /\ BufferedAs(s, mem, p, LengthOf(mem, p), Plain)
<1> DEFINE l == LengthOf(mem, p)
           n == Cardinality(DOMAIN mem)
<1>1. l \in Nat /\ n \in Nat /\ l + 1 <= n BY StringLength
<1>2. /\ s \in Seq(0 .. 3) /\ Len(s) = l /\ mem[p + l] = 0
      /\ \A i \in 0 .. l - 1 : s[i + 1] = mem[p + i] /\ mem[p + i] \in 1 .. 3
  BY ReadFacts, CStringAssumption
<1> HIDE DEF l, n
<1>3. Shown(mem, p, n, l)
  <2>1. l \in 0 .. n /\ mem[p + l] = 0 BY <1>1, <1>2
  <2>2. \A i \in 0 .. l - 1 : mem[p + i] \in 1 .. 3 BY <1>2
  <2> QED BY <2>1, <2>2 DEF Shown
<1>4. BufferedAs(s, mem, p, l, Plain)
  <2>1. \A i \in 0 .. l - 1 : s[i + 1] = Plain[mem[p + i]] BY <1>2, Keys
  <2> QED BY <1>2, <2>1 DEF BufferedAs
<1> QED BY <1>1, <1>3, <1>4 DEF l, n

\* So is what strncmp and strncasecmp read, up to the end of the string or the count.
LEMMA FirstBytesKept ==
  ASSUME NEW mem, Memory(mem), NEW p \in Nat, NEW n \in Nat, n <= StrCap, Mapped(mem, p, n)
  PROVE  \E l \in Nat : Shown(mem, p, n, l) /\ BufferedAs(FirstBytes(mem, p, n), mem, p, l, Plain)
<1> DEFINE s == Bytes(mem, p, n)
           Ends == {i \in DOMAIN s : s[i] = NUL}
<1>1. FirstBytes(mem, p, n) = UpToNul(s)
  <2>1. Least(n, StrCap) = n BY CStringAssumption DEF Least
  <2> QED BY <2>1 DEF FirstBytes
<1>2. /\ s \in Seq(0 .. 3) /\ Len(s) = n
      /\ \A i \in 1 .. n : s[i] = mem[p + i - 1] /\ mem[p + i - 1] \in 0 .. 3
  BY BytesFacts
<1> HIDE DEF s
<1>3. DOMAIN s = 1 .. n BY <1>2
<1>4. \A i \in 0 .. n - 1 : i + 1 \in 1 .. n /\ s[i + 1] = mem[p + i] /\ mem[p + i] \in 0 .. 3
  <2> TAKE i \in 0 .. n - 1
  <2>1. i + 1 \in 1 .. n /\ p + (i + 1) - 1 = p + i OBVIOUS
  <2> QED BY <1>2, <2>1
<1>5. CASE Ends = {}
  <2>1. UpToNul(s) = s BY <1>5 DEF UpToNul
  <2>2. \A i \in 0 .. n - 1 : mem[p + i] \in 1 .. 3
    <3> TAKE i \in 0 .. n - 1
    <3>1. s[i + 1] # 0 BY <1>3, <1>4, <1>5 DEF NUL
    <3> QED BY <1>4, <3>1
  <2>3. Shown(mem, p, n, n) BY <2>2 DEF Shown
  <2>4. \A i \in 0 .. n - 1 : s[i + 1] = Plain[mem[p + i]] BY <1>4, Keys
  <2>5. BufferedAs(UpToNul(s), mem, p, n, Plain) BY <1>2, <2>1, <2>4 DEF BufferedAs
  <2> QED BY <1>1, <2>3, <2>5
<1>6. CASE Ends # {}
  <2>1. Ends \subseteq Nat BY <1>3
  <2> DEFINE e == Min(Ends)
             l == e - 1
  <2>2. e \in Ends /\ e \in Nat /\ \A i \in Ends : e <= i
    <3> HIDE DEF Ends
    <3> QED BY <1>6, <2>1, MinFacts
  <2>3. UpToNul(s) = SubSeq(s, 1, l) BY <1>6 DEF UpToNul
  <2>4. e \in 1 .. n /\ s[e] = 0 BY <1>3, <2>2 DEF NUL
  <2>5. \A i \in 1 .. e - 1 : s[i] # 0
    <3> SUFFICES ASSUME NEW i \in 1 .. e - 1, s[i] = 0 PROVE FALSE OBVIOUS
    <3>1. i \in Ends BY <1>3, <2>4 DEF NUL
    <3>2. e <= i BY <2>2, <3>1
    <3> QED BY <2>4, <3>2
  <2> HIDE DEF e
  <2>6. l \in Nat /\ l < n /\ l + 1 = e BY <2>4
  <2> HIDE DEF l
  <2>7. /\ SubSeq(s, 1, l) \in Seq(0 .. 3) /\ Len(SubSeq(s, 1, l)) = l
        /\ \A i \in 1 .. l : SubSeq(s, 1, l)[i] = s[i]
    BY <1>2, <2>6
  <2>8. \A i \in 0 .. l - 1 : mem[p + i] \in 1 .. 3 /\ SubSeq(s, 1, l)[i + 1] = mem[p + i]
    <3> TAKE i \in 0 .. l - 1
    <3>1. i \in 0 .. n - 1 /\ i + 1 \in 1 .. l /\ i + 1 \in 1 .. e - 1 BY <2>6
    <3>2. s[i + 1] # 0 BY <2>5, <3>1
    <3> QED BY <1>4, <2>7, <3>1, <3>2
  <2>9. mem[p + l] = 0
    <3>1. l \in 0 .. n - 1 BY <2>6
    <3> QED BY <1>4, <2>4, <2>6, <3>1
  <2>10. Shown(mem, p, n, l) BY <2>6, <2>8, <2>9 DEF Shown
  <2>11. \A i \in 0 .. l - 1 : SubSeq(s, 1, l)[i + 1] = Plain[mem[p + i]]
    <3> TAKE i \in 0 .. l - 1
    <3>1. mem[p + i] \in 1 .. 3 /\ SubSeq(s, 1, l)[i + 1] = mem[p + i] BY <2>8
    <3>2. mem[p + i] \in 0 .. 3 BY <3>1
    <3> QED BY ONLY <3>1, <3>2, Keys
  <2>12. BufferedAs(UpToNul(s), mem, p, l, Plain) BY <2>3, <2>7, <2>11 DEF BufferedAs
  <2> QED BY <1>1, <2>6, <2>10, <2>12
<1> QED BY <1>5, <1>6

LEMMA ComparisonsAgree ==
  ASSUME NEW mem, Memory(mem), NEW a \in Nat, NEW b \in Nat
  PROVE  /\ IsString(mem, a) /\ IsString(mem, b)
              /\ LengthOf(mem, a) < StrCap /\ LengthOf(mem, b) < StrCap =>
              /\ \A x \in Strcmp(mem, a, b) :
                   x = Returns(StringSign(mem, a, b, Cardinality(DOMAIN mem), Plain), mem)
              /\ \A x \in Strcasecmp(mem, a, b) :
                   x = Returns(StringSign(mem, a, b, Cardinality(DOMAIN mem), Lower), mem)
         /\ \A n \in Nat : n <= StrCap /\ Mapped(mem, a, n) /\ Mapped(mem, b, n) =>
              /\ \A x \in Strncmp(mem, a, b, n) :
                   x = Returns(StringSign(mem, a, b, n, Plain), mem)
              /\ \A x \in Strncasecmp(mem, a, b, n) :
                   x = Returns(StringSign(mem, a, b, n, Lower), mem)
<1>1. ASSUME NEW n \in Nat, NEW l \in Nat, NEW m \in Nat, Shown(mem, a, n, l), Shown(mem, b, n, m),
             NEW s, NEW t, BufferedAs(s, mem, a, l, Plain), BufferedAs(t, mem, b, m, Plain)
      PROVE  /\ CompareStrings(s, t) = StringSign(mem, a, b, n, Plain)
             /\ CompareStrings(Folded(s), Folded(t)) = StringSign(mem, a, b, n, Lower)
  <2>1. CompareStrings(s, t) = StringSign(mem, a, b, n, Plain) BY <1>1, Keys, StringsCompare
  <2>2. BufferedAs(Folded(s), mem, a, l, Lower) /\ BufferedAs(Folded(t), mem, b, m, Lower)
    BY <1>1, KeptFolded
  <2>3. CompareStrings(Folded(s), Folded(t)) = StringSign(mem, a, b, n, Lower)
    BY <1>1, <2>2, Keys, StringsCompare
  <2> QED BY <2>1, <2>3
<1>2. ASSUME IsString(mem, a), IsString(mem, b), LengthOf(mem, a) < StrCap, LengthOf(mem, b) < StrCap,
             NEW s \in ReadStr(mem, a, StrCap), NEW t \in ReadStr(mem, b, StrCap)
      PROVE  /\ CompareStrings(s, t) = StringSign(mem, a, b, Cardinality(DOMAIN mem), Plain)
             /\ CompareStrings(Folded(s), Folded(t)) =
                  StringSign(mem, a, b, Cardinality(DOMAIN mem), Lower)
  <2>1. Cardinality(DOMAIN mem) \in Nat BY FS_CardinalityType DEF Memory
  <2>2. /\ LengthOf(mem, a) \in Nat /\ Shown(mem, a, Cardinality(DOMAIN mem), LengthOf(mem, a))
        /\ BufferedAs(s, mem, a, LengthOf(mem, a), Plain)
    BY <1>2, WholeStringKept
  <2>3. /\ LengthOf(mem, b) \in Nat /\ Shown(mem, b, Cardinality(DOMAIN mem), LengthOf(mem, b))
        /\ BufferedAs(t, mem, b, LengthOf(mem, b), Plain)
    BY <1>2, WholeStringKept
  <2> QED BY <1>1, <2>1, <2>2, <2>3
<1>3. ASSUME NEW n \in Nat, n <= StrCap, Mapped(mem, a, n), Mapped(mem, b, n)
      PROVE  /\ CompareStrings(FirstBytes(mem, a, n), FirstBytes(mem, b, n)) =
                  StringSign(mem, a, b, n, Plain)
             /\ CompareStrings(Folded(FirstBytes(mem, a, n)), Folded(FirstBytes(mem, b, n))) =
                  StringSign(mem, a, b, n, Lower)
  <2>1. PICK l \in Nat : Shown(mem, a, n, l) /\ BufferedAs(FirstBytes(mem, a, n), mem, a, l, Plain)
    BY <1>3, FirstBytesKept
  <2>2. PICK m \in Nat : Shown(mem, b, n, m) /\ BufferedAs(FirstBytes(mem, b, n), mem, b, m, Plain)
    BY <1>3, FirstBytesKept
  <2> QED BY <1>1, <2>1, <2>2
<1> QED BY <1>2, <1>3 DEF Strcmp, Strcasecmp, Strncmp, Strncasecmp

-----------------------------------------------------------------------------
LEMMA MemchrAgrees ==
  ASSUME NEW mem, Memory(mem), NEW a \in Nat, NEW c, NEW n \in Nat, Mapped(mem, a, n), n <= BlockCap,
         NEW x \in Memchr(mem, a, c, n)
  PROVE  x = Returns(Lowest({p \in a .. a + n - 1 : mem[p] = c}), mem)
<1> DEFINE s == Bytes(mem, a, n)
           S == {i \in 0 .. Len(s) - 1 : s[i + 1] = c}
           P == {p \in a .. a + n - 1 : mem[p] = c}
<1>1. x = Returns(FirstAt(a, S), mem)
  <2>1. Least(n, BlockCap) = n BY DEF Least
  <2> QED BY <2>1 DEF Memchr, ReadBlock
<1>2. Len(s) = n /\ \A i \in 1 .. n : s[i] = mem[a + i - 1] BY BytesFacts
<1> HIDE DEF s
<1>3. ASSUME NEW i \in 0 .. n - 1 PROVE s[i + 1] = mem[a + i]
  <2>1. i + 1 \in 1 .. n /\ a + (i + 1) - 1 = a + i OBVIOUS
  <2> QED BY <1>2, <2>1
<1>4. From(a, S) = P
  <2>1. \A i \in S : a + i \in P BY <1>2, <1>3
  <2>2. ASSUME NEW p \in P PROVE \E i \in S : p = a + i
    <3>1. p - a \in 0 .. n - 1 /\ a + (p - a) = p /\ mem[p] = c OBVIOUS
    <3>2. s[(p - a) + 1] = c BY <1>3, <3>1
    <3>3. p - a \in S BY <1>2, <3>1, <3>2
    <3> QED BY <3>1, <3>3
  <2> QED BY <2>1, <2>2 DEF From
<1>5. S \subseteq Nat OBVIOUS
<1> HIDE DEF S, P
<1> QED BY <1>1, <1>4, <1>5, FirstShifted DEF P

\* What the buffer holds of a string that fits.
Fits(s, mem, p, l) ==
  /\ s \in Seq(0 .. 3) /\ Len(s) = l /\ mem[p + l] = 0
  /\ \A i \in 0 .. l - 1 : s[i + 1] = mem[p + i] /\ mem[p + i] \in 1 .. 3

LEMMA StringFits ==
  ASSUME NEW mem, Memory(mem), NEW p \in Nat, IsString(mem, p), NEW cap \in Nat \ {0},
         LengthOf(mem, p) < cap, NEW s \in ReadStr(mem, p, cap)
  PROVE  LengthOf(mem, p) \in Nat /\ Fits(s, mem, p, LengthOf(mem, p))
<1>1. /\ LengthOf(mem, p) \in Nat /\ s \in Seq(0 .. 3) /\ Len(s) = LengthOf(mem, p)
      /\ \A i \in 0 .. Len(s) - 1 : s[i + 1] = mem[p + i] /\ mem[p + i] \in 1 .. 3
      /\ mem[p + LengthOf(mem, p)] = 0
  BY ReadFacts
<1>2. \A i \in 0 .. LengthOf(mem, p) - 1 : s[i + 1] = mem[p + i] /\ mem[p + i] \in 1 .. 3
  BY <1>1
<1> QED BY <1>1, <1>2 DEF Fits

\* The places, among a string's l bytes, of the ones in E, or out of it; where t begins.
PlacesIn(mem, p, l, E)  == {i \in 0 .. l - 1 : mem[p + i] \in E}
PlacesOut(mem, p, l, E) == {i \in 0 .. l - 1 : mem[p + i] \notin E}
AddressesIn(mem, p, l, E) == {q \in p .. p + l - 1 : mem[q] \in E}
Occurrences(mem, a, l, b, m) ==
  {p \in a .. a + l : p + m <= a + l /\ \A i \in 0 .. m - 1 : mem[p + i] = mem[b + i]}

\* The places of a byte, from the string's start and from the guest's.
LEMMA PlacesFound ==
  ASSUME NEW mem, NEW p \in Nat, NEW l \in Nat, NEW s, Fits(s, mem, p, l), NEW c
  PROVE  /\ Finds(s, c) \subseteq 0 .. l
         /\ From(p, Finds(s, c)) = AddressesIn(mem, p, l + 1, {c})
<1>1. ASSUME NEW i \in 0 .. l
      PROVE  (IF i < Len(s) THEN s[i + 1] ELSE NUL) = mem[p + i]
  <2>1. CASE i < l
    <3>1. i \in 0 .. l - 1 BY <2>1
    <3> QED BY <2>1, <3>1 DEF Fits
  <2>2. CASE i = l BY <2>2 DEF Fits, NUL
  <2> QED BY <2>1, <2>2
<1>2. Finds(s, c) = {i \in 0 .. l : mem[p + i] = c}
  <2>1. Len(s) = l BY DEF Fits
  <2> QED BY <1>1, <2>1 DEF Finds
<1>3. ASSUME NEW q \in p .. p + l PROVE q - p \in 0 .. l /\ p + (q - p) = q
  OBVIOUS
<1>4. \A i \in 0 .. l : p + i \in p .. p + l OBVIOUS
<1>5. p .. p + (l + 1) - 1 = p .. p + l OBVIOUS
<1>6. AddressesIn(mem, p, l + 1, {c}) = {q \in p .. p + l : mem[q] = c} BY <1>5 DEF AddressesIn
<1>7. From(p, Finds(s, c)) = {q \in p .. p + l : mem[q] = c} BY <1>2, <1>3, <1>4 DEF From
<1> QED BY <1>2, <1>6, <1>7

\* The elements of a set given as a string.
LEMMA ElementsAre ==
  ASSUME NEW mem, NEW p \in Nat, LengthOf(mem, p) \in Nat, NEW s, Fits(s, mem, p, LengthOf(mem, p))
  PROVE  Elements(s) = Set(mem, p) /\ Set(mem, p) \subseteq 1 .. 3
<1> DEFINE l == LengthOf(mem, p)
<1>1. /\ DOMAIN s = 1 .. l
      /\ \A i \in 0 .. l - 1 : s[i + 1] = mem[p + i] /\ mem[p + i] \in 1 .. 3
  BY DEF Fits
<1>2. Set(mem, p) = {mem[q] : q \in p .. p + l - 1} BY DEF Set, Body
<1>3. l \in Nat OBVIOUS
<1> HIDE DEF l
<1>4. ASSUME NEW q \in p .. p + l - 1
      PROVE  mem[q] \in 1 .. 3 /\ \E i \in 1 .. l : s[i] = mem[q]
  <2>1. q - p \in 0 .. l - 1 /\ p + (q - p) = q /\ (q - p) + 1 \in 1 .. l BY <1>3
  <2>2. s[(q - p) + 1] = mem[q] /\ mem[q] \in 1 .. 3 BY <1>1, <2>1
  <2> QED BY <2>1, <2>2
<1>5. ASSUME NEW i \in 1 .. l PROVE \E q \in p .. p + l - 1 : s[i] = mem[q]
  <2>1. i - 1 \in 0 .. l - 1 /\ (i - 1) + 1 = i /\ p + (i - 1) \in p .. p + l - 1 BY <1>3
  <2>2. s[i] = mem[p + (i - 1)] BY <1>1, <2>1
  <2> QED BY <2>1, <2>2
<1>6. Elements(s) = {s[i] : i \in 1 .. l} BY <1>1 DEF Elements
<1>7. {s[i] : i \in 1 .. l} = {mem[q] : q \in p .. p + l - 1} BY <1>4, <1>5
<1>8. {mem[q] : q \in p .. p + l - 1} \subseteq 1 .. 3 BY <1>4
<1> QED BY <1>2, <1>6, <1>7, <1>8

\* The places of bytes in a set, or out of it.
LEMMA PlacesInSet ==
  ASSUME NEW mem, NEW p \in Nat, NEW l \in Nat, NEW s, Fits(s, mem, p, l), NEW t
  PROVE  /\ InSet(s, t) = PlacesIn(mem, p, l, Elements(t))
         /\ OutOfSet(s, t) = PlacesOut(mem, p, l, Elements(t))
         /\ From(p, InSet(s, t)) = AddressesIn(mem, p, l, Elements(t))
<1>1. Len(s) = l /\ \A i \in 0 .. l - 1 : s[i + 1] = mem[p + i] BY DEF Fits
<1>2. InSet(s, t) = PlacesIn(mem, p, l, Elements(t)) BY <1>1 DEF InSet, PlacesIn
<1>3. OutOfSet(s, t) = PlacesOut(mem, p, l, Elements(t)) BY <1>1 DEF OutOfSet, PlacesOut
<1>4. ASSUME NEW q \in p .. p + l - 1 PROVE q - p \in 0 .. l - 1 /\ p + (q - p) = q
  OBVIOUS
<1>5. \A i \in 0 .. l - 1 : p + i \in p .. p + l - 1 OBVIOUS
<1>6. From(p, InSet(s, t)) = AddressesIn(mem, p, l, Elements(t))
  BY <1>2, <1>4, <1>5 DEF From, PlacesIn, AddressesIn
<1> QED BY <1>2, <1>3, <1>6

\* How many bytes a string begins with before the first of S: as many as are all outside it.
LEMMA SpanIs ==
  ASSUME NEW mem, NEW p \in Nat, NEW l \in Nat, l = LengthOf(mem, p), NEW R, NEW S,
         S = PlacesOut(mem, p, l, R)
  PROVE  Min(S \cup {l}) = Span(mem, p, R)
<1> DEFINE T == S \cup {l}
           K == {k \in 0 .. l : \A i \in 0 .. k - 1 : mem[p + i] \in R}
<1>0. S = {i \in 0 .. l - 1 : mem[p + i] \notin R} BY DEF PlacesOut
<1>1. T \subseteq Nat /\ T # {} BY <1>0
<1> DEFINE m == Min(T)
<1>2. m \in T /\ m \in Nat /\ \A e \in T : m <= e
  <2> HIDE DEF T
  <2> QED BY <1>1, MinFacts
<1> HIDE DEF m
<1>3. m \in 0 .. l BY <1>0, <1>2
<1>4. m \in K
  <2>1. ASSUME NEW i \in 0 .. m - 1, mem[p + i] \notin R PROVE FALSE
    <3>1. i \in S BY <1>0, <1>3, <2>1
    <3>2. m <= i BY <1>2, <3>1
    <3> QED BY <1>3, <3>2
  <2> QED BY <1>3, <2>1
<1>5. ASSUME NEW k \in K PROVE m >= k
  <2> SUFFICES ASSUME m < k PROVE FALSE BY <1>3
  <2>1. m \in 0 .. k - 1 /\ m # l BY <1>3
  <2>2. m \in S BY <1>2, <2>1
  <2>3. mem[p + m] \in R BY <2>1
  <2> QED BY <1>0, <2>2, <2>3
<1>6. K \subseteq Nat OBVIOUS
<1>7. Max(K) = m
  <2> HIDE DEF K
  <2> QED BY <1>4, <1>5, <1>6, MaxIs
<1> QED BY <1>7 DEF Span, m

\* Where one string begins in another.
LEMMA BeginsWhere ==
  ASSUME NEW mem, NEW a \in Nat, NEW b \in Nat, NEW l \in Nat, NEW m \in Nat,
         NEW s, NEW t, Fits(s, mem, a, l), Fits(t, mem, b, m)
  PROVE  From(a, Begins(s, t)) = Occurrences(mem, a, l, b, m) /\ Begins(s, t) \subseteq Nat
<1> DEFINE P == {p \in a .. a + l : p + m <= a + l /\ \A i \in 0 .. m - 1 : mem[p + i] = mem[b + i]}
<1>1. /\ s \in Seq(0 .. 3) /\ Len(s) = l /\ \A i \in 0 .. l - 1 : s[i + 1] = mem[a + i]
      /\ t \in Seq(0 .. 3) /\ Len(t) = m /\ \A i \in 0 .. m - 1 : t[i + 1] = mem[b + i]
  BY DEF Fits
<1>2. ASSUME NEW i \in 0 .. l - m
      PROVE  SubSeq(s, i + 1, i + m) = t <=> \A j \in 0 .. m - 1 : mem[(a + i) + j] = mem[b + j]
  <2> DEFINE u == SubSeq(s, i + 1, i + m)
  <2>1. u \in Seq(0 .. 3) /\ Len(u) = m /\ \A j \in 1 .. m : u[j] = s[i + j] BY <1>1
  <2> HIDE DEF u
  <2>2. ASSUME NEW j \in 0 .. m - 1
        PROVE  j + 1 \in 1 .. m /\ u[j + 1] = mem[(a + i) + j] /\ t[j + 1] = mem[b + j]
    <3>1. j + 1 \in 1 .. m /\ i + j \in 0 .. l - 1 /\ i + (j + 1) = (i + j) + 1 /\ a + (i + j) = (a + i) + j
      OBVIOUS
    <3>2. u[j + 1] = s[i + (j + 1)] BY <2>1, <3>1
    <3>3. s[i + (j + 1)] = s[(i + j) + 1] BY <3>1
    <3>4. s[(i + j) + 1] = mem[a + (i + j)] BY <1>1, <3>1
    <3>5. mem[a + (i + j)] = mem[(a + i) + j] BY <3>1
    <3>6. t[j + 1] = mem[b + j] BY <1>1
    <3> QED BY <3>1, <3>2, <3>3, <3>4, <3>5, <3>6
  <2>3. ASSUME \A j \in 0 .. m - 1 : mem[(a + i) + j] = mem[b + j] PROVE u = t
    <3>1. ASSUME NEW j \in 1 .. m PROVE u[j] = t[j]
      <4>1. j - 1 \in 0 .. m - 1 /\ (j - 1) + 1 = j OBVIOUS
      <4>2. u[(j - 1) + 1] = t[(j - 1) + 1] BY <2>2, <2>3, <4>1
      <4> QED BY <4>1, <4>2
    <3> QED BY <1>1, <2>1, <3>1
  <2>4. ASSUME u = t PROVE \A j \in 0 .. m - 1 : mem[(a + i) + j] = mem[b + j]
    BY <2>2, <2>4
  <2> QED BY <2>3, <2>4 DEF u
<1>3. Begins(s, t) = {i \in 0 .. l - m : SubSeq(s, i + 1, i + m) = t} BY <1>1 DEF Begins
<1>4. ASSUME NEW i \in Begins(s, t) PROVE a + i \in P
  <2>1. i \in 0 .. l - m /\ SubSeq(s, i + 1, i + m) = t BY <1>3
  <2>2. a + i \in a .. a + l /\ (a + i) + m <= a + l BY <2>1
  <2> QED BY <1>2, <2>1, <2>2
<1>5. ASSUME NEW p \in P PROVE p - a \in Begins(s, t) /\ a + (p - a) = p
  <2>1. p - a \in 0 .. l - m /\ a + (p - a) = p OBVIOUS
  <2>2. \A j \in 0 .. m - 1 : mem[(a + (p - a)) + j] = mem[b + j] BY <2>1
  <2>3. SubSeq(s, (p - a) + 1, (p - a) + m) = t BY <1>2, <2>1, <2>2
  <2> QED BY <1>3, <2>1, <2>3
<1> HIDE DEF P
<1>6. {a + i : i \in Begins(s, t)} = P BY <1>4, <1>5
<1>7. Begins(s, t) \subseteq Nat BY <1>3
<1> QED BY <1>6, <1>7 DEF P, From, Occurrences

LEMMA StrcopyAgrees ==
  ASSUME NEW mem, Memory(mem), NEW a \in Nat, NEW b \in Nat, IsString(mem, b),
         Mapped(mem, a, LengthOf(mem, b) + 1)
  PROVE  LET n == LengthOf(mem, b) + 1
             copy == Overwritten(mem, a, n, Copy(mem, b, n))
         IN  /\ \A x \in Strcpy(mem, a, b) :
                  /\ LengthOf(mem, b) < StrCap => x = Returns(a, copy)
                  /\ MemoryOK(x, mem, a .. a + LengthOf(mem, b))
             /\ \A x \in Stpcpy(mem, a, b) :
                  /\ LengthOf(mem, b) < StrCap => x = Returns(a + LengthOf(mem, b), copy)
                  /\ MemoryOK(x, mem, a .. a + LengthOf(mem, b))
<1> DEFINE l == LengthOf(mem, b)
           n == l + 1
           copy == Overwritten(mem, a, n, Copy(mem, b, n))
<1>1. l \in Nat /\ n \in Nat /\ n = l + 1 /\ a + n - 1 = a + l
  <2>1. l \in Nat BY StringLength
  <2> HIDE DEF l
  <2> QED BY <2>1
<1>2. Mapped(mem, a, n) OBVIOUS
<1>3. ASSUME NEW s \in ReadStr(mem, b, StrCap)
      PROVE  /\ l < StrCap => Len(s) = l /\ Write(mem, a, WithEnd(s)) = copy
             /\ \A q \in DOMAIN mem \ (a .. a + l) : Write(mem, a, WithEnd(s))[q] = mem[q]
  <2> HIDE DEF n
  <2>1. /\ l < StrCap => Len(s) = l /\ Write(mem, a, WithEnd(s)) = copy
        /\ \A q \in DOMAIN mem \ (a .. a + n - 1) : Write(mem, a, WithEnd(s))[q] = mem[q]
    BY <1>1, <1>2, StringCopied
  <2>2. a .. a + n - 1 = a .. a + l BY <1>1
  <2> QED BY <2>1, <2>2
<1> HIDE DEF copy, l
<1>4. ASSUME NEW x \in Strcpy(mem, a, b)
      PROVE  (l < StrCap => x = Returns(a, copy)) /\ MemoryOK(x, mem, a .. a + l)
  <2>1. PICK s \in ReadStr(mem, b, StrCap) : x = Returns(a, Write(mem, a, WithEnd(s))) BY DEF Strcpy
  <2>2. x.mem = Write(mem, a, WithEnd(s)) BY <2>1 DEF Returns
  <2> QED BY <1>3, <2>1, <2>2 DEF MemoryOK
<1>5. ASSUME NEW x \in Stpcpy(mem, a, b)
      PROVE  (l < StrCap => x = Returns(a + l, copy)) /\ MemoryOK(x, mem, a .. a + l)
  <2>1. PICK s \in ReadStr(mem, b, StrCap) : x = Returns(a + Len(s), Write(mem, a, WithEnd(s)))
    BY DEF Stpcpy
  <2>2. x.mem = Write(mem, a, WithEnd(s)) BY <2>1 DEF Returns
  <2> QED BY <1>3, <2>1, <2>2 DEF MemoryOK
<1> QED BY <1>4, <1>5 DEF copy, l

LEMMA StrcatAgrees ==
  ASSUME NEW mem, Memory(mem), NEW a \in Nat, NEW b \in Nat, IsString(mem, a), IsString(mem, b),
         Mapped(mem, a, LengthOf(mem, a) + LengthOf(mem, b) + 1)
  PROVE  LET l == LengthOf(mem, a)
             m == LengthOf(mem, b)
             all == Copy(mem, b, m + 1)
             cut(k) == CutAt(mem, b, k + 1, k)
         IN  /\ \A x \in Strcat(mem, a, b) :
                  /\ l + m + 1 < StrCap => x = Returns(a, Overwritten(mem, a + l, m + 1, all))
                  /\ MemoryOK(x, mem, a .. a + l + m)
             /\ \A n \in Nat : \A x \in Strncat(mem, a, b, n) :
                  /\ l + m + 1 < StrCap =>
                       x = Returns(a, Overwritten(mem, a + l, Least(n, m) + 1, cut(Least(n, m))))
                  /\ MemoryOK(x, mem, a .. a + l + m)
<1> DEFINE l == LengthOf(mem, a)
           m == LengthOf(mem, b)
           all == Copy(mem, b, m + 1)
           cut(k) == CutAt(mem, b, k + 1, k)
           joined == Overwritten(mem, a + l, m + 1, all)
           some(k) == Overwritten(mem, a + l, k + 1, cut(k))
<1>1. ASSUME NEW n \in Nat, NEW x \in ReadStr(mem, a, StrCap), NEW s \in ReadStr(mem, b, StrCap)
      PROVE  LET t == SubSeq(s, 1, Least(n, Len(s)))
             IN  /\ \A q \in DOMAIN mem \ (a .. a + l + m) : Write(mem, a, Joined(x, t))[q] = mem[q]
                 /\ \A q \in DOMAIN mem \ (a .. a + l + m) : Write(mem, a, Joined(x, s))[q] = mem[q]
                 /\ l + m + 1 < StrCap => Write(mem, a, Joined(x, t)) = some(Least(n, m))
                 /\ l + m + 1 < StrCap => Write(mem, a, Joined(x, s)) = joined
  BY Appended
<1> HIDE DEF l, m, joined, some
<1>2. ASSUME NEW r \in Strcat(mem, a, b)
      PROVE  (l + m + 1 < StrCap => r = Returns(a, joined)) /\ MemoryOK(r, mem, a .. a + l + m)
  <2>1. PICK x \in ReadStr(mem, a, StrCap), s \in ReadStr(mem, b, StrCap) :
           r = Returns(a, Write(mem, a, Joined(x, s)))
    BY DEF Strcat
  <2>2. r.mem = Write(mem, a, Joined(x, s)) BY <2>1 DEF Returns
  <2>3. 0 \in Nat OBVIOUS
  <2>4. /\ \A q \in DOMAIN mem \ (a .. a + l + m) : Write(mem, a, Joined(x, s))[q] = mem[q]
        /\ l + m + 1 < StrCap => Write(mem, a, Joined(x, s)) = joined
    BY <1>1, <2>3
  <2> QED BY <2>1, <2>2, <2>4 DEF MemoryOK
<1>3. ASSUME NEW n \in Nat, NEW r \in Strncat(mem, a, b, n)
      PROVE  /\ l + m + 1 < StrCap => r = Returns(a, some(Least(n, m)))
             /\ MemoryOK(r, mem, a .. a + l + m)
  <2>1. PICK x \in ReadStr(mem, a, StrCap), s \in ReadStr(mem, b, StrCap) :
           r = Returns(a, Write(mem, a, Joined(x, SubSeq(s, 1, Least(n, Len(s))))))
    BY DEF Strncat
  <2>2. r.mem = Write(mem, a, Joined(x, SubSeq(s, 1, Least(n, Len(s))))) BY <2>1 DEF Returns
  <2> QED BY <1>1, <2>1, <2>2 DEF MemoryOK
<1> QED BY <1>2, <1>3 DEF l, m, joined, some

\* What the functions that search a string find.
LEMMA SearchesAgree ==
  ASSUME NEW mem, Memory(mem), NEW a \in Nat, IsString(mem, a), LengthOf(mem, a) < StrCap
  PROVE  /\ \A x \in Strlen(mem, a) : x = Returns(LengthOf(mem, a), mem)
         /\ \A c : \A x \in Strchr(mem, a, c) :
              x = Returns(Lowest({p \in Whole(mem, a) : mem[p] = c}), mem)
         /\ \A c : \A x \in Strrchr(mem, a, c) :
              x = Returns(Highest({p \in Whole(mem, a) : mem[p] = c}), mem)
<1> DEFINE l == LengthOf(mem, a)
<1>1. ASSUME NEW s \in ReadStr(mem, a, StrCap) PROVE l \in Nat /\ Fits(s, mem, a, l)
  BY StringFits, CStringAssumption
<1>2. ASSUME NEW x \in Strlen(mem, a) PROVE x = Returns(LengthOf(mem, a), mem)
  BY <1>1 DEF Strlen, Fits
<1>3. ASSUME NEW s \in ReadStr(mem, a, StrCap), NEW c
      PROVE  /\ FirstAt(a, Finds(s, c)) = Lowest({p \in Whole(mem, a) : mem[p] = c})
             /\ LastAt(a, Finds(s, c)) = Highest({p \in Whole(mem, a) : mem[p] = c})
  <2> DEFINE S == Finds(s, c)
             P == {p \in Whole(mem, a) : mem[p] = c}
  <2>1. l \in Nat /\ Fits(s, mem, a, l) BY <1>1
  <2>2. S \subseteq 0 .. l /\ From(a, S) = AddressesIn(mem, a, l + 1, {c})
    <3> HIDE DEF l
    <3> QED BY <2>1, PlacesFound
  <2>3. From(a, S) = P
    <3>1. AddressesIn(mem, a, l + 1, {c}) = P
      <4>1. a .. a + (l + 1) - 1 = a .. a + l
        <5> HIDE DEF l
        <5> QED BY <2>1
      <4> QED BY <4>1 DEF Whole, AddressesIn
    <3> QED BY <2>2, <3>1
  <2> HIDE DEF S, P, l
  <2>4. S \subseteq Nat /\ \A e \in S : e <= l BY <2>1, <2>2
  <2>5. FirstAt(a, S) = Lowest(P) BY <2>3, <2>4, FirstShifted
  <2>6. LastAt(a, S) = Highest(P) BY <2>1, <2>3, <2>4, LastShifted
  <2> QED BY <2>5, <2>6 DEF S, P
<1> QED BY <1>2, <1>3 DEF Strchr, Strrchr

\* What the functions that search a string for another's bytes find.
LEMMA NeedlesAgree ==
  ASSUME NEW mem, Memory(mem), NEW a \in Nat, NEW b \in Nat, IsString(mem, a), IsString(mem, b),
         LengthOf(mem, a) < StrCap, LengthOf(mem, b) < SetCap
  PROVE  /\ \A x \in Strpbrk(mem, a, b) :
              x = Returns(Lowest({p \in Body(mem, a) : mem[p] \in Set(mem, b)}), mem)
         /\ \A x \in Strspn(mem, a, b) : x = Returns(Span(mem, a, Set(mem, b)), mem)
         /\ \A x \in Strcspn(mem, a, b) : x = Returns(Span(mem, a, (1 .. 3) \ Set(mem, b)), mem)
         /\ \A x \in Strstr(mem, a, b) :
              x = Returns(Lowest({p \in Whole(mem, a) :
                            /\ p + LengthOf(mem, b) <= a + LengthOf(mem, a)
                            /\ \A i \in 0 .. LengthOf(mem, b) - 1 : mem[p + i] = mem[b + i]}), mem)
<1> DEFINE l == LengthOf(mem, a)
           m == LengthOf(mem, b)
           P == {p \in Body(mem, a) : mem[p] \in Set(mem, b)}
           Q == {p \in Whole(mem, a) : p + m <= a + l /\ \A i \in 0 .. m - 1 : mem[p + i] = mem[b + i]}
<1>1. ASSUME NEW s \in ReadStr(mem, a, StrCap), NEW t \in ReadStr(mem, b, SetCap)
      PROVE  /\ FirstAt(a, InSet(s, t)) = Lowest(P)
             /\ Min(OutOfSet(s, t) \cup {Len(s)}) = Span(mem, a, Set(mem, b))
             /\ Min(InSet(s, t) \cup {Len(s)}) = Span(mem, a, (1 .. 3) \ Set(mem, b))
             /\ FirstAt(a, Begins(s, t)) = Lowest(Q)
  <2> DEFINE E == Elements(t)
  <2>1. l \in Nat /\ Fits(s, mem, a, l) BY StringFits, CStringAssumption
  <2>2. m \in Nat /\ Fits(t, mem, b, m) BY StringFits, CStringAssumption
  <2>3. E = Set(mem, b) BY <2>2, ElementsAre
  <2>4. l = LengthOf(mem, a) OBVIOUS
  <2>5. Whole(mem, a) = a .. a + l /\ Body(mem, a) = a .. a + l - 1 BY DEF Whole, Body
  <2>6. Len(s) = l BY <2>1 DEF Fits
  <2> HIDE DEF l, m
  <2>7. /\ InSet(s, t) = PlacesIn(mem, a, l, Elements(t))
        /\ OutOfSet(s, t) = PlacesOut(mem, a, l, Elements(t))
        /\ From(a, InSet(s, t)) = AddressesIn(mem, a, l, Elements(t))
    BY <2>1, PlacesInSet
  <2>8. FirstAt(a, InSet(s, t)) = Lowest(P)
    <3>1. From(a, InSet(s, t)) = P BY <2>3, <2>5, <2>7 DEF AddressesIn
    <3>2. InSet(s, t) \subseteq Nat BY <2>7 DEF PlacesIn
    <3> HIDE DEF P
    <3> QED BY <3>1, <3>2, FirstShifted
  <2>9. Min(OutOfSet(s, t) \cup {Len(s)}) = Span(mem, a, Set(mem, b))
    <3>1. OutOfSet(s, t) = PlacesOut(mem, a, l, Set(mem, b)) BY <2>3, <2>7
    <3> QED BY <2>1, <2>4, <2>6, <3>1, SpanIs
  <2>10. Min(InSet(s, t) \cup {Len(s)}) = Span(mem, a, (1 .. 3) \ Set(mem, b))
    <3> DEFINE R == (1 .. 3) \ Set(mem, b)
    <3>1. \A i \in 0 .. l - 1 : mem[a + i] \in 1 .. 3 BY <2>1 DEF Fits
    <3>2. InSet(s, t) = PlacesOut(mem, a, l, R) BY <2>3, <2>7, <3>1 DEF PlacesIn, PlacesOut
    <3> HIDE DEF R
    <3>3. Min(InSet(s, t) \cup {l}) = Span(mem, a, R) BY <2>1, <2>4, <3>2, SpanIs
    <3> QED BY <2>6, <3>3 DEF R
  <2>11. FirstAt(a, Begins(s, t)) = Lowest(Q)
    <3>1. From(a, Begins(s, t)) = Occurrences(mem, a, l, b, m) /\ Begins(s, t) \subseteq Nat
      BY <2>1, <2>2, BeginsWhere
    <3>2. Occurrences(mem, a, l, b, m) = Q BY <2>5 DEF Occurrences
    <3> HIDE DEF Q
    <3> QED BY <3>1, <3>2, FirstShifted
  <2> QED BY <2>8, <2>9, <2>10, <2>11
<1> HIDE DEF P, Q
<1>2. ASSUME NEW x \in Strpbrk(mem, a, b) PROVE x = Returns(Lowest(P), mem)
  <2>1. PICK s \in ReadStr(mem, a, StrCap), t \in ReadStr(mem, b, SetCap) :
           x = Returns(FirstAt(a, InSet(s, t)), mem)
    BY DEF Strpbrk
  <2> QED BY <1>1, <2>1
<1>3. ASSUME NEW x \in Strspn(mem, a, b) PROVE x = Returns(Span(mem, a, Set(mem, b)), mem)
  <2>1. PICK s \in ReadStr(mem, a, StrCap), t \in ReadStr(mem, b, SetCap) :
           x = Returns(Min(OutOfSet(s, t) \cup {Len(s)}), mem)
    BY DEF Strspn
  <2> QED BY <1>1, <2>1
<1>4. ASSUME NEW x \in Strcspn(mem, a, b) PROVE x = Returns(Span(mem, a, (1 .. 3) \ Set(mem, b)), mem)
  <2>1. PICK s \in ReadStr(mem, a, StrCap), t \in ReadStr(mem, b, SetCap) :
           x = Returns(Min(InSet(s, t) \cup {Len(s)}), mem)
    BY DEF Strcspn
  <2> QED BY <1>1, <2>1
<1>5. ASSUME NEW x \in Strstr(mem, a, b) PROVE x = Returns(Lowest(Q), mem)
  <2>1. PICK s \in ReadStr(mem, a, StrCap), t \in ReadStr(mem, b, SetCap) :
           x = Returns(FirstAt(a, Begins(s, t)), mem)
    BY DEF Strstr
  <2> QED BY <1>1, <2>1
<1> QED BY <1>2, <1>3, <1>4, <1>5 DEF P, Q

-----------------------------------------------------------------------------
\* What AgreesWithC asks of the result x of a request r.
Agrees(r, x) ==
  /\ WithinCaps(r) => x = Expected(r.mem, r)
  /\ \A q \in DOMAIN r.mem \ Destination(r.mem, r) : x.mem[q] = r.mem[q]

\* The functions that only look leave memory as it is.
LEMMA MemoryKept ==
  ASSUME NEW r \in CRequest, NEW x \in Results(r), r.fn \notin Copying
  PROVE  x.mem = r.mem
<1> DEFINE mem == r.mem
           a == r.a
           b == r.b
           n == r.n
           S == ReadStr(mem, a, StrCap)
<1>1. CASE r.fn \in {"memcmp", "memchr"}
  <2>1. CASE r.fn = "memcmp"
    <3>1. x \in Memcmp(mem, a, b, n) BY <2>1 DEF Results
    <3> QED BY <3>1 DEF Memcmp, Returns
  <2>2. CASE r.fn = "memchr"
    <3>1. x \in Memchr(mem, a, b, n) BY <2>2 DEF Results
    <3>2. PICK y \in ReadBlock(mem, a, Least(n, BlockCap)) :
             x = Returns(FirstAt(a, {i \in 0 .. Len(y) - 1 : y[i + 1] = b}), mem)
      BY <3>1 DEF Memchr
    <3> QED BY <3>2 DEF Returns
  <2> QED BY <1>1, <2>1, <2>2
<1>2. CASE r.fn \in OnString
  <2>1. x \in Strlen(mem, a) \cup Strchr(mem, a, b) \cup Strrchr(mem, a, b)
    BY <1>2 DEF Results, OnString
  <2>2. \E s \in S : x \in {Returns(Len(s), mem), Returns(FirstAt(a, Finds(s, b)), mem),
                            Returns(LastAt(a, Finds(s, b)), mem)}
    BY <2>1 DEF Strlen, Strchr, Strrchr
  <2> QED BY <2>2 DEF Returns
<1>3. CASE r.fn \in {"strcmp", "strcasecmp"}
  <2>1. x \in Strcmp(mem, a, b) \cup Strcasecmp(mem, a, b) BY <1>3 DEF Results
  <2>2. \E s \in S, t \in ReadStr(mem, b, StrCap) :
           x \in {Returns(CompareStrings(s, t), mem), Returns(CompareStrings(Folded(s), Folded(t)), mem)}
    BY <2>1 DEF Strcmp, Strcasecmp
  <2> QED BY <2>2 DEF Returns
<1>4. CASE r.fn \in {"strncmp", "strncasecmp"}
  <2>1. x \in Strncmp(mem, a, b, n) \cup Strncasecmp(mem, a, b, n) BY <1>4 DEF Results
  <2> QED BY <2>1 DEF Strncmp, Strncasecmp, Returns
<1>5. CASE r.fn \in Needles
  <2>1. x \in Strstr(mem, a, b) \cup Strpbrk(mem, a, b) \cup Strspn(mem, a, b) \cup Strcspn(mem, a, b)
    BY <1>5 DEF Results, Needles
  <2>2. ASSUME x \in Strstr(mem, a, b) PROVE x.mem = mem
    <3>1. PICK s \in S, t \in ReadStr(mem, b, SetCap) : x = Returns(FirstAt(a, Begins(s, t)), mem)
      BY <2>2 DEF Strstr
    <3> QED BY <3>1 DEF Returns
  <2>3. ASSUME x \in Strpbrk(mem, a, b) PROVE x.mem = mem
    <3>1. PICK s \in S, t \in ReadStr(mem, b, SetCap) : x = Returns(FirstAt(a, InSet(s, t)), mem)
      BY <2>3 DEF Strpbrk
    <3> QED BY <3>1 DEF Returns
  <2>4. ASSUME x \in Strspn(mem, a, b) PROVE x.mem = mem
    <3>1. PICK s \in S, t \in ReadStr(mem, b, SetCap) : x = Returns(Min(OutOfSet(s, t) \cup {Len(s)}), mem)
      BY <2>4 DEF Strspn
    <3> QED BY <3>1 DEF Returns
  <2>5. ASSUME x \in Strcspn(mem, a, b) PROVE x.mem = mem
    <3>1. PICK s \in S, t \in ReadStr(mem, b, SetCap) : x = Returns(Min(InSet(s, t) \cup {Len(s)}), mem)
      BY <2>5 DEF Strcspn
    <3> QED BY <3>1 DEF Returns
  <2> QED BY <2>1, <2>2, <2>3, <2>4, <2>5
<1>6. \/ r.fn \in {"memcmp", "memchr"} \/ r.fn \in OnString \/ r.fn \in {"strcmp", "strcasecmp"}
      \/ r.fn \in {"strncmp", "strncasecmp"} \/ r.fn \in Needles
  <2>1. r.fn \in Functions BY DEF CRequest
  <2> QED BY <2>1 DEF Functions, Counted, OnString, TwoStrings, Copying, Needles
<1> QED BY <1>1, <1>2, <1>3, <1>4, <1>5, <1>6

LEMMA BlocksAgree ==
  ASSUME NEW r \in CRequest, Memory(r.mem), r.a \in Nat, r.b \in Nat, r.n \in Nat,
         NEW x \in Results(r), Legal(r.mem, r),
         r.fn \in {"memcpy", "memset", "memcmp", "memchr"}
  PROVE  Agrees(r, x)
<1> DEFINE mem == r.mem
           a == r.a
           b == r.b
           n == r.n
<1>1. CASE r.fn = "memcpy"
  <2>1. Mapped(mem, a, n) /\ Mapped(mem, b, n) BY <1>1 DEF Legal, AllMapped, Mapped, TwoStrings
  <2>2. x \in Memcpy(mem, a, b, n) BY <1>1 DEF Results
  <2>3. /\ n <= CopyCap => x = Returns(a, Overwritten(mem, a, n, Copy(mem, b, n)))
        /\ MemoryOK(x, mem, a .. a + n - 1)
    BY <2>1, <2>2, MemcpyAgrees
  <2>4. WithinCaps(r) <=> n <= CopyCap BY <1>1 DEF WithinCaps, OnString, Needles
  <2>5. Expected(mem, r) = Returns(a, Overwritten(mem, a, n, Copy(mem, b, n)))
    BY <1>1 DEF Expected, Copying, MemoryAfter, Returns, Copy
  <2>6. Destination(mem, r) = a .. a + n - 1 BY <1>1 DEF Destination
  <2> QED BY <2>3, <2>4, <2>5, <2>6 DEF Agrees, MemoryOK
<1>2. CASE r.fn = "memset"
  <2>1. Mapped(mem, a, n) BY <1>2 DEF Legal, AllMapped, Mapped, TwoStrings
  <2>2. x \in Memset(mem, a, b, n) BY <1>2 DEF Results
  <2>3. /\ n <= CopyCap => x = Returns(a, Overwritten(mem, a, n, Filled(b, n)))
        /\ MemoryOK(x, mem, a .. a + n - 1)
    BY <2>1, <2>2, MemsetAgrees
  <2>4. WithinCaps(r) <=> n <= CopyCap BY <1>2 DEF WithinCaps, OnString, Needles
  <2>5. Expected(mem, r) = Returns(a, Overwritten(mem, a, n, Filled(b, n)))
    BY <1>2 DEF Expected, Copying, MemoryAfter, Returns, Filled
  <2>6. Destination(mem, r) = a .. a + n - 1 BY <1>2 DEF Destination
  <2> QED BY <2>3, <2>4, <2>5, <2>6 DEF Agrees, MemoryOK
<1>3. CASE r.fn = "memcmp"
  <2>1. Mapped(mem, a, n) /\ Mapped(mem, b, n) BY <1>3 DEF Legal, AllMapped, Mapped, TwoStrings
  <2>2. x \in Memcmp(mem, a, b, n) BY <1>3 DEF Results
  <2>3. n <= BlockCap => x = Returns(SignOf(mem, a, b, n, FALSE, Plain), mem)
    BY <2>1, <2>2, MemcmpAgrees
  <2>4. x.mem = mem BY <1>3, MemoryKept DEF Copying
  <2>5. WithinCaps(r) <=> n <= BlockCap BY <1>3 DEF WithinCaps, OnString, Needles
  <2>6. Expected(mem, r) = Returns(SignOf(mem, a, b, n, FALSE, Plain), mem)
    BY <1>3 DEF Expected, Copying, ValueOf, Returns
  <2> QED BY <2>3, <2>4, <2>5, <2>6 DEF Agrees
<1>4. CASE r.fn = "memchr"
  <2>1. Mapped(mem, a, n) BY <1>4 DEF Legal, AllMapped, Mapped, TwoStrings
  <2>2. x \in Memchr(mem, a, b, n) BY <1>4 DEF Results
  <2>3. n <= BlockCap => x = Returns(Lowest({p \in a .. a + n - 1 : mem[p] = b}), mem)
    BY <2>1, <2>2, MemchrAgrees
  <2>4. x.mem = mem BY <1>4, MemoryKept DEF Copying
  <2>5. WithinCaps(r) <=> n <= BlockCap BY <1>4 DEF WithinCaps, OnString, Needles
  <2>6. Expected(mem, r) = Returns(Lowest({p \in a .. a + n - 1 : mem[p] = b}), mem)
    BY <1>4 DEF Expected, Copying, ValueOf, Returns
  <2> QED BY <2>3, <2>4, <2>5, <2>6 DEF Agrees
<1> QED BY <1>1, <1>2, <1>3, <1>4

LEMMA CopiesAgree ==
  ASSUME NEW r \in CRequest, Memory(r.mem), r.a \in Nat, r.b \in Nat, r.n \in Nat,
         NEW x \in Results(r), Legal(r.mem, r),
         r.fn \in {"strcpy", "stpcpy", "strncpy", "strcat", "strncat"}
  PROVE  Agrees(r, x)
<1> DEFINE mem == r.mem
           a == r.a
           b == r.b
           n == r.n
           l == LengthOf(mem, a)
           m == LengthOf(mem, b)
<1>1. CASE r.fn \in {"strcpy", "stpcpy"}
  <2>1. IsString(mem, b) /\ Mapped(mem, a, m + 1)
    BY <1>1 DEF Legal, AllMapped, Mapped, TwoStrings
  <2> DEFINE copy == Overwritten(mem, a, m + 1, Copy(mem, b, m + 1))
  <2>2. /\ \A y \in Strcpy(mem, a, b) :
              (m < StrCap => y = Returns(a, copy)) /\ MemoryOK(y, mem, a .. a + m)
        /\ \A y \in Stpcpy(mem, a, b) :
              (m < StrCap => y = Returns(a + m, copy)) /\ MemoryOK(y, mem, a .. a + m)
    BY <2>1, StrcopyAgrees
  <2>3. WithinCaps(r) <=> m < StrCap BY <1>1 DEF WithinCaps, OnString, Needles
  <2>4. MemoryAfter(mem, r) = copy BY <1>1 DEF MemoryAfter, Copy
  <2>5. Destination(mem, r) = a .. a + m BY <1>1 DEF Destination
  <2> HIDE DEF copy, m
  <2>6. CASE r.fn = "strcpy"
    <3>1. x \in Strcpy(mem, a, b) BY <2>6 DEF Results
    <3>2. Expected(mem, r) = Returns(a, copy) BY <2>4, <2>6 DEF Expected, Copying, Returns
    <3> QED BY <2>2, <2>3, <2>5, <3>1, <3>2 DEF Agrees, MemoryOK
  <2>7. CASE r.fn = "stpcpy"
    <3>1. x \in Stpcpy(mem, a, b) BY <2>7 DEF Results
    <3>2. Expected(mem, r) = Returns(a + m, copy) BY <2>4, <2>7 DEF Expected, Copying, Returns, m
    <3> QED BY <2>2, <2>3, <2>5, <3>1, <3>2 DEF Agrees, MemoryOK
  <2> QED BY <1>1, <2>6, <2>7
<1>2. CASE r.fn = "strncpy"
  <2>1. IsString(mem, b) /\ Mapped(mem, a, n) BY <1>2 DEF Legal, AllMapped, Mapped, TwoStrings
  <2>2. x \in Strncpy(mem, a, b, n) BY <1>2 DEF Results
  <2>3. /\ n <= StrCap /\ (n = 0 \/ m < n) => x = Returns(a, Overwritten(mem, a, n, CutAt(mem, b, n, m)))
        /\ MemoryOK(x, mem, a .. a + n - 1)
    BY <2>1, <2>2, StrncpyAgrees
  <2>4. WithinCaps(r) <=> n <= StrCap /\ (n = 0 \/ m < n) BY <1>2 DEF WithinCaps, OnString, Needles
  <2>5. Expected(mem, r) = Returns(a, Overwritten(mem, a, n, CutAt(mem, b, n, m)))
    BY <1>2 DEF Expected, Copying, MemoryAfter, Returns, CutAt
  <2>6. Destination(mem, r) = a .. a + n - 1 BY <1>2 DEF Destination
  <2> QED BY <2>3, <2>4, <2>5, <2>6 DEF Agrees, MemoryOK
<1>3. CASE r.fn \in {"strcat", "strncat"}
  <2>1. IsString(mem, a) /\ IsString(mem, b) /\ Mapped(mem, a, l + m + 1)
    BY <1>3 DEF Legal, AllMapped, Mapped, TwoStrings
  <2> DEFINE k == Least(n, m)
             all == Overwritten(mem, a + l, m + 1, Copy(mem, b, m + 1))
             cut == Overwritten(mem, a + l, k + 1, CutAt(mem, b, k + 1, k))
  <2>2. /\ \A y \in Strcat(mem, a, b) :
              (l + m + 1 < StrCap => y = Returns(a, all)) /\ MemoryOK(y, mem, a .. a + l + m)
        /\ \A y \in Strncat(mem, a, b, n) :
              (l + m + 1 < StrCap => y = Returns(a, cut)) /\ MemoryOK(y, mem, a .. a + l + m)
    BY <2>1, StrcatAgrees
  <2>3. WithinCaps(r) <=> l + m + 1 < StrCap BY <1>3 DEF WithinCaps, OnString, Needles
  <2>4. Destination(mem, r) = a .. a + l + m BY <1>3 DEF Destination
  <2>5. CASE r.fn = "strcat"
    <3>1. x \in Strcat(mem, a, b) BY <2>5 DEF Results
    <3>2. Expected(mem, r) = Returns(a, all)
      BY <2>5 DEF Expected, Copying, MemoryAfter, Returns, Copy
    <3> HIDE DEF all, l, m
    <3> QED BY <2>2, <2>3, <2>4, <3>1, <3>2 DEF Agrees, MemoryOK
  <2>6. CASE r.fn = "strncat"
    <3>1. x \in Strncat(mem, a, b, n) BY <2>6 DEF Results
    <3>2. Min({n, m}) = k
      <4>1. m \in Nat BY <2>1, StringLength
      <4> HIDE DEF m
      <4>2. {n, m} \subseteq Nat /\ k \in {n, m} /\ \A e \in {n, m} : k <= e BY <4>1 DEF Least
      <4> QED BY <4>2, MinIs
    <3>3. Expected(mem, r) = Returns(a, cut)
      BY <2>6, <3>2 DEF Expected, Copying, MemoryAfter, Returns, CutAt
    <3> HIDE DEF cut, l, m
    <3> QED BY <2>2, <2>3, <2>4, <3>1, <3>3 DEF Agrees, MemoryOK
  <2> QED BY <1>3, <2>5, <2>6
<1> QED BY <1>1, <1>2, <1>3

LEMMA LooksAgree ==
  ASSUME NEW r \in CRequest, Memory(r.mem), r.a \in Nat, r.b \in Nat, r.n \in Nat,
         NEW x \in Results(r), Legal(r.mem, r),
         r.fn \in OnString \cup Needles \cup {"strcmp", "strcasecmp", "strncmp", "strncasecmp"}
  PROVE  Agrees(r, x)
<1> DEFINE mem == r.mem
           a == r.a
           b == r.b
           n == r.n
           l == LengthOf(mem, a)
           m == LengthOf(mem, b)
<1>1. r.fn \notin Copying /\ x.mem = mem BY MemoryKept DEF Copying, OnString, Needles
<1>2. SUFFICES ASSUME WithinCaps(r) PROVE x = Returns(ValueOf(mem, r), mem)
  <2>1. Expected(mem, r) = Returns(ValueOf(mem, r), mem) BY <1>1 DEF Expected, Returns
  <2> QED BY <1>1, <2>1 DEF Agrees
<1>3. CASE r.fn \in OnString
  <2>1. IsString(mem, a) BY <1>3 DEF Legal, OnString, TwoStrings
  <2>2. l < StrCap BY <1>2, <1>3 DEF WithinCaps, OnString, Needles
  <2>3. /\ \A y \in Strlen(mem, a) : y = Returns(l, mem)
        /\ \A y \in Strchr(mem, a, b) : y = Returns(Lowest({p \in Whole(mem, a) : mem[p] = b}), mem)
        /\ \A y \in Strrchr(mem, a, b) : y = Returns(Highest({p \in Whole(mem, a) : mem[p] = b}), mem)
    BY <2>1, <2>2, SearchesAgree
  <2>4. CASE r.fn = "strlen" BY <2>3, <2>4 DEF Results, ValueOf
  <2>5. CASE r.fn = "strchr" BY <2>3, <2>5 DEF Results, ValueOf
  <2>6. CASE r.fn = "strrchr" BY <2>3, <2>6 DEF Results, ValueOf
  <2> QED BY <1>3, <2>4, <2>5, <2>6 DEF OnString
<1>4. CASE r.fn \in Needles
  <2>1. IsString(mem, a) /\ IsString(mem, b) BY <1>4 DEF Legal, Needles, TwoStrings
  <2>2. l < StrCap /\ m < SetCap BY <1>2, <1>4 DEF WithinCaps, OnString, Needles
  <2>3. /\ \A y \in Strpbrk(mem, a, b) :
              y = Returns(Lowest({p \in Body(mem, a) : mem[p] \in Set(mem, b)}), mem)
        /\ \A y \in Strspn(mem, a, b) : y = Returns(Span(mem, a, Set(mem, b)), mem)
        /\ \A y \in Strcspn(mem, a, b) : y = Returns(Span(mem, a, (1 .. 3) \ Set(mem, b)), mem)
        /\ \A y \in Strstr(mem, a, b) :
              y = Returns(Lowest({p \in Whole(mem, a) :
                            p + m <= a + l /\ \A i \in 0 .. m - 1 : mem[p + i] = mem[b + i]}), mem)
    BY <2>1, <2>2, NeedlesAgree
  <2>4. CASE r.fn = "strpbrk" BY <2>3, <2>4 DEF Results, ValueOf
  <2>5. CASE r.fn = "strspn" BY <2>3, <2>5 DEF Results, ValueOf
  <2>6. CASE r.fn = "strcspn" BY <2>3, <2>6 DEF Results, ValueOf
  <2>7. CASE r.fn = "strstr" BY <2>3, <2>7 DEF Results, ValueOf
  <2> QED BY <1>4, <2>4, <2>5, <2>6, <2>7 DEF Needles
<1>5. CASE r.fn \in {"strcmp", "strcasecmp"}
  <2>1. IsString(mem, a) /\ IsString(mem, b) BY <1>5 DEF Legal, TwoStrings
  <2>2. l < StrCap /\ m < StrCap BY <1>2, <1>5 DEF WithinCaps, OnString, Needles
  <2>3. /\ \A y \in Strcmp(mem, a, b) :
              y = Returns(StringSign(mem, a, b, Cardinality(DOMAIN mem), Plain), mem)
        /\ \A y \in Strcasecmp(mem, a, b) :
              y = Returns(StringSign(mem, a, b, Cardinality(DOMAIN mem), Lower), mem)
    BY <2>1, <2>2, ComparisonsAgree
  <2>4. CASE r.fn = "strcmp" BY <2>3, <2>4 DEF Results, ValueOf, StringSign
  <2>5. CASE r.fn = "strcasecmp" BY <2>3, <2>5 DEF Results, ValueOf, StringSign
  <2> QED BY <1>5, <2>4, <2>5
<1>6. CASE r.fn \in {"strncmp", "strncasecmp"}
  <2>1. n <= StrCap /\ Mapped(mem, a, n) /\ Mapped(mem, b, n)
    BY <1>2, <1>6 DEF WithinCaps, OnString, Needles
  <2>2. /\ \A y \in Strncmp(mem, a, b, n) : y = Returns(StringSign(mem, a, b, n, Plain), mem)
        /\ \A y \in Strncasecmp(mem, a, b, n) : y = Returns(StringSign(mem, a, b, n, Lower), mem)
    BY <2>1, ComparisonsAgree
  <2>3. CASE r.fn = "strncmp" BY <2>2, <2>3 DEF Results, ValueOf, StringSign
  <2>4. CASE r.fn = "strncasecmp" BY <2>2, <2>4 DEF Results, ValueOf, StringSign
  <2> QED BY <1>6, <2>3, <2>4
<1> QED BY <1>3, <1>4, <1>5, <1>6

\* A legal call of any of the string functions within the sizes of the host's buffers, on
\* any memory, gives what the C standard says, and one of any size changes no byte outside
\* its destination (hle.c 896-1167).
THEOREM StringsAgree == LibrarySpec => []AgreesWithC
<1> DEFINE Inv == request \in CRequest \cup SelectRequest /\ (Answered => reply \in Results(request))
<1>1. LibraryInit => Inv
  BY DEF LibraryInit, Answered
<1>2. Inv /\ [Answer]_libraryVars => Inv'
  BY DEF Answer, Answered, libraryVars
<1>3. Inv => AgreesWithC
  <2> SUFFICES ASSUME Inv, Answered, OfStandard PROVE Agrees(request, reply)
    BY DEF AgreesWithC, Agrees
  <2> DEFINE r == request
  <2>1. r \in CRequest /\ reply \in Results(r)
    BY DEF OfStandard, SelectRequest
  <2>2. r.fn \in Functions /\ r.mem \in Memories /\ r.a \in Addresses
    BY <2>1 DEF CRequest
  <2>3. r.b \in Addresses \cup Byte /\ r.n \in Lengths \cup {0}
    BY <2>1 DEF CRequest, Byte
  <2>4. Addresses \subseteq Nat BY LibraryAssumption DEF Addresses
  <2>5. Memory(r.mem) /\ r.a \in Nat /\ r.b \in Nat /\ r.n \in Nat
    BY <2>2, <2>3, <2>4, LibraryAssumption DEF Memory, Byte
  <2>6. Legal(r.mem, r) BY DEF OfStandard
  <2>7. \/ r.fn \in {"memcpy", "memset", "memcmp", "memchr"}
        \/ r.fn \in {"strcpy", "stpcpy", "strncpy", "strcat", "strncat"}
        \/ r.fn \in OnString \cup Needles \cup {"strcmp", "strcasecmp", "strncmp", "strncasecmp"}
    BY <2>2 DEF Functions, Counted, OnString, TwoStrings, Needles
  <2> HIDE DEF r
  <2>8. Agrees(r, reply) BY <2>1, <2>5, <2>6, <2>7, BlocksAgree, CopiesAgree, LooksAgree
  <2> QED BY <2>8 DEF r
<1> QED BY <1>1, <1>2, <1>3, PTL DEF LibrarySpec

-----------------------------------------------------------------------------
(***************************************************************************)
(* select: the descriptor the code sees at a bit, and the bit it answers   *)
(* with, are each other's mirror image in a word.                          *)
(***************************************************************************)
LEMMA Quotient ==
  ASSUME NEW d \in Nat \ {0}, NEW q \in Int, NEW r \in 0 .. d - 1
  PROVE  (q * d + r) \div d = q /\ (q * d + r) % d = r
<1> DEFINE x == q * d + r
<1>1. x \in Int /\ x \div d \in Int /\ x % d \in 0 .. d - 1
  OBVIOUS
<1>2. x = d * (x \div d) + (x % d)
  OBVIOUS
<1>3. ASSUME NEW a \in Int, NEW s \in 0 .. d - 1, q * d + r = d * a + s
      PROVE  a = q
  <2>1. CASE a > q
    <3>1. d * (a - q) >= d
      BY <2>1
    <3> QED BY <3>1, <1>3
  <2>2. CASE a < q
    <3>1. d * (q - a) >= d
      BY <2>2
    <3> QED BY <3>1, <1>3
  <2> QED BY <2>1, <2>2
<1>4. x \div d = q
  BY <1>1, <1>2, <1>3
<1>5. x % d = r
  BY <1>1, <1>2, <1>4
<1> QED BY <1>4, <1>5

LEMMA Divided ==
  ASSUME NEW d \in Nat \ {0}, NEW n \in Nat
  PROVE  /\ n \div d \in Nat /\ n % d \in 0 .. d - 1
         /\ n = (n \div d) * d + (n % d)
OBVIOUS

\* The bit at place j of byte k of word q.
BitAt(q, k, j) == q * WordBits + (k * ByteBits + j)

\* The same of a number known by its parts.
LEMMA WordOf ==
  ASSUME NEW q \in Int, NEW d \in Nat \ {0}, NEW r \in 0 .. d - 1, NEW x, x = q * d + r
  PROVE  x \div d = q /\ x % d = r
BY Quotient

LEMMA RestOfWord ==
  ASSUME NEW q \in Nat, NEW r \in 0 .. WordBits - 1, NEW n, n = q * WordBits + r
  PROVE  n % WordBits = r
<1>1. WordBits \in Nat \ {0} /\ q \in Int
  BY FdSetsAssumption DEF WordBits
<1> QED BY <1>1, WordOf

LEMMA Bit ==
  ASSUME NEW q \in Nat, NEW k \in 0 .. 3, NEW j \in 0 .. ByteBits - 1
  PROVE  BitAt(q, k, j) \in Nat /\ Seen(BitAt(q, k, j)) = BitAt(q, 3 - k, j)
<1> DEFINE n == BitAt(q, k, j)
           r == k * ByteBits + j
           p == 4 * q + k
           w == WordBits
<1>1. w \in Nat \ {0} /\ r \in 0 .. w - 1 /\ n = q * w + r /\ q \in Int
  BY FdSetsAssumption DEF WordBits, BitAt
<1>2. n = p * ByteBits + j /\ p \in Int /\ ByteBits \in Nat \ {0} /\ k \in Int
  BY FdSetsAssumption DEF WordBits, BitAt
<1>3. r \div ByteBits = k
  BY <1>2, WordOf
<1>4. r = k * ByteBits + j
  OBVIOUS
<1> HIDE DEF n, r, p, w
<1>5. n % w = r
  BY <1>1, RestOfWord DEF w
<1>6. n % ByteBits = j
  BY <1>2, WordOf
<1>7. Seen(n) = q * w + ((3 - k) * ByteBits + j)
  <2>1. n - (n % w) = q * w /\ q * w \in Int /\ (3 - k) * ByteBits \in Int
    BY <1>1, <1>2, <1>5
  <2>2. Seen(n) = (n - (n % w)) + (3 - (r \div ByteBits)) * ByteBits + (n % ByteBits)
    BY <1>5 DEF Seen, w
  <2> QED BY <2>1, <2>2, <1>3, <1>6
<1>8. n \in Nat
  BY <1>1
<1> QED BY <1>7, <1>8 DEF n, w, BitAt

LEMMA BitParts ==
  ASSUME NEW n \in Nat
  PROVE \E q \in Nat, k \in 0 .. 3, j \in 0 .. ByteBits - 1 : n = BitAt(q, k, j)
<1>1. WordBits \in Nat \ {0}
  BY FdSetsAssumption DEF WordBits
<1>2. PICK q \in Nat, r \in 0 .. WordBits - 1 : n = q * WordBits + r
  BY <1>1, Divided
<1>3. PICK k \in Nat, j \in 0 .. ByteBits - 1 : r = k * ByteBits + j
  <2>1. r \in Nat
    BY <1>1
  <2>2. /\ r \div ByteBits \in Nat /\ r % ByteBits \in 0 .. ByteBits - 1
        /\ r = (r \div ByteBits) * ByteBits + (r % ByteBits)
    BY <2>1, FdSetsAssumption, Divided
  <2> QED BY <2>2
<1>4. k \in 0 .. 3
  <2>1. k * ByteBits < 4 * ByteBits
    BY <1>3, FdSetsAssumption DEF WordBits
  <2>2. CASE k >= 4
    <3>1. (k - 4) * ByteBits >= 0
      BY <2>2, FdSetsAssumption
    <3> QED BY <3>1, <2>1, FdSetsAssumption
  <2> QED BY <2>2
<1> QED BY <1>2, <1>3, <1>4 DEF BitAt

LEMMA SeenTwice == ASSUME NEW n \in Nat PROVE Seen(n) \in Nat /\ Seen(Seen(n)) = n
<1>1. PICK q \in Nat, k \in 0 .. 3, j \in 0 .. ByteBits - 1 : n = BitAt(q, k, j)
  BY BitParts
<1>2. PICK m \in 0 .. 3 : m = 3 - k
  OBVIOUS
<1>3. Seen(n) = BitAt(q, m, j)
  BY <1>1, <1>2, Bit
<1>4. BitAt(q, m, j) \in Nat /\ Seen(BitAt(q, m, j)) = BitAt(q, 3 - m, j)
  BY Bit, Zenon
<1>5. 3 - m = k
  BY <1>2
<1> QED BY <1>1, <1>3, <1>4, <1>5

\* The bits of an answer are those of descriptors asked about, one for each host
\* descriptor that is ready.
LEMMA AnswerFacts ==
  ASSUME NEW slots, Injective(slots),
         NEW asked \in SUBSET (0 .. FdBits - 1), NEW ready \in SUBSET Watched(slots, asked)
  PROVE  /\ AnswerBits(slots, ready) \subseteq asked
         /\ Cardinality(AnswerBits(slots, ready)) = Cardinality(ready)
<1> DEFINE bits == AnswerBits(slots, ready)
<1>1. FdBits \in Nat /\ Descriptors \subseteq Nat /\ asked \subseteq Nat
  BY FdSetsAssumption DEF Descriptors
<1>2. ASSUME NEW r \in ready
      PROVE  \E n \in asked : Seen(n) \in Descriptors /\ HostOf(slots, Seen(n)) = r /\ r # UNMAPPED
  BY DEF Watched
<1>3. ASSUME NEW b \in bits
      PROVE  /\ b \in asked /\ Seen(b) \in Descriptors
             /\ HostOf(slots, Seen(b)) \in ready /\ HostOf(slots, Seen(b)) # UNMAPPED
  <2>1. PICK g \in Descriptors : b = Seen(g) /\ HostOf(slots, g) \in ready
    BY DEF AnswerBits
  <2>2. PICK n \in asked : /\ Seen(n) \in Descriptors /\ HostOf(slots, Seen(n)) = HostOf(slots, g)
                           /\ HostOf(slots, g) # UNMAPPED
    BY <1>2, <2>1
  <2>3. Seen(n) = g
    BY <2>1, <2>2 DEF Injective
  <2>4. Seen(g) = n /\ Seen(b) = g
    BY <1>1, <2>1, <2>3, SeenTwice
  <2> QED BY <2>1, <2>2, <2>4
<1>4. bits \subseteq asked
  BY <1>3
<1>5. IsFiniteSet(bits)
  <2>1. 0 \in Int /\ FdBits - 1 \in Int
    BY <1>1
  <2>2. IsFiniteSet(0 .. FdBits - 1)
    BY <2>1, FS_Interval
  <2> QED BY <2>2, <1>4, FS_Subset
<1> DEFINE f == [b \in bits |-> HostOf(slots, Seen(b))]
<1>6. f \in Injection(bits, ready)
  <2>1. f \in [bits -> ready]
    BY <1>3
  <2>2. ASSUME NEW b \in bits, NEW c \in bits, f[b] = f[c] PROVE b = c
    <3>1. Seen(b) = Seen(c)
      BY <2>2, <1>3 DEF Injective
    <3>2. b \in Nat /\ c \in Nat
      BY <1>1, <1>4
    <3> QED BY <3>1, <3>2, SeenTwice
  <2> QED BY <2>1, <2>2 DEF Injection, IsInjective
<1>7. f \in Surjection(bits, ready)
  <2>1. f \in [bits -> ready]
    BY <1>3
  <2>2. ASSUME NEW r \in ready PROVE \E b \in bits : f[b] = r
    <3>1. PICK n \in asked : Seen(n) \in Descriptors /\ HostOf(slots, Seen(n)) = r
      BY <1>2
    <3>2. Seen(Seen(n)) = n
      BY <1>1, SeenTwice
    <3>3. n \in bits
      BY <3>1, <3>2 DEF AnswerBits
    <3> QED BY <3>1, <3>3
  <2> QED BY <2>1, <2>2 DEF Surjection
<1>8. ExistsBijection(bits, ready)
  BY <1>6, <1>7 DEF ExistsBijection, Bijection
<1>9. Cardinality(ready) = Cardinality(bits)
  BY <1>5, <1>8, FS_Bijection
<1> QED BY <1>4, <1>9

\* Although select takes the guest's words for bytes, as long as no two numbers share a
\* host descriptor its answer is about descriptors it was asked about and counts them
\* right, for fd_sets and maps of any size (hle.c 540-623).
THEOREM SelectIsAboutAsked ==
  ASSUME NEW slots, Injective(slots), NEW mapped \in SUBSET Directions,
         NEW asked \in [Directions -> SUBSET (0 .. FdBits - 1)],
         NEW answer \in Select(slots, asked, mapped), answer.ret # UNMAPPED
  PROVE  AboutAsked(asked, mapped, answer)
<1> DEFINE question == Question(slots, asked, mapped)
<1>1. PICK ready \in [Directions -> SUBSET (question["read"] \cup question["write"])],
           written \in SUBSET Directions :
        /\ mapped \subseteq written
        /\ \A w \in Directions : ready[w] \subseteq question[w]
        /\ answer = [ret |-> Cardinality(ready["read"]) + Cardinality(ready["write"]),
                     sets |-> [w \in Directions |->
                                IF w \in written THEN AnswerBits(slots, ready[w]) ELSE asked[w]]]
  BY DEF Select
<1>2. ASSUME NEW w \in Directions
      PROVE  answer.sets[w] = IF w \in written THEN AnswerBits(slots, ready[w]) ELSE asked[w]
  BY <1>1
<1>3. ASSUME NEW w \in Directions, w \in mapped
      PROVE  /\ answer.sets[w] \subseteq asked[w]
             /\ Cardinality(answer.sets[w]) = Cardinality(ready[w])
  <2>1. asked[w] \in SUBSET (0 .. FdBits - 1) /\ ready[w] \in SUBSET Watched(slots, asked[w])
    BY <1>1, <1>3 DEF Question
  <2>2. answer.sets[w] = AnswerBits(slots, ready[w])
    BY <1>1, <1>2, <1>3
  <2> QED BY <2>1, <2>2, AnswerFacts
<1>4. ASSUME NEW w \in Directions, w \notin mapped
      PROVE  answer.sets[w] \subseteq asked[w] /\ ready[w] = {}
  <2>1. ready[w] = {}
    BY <1>1, <1>4 DEF Question
  <2>2. AnswerBits(slots, ready[w]) = {}
    BY <2>1 DEF AnswerBits
  <2> QED BY <1>2, <2>1, <2>2
<1> DEFINE Found(w) == IF w \in mapped THEN answer.sets[w] ELSE {}
<1>5. \A w \in Directions : Cardinality(Found(w)) = Cardinality(ready[w])
  BY <1>3, <1>4
<1>6. "read" \in Directions /\ "write" \in Directions
  BY DEF Directions
<1>7. answer.ret = Cardinality(ready["read"]) + Cardinality(ready["write"])
  BY <1>1
<1>8. \A w \in Directions : answer.sets[w] \subseteq asked[w]
  BY <1>3, <1>4
<1>9. answer.ret = Cardinality(Found("read")) + Cardinality(Found("write"))
  BY <1>5, <1>6, <1>7
<1> QED BY <1>8, <1>9 DEF AboutAsked

\* For every call of select, whatever the descriptor map and the host's answer.
THEOREM SelectAnswers == LibrarySpec => []SelectAnswersAsked
<1> DEFINE Inv == request \in CRequest \cup SelectRequest /\ (Answered => reply \in Results(request))
<1>1. LibraryInit => Inv
  BY DEF LibraryInit, Answered
<1>2. Inv /\ [Answer]_libraryVars => Inv'
  BY DEF Answer, Answered, libraryVars
<1>3. Inv => SelectAnswersAsked
  <2> SUFFICES ASSUME Inv, Answered, request.fn = "select", Injective(request.slots),
                      reply.ret # UNMAPPED
               PROVE  AboutAsked(request.asked, request.mapped, reply)
    BY DEF SelectAnswersAsked
  <2>1. request \in SelectRequest
    BY DEF CRequest, SelectRequest, Functions, Counted, OnString, TwoStrings
  <2>2. /\ request.asked \in [Directions -> SUBSET (0 .. FdBits - 1)]
        /\ request.mapped \in SUBSET Directions
    BY <2>1, LibraryAssumption DEF SelectRequest
  <2>3. reply \in Select(request.slots, request.asked, request.mapped)
    BY <2>1 DEF Results, SelectRequest
  <2> QED BY <2>2, <2>3, SelectIsAboutAsked
<1> QED BY <1>1, <1>2, <1>3, PTL DEF LibrarySpec

-----------------------------------------------------------------------------
(***************************************************************************)
(* printf.  As long as the pieces before are understood, the counters of a *)
(* call are where the calling convention has the next argument; the text   *)
(* in obuf is the beginning of what was made.                              *)
(***************************************************************************)
UnderstoodTo(n) == \A j \in 1 .. n : Understood(j)

CountersDue ==
  via = "call" /\ UnderstoodTo(done) =>
    nfloat = FloatDue(done + 1) /\ vi = WordDue(done + 1)

Text ==
  IF done <= Len(format) THEN olen = Lesser(printed, Obuf) /\ buffer = NotWritten
  ELSE buffer = IF printed = 0 THEN NotWritten
                ELSE [chars |-> Lesser(Lesser(printed, Obuf), (gcap - 1) % Word), nul |-> 1]

FormatInv ==
  /\ FormatTypeOK /\ Text /\ ArgumentsMatch
  /\ done < Len(format) => CountersDue

LEMMA NatTimes ==
  ASSUME NEW x \in Nat, NEW y \in Nat
  PROVE  x * y \in Nat /\ (x # 0 /\ y # 0 => x * y # 0)
OBVIOUS

LEMMA FormatFacts ==
  ASSUME FormatTypeOK
  PROVE  /\ Len(format) \in Nat /\ done \in Nat /\ RegWords \in Nat /\ Obuf \in Nat \ {0}
         /\ first \in 0 .. RegWords /\ gcap \in 0 .. Word - 1 /\ Word \in Nat /\ Word > Obuf
         /\ \A k \in 1 .. Len(format) : format[k].kind \in Kinds /\ format[k].len \in Nat
<1>1. format \in Seq([kind : Kinds, len : Nat])
  BY FormatAssumption DEF FormatTypeOK
<1>2. Len(format) \in Nat /\ \A k \in 1 .. Len(format) : format[k] \in [kind : Kinds, len : Nat]
  <2>1. PICK R : R = [kind : Kinds, len : Nat]
    OBVIOUS
  <2>2. format \in Seq(R)
    BY <1>1, <2>1
  <2>3. Len(format) \in Nat /\ \A k \in 1 .. Len(format) : format[k] \in R
    BY <2>2
  <2> QED BY <2>1, <2>3
<1>3. Word \in Nat
  <2>1. Octet \in Nat
    BY FormatAssumption
  <2>2. Octet * Octet \in Nat
    BY <2>1, NatTimes
  <2>3. Octet * Octet * Octet \in Nat
    BY <2>1, <2>2, NatTimes
  <2> QED BY <2>1, <2>3, NatTimes, Zenon DEF Word
<1>4. /\ RegWords \in Nat /\ Obuf \in Nat \ {0} /\ Firsts \subseteq 0 .. RegWords
      /\ Caps \subseteq 0 .. Word - 1 /\ Word > Obuf
  BY FormatAssumption
<1>5. first \in 0 .. RegWords /\ gcap \in 0 .. Word - 1
  BY <1>4, Zenon DEF FormatTypeOK
<1>6. done \in Nat
  BY <1>2 DEF FormatTypeOK
<1>7. \A k \in 1 .. Len(format) : format[k].kind \in Kinds /\ format[k].len \in Nat
  BY <1>2
<1> QED BY <1>2, <1>3, <1>4, <1>5, <1>6, <1>7, Zenon

\* The words of the arguments before the next piece: those before this one, and its own.
LEMMA WordsAdvance ==
  ASSUME NEW k \in Nat \ {0}, IsFiniteSet(WordsBefore(k)), Words(format[k].kind) \in {0, 1, 2}
  PROVE  /\ IsFiniteSet(WordsBefore(k + 1))
         /\ Cardinality(WordsBefore(k + 1)) = Cardinality(WordsBefore(k)) + Words(format[k].kind)
<1> DEFINE S == WordsBefore(k)
           n == Words(format[k].kind)
<1>1. 1 .. (k + 1) - 1 = (1 .. k - 1) \cup {k}
  OBVIOUS
<1>2. WordsBefore(k + 1) = S \cup {x \in {k} \X {1, 2} : x[2] <= n}
  BY <1>1 DEF WordsBefore
<1>3. <<k, 1>> \notin S /\ <<k, 2>> \notin S
  BY DEF WordsBefore
<1>4. CASE n = 0
  <2>1. {x \in {k} \X {1, 2} : x[2] <= n} = {}
    BY <1>4
  <2>2. WordsBefore(k + 1) = WordsBefore(k)
    BY <1>2, <2>1
  <2>3. Cardinality(WordsBefore(k)) \in Nat
    BY FS_CardinalityType
  <2> QED BY <1>4, <2>2, <2>3
<1>5. CASE n = 1
  <2>1. {x \in {k} \X {1, 2} : x[2] <= n} = {<<k, 1>>}
    BY <1>5
  <2>2. WordsBefore(k + 1) = S \cup {<<k, 1>>}
    BY <1>2, <2>1
  <2> QED BY <1>3, <1>5, <2>2, FS_AddElement
<1>6. CASE n = 2
  <2>1. {x \in {k} \X {1, 2} : x[2] <= n} = {<<k, 1>>, <<k, 2>>}
    BY <1>6
  <2>2. PICK T : T = S \cup {<<k, 1>>}
    OBVIOUS
  <2>3. WordsBefore(k + 1) = T \cup {<<k, 2>>} /\ <<k, 2>> \notin T
    BY <1>2, <1>3, <2>1, <2>2
  <2>4. IsFiniteSet(T) /\ Cardinality(T) = Cardinality(S) + 1
    BY <1>3, <2>2, FS_AddElement
  <2>5. /\ IsFiniteSet(WordsBefore(k + 1))
        /\ Cardinality(WordsBefore(k + 1)) = Cardinality(T) + 1
    BY <2>3, <2>4, FS_AddElement
  <2>6. Cardinality(S) \in Nat
    BY FS_CardinalityType
  <2> QED BY <1>6, <2>4, <2>5, <2>6
<1> QED BY <1>4, <1>5, <1>6

LEMMA DoublesAdvance ==
  ASSUME NEW k \in Nat \ {0}
  PROVE  /\ IsFiniteSet(DoublesBefore(k))
         /\ FloatDue(k + 1) = FloatDue(k) + (IF format[k].kind = "dbl" THEN 1 ELSE 0)
<1>1. IsFiniteSet(1 .. k - 1)
  <2>1. PICK m \in Int : m = k - 1
    OBVIOUS
  <2>2. 1 \in Int
    OBVIOUS
  <2> QED BY <2>1, <2>2, FS_Interval
<1>2. IsFiniteSet(DoublesBefore(k)) /\ Cardinality(DoublesBefore(k)) \in Nat
  BY <1>1, FS_Subset, FS_CardinalityType DEF DoublesBefore
<1>3. k \notin DoublesBefore(k)
  BY DEF DoublesBefore
<1>4. DoublesBefore(k + 1) =
        IF format[k].kind = "dbl" THEN DoublesBefore(k) \cup {k} ELSE DoublesBefore(k)
  BY DEF DoublesBefore
<1>5. /\ IsFiniteSet(DoublesBefore(k) \cup {k})
      /\ Cardinality(DoublesBefore(k) \cup {k}) = Cardinality(DoublesBefore(k)) + 1
  BY <1>2, <1>3, FS_AddElement
<1> QED BY <1>2, <1>4, <1>5 DEF FloatDue

LEMMA DueAdvances ==
  ASSUME FormatTypeOK, NEW k \in 1 .. Len(format)
  PROVE  /\ WordDue(k) \in Nat /\ FloatDue(k) \in Nat
         /\ WordDue(k + 1) = WordDue(k) + Words(format[k].kind)
         /\ FloatDue(k + 1) = FloatDue(k) + (IF format[k].kind = "dbl" THEN 1 ELSE 0)
<1>1. k \in Nat \ {0} /\ first \in Nat /\ Words(format[k].kind) \in {0, 1, 2}
  BY FormatFacts DEF Words
<1>2. IsFiniteSet(WordsBefore(k))
  <2>1. PICK m \in Int : m = k - 1
    BY <1>1
  <2>2. 1 \in Int
    OBVIOUS
  <2>3. IsFiniteSet(1 .. k - 1)
    BY <2>1, <2>2, FS_Interval
  <2>4. IsFiniteSet({1, 2})
    <3>1. {1, 2} = 1 .. 2 /\ 2 \in Int
      OBVIOUS
    <3> QED BY <2>2, <3>1, FS_Interval
  <2>5. IsFiniteSet((1 .. k - 1) \X {1, 2})
    BY <2>3, <2>4, FS_Product
  <2> QED BY <2>5, FS_Subset DEF WordsBefore
<1>3. Cardinality(WordsBefore(k)) \in Nat
  BY <1>2, FS_CardinalityType
<1>4. Cardinality(WordsBefore(k + 1)) = Cardinality(WordsBefore(k)) + Words(format[k].kind)
  BY <1>1, <1>2, WordsAdvance
<1>5. FloatDue(k) \in Nat
  BY <1>1, DoublesAdvance, FS_CardinalityType DEF FloatDue
<1>6. FloatDue(k + 1) = FloatDue(k) + (IF format[k].kind = "dbl" THEN 1 ELSE 0)
  BY <1>1, DoublesAdvance
<1> QED BY <1>1, <1>3, <1>4, <1>5, <1>6 DEF WordDue

LEMMA InitFormatInv == FormatInit => FormatInv
<1> SUFFICES ASSUME FormatInit PROVE FormatInv
  OBVIOUS
<1>1. Len(format) \in Nat /\ first \in 0 .. RegWords /\ Obuf \in Nat \ {0} /\ RegWords \in Nat
  <2>1. format \in Seq([kind : Kinds, len : Nat])
    BY FormatAssumption DEF FormatInit
  <2> QED BY <2>1, FormatAssumption DEF FormatInit
<1>5. vi \in Nat
  <2>1. Octet \in Nat \ {0} /\ first \in Nat
    BY <1>1, FormatAssumption
  <2>2. Octet * Octet \in Nat \ {0} /\ Octet * Octet * Octet \in Nat \ {0}
    BY <2>1, NatTimes
  <2>3. \A unit \in Nat \ {0} : (first \div unit) % Octet \in Nat
    BY <2>1
  <2>4. \A x, y \in Nat : x * Octet + y \in Nat
    BY <2>1, NatTimes
  <2>5. Reversed(first) \in Nat
    BY <2>1, <2>2, <2>3, <2>4 DEF Reversed
  <2> QED BY <2>1, <2>5 DEF FormatInit
<1>2. FormatTypeOK /\ Text
  BY <1>1, <1>5 DEF FormatInit, FormatTypeOK, Text, Lesser, NotWritten
<1>3. ArgumentsMatch
  BY DEF FormatInit, ArgumentsMatch, Handled
<1>4. CountersDue
  <2>1. WordsBefore(1) = {} /\ DoublesBefore(1) = {}
    BY DEF WordsBefore, DoublesBefore
  <2>2. WordDue(1) = first /\ FloatDue(1) = 0
    BY <1>1, <2>1, FS_EmptySet DEF WordDue, FloatDue
  <2> QED BY <1>1, <2>2 DEF CountersDue, FormatInit, Lesser
<1> QED BY <1>2, <1>3, <1>4 DEF FormatInv

LEMMA SameFormat ==
  ASSUME input' = input
  PROVE  \A k : /\ Due(k)' = Due(k) /\ (Understood(k)' <=> Understood(k))
                /\ (InRegistersOnly(k)' <=> InRegistersOnly(k))
                /\ WordDue(k)' = WordDue(k) /\ FloatDue(k)' = FloatDue(k)
<1>1. format' = format /\ first' = first
  BY DEF input
<1>2. \A k : WordDue(k)' = WordDue(k) /\ FloatDue(k)' = FloatDue(k)
  BY <1>1 DEF WordDue, FloatDue, WordsBefore, DoublesBefore, Words
<1>3. \A k : Due(k)' = Due(k) /\ (Understood(k)' <=> Understood(k))
  BY <1>1, <1>2 DEF Due, Understood, Words, Passed, Float
<1>4. \A k : InRegistersOnly(k)' <=> InRegistersOnly(k)
  BY <1>3 DEF InRegistersOnly
<1> QED BY <1>2, <1>3, <1>4

\* A piece that is handled brings the text and the count of pieces on.
LEMMA PieceAdded ==
  ASSUME FormatInv, NEW kinds, NEW taken \in Seq(Places), Handles(kinds, taken),
         NEW n \in Nat, ObufAdd(n), vi' \in Nat, over' \in Nat, nfloat' \in Nat
  PROVE  FormatTypeOK' /\ Text'
<1>1. /\ input' = input /\ buffer' = buffer /\ done' = done + 1 /\ done < Len(format)
      /\ reads' = Append(reads, taken) /\ format' = format /\ first' = first /\ via' = via
      /\ gcap' = gcap
  BY DEF Handles, input
<1>2. /\ Len(format) \in Nat /\ done \in Nat /\ Obuf \in Nat /\ printed \in Nat /\ olen \in Nat
      /\ reads \in Seq(Seq(Places)) /\ Len(reads) = done
  <2>1. /\ printed \in Nat /\ olen \in Nat /\ reads \in Seq(Seq(Places))
        /\ Len(reads) = Lesser(done, Len(format))
    <3>1. olen \in 0 .. Obuf /\ printed \in Nat /\ reads \in Seq(Seq(Places))
          /\ Len(reads) = Lesser(done, Len(format))
      BY DEF FormatInv, FormatTypeOK
    <3> QED BY <3>1
  <2>2. Len(format) \in Nat /\ done \in Nat /\ Obuf \in Nat
    BY FormatFacts DEF FormatInv
  <2> QED BY <1>1, <2>1, <2>2 DEF Lesser
<1>3. reads' \in Seq(Seq(Places)) /\ Len(reads') = done'
  BY <1>1, <1>2
<1>4. olen' \in 0 .. Obuf /\ printed' \in Nat /\ olen' = Lesser(printed', Obuf)
  BY <1>1, <1>2 DEF ObufAdd, Lesser, FormatInv, Text
<1> QED BY <1>1, <1>2, <1>3, <1>4, SMTT(20) DEF FormatInv, FormatTypeOK, Text, Lesser, NotWritten

\* Where the next argument is, when there is a next piece.
PlacesDue(k) == nfloat = FloatDue(k) /\ vi = WordDue(k)

\* What a piece takes is what is due to it.
Matches(taken, k) ==
  /\ Located(taken) = Located(Due(k))
  /\ InRegistersOnly(k) => taken = Due(k)

LEMMA PieceMatched ==
  ASSUME FormatInv, NEW kinds, NEW taken, Handles(kinds, taken), NEW k, k = done + 1,
         via = "call" /\ UnderstoodTo(k) => Matches(taken, k) /\ PlacesDue(k + 1)'
  PROVE  ArgumentsMatch' /\ CountersDue'
<1>1. /\ input' = input /\ done' = done + 1 /\ done < Len(format) /\ reads' = Append(reads, taken)
      /\ via' = via
  BY DEF Handles, input
<1>2. /\ Len(format) \in Nat /\ done \in Nat /\ reads \in Seq(Seq(Places)) /\ Len(reads) = done
  <2>1. reads \in Seq(Seq(Places)) /\ Len(reads) = Lesser(done, Len(format))
    BY DEF FormatInv, FormatTypeOK
  <2>2. Len(format) \in Nat /\ done \in Nat
    BY FormatFacts DEF FormatInv
  <2> QED BY <1>1, <2>1, <2>2 DEF Lesser
<1>3. Len(reads') = k /\ reads'[k] = taken /\ \A j \in 1 .. done : reads'[j] = reads[j]
  BY <1>1, <1>2
<1>4. \A m : UnderstoodTo(m)' <=> UnderstoodTo(m)
  BY <1>1, SameFormat DEF UnderstoodTo
<1>5. ASSUME via = "call", NEW m \in 1 .. k, UnderstoodTo(m)
      PROVE  Matches(reads'[m], m)
  <2>1. CASE m = k
    BY <1>3, <1>5, <2>1
  <2>2. CASE m \in 1 .. done
    <3>1. m \in Handled /\ \A j \in 1 .. m : Understood(j)
      BY <1>2, <1>5, <2>2 DEF Handled, UnderstoodTo
    <3>2. Matches(reads[m], m)
      BY <1>5, <3>1 DEF FormatInv, ArgumentsMatch, Matches
    <3> QED BY <1>3, <2>2, <3>2
  <2> QED BY <1>2, <2>1, <2>2
<1>6. ArgumentsMatch'
  <2> SUFFICES ASSUME via = "call", NEW m \in 1 .. k, \A j \in 1 .. m : Understood(j)'
               PROVE  /\ Located(reads'[m]) = Located(Due(m)')
                      /\ InRegistersOnly(m)' => reads'[m] = Due(m)'
    BY <1>1, <1>3 DEF ArgumentsMatch, Handled, Located
  <2>1. UnderstoodTo(m)
    BY <1>1, SameFormat DEF UnderstoodTo
  <2>2. Matches(reads'[m], m)
    BY <1>5, <2>1
  <2> QED BY <1>1, <2>2, SameFormat DEF Matches
<1>7. CountersDue'
  BY <1>1, <1>4 DEF CountersDue, PlacesDue
<1> QED BY <1>6, <1>7

LEMMA PieceFacts ==
  ASSUME FormatInv, done < Len(format), NEW k, k = done + 1
  PROVE  /\ k \in 1 .. Len(format) /\ Piece = format[k]
         /\ via = "call" /\ UnderstoodTo(k) => Understood(k) /\ PlacesDue(k)
<1>1. done \in Nat /\ Len(format) \in Nat
  BY FormatFacts DEF FormatInv
<1>2. UnderstoodTo(k) => UnderstoodTo(done) /\ Understood(k)
  BY <1>1 DEF UnderstoodTo
<1>3. CountersDue
  BY DEF FormatInv
<1> QED BY <1>1, <1>2, <1>3 DEF CountersDue, PlacesDue, Piece

\* What is due after a piece, in terms of what was due before it.
LEMMA NextDue ==
  ASSUME FormatInv, input' = input, NEW k \in 1 .. Len(format),
         vi' = WordDue(k) + Words(format[k].kind),
         nfloat' = FloatDue(k) + (IF format[k].kind = "dbl" THEN 1 ELSE 0)
  PROVE  PlacesDue(k + 1)'
<1>1. WordDue(k + 1) = vi' /\ FloatDue(k + 1) = nfloat'
  BY DueAdvances DEF FormatInv
<1>2. PICK m : m = k + 1
  OBVIOUS
<1>3. WordDue(m)' = vi' /\ FloatDue(m)' = nfloat'
  BY <1>1, <1>2, SameFormat
<1> QED BY <1>2, <1>3 DEF PlacesDue

LEMMA NoArgumentKeeps ==
  ASSUME FormatInv, CopyText
  PROVE  FormatInv'
<1>1. PICK k : k = done + 1
  OBVIOUS
<1>2. /\ Handles(Verbatim, <<>>) /\ done < Len(format) /\ input' = input /\ Piece.kind \in Verbatim
      /\ vi' = vi /\ over' = over /\ nfloat' = nfloat /\ ObufAdd(Piece.len)
  BY DEF CopyText, Handles, NoArgument
<1>3. /\ k \in 1 .. Len(format) /\ Piece = format[k]
      /\ via = "call" /\ UnderstoodTo(k) => Understood(k) /\ PlacesDue(k)
  BY <1>1, <1>2, PieceFacts
<1>4. Piece.len \in Nat /\ vi \in Nat /\ over \in Nat /\ nfloat \in Nat
  BY <1>3, FormatFacts DEF FormatInv, FormatTypeOK
<1>5. FormatTypeOK' /\ Text'
  <2>1. <<>> \in Seq(Places)
    OBVIOUS
  <2> QED BY <1>2, <1>4, <2>1, PieceAdded
<1>6. ASSUME via = "call", UnderstoodTo(k) PROVE Matches(<<>>, k) /\ PlacesDue(k + 1)'
  <2>1. format[k].kind \in {"text", "percent"}
    BY <1>2, <1>3, <1>6 DEF Understood, Verbatim
  <2>2. Words(format[k].kind) = 0 /\ <<>> = Due(k)
    BY <2>1 DEF Words, Due
  <2>3. WordDue(k) \in Nat /\ FloatDue(k) \in Nat
    BY <1>3, DueAdvances DEF FormatInv
  <2>4. /\ vi' = WordDue(k) + Words(format[k].kind)
        /\ nfloat' = FloatDue(k) + (IF format[k].kind = "dbl" THEN 1 ELSE 0)
    BY <1>2, <1>3, <1>6, <2>1, <2>2, <2>3 DEF PlacesDue
  <2>5. PlacesDue(k + 1)'
    BY <1>2, <1>3, <2>4, NextDue
  <2>6. Matches(<<>>, k)
    BY <2>2 DEF Matches
  <2> QED BY <2>5, <2>6
<1>7. ArgumentsMatch' /\ CountersDue'
  BY <1>1, <1>2, <1>6, PieceMatched
<1> QED BY <1>5, <1>7 DEF FormatInv

LEMMA ConversionKeeps ==
  ASSUME FormatInv, NEW kinds, NEW taken \in Seq(Places), Handles(kinds, taken), Converts,
         vi' \in Nat, over' \in Nat, nfloat' \in Nat, NEW k, k = done + 1,
         via = "call" /\ UnderstoodTo(k) => Matches(taken, k) /\ PlacesDue(k + 1)'
  PROVE  FormatInv'
<1>1. PICK n \in 0 .. TmpLen : ObufAdd(n)
  BY DEF Converts
<1>2. n \in Nat
  BY <1>1
<1>3. FormatTypeOK' /\ Text'
  BY <1>1, <1>2, PieceAdded
<1>4. ArgumentsMatch' /\ CountersDue'
  BY PieceMatched
<1> QED BY <1>3, <1>4 DEF FormatInv

\* The types of what the conversions count with, and of where they read.
LEMMA CounterTypes ==
  ASSUME FormatInv
  PROVE  /\ vi \in Nat /\ over \in Nat /\ nfloat \in Nat /\ RegWords \in Nat
         /\ \A x \in Nat : ArgWord(x) \in Places /\ Float(x) \in Places
         /\ \A x \in Nat, area \in {"saved", "overflow", "floats"} : Astray(area, x) \in Places
<1>1. vi \in Nat /\ over \in Nat /\ nfloat \in Nat /\ RegWords \in Nat
  BY FormatAssumption DEF FormatInv, FormatTypeOK
<1>2. \A x \in Nat : ArgWord(x) \in Places /\ Float(x) \in Places
  BY <1>1 DEF ArgWord, Float, Places
<1>3. \A x \in Nat, area \in {"saved", "overflow", "floats"} : Astray(area, x) \in Places
  BY DEF Astray, Places
<1> QED BY <1>1, <1>2, <1>3

\* A word passed in a register is taken as it is, any other from its place.
LEMMA WordFacts ==
  ASSUME NEW w \in Nat
  PROVE  /\ ArgWord(w).from = Passed(w).from /\ ArgWord(w).at = Passed(w).at
         /\ Passed(w).from = "word" /\ Passed(w).at = w
         /\ w < RegWords => ArgWord(w) = Passed(w)
BY FormatAssumption DEF ArgWord, Passed

LEMMA WordTaken ==
  ASSUME FormatInv, CallInt
  PROVE  FormatInv'
<1>1. PICK k : k = done + 1
  OBVIOUS
<1>2. /\ Handles(OneWord, <<ArgWord(vi)>>) /\ done < Len(format) /\ input' = input
      /\ Piece.kind \in OneWord /\ Converts
      /\ vi' = vi + 1 /\ over' = over /\ nfloat' = nfloat
  BY DEF CallInt, Handles, Takes
<1>3. /\ k \in 1 .. Len(format) /\ Piece = format[k]
      /\ via = "call" /\ UnderstoodTo(k) => Understood(k) /\ PlacesDue(k)
  BY <1>1, <1>2, PieceFacts
<1>4. ASSUME via = "call", UnderstoodTo(k)
      PROVE  Matches(<<ArgWord(vi)>>, k) /\ PlacesDue(k + 1)'
  <2>1. format[k].kind \in {"int", "str"}
    BY <1>2, <1>3, <1>4 DEF Understood, OneWord
  <2>2. /\ WordDue(k) \in Nat /\ FloatDue(k) \in Nat /\ vi = WordDue(k) /\ nfloat = FloatDue(k)
    BY <1>3, <1>4, DueAdvances DEF FormatInv, PlacesDue
  <2>3. Words(format[k].kind) = 1 /\ Due(k) = <<Passed(vi)>>
    BY <2>1, <2>2 DEF Words, Due
  <2>4. PlacesDue(k + 1)'
    BY <1>2, <1>3, <2>1, <2>2, <2>3, NextDue
  <2>5. Matches(<<ArgWord(vi)>>, k)
    BY <2>2, <2>3, WordFacts DEF Matches, Located, InRegistersOnly
  <2> QED BY <2>4, <2>5
<1>5. <<ArgWord(vi)>> \in Seq(Places) /\ vi' \in Nat /\ over' \in Nat /\ nfloat' \in Nat
  BY <1>2, CounterTypes
<1> QED BY <1>1, <1>2, <1>4, <1>5, ConversionKeeps

LEMMA StarTaken ==
  ASSUME FormatInv, CallStar
  PROVE  FormatInv'
<1> DEFINE taken == <<ArgWord(vi), ArgWord(vi + 1)>>
<1>1. PICK k : k = done + 1
  OBVIOUS
<1>2. /\ Handles({"star"}, taken) /\ done < Len(format) /\ input' = input
      /\ Piece.kind = "star" /\ Converts
      /\ vi' = vi + 2 /\ over' = over /\ nfloat' = nfloat
  BY DEF CallStar, Handles, Takes
<1>3. /\ k \in 1 .. Len(format) /\ Piece = format[k]
      /\ via = "call" /\ UnderstoodTo(k) => Understood(k) /\ PlacesDue(k)
  BY <1>1, <1>2, PieceFacts
<1>4. ASSUME via = "call", UnderstoodTo(k) PROVE Matches(taken, k) /\ PlacesDue(k + 1)'
  <2>1. format[k].kind = "star"
    BY <1>2, <1>3
  <2>2. /\ WordDue(k) \in Nat /\ FloatDue(k) \in Nat /\ vi = WordDue(k) /\ nfloat = FloatDue(k)
    BY <1>3, <1>4, DueAdvances DEF FormatInv, PlacesDue
  <2>3. Words(format[k].kind) = 2 /\ Due(k) = <<Passed(vi), Passed(vi + 1)>>
    BY <2>1, <2>2 DEF Words, Due
  <2>4. PlacesDue(k + 1)'
    BY <1>2, <1>3, <2>1, <2>2, <2>3, NextDue
  <2>5. Matches(taken, k)
    <3>1. vi + 1 \in Nat /\ vi \in Nat
      BY <2>2
    <3>2. Located(taken) = Located(Due(k))
      BY <2>3, <3>1, WordFacts DEF Located
    <3>3. ASSUME InRegistersOnly(k) PROVE taken = Due(k)
      <4>1. Due(k)[1] = Passed(vi) /\ Due(k)[2] = Passed(vi + 1) /\ DOMAIN Due(k) = {1, 2}
        BY <2>3
      <4>2. vi < RegWords /\ vi + 1 < RegWords
        BY <3>1, <3>3, <4>1, WordFacts DEF InRegistersOnly
      <4> QED BY <2>3, <3>1, <4>2, WordFacts
    <3> QED BY <3>2, <3>3 DEF Matches
  <2> QED BY <2>4, <2>5
<1>5. taken \in Seq(Places) /\ vi' \in Nat /\ over' \in Nat /\ nfloat' \in Nat
  <2>1. vi + 1 \in Nat
    BY CounterTypes
  <2> QED BY <1>2, <2>1, CounterTypes
<1> HIDE DEF taken
<1> QED BY <1>1, <1>2, <1>4, <1>5, ConversionKeeps

\* A lone %lld is not understood: nothing is said of its argument or what follows.
LEMMA LongLongTaken ==
  ASSUME FormatInv, CallLongLong
  PROVE  FormatInv'
<1> DEFINE taken == <<ArgWord(vi + 1), ArgWord(vi)>>
<1>1. PICK k : k = done + 1
  OBVIOUS
<1>2. /\ Handles({"lld"}, taken) /\ done < Len(format) /\ Piece.kind = "lld" /\ Converts
      /\ vi' = vi + 2 /\ over' = over /\ nfloat' = nfloat
  BY DEF CallLongLong, Handles, Takes
<1>3. ~(via = "call" /\ UnderstoodTo(k))
  BY <1>1, <1>2, PieceFacts DEF Understood
<1>4. taken \in Seq(Places) /\ vi' \in Nat /\ over' \in Nat /\ nfloat' \in Nat
  <2>1. vi + 1 \in Nat
    BY CounterTypes
  <2> QED BY <1>2, <2>1, CounterTypes
<1> HIDE DEF taken
<1> QED BY <1>1, <1>2, <1>3, <1>4, ConversionKeeps

LEMMA DoubleTaken ==
  ASSUME FormatInv, CallDouble
  PROVE  FormatInv'
<1>1. PICK k : k = done + 1
  OBVIOUS
<1>2. /\ Handles({"dbl"}, <<Float(nfloat)>>) /\ done < Len(format) /\ input' = input
      /\ Piece.kind = "dbl" /\ Converts
      /\ vi' = vi + 2 /\ over' = over /\ nfloat' = nfloat + 1
  BY DEF CallDouble, Handles
<1>3. /\ k \in 1 .. Len(format) /\ Piece = format[k]
      /\ via = "call" /\ UnderstoodTo(k) => Understood(k) /\ PlacesDue(k)
  BY <1>1, <1>2, PieceFacts
<1>4. ASSUME via = "call", UnderstoodTo(k)
      PROVE  Matches(<<Float(nfloat)>>, k) /\ PlacesDue(k + 1)'
  <2>1. format[k].kind = "dbl" /\ FloatDue(k) < FloatRegs
    BY <1>2, <1>3, <1>4 DEF Understood
  <2>2. /\ WordDue(k) \in Nat /\ FloatDue(k) \in Nat /\ vi = WordDue(k) /\ nfloat = FloatDue(k)
    BY <1>3, <1>4, DueAdvances DEF FormatInv, PlacesDue
  <2>3. Words(format[k].kind) = 2 /\ Due(k) = <<Float(nfloat)>>
    BY <2>1, <2>2 DEF Words, Due
  <2>4. PlacesDue(k + 1)'
    BY <1>2, <1>3, <2>1, <2>2, <2>3, NextDue
  <2>5. Matches(<<Float(nfloat)>>, k)
    BY <2>3 DEF Matches
  <2> QED BY <2>4, <2>5
<1>5. <<Float(nfloat)>> \in Seq(Places) /\ vi' \in Nat /\ over' \in Nat /\ nfloat' \in Nat
  BY <1>2, CounterTypes
<1> QED BY <1>1, <1>2, <1>4, <1>5, ConversionKeeps

\* Of what comes from a va_list nothing is said.
LEMMA VaTaken ==
  ASSUME FormatInv, VaInt \/ VaDouble
  PROVE  FormatInv'
<1>1. PICK k : k = done + 1
  OBVIOUS
<1>2. /\ vi \in Nat /\ over \in Nat /\ nfloat \in Nat
      /\ \A x \in Nat, area \in {"saved", "overflow", "floats"} : Astray(area, x) \in Places
  BY CounterTypes
<1>3. Word \in Nat \ {0}
  BY FormatFacts DEF FormatInv
<1>4. PICK place \in Places :
        /\ \E kinds : Handles(kinds, <<place>>)
        /\ Converts /\ via = "va_list"
        /\ vi' \in Nat /\ over' \in Nat /\ nfloat' \in Nat
  <2>1. CASE VaInt
    <3>1. (IF InRegisters THEN Astray("saved", vi) ELSE Astray("overflow", over)) \in Places
      BY <1>2
    <3> QED BY <1>2, <2>1, <3>1 DEF VaInt
  <2>2. CASE VaDouble
    <3>1. Astray("floats", nfloat) \in Places /\ (vi + 2) % Word \in Nat
      BY <1>2, <1>3
    <3> QED BY <1>2, <2>2, <3>1 DEF VaDouble
  <2> QED BY <2>1, <2>2
<1>5. <<place>> \in Seq(Places)
  BY <1>4
<1>6. PICK kinds : Handles(kinds, <<place>>)
  BY <1>4
<1> QED BY <1>1, <1>4, <1>5, <1>6, ConversionKeeps

\* What fits of the text goes to the guest's buffer, the rest is dropped.
LEMMA TextFlushed ==
  ASSUME FormatInv, Flush
  PROVE  FormatInv'
<1>1. /\ done = Len(format) /\ done' = done + 1 /\ input' = input /\ olen' = 0
      /\ vi' = vi /\ over' = over /\ nfloat' = nfloat /\ reads' = reads /\ printed' = printed
      /\ buffer' = IF olen = 0 THEN buffer ELSE [chars |-> Kept, nul |-> 1]
      /\ format' = format /\ first' = first /\ via' = via /\ gcap' = gcap
  BY DEF Flush, input
<1>2. /\ Len(format) \in Nat /\ Obuf \in Nat \ {0} /\ printed \in Nat /\ gcap \in Nat
      /\ Word \in Nat \ {0}
  <2>1. printed \in Nat
    BY DEF FormatInv, FormatTypeOK
  <2> QED BY <2>1, FormatFacts DEF FormatInv
<1>3. olen = Lesser(printed, Obuf) /\ buffer = NotWritten
  BY <1>1, <1>2 DEF FormatInv, Text
<1>4. PICK room \in Nat : room = (gcap - 1) % Word
  BY <1>2
<1>5. Kept = Lesser(Lesser(printed, Obuf), room) /\ Kept \in 0 .. Obuf
  BY <1>2, <1>3, <1>4 DEF Kept, Lesser
<1>6. olen = 0 <=> printed = 0
  BY <1>2, <1>3 DEF Lesser
<1>7. Text'
  BY <1>1, <1>2, <1>3, <1>4, <1>5, <1>6 DEF Text, NotWritten
<1>8. FormatTypeOK'
  BY <1>1, <1>2, <1>3, <1>5 DEF FormatInv, FormatTypeOK, Lesser, NotWritten
<1>9. ArgumentsMatch'
  BY <1>1, SameFormat DEF FormatInv, ArgumentsMatch, Handled, Located
<1> QED BY <1>1, <1>2, <1>7, <1>8, <1>9 DEF FormatInv

LEMMA AlwaysFormatInv == FormatSpec => []FormatInv
<1>1. FormatInv /\ [FormatNext]_formatVars => FormatInv'
  <2> SUFFICES ASSUME FormatInv, [FormatNext]_formatVars PROVE FormatInv'
    OBVIOUS
  <2>1. CASE UNCHANGED formatVars
    <3>1. input' = input /\ via' = via /\ UNCHANGED formatVars
      BY <2>1 DEF formatVars, input
    <3>2. FormatTypeOK' /\ Text'
      BY <3>1 DEF FormatInv, FormatTypeOK, Text, formatVars, input
    <3>3. ArgumentsMatch'
      BY <3>1, SameFormat DEF FormatInv, ArgumentsMatch, Handled, Located, formatVars
    <3>4. done < Len(format) => CountersDue'
      BY <3>1, SameFormat DEF FormatInv, CountersDue, UnderstoodTo, formatVars
    <3> QED BY <3>1, <3>2, <3>3, <3>4 DEF FormatInv, formatVars
  <2> QED
    BY <2>1, NoArgumentKeeps, WordTaken, StarTaken, LongLongTaken, DoubleTaken, VaTaken,
       TextFlushed DEF FormatNext
<1> QED BY <1>1, InitFormatInv, PTL DEF FormatSpec

\* In a call with its arguments, however integers, strings, widths and doubles are mixed
\* and wherever the registers run out, every directive takes its argument from the place
\* it was passed in, as long as the code understands all up to it, and takes the argument
\* itself if that was passed in registers (hle.c 152-169, 792-875).  It says nothing of a
\* va_list, nor of the bytes of what is taken from the stack: these are reversed.
THEOREM ArgumentsAreTheirs == FormatSpec => []ArgumentsMatch
<1>1. FormatInv => ArgumentsMatch
  BY DEF FormatInv
<1> QED BY <1>1, AlwaysFormatInv, PTL

\* What snprintf leaves in the guest's buffer is the beginning of the text, as much as
\* both buffers hold, and an end (hle.c 363-401).
THEOREM TextIsCutAtTheEnd == FormatSpec => []BufferHoldsText
<1>1. FormatInv => BufferHoldsText
  <2> SUFFICES ASSUME FormatInv, done > Len(format), gcap > 0, printed > 0
               PROVE  buffer = [chars |-> Lesser(printed, Lesser(Obuf, gcap - 1)), nul |-> 1]
    BY DEF BufferHoldsText
  <2>1. gcap \in 1 .. Word - 1 /\ Word \in Nat /\ Obuf \in Nat /\ printed \in Nat /\ printed # 0
        /\ done \in Nat /\ Len(format) \in Nat
    BY FormatFacts DEF FormatInv, FormatTypeOK
  <2>2. (gcap - 1) % Word = gcap - 1
    BY <2>1
  <2>3. Lesser(Lesser(printed, Obuf), gcap - 1) = Lesser(printed, Lesser(Obuf, gcap - 1))
    BY <2>1 DEF Lesser
  <2> QED BY <2>1, <2>2, <2>3 DEF FormatInv, Text
<1> QED BY <1>1, AlwaysFormatInv, PTL

\* However long the text, neither obuf nor the buffer given to snprintf is overrun.
THEOREM BuffersHold == FormatSpec => []BufferSafe
<1>1. FormatInv => BufferSafe
  <2> SUFFICES ASSUME FormatInv, gcap > 0 PROVE buffer.chars + buffer.nul <= gcap
    BY DEF BufferSafe, StaysInBuffer, FormatInv
  <2>1. gcap \in 1 .. Word - 1 /\ Word \in Nat /\ Obuf \in Nat /\ printed \in Nat
        /\ done \in Nat /\ Len(format) \in Nat
    BY FormatFacts DEF FormatInv, FormatTypeOK
  <2>2. (gcap - 1) % Word = gcap - 1
    BY <2>1
  <2> QED BY <2>1, <2>2 DEF FormatInv, Text, NotWritten, Lesser
<1> QED BY <1>1, AlwaysFormatInv, PTL
=============================================================================
