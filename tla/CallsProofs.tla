----------------------------- MODULE CallsProofs -----------------------------
(***************************************************************************)
(* For every size of the stream, of the input and of one transfer, and for *)
(* every error the host may answer with: no byte of the stream is lost,    *)
(* repeated or out of order, a careful guest knows its position, and errno *)
(* changes by a failing call only.                                         *)
(*                                                                         *)
(* For any size of the two descriptor tables: no error path leaves a host  *)
(* descriptor without an owner, and where the host's numbers stay below    *)
(* the sockets' a careful guest's transfers act on what the number was     *)
(* given out for, and no number is given out twice.                        *)
(***************************************************************************)
EXTENDS Calls, FdMap, SequenceTheorems, FiniteSetTheorems, WellFoundedInduction, TLAPS

-----------------------------------------------------------------------------
(***************************************************************************)
(* Words and error numbers.                                                *)
(***************************************************************************)
LEMMA WordFacts ==
  /\ Word \in Nat /\ Word >= 65536 /\ Word \div 2 \in Nat
  /\ Word = 2 * (Word \div 2)
  /\ MaxIo \in Nat /\ InputLen \in Nat /\ StreamLen \in Nat
  /\ MaxIo < Word \div 2 /\ InputLen + 1 < Word \div 2
BY CallsAssumption

LEMMA NegatedWord ==
  ASSUME NEW x \in Nat, 0 < x, x < Word
  PROVE  Negated(x) = Word - x
BY WordFacts DEF Negated

LEMMA NegatedType == ASSUME NEW x \in Int PROVE Negated(x) \in 0 .. Word - 1
BY WordFacts DEF Negated

\* An error number fits in a byte, is negative when negated, and comes back.
LEMMA ErrorWord ==
  ASSUME NEW x \in 1 .. 133
  PROVE  /\ Negated(x) \in 0 .. Word - 1 /\ IsNegative(Negated(x))
         /\ Negated(Negated(x)) = x
<1>1. x \in Nat /\ 0 < x /\ x < Word /\ Negated(x) = Word - x
  BY NegatedWord, WordFacts
<1>2. Word - x \in Nat /\ 0 < Word - x /\ Word - x < Word /\ Word - x >= Word \div 2
  BY <1>1, WordFacts
<1>3. Negated(Word - x) = Word - (Word - x)
  BY <1>2, NegatedWord
<1> QED BY <1>1, <1>2, <1>3, WordFacts DEF IsNegative

LEMMA TableRows == \A row \in Table : row[1] \in 1 .. 133
BY DEF Table

LEMMA DarwinRange == ASSUME NEW e \in 1 .. 133 PROVE ToDarwin(e) \in 1 .. 133
BY TableRows DEF ToDarwin

LEMMA DarwinOf ==
  /\ ToDarwin(EFAULT) = 14 /\ ToDarwin(EINVAL) = 22
  /\ ToDarwin(ENOMEM) = 12 /\ ToDarwin(ENOSYS) = 78
<1>1. ToDarwin(14) = 14 /\ ToDarwin(22) = 22 /\ ToDarwin(12) = 12
  BY DEF ToDarwin, Table
<1>2. <<78, 38>> \in Table /\ \A row \in Table : row[2] = 38 => row[1] = 78
  BY DEF Table
<1>3. ToDarwin(38) = 78
  BY <1>2 DEF ToDarwin
<1> QED BY <1>1, <1>3 DEF EFAULT, EINVAL, ENOSYS, ENOMEM

LEMMA FailWord ==
  ASSUME NEW e \in 1 .. 133
  PROVE  /\ Fail(e) \in 0 .. Word - 1 /\ IsNegative(Fail(e))
         /\ Negated(Fail(e)) = ToDarwin(e)
BY DarwinRange, ErrorWord DEF Fail

-----------------------------------------------------------------------------
(***************************************************************************)
(* The invariant.                                                          *)
(***************************************************************************)
\* The write under way is within the stream, and no further than it was asked.
CallsInv ==
  /\ CallsTypeOK
  /\ sent + call.n <= StreamLen /\ call.total <= call.n
  /\ call # IDLE => call.via \in Vias
  /\ StreamInOrder
  /\ PositionKnown

\* What ErrnoOnlyByFailure says of a step.
ErrnoStep ==
  errno' # errno /\ "far" \notin habits =>
    /\ IsNegative(r3')
    /\ errno'.code \in DarwinNumbers
    /\ "sc" \notin habits => ErrnoRead(errno') \in DarwinNumbers

ErrnoType == [code : 0 .. Word - 1, order : {"big", "little"}]

\* A call's end keeps r3 and errno words, and touches errno only with an error.
LEMMA EndsFacts ==
  ASSUME errno \in ErrnoType, NEW via \in Vias, NEW r \in 0 .. Word - 1, Ends(via, r)
  PROVE  /\ r3' \in 0 .. Word - 1 /\ errno' \in ErrnoType
         /\ ~IsNegative(r) => ErrnoStep
         /\ "far" \in habits => ErrnoStep
         /\ \A e \in 1 .. 133 : r = Fail(e) /\ ToDarwin(e) \in DarwinNumbers => ErrnoStep
<1>1. r3' = r /\ r \in Int /\ -r \in Int
  BY WordFacts DEF Ends
<1>2. /\ errno' = errno \/ errno' = [code |-> Negated(r), order |-> "little"]
      /\ errno' # errno => IsNegative(r) /\ via = "sc"
  BY DEF Ends, StoreError
<1>3. Negated(r) \in 0 .. Word - 1
  BY <1>1, NegatedType
<1>4. errno' \in ErrnoType
  BY <1>2, <1>3 DEF ErrnoType
<1>5. errno' # errno => "sc" \in habits
  BY <1>2 DEF Vias
<1>6. ASSUME NEW e \in 1 .. 133, r = Fail(e), ToDarwin(e) \in DarwinNumbers PROVE ErrnoStep
  <2>1. IsNegative(r) /\ Negated(r) = ToDarwin(e)
    BY <1>6, FailWord
  <2> QED BY <1>1, <1>2, <1>5, <1>6, <2>1 DEF ErrnoStep
<1> QED BY <1>1, <1>2, <1>4, <1>6 DEF ErrnoStep

\* The numbers the calls fail with.
LEMMA KnownErrors ==
  /\ \A e \in HostErrors : e \in 1 .. 133 /\ ToDarwin(e) \in DarwinNumbers
  /\ \A e \in {EFAULT, EINVAL, ENOSYS, ENOMEM} : e \in 1 .. 133 /\ ToDarwin(e) \in DarwinNumbers
<1>1. \A e \in HostErrors : e \in 1 .. 133 /\ ToDarwin(e) \in DarwinNumbers
  BY CallsAssumption DEF DarwinNumbers
<1>2. \A e \in {EFAULT, EINVAL, ENOSYS, ENOMEM} : e \in 1 .. 133
  BY DEF EFAULT, EINVAL, ENOSYS, ENOMEM
<1> QED BY <1>1, <1>2, DarwinOf DEF DarwinNumbers

\* A call that fails, and changes nothing but r3 and errno.
LEMMA FailingCall ==
  ASSUME CallsInv, NEW via \in Vias, NEW e \in HostErrors \cup {EFAULT, EINVAL, ENOSYS, ENOMEM},
         Ends(via, Fail(e)),
         UNCHANGED <<call, bound, output, sent, pos, at, stop, habits>>
  PROVE  CallsInv' /\ ErrnoStep
<1>1. e \in 1 .. 133 /\ ToDarwin(e) \in DarwinNumbers
  BY KnownErrors
<1>2. errno \in ErrnoType /\ Fail(e) \in 0 .. Word - 1
  BY <1>1, FailWord DEF CallsInv, CallsTypeOK, ErrnoType
<1>3. r3' \in 0 .. Word - 1 /\ errno' \in ErrnoType /\ ErrnoStep
  BY <1>1, <1>2, EndsFacts
<1> QED BY <1>3 DEF CallsInv, CallsTypeOK, ErrnoType, Vias, StreamInOrder, PositionKnown

\* A step that touches neither the registers nor errno, nor the input.
LEMMA QuietStep ==
  ASSUME CallsInv, UNCHANGED <<r3, errno, bound, pos, at, stop, habits>>,
         call' \in [via : {"none", "sc", "library"}, n : 0 .. MaxIo, total : 0 .. MaxIo],
         output' \in Seq(1 .. StreamLen), sent' \in 0 .. StreamLen,
         sent' + call'.n <= StreamLen, call'.total <= call'.n,
         call' # IDLE => call'.via \in Vias,
         StreamInOrder'
  PROVE  CallsInv' /\ ErrnoStep
BY DEF CallsInv, CallsTypeOK, Vias, PositionKnown, ErrnoStep

-----------------------------------------------------------------------------
(***************************************************************************)
(* write.                                                                  *)
(***************************************************************************)
LEMMA LeastFacts ==
  ASSUME NEW a \in Nat, NEW b \in Nat
  PROVE  Least(a, b) \in Nat /\ Least(a, b) <= a /\ Least(a, b) <= b
BY DEF Least

LEMMA WriteStep == CallsInv /\ Write => CallsInv' /\ ErrnoStep
<1> SUFFICES ASSUME CallsInv, Write PROVE CallsInv' /\ ErrnoStep
  OBVIOUS
<1>1. PICK via \in Vias, m \in Sizes :
        /\ Ready /\ sent + m <= StreamLen
        /\ UNCHANGED <<bound, output, pos, at, stop, habits>>
        /\ \/ WriteStart(via, m)
           \/ \E e \in {ENOMEM, EFAULT} : Ends(via, Fail(e)) /\ UNCHANGED <<call, sent>>
  BY DEF Write
<1>2. CASE WriteStart(via, m)
  <2>1. /\ call = IDLE /\ m \in Nat /\ sent \in 0 .. StreamLen /\ output \in Seq(1 .. StreamLen)
        /\ via \in {"sc", "library"} /\ StreamInOrder
    BY <1>1, CallsAssumption DEF Ready, CallsInv, CallsTypeOK, Vias
  <2> DEFINE len == Least(m, MaxIo)
  <2>2. len \in 0 .. MaxIo /\ len <= m
    <3>1. m \in Nat /\ MaxIo \in Nat
      BY <2>1, WordFacts
    <3> QED BY <3>1, LeastFacts
  <2> HIDE DEF len
  <2>3. /\ call' = [via |-> via, n |-> len, total |-> 0]
        /\ UNCHANGED <<r3, errno, sent>>
    BY <1>2 DEF WriteStart, len
  <2>4. StreamInOrder'
    BY <1>1, <2>1, <2>3 DEF StreamInOrder, IDLE
  <2>5. sent' + call'.n <= StreamLen /\ call'.total <= call'.n /\ call'.via \in Vias
    BY <1>1, <2>1, <2>2, <2>3, WordFacts
  <2>6. call' \in [via : {"none", "sc", "library"}, n : 0 .. MaxIo, total : 0 .. MaxIo]
    BY <2>1, <2>2, <2>3, WordFacts
  <2> QED BY <1>1, <2>1, <2>3, <2>4, <2>5, <2>6, QuietStep
<1>3. CASE \E e \in {ENOMEM, EFAULT} : Ends(via, Fail(e)) /\ UNCHANGED <<call, sent>>
  BY <1>1, <1>3, FailingCall
<1> QED BY <1>1, <1>2, <1>3

\* Two stretches of the stream, one after the other.
LEMMA CountsOn ==
  ASSUME NEW a \in Nat, NEW b \in Nat
  PROVE  [j \in 1 .. a |-> j] \o [j \in 1 .. b |-> a + j] = [j \in 1 .. a + b |-> j]
<1> DEFINE s == [j \in 1 .. a |-> j]
           t == [j \in 1 .. b |-> a + j]
           u == [j \in 1 .. a + b |-> j]
<1>1. s \in Seq(Nat) /\ t \in Seq(Nat) /\ Len(s) = a /\ Len(t) = b
  OBVIOUS
<1>2. /\ \A j \in 1 .. a : s[j] = j
      /\ \A j \in 1 .. b : t[j] = a + j
      /\ \A j \in 1 .. a + b : u[j] = j
      /\ u \in [1 .. a + b -> Nat]
  OBVIOUS
<1> HIDE DEF s, t, u
<1>3. /\ s \o t \in Seq(Nat) /\ Len(s \o t) = a + b
      /\ \A j \in 1 .. a + b : (s \o t)[j] = IF j <= a THEN s[j] ELSE t[j - a]
  BY <1>1, ConcatProperties
<1> DEFINE c == s \o t
<1>4. c \in [1 .. a + b -> Nat]
  BY <1>3, LenProperties
<1>5. \A j \in 1 .. a + b : c[j] = IF j <= a THEN s[j] ELSE t[j - a]
  BY <1>3
<1> HIDE DEF c
<1>6. ASSUME NEW j \in 1 .. a + b PROVE c[j] = j
  <2>1. CASE j <= a
    BY <2>1, <1>2, <1>5
  <2>2. CASE ~(j <= a)
    <3>1. j - a \in 1 .. b /\ a + (j - a) = j
      BY <2>2
    <3>2. c[j] = t[j - a]
      BY <2>2, <1>5
    <3> QED BY <3>1, <3>2, <1>2
  <2> QED BY <2>1, <2>2
<1>7. c = u
  BY <1>2, <1>4, <1>6
<1> QED BY <1>7 DEF s, t, u, c

LEMMA HostTakesStep == CallsInv /\ HostTakes => CallsInv' /\ ErrnoStep
<1> SUFFICES ASSUME CallsInv, HostTakes PROVE CallsInv' /\ ErrnoStep
  OBVIOUS
<1>1. PICK k \in 1 .. call.n :
        /\ call # IDLE /\ call.total + k <= call.n
        /\ output' = output \o Stretch(call.total, k)
        /\ call' = [call EXCEPT !.total = @ + k]
        /\ UNCHANGED <<r3, errno, bound, sent, pos, at, stop, habits>>
  BY DEF HostTakes
<1> DEFINE total == call.total
           asked == call.n
           piece == [j \in 1 .. k |-> sent + total + j]
<1>2. /\ call \in [via : {"none", "sc", "library"}, n : 0 .. MaxIo, total : 0 .. MaxIo]
      /\ total \in Nat /\ asked \in 0 .. MaxIo /\ sent \in Nat /\ sent + asked <= StreamLen
      /\ output \in Seq(1 .. StreamLen) /\ k \in Nat /\ k > 0 /\ total + k <= asked
      /\ StreamLen \in Nat /\ MaxIo \in Nat
  <2>1. /\ call \in [via : {"none", "sc", "library"}, n : 0 .. MaxIo, total : 0 .. MaxIo]
        /\ sent \in 0 .. StreamLen /\ output \in Seq(1 .. StreamLen)
        /\ sent + call.n <= StreamLen
    BY DEF CallsInv, CallsTypeOK
  <2>2. total \in 0 .. MaxIo /\ asked \in 0 .. MaxIo
    BY <2>1
  <2>3. k \in 1 .. asked /\ total + k <= asked
    BY <1>1
  <2>4. MaxIo \in Nat /\ StreamLen \in Nat
    BY WordFacts
  <2>5. sent + asked <= StreamLen
    BY <2>1
  <2> HIDE DEF total, asked
  <2>6. total \in Nat /\ sent \in Nat /\ k \in Nat /\ k > 0
    BY <2>1, <2>2, <2>3, <2>4
  <2> QED BY <2>1, <2>2, <2>3, <2>4, <2>5, <2>6
<1>3. call' = [via |-> call.via, n |-> asked, total |-> total + k]
  BY <1>1, <1>2
<1>4. output' = output \o piece
  BY <1>1 DEF Stretch
<1> HIDE DEF total, asked
<1>5. piece \in Seq(1 .. StreamLen) /\ Len(piece) = k
  BY <1>2
<1>6. output' \in Seq(1 .. StreamLen)
  <2> HIDE DEF piece
  <2> QED BY <1>2, <1>4, <1>5
<1>7. StreamInOrder'
  <2> SUFFICES ASSUME "late_error" \notin habits
               PROVE  output' = [j \in 1 .. sent + (total + k) |-> j]
    BY <1>1, <1>3 DEF StreamInOrder
  <2>1. output = [j \in 1 .. sent + total |-> j]
    BY DEF CallsInv, StreamInOrder, total
  <2>2. output \o piece = [j \in 1 .. (sent + total) + k |-> j]
    BY <1>2, <2>1, CountsOn
  <2>3. (sent + total) + k = sent + (total + k)
    BY <1>2
  <2> QED BY <1>4, <2>2, <2>3
<1>8. call' \in [via : {"none", "sc", "library"}, n : 0 .. MaxIo, total : 0 .. MaxIo]
  BY <1>2, <1>3
<1>9. /\ call'.n = asked /\ call'.total = total + k /\ call'.via \in Vias
      /\ sent' = sent /\ sent \in 0 .. StreamLen
  BY <1>1, <1>3 DEF CallsInv, CallsTypeOK
<1> QED BY <1>1, <1>2, <1>6, <1>7, <1>8, <1>9, QuietStep

LEMMA HostFailsStep == CallsInv /\ HostFails => CallsInv' /\ ErrnoStep
<1> SUFFICES ASSUME CallsInv, HostFails PROVE CallsInv' /\ ErrnoStep
  OBVIOUS
<1>1. PICK e \in HostErrors :
        /\ call # IDLE /\ (call.total > 0 => "late_error" \in habits)
        /\ Ends(call.via, Fail(e)) /\ sent' = sent /\ call' = IDLE
        /\ UNCHANGED <<bound, output, pos, at, stop, habits>>
  BY DEF HostFails, WriteFails
<1>2. e \in 1 .. 133 /\ ToDarwin(e) \in DarwinNumbers
  BY KnownErrors
<1>3. errno \in ErrnoType /\ Fail(e) \in 0 .. Word - 1 /\ call.via \in Vias
  BY <1>1, <1>2, FailWord DEF CallsInv, CallsTypeOK, ErrnoType
<1>4. r3' \in 0 .. Word - 1 /\ errno' \in ErrnoType /\ ErrnoStep
  BY <1>1, <1>2, <1>3, EndsFacts
<1>5. sent \in 0 .. StreamLen /\ call.total \in 0 .. MaxIo /\ MaxIo \in Nat /\ StreamLen \in Nat
  BY WordFacts DEF CallsInv, CallsTypeOK
<1>6. StreamInOrder'
  <2> SUFFICES ASSUME "late_error" \notin habits
               PROVE  output = [j \in 1 .. sent + 0 |-> j]
    BY <1>1 DEF StreamInOrder, IDLE
  <2>1. call.total = 0 /\ output = [j \in 1 .. sent + call.total |-> j]
    BY <1>1, <1>5 DEF CallsInv, StreamInOrder
  <2> QED BY <2>1
<1>7. /\ call' \in [via : {"none", "sc", "library"}, n : 0 .. MaxIo, total : 0 .. MaxIo]
      /\ sent' + call'.n <= StreamLen /\ call'.total <= call'.n
  BY <1>1, <1>5 DEF IDLE
<1> QED BY <1>1, <1>4, <1>6, <1>7 DEF CallsInv, CallsTypeOK, ErrnoType, PositionKnown

\* What was written becomes what the guest knows to be written.
LEMMA WriteReturnsStep == CallsInv /\ WriteReturns => CallsInv' /\ ErrnoStep
<1> SUFFICES ASSUME CallsInv, WriteReturns PROVE CallsInv' /\ ErrnoStep
  OBVIOUS
<1>1. /\ call # IDLE /\ Ends(call.via, call.total) /\ sent' = sent + call.total /\ call' = IDLE
      /\ call.total = call.n
      /\ UNCHANGED <<bound, output, pos, at, stop, habits>>
  BY DEF WriteReturns, WriteDone
<1>2. /\ sent \in 0 .. StreamLen /\ call.total \in 0 .. MaxIo /\ sent + call.total <= StreamLen
      /\ call.total \in 0 .. Word - 1 /\ ~IsNegative(call.total)
      /\ MaxIo \in Nat /\ StreamLen \in Nat
  BY <1>1, WordFacts DEF CallsInv, CallsTypeOK, IsNegative
<1>3. errno \in ErrnoType /\ call.via \in Vias
  BY <1>1 DEF CallsInv, CallsTypeOK, ErrnoType
<1>4. r3' \in 0 .. Word - 1 /\ errno' \in ErrnoType /\ ErrnoStep
  BY <1>1, <1>2, <1>3, EndsFacts
<1>5. StreamInOrder'
  <2> SUFFICES ASSUME "late_error" \notin habits
               PROVE  output = [j \in 1 .. sent' + 0 |-> j]
    BY <1>1 DEF StreamInOrder, IDLE
  <2>1. output = [j \in 1 .. sent + call.total |-> j] /\ sent' + 0 = sent + call.total
    BY <1>1, <1>2 DEF CallsInv, StreamInOrder
  <2> QED BY <2>1
<1>6. /\ call' \in [via : {"none", "sc", "library"}, n : 0 .. MaxIo, total : 0 .. MaxIo]
      /\ sent' \in 0 .. StreamLen /\ sent' + call'.n <= StreamLen /\ call'.total <= call'.n
  BY <1>1, <1>2 DEF IDLE
<1> QED BY <1>1, <1>4, <1>5, <1>6 DEF CallsInv, CallsTypeOK, ErrnoType, PositionKnown

-----------------------------------------------------------------------------
(***************************************************************************)
(* read and lseek.                                                         *)
(***************************************************************************)
\* A step on the input that keeps its types and the guest's position.
LEMMA InputStep ==
  ASSUME CallsInv, UNCHANGED <<call, bound, output, sent, stop, habits>>,
         r3' \in 0 .. Word - 1, errno' \in ErrnoType,
         pos' \in 0 .. InputLen + 1, at' \in Nat,
         habits \cap {"bad_buffer", "tell"} = {} => at' = pos'
  PROVE  CallsInv'
BY DEF CallsInv, CallsTypeOK, ErrnoType, Vias, StreamInOrder, PositionKnown

LEMMA ReadStep == CallsInv /\ Read => CallsInv' /\ ErrnoStep
<1> SUFFICES ASSUME CallsInv, Read PROVE CallsInv' /\ ErrnoStep
  OBVIOUS
<1>1. PICK via \in Vias, m \in Sizes :
        /\ UNCHANGED <<call, bound, output, sent, stop, habits>>
        /\ \/ \E k \in 0 .. Least(Least(m, MaxIo), Left), mapped \in BOOLEAN :
                (mapped \/ "bad_buffer" \in habits) /\ ReadTakes(via, m, k, mapped)
           \/ \E e \in HostErrors \cup {ENOMEM} : Ends(via, Fail(e)) /\ UNCHANGED <<pos, at>>
  BY DEF Read
<1>2. CASE \E e \in HostErrors \cup {ENOMEM} : Ends(via, Fail(e)) /\ UNCHANGED <<pos, at>>
  BY <1>1, <1>2, FailingCall
<1>3. ASSUME NEW k \in 0 .. Least(Least(m, MaxIo), Left), NEW mapped \in BOOLEAN,
             mapped \/ "bad_buffer" \in habits, ReadTakes(via, m, k, mapped)
      PROVE  CallsInv' /\ ErrnoStep
  <2> DEFINE r == IF mapped \/ k = 0 THEN k ELSE Fail(EFAULT)
  <2>1. pos' = pos + k /\ Ends(via, r) /\ at' = IF IsNegative(r) THEN at ELSE at + r
    BY <1>3 DEF ReadTakes, ReadGives, Follows
  <2>2. /\ pos \in 0 .. InputLen + 1 /\ at \in Nat /\ InputLen \in Nat
        /\ errno \in ErrnoType
    BY WordFacts DEF CallsInv, CallsTypeOK, ErrnoType
  <2>3. Left \in Nat /\ m \in Nat /\ MaxIo \in Nat
    BY <2>2, WordFacts, CallsAssumption DEF Left
  <2>4. Least(m, MaxIo) \in Nat
    BY <2>3, LeastFacts
  <2>5. k \in Nat /\ k <= Left
    <3>1. Least(Least(m, MaxIo), Left) \in Nat /\ Least(Least(m, MaxIo), Left) <= Left
      BY <2>3, <2>4, LeastFacts
    <3> DEFINE most == Least(Least(m, MaxIo), Left)
    <3>2. k \in 0 .. most
      OBVIOUS
    <3> HIDE DEF most
    <3> QED BY <3>1, <3>2, <2>3 DEF most
  <2>6. pos + k \in 0 .. InputLen + 1 /\ k <= InputLen
    BY <2>2, <2>5 DEF Left
  <2>7. k \in 0 .. Word - 1 /\ ~IsNegative(k)
    BY <2>2, <2>5, <2>6, WordFacts DEF IsNegative
  <2>8. EFAULT \in 1 .. 133 /\ ToDarwin(EFAULT) \in DarwinNumbers
    BY KnownErrors
  <2>9. Fail(EFAULT) \in 0 .. Word - 1 /\ IsNegative(Fail(EFAULT))
    BY <2>8, FailWord
  <2>10. r \in 0 .. Word - 1 /\ (r = k \/ r = Fail(EFAULT))
    BY <2>7, <2>9
  <2>11. r3' \in 0 .. Word - 1 /\ errno' \in ErrnoType /\ ErrnoStep
    <3> HIDE DEF r
    <3>1. CASE r = k
      BY <3>1, <2>1, <2>2, <2>7, <2>10, EndsFacts
    <3>2. CASE r = Fail(EFAULT)
      BY <3>2, <2>1, <2>2, <2>8, <2>10, EndsFacts
    <3> QED BY <2>10, <3>1, <3>2
  <2>12. at' \in Nat
    BY <2>1, <2>2, <2>5, <2>9
  <2>13. ASSUME habits \cap {"bad_buffer", "tell"} = {} PROVE at' = pos'
    <3>1. mapped /\ at = pos
      BY <1>3, <2>13 DEF CallsInv, PositionKnown
    <3> QED BY <2>1, <2>7, <3>1
  <2> QED BY <1>1, <2>1, <2>6, <2>11, <2>12, <2>13, InputStep
<1> QED BY <1>1, <1>2, <1>3

LEMMA LseekStep == CallsInv /\ Lseek => CallsInv' /\ ErrnoStep
<1> SUFFICES ASSUME CallsInv, Lseek PROVE CallsInv' /\ ErrnoStep
  OBVIOUS
<1>1. PICK dist \in {-1, 0, 1}, whence \in {"set", "cur", "end"} :
        /\ "sc" \in habits /\ Target(dist, whence) <= InputLen + 1
        /\ UNCHANGED <<call, bound, output, sent, stop, habits>>
        /\ \/ /\ Moves(dist, whence) /\ pos' = Target(dist, whence)
              /\ Ends("sc", pos') /\ Follows(r3', r3')
           \/ \E e \in HostErrors \cup {EINVAL} : Ends("sc", Fail(e)) /\ UNCHANGED <<pos, at>>
  BY DEF Lseek
<1>2. CASE \E e \in HostErrors \cup {EINVAL} : Ends("sc", Fail(e)) /\ UNCHANGED <<pos, at>>
  BY <1>1, <1>2, FailingCall DEF Vias
<1>3. CASE /\ Moves(dist, whence) /\ pos' = Target(dist, whence)
           /\ Ends("sc", pos') /\ Follows(r3', r3')
  <2>1. pos \in 0 .. InputLen + 1 /\ InputLen \in Nat /\ errno \in ErrnoType /\ at \in Nat
    BY WordFacts DEF CallsInv, CallsTypeOK, ErrnoType
  <2>2. Target(dist, whence) \in Int
    BY <2>1 DEF Target
  <2>3. pos' \in 0 .. InputLen + 1
    BY <1>1, <1>3, <2>1, <2>2 DEF Moves
  <2>4. pos' \in 0 .. Word - 1 /\ ~IsNegative(pos')
    BY <2>3, <2>1, WordFacts DEF IsNegative
  <2>5. r3' = pos' /\ at' = pos' /\ pos' \in Nat
    BY <1>3, <2>1, <2>3, <2>4 DEF Ends, Follows
  <2>6. PICK there : there = pos'
    OBVIOUS
  <2>7. r3' \in 0 .. Word - 1 /\ errno' \in ErrnoType /\ ErrnoStep
    BY <1>1, <1>3, <2>1, <2>4, <2>6, EndsFacts DEF Vias
  <2> QED BY <1>1, <2>3, <2>5, <2>7, InputStep
<1> QED BY <1>1, <1>2, <1>3

LEMMA LibraryLseekStep == CallsInv /\ LibraryLseek => CallsInv' /\ ErrnoStep
<1> SUFFICES ASSUME CallsInv, LibraryLseek PROVE CallsInv' /\ ErrnoStep
  OBVIOUS
<1>1. PICK low \in {0, 1}, whence \in {"set", "cur", "end"} :
        /\ whence = "set" \/ "tell" \in habits
        /\ UNCHANGED <<call, bound, output, sent, stop, habits>>
        /\ \/ /\ pos' = Target(0, whence) /\ Ends("library", pos') /\ Follows(r3', r3' * Word)
           \/ /\ Ends("library", Negated(EINVAL)) \/ \E e \in HostErrors : Ends("library", Fail(e))
              /\ UNCHANGED <<pos, at>>
  BY DEF LibraryLseek, LibraryLseekTo
<1>2. CASE /\ Ends("library", Negated(EINVAL)) \/ \E e \in HostErrors : Ends("library", Fail(e))
           /\ UNCHANGED <<pos, at>>
  <2>1. Fail(EINVAL) = Negated(EINVAL)
    BY DarwinOf DEF Fail, EINVAL
  <2> QED BY <1>1, <1>2, <2>1, FailingCall DEF Vias
<1>3. CASE pos' = Target(0, whence) /\ Ends("library", pos') /\ Follows(r3', r3' * Word)
  <2>1. pos \in 0 .. InputLen + 1 /\ InputLen \in Nat /\ errno \in ErrnoType /\ at \in Nat
    BY WordFacts DEF CallsInv, CallsTypeOK, ErrnoType
  <2>2. pos' \in 0 .. InputLen + 1 /\ (whence = "set" => pos' = 0)
    BY <1>3, <2>1 DEF Target
  <2>3. pos' \in 0 .. Word - 1 /\ ~IsNegative(pos')
    BY <2>1, <2>2, WordFacts DEF IsNegative
  <2>4. r3' = pos' /\ at' = pos' * Word /\ errno' = errno
    BY <1>3, <2>3 DEF Ends, Follows
  <2>5. at' \in Nat /\ (whence = "set" => at' = pos')
    <3>1. pos' \in Nat /\ Word \in Nat
      BY <2>1, <2>2, WordFacts
    <3>2. PICK there \in Nat : there = pos'
      BY <3>1
    <3>3. there * Word \in Nat /\ 0 * Word = 0
      BY <3>1
    <3> QED BY <2>2, <2>4, <3>2, <3>3
  <2>6. habits \cap {"bad_buffer", "tell"} = {} => at' = pos'
    BY <1>1, <2>5
  <2> QED BY <1>1, <2>1, <2>2, <2>3, <2>4, <2>5, <2>6, InputStep DEF ErrnoStep
<1> QED BY <1>1, <1>2, <1>3

-----------------------------------------------------------------------------
(***************************************************************************)
(* The other calls.                                                        *)
(***************************************************************************)
LEMMA AnswerFacts ==
  ASSUME NEW nr \in DOMAIN Answers
  PROVE  /\ \A v \in Answers[nr] :
              v \in 0 .. Word - 1 /\ ("far" \notin habits => ~IsNegative(v))
         /\ Failures[nr] \subseteq HostErrors \cup {EFAULT, EINVAL, ENOSYS, ENOMEM}
<1>1. nr \in {"open", "unlink", "close", "getpid", "mmap", "munmap", "other"}
  BY DEF Answers
<1>2. Answers[nr] \subseteq {0, 3, 7, 64} \cup Far
  BY <1>1 DEF Answers
<1>3. Failures[nr] \subseteq HostErrors \cup {EFAULT, EINVAL, ENOSYS, ENOMEM}
  BY <1>1 DEF Failures
<1>4. \A v \in {0, 3, 7, 64} : v \in 0 .. Word - 1 /\ ~IsNegative(v)
  BY WordFacts DEF IsNegative
<1>5. \A v \in Far : v \in 0 .. Word - 1 /\ "far" \in habits
  BY WordFacts DEF Far
<1> QED BY <1>2, <1>3, <1>4, <1>5

LEMMA PlainCallStep == CallsInv /\ PlainCall => CallsInv' /\ ErrnoStep
<1> SUFFICES ASSUME CallsInv, PlainCall PROVE CallsInv' /\ ErrnoStep
  OBVIOUS
<1>1. PICK nr \in DOMAIN Answers, via \in Vias :
        /\ UNCHANGED <<call, bound, output, sent, pos, at, stop, habits>>
        /\ \/ \E v \in Answers[nr] : Ends(via, v)
           \/ \E e \in Failures[nr] : Ends(via, Fail(e))
  BY DEF PlainCall
<1>2. CASE \E v \in Answers[nr] : Ends(via, v)
  <2>1. PICK v \in Answers[nr] : Ends(via, v)
    BY <1>2
  <2>2. v \in 0 .. Word - 1 /\ ("far" \notin habits => ~IsNegative(v)) /\ errno \in ErrnoType
    BY AnswerFacts DEF CallsInv, CallsTypeOK, ErrnoType
  <2>3. r3' \in 0 .. Word - 1 /\ errno' \in ErrnoType /\ ErrnoStep
    BY <2>1, <2>2, EndsFacts
  <2> QED BY <1>1, <2>3 DEF CallsInv, CallsTypeOK, ErrnoType, Vias, StreamInOrder, PositionKnown
<1>3. CASE \E e \in Failures[nr] : Ends(via, Fail(e))
  <2>1. PICK e \in Failures[nr] : Ends(via, Fail(e))
    BY <1>3
  <2>2. e \in HostErrors \cup {EFAULT, EINVAL, ENOSYS, ENOMEM}
    BY AnswerFacts
  <2> QED BY <1>1, <2>1, <2>2, FailingCall
<1> QED BY <1>1, <1>2, <1>3

SocketFunctions == {"socket", "connect", "send", "recv", "fstat", "stat", "select"}

LEMMA OwnErrorFacts ==
  ASSUME NEW name \in SocketFunctions, NEW e \in OwnErrors(name)
  PROVE  e[1] \in 1 .. 133 /\ e[1] \in DarwinNumbers /\ e[2] \in 1 .. 133
<1> DEFINE Fixed == {<<43, 43>>, <<78, 78>>, <<24, 24>>, <<9, 9>>, <<14, 14>>}
<1>1. \/ e \in Fixed
      \/ \E x \in HostErrors : e = <<ToDarwin(x), 78>> \/ e = <<ToDarwin(x), 2>>
  BY DEF OwnErrors, SocketFunctions
<1>2. CASE e \in Fixed
  BY <1>2 DEF DarwinNumbers
<1>3. CASE \E x \in HostErrors : e = <<ToDarwin(x), 78>> \/ e = <<ToDarwin(x), 2>>
  <2>1. PICK x \in HostErrors : e = <<ToDarwin(x), 78>> \/ e = <<ToDarwin(x), 2>>
    BY <1>3
  <2>2. x \in 1 .. 133 /\ ToDarwin(x) \in DarwinNumbers
    BY KnownErrors
  <2>3. ToDarwin(x) \in 1 .. 133
    BY <2>2, DarwinRange
  <2>4. e[1] = ToDarwin(x) /\ e[2] \in {2, 78}
    BY <2>1
  <2> QED BY <2>2, <2>3, <2>4
<1> QED BY <1>1, <1>2, <1>3

LEMMA SocketCallStep == CallsInv /\ SocketCall => CallsInv' /\ ErrnoStep
<1> SUFFICES ASSUME CallsInv, SocketCall PROVE CallsInv' /\ ErrnoStep
  OBVIOUS
<1>1. PICK name \in SocketFunctions :
        /\ UNCHANGED <<call, bound, output, sent, pos, at, stop, habits>>
        /\ \/ r3' = 3 /\ UNCHANGED errno
           \/ \E e \in OwnErrors(name) : Reports(e[1], e[2])
  BY DEF SocketCall, SocketFunctions
<1>2. errno \in ErrnoType
  BY DEF CallsInv, CallsTypeOK, ErrnoType
<1>3. CASE r3' = 3 /\ UNCHANGED errno
  <2>1. r3' \in 0 .. Word - 1
    BY <1>3, WordFacts
  <2> QED BY <1>1, <1>3, <2>1
          DEF CallsInv, CallsTypeOK, Vias, StreamInOrder, PositionKnown, ErrnoStep
<1>4. CASE \E e \in OwnErrors(name) : Reports(e[1], e[2])
  <2>1. PICK e \in OwnErrors(name) : Reports(e[1], e[2])
    BY <1>4
  <2>2. e[1] \in 1 .. 133 /\ e[1] \in DarwinNumbers /\ e[2] \in 1 .. 133
    BY OwnErrorFacts
  <2>3. r3' = Negated(e[2]) /\ r3' \in 0 .. Word - 1 /\ IsNegative(r3')
    BY <2>1, <2>2, ErrorWord DEF Reports
  <2>4. errno' = errno \/ errno' = [code |-> e[1], order |-> "big"]
    BY <2>1 DEF Reports
  <2>5. errno' \in ErrnoType
    BY <1>2, <2>2, <2>4, WordFacts DEF ErrnoType
  <2>6. ErrnoStep
    BY <2>2, <2>3, <2>4 DEF ErrnoStep, ErrnoRead
  <2> QED BY <1>1, <2>3, <2>5, <2>6
          DEF CallsInv, CallsTypeOK, ErrnoType, Vias, StreamInOrder, PositionKnown
<1> QED BY <1>1, <1>3, <1>4

-----------------------------------------------------------------------------
LEMMA CallsInvHolds == CallsInit => CallsInv
<1> SUFFICES ASSUME CallsInit PROVE CallsInv
  OBVIOUS
<1> USE DEF CallsInit, IDLE
<1>1. CallsTypeOK
  BY WordFacts DEF CallsTypeOK
<1>2. StreamInOrder
  BY DEF StreamInOrder
<1> QED BY <1>1, <1>2, WordFacts DEF CallsInv, PositionKnown

LEMMA CallsStep == CallsInv /\ [CallsNext]_callsVars => CallsInv' /\ ErrnoStep
<1> SUFFICES ASSUME CallsInv, [CallsNext]_callsVars PROVE CallsInv' /\ ErrnoStep
  OBVIOUS
<1>1. CASE Exit
  <2>1. /\ stop' = 1 /\ r3' = 0 /\ r3' \in 0 .. Word - 1
        /\ UNCHANGED <<call, errno, bound, output, sent, pos, at, habits>>
    BY <1>1, WordFacts DEF Exit
  <2> QED BY <2>1 DEF CallsInv, CallsTypeOK, Vias, StreamInOrder, PositionKnown, ErrnoStep
<1>2. CASE HostInterrupts \/ UNCHANGED callsVars
  BY <1>2 DEF HostInterrupts, callsVars, CallsInv, CallsTypeOK, Vias, StreamInOrder, PositionKnown, ErrnoStep
<1> QED BY <1>1, <1>2, WriteStep, HostTakesStep, HostFailsStep, WriteReturnsStep,
           ReadStep, LseekStep, LibraryLseekStep, PlainCallStep, SocketCallStep DEF CallsNext

LEMMA CallsInvAlways == CallsSpec => []CallsInv
<1>1. CallsInv /\ [CallsNext]_callsVars => CallsInv'
  BY CallsStep
<1> QED BY <1>1, CallsInvHolds, PTL DEF CallsSpec

-----------------------------------------------------------------------------
(***************************************************************************)
(* Theorems.                                                               *)
(***************************************************************************)

\* However the host splits, interrupts or refuses a write, and however long it is,
\* what the host has is what the guest was told, and the write under way, in order,
\* unless an error follows a partial write (syscall.c 297-327).
THEOREM StreamStaysSound == CallsSpec => []StreamSound
<1>1. CallsInv => StreamSound
  BY DEF CallsInv, StreamSound
<1> QED BY <1>1, CallsInvAlways, PTL

\* A guest that reads into its own memory and rewinds with the library's lseek
\* knows its position in the input (read and lseek of syscall.c, hle_lseek).
THEOREM PositionStaysKnown == CallsSpec => []PositionKnown
<1>1. CallsInv => PositionKnown
  BY DEF CallsInv
<1> QED BY <1>1, CallsInvAlways, PTL

\* Only a failing call changes errno, to a number of Darwin's table, unless calls
\* succeed with the top bit set (sosetta_syscall_hook, sosetta_hle_set_errno).
THEOREM ErrnoChangesByFailure == CallsSpec => ErrnoOnlyByFailure
<1>1. CallsInv /\ [CallsNext]_callsVars =>
        [errno' # errno /\ "far" \notin habits =>
           /\ IsNegative(r3')
           /\ errno'.code \in DarwinNumbers
           /\ "sc" \notin habits => ErrnoRead(errno') \in DarwinNumbers]_callsVars
  BY CallsStep DEF ErrnoStep
<1> QED BY <1>1, CallsInvAlways, PTL DEF CallsSpec, ErrnoOnlyByFailure

-----------------------------------------------------------------------------
(***************************************************************************)
(* The guest's descriptors: while the host's numbers stay below the        *)
(* sockets' and the guest is careful, what each number stands for.         *)
(***************************************************************************)
\* The host's numbers stay below the sockets', and the guest is careful.
FilesBelowSockets == MaxHost < FDMAP_BASE
Orderly == Careful /\ FilesBelowSockets

(***************************************************************************)
(* The owners of the host's descriptors keep apart: a number in the        *)
(* guest's hands, a FILE, a slot of fdmap.  What each owns is open, and a  *)
(* number refers to the object it was given out for.                       *)
(***************************************************************************)
NumbersTrue == \A n \in Host : held[n] # NONE => host[n] = held[n]
StreamsOpen == \A h \in streams : host[h] # NONE /\ held[h] = NONE
SlotsOpen ==
  \A s \in Slot : fdmap[s] # NONE =>
    host[fdmap[s]] # NONE /\ held[fdmap[s]] = NONE /\ fdmap[s] \notin streams
SocketsTrue ==
  \A s \in Slot : held[FDMAP_BASE + s] # NONE =>
    fdmap[s] # NONE /\ host[fdmap[s]] = held[FDMAP_BASE + s]

OwnersApart == NumbersTrue /\ StreamsOpen /\ SlotsOpen /\ SocketsTrue

FdInv == DescriptorsOwned /\ (Orderly => OwnersApart)

-----------------------------------------------------------------------------
LEMMA MapConstants ==
  /\ FDMAP_BASE \in Nat /\ FDMAP_BASE > 2 /\ FDMAP_SIZE \in Nat \ {0}
  /\ MaxHost \in Nat /\ MaxHost >= 2
  /\ NONE \notin Nat /\ Object = Nat
BY FdMapAssumption DEF NONE, Object

\* A descriptor's number, a slot's, and the number of a socket in a slot.
LEMMA Numbers ==
  /\ STD \subseteq Host /\ STD = {0, 1, 2} /\ Host \subseteq Number /\ Host \subseteq Nat
  /\ NONE \notin Host
  /\ \A s \in Slot : /\ FDMAP_BASE + s \in Sockets /\ FDMAP_BASE + s \in Number
                     /\ (FDMAP_BASE + s) - FDMAP_BASE = s
  /\ \A n \in Sockets : n - FDMAP_BASE \in Slot /\ FDMAP_BASE + (n - FDMAP_BASE) = n
  /\ \A s, t \in Slot : FDMAP_BASE + s = FDMAP_BASE + t => s = t
  /\ STD \cap Sockets = {}
  /\ FilesBelowSockets => Host \cap Sockets = {}
BY MapConstants DEF STD, Host, Number, Sockets, Slot, NONE, FilesBelowSockets

LEMMA InitOwned == Init => FdInv
<1> SUFFICES ASSUME Init PROVE FdInv
  OBVIOUS
<1>1. TypeOK
  BY Numbers, MapConstants DEF Init, TypeOK, STD
<1>2. NoOrphan
  BY Numbers, MapConstants DEF Init, NoOrphan
<1>3. NumbersTrue /\ StreamsOpen
  BY Numbers, MapConstants DEF Init, NumbersTrue, StreamsOpen
<1>4. SlotsOpen
  BY DEF Init, SlotsOpen
<1>5. SocketsTrue
  BY Numbers DEF Init, SocketsTrue
<1> QED BY <1>1, <1>2, <1>3, <1>4, <1>5 DEF FdInv, DescriptorsOwned, OwnersApart

-----------------------------------------------------------------------------
(***************************************************************************)
(* One lemma per operation: it keeps the tables' types, leaves no          *)
(* descriptor without an owner, and, for a careful guest, keeps the owners *)
(* apart and gives no number out that the guest has.                       *)
(***************************************************************************)
KeepsNumbers == \A n \in Number : held[n] # NONE => held'[n] \in {NONE, held[n]}

Keeps == FdInv' /\ (Orderly => KeepsNumbers)

LEMMA SocketKeeps ==
  ASSUME FdInv, UNCHANGED guest,
         NEW s \in Slot, NEW h \in Host, SocketInto(s, h)
  PROVE  Keeps
<1> USE Numbers, MapConstants
<1>1. /\ host' = [host EXCEPT ![h] = made] /\ fdmap' = [fdmap EXCEPT ![s] = h]
      /\ fdmap_next' = FDMAP_BASE + s + 1 /\ held' = [held EXCEPT ![FDMAP_BASE + s] = made]
      /\ made' = made + 1 /\ streams' = streams /\ guest' = guest
      /\ fdmap[s] = NONE /\ host[h] = NONE
  BY DEF SocketInto, HostOpens, Free, FreeSlot
<1>2. TypeOK /\ NoOrphan
  BY DEF FdInv, DescriptorsOwned
<1>3. TypeOK'
  BY <1>1, <1>2 DEF TypeOK, Slot
<1>4. NoOrphan'
  BY <1>1, <1>2 DEF NoOrphan, TypeOK
<1>5. ASSUME Orderly
      PROVE  OwnersApart' /\ KeepsNumbers
  <2> USE <1>1, <1>2, <1>5 DEF TypeOK, FdInv, OwnersApart, Orderly
  <2>1. NumbersTrue'
    BY DEF NumbersTrue
  <2>2. StreamsOpen'
    BY DEF StreamsOpen
  <2>3. SlotsOpen'
    BY DEF SlotsOpen, NumbersTrue, StreamsOpen
  <2>4. SocketsTrue'
    BY DEF SocketsTrue
  <2>5. KeepsNumbers
    BY DEF SocketsTrue, KeepsNumbers
  <2> QED BY <2>1, <2>2, <2>3, <2>4, <2>5
<1> QED BY <1>1, <1>3, <1>4, <1>5 DEF Keeps, FdInv, DescriptorsOwned, Orderly, Careful
LEMMA OpenKeeps ==
  ASSUME FdInv, UNCHANGED guest, NEW h \in Host, OpenAs(h)
  PROVE  Keeps
<1> USE Numbers, MapConstants
<1>1. /\ host' = [host EXCEPT ![h] = made] /\ held' = [held EXCEPT ![h] = made]
      /\ made' = made + 1 /\ guest' = guest
      /\ fdmap' = fdmap /\ fdmap_next' = fdmap_next /\ streams' = streams
      /\ host[h] = NONE
  BY DEF OpenAs, HostOpens, Free
<1>2. TypeOK /\ NoOrphan
  BY DEF FdInv, DescriptorsOwned
<1>3. TypeOK'
  BY <1>1, <1>2 DEF TypeOK
<1>4. NoOrphan'
  BY <1>1, <1>2 DEF NoOrphan, TypeOK
<1>5. ASSUME Orderly
      PROVE  OwnersApart' /\ KeepsNumbers
  <2> USE <1>1, <1>2, <1>5 DEF TypeOK, FdInv, OwnersApart, Orderly
  <2>1. NumbersTrue' /\ KeepsNumbers
    BY DEF NumbersTrue, KeepsNumbers
  <2>2. StreamsOpen'
    BY DEF StreamsOpen
  <2>3. SlotsOpen'
    BY DEF SlotsOpen
  <2>4. SocketsTrue'
    BY DEF SocketsTrue, SlotsOpen
  <2> QED BY <2>1, <2>2, <2>3, <2>4
<1> QED BY <1>1, <1>3, <1>4, <1>5 DEF Keeps, FdInv, DescriptorsOwned, Orderly, Careful

\* A number that the guest gives up takes its host descriptor with it, if it has one.
LEMMA CloseKeeps ==
  ASSUME FdInv, UNCHANGED guest, NEW n \in Number,
         held[n] # NONE \/ "close_any" \in guest, CloseNumber(n)
  PROVE  Keeps
<1> USE Numbers, MapConstants
<1>1. /\ host' = [h \in Host |-> IF h = n THEN NONE ELSE host[h]]
      /\ held' = [held EXCEPT ![n] = NONE] /\ made' = made /\ guest' = guest
      /\ fdmap' = fdmap /\ fdmap_next' = fdmap_next /\ streams' = streams
  BY DEF CloseNumber, HostCloses
<1>2. TypeOK /\ NoOrphan
  BY DEF FdInv, DescriptorsOwned
<1>3. TypeOK'
  BY <1>1, <1>2 DEF TypeOK
<1>4. NoOrphan'
  BY <1>1, <1>2 DEF NoOrphan, TypeOK
<1>5. ASSUME Orderly
      PROVE  OwnersApart' /\ KeepsNumbers
  <2>1. held[n] # NONE
    BY <1>5 DEF Orderly, Careful
  <2> USE <1>1, <1>2, <1>5, <2>1 DEF TypeOK, FdInv, OwnersApart, Orderly
  <2>2. NumbersTrue' /\ KeepsNumbers
    BY DEF NumbersTrue, KeepsNumbers
  <2>3. StreamsOpen'
    BY DEF StreamsOpen
  <2>4. SlotsOpen'
    BY DEF SlotsOpen
  <2>5. SocketsTrue'
    BY DEF SocketsTrue, SlotsOpen
  <2> QED BY <2>2, <2>3, <2>4, <2>5
<1> QED BY <1>1, <1>3, <1>4, <1>5 DEF Keeps, FdInv, DescriptorsOwned, Orderly, Careful

\* What a careful guest's transfer reaches, on a number it holds.
LEMMA ReachedFacts ==
  ASSUME TypeOK, OwnersApart, FilesBelowSockets, NEW n \in Number, held[n] # NONE
  PROVE  Reached(n) = held[n] \/ (n \in Host \ STD /\ Reached(n) = NONE)
<1> USE Numbers, MapConstants DEF TypeOK, OwnersApart
<1>1. CASE n \in STD
  BY <1>1 DEF Reached, HostFd, NumbersTrue
<1>2. CASE n \in Sockets
  <2>1. n \notin STD /\ fdmap[n - FDMAP_BASE] # NONE
        /\ host[fdmap[n - FDMAP_BASE]] = held[n]
    BY <1>2 DEF SocketsTrue
  <2> QED BY <1>2, <2>1 DEF Reached, HostFd
<1>3. CASE n \notin STD /\ n \notin Sockets
  BY <1>3 DEF Reached, HostFd, Number
<1> QED BY <1>1, <1>2, <1>3

LEMMA ReachedType ==
  ASSUME TypeOK, NEW n \in Number
  PROVE  HostFd(n) \in Host \cup {NONE} /\ Reached(n) \in Nat \cup {NONE}
BY Numbers, MapConstants DEF TypeOK, HostFd, Reached

LEMMA DupMappedKeeps ==
  ASSUME FdInv, UNCHANGED guest, DupMapped
  PROVE  Keeps
<1> USE Numbers, MapConstants
<1>1. PICK n \in Number, h \in Host :
        /\ host' = [host EXCEPT ![h] = Reached(n)] /\ held' = [held EXCEPT ![h] = held[n]]
        /\ made' = made /\ guest' = guest
        /\ fdmap' = fdmap /\ fdmap_next' = fdmap_next /\ streams' = streams
        /\ host[h] = NONE /\ held[n] # NONE /\ Reached(n) # NONE
  BY DEF DupMapped, Free
<1>2. TypeOK /\ NoOrphan /\ Reached(n) \in Nat
  BY <1>1, ReachedType DEF FdInv, DescriptorsOwned
<1>3. TypeOK'
  BY <1>1, <1>2 DEF TypeOK
<1>4. NoOrphan'
  BY <1>1, <1>2 DEF NoOrphan, TypeOK
<1>5. ASSUME Orderly
      PROVE  OwnersApart' /\ KeepsNumbers
  <2>1. Reached(n) = held[n]
    BY <1>1, <1>2, <1>5, ReachedFacts DEF FdInv, Orderly
  <2> USE <1>1, <1>2, <1>5, <2>1 DEF TypeOK, FdInv, OwnersApart, Orderly
  <2>2. NumbersTrue' /\ KeepsNumbers
    BY DEF NumbersTrue, KeepsNumbers
  <2>3. StreamsOpen'
    BY DEF StreamsOpen
  <2>4. SlotsOpen'
    BY DEF SlotsOpen
  <2>5. SocketsTrue'
    BY DEF SocketsTrue, SlotsOpen
  <2> QED BY <2>2, <2>3, <2>4, <2>5
<1> QED BY <1>1, <1>3, <1>4, <1>5 DEF Keeps, FdInv, DescriptorsOwned, Orderly, Careful

LEMMA DupUnmappedKeeps ==
  ASSUME FdInv, UNCHANGED guest, DupUnmapped
  PROVE  Keeps
<1> USE Numbers, MapConstants
<1>1. PICK n \in Number :
        /\ held' = [held EXCEPT ![0] = held[n]] /\ held[n] # NONE
        /\ host' = host /\ made' = made /\ guest' = guest
        /\ fdmap' = fdmap /\ fdmap_next' = fdmap_next /\ streams' = streams
  BY DEF DupUnmapped
<1>2. TypeOK /\ NoOrphan
  BY DEF FdInv, DescriptorsOwned
<1>3. TypeOK'
  BY <1>1, <1>2 DEF TypeOK
<1>4. NoOrphan'
  BY <1>1, <1>2 DEF NoOrphan, TypeOK
<1>5. ~Orderly
  BY DEF DupUnmapped, Orderly, Careful
<1> QED BY <1>1, <1>3, <1>4, <1>5 DEF Keeps, FdInv, DescriptorsOwned, Orderly, Careful

LEMMA FopenKeeps ==
  ASSUME FdInv, UNCHANGED guest, Fopen
  PROVE  Keeps
<1> USE Numbers, MapConstants
<1>1. TypeOK /\ NoOrphan
  BY DEF FdInv, DescriptorsOwned
<1>2. CASE UNCHANGED <<fdmap, fdmap_next, host, streams, held, made>>
  BY <1>1, <1>2 DEF Keeps, FdInv, DescriptorsOwned, Orderly, Careful, KeepsNumbers, TypeOK, NoOrphan,
         OwnersApart, NumbersTrue, StreamsOpen, SlotsOpen, SocketsTrue
<1>3. CASE \E h \in Host :
        /\ host' = [host EXCEPT ![h] = made] /\ streams' = streams \cup {h}
        /\ made' = made + 1 /\ host[h] = NONE
        /\ fdmap' = fdmap /\ fdmap_next' = fdmap_next /\ held' = held
  <2>1. PICK h \in Host :
        /\ host' = [host EXCEPT ![h] = made] /\ streams' = streams \cup {h}
        /\ made' = made + 1 /\ host[h] = NONE
        /\ fdmap' = fdmap /\ fdmap_next' = fdmap_next /\ held' = held
    BY <1>3
  <2>2. TypeOK'
    BY <1>1, <2>1 DEF TypeOK
  <2>3. NoOrphan'
    BY <1>1, <2>1 DEF NoOrphan, TypeOK
  <2>4. ASSUME Orderly
        PROVE  OwnersApart' /\ KeepsNumbers
    <3> USE <1>1, <2>1, <2>4 DEF TypeOK, FdInv, OwnersApart, Orderly
    <3>1. NumbersTrue' /\ KeepsNumbers
      BY DEF NumbersTrue, KeepsNumbers
    <3>2. StreamsOpen'
      BY DEF StreamsOpen, NumbersTrue
    <3>3. SlotsOpen'
      BY DEF SlotsOpen
    <3>4. SocketsTrue'
      BY DEF SocketsTrue, SlotsOpen
    <3> QED BY <3>1, <3>2, <3>3, <3>4
  <2> QED BY <2>2, <2>3, <2>4 DEF Keeps, FdInv, DescriptorsOwned, Orderly, Careful
<1> QED BY <1>2, <1>3 DEF Fopen, HostOpens, Free

LEMMA FcloseKeeps ==
  ASSUME FdInv, UNCHANGED guest, Fclose
  PROVE  Keeps
<1> USE Numbers, MapConstants
<1>1. PICK h \in streams :
        /\ host' = [g \in Host |-> IF g = h THEN NONE ELSE host[g]]
        /\ streams' = streams \ {h} /\ held' = held /\ made' = made /\ guest' = guest
        /\ fdmap' = fdmap /\ fdmap_next' = fdmap_next
  BY DEF Fclose, HostCloses
<1>2. TypeOK /\ NoOrphan
  BY DEF FdInv, DescriptorsOwned
<1>3. TypeOK'
  BY <1>1, <1>2 DEF TypeOK
<1>4. NoOrphan'
  BY <1>1, <1>2 DEF NoOrphan, TypeOK
<1>5. ASSUME Orderly
      PROVE  OwnersApart' /\ KeepsNumbers
  <2> USE <1>1, <1>2, <1>5 DEF TypeOK, FdInv, OwnersApart, Orderly
  <2>1. NumbersTrue' /\ KeepsNumbers
    BY DEF NumbersTrue, KeepsNumbers, StreamsOpen
  <2>2. StreamsOpen'
    BY DEF StreamsOpen
  <2>3. SlotsOpen'
    BY DEF SlotsOpen
  <2>4. SocketsTrue'
    BY DEF SocketsTrue, SlotsOpen
  <2> QED BY <2>1, <2>2, <2>3, <2>4
<1> QED BY <1>1, <1>3, <1>4, <1>5 DEF Keeps, FdInv, DescriptorsOwned, Orderly, Careful

LEMMA FdopenKeeps ==
  ASSUME FdInv, UNCHANGED guest, Fdopen
  PROVE  Keeps
<1> USE Numbers, MapConstants
<1>1. TypeOK /\ NoOrphan
  BY DEF FdInv, DescriptorsOwned
<1>2. PICK n \in Host :
        /\ held[n] # NONE /\ host[n] # NONE
        /\ fdmap' = fdmap /\ fdmap_next' = fdmap_next /\ made' = made /\ guest' = guest
        /\ \/ /\ streams' = streams \cup {n} /\ held' = [held EXCEPT ![n] = NONE]
              /\ host' = host
           \/ /\ "fdopen_full" \in guest /\ streams' = streams /\ held' = held
              /\ host' = [h \in Host |-> IF h = n THEN NONE ELSE host[h]]
  BY DEF Fdopen, HostCloses, Free
<1>3. TypeOK'
  <2>1. fdmap' = fdmap /\ fdmap_next' = fdmap_next /\ made' = made /\ guest' = guest
    BY <1>2
  <2>2. streams' \subseteq Host /\ held' \in [Number -> Object \cup {NONE}]
    BY <1>1, <1>2, ZenonT(30) DEF TypeOK
  <2>3. host' \in [Host -> Object \cup {NONE}]
    BY <1>1, <1>2 DEF TypeOK
  <2> QED BY <1>1, <2>1, <2>2, <2>3 DEF TypeOK
<1>4. NoOrphan'
  BY <1>1, <1>2 DEF NoOrphan, TypeOK
<1>5. ASSUME Orderly
      PROVE  OwnersApart' /\ KeepsNumbers
  <2>1. streams' = streams \cup {n} /\ held' = [held EXCEPT ![n] = NONE] /\ host' = host
    BY <1>2, <1>5 DEF Orderly, Careful
  <2> USE <1>1, <1>2, <1>5, <2>1 DEF TypeOK, FdInv, OwnersApart, Orderly
  <2>2. NumbersTrue' /\ KeepsNumbers
    BY DEF NumbersTrue, KeepsNumbers
  <2>3. StreamsOpen'
    BY DEF StreamsOpen
  <2>4. SlotsOpen'
    BY DEF SlotsOpen
  <2>5. SocketsTrue'
    BY DEF SocketsTrue
  <2> QED BY <2>2, <2>3, <2>4, <2>5
<1> QED BY <1>2, <1>3, <1>4, <1>5 DEF Keeps, FdInv, DescriptorsOwned, Orderly, Careful

LEMMA StepKeeps == FdInv /\ [Next]_vars => Keeps
<1> SUFFICES ASSUME FdInv, [Next]_vars PROVE Keeps
  OBVIOUS
<1>1. CASE UNCHANGED vars
  BY <1>1 DEF vars, Keeps, FdInv, DescriptorsOwned, Orderly, Careful, KeepsNumbers, TypeOK, NoOrphan,
         OwnersApart, NumbersTrue, StreamsOpen, SlotsOpen, SocketsTrue
<1>2. CASE Next
  <2>1. UNCHANGED guest
    BY <1>2 DEF Next
  <2>2. CASE Socket
    BY <1>1, <2>1, <2>2, SocketKeeps DEF Socket, SocketRefused
  <2>3. CASE Open
    BY <2>1, <2>3, OpenKeeps DEF Open
  <2>4. CASE Close
    BY <2>1, <2>4, CloseKeeps DEF Close
  <2> QED BY <1>2, <2>1, <2>2, <2>3, <2>4, DupMappedKeeps, DupUnmappedKeeps,
             FopenKeeps, FcloseKeeps, FdopenKeeps DEF Next
<1> QED BY <1>1, <1>2

LEMMA AlwaysFdInv == Spec => []FdInv
<1>1. FdInv /\ [Next]_vars => FdInv'
  BY StepKeeps DEF Keeps
<1> QED BY <1>1, InitOwned, PTL DEF Spec

-----------------------------------------------------------------------------
\* Whatever the guest does, and whichever table is full, every open descriptor of the
\* host is a FILE's, a socket slot's or has a number the guest knows (hle.c
\* 250-427, 747-759, 1656-1726; syscall.c 237-265).
THEOREM EveryDescriptorOwned == Spec => []DescriptorsOwned
<1>1. FdInv => DescriptorsOwned
  BY DEF FdInv
<1> QED BY <1>1, AlwaysFdInv, PTL

\* A careful guest's transfer acts on the object its number was given out for, for
\* tables of any size, as long as the host's numbers stay below 64.
THEOREM TransfersReachTheirOwn ==
  ASSUME FilesBelowSockets
  PROVE  Spec => []NeverAnother
<1>1. FdInv => NeverAnother
  BY ReachedFacts DEF FdInv, DescriptorsOwned, NeverAnother, Orderly
<1> QED BY <1>1, AlwaysFdInv, PTL

\* Under the same condition no number is given out that a careful guest still has.
THEOREM NumbersGivenOnce ==
  ASSUME FilesBelowSockets
  PROVE  Spec => NotGivenTwice
<1>1. FdInv /\ [Next]_vars =>
        [Careful => \A n \in Number : held[n] # NONE => held'[n] \in {NONE, held[n]}]_vars
  BY StepKeeps DEF Keeps, KeepsNumbers, Orderly
<1> QED BY <1>1, AlwaysFdInv, PTL DEF Spec, NotGivenTwice

LEMMA LeastNumber ==
  ASSUME NEW S, S \subseteq Nat, S # {}
  PROVE  \E d \in S : \A e \in S : d <= e
<1>1. PICK d \in S : \A e \in S : <<e, d>> \notin OpToRel(<, Nat)
  BY NatLessThanWellFounded, WFMin
<1>2. \A e \in S : ~(e < d)
  BY <1>1 DEF OpToRel
<1> QED BY <1>2

\* The guest is told that there are too many sockets only when every slot is taken: the
\* search from fdmap_next on, wrapping around, passes none by (hle.c 248-262).
THEOREM RefusedOnlyWhenFull ==
  ASSUME TypeOK, SocketRefused
  PROVE  \A s \in Slot : fdmap[s] # NONE
<1> SUFFICES ASSUME NEW t \in Slot, fdmap[t] = NONE PROVE \E s \in Slot : FreeSlot(s)
  BY DEF SocketRefused
<1> DEFINE Distance(s) == (s - (fdmap_next - FDMAP_BASE)) % FDMAP_SIZE
           far == {Distance(s) : s \in {u \in Slot : fdmap[u] = NONE}}
<1>1. \A s \in Slot : Distance(s) \in Nat
  BY MapConstants DEF TypeOK, Slot
<1>2. far \subseteq Nat /\ far # {}
  BY <1>1
<1> HIDE DEF far
<1>3. PICK d \in far : \A e \in far : d <= e
  BY <1>2, LeastNumber
<1> USE DEF far
<1>4. PICK s \in Slot : fdmap[s] = NONE /\ d = Distance(s)
  BY <1>3
<1> QED BY <1>3, <1>4 DEF FreeSlot
=============================================================================
