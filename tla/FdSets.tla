------------------------------- MODULE FdSets -------------------------------
(***************************************************************************)
(* select of hle.c.  The guest's fd_set is an array of words whose bit n   *)
(* stands for descriptor n; in its memory the words are big-endian.  The   *)
(* code takes the memory for an array of bytes instead, bit n % 8 of byte  *)
(* n / 8, when it reads the question and when it writes the answer.        *)
(***************************************************************************)
EXTENDS Integers, FiniteSets

CONSTANTS
  ByteBits,     \* bits of a byte (8)
  FdBits,       \* bits of an fd_set (1024)
  FirstSocket,  \* FDMAP_BASE
  SocketSlots   \* FDMAP_SIZE

WordBits == 4 * ByteBits

ASSUME FdSetsAssumption ==
  /\ ByteBits \in Nat \ {0} /\ FdBits \in Nat /\ FdBits % WordBits = 0
  /\ FirstSocket \in Nat /\ FirstSocket > 2 /\ SocketSlots \in Nat \ {0}
  /\ FirstSocket + SocketSlots <= FdBits

UNMAPPED == -1

Descriptors == 0 .. FirstSocket + SocketSlots - 1   \* what the loops go through

\* hle_host_fd, for the map's slots.
HostOf(slots, n) ==
  CASE n \in 0 .. 2 -> n
    [] n \in FirstSocket .. FirstSocket + SocketSlots - 1 -> slots[n - FirstSocket]
    [] OTHER -> UNMAPPED

\* The descriptor the code sees where the guest has set bit n, and the bit the
\* guest sees where the code has set n: the bytes of the word the other way round.
Seen(n) ==
  LET byte == (n % WordBits) \div ByteBits
  IN  (n - (n % WordBits)) + (3 - byte) * ByteBits + (n % ByteBits)

\* The host descriptors put into one of the host's sets.
Watched(slots, asked) ==
  {HostOf(slots, Seen(n)) : n \in {m \in asked : Seen(m) \in Descriptors}} \ {UNMAPPED}

\* Mutant: the answer is written in the guest's order.
AnswerBits_Guest(slots, hosts) == {g \in Descriptors : HostOf(slots, g) \in hosts}

\* The bits the guest finds set afterwards, when the host has found `hosts' ready.
AnswerBits(slots, hosts) == {Seen(g) : g \in {d \in Descriptors : HostOf(slots, d) \in hosts}}

Directions == {"read", "write"}

\* What is asked of the host: nothing about a set that could not be read.
Question(slots, asked, mapped) ==
  [w \in Directions |-> IF w \in mapped THEN Watched(slots, asked[w]) ELSE {}]

\* The third set is neither read nor written.  A set that could not be read is written
\* all the same, if that is possible.  An error leaves all three.
Select(slots, asked, mapped) ==
  LET question == Question(slots, asked, mapped)
      Answers  == {r \in [Directions -> SUBSET (question["read"] \cup question["write"])] :
                     \A w \in Directions : r[w] \subseteq question[w]}
  IN  {[ret |-> Cardinality(ready["read"]) + Cardinality(ready["write"]),
        sets |-> [w \in Directions |->
                    IF w \in written THEN AnswerBits(slots, ready[w]) ELSE asked[w]]] :
          ready \in Answers, written \in {W \in SUBSET Directions : mapped \subseteq W}}
      \cup {[ret |-> UNMAPPED, sets |-> asked]}

-----------------------------------------------------------------------------
\* No two numbers lead to one descriptor of the host.
Injective(slots) ==
  \A m, n \in Descriptors :
    m # n /\ HostOf(slots, m) # UNMAPPED => HostOf(slots, m) # HostOf(slots, n)

\* An answer is about descriptors asked about, in each direction, and counts those of
\* the sets that could be read right.
AboutAsked(asked, mapped, answer) ==
  LET Found(w) == IF w \in mapped THEN answer.sets[w] ELSE {}
  IN  /\ \A w \in Directions : answer.sets[w] \subseteq asked[w]
      /\ answer.ret = Cardinality(Found("read")) + Cardinality(Found("write"))
=============================================================================
