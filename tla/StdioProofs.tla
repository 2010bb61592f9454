---------------------------- MODULE StdioProofs -----------------------------
(***************************************************************************)
(* Theorems about the guest's streams and directories, for a table of any  *)
(* size and any number of host objects: the table and the host agree, a    *)
(* stream's bytes come in order, and its flags are its own and true.  Each *)
(* theorem names what it needs of the guest, the files and the sizes.      *)
(***************************************************************************)
EXTENDS Stdio, WellFoundedInduction, TLAPS

HostObject ==
  [is : {"closed", "r", "w", "dir"}, data : Files \cup {<<>>}, eof : {0, 1}, err : {0, 1},
   pos : Nat, given : SUBSET Nat, astray : {0, 1}]

Standard == [pos : Nat, given : SUBSET Nat, astray : {0, 1}]

Types ==
  /\ sf_kind \in [Slots -> {FREE, STD, FILE, DIR}]
  /\ sf_host \in [Slots -> {NONE} \cup Objects]
  /\ sf_eof \in Flags /\ sf_err \in Flags
  /\ host \in [Objects -> HostObject]
  /\ input \in Standard
  /\ held \in [Slots -> {FREE, FILE, DIR}]

\* No position is past the end.
Positions ==
  /\ \A o \in Objects : host[o].pos <= Len(host[o].data)
  /\ input.pos <= Len(Input)

\* A slot is as the guest holds it: a standard one has no host object; any other
\* has one, of its kind, if it is held, and none if not.
SlotRight(s) ==
  IF s \in Std
    THEN /\ sf_host[s] = NONE
         /\ \/ sf_kind[s] = STD /\ held[s] = FILE
            \/ sf_kind[s] = FREE /\ held[s] = FREE
    ELSE /\ sf_kind[s] = held[s]
         /\ held[s] = FREE => sf_host[s] = NONE
         /\ held[s] # FREE =>
              /\ sf_host[s] \in Objects
              /\ host[sf_host[s]].is \in IF held[s] = DIR THEN {"dir"} ELSE {"r", "w"}

SlotsRight == \A s \in Slots : SlotRight(s)

\* No two slots share a host object.
Distinct ==
  \A s, t \in Slots : s # t /\ sf_host[s] # NONE => sf_host[t] # sf_host[s]

\* Every open object of the host is in a slot.
AllInSlots ==
  "fclosedir" \notin Habits =>
    \A o \in Objects : host[o].is # "closed" => \E s \in Slots : sf_host[s] = o

TableInv == Types /\ Positions /\ SlotsRight /\ Distinct /\ AllInSlots

\* A host's end-of-file flag is set only at the end; so is standard input's, where
\* reads are not cut short and fgets has room for a byte.
WholeReads == "pipe" \notin Habits /\ 1 \notin LineSizes
EndInv ==
  /\ \A o \in Objects : host[o].eof = 1 => host[o].pos = Len(host[o].data)
  /\ WholeReads /\ sf_kind[0] = STD /\ sf_eof[0] = 1 => input.pos = Len(Input)

\* A stream that is not astray, whatever it is open for.
TailsInv ==
  /\ input.astray = 0 => OnlyTails(Input, input.pos, input.given)
  /\ \A o \in Objects :
       host[o].astray = 0 => OnlyTails(host[o].data, host[o].pos, host[o].given)

StdioInv == TableInv /\ EndInv /\ ErrorsAreOwn /\ TailsInv

-----------------------------------------------------------------------------
LEMMA Constants ==
  /\ StreamSlots \in Nat /\ StreamSlots > 3 /\ HostMax \in Nat
  /\ Std \subseteq Slots /\ Std = {0, 1, 2} /\ 0 \in Slots
  /\ NONE \notin Objects /\ Objects \subseteq Nat
  /\ \A s \in Slots : s \in Nat /\ (s \notin Std <=> s >= 3)
BY StdioAssumption DEF Std, Slots, Objects, NONE

LEMMA Contents ==
  /\ Input \in Seq({CHAR, NL}) /\ Len(Input) \in Nat
  /\ \A bytes \in Files \cup {<<>>} : bytes \in Seq({CHAR, NL}) /\ Len(bytes) \in Nat
  /\ Closed \in HostObject /\ Closed.pos = 0 /\ Closed.given = {}
  /\ Unread \in Standard /\ Unread.pos = 0 /\ Unread.given = {}
  /\ Closed.is = "closed" /\ Closed.eof = 0 /\ Closed.err = 0
  /\ \A kind \in {"r", "w", "dir"}, bytes \in Files \cup {<<>>} :
       /\ Opened(kind, bytes) \in HostObject /\ Opened(kind, bytes).is = kind
       /\ Opened(kind, bytes).pos = 0 /\ Opened(kind, bytes).given = {}
       /\ Opened(kind, bytes).eof = 0 /\ Opened(kind, bytes).err = 0
       /\ Opened(kind, bytes).data = bytes
<1>1. Input \in Seq({CHAR, NL}) /\ Len(Input) \in Nat
  BY StdioAssumption
<1>2. \A bytes \in Files \cup {<<>>} : bytes \in Seq({CHAR, NL}) /\ Len(bytes) \in Nat
  <2>1. <<>> \in Seq({CHAR, NL}) /\ Len(<<>>) = 0
    OBVIOUS
  <2>2. \A bytes \in Files : bytes \in Seq({CHAR, NL}) /\ Len(bytes) \in Nat
    BY StdioAssumption
  <2> QED BY <2>1, <2>2
<1>3. Closed \in HostObject
  BY DEF Closed, HostObject
<1>4. Unread \in Standard
  BY DEF Unread, Standard
<1> QED BY <1>1, <1>2, <1>3, <1>4 DEF Closed, Opened, HostObject, Unread

\* Of a stream at its start nothing is missing.
LEMMA NothingYet == \A D : OnlyTails(D, 0, {})
BY DEF OnlyTails

\* A read that hands over all it got, or a line of it in a buffer of fgets.
LEMMA TailsStay ==
  ASSUME NEW D, NEW p \in Nat, NEW G, NEW got \in Nat, NEW out \in 0 .. got,
         OnlyTails(D, p, G), got > 0 => out > 0,
         out < got => D[p + out] = NL /\ \E n \in LineSizes : got <= n - 1
  PROVE  OnlyTails(D, p + got, G \cup (p + 1 .. p + out))
<1> USE StdioAssumption
<1> DEFINE H == G \cup (p + 1 .. p + out)
<1>1. H \subseteq 1 .. p + got
  BY DEF OnlyTails
<1>2. ASSUME NEW k \in (1 .. p + got) \ H
      PROVE  \E q \in H, n \in LineSizes :
               /\ D[q] = NL /\ q < k /\ k - q <= n - 2
               /\ (q + 1 .. k) \cap H = {}
  <2>1. CASE k <= p
    <3>1. k \in (1 .. p) \ G
      BY <1>2, <2>1
    <3>2. PICK q \in G, n \in LineSizes :
            /\ D[q] = NL /\ q < k /\ k - q <= n - 2
            /\ (q + 1 .. k) \cap G = {}
      BY <3>1 DEF OnlyTails
    <3>3. (q + 1 .. k) \cap H = {}
      BY <2>1, <3>1, <3>2
    <3> QED BY <3>2, <3>3
  <2>2. CASE k > p
    <3>1. p + out < k /\ k <= p + got /\ out < got /\ out > 0
      BY <1>2, <2>2
    <3>2. PICK n \in LineSizes : got <= n - 1
      BY <3>1
    <3>3. p + out \in H /\ D[p + out] = NL
      BY <3>1
    <3>4. k - (p + out) <= n - 2
      BY <1>2, <3>1, <3>2
    <3>5. (p + out + 1 .. k) \cap H = {}
      BY <3>1 DEF OnlyTails
    <3> QED BY <3>1, <3>3, <3>4, <3>5
  <2> QED BY <1>2, <2>1, <2>2
<1> QED BY <1>1, <1>2 DEF OnlyTails

LEMMA LeastNumber ==
  ASSUME NEW S, S \subseteq Nat, S # {}
  PROVE  \E d \in S : \A e \in S : d <= e
<1>1. PICK d \in S : \A e \in S : <<e, d>> \notin OpToRel(<, Nat)
  BY NatLessThanWellFounded, WFMin
<1>2. \A e \in S : ~(e < d)
  BY <1>1 DEF OpToRel
<1> QED BY <1>2

LEMMA LeastOf == ASSUME NEW S, S \subseteq Nat, S # {} PROVE Min(S) \in S
<1>1. PICK d \in S : \A e \in S : d <= e
  BY LeastNumber
<1> QED BY <1>1 DEF Min

LEMMA InitInv == Init => StdioInv
<1> SUFFICES ASSUME Init PROVE StdioInv
  OBVIOUS
<1> USE Constants DEF Init
<1>1. Types
  <2>1. host \in [Objects -> HostObject] /\ input \in Standard
    BY Contents
  <2> QED BY <2>1 DEF Types, Flags
<1>2. Positions
  <2>1. \A o \in Objects : host[o].pos = 0 /\ Len(host[o].data) \in Nat
    BY <1>1, Contents DEF Types, HostObject
  <2> QED BY <2>1, Contents DEF Positions
<1>3. SlotsRight
  BY DEF SlotsRight, SlotRight, FREE, STD, FILE
<1>4. Distinct /\ AllInSlots
  BY Contents DEF Distinct, AllInSlots
<1>5. EndInv /\ TailsInv
  BY Contents, NothingYet DEF EndInv, TailsInv
<1>6. ErrorsAreOwn
  BY DEF ErrorsAreOwn
<1> QED BY <1>1, <1>2, <1>3, <1>4, <1>5, <1>6 DEF StdioInv, TableInv

-----------------------------------------------------------------------------
(***************************************************************************)
(* Slots are taken and given back.                                         *)
(***************************************************************************)
\* A slot that is taken is free and has no object, and the object it is given is in
\* no slot.
LEMMA Taken ==
  ASSUME TableInv, NEW s \in Slots, Takes(s), Spare # {}
  PROVE  /\ Min(Spare) \in Objects /\ host[Min(Spare)].is = "closed"
         /\ s \notin Std /\ sf_kind[s] = FREE /\ held[s] = FREE /\ sf_host[s] = NONE
         /\ \A t \in Slots : sf_host[t] # Min(Spare)
<1> USE Constants DEF TableInv
<1>1. Min(Spare) \in Spare
  BY LeastOf DEF Spare
<1>2. s \notin Std /\ sf_kind[s] = FREE
  BY DEF Takes, Available
<1>3. held[s] = FREE /\ sf_host[s] = NONE
  BY <1>2 DEF SlotsRight, SlotRight
<1>4. \A t \in Slots : sf_host[t] # NONE => host[sf_host[t]].is # "closed"
  BY DEF SlotsRight, SlotRight
<1> QED BY <1>1, <1>2, <1>3, <1>4 DEF Spare

\* An object opened in a free slot: what an fopen and an opendir share.
LEMMA EnterKeeps ==
  ASSUME TableInv, NEW s \in Slots, Takes(s), Spare # {},
         NEW kind \in {FILE, DIR}, NEW mode \in {"r", "w", "dir"},
         kind = DIR <=> mode = "dir", NEW bytes \in Files \cup {<<>>},
         sf_kind' = [sf_kind EXCEPT ![s] = kind],
         sf_host' = [sf_host EXCEPT ![s] = Min(Spare)],
         held' = [held EXCEPT ![s] = kind],
         host' = [host EXCEPT ![Min(Spare)] = Opened(mode, bytes)],
         sf_eof' \in Flags, sf_err' \in Flags, input' = input
  PROVE  TableInv'
<1> DEFINE o == Min(Spare)
<1>1. /\ o \in Objects /\ host[o].is = "closed"
      /\ s \notin Std /\ sf_kind[s] = FREE /\ held[s] = FREE /\ sf_host[s] = NONE
      /\ \A t \in Slots : sf_host[t] # o
  BY Taken
<1> HIDE DEF o
<1>2. /\ sf_host' = [sf_host EXCEPT ![s] = o]
      /\ host' = [host EXCEPT ![o] = Opened(mode, bytes)]
  BY DEF o
<1> USE Constants, Contents DEF TableInv
<1>3. Types'
  <2>1. Types /\ Opened(mode, bytes) \in HostObject
    OBVIOUS
  <2>2. host' \in [Objects -> HostObject]
    BY <1>1, <1>2, <2>1 DEF Types
  <2>3. sf_host' \in [Slots -> {NONE} \cup Objects]
    BY <1>1, <1>2, <2>1 DEF Types
  <2> QED BY <2>1, <2>2, <2>3 DEF Types, FREE, STD, FILE, DIR
<1>4. Positions'
  BY <1>1, <1>2 DEF Positions, Types
<1>5. SlotsRight'
  <2> SUFFICES ASSUME NEW t \in Slots PROVE SlotRight(t)'
    BY DEF SlotsRight
  <2>1. CASE t = s
    BY <1>1, <1>2, <2>1 DEF SlotRight, Types, FREE, FILE, DIR
  <2>2. CASE t # s
    <3>1. sf_kind'[t] = sf_kind[t] /\ held'[t] = held[t] /\ sf_host'[t] = sf_host[t]
      BY <1>2, <2>2 DEF Types
    <3>2. sf_host[t] \in Objects => host'[sf_host[t]] = host[sf_host[t]]
      BY <1>1, <1>2 DEF Types
    <3> QED BY <3>1, <3>2 DEF SlotRight, SlotsRight
  <2> QED BY <2>1, <2>2
<1>6. Distinct'
  BY <1>1, <1>2 DEF Distinct, Types
<1>7. AllInSlots'
  <2> SUFFICES ASSUME "fclosedir" \notin Habits, NEW p \in Objects, host'[p].is # "closed"
               PROVE  \E t \in Slots : sf_host'[t] = p
    BY DEF AllInSlots
  <2>1. CASE p = o
    BY <1>2, <2>1 DEF Types
  <2>2. CASE p # o
    <3>1. host'[p] = host[p]
      BY <1>2, <2>2 DEF Types
    <3>2. PICK t \in Slots : sf_host[t] = p
      BY <3>1 DEF AllInSlots
    <3>3. t # s
      BY <1>1, <3>2
    <3> QED BY <1>2, <3>2, <3>3 DEF Types
  <2> QED BY <2>1, <2>2
<1> QED BY <1>3, <1>4, <1>5, <1>6, <1>7

\* A slot that is given back, its host object closed or, by an fclose of a directory,
\* lost.
LEMMA LeaveKeeps ==
  ASSUME TableInv, NEW s \in Slots, held[s] # FREE, GiveBack(s),
         \/ host' = host /\ (sf_host[s] = NONE \/ "fclosedir" \in Habits)
         \/ host' = [host EXCEPT ![sf_host[s]] = Closed] /\ sf_host[s] \in Objects,
         UNCHANGED <<sf_eof, sf_err, input>>
  PROVE  TableInv'
<1> USE Constants, Contents DEF TableInv
<1>1. /\ sf_kind' = [sf_kind EXCEPT ![s] = FREE] /\ held' = [held EXCEPT ![s] = FREE]
      /\ sf_host' = [sf_host EXCEPT ![s] = NONE]
      /\ sf_eof' = sf_eof /\ sf_err' = sf_err /\ input' = input
  BY DEF GiveBack
<1>2. /\ host' \in [Objects -> HostObject]
      /\ \A p \in Objects : host'[p] = host[p] \/ (p = sf_host[s] /\ host'[p] = Closed)
  BY DEF Types
<1>3. Types'
  BY <1>1, <1>2 DEF Types, FREE, STD, FILE, DIR
<1>4. Positions'
  <2>1. Len(Closed.data) = 0
    BY DEF Closed
  <2> QED BY <1>1, <1>2, <2>1 DEF Positions
<1>5. SlotsRight'
  <2> SUFFICES ASSUME NEW t \in Slots PROVE SlotRight(t)'
    BY DEF SlotsRight
  <2>1. CASE t = s
    BY <1>1, <2>1 DEF SlotRight, SlotsRight, Types, FREE, FILE, DIR
  <2>2. CASE t # s
    <3>1. sf_kind'[t] = sf_kind[t] /\ held'[t] = held[t] /\ sf_host'[t] = sf_host[t]
      BY <1>1, <2>2 DEF Types
    <3>2. sf_host[t] \in Objects => host'[sf_host[t]] = host[sf_host[t]]
      BY <1>2, <2>2 DEF Distinct
    <3> QED BY <3>1, <3>2 DEF SlotRight, SlotsRight
  <2> QED BY <2>1, <2>2
<1>6. Distinct'
  BY <1>1 DEF Distinct, Types
<1>7. AllInSlots'
  <2> SUFFICES ASSUME "fclosedir" \notin Habits, NEW p \in Objects, host'[p].is # "closed"
               PROVE  \E t \in Slots : sf_host'[t] = p
    BY DEF AllInSlots
  <2>1. host'[p] = host[p] /\ p # sf_host[s]
    BY <1>2 DEF Types
  <2>2. PICK t \in Slots : sf_host[t] = p
    BY <2>1 DEF AllInSlots
  <2> QED BY <1>1, <2>1, <2>2 DEF Types
<1> QED BY <1>3, <1>4, <1>5, <1>6, <1>7

\* A FILE's slot is the guest's, and its object is the slot's alone.
LEMMA FileFacts ==
  ASSUME TableInv, NEW s \in Slots, OfFile(s)
  PROVE  /\ s \notin Std /\ held[s] = FILE /\ sf_host[s] \in Objects
         /\ File(s).is \in {"r", "w"} /\ File(s) \in HostObject
         /\ \A t \in Slots \ {s} : sf_host[t] # sf_host[s]
<1> USE Constants DEF TableInv
<1>1. s \notin Std /\ held[s] = FILE
  BY DEF OfFile, SlotsRight, SlotRight, FREE, STD, FILE, DIR
<1>2. sf_host[s] \in Objects /\ File(s).is \in {"r", "w"}
  BY <1>1 DEF SlotsRight, SlotRight, File, FREE, STD, FILE, DIR
<1>3. File(s) \in HostObject
  BY <1>2 DEF Types, File
<1> QED BY <1>1, <1>2, <1>3 DEF Distinct

LEMMA Unchanged == StdioInv /\ UNCHANGED vars => StdioInv'
BY DEF vars, table, StdioInv, TableInv, EndInv, TailsInv, ErrorsAreOwn, Types, Positions,
       SlotsRight, SlotRight, Distinct, AllInSlots, OfFile, File

\* The flags of the other slots are as true as before.
LEMMA LeaveFlags ==
  ASSUME StdioInv, NEW s \in Slots, GiveBack(s),
         \/ host' = host
         \/ host' = [host EXCEPT ![sf_host[s]] = Closed] /\ sf_host[s] \in Objects,
         UNCHANGED <<sf_eof, sf_err, input>>
  PROVE  EndInv' /\ ErrorsAreOwn' /\ TailsInv'
<1> USE Constants, Contents
<1>1. /\ sf_kind' = [sf_kind EXCEPT ![s] = FREE] /\ sf_host' = [sf_host EXCEPT ![s] = NONE]
      /\ sf_eof' = sf_eof /\ sf_err' = sf_err /\ input' = input
  BY DEF GiveBack
<1>2. /\ Types /\ Distinct
      /\ \A p \in Objects : host'[p] = host[p] \/ (p = sf_host[s] /\ host'[p] = Closed)
  BY DEF StdioInv, TableInv, Types
<1>3. EndInv'
  <2>1. \A p \in Objects : host'[p].eof = 1 => host'[p].pos = Len(host'[p].data)
    BY <1>2 DEF StdioInv, EndInv
  <2>2. sf_kind'[0] = STD => sf_kind[0] = STD
    BY <1>1, <1>2 DEF Types, FREE, STD
  <2> QED BY <1>1, <2>1, <2>2 DEF StdioInv, EndInv
<1>4. TailsInv'
  <2> SUFFICES ASSUME NEW p \in Objects, host'[p].astray = 0
               PROVE  OnlyTails(host'[p].data, host'[p].pos, host'[p].given)
    BY <1>1 DEF StdioInv, TailsInv
  <2>1. CASE host'[p] = host[p]
    BY <2>1 DEF StdioInv, TailsInv
  <2>2. CASE host'[p] = Closed
    <3>1. host'[p].pos = 0 /\ host'[p].given = {}
      BY <2>2 DEF Closed
    <3> QED BY <3>1, NothingYet
  <2> QED BY <1>2, <2>1, <2>2
<1>5. ErrorsAreOwn'
  <2> SUFFICES ASSUME NEW t \in Slots, OfFile(t)', sf_err'[t] = 1 PROVE File(t)'.err = 1
    BY DEF ErrorsAreOwn
  <2>1. t # s /\ OfFile(t) /\ sf_host'[t] = sf_host[t]
    BY <1>1, <1>2 DEF OfFile, Types, FREE, FILE
  <2>2. sf_host[t] \in Objects /\ sf_host[t] # sf_host[s]
    BY <2>1, FileFacts DEF StdioInv
  <2>3. host'[sf_host[t]] = host[sf_host[t]]
    BY <1>2, <2>2
  <2>4. sf_err[t] = 1 => File(t).err = 1
    BY <2>1 DEF StdioInv, ErrorsAreOwn
  <2> QED BY <1>1, <2>1, <2>3, <2>4 DEF File
<1> QED BY <1>3, <1>4, <1>5

LEMMA FopenKeeps == ASSUME StdioInv, Fopen PROVE StdioInv'
<1> USE Constants, Contents
<1>1. PICK mode \in {"r", "w"}, bytes \in Files :
        /\ Spare # {} /\ (mode = "w" => bytes = <<>>)
        /\ \/ \E s \in Slots : Takes(s) /\ FopenInto(s, Min(Spare), mode, bytes)
           \/ UNCHANGED vars
  BY DEF Fopen, NoSlot
<1>2. CASE UNCHANGED vars
  BY <1>2, Unchanged
<1>3. CASE \E s \in Slots : Takes(s) /\ FopenInto(s, Min(Spare), mode, bytes)
  <2>1. PICK s \in Slots : Takes(s) /\ FopenInto(s, Min(Spare), mode, bytes)
    BY <1>3
  <2> DEFINE o == Min(Spare)
  <2>2. /\ o \in Objects /\ host[o].is = "closed" /\ s \notin Std
        /\ \A t \in Slots : sf_host[t] # o
    BY <1>1, <2>1, Taken DEF StdioInv
  <2>3. Types /\ sf_eof' \in Flags /\ sf_err' \in Flags /\ mode # "dir" /\ FILE # DIR
    BY <2>1 DEF StdioInv, TableInv, Types, Flags, FopenInto, FILE, DIR
  <2>4. TableInv'
    BY <1>1, <2>1, <2>3, EnterKeeps DEF StdioInv, FopenInto
  <2> HIDE DEF o
  <2>5. /\ host' = [host EXCEPT ![o] = Opened(mode, bytes)]
        /\ sf_kind' = [sf_kind EXCEPT ![s] = FILE] /\ sf_host' = [sf_host EXCEPT ![s] = o]
        /\ sf_eof' = [sf_eof EXCEPT ![s] = 0] /\ sf_err' = [sf_err EXCEPT ![s] = 0]
        /\ input' = input
    BY <2>1 DEF FopenInto, o
  <2>6. EndInv' /\ TailsInv'
    <3>1. /\ host'[o].eof = 0 /\ host'[o].pos = 0 /\ host'[o].given = {}
          /\ \A p \in Objects : p # o => host'[p] = host[p]
      BY <2>2, <2>3, <2>5 DEF Types
    <3>2. sf_kind'[0] = sf_kind[0] /\ sf_eof'[0] = sf_eof[0]
      BY <2>2, <2>3, <2>5 DEF Types, Flags
    <3>3. EndInv'
      BY <2>5, <3>1, <3>2 DEF StdioInv, EndInv
    <3>4. TailsInv'
      <4>1. OnlyTails(host'[o].data, host'[o].pos, host'[o].given)
        BY <3>1, NothingYet
      <4> QED BY <2>5, <3>1, <4>1 DEF StdioInv, TailsInv
    <3> QED BY <3>3, <3>4
  <2>7. ErrorsAreOwn'
    BY <2>2, <2>3, <2>5 DEF StdioInv, ErrorsAreOwn, OfFile, File, Types, Flags
  <2> QED BY <2>4, <2>6, <2>7 DEF StdioInv
<1> QED BY <1>1, <1>2, <1>3

LEMMA OpendirKeeps == ASSUME StdioInv, Opendir PROVE StdioInv'
<1> USE Constants, Contents
<1>1. CASE UNCHANGED vars
  BY <1>1, Unchanged
<1>2. CASE ~UNCHANGED vars
  <2>1. PICK s \in Slots :
          /\ Takes(s) /\ Spare # {}
          /\ sf_kind' = [sf_kind EXCEPT ![s] = DIR]
          /\ sf_host' = [sf_host EXCEPT ![s] = Min(Spare)]
          /\ host' = [host EXCEPT ![Min(Spare)] = Opened("dir", <<>>)]
          /\ held' = [held EXCEPT ![s] = DIR]
          /\ sf_eof' = sf_eof /\ sf_err' = sf_err /\ input' = input
    BY <1>2 DEF Opendir, NoSlot
  <2> DEFINE o == Min(Spare)
  <2>2. /\ o \in Objects /\ host[o].is = "closed" /\ s \notin Std
        /\ \A t \in Slots : sf_host[t] # o
    BY <2>1, Taken DEF StdioInv
  <2>3. Types /\ sf_eof' \in Flags /\ sf_err' \in Flags /\ FILE # DIR
    BY <2>1 DEF StdioInv, TableInv, Types, FILE, DIR
  <2>4. TableInv'
    BY <2>1, <2>3, EnterKeeps DEF StdioInv
  <2> HIDE DEF o
  <2>5. /\ host' = [host EXCEPT ![o] = Opened("dir", <<>>)]
        /\ sf_host' = [sf_host EXCEPT ![s] = o]
    BY <2>1 DEF o
  <2>6. EndInv' /\ TailsInv'
    <3>1. /\ host'[o].eof = 0 /\ host'[o].pos = 0 /\ host'[o].given = {}
          /\ \A p \in Objects : p # o => host'[p] = host[p]
      BY <2>2, <2>3, <2>5 DEF Types
    <3>2. sf_kind'[0] = sf_kind[0] /\ sf_eof'[0] = sf_eof[0]
      BY <2>1, <2>2, <2>3, <2>5 DEF Types, Flags
    <3>3. EndInv'
      BY <2>1, <2>5, <3>1, <3>2 DEF StdioInv, EndInv
    <3>4. TailsInv'
      <4>1. OnlyTails(host'[o].data, host'[o].pos, host'[o].given)
        BY <3>1, NothingYet
      <4> QED BY <2>1, <2>5, <3>1, <4>1 DEF StdioInv, TailsInv
    <3> QED BY <3>3, <3>4
  <2>7. ErrorsAreOwn'
    BY <2>1, <2>2, <2>3, <2>5 DEF StdioInv, ErrorsAreOwn, OfFile, File, Types, Flags
  <2> QED BY <2>4, <2>6, <2>7 DEF StdioInv
<1> QED BY <1>1, <1>2

LEMMA FcloseKeeps == ASSUME StdioInv, Fclose PROVE StdioInv'
<1> USE Constants, Contents
<1>1. PICK s \in Slots :
        /\ held[s] = FILE \/ (held[s] = DIR /\ "fclosedir" \in Habits)
        /\ host' = IF sf_kind[s] = FILE /\ sf_host[s] # NONE
                     THEN [host EXCEPT ![sf_host[s]] = Closed] ELSE host
        /\ GiveBack(s)
        /\ sf_eof' = sf_eof /\ sf_err' = sf_err /\ input' = input
  BY DEF Fclose
<1>2. Types /\ SlotRight(s) /\ Distinct
  BY DEF StdioInv, TableInv, SlotsRight
<1>3. held[s] # FREE
  BY <1>1 DEF FREE, FILE, DIR
<1>4. \/ host' = host /\ (sf_host[s] = NONE \/ "fclosedir" \in Habits)
      \/ host' = [host EXCEPT ![sf_host[s]] = Closed] /\ sf_host[s] \in Objects
  BY <1>1, <1>2 DEF SlotRight, Types, FREE, FILE, DIR
<1>5. TableInv'
  BY <1>1, <1>3, <1>4, LeaveKeeps DEF StdioInv
<1> QED BY <1>1, <1>2, <1>4, <1>5, LeaveFlags DEF StdioInv

LEMMA ClosedirKeeps == ASSUME StdioInv, Closedir PROVE StdioInv'
<1> USE Constants, Contents
<1>1. PICK s \in Slots :
        /\ held[s] = DIR /\ sf_kind[s] = DIR
        /\ host' = [host EXCEPT ![sf_host[s]] = Closed]
        /\ GiveBack(s)
        /\ sf_eof' = sf_eof /\ sf_err' = sf_err /\ input' = input
  BY DEF Closedir
<1>2. Types /\ SlotRight(s)
  BY DEF StdioInv, TableInv, SlotsRight
<1>3. held[s] # FREE /\ sf_host[s] \in Objects
  BY <1>1, <1>2 DEF SlotRight, FREE, STD, FILE, DIR
<1>4. TableInv'
  BY <1>1, <1>3, LeaveKeeps DEF StdioInv
<1> QED BY <1>1, <1>3, <1>4, LeaveFlags DEF StdioInv

-----------------------------------------------------------------------------
(***************************************************************************)
(* Reading, seeking and writing move no slot and open and close nothing.   *)
(***************************************************************************)
LEMMA WorkKeeps ==
  ASSUME StdioInv, UNCHANGED <<sf_kind, sf_host, held>>,
         sf_eof' \in Flags, sf_err' \in Flags,
         host' \in [Objects -> HostObject], input' \in Standard,
         \A o \in Objects : /\ host'[o].is = host[o].is
                            /\ host'[o].pos <= Len(host'[o].data),
         input'.pos <= Len(Input)
  PROVE  TableInv'
<1> USE Constants DEF StdioInv, TableInv
<1>1. Types'
  BY DEF Types
<1>2. Positions'
  BY DEF Positions
<1>3. SlotsRight'
  BY DEF SlotsRight, SlotRight
<1>4. Distinct' /\ AllInSlots'
  BY DEF Distinct, AllInSlots
<1> QED BY <1>1, <1>2, <1>3, <1>4

LEMMA ErrorsStay ==
  ASSUME StdioInv, UNCHANGED <<sf_kind, sf_host, sf_err>>,
         \A o \in Objects : host'[o].err = host[o].err
  PROVE  ErrorsAreOwn'
<1> SUFFICES ASSUME NEW t \in Slots, OfFile(t)', sf_err'[t] = 1 PROVE File(t)'.err = 1
  BY DEF ErrorsAreOwn
<1>1. OfFile(t) /\ sf_err[t] = 1
  BY DEF OfFile
<1>2. sf_host[t] \in Objects /\ File(t).err = 1
  BY <1>1, FileFacts DEF StdioInv, ErrorsAreOwn
<1> QED BY <1>2 DEF File

\* What a readable stream has left, and what a read of n bytes may bring.
LEMMA GotFacts ==
  ASSUME TableInv, NEW s \in Slots, Readable(s), NEW n \in Nat, NEW got \in Got(s, n)
  PROVE  /\ At(s) \in Nat /\ Len(Data(s)) \in Nat
         /\ got \in Nat /\ got <= n /\ At(s) + got <= Len(Data(s))
         /\ (OfFile(s) \/ "pipe" \notin Habits) /\ got < n => At(s) + got = Len(Data(s))
<1> USE Constants, Contents DEF TableInv
<1>1. At(s) \in Nat /\ Len(Data(s)) \in Nat /\ At(s) <= Len(Data(s))
  <2>1. CASE OfFile(s)
    <3>1. sf_host[s] \in Objects /\ File(s) \in HostObject
      BY <2>1, FileFacts
    <3>2. File(s).pos \in Nat /\ File(s).data \in Files \cup {<<>>}
      BY <3>1 DEF HostObject
    <3>3. File(s).pos <= Len(File(s).data)
      BY <3>1 DEF File, Positions
    <3> QED BY <2>1, <3>2, <3>3 DEF At, Data
  <2>2. CASE ~OfFile(s)
    BY <2>2 DEF At, Data, Types, Positions
  <2> QED BY <2>1, <2>2
<1> QED BY <1>1 DEF Got, Least, Left

\* A read keeps everything true if it hands over what it read, or a line of it in a
\* buffer of fgets, and marks the end only on less than was asked for.
LEMMA ReadKeeps ==
  ASSUME StdioInv, NEW s \in Slots, Readable(s), NEW n \in Nat, NEW got \in Got(s, n),
         NEW out \in 0 .. got, got > 0 => out > 0,
         out < got => Data(s)[At(s) + out] = NL /\ \E m \in LineSizes : got <= m - 1,
         NEW ended \in BOOLEAN, ended /\ WholeReads => got < n,
         Advance(s, n, got, out), MarkEnd(s, ended),
         UNCHANGED <<sf_kind, sf_host, sf_err, held>>
  PROVE  StdioInv'
<1> USE Constants, Contents
<1>1. /\ Types /\ Positions /\ EndInv /\ TailsInv
      /\ sf_kind' = sf_kind /\ sf_host' = sf_host /\ sf_err' = sf_err /\ held' = held
  BY DEF StdioInv, TableInv
<1>2. /\ At(s) \in Nat /\ Len(Data(s)) \in Nat
      /\ got \in Nat /\ got <= n /\ At(s) + got <= Len(Data(s))
      /\ (OfFile(s) \/ "pipe" \notin Habits) /\ got < n => At(s) + got = Len(Data(s))
  BY GotFacts DEF StdioInv
<1>3. sf_eof' \in Flags /\ sf_err' \in Flags
      /\ (sf_eof'[0] = 1 => sf_eof[0] = 1 \/ (s = 0 /\ ended))
  BY <1>1 DEF MarkEnd, Types, Flags
<1>4. CASE OfFile(s)
  <2> DEFINE o == sf_host[s]
  <2>1. o \in Objects /\ host[o] \in HostObject /\ s \notin Std
    BY <1>4, FileFacts DEF File, StdioInv
  <2>2. host' = [host EXCEPT ![o] = ReadFrom(host[o], n, got, out)] /\ input' = input
    BY <1>4 DEF Advance
  <2>3. At(s) = host[o].pos /\ Data(s) = host[o].data
    BY <1>4 DEF At, Data, File
  <2> HIDE DEF o
  <2>4. /\ host'[o] \in HostObject
        /\ host'[o].is = host[o].is /\ host'[o].data = host[o].data
        /\ host'[o].pos = host[o].pos + got /\ host'[o].astray = host[o].astray
        /\ host'[o].given = host[o].given \cup (host[o].pos + 1 .. host[o].pos + out)
        /\ (got < n => host'[o].eof = 1) /\ (~(got < n) => host'[o].eof = host[o].eof)
        /\ host'[o].err = host[o].err
    <3>1. host'[o] = ReadFrom(host[o], n, got, out)
      BY <1>1, <2>1, <2>2 DEF Types
    <3>2. host[o] \in HostObject /\ n \in Nat /\ got \in Nat /\ out \in Nat
      BY <1>2, <2>1
    <3> DEFINE f == host[o]  g == host'[o]
    <3> HIDE DEF f, g
    <3>3. f \in HostObject /\ g = ReadFrom(f, n, got, out)
      BY <3>1, <3>2 DEF f, g
    <3>4. /\ g \in HostObject /\ g.is = f.is /\ g.data = f.data /\ g.err = f.err
          /\ g.pos = f.pos + got /\ g.astray = f.astray
          /\ g.given = f.given \cup (f.pos + 1 .. f.pos + out)
          /\ (got < n => g.eof = 1) /\ (~(got < n) => g.eof = f.eof)
      <4>1. /\ f.pos + got \in Nat /\ f.eof \in {0, 1}
            /\ f.given \cup (f.pos + 1 .. f.pos + out) \in SUBSET Nat
        BY <3>2, <3>3 DEF HostObject
      <4>2. (IF got < n THEN 1 ELSE f.eof) \in {0, 1}
        BY <4>1
      <4> QED BY <3>3, <4>1, <4>2, ZenonT(30) DEF HostObject, ReadFrom, Passed
    <3> QED BY <3>4 DEF f, g
  <2>6. \A p \in Objects : p # o => host'[p] = host[p]
    BY <1>1, <2>2 DEF Types
  <2>7. host' \in [Objects -> HostObject]
    BY <1>1, <2>1, <2>2, <2>4 DEF Types
  <2>8. TableInv'
    BY <1>1, <1>2, <1>3, <2>2, <2>3, <2>4, <2>6, <2>7, WorkKeeps DEF Positions, Types
  <2>9. EndInv'
    <3>1. \A p \in Objects : host'[p].eof = 1 => host'[p].pos = Len(host'[p].data)
      <4>1. host[o].eof = 1 => host[o].pos = Len(host[o].data)
        BY <1>1, <2>1 DEF EndInv
      <4>2. host'[o].eof = 1 => host'[o].pos = Len(host'[o].data)
        BY <1>2, <1>4, <2>3, <2>4, <4>1
      <4> QED BY <1>1, <2>6, <4>2 DEF EndInv
    <3> QED BY <1>1, <1>3, <2>1, <2>2, <3>1 DEF EndInv
  <2>10. TailsInv'
    <3>1. ASSUME host'[o].astray = 0
          PROVE  OnlyTails(host'[o].data, host'[o].pos, host'[o].given)
      <4>1. OnlyTails(host[o].data, host[o].pos, host[o].given)
        BY <1>1, <2>1, <2>4, <3>1 DEF TailsInv
      <4>2. OnlyTails(Data(s), At(s) + got, host[o].given \cup (At(s) + 1 .. At(s) + out))
        <5> DEFINE D == Data(s)  p == At(s)  G == host[o].given
        <5>1. p \in Nat /\ got \in Nat /\ OnlyTails(D, p, G)
          BY <1>2, <2>3, <4>1
        <5>2. out < got => D[p + out] = NL /\ \E m \in LineSizes : got <= m - 1
          OBVIOUS
        <5> HIDE DEF D, p, G
        <5>3. OnlyTails(D, p + got, G \cup (p + 1 .. p + out))
          BY <5>1, <5>2, TailsStay
        <5> QED BY <5>3 DEF D, p, G
      <4> QED BY <2>3, <2>4, <4>2
    <3> QED BY <1>1, <2>1, <2>2, <2>6, <3>1 DEF TailsInv
  <2>11. ErrorsAreOwn'
    BY <1>1, <2>4, <2>6, ErrorsStay
  <2> QED BY <2>8, <2>9, <2>10, <2>11 DEF StdioInv
<1>5. CASE ~OfFile(s)
  <2>1. s = 0 /\ sf_kind[0] = STD /\ At(s) = input.pos /\ Data(s) = Input
    BY <1>5 DEF Readable, At, Data
  <2>2. /\ input' = Passed(input, got, out) /\ host' = host /\ input \in Standard
    BY <1>1, <1>5 DEF Advance, Types
  <2> DEFINE given == input.given \cup (input.pos + 1 .. input.pos + out)
  <2>3. /\ input' \in Standard /\ input'.pos <= Len(Input)
        /\ input'.pos = input.pos + got /\ input'.astray = input.astray
        /\ input'.given = given
    <3>1. input' = [input EXCEPT !.pos = input.pos + got, !.given = given]
      BY <2>2 DEF Passed
    <3>2. input.pos + got \in Nat /\ given \in SUBSET Nat /\ input.pos + got <= Len(Input)
      BY <1>2, <2>1, <2>2 DEF Standard
    <3> HIDE DEF given
    <3>3. input' = [pos |-> input.pos + got, given |-> given, astray |-> input.astray]
          /\ input.astray \in {0, 1}
      BY <2>2, <3>1 DEF Standard
    <3> QED BY <3>2, <3>3 DEF Standard
  <2>4. TableInv'
    BY <1>1, <1>3, <2>2, <2>3, WorkKeeps DEF Positions, Types
  <2>5. EndInv'
    <3>1. ASSUME WholeReads, sf_kind[0] = STD, sf_eof'[0] = 1
          PROVE  input'.pos = Len(Input)
      <4>1. CASE ended
        BY <1>2, <2>1, <2>3, <3>1, <4>1 DEF WholeReads
      <4>2. CASE sf_eof[0] = 1
        BY <1>1, <1>2, <2>1, <2>3, <3>1, <4>2 DEF EndInv
      <4> QED BY <1>3, <3>1, <4>1, <4>2
    <3> QED BY <1>1, <2>2, <3>1 DEF EndInv
  <2>6. TailsInv'
    <3>1. ASSUME input'.astray = 0 PROVE OnlyTails(Input, input'.pos, input'.given)
      <4>1. OnlyTails(Input, input.pos, input.given)
        BY <1>1, <2>3, <3>1 DEF TailsInv
      <4>2. OnlyTails(Input, input.pos + got, given)
        <5> DEFINE p == input.pos  G == input.given
        <5>1. p \in Nat /\ got \in Nat /\ OnlyTails(Input, p, G)
          BY <1>2, <2>1, <4>1
        <5>2. out < got => Input[p + out] = NL /\ \E m \in LineSizes : got <= m - 1
          BY <2>1
        <5> HIDE DEF p, G
        <5>3. OnlyTails(Input, p + got, G \cup (p + 1 .. p + out))
          BY <5>1, <5>2, TailsStay
        <5> QED BY <5>3 DEF p, G
      <4> QED BY <2>3, <4>2
    <3> QED BY <1>1, <2>2, <3>1 DEF TailsInv
  <2>7. ErrorsAreOwn'
    BY <1>1, <2>2, ErrorsStay
  <2> QED BY <2>4, <2>5, <2>6, <2>7 DEF StdioInv
<1> QED BY <1>4, <1>5

LEMMA FreadKeeps == ASSUME StdioInv, Fread PROVE StdioInv'
<1>1. PICK s \in Slots, n \in ReadSizes :
        /\ Readable(s)
        /\ \E got \in Got(s, n) : Advance(s, n, got, got) /\ MarkEnd(s, got < n)
        /\ UNCHANGED <<sf_kind, sf_host, sf_err, held>>
  BY DEF Fread
<1>2. PICK got \in Got(s, n) : Advance(s, n, got, got) /\ MarkEnd(s, got < n)
  BY <1>1
<1>3. n \in Nat /\ (got < n) \in BOOLEAN
  BY StdioAssumption
<1>4. got \in 0 .. got /\ ~(got < got)
  BY <1>1, <1>3, GotFacts DEF StdioInv
<1> QED BY <1>1, <1>2, <1>3, <1>4, ReadKeeps

LEMMA FgetcKeeps == ASSUME StdioInv, Fgetc PROVE StdioInv'
<1>1. PICK s \in Slots :
        /\ Readable(s)
        /\ \E got \in Got(s, 1) : Advance(s, 1, got, got) /\ MarkEnd(s, got = 0)
        /\ UNCHANGED <<sf_kind, sf_host, sf_err, held>>
  BY DEF Fgetc
<1>2. PICK got \in Got(s, 1) : Advance(s, 1, got, got) /\ MarkEnd(s, got = 0)
  BY <1>1
<1>3. got \in 0 .. got /\ ~(got < got) /\ (got = 0) \in BOOLEAN /\ (got = 0 => got < 1)
  BY <1>1, GotFacts DEF StdioInv
<1> QED BY <1>1, <1>2, <1>3, ReadKeeps

\* A line is all that was read, or ends with a newline.
LEMMA LineFacts ==
  ASSUME TableInv, NEW s \in Slots, Readable(s), NEW n \in Nat, NEW got \in Got(s, n)
  PROVE  /\ got \in Nat /\ got <= n /\ Line(s, got) \in 0 .. got
         /\ got > 0 => Line(s, got) > 0
         /\ Line(s, got) < got => Data(s)[At(s) + Line(s, got)] = NL
<1> DEFINE ends == {k \in 1 .. got : Data(s)[At(s) + k] = NL}
<1>1. got \in Nat /\ got <= n
  BY GotFacts
<1>2. ends \subseteq Nat
  BY <1>1
<1>3. Line(s, got) = IF ends = {} THEN got ELSE Min(ends)
  BY DEF Line
<1>4. ends # {} => Min(ends) \in ends
  BY <1>2, LeastOf
<1> QED BY <1>1, <1>3, <1>4

LEMMA FgetsKeeps == ASSUME StdioInv, Fgets PROVE StdioInv'
<1>1. PICK s \in Slots, n \in LineSizes :
        /\ Readable(s)
        /\ \E got \in Got(s, n - 1) :
             Advance(s, n - 1, got, Line(s, got)) /\ MarkEnd(s, got = 0)
        /\ UNCHANGED <<sf_kind, sf_host, sf_err, held>>
  BY DEF Fgets
<1>2. PICK got \in Got(s, n - 1) :
        Advance(s, n - 1, got, Line(s, got)) /\ MarkEnd(s, got = 0)
  BY <1>1
<1>3. n - 1 \in Nat /\ (WholeReads => n - 1 > 0) /\ (got = 0) \in BOOLEAN
  BY StdioAssumption DEF WholeReads
<1>4. /\ got \in Nat /\ got <= n - 1 /\ Line(s, got) \in 0 .. got
      /\ got > 0 => Line(s, got) > 0
      /\ Line(s, got) < got => Data(s)[At(s) + Line(s, got)] = NL
  BY <1>1, <1>3, LineFacts DEF StdioInv
<1>5. \E m \in LineSizes : got <= m - 1
  BY <1>4
<1> QED BY <1>1, <1>2, <1>3, <1>4, <1>5, ReadKeeps

\* What a seek leaves of a stream.
Seeks(f, g, asked, moved) ==
  /\ g.pos = IF moved THEN 0 ELSE f.pos
  /\ g.given = IF asked /\ moved THEN {} ELSE f.given
  /\ g.astray = IF asked /\ moved THEN 0 ELSE IF asked \/ moved THEN 1 ELSE f.astray

SeeksFile(f, g, asked, moved) ==
  /\ g \in HostObject /\ g.is = f.is /\ g.data = f.data /\ g.err = f.err
  /\ g.eof = IF moved THEN 0 ELSE f.eof
  /\ Seeks(f, g, asked, moved)

LEMMA SeekingStandard ==
  ASSUME NEW f \in Standard, NEW asked, NEW moved
  PROVE  /\ Sought(f, asked, moved) \in Standard
         /\ Seeks(f, Sought(f, asked, moved), asked, moved)
<1> DEFINE pos == IF moved THEN 0 ELSE f.pos
           given == IF asked /\ moved THEN {} ELSE f.given
           astray == IF asked /\ moved THEN 0 ELSE IF asked \/ moved THEN 1 ELSE f.astray
           g == Sought(f, asked, moved)
<1>1. pos \in Nat /\ given \in SUBSET Nat /\ astray \in {0, 1}
  BY DEF Standard
<1>2. g = [f EXCEPT !.pos = pos, !.given = given, !.astray = astray]
  BY DEF Sought
<1> HIDE DEF pos, given, astray, g
<1>3. g = [pos |-> pos, given |-> given, astray |-> astray]
  BY <1>2 DEF Standard
<1>4. g \in Standard /\ g.pos = pos /\ g.given = given /\ g.astray = astray
  BY <1>1, <1>3 DEF Standard
<1> QED BY <1>4 DEF Seeks, g, pos, given, astray

LEMMA SeekingFile ==
  ASSUME NEW f \in HostObject, NEW asked, NEW moved
  PROVE  SeeksFile(f, SoughtFile(f, asked, moved), asked, moved)
<1> DEFINE pos == IF moved THEN 0 ELSE f.pos
           given == IF asked /\ moved THEN {} ELSE f.given
           astray == IF asked /\ moved THEN 0 ELSE IF asked \/ moved THEN 1 ELSE f.astray
           eof == IF moved THEN 0 ELSE f.eof
           h == Sought(f, asked, moved)
           g == SoughtFile(f, asked, moved)
<1>1. pos \in Nat /\ given \in SUBSET Nat /\ astray \in {0, 1} /\ eof \in {0, 1}
  BY DEF HostObject
<1>2. h = [f EXCEPT !.pos = pos, !.given = given, !.astray = astray]
  BY DEF Sought
<1>3. g = [h EXCEPT !.eof = IF moved THEN 0 ELSE h.eof]
  BY DEF SoughtFile
<1> HIDE DEF pos, given, astray, h, g
<1>4. h = [is |-> f.is, data |-> f.data, eof |-> f.eof, err |-> f.err,
           pos |-> pos, given |-> given, astray |-> astray]
  BY <1>2 DEF HostObject
<1>5. h.eof = f.eof
  BY <1>4
<1>6. g = [h EXCEPT !.eof = eof]
  BY <1>3, <1>5
<1> HIDE DEF eof
<1>7. g = [is |-> f.is, data |-> f.data, eof |-> eof, err |-> f.err,
           pos |-> pos, given |-> given, astray |-> astray]
  BY <1>4, <1>6
<1>8. /\ g \in HostObject /\ g.is = f.is /\ g.data = f.data /\ g.err = f.err
      /\ g.eof = eof /\ g.pos = pos /\ g.given = given /\ g.astray = astray
  BY <1>1, <1>7 DEF HostObject
<1> QED BY <1>8 DEF SeeksFile, Seeks, g, pos, given, astray, eof

LEMMA FseekKeeps == ASSUME StdioInv, Fseek PROVE StdioInv'
<1> USE Constants, Contents
<1>1. PICK asked \in Slots, moved \in Slots, done \in BOOLEAN :
        /\ done \in Seekable(moved)
        /\ IF done THEN Seek(asked, moved) ELSE host' = host /\ input' = input
        /\ sf_eof' = [sf_eof EXCEPT ![moved] = 0]
        /\ sf_kind' = sf_kind /\ sf_host' = sf_host /\ sf_err' = sf_err /\ held' = held
  BY DEF Fseek, Seekable
<1>2. /\ Types /\ Positions /\ EndInv /\ TailsInv
  BY DEF StdioInv, TableInv
<1>3. sf_eof' \in Flags /\ sf_err' \in Flags /\ (sf_eof'[0] = 1 => sf_eof[0] = 1 /\ moved # 0)
  BY <1>1, <1>2 DEF Types, Flags
<1>4. CASE ~done
  <2>1. host' = host /\ input' = input
    BY <1>1, <1>4
  <2>2. TableInv'
    BY <1>1, <1>2, <1>3, <2>1, WorkKeeps DEF Types, Positions
  <2>3. EndInv' /\ TailsInv'
    BY <1>1, <1>2, <1>3, <2>1 DEF EndInv, TailsInv
  <2>4. ErrorsAreOwn'
    BY <1>1, <2>1, ErrorsStay
  <2> QED BY <2>2, <2>3, <2>4 DEF StdioInv
<1>5. CASE done
  <2> DEFINE a(o) == OfFile(asked) /\ sf_host[asked] = o
             m(o) == OfFile(moved) /\ sf_host[moved] = o
  <2>1. /\ host' = [o \in Objects |-> SoughtFile(host[o], a(o), m(o))]
        /\ input' = Sought(input, asked = 0, moved = 0)
    BY <1>1, <1>5 DEF Seek
  <2>2. host \in [Objects -> HostObject] /\ input \in Standard
    BY <1>2 DEF Types
  <2>3. \A o \in Objects : a(o) \in BOOLEAN /\ m(o) \in BOOLEAN
    BY DEF OfFile
  <2> HIDE DEF a, m
  <2>4. ASSUME NEW o \in Objects
        PROVE  SeeksFile(host[o], host'[o], a(o), m(o))
    <3>1. host'[o] = SoughtFile(host[o], a(o), m(o)) /\ host[o] \in HostObject
      BY <2>1, <2>2
    <3>2. SeeksFile(host[o], SoughtFile(host[o], a(o), m(o)), a(o), m(o))
      BY <3>1, SeekingFile, Zenon
    <3> QED BY <3>1, <3>2, Zenon
  <2>5. input' \in Standard /\ Seeks(input, input', asked = 0, moved = 0)
    BY <2>1, <2>2, SeekingStandard, Zenon
  <2>6. host' \in [Objects -> HostObject]
    BY <2>1, <2>4 DEF SeeksFile
  <2>7. TableInv'
    <3>1. \A o \in Objects : host'[o].is = host[o].is /\ host'[o].pos <= Len(host'[o].data)
      <4> SUFFICES ASSUME NEW o \in Objects
                   PROVE  host'[o].is = host[o].is /\ host'[o].pos <= Len(host'[o].data)
        OBVIOUS
      <4>1. host'[o].is = host[o].is /\ host'[o].data = host[o].data
            /\ host'[o].pos \in {0, host[o].pos}
        BY <2>4 DEF SeeksFile, Seeks
      <4>2. host[o].pos <= Len(host[o].data) /\ Len(host[o].data) \in Nat
        BY <1>2 DEF Positions, Types, HostObject
      <4> QED BY <4>1, <4>2
    <3>2. input'.pos <= Len(Input)
      BY <1>2, <2>5 DEF Positions, Seeks
    <3> QED BY <1>1, <1>3, <2>5, <2>6, <3>1, <3>2, WorkKeeps
  <2>8. EndInv'
    <3>1. \A o \in Objects : host'[o].eof = 1 => host'[o].pos = Len(host'[o].data)
      BY <1>2, <2>4 DEF EndInv, SeeksFile, Seeks
    <3> QED BY <1>1, <1>2, <1>3, <2>5, <3>1 DEF EndInv, Seeks
  <2>9. TailsInv'
    <3>1. ASSUME NEW o \in Objects, host'[o].astray = 0
          PROVE  OnlyTails(host'[o].data, host'[o].pos, host'[o].given)
      <4>1. host[o].astray = 0 => OnlyTails(host[o].data, host[o].pos, host[o].given)
        BY <1>2 DEF TailsInv
      <4>2. CASE a(o) /\ m(o)
        <5>1. host'[o].pos = 0 /\ host'[o].given = {}
          BY <2>4, <4>2 DEF SeeksFile, Seeks
        <5> QED BY <5>1, NothingYet
      <4>3. CASE ~(a(o) /\ m(o))
        BY <2>3, <2>4, <3>1, <4>1, <4>3 DEF SeeksFile, Seeks
      <4> QED BY <4>2, <4>3
    <3>2. ASSUME input'.astray = 0 PROVE OnlyTails(Input, input'.pos, input'.given)
      <4>1. input.astray = 0 => OnlyTails(Input, input.pos, input.given)
        BY <1>2 DEF TailsInv
      <4>2. CASE asked = 0 /\ moved = 0
        BY <2>5, <4>2, NothingYet DEF Seeks
      <4>3. CASE ~(asked = 0 /\ moved = 0)
        BY <2>5, <3>2, <4>1, <4>3 DEF Seeks
      <4> QED BY <4>2, <4>3
    <3> QED BY <3>1, <3>2 DEF TailsInv
  <2>10. ErrorsAreOwn'
    BY <1>1, <2>4, ErrorsStay DEF SeeksFile
  <2> QED BY <2>7, <2>8, <2>9, <2>10 DEF StdioInv
<1> QED BY <1>4, <1>5

\* A write by a stream moves nothing, and may leave the host's error flag set.
LEMMA HostFailsFacts ==
  ASSUME StdioInv, NEW s \in Slots, HostFails(s), UNCHANGED <<sf_kind, sf_host>>
  PROVE  /\ host' \in [Objects -> HostObject]
         /\ \A o \in Objects :
              /\ host'[o].is = host[o].is /\ host'[o].data = host[o].data
              /\ host'[o].pos = host[o].pos /\ host'[o].given = host[o].given
              /\ host'[o].eof = host[o].eof /\ host'[o].astray = host[o].astray
              /\ host[o].err = 1 => host'[o].err = 1
              /\ OfFile(s) /\ o = sf_host[s] => host'[o].err = 1
<1>1. host \in [Objects -> HostObject]
  BY DEF StdioInv, TableInv, Types
<1>2. CASE ~OfFile(s)
  BY <1>1, <1>2 DEF HostFails
<1>3. CASE OfFile(s)
  <2>1. sf_host[s] \in Objects
    BY <1>3, FileFacts DEF StdioInv
  <2>2. host' = [host EXCEPT ![sf_host[s]] = [host[sf_host[s]] EXCEPT !.err = 1]]
    BY <1>3 DEF HostFails
  <2> QED BY <1>1, <2>1, <2>2, SMTT(20) DEF HostObject
<1> QED BY <1>2, <1>3

LEMMA WriteKeeps ==
  ASSUME StdioInv, NEW s \in Slots, Writable(s), HostFails(s),
         sf_err' = sf_err \/ sf_err' = [sf_err EXCEPT ![s] = 1],
         UNCHANGED <<sf_kind, sf_host, sf_eof, input, held>>
  PROVE  StdioInv'
<1> USE Constants, Contents
<1>1. /\ Types /\ Positions /\ EndInv /\ TailsInv
      /\ sf_kind' = sf_kind /\ sf_host' = sf_host /\ sf_eof' = sf_eof /\ input' = input
      /\ held' = held
  BY DEF StdioInv, TableInv
<1>2. /\ host' \in [Objects -> HostObject]
      /\ \A o \in Objects :
           /\ host'[o].is = host[o].is /\ host'[o].data = host[o].data
           /\ host'[o].pos = host[o].pos /\ host'[o].given = host[o].given
           /\ host'[o].eof = host[o].eof /\ host'[o].astray = host[o].astray
           /\ host[o].err = 1 => host'[o].err = 1
           /\ OfFile(s) /\ o = sf_host[s] => host'[o].err = 1
  BY <1>1, HostFailsFacts
<1>3. TableInv'
  <2>1. sf_eof' \in Flags /\ sf_err' \in Flags
    BY <1>1 DEF Types, Flags
  <2> QED BY <1>1, <1>2, <2>1, WorkKeeps DEF Positions, Types
<1>4. EndInv' /\ TailsInv'
  BY <1>1, <1>2 DEF EndInv, TailsInv
<1>5. ErrorsAreOwn'
  <2> SUFFICES ASSUME NEW t \in Slots, OfFile(t)', sf_err'[t] = 1 PROVE File(t)'.err = 1
    BY DEF ErrorsAreOwn
  <2>1. OfFile(t) /\ sf_host[t] \in Objects
    BY <1>1, FileFacts DEF OfFile, StdioInv
  <2>2. sf_err[t] = 1 \/ t = s
    BY <1>1 DEF Types, Flags
  <2>3. sf_err[t] = 1 => host[sf_host[t]].err = 1
    BY <2>1 DEF StdioInv, ErrorsAreOwn, File
  <2>4. host'[sf_host[t]].err = 1
    <3>1. CASE t = s
      BY <1>2, <2>1, <3>1
    <3>2. CASE t # s
      <4>1. host[sf_host[t]].err = 1
        BY <2>2, <2>3, <3>2
      <4> QED BY <1>2, <2>1, <4>1
    <3> QED BY <3>1, <3>2
  <2> QED BY <1>1, <2>4 DEF File
<1> QED BY <1>3, <1>4, <1>5 DEF StdioInv

LEMMA AskEofKeeps == ASSUME StdioInv, AskEof PROVE StdioInv'
<1> USE Constants, Contents
<1>1. PICK s \in Slots :
        /\ held[s] = FILE /\ sf_eof' = [sf_eof EXCEPT ![s] = Feof(s)]
        /\ sf_kind' = sf_kind /\ sf_host' = sf_host /\ sf_err' = sf_err /\ held' = held
        /\ host' = host /\ input' = input
  BY DEF AskEof
<1>2. Types /\ Positions /\ EndInv
  BY DEF StdioInv, TableInv
<1>3. Feof(s) \in {0, 1} /\ (s = 0 => Feof(s) = sf_eof[0])
  BY <1>2, FileFacts DEF StdioInv, Feof, HostObject, Types, Flags
<1>4. sf_eof' \in Flags /\ sf_err' \in Flags /\ sf_eof'[0] = sf_eof[0]
  BY <1>1, <1>2, <1>3 DEF Types, Flags
<1>5. TableInv'
  BY <1>1, <1>2, <1>4, WorkKeeps DEF Types, Positions
<1>6. EndInv' /\ TailsInv' /\ ErrorsAreOwn'
  BY <1>1, <1>4, ErrorsStay DEF StdioInv, EndInv, TailsInv
<1> QED BY <1>5, <1>6 DEF StdioInv

LEMMA AskErrorKeeps == ASSUME StdioInv, AskError PROVE StdioInv'
<1> USE Constants, Contents
<1>1. PICK s \in Slots :
        /\ held[s] = FILE /\ sf_err' = [sf_err EXCEPT ![s] = Ferror(s)]
        /\ sf_kind' = sf_kind /\ sf_host' = sf_host /\ sf_eof' = sf_eof /\ held' = held
        /\ host' = host /\ input' = input
  BY DEF AskError
<1>2. Types /\ Positions
  BY DEF StdioInv, TableInv
<1>3. Ferror(s) \in {0, 1}
  BY <1>2, FileFacts DEF StdioInv, Ferror, HostObject, Types, Flags
<1>4. sf_eof' \in Flags /\ sf_err' \in Flags
  BY <1>1, <1>2, <1>3 DEF Types, Flags
<1>5. TableInv'
  BY <1>1, <1>2, <1>4, WorkKeeps DEF Types, Positions
<1>6. EndInv' /\ TailsInv'
  BY <1>1 DEF StdioInv, EndInv, TailsInv
<1>7. ErrorsAreOwn'
  BY <1>1, <1>2 DEF StdioInv, ErrorsAreOwn, OfFile, File, Ferror, Types, Flags
<1> QED BY <1>5, <1>6, <1>7 DEF StdioInv

LEMMA StepKeeps == StdioInv /\ [Next]_vars => StdioInv'
<1> SUFFICES ASSUME StdioInv, [Next]_vars PROVE StdioInv'
  OBVIOUS
<1>1. CASE UNCHANGED vars
  BY <1>1, Unchanged
<1>2. CASE Fwrite
  <2>1. PICK s \in Slots :
          /\ Writable(s) /\ HostFails(s)
          /\ sf_err' = IF OfFile(s) THEN sf_err ELSE [sf_err EXCEPT ![s] = 1]
          /\ UNCHANGED <<sf_kind, sf_host, sf_eof, input, held>>
    BY <1>2 DEF Fwrite
  <2>2. sf_err' = sf_err \/ sf_err' = [sf_err EXCEPT ![s] = 1]
    BY <2>1
  <2> QED BY <2>1, <2>2, WriteKeeps
<1>3. CASE Fputc
  BY <1>3, WriteKeeps DEF Fputc
<1>4. CASE Fprintf
  BY <1>4, WriteKeeps DEF Fprintf, table
<1> QED BY <1>1, <1>2, <1>3, <1>4, FopenKeeps, OpendirKeeps, FcloseKeeps, ClosedirKeeps,
           FreadKeeps, FgetcKeeps, FgetsKeeps, FseekKeeps, AskEofKeeps, AskErrorKeeps DEF Next

LEMMA AlwaysStdioInv == Spec => []StdioInv
BY InitInv, StepKeeps, PTL DEF Spec

-----------------------------------------------------------------------------
\* Whatever fails and whichever table is full, what the guest holds is open on the host
\* in its own slot alone, whatever else it does (hle.c 301-353, 1656-1726, 2244-2277).
THEOREM HeldAreOpen == Spec => []HeldIsOpen
<1>1. StdioInv => HeldIsOpen
  BY Constants DEF StdioInv, TableInv, SlotsRight, SlotRight, Distinct, HeldIsOpen, File
<1> QED BY <1>1, AlwaysStdioInv, PTL

\* And nothing of the host is left open without a slot of the guest, as long as no
\* directory is closed with fclose.
THEOREM TablesAgree ==
  ASSUME "fclosedir" \notin Habits
  PROVE  Spec => []SlotsMatchHost
<1> USE Constants DEF StdioInv, TableInv
<1>1. StdioInv => TypeOK
  <2> SUFFICES ASSUME StdioInv PROVE TypeOK
    OBVIOUS
  <2>1. \A o \in Objects : /\ host[o].is \in {"closed", "r", "w", "dir"}
                           /\ host[o].pos \in 0 .. Len(host[o].data)
    <3> SUFFICES ASSUME NEW o \in Objects
                 PROVE  /\ host[o].is \in {"closed", "r", "w", "dir"}
                        /\ host[o].pos \in 0 .. Len(host[o].data)
      OBVIOUS
    <3>1. /\ host[o].is \in {"closed", "r", "w", "dir"} /\ host[o].pos \in Nat
          /\ Len(host[o].data) \in Nat
      BY Contents DEF Types, HostObject
    <3> QED BY <3>1 DEF Positions
  <2>2. input.pos \in 0 .. Len(Input)
    BY Contents DEF Types, Positions, Standard
  <2> QED BY <2>1, <2>2 DEF TypeOK, Types
<1>2. StdioInv => HeldIsOpen
  BY DEF SlotsRight, SlotRight, Distinct, HeldIsOpen, File
<1>3. StdioInv => NothingLeaks
  BY DEF SlotsRight, SlotRight, AllInSlots, NothingLeaks
<1> QED BY <1>1, <1>2, <1>3, AlwaysStdioInv, PTL DEF SlotsMatchHost

\* A guest that reads a stream by any mix of freads, fgetcs and fgetses gets its bytes
\* once and in order, and loses only what fgets had read behind a line, whatever the
\* streams hold and however often an fseek moves another stream than the one it was
\* asked for, which is the only one besides it that this can lead astray
\* (hle.c 1756-1896, 1987-2008).
THEOREM BytesInOrder == Spec => []OnlyTailsLost
<1>1. StdioInv => OnlyTailsLost
  BY DEF StdioInv, TailsInv, OnlyTailsLost
<1> QED BY <1>1, AlwaysStdioInv, PTL

\* feof and ferror tell the truth about the stream they are asked about, as long as no
\* read of standard input is cut short and no fgets is given a single byte
\* (hle.c 1756-1896, 1939-1969).
THEOREM FlagsAreTrue ==
  ASSUME "pipe" \notin Habits, 1 \notin LineSizes
  PROVE  Spec => []FlagsTrue
<1>1. StdioInv => EndIsReal
  <2> SUFFICES ASSUME StdioInv, NEW s \in Slots, Readable(s), Feof(s) = 1
               PROVE  Left(s) = 0
    BY DEF EndIsReal
  <2> USE Constants, Contents DEF StdioInv, TableInv
  <2>1. CASE OfFile(s)
    <3>1. sf_host[s] \in Objects /\ File(s) \in HostObject
      BY <2>1, FileFacts
    <3>2. File(s).pos = Len(File(s).data) /\ Len(File(s).data) \in Nat
      BY <2>1, <3>1, ZenonT(30) DEF Feof, File, EndInv, HostObject
    <3> QED BY <2>1, <3>2 DEF Left, Data, At
  <2>2. CASE ~OfFile(s)
    <3>1. s = 0 /\ sf_kind[0] = STD /\ sf_eof[0] = 1
      BY <2>2 DEF Readable, Feof
    <3>2. input.pos = Len(Input)
      BY <3>1 DEF EndInv, WholeReads
    <3> QED BY <2>2, <3>2 DEF Left, Data, At
  <2> QED BY <2>1, <2>2
<1>2. StdioInv => ErrorsAreOwn
  BY DEF StdioInv
<1> QED BY <1>1, <1>2, AlwaysStdioInv, PTL DEF FlagsTrue
=============================================================================
