------------------------------- MODULE FdMap --------------------------------
(***************************************************************************)
(* The file descriptors a guest sees.  hle.c hands out a socket under a    *)
(* number of its own, FDMAP_BASE + slot, and keeps the host's descriptor   *)
(* in fdmap; syscall.c hands out an opened file under the host's own       *)
(* number.  Transfers (read, write, send, recv, connect, fstat, select) go *)
(* through hle_host_fd, close and fdopen take the number as it is.         *)
(*                                                                         *)
(* The host's descriptor table is external: POSIX gives out the lowest     *)
(* free number.                                                            *)
(***************************************************************************)
EXTENDS Integers, FiniteSetsExt

CONSTANTS
  FDMAP_BASE, FDMAP_SIZE,
  MaxHost,      \* the host's highest descriptor (RLIMIT_NOFILE - 1)
  StreamSlots,  \* how many FILEs the guest can have (SF_SLOTS - 3)
  MaxMade,      \* bound on the objects opened in a run
  Guests        \* the guests: sets of what one does beyond opening and closing

ASSUME FdMapAssumption ==
  /\ FDMAP_BASE \in Nat /\ FDMAP_BASE > 2
  /\ FDMAP_SIZE \in Nat \ {0}
  /\ MaxHost \in Nat /\ MaxHost >= 2
  /\ StreamSlots \in Nat
  /\ MaxMade \in Nat
  /\ Guests \subseteq SUBSET {"fdopen", "dup", "fdopen_full", "dup_unmapped", "close_any"}

STD     == 0 .. 2
Host    == 0 .. MaxHost
Slot    == 0 .. FDMAP_SIZE - 1
Sockets == FDMAP_BASE .. FDMAP_BASE + FDMAP_SIZE - 1
Number  == Host \cup Sockets      \* the numbers a guest can be handed

NONE == -1
Object == Nat

VARIABLES
  fdmap,       \* the host descriptor behind each socket number, or NONE
  fdmap_next,  \* where the search for a free slot starts
  host,        \* the host's table: the object each descriptor refers to
  streams,     \* the host descriptors that belong to a FILE
  held,        \* the object the guest was given each number for, if it has it
  made,        \* the number of objects so far
  guest        \* one of Habits: what the guest does, the same all along

vars == <<fdmap, fdmap_next, host, streams, held, made, guest>>

TypeOK ==
  /\ fdmap \in [Slot -> Host \cup {NONE}]
  /\ fdmap_next \in FDMAP_BASE .. FDMAP_BASE + FDMAP_SIZE
  /\ host \in [Host -> Object \cup {NONE}]
  /\ streams \subseteq Host
  /\ held \in [Number -> Object \cup {NONE}]
  /\ made \in Nat
  /\ guest \in Guests

\* After hle_socket_init; the three standard descriptors are the host's own.
Init ==
  /\ fdmap = [s \in Slot |-> NONE]
  /\ fdmap_next = FDMAP_BASE
  /\ host = [h \in Host |-> IF h \in STD THEN h ELSE NONE]
  /\ streams = {}
  /\ held = [n \in Number |-> IF n \in STD THEN n ELSE NONE]
  /\ made = 3
  /\ guest \in Guests

-----------------------------------------------------------------------------
\* Mutant: the slot before the number's is read.
HostFd_SlotBefore(n) ==
  CASE n \in STD -> n
    [] n \in Sockets \ {FDMAP_BASE} -> fdmap[n - FDMAP_BASE - 1]
    [] OTHER -> NONE

HostFd(n) ==
  CASE n \in STD -> n
    [] n \in Sockets -> fdmap[n - FDMAP_BASE]
    [] OTHER -> NONE

\* The object a transfer on the number n acts on; NONE is the error EBADF.
Reached(n) == IF HostFd(n) = NONE THEN NONE ELSE host[HostFd(n)]

Free(h) == h \in Host /\ host[h] = NONE

\* The host opens an object under its lowest free number.
HostOpens(h) == made < MaxMade /\ Free(h) /\ \A g \in 0 .. h - 1 : ~Free(g)

\* Mutant: the search does not look whether the slot is free.
FreeSlot_Any(s) == s = (fdmap_next - FDMAP_BASE) % FDMAP_SIZE

\* The first free slot from fdmap_next on, the search wrapping around.
FreeSlot(s) ==
  /\ fdmap[s] = NONE
  /\ LET Distance(t) == (t - (fdmap_next - FDMAP_BASE)) % FDMAP_SIZE
     IN  \A t \in Slot : fdmap[t] = NONE => Distance(s) <= Distance(t)

SocketInto(s, h) ==
  /\ HostOpens(h) /\ FreeSlot(s)
  /\ host' = [host EXCEPT ![h] = made]
  /\ fdmap' = [fdmap EXCEPT ![s] = h]
  /\ fdmap_next' = FDMAP_BASE + s + 1
  /\ held' = [held EXCEPT ![FDMAP_BASE + s] = made]
  /\ made' = made + 1
  /\ UNCHANGED streams

\* No slot is free: the host's socket is closed again, and the guest gets EMFILE.
SocketRefused ==
  /\ \A s \in Slot : ~FreeSlot(s)
  /\ UNCHANGED vars

Socket == (\E s \in Slot, h \in Host : SocketInto(s, h)) \/ SocketRefused

\* open gives the guest the host's own number.
OpenAs(h) ==
  /\ HostOpens(h)
  /\ host' = [host EXCEPT ![h] = made]
  /\ held' = [held EXCEPT ![h] = made]
  /\ made' = made + 1
  /\ UNCHANGED <<fdmap, fdmap_next, streams>>

Open == \E h \in Host : OpenAs(h)

HostCloses(n) ==
  host' = [h \in Host |-> IF h = n THEN NONE ELSE host[h]]

\* Mutant: the number is mapped first, as for a transfer.
CloseNumber_Mapped(n) ==
  /\ HostCloses(HostFd(n))
  /\ held' = [held EXCEPT ![n] = NONE]
  /\ UNCHANGED <<fdmap, fdmap_next, streams, made>>

\* close(n): _close is bound to hle_close, the first of its two entries in
\* hle_table, and closes the host descriptor of that very number, if any, even
\* one that a FILE still owns.  The guest gives the number up in any case.
CloseNumber(n) ==
  /\ HostCloses(n)
  /\ held' = [held EXCEPT ![n] = NONE]
  /\ UNCHANGED <<fdmap, fdmap_next, streams, made>>

Close == \E n \in Number :
  /\ held[n] # NONE \/ "close_any" \in guest
  /\ CloseNumber(n)

\* fcntl(n, F_DUPFD): the host duplicates the mapped descriptor, to a number at
\* or above whatever the missing third argument holds, and the guest gets that.
DupMapped == \E n \in Number, h \in Host :
  /\ "dup" \in guest /\ held[n] # NONE
  /\ Reached(n) # NONE /\ Free(h)
  /\ host' = [host EXCEPT ![h] = Reached(n)]
  /\ held' = [held EXCEPT ![h] = held[n]]
  /\ UNCHANGED <<fdmap, fdmap_next, streams, made>>

\* With no mapping the guest is told 0, which it takes for its new number.
DupUnmapped == \E n \in Number :
  /\ "dup_unmapped" \in guest /\ held[n] # NONE
  /\ HostFd(n) = NONE
  /\ held' = [held EXCEPT ![0] = held[n]]
  /\ UNCHANGED <<fdmap, fdmap_next, host, streams, made>>

-----------------------------------------------------------------------------
(***************************************************************************)
(* FILEs: fopen and freopen, fdopen and fclose.  Module Stdio has the      *)
(* slots themselves; here a FILE is the host descriptor it owns.           *)
(***************************************************************************)
Fopen == \E h \in Host :
  /\ HostOpens(h)
  /\ \/ /\ Cardinality(streams) < StreamSlots
        /\ host' = [host EXCEPT ![h] = made]
        /\ streams' = streams \cup {h}
        /\ made' = made + 1
     \/ /\ Cardinality(streams) >= StreamSlots     \* opened and closed again
        /\ UNCHANGED <<host, streams, made>>
  /\ UNCHANGED <<fdmap, fdmap_next, held>>

Fclose == \E h \in streams :
  /\ HostCloses(h)
  /\ streams' = streams \ {h}
  /\ UNCHANGED <<fdmap, fdmap_next, held, made>>

\* fdopen(n) makes n the FILE's; with no slot free, fclose takes n with it.
Fdopen == \E n \in Host :
  /\ "fdopen" \in guest /\ held[n] # NONE
  /\ \/ /\ Cardinality(streams) < StreamSlots /\ ~Free(n)
        /\ streams' = streams \cup {n}
        /\ held' = [held EXCEPT ![n] = NONE]
        /\ UNCHANGED host
     \/ /\ "fdopen_full" \in guest
        /\ Cardinality(streams) >= StreamSlots /\ ~Free(n)
        /\ HostCloses(n)
        /\ UNCHANGED <<streams, held>>
  /\ UNCHANGED <<fdmap, fdmap_next, made>>

Next ==
  /\ Socket \/ Open \/ Close \/ DupMapped \/ DupUnmapped \/ Fopen \/ Fclose \/ Fdopen
  /\ UNCHANGED guest

Spec == Init /\ [][Next]_vars

-----------------------------------------------------------------------------
(***************************************************************************)
(* Properties.                                                             *)
(***************************************************************************)

\* A guest that closes what it holds, runs no fdopen without a FILE to spare and
\* duplicates nothing that transfers do not reach.
Careful == guest \subseteq {"fdopen", "dup"}

\* For a careful guest, a transfer on a number it holds acts on the object the
\* number was given out for; on an opened file it may act on nothing (EBADF), but
\* no order of opening, closing, duplicating and running out of slots or
\* descriptors leads it to another object.
NeverAnother ==
  Careful => \A n \in Number : held[n] # NONE =>
    \/ Reached(n) = held[n]
    \/ n \in Host \ STD /\ Reached(n) = NONE

\* No number is given out while a careful guest has it, by either of the tables.
NotGivenTwice ==
  [][Careful => \A n \in Number : held[n] # NONE => held'[n] \in {NONE, held[n]}]_vars

\* A descriptor open on the host is a socket's, a FILE's or has a number the
\* guest knows: no error path leaves one behind without an owner.
NoOrphan ==
  \A h \in Host : host[h] # NONE =>
    h \in streams \/ held[h] # NONE \/ \E s \in Slot : fdmap[s] = h

\* Both descriptor tables hold what their entries may, each entry with an owner.
DescriptorsOwned == TypeOK /\ NoOrphan
=============================================================================
