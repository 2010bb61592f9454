------------------------------- MODULE Stdio -------------------------------
(***************************************************************************)
(* The guest's stdio streams and directories.  A FILE or DIR of the guest  *)
(* is a slot of one table; the first three are the standard streams, which *)
(* work on descriptors 0 to 2, the others hold a FILE or a DIR of the host.*)
(* The end-of-file and error flags are kept in the slot and, for a FILE,   *)
(* in the host as well.  A byte is a letter or a newline.                  *)
(***************************************************************************)
EXTENDS Integers, Sequences, FiniteSets, FiniteSetsExt

CONSTANTS
  StreamSlots, \* SF_SLOTS: slots of the table, the standard ones included
  HostMax,    \* host objects the process can have open
  Files,      \* what a file may hold
  Input,      \* what standard input holds
  ReadSizes,  \* the bytes asked for by fread
  LineSizes,  \* the buffers given to fgets
  Habits      \* what the guest and its surroundings may do, see below

CHAR == "c"
NL   == "nl"

\* "pipe": standard input may answer with less than was asked for, and cannot be rewound.
\* "fclosedir": a directory may be closed with fclose.
\* "fourth": the fourth argument register may hold another stream at an fseek.
AllHabits == {"pipe", "fclosedir", "fourth"}

ASSUME StdioAssumption ==
  /\ StreamSlots \in Nat /\ StreamSlots > 3 /\ HostMax \in Nat
  /\ Files \subseteq Seq({CHAR, NL}) /\ Input \in Seq({CHAR, NL})
  /\ ReadSizes \subseteq Nat \ {0} /\ LineSizes \subseteq Nat \ {0}
  /\ Habits \subseteq AllHabits

FREE == 0   STD == 1   FILE == 2   DIR == 3

Slots == 0 .. StreamSlots - 1
Std   == 0 .. 2
NONE  == 0
Objects == 1 .. HostMax

\* A host FILE for reading or writing, a host DIR, or nothing.  Two fields are a
\* history of what the guest was told: `given`, the places of the bytes handed to
\* it since the stream was opened or it last rewound it, and `astray`, that an
\* fseek it asked for on this stream moved another, or the other way round.
Unread == [pos |-> 0, given |-> {}, astray |-> 0]
Closed == [is |-> "closed", data |-> <<>>, eof |-> 0, err |-> 0,
           pos |-> 0, given |-> {}, astray |-> 0]
Opened(kind, bytes) == [Closed EXCEPT !.is = kind, !.data = bytes]

VARIABLES
  sf_kind, sf_host, sf_eof, sf_err,   \* the table
  host,    \* the host's objects
  input,   \* standard input: its position, and the same history
  held     \* the slots the guest has been given and not closed: 0, FILE or DIR

table == <<sf_kind, sf_host, sf_eof, sf_err>>
vars  == <<sf_kind, sf_host, sf_eof, sf_err, host, input, held>>

Flags == [Slots -> {0, 1}]

TypeOK ==
  /\ sf_kind \in [Slots -> {FREE, STD, FILE, DIR}]
  /\ sf_host \in [Slots -> {NONE} \cup Objects]
  /\ sf_eof \in Flags /\ sf_err \in Flags
  /\ \A o \in Objects :
       /\ host[o].is \in {"closed", "r", "w", "dir"}
       /\ host[o].pos \in 0 .. Len(host[o].data)
  /\ input.pos \in 0 .. Len(Input)
  /\ held \in [Slots -> {FREE, FILE, DIR}]

\* sosetta_hle_bind empties the table and sets up the standard streams.
Init ==
  /\ sf_kind = [s \in Slots |-> IF s \in Std THEN STD ELSE FREE]
  /\ sf_host = [s \in Slots |-> NONE]
  /\ sf_eof = [s \in Slots |-> 0] /\ sf_err = [s \in Slots |-> 0]
  /\ host = [o \in Objects |-> Closed]
  /\ input = Unread
  /\ held = [s \in Slots |-> IF s \in Std THEN FILE ELSE FREE]

-----------------------------------------------------------------------------
(***************************************************************************)
(* Slots are taken and given back.                                         *)
(***************************************************************************)
\* sf_take: the first free slot that is not a standard one.
Available(s) == s >= 3 /\ sf_kind[s] = FREE
Takes(s) == Available(s) /\ \A t \in 3 .. s - 1 : ~Available(t)

Spare == {o \in Objects : host[o].is = "closed"}

FopenInto(s, o, mode, bytes) ==
  /\ sf_kind' = [sf_kind EXCEPT ![s] = FILE]
  /\ sf_host' = [sf_host EXCEPT ![s] = o]
  /\ sf_eof' = [sf_eof EXCEPT ![s] = 0]
  /\ sf_err' = [sf_err EXCEPT ![s] = 0]
  /\ host' = [host EXCEPT ![o] = Opened(mode, bytes)]
  /\ held' = [held EXCEPT ![s] = FILE]
  /\ UNCHANGED input

\* Mutant: the host's FILE stays open when every slot is taken.
NoSlot_KeepsHost(o, mode, bytes) ==
  /\ host' = [host EXCEPT ![o] = Opened(mode, bytes)]
  /\ UNCHANGED <<table, input, held>>

\* Every slot is taken: what the host opened is closed again.
NoSlot(o, mode, bytes) == UNCHANGED vars

\* hle_fopen and, as it is the same function, hle_freopen: the stream that is
\* reopened keeps its slot and its file, the guest gets a new stream.
Fopen ==
  \E mode \in {"r", "w"}, bytes \in Files :
    /\ Spare # {} /\ (mode = "w" => bytes = <<>>)
    /\ \/ \E s \in Slots : Takes(s) /\ FopenInto(s, Min(Spare), mode, bytes)
       \/ (\A s \in Slots : ~Takes(s)) /\ NoSlot(Min(Spare), mode, bytes)

\* hle_opendir leaves the flags of the slot as they were.
Opendir ==
  /\ Spare # {}
  /\ \/ \E s \in Slots :
          /\ Takes(s)
          /\ sf_kind' = [sf_kind EXCEPT ![s] = DIR]
          /\ sf_host' = [sf_host EXCEPT ![s] = Min(Spare)]
          /\ host' = [host EXCEPT ![Min(Spare)] = Opened("dir", <<>>)]
          /\ held' = [held EXCEPT ![s] = DIR]
          /\ UNCHANGED <<sf_eof, sf_err, input>>
     \/ (\A s \in Slots : ~Takes(s)) /\ NoSlot(Min(Spare), "dir", <<>>)

GiveBack(s) ==
  /\ sf_kind' = [sf_kind EXCEPT ![s] = FREE]
  /\ sf_host' = [sf_host EXCEPT ![s] = NONE]
  /\ held' = [held EXCEPT ![s] = FREE]

\* hle_fclose closes a FILE and frees any slot, a directory's too.
Fclose ==
  \E s \in Slots :
    /\ held[s] = FILE \/ (held[s] = DIR /\ "fclosedir" \in Habits)
    /\ host' = IF sf_kind[s] = FILE /\ sf_host[s] # NONE
                 THEN [host EXCEPT ![sf_host[s]] = Closed] ELSE host
    /\ GiveBack(s)
    /\ UNCHANGED <<sf_eof, sf_err, input>>

Closedir ==
  \E s \in Slots :
    /\ held[s] = DIR /\ sf_kind[s] = DIR
    /\ host' = [host EXCEPT ![sf_host[s]] = Closed]
    /\ GiveBack(s)
    /\ UNCHANGED <<sf_eof, sf_err, input>>

-----------------------------------------------------------------------------
(***************************************************************************)
(* Reading.  sf_read asks the host's FILE, or the descriptor of a standard *)
(* stream; Got(s, n) is what comes back, at most n bytes.                  *)
(***************************************************************************)
OfFile(s) == sf_kind[s] = FILE
File(s)   == host[sf_host[s]]

\* The guest reads the streams it opened for reading, and standard input.
Readable(s) ==
  /\ held[s] = FILE
  /\ \/ OfFile(s) /\ File(s).is = "r"
     \/ s = 0 /\ sf_kind[s] = STD

Data(s) == IF OfFile(s) THEN File(s).data ELSE Input
At(s)   == IF OfFile(s) THEN File(s).pos ELSE input.pos

Left(s) == Len(Data(s)) - At(s)
Least(m, n) == IF m < n THEN m ELSE n

Got(s, n) ==
  LET most == Least(n, Left(s))
  IN  IF ~OfFile(s) /\ "pipe" \in Habits /\ most > 0 THEN 1 .. most ELSE {most}

\* A stream of which got bytes were read, the first `out` of them reaching the guest.
Passed(f, got, out) ==
  [f EXCEPT !.pos = @ + got, !.given = @ \cup (f.pos + 1 .. f.pos + out)]

\* A host FILE that was asked for n bytes.
ReadFrom(f, n, got, out) ==
  [Passed(f, got, out) EXCEPT !.eof = IF got < n THEN 1 ELSE @]

Advance(s, n, got, out) ==
  IF OfFile(s)
    THEN /\ host' = [host EXCEPT ![sf_host[s]] = ReadFrom(@, n, got, out)]
         /\ UNCHANGED input
    ELSE /\ input' = Passed(input, got, out)
         /\ UNCHANGED host

MarkEnd(s, ended) == sf_eof' = IF ended THEN [sf_eof EXCEPT ![s] = 1] ELSE sf_eof

\* Mutant: the end is marked when a read ends at it.
Fread_MarksEarly ==
  \E s \in Slots, n \in ReadSizes : \E got \in Got(s, n) :
    /\ Readable(s)
    /\ Advance(s, n, got, got)
    /\ MarkEnd(s, got <= n)
    /\ UNCHANGED <<sf_kind, sf_host, sf_err, held>>

\* hle_fread, for items of one byte.
Fread ==
  \E s \in Slots, n \in ReadSizes :
    /\ Readable(s)
    /\ \E got \in Got(s, n) : Advance(s, n, got, got) /\ MarkEnd(s, got < n)
    /\ UNCHANGED <<sf_kind, sf_host, sf_err, held>>

Fgetc ==
  \E s \in Slots :
    /\ Readable(s)
    /\ \E got \in Got(s, 1) : Advance(s, 1, got, got) /\ MarkEnd(s, got = 0)
    /\ UNCHANGED <<sf_kind, sf_host, sf_err, held>>

\* Mutant: the newline is cut off the line.
Line_Chops(s, got) ==
  LET ends == {k \in 1 .. got : Data(s)[At(s) + k] = NL}
  IN  IF ends = {} THEN got ELSE Min(ends) - 1

\* What hle_fgets hands over of got bytes: up to the first newline.
Line(s, got) ==
  LET ends == {k \in 1 .. got : Data(s)[At(s) + k] = NL}
  IN  IF ends = {} THEN got ELSE Min(ends)

\* hle_fgets reads as much as the buffer holds before it looks for the newline.
Fgets ==
  \E s \in Slots, n \in LineSizes :
    /\ Readable(s)
    /\ \E got \in Got(s, n - 1) :
         Advance(s, n - 1, got, Line(s, got)) /\ MarkEnd(s, got = 0)
    /\ UNCHANGED <<sf_kind, sf_host, sf_err, held>>

\* hle_fseek to the start of a stream.  It takes the stream from the fourth
\* argument register, not the first.  A FILE is rewound, and so is standard input
\* unless it is a pipe; where the standard outputs lead is not known; a directory
\* has no descriptor.
Seekable(s) ==
  IF OfFile(s) THEN {TRUE}
  ELSE IF s = 0 THEN {"pipe" \notin Habits}
  ELSE IF s \in Std THEN BOOLEAN
  ELSE {FALSE}

\* A stream the guest asked to rewind, or that was rewound, or both.
Sought(f, asked, moved) ==
  [f EXCEPT !.pos    = IF moved THEN 0 ELSE @,
            !.given  = IF asked /\ moved THEN {} ELSE @,
            !.astray = IF asked /\ moved THEN 0 ELSE IF asked \/ moved THEN 1 ELSE @]

SoughtFile(f, asked, moved) ==
  [Sought(f, asked, moved) EXCEPT !.eof = IF moved THEN 0 ELSE @]

Seek(asked, moved) ==
  LET Is(s, o) == OfFile(s) /\ sf_host[s] = o
  IN  /\ host'  = [o \in Objects |-> SoughtFile(host[o], Is(asked, o), Is(moved, o))]
      /\ input' = Sought(input, asked = 0, moved = 0)

\* The register holds the stream asked for or, by habit, any other that is in use.
\* (If it holds none the call fails and touches nothing.)
Fseek ==
  \E asked, moved \in Slots :
    /\ held[asked] = FILE /\ sf_kind[moved] # FREE
    /\ asked # moved => "fourth" \in Habits
    /\ \E done \in Seekable(moved) :
         IF done THEN Seek(asked, moved) ELSE UNCHANGED <<host, input>>
    /\ sf_eof' = [sf_eof EXCEPT ![moved] = 0]
    /\ UNCHANGED <<sf_kind, sf_host, sf_err, held>>

-----------------------------------------------------------------------------
(***************************************************************************)
(* Writing, where the host may fail, and the flags.                        *)
(***************************************************************************)
Writable(s) ==
  /\ held[s] = FILE
  /\ \/ OfFile(s) /\ File(s).is = "w"
     \/ s \in {1, 2} /\ sf_kind[s] = STD

HostFails(s) ==
  host' = IF OfFile(s) THEN [host EXCEPT ![sf_host[s]] = [@ EXCEPT !.err = 1]] ELSE host

\* hle_fwrite and hle_fputs: a failing FILE is known to the host alone.
Fwrite ==
  \E s \in Slots :
    /\ Writable(s) /\ HostFails(s)
    /\ sf_err' = IF OfFile(s) THEN sf_err ELSE [sf_err EXCEPT ![s] = 1]
    /\ UNCHANGED <<sf_kind, sf_host, sf_eof, input, held>>

Fputc ==
  \E s \in Slots :
    /\ Writable(s) /\ HostFails(s)
    /\ sf_err' = [sf_err EXCEPT ![s] = 1]
    /\ UNCHANGED <<sf_kind, sf_host, sf_eof, input, held>>

\* hle_fprintf does not look at what became of their output.
Fprintf ==
  \E s \in Slots :
    /\ Writable(s) /\ HostFails(s)
    /\ UNCHANGED <<table, input, held>>

Feof(s) == IF OfFile(s) THEN File(s).eof ELSE sf_eof[s]
Ferror(s) == IF OfFile(s) THEN File(s).err ELSE sf_err[s]

\* hle_feof and hle_ferror bring the slot's flag up to date.
AskEof ==
  \E s \in Slots :
    /\ held[s] = FILE /\ sf_kind[s] # FREE
    /\ sf_eof' = [sf_eof EXCEPT ![s] = Feof(s)]
    /\ UNCHANGED <<sf_kind, sf_host, sf_err, host, input, held>>

AskError ==
  \E s \in Slots :
    /\ held[s] = FILE /\ sf_kind[s] # FREE
    /\ sf_err' = [sf_err EXCEPT ![s] = Ferror(s)]
    /\ UNCHANGED <<sf_kind, sf_host, sf_eof, host, input, held>>

Next ==
  \/ Fopen \/ Opendir \/ Fclose \/ Closedir
  \/ Fread \/ Fgetc \/ Fgets \/ Fseek
  \/ Fwrite \/ Fputc \/ Fprintf \/ AskEof \/ AskError

Spec == Init /\ [][Next]_vars

-----------------------------------------------------------------------------
(***************************************************************************)
(* Properties.                                                             *)
(***************************************************************************)

\* What the guest holds is open on the host, in the way the guest holds it,
\* and in no other slot: no call works on a FILE or DIR of the host that has
\* been closed or belongs to another stream.
HeldIsOpen ==
  \A s \in Slots \ Std : held[s] # FREE =>
    /\ sf_kind[s] = held[s]
    /\ sf_host[s] \in Objects
    /\ File(s).is \in IF held[s] = DIR THEN {"dir"} ELSE {"r", "w"}
    /\ \A t \in Slots \ {s} : sf_host[t] # sf_host[s]

\* Every FILE and DIR the host has open is in a slot the guest can close, and
\* no slot is taken that the guest holds nothing of: a guest that closes what
\* it opens can go on opening for ever.
NothingLeaks ==
  /\ \A o \in Objects : host[o].is # "closed" => \E s \in Slots : held[s] # FREE /\ sf_host[s] = o
  /\ \A s \in Slots \ Std : sf_kind[s] # FREE => held[s] # FREE

\* The slots of hle.c and the host's open FILEs and DIRs are two accounts of the same
\* streams, and agree whatever fails.
SlotsMatchHost == TypeOK /\ HeldIsOpen /\ NothingLeaks

\* With p bytes of D read and those at G handed over: none from beyond the position,
\* so that none comes twice or out of order, and any that is missing lies behind a
\* newline that was handed over, in what was left of the buffer of one fgets.
OnlyTails(D, p, G) ==
  /\ G \subseteq 1 .. p
  /\ \A k \in (1 .. p) \ G : \E q \in G, n \in LineSizes :
       /\ D[q] = NL /\ q < k /\ k - q <= n - 2
       /\ (q + 1 .. k) \cap G = {}

\* A guest that reads a stream by whatever mix of calls gets its bytes once and in
\* order, and loses no more than fgets throws away: what it had read behind the
\* line it returns, and never as much as its buffer (hle.c 1883-1889).  A stream
\* that an fseek that took its stream from the wrong register has moved is out of this until
\* the guest rewinds it (hle.c 1993); the others are not touched.
OnlyTailsLost ==
  /\ input.astray = 0 => OnlyTails(Input, input.pos, input.given)
  /\ \A o \in Objects : host[o].is = "r" /\ host[o].astray = 0 =>
       OnlyTails(host[o].data, host[o].pos, host[o].given)

\* feof says that a stream has ended only when there is nothing left in it.
EndIsReal == \A s \in Slots : Readable(s) /\ Feof(s) = 1 => Left(s) = 0

\* A stream's error flag is its own: the slot's last stream left none behind.
ErrorsAreOwn == \A s \in Slots : OfFile(s) /\ sf_err[s] = 1 => File(s).err = 1

\* What feof and ferror answer is about this stream and true, though the flags belong
\* to the slot and outlive what was in it.
FlagsTrue == EndIsReal /\ ErrorsAreOwn
=============================================================================
