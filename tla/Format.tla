------------------------------- MODULE Format -------------------------------
(***************************************************************************)
(* The printf family of hle.c: vfmt, which takes the arguments from the    *)
(* registers and the stack of the call, vfmt_va, which takes them from a   *)
(* va_list, and fmt_flush.  A format is a sequence of pieces: text of some *)
(* length, and directives.  Behind a directive that the end of the string  *)
(* cuts off, the code goes on into what the host's array held before:      *)
(* these pieces belong to the format as well.                              *)
(*                                                                         *)
(* The guest's words are big-endian, the host's little-endian.  What vfmt  *)
(* takes from registers are numbers; what it and vfmt_va read from memory  *)
(* are bytes, which no one puts in the host's order.                       *)
(*                                                                         *)
(* A conversion is made by the host's snprintf from a copy of the          *)
(* directive in spec, to which neither the conversion's letter nor an end  *)
(* is ever written: the host goes on into what was on its stack.  Which    *)
(* argument a conversion is given is certain, what it makes of it may be   *)
(* anything that fits in tmp.                                              *)
(***************************************************************************)
EXTENDS Integers, Sequences, FiniteSets

CONSTANTS
  Formats,    \* the formats: sequences of pieces
  Firsts,     \* the word after the named arguments: 1, 2 or 3
  RegWords,   \* the words passed in registers (8)
  FloatRegs,  \* the doubles passed in registers (13)
  Obuf,       \* sizeof(obuf)
  TmpLen,     \* the most one conversion can make (511)
  Octet,      \* the values of a byte (256)
  Caps        \* the sizes given to snprintf

\* Text; %%; one word: %d %u %x %o %c %p, with or without h and l; %s; %f %e %g;
\* a width given as *; %lld; %lld with flags or a width; %llu %llx; what the code
\* does not know, such as %zu; and a directive cut off by the end of the string.
Kinds == {"text", "percent", "int", "str", "dbl", "star", "lld", "wide_lld", "llu", "other",
          "cut"}

Word == Octet * Octet * Octet * Octet

ASSUME FormatAssumption ==
  /\ Formats \subseteq Seq([kind : Kinds, len : Nat])
  /\ RegWords \in Nat /\ FloatRegs \in Nat /\ Firsts \subseteq 0 .. RegWords
  /\ Obuf \in Nat \ {0} /\ TmpLen \in Nat \ {0}
  /\ Octet \in Nat \ {0} /\ Caps \subseteq 0 .. Word - 1 /\ Word > Obuf

Lesser(a, b) == IF a <= b THEN a ELSE b

VARIABLES
  format,  \* the format, the same all along
  first,   \* the word of the first argument it takes
  via,     \* "call" for vfmt, "va_list" for vfmt_va
  gcap,    \* the size of the guest's buffer, for snprintf
  done,    \* pieces handled
  vi,      \* the next argument word; in a va_list, gpr_offs
  over,    \* the words taken from the overflow area of a va_list
  nfloat,  \* the next double
  reads,   \* for each piece handled, where its arguments were taken from
  olen,    \* characters in obuf
  printed,    \* characters made so far, those that found no room included
  buffer   \* what the guest's buffer holds: characters, and 1 if a NUL follows

input      == <<format, first, via, gcap>>
formatVars == <<format, first, via, gcap, done, vi, over, nfloat, reads, olen, printed, buffer>>

NotWritten == [chars |-> 0, nul |-> 0]

\* An argument word or a double of the call, by its number, or a place in one of
\* the areas of a va_list; and whether the bytes are taken in the wrong order.
Places == [from : {"word", "float", "saved", "overflow", "floats"}, at : Nat,
           bytes : {"ordered", "reversed"}]

FormatTypeOK ==
  /\ format \in Formats /\ first \in Firsts
  /\ via \in {"call", "va_list"} /\ gcap \in Caps
  /\ done \in 0 .. Len(format) + 1
  /\ vi \in Nat /\ over \in Nat /\ nfloat \in Nat
  /\ reads \in Seq(Seq(Places)) /\ Len(reads) = Lesser(done, Len(format))
  /\ olen \in 0 .. Obuf /\ printed \in Nat
  /\ buffer \in [chars : 0 .. Obuf, nul : {0, 1}]

\* The bytes of a word in the other order.
Reversed(w) ==
  LET Digit(unit) == (w \div unit) % Octet
  IN  ((Digit(1) * Octet + Digit(Octet)) * Octet + Digit(Octet * Octet)) * Octet
        + Digit(Octet * Octet * Octet)

\* obuf_reset.  va_start has counted the named arguments in gpr_offs, which vfmt_va
\* reads as bytes; no named argument was a double.
FormatInit ==
  /\ format \in Formats /\ first \in Firsts
  /\ via \in {"call", "va_list"} /\ gcap \in Caps
  /\ done = 0 /\ over = 0 /\ nfloat = 0
  /\ vi = IF via = "call" THEN first ELSE Reversed(first)
  /\ reads = <<>> /\ olen = 0 /\ printed = 0 /\ buffer = NotWritten

-----------------------------------------------------------------------------
\* arg_at: the words in registers are numbers, those in memory bytes.
ArgWord(k) == [from |-> "word", at |-> k,
               bytes |-> IF k < RegWords THEN "ordered" ELSE "reversed"]
Float(k)   == [from |-> "float", at |-> k, bytes |-> "ordered"]

\* A place in an area of the va_list.  The address of the area is read as bytes too:
\* the area is not the guest's.
Astray(area, k) == [from |-> area, at |-> k, bytes |-> "reversed"]

\* Mutant: a piece that does not fit is left out.
ObufAdd_WholePieces(n) ==
  /\ olen' = IF olen + n <= Obuf THEN olen + n ELSE olen
  /\ printed' = printed + n

ObufAdd(n) == olen' = Lesser(olen + n, Obuf) /\ printed' = printed + n

Piece == format[done + 1]

\* The handling of the next piece, of one of these kinds, ends.
Handles(kinds, taken) ==
  /\ done < Len(format) /\ Piece.kind \in kinds
  /\ done' = done + 1
  /\ reads' = Append(reads, taken)
  /\ UNCHANGED <<input, buffer>>

\* A conversion goes through tmp.
Converts == \E k \in 0 .. TmpLen : ObufAdd(k)

NoArgument == UNCHANGED <<vi, over, nfloat>>

\* The characters of a directive the code does not know are copied, and of one that
\* is cut off the end of the string as well.
Verbatim == {"text", "percent", "other", "cut"} \cup (IF via = "call" THEN {} ELSE {"star"})

CopyText == Handles(Verbatim, <<>>) /\ ObufAdd(Piece.len) /\ NoArgument

-----------------------------------------------------------------------------
(***************************************************************************)
(* vfmt: vi counts argument words, the first RegWords of them in r3 and up *)
(* and the others above the caller's frame (arg_at).                       *)
(***************************************************************************)
Takes(n) == vi' = vi + n /\ UNCHANGED <<over, nfloat>>

\* Unless the directive is %lld and nothing else, a 64-bit argument is one word.
OneWord == {"int", "str", "wide_lld", "llu"}

CallInt ==
  /\ via = "call" /\ Handles(OneWord, <<ArgWord(vi)>>) /\ Converts /\ Takes(1)

CallStar ==
  /\ via = "call" /\ Handles({"star"}, <<ArgWord(vi), ArgWord(vi + 1)>>) /\ Converts /\ Takes(2)

\* The first word is taken for the low one.
CallLongLong ==
  /\ via = "call" /\ Handles({"lld"}, <<ArgWord(vi + 1), ArgWord(vi)>>) /\ Converts /\ Takes(2)

\* Mutant: a double takes no words.
CallDouble_NoWords ==
  /\ via = "call" /\ Handles({"dbl"}, <<Float(nfloat)>>) /\ Converts
  /\ nfloat' = nfloat + 1 /\ UNCHANGED <<vi, over>>

\* A double comes in a register of its own, and two words are left free for it.
CallDouble ==
  /\ via = "call" /\ Handles({"dbl"}, <<Float(nfloat)>>) /\ Converts
  /\ nfloat' = nfloat + 1 /\ vi' = vi + 2 /\ UNCHANGED over

-----------------------------------------------------------------------------
(***************************************************************************)
(* vfmt_va: va_next takes a word from the saved registers, then from the   *)
(* overflow area; %lld is one word as well, and * is not known.            *)
(***************************************************************************)
InRegisters == vi < RegWords

VaInt ==
  /\ via = "va_list"
  /\ Handles(OneWord \cup {"lld"},
             <<IF InRegisters THEN Astray("saved", vi) ELSE Astray("overflow", over)>>)
  /\ Converts
  /\ IF InRegisters THEN vi' = vi + 1 /\ UNCHANGED over ELSE over' = over + 1 /\ UNCHANGED vi
  /\ UNCHANGED nfloat

\* The two words are left out of the registers, never of the overflow area.
VaDouble ==
  /\ via = "va_list" /\ Handles({"dbl"}, <<Astray("floats", nfloat)>>) /\ Converts
  /\ nfloat' = nfloat + 1 /\ vi' = (vi + 2) % Word /\ UNCHANGED over

-----------------------------------------------------------------------------
\* Mutant: no room is kept for the end.
Kept_NoEnd == Lesser(olen, gcap)

\* What fits: gcap - 1 is computed in a word.
Kept == Lesser(olen, (gcap - 1) % Word)

\* fmt_flush: without a character nothing is written, the end neither.
Flush ==
  /\ done = Len(format)
  /\ buffer' = IF olen = 0 THEN buffer ELSE [chars |-> Kept, nul |-> 1]
  /\ olen' = 0
  /\ done' = done + 1
  /\ UNCHANGED <<input, vi, over, nfloat, reads, printed>>

FormatNext ==
  \/ CopyText
  \/ CallInt \/ CallStar \/ CallLongLong \/ CallDouble
  \/ VaInt \/ VaDouble
  \/ Flush

FormatSpec == FormatInit /\ [][FormatNext]_formatVars

-----------------------------------------------------------------------------
(***************************************************************************)
(* What the caller passed, by the PowerPC calling convention: every        *)
(* argument has its words, 64 bits the high word first, and a double is in *)
(* a register as long as there is one.                                     *)
(***************************************************************************)
Words(kind) ==
  CASE kind \in {"int", "str", "other"} -> 1
    [] kind \in {"dbl", "star", "lld", "wide_lld", "llu"} -> 2
    [] OTHER -> 0

\* The words of the arguments before piece k, and the doubles among these.
WordsBefore(k) == {x \in (1 .. k - 1) \X {1, 2} : x[2] <= Words(format[x[1]].kind)}
DoublesBefore(k) == {j \in 1 .. k - 1 : format[j].kind = "dbl"}

WordDue(k)  == first + Cardinality(WordsBefore(k))
FloatDue(k) == Cardinality(DoublesBefore(k))

Passed(k) == [from |-> "word", at |-> k, bytes |-> "ordered"]

Due(k) ==
  LET w == WordDue(k)
  IN  CASE format[k].kind \in {"text", "percent"} -> <<>>
        [] format[k].kind \in {"int", "str", "other"} -> <<Passed(w)>>
        [] format[k].kind = "dbl" /\ FloatDue(k) < FloatRegs -> <<Float(FloatDue(k))>>
        [] OTHER -> <<Passed(w), Passed(w + 1)>>

(***************************************************************************)
(* Properties.                                                             *)
(***************************************************************************)
Handled == 1 .. Len(reads)

\* The pieces vfmt knows in full: no 64-bit integer, no unknown directive, no double
\* beyond the registers, and none that is cut off.
Understood(k) ==
  /\ format[k].kind \in {"text", "percent", "int", "str", "dbl", "star"}
  /\ format[k].kind = "dbl" => FloatDue(k) < FloatRegs

\* The words of a piece's arguments were all passed in registers.
InRegistersOnly(k) == \A i \in DOMAIN Due(k) : Due(k)[i].from = "word" => Due(k)[i].at < RegWords

Located(s) == [i \in DOMAIN s |-> <<s[i].from, s[i].at>>]

\* Of a printf with its arguments in the call: however integers, strings, widths and
\* doubles are mixed, as long as every directive so far is one the code knows in full,
\* each takes its arguments from where the caller put them, also once the registers
\* have run out, and takes the very argument if that came in registers (hle.c 152-169,
\* 792-875).  A word from the stack is taken with its bytes reversed, and nothing at
\* all is said of a va_list (hle.c 2099).
ArgumentsMatch ==
  via = "call" =>
    \A k \in Handled : (\A j \in 1 .. k : Understood(j)) =>
      /\ Located(reads[k]) = Located(Due(k))
      /\ InRegistersOnly(k) => reads[k] = Due(k)

\* When there is a buffer and anything was printed, snprintf leaves in it the beginning
\* of what was printed, as much as it and the host's buffer hold, and an end: pieces that
\* find no room are cut, and none after them is taken instead (hle.c 363-401).
BufferHoldsText ==
  done > Len(format) /\ gcap > 0 /\ printed > 0
  => buffer = [chars |-> Lesser(printed, Lesser(Obuf, gcap - 1)), nul |-> 1]

\* However long the text, snprintf writes no more than the buffer it was given
\* (a size of 0 it takes for the largest).
StaysInBuffer == gcap > 0 => buffer.chars + buffer.nul <= gcap

\* Nothing is put past the end of a buffer, the host's obuf or the guest's.
BufferSafe == FormatTypeOK /\ StaysInBuffer
=============================================================================
