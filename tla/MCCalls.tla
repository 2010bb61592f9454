------------------------------ MODULE MCCalls -------------------------------
(***************************************************************************)
(* A stream of three bytes and an input of three, moved at most two at a   *)
(* time, in words of 16 bits: by a careful guest without system calls of   *)
(* its own, by one with them, by one whose host may cut a write short with *)
(* an error, and by one with every other habit.                            *)
(***************************************************************************)
EXTENDS Calls

Guests == {{}, {"sc"}, {"sc", "late_error"}, {"sc", "bad_buffer", "tell", "far"}}

\* EINTR, EAGAIN
SomeErrors == {4, 11}
=============================================================================
