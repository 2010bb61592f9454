---------------------------- MODULE Synchronous -----------------------------
(***************************************************************************)
(* What a guest may expect of a library that calls it back.  A call is     *)
(* synchronous: its caller runs again only when every callback of the call *)
(* has returned, and then with the call's own answer.  Only an activation  *)
(* that waits for a call is called back, by that call's kind of callback.  *)
(* The guest exits once, nothing of it runs afterwards, and the process    *)
(* ends with its exit code.  Slices, traps and registers are not seen.     *)
(***************************************************************************)
EXTENDS Integers, Sequences

CONSTANTS
  ANY,     \* "no particular answer"
  FAILED   \* the exit status of a run that failed

VARIABLES
  acts,    \* the guest's activations, the innermost last
  who,     \* who runs: "guest" (the innermost), "host", or "nobody" any more
  given,   \* what the innermost was given when it was let run; 0 when it does not
  exit,    \* the exit code the guest asked for, if it has
  status   \* the exit status of the process

vars == <<acts, who, given, exit, status>>

\* The callback of a call.
Callback == [bsearch |-> "compar", pthread |-> "start"]

Innermost == acts[Len(acts)]

Activation(fn) == [fn |-> fn, await |-> "none", want |-> ANY]

HostTurn  == who = "host" /\ exit = <<>> /\ acts # <<>>
GuestRuns == who' = "guest"
HostRuns  == who' = "host" /\ given' = 0

\* The caller is let run with the answer it is due.
AnswerDue(call) == GuestRuns /\ call.want \in {ANY, given'}

Init ==
  /\ acts = <<Activation("main")>>
  /\ who = "guest" /\ given = 0
  /\ exit = <<>> /\ status = 0

\* The innermost calls the library, which answers at once or has yet to.
Call ==
  /\ who = "guest" /\ Len(acts') = Len(acts)
  /\ LET call == acts'[Len(acts)]
     IN  /\ call.fn = Innermost.fn /\ call.await # "none"
         /\ acts' = [acts EXCEPT ![Len(acts)] = call]
         /\ HostRuns \/ AnswerDue(call)
  /\ UNCHANGED <<exit, status>>

Answer ==
  /\ HostTurn /\ Innermost.await # "none"
  /\ AnswerDue(Innermost)
  /\ UNCHANGED <<acts, exit, status>>

\* The call of the innermost calls back.
CallBack ==
  /\ HostTurn /\ Innermost.await \in DOMAIN Callback
  /\ acts' = Append(acts, Activation(Callback[Innermost.await]))
  /\ GuestRuns
  /\ UNCHANGED <<exit, status>>

Return ==
  /\ who = "guest"
  /\ acts' = SubSeq(acts, 1, Len(acts) - 1)
  /\ HostRuns
  /\ UNCHANGED <<exit, status>>

Exit ==
  /\ who = "guest"
  /\ exit' \in Seq(Int) /\ Len(exit') = 1
  /\ HostRuns
  /\ UNCHANGED <<acts, status>>

\* An exit code is reported as a byte; a negative one is taken for a failure.
Reported == IF exit = <<>> \/ exit[1] < 0 THEN FAILED ELSE exit[1] % 256

\* The process ends, as the guest asked or, at any time, because the run failed.
End ==
  /\ who # "nobody" /\ who' = "nobody"
  /\ status' = Reported
  /\ given' = 0
  /\ UNCHANGED <<acts, exit>>

Next == Call \/ Answer \/ CallBack \/ Return \/ Exit \/ End

Spec == Init /\ [][Next]_vars
=============================================================================
