-------------------------- MODULE InvocationStream --------------------------
(* What an AI invocation promises the client that follows it: one log that    *)
(* only grows, one outcome after which nothing is added, and a stream that    *)
(* hands the client the log from its beginning, in order and without gaps,    *)
(* and is closed only when the client has all of it.                          *)
EXTENDS Naturals, Sequences

CONSTANTS Progress,  \* events of an invocation that goes on
          EndingsOf  \* by outcome: the events that report it

VARIABLES log,        \* the events of the invocation, oldest first
          outcome,    \* "none" until it has ended
          received,   \* what the client has
          closed      \* the stream was ended by the server

vars == <<log, outcome, received, closed>>

Init ==
  /\ log = <<>>
  /\ outcome = "none"
  /\ received = <<>>
  /\ closed = FALSE

Record(e) ==
  /\ outcome = "none"
  /\ log' = Append(log, e)
  /\ UNCHANGED <<outcome, received, closed>>

\* The outcome comes with its last event; a stopped invocation may have none.
End(o) ==
  /\ outcome = "none"
  /\ outcome' = o
  /\ \/ log' = log
     \/ \E e \in EndingsOf[o] : log' = Append(log, e)
  /\ UNCHANGED <<received, closed>>

\* A longer part of the log reaches the client; the last part closes the stream.
Deliver(n) ==
  /\ ~closed
  /\ received' = SubSeq(log, 1, n)
  /\ closed' \in {FALSE, outcome /= "none" /\ n = Len(log)}
  /\ UNCHANGED <<log, outcome>>

Next ==
  \/ \E e \in Progress : Record(e)
  \/ \E o \in DOMAIN EndingsOf : End(o)
  \/ \E n \in Len(received) .. Len(log) : Deliver(n)

Spec == Init /\ [][Next]_vars
=============================================================================
