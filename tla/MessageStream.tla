----------------------------- MODULE MessageStream -----------------------------
(***************************************************************************)
(* What one direction of a QuicConnection promises its two ends            *)
(* (crates/laic/src/transport/quic.rs), with no bytes: messages arrive     *)
(* whole, once and in the order of the send calls that returned; when the  *)
(* connection ends, the first few of those on their way still arrive.  The *)
(* promise ends when a call does in the middle of a frame.                 *)
(***************************************************************************)
EXTENDS Naturals, Sequences

CONSTANT Message   \* what a receive call may be about

VARIABLES
  queue,    \* messages sent and not yet received
  taken,    \* messages received
  up,       \* the connection is up
  inStep    \* the promise holds

messageVars == <<queue, taken, up, inStep>>

MessageInit == queue = <<>> /\ taken = <<>> /\ up = TRUE /\ inStep = TRUE

\* A send call returns.
Send(m) ==
  /\ up /\ inStep
  /\ queue' = Append(queue, m)
  /\ UNCHANGED <<taken, up, inStep>>

\* A receive call returns.
Receive ==
  /\ inStep
  /\ queue # <<>>
  /\ taken' = Append(taken, Head(queue))
  /\ queue' = Tail(queue)
  /\ UNCHANGED <<up, inStep>>

\* The connection ends.
End ==
  /\ up /\ inStep
  /\ up' = FALSE
  /\ \E k \in 0..Len(queue) : queue' = SubSeq(queue, 1, k)
  /\ UNCHANGED <<taken, inStep>>

ReceivesAnything == \E m \in Message : taken' = Append(taken, m)

\* A call ends in the middle of a frame.
Lapse ==
  /\ inStep
  /\ inStep' = FALSE
  /\ queue' = <<>>
  /\ taken' = taken \/ ReceivesAnything
  /\ UNCHANGED up

\* From then on, anything may be received.
Stray ==
  /\ ~inStep
  /\ taken' = taken \/ ReceivesAnything
  /\ up' \in {up, FALSE}
  /\ UNCHANGED <<queue, inStep>>

MessageNext ==
  \/ \E m \in Message : Send(m)
  \/ Receive \/ End \/ Lapse \/ Stray

MessageSpec == MessageInit /\ [][MessageNext]_messageVars
=============================================================================
