-------------------------------- MODULE Gateway --------------------------------
(***************************************************************************)
(* The IPC-QUIC bridge (crates/laic/src/gateway.rs).  The gateway is the   *)
(* server end of an IPC connection (ShmChannel, whose client end is the    *)
(* local peer) and one end of a QUIC connection to a remote peer.  Each    *)
(* forward call moves one message and holds the gateway while it runs; its *)
(* caller may drop it at an await point, as a select over both directions  *)
(* does.  Waiting for a message to arrive is no state of its own: a call   *)
(* dropped there has changed nothing.                                      *)
(***************************************************************************)
EXTENDS ShmChannel

CONSTANTS
  MaxRemote,   \* bound: messages the remote peer sends
  MaxFailures  \* bound: forward calls that fail or are dropped

ASSUME GatewayAssumption ==
  /\ MaxRemote \in Nat /\ MaxFailures \in Nat
  /\ \A m \in Message : m.tag \in Nat

VARIABLES
  hand,        \* what forward_ipc_to_quic received and has not sent, or Empty
  toRemote,    \* numbers of the messages in the QUIC stream to the remote
  fromRemote,  \* messages in the QUIC stream from the remote
  quicUp,      \* the QUIC connection is up
  quicClosed,  \* the gateway closed its QUIC side
  torn,        \* stream directions cut in the middle of a frame
  remoteSent,  \* history: messages the remote sent
  remoteGot,   \* history: numbers of the messages the remote received
  sentOut,     \* history: numbers of the messages sent over QUIC
  takenIn,     \* history: messages received over QUIC
  sentIn,      \* history: their numbers, for those sent over IPC
  failures     \* history: forward calls that failed or were dropped

quicVars == <<toRemote, fromRemote, quicUp, quicClosed, torn, remoteSent, remoteGot>>
gateVars == <<hand, sentOut, takenIn, sentIn, failures>>
gatewayVars == <<shmVars, quicVars, gateVars>>

-----------------------------------------------------------------------------
Empty == 0

\* Local messages carry tag 0, remote ones their number.
GatewayMessage == [len : {MaxPayload, MaxPayload + 1}, tag : 0..MaxRemote]
Local(m) == m.tag = 0

GatewayInit ==
  /\ status = [e \in Ends |-> "open"]
  /\ asleep = [e \in Ends |-> FALSE]
  /\ buffer = [e \in Ends |-> <<>>]
  /\ published = [e \in Ends |-> 0]
  /\ missed = [e \in Ends |-> 0]
  /\ got = [e \in Ends |-> <<>>]
  /\ result = [e \in Ends |-> "none"]
  /\ hand = Empty
  /\ toRemote = <<>> /\ fromRemote = <<>>
  /\ quicUp = TRUE /\ quicClosed = FALSE
  /\ torn = {}
  /\ remoteSent = 0 /\ remoteGot = <<>>
  /\ sentOut = <<>> /\ takenIn = 0 /\ sentIn = <<>>
  /\ failures = 0

\* Another forward call may fail.
FailureLeft == failures < MaxFailures

-----------------------------------------------------------------------------
(* forward_ipc_to_quic                                                     *)

\* Mutant: the call sends the newest frame it finds and forgets the others.
Newest(frames) == frames[Len(frames)].id

\* The message the call received.
Received(frames) == Head(frames).id

\* ipc.receive() returns a message, which the call now holds, or refuses it.
TakeFromIpc ==
  /\ hand = Empty
  /\ Receive("server")
  /\ IF result'["server"] = "Ok"
       THEN /\ hand' = Received(buffer["server"])
            /\ UNCHANGED failures
       ELSE /\ FailureLeft
            /\ failures' = failures + 1
            /\ UNCHANGED hand
  /\ UNCHANGED <<sentOut, takenIn, sentIn, quicVars>>

\* quic.send() returns Ok.
SendToQuic ==
  /\ hand # Empty
  /\ ~quicClosed
  /\ toRemote' = IF quicUp /\ "out" \notin torn THEN Append(toRemote, hand)
                                                ELSE toRemote
  /\ sentOut' = Append(sentOut, hand)
  /\ hand' = Empty
  /\ UNCHANGED <<fromRemote, quicUp, quicClosed, torn, remoteSent, remoteGot,
                 takenIn, sentIn, failures, shmVars>>

\* quic.send() fails: the message in the hands of the call is lost.
SendToQuicFails ==
  /\ hand # Empty
  /\ ~quicUp
  /\ FailureLeft
  /\ hand' = Empty
  /\ failures' = failures + 1
  /\ UNCHANGED <<sentOut, takenIn, sentIn, quicVars, shmVars>>

\* The call is dropped while quic.send() waits for the stream, before or after
\* part of the frame went out.
DropWhileSending ==
  /\ hand # Empty
  /\ FailureLeft
  /\ hand' = Empty
  /\ failures' = failures + 1
  /\ torn' \in {torn, torn \cup {"out"}}
  /\ UNCHANGED <<sentOut, takenIn, sentIn, toRemote, fromRemote, quicUp,
                 quicClosed, remoteSent, remoteGot, shmVars>>

-----------------------------------------------------------------------------
(* forward_quic_to_ipc                                                     *)

\* Mutants: the call returns before it sends what it received; it waits until
\* the local peer has room for the message.
NotSent(m) == UNCHANGED shmVars /\ UNCHANGED <<sentIn, failures>>

SentWhenRoom(m) ==
  /\ Len(buffer["client"]) < BufferSize
  /\ Send("server", m)
  /\ sentIn' = Append(sentIn, m.tag)
  /\ UNCHANGED failures

\* ipc.send(), with no await point: Ok, or an error that loses the message.
SendToIpc(m) ==
  \/ /\ Send("server", m)
     /\ sentIn' = Append(sentIn, m.tag)
     /\ UNCHANGED failures
  \/ /\ SendRefused("server", m) \/ SendFails("server")
     /\ FailureLeft
     /\ failures' = failures + 1
     /\ UNCHANGED sentIn

\* quic.receive() returns a message and it is sent in the same poll.
Forward ==
  /\ hand = Empty
  /\ ~quicClosed
  /\ fromRemote # <<>> /\ "in" \notin torn
  /\ fromRemote' = Tail(fromRemote)
  /\ takenIn' = takenIn + 1
  /\ SendToIpc(Head(fromRemote))
  /\ UNCHANGED <<hand, sentOut, toRemote, quicUp, quicClosed, torn, remoteSent,
                 remoteGot>>

\* The call is dropped with part of a frame read.
DropWhileReceiving ==
  /\ hand = Empty
  /\ ~quicClosed
  /\ fromRemote # <<>> /\ "in" \notin torn
  /\ FailureLeft
  /\ torn' = torn \cup {"in"}
  /\ failures' = failures + 1
  /\ UNCHANGED <<hand, sentOut, takenIn, sentIn, toRemote, fromRemote, quicUp,
                 quicClosed, remoteSent, remoteGot, shmVars>>

-----------------------------------------------------------------------------
(* close, and the peers                                                    *)

Truncated(frames, rest) == \E k \in 0..Len(frames) : rest = SubSeq(frames, 1, k)

\* The IPC side first, then the QUIC side, whatever the first close returns;
\* the gateway is not in a call.  Of a connection that was down already, no more
\* is lost.
CloseGateway ==
  /\ hand = Empty
  /\ Close("server")
  /\ quicClosed' = TRUE
  /\ quicUp' = (quicUp /\ ~quicClosed')
  /\ IF quicUp THEN Truncated(toRemote, toRemote') ELSE UNCHANGED toRemote
  /\ UNCHANGED <<fromRemote, torn, remoteSent, remoteGot, gateVars>>

RemoteSends(m) ==
  /\ quicUp
  /\ remoteSent < MaxRemote
  /\ m.tag = remoteSent + 1
  /\ remoteSent' = remoteSent + 1
  /\ fromRemote' = Append(fromRemote, m)
  /\ UNCHANGED <<toRemote, quicUp, quicClosed, torn, remoteGot, gateVars, shmVars>>

RemoteReceives ==
  /\ toRemote # <<>>
  /\ remoteGot' = Append(remoteGot, Head(toRemote))
  /\ toRemote' = Tail(toRemote)
  /\ UNCHANGED <<fromRemote, quicUp, quicClosed, torn, remoteSent, gateVars, shmVars>>

\* The remote closes, or the network fails.
QuicDown ==
  /\ quicUp
  /\ quicUp' = FALSE
  /\ Truncated(toRemote, toRemote')
  /\ Truncated(fromRemote, fromRemote')
  /\ UNCHANGED <<quicClosed, torn, remoteSent, remoteGot, gateVars, shmVars>>

\* The local peer sends, receives, and may go away.
LocalPeer ==
  /\ \/ \E m \in Message : Local(m) /\ (Send("client", m) \/ PublishOversized("client", m))
     \/ Receive("client")
     \/ Drop("client")
  /\ UNCHANGED <<gateVars, quicVars>>

GatewayNext ==
  \/ TakeFromIpc \/ SendToQuic \/ SendToQuicFails \/ DropWhileSending
  \/ Forward \/ DropWhileReceiving
  \/ CloseGateway
  \/ \E m \in Message : RemoteSends(m)
  \/ RemoteReceives \/ QuicDown \/ LocalPeer

GatewaySpec == GatewayInit /\ [][GatewayNext]_gatewayVars

\* The caller runs both directions in turn, and a call it drops has been
\* polled; a call in progress goes on.
GatewayFairSpec ==
  /\ GatewaySpec
  /\ WF_gatewayVars(SendToQuic) /\ WF_gatewayVars(SendToQuicFails)
  /\ SF_gatewayVars(Forward)
  /\ WF_gatewayVars(RemoteReceives)

-----------------------------------------------------------------------------
(* Properties                                                              *)

Increasing(s) == \A i, j \in 1..Len(s) : i < j => s[i] < s[j]

\* The bridge keeps the order of both directions and repeats nothing, whatever
\* overflows, fails or is dropped on the way: what the remote received is an
\* increasing part of what the IPC side published.
OrderAcross ==
  /\ Increasing(sentOut) /\ Increasing(sentIn)
  /\ Increasing(remoteGot \o toRemote)
  /\ hand # Empty => \A i \in 1..Len(sentOut) : sentOut[i] < hand

\* Best effort means one message per call: what was received on one side and
\* not sent on the other is the message in hand, or was lost by a forward call
\* that failed or was dropped.
LossBounded ==
  (Len(got["server"]) - Len(sentOut)) + (takenIn - Len(sentIn))
    <= failures + (IF hand # Empty THEN 1 ELSE 0)

\* What a failed call leaves behind does not stand in the way of the next: as
\* long as both connections are up and in step, each message of the remote is
\* taken.
RemoteIsHeard ==
  \A n \in 1..MaxRemote :
    remoteSent >= n ~> \/ takenIn >= n
                       \/ ~quicUp \/ torn # {} \/ status["server"] # "open"
                       \/ ~WithinBound("server") \/ ~FailureLeft
=============================================================================
