------------------------------ MODULE ShmChannel ------------------------------
(***************************************************************************)
(* A bidirectional shared-memory connection between two ends               *)
(* (IpcConnection, crates/laic/src/transport/ipc.rs).  Each end owns a     *)
(* publisher and a subscriber; a subscriber keeps BufferSize frames and    *)
(* replaces the oldest one when it is full.  send is one step; receive     *)
(* polls, and sleeps between polls, where the caller may drop it.          *)
(*                                                                         *)
(* send and receive borrow the connection mutably: while an end sleeps in  *)
(* receive it does nothing else.                                           *)
(***************************************************************************)
EXTENDS Integers, Sequences

CONSTANTS
  Message,     \* records with a field len, the payload length
  MaxPayload,  \* MAX_IPC_PAYLOAD_LEN
  BufferSize,  \* SUBSCRIBER_BUFFER_SIZE
  MaxSends     \* bound: frames published towards each end

ASSUME ShmAssumption ==
  /\ \A m \in Message : m.len \in Nat
  /\ MaxPayload \in Nat
  /\ BufferSize \in Nat \ {0}
  /\ MaxSends \in Nat

VARIABLES
  status,     \* per end: not opened yet, open, closed flag set, dropped
  asleep,     \* per end: a receive call found nothing and waits
  buffer,     \* per end: frames its subscriber holds
  published,  \* per end: frames published while its subscriber existed
  missed,     \* per end: frames sent successfully while it had none
  got,        \* per end: numbers of the frames receive took, in order
  result      \* per end: how its last completed call ended

shmVars == <<status, asleep, buffer, published, missed, got, result>>

-----------------------------------------------------------------------------
Ends == {"client", "server"}
Peer(e) == IF e = "client" THEN "server" ELSE "client"

Frame == [id : Nat \ {0}, msg : Message]

Result == {"none", "Ok", "ConnectionFailed", "FramingError", "ShuttingDown",
           "SendFailed", "ReceiveFailed"}

\* An end whose publisher and subscriber exist; the closed flag leaves them in
\* place until the connection is dropped.
Attached(e) == status[e] \in {"open", "closed"}

\* The closed flag is not set.
Live(e) == status[e] = "open"

\* The end can start a call: the connection is owned and not borrowed.
Free(e) == Attached(e) /\ ~asleep[e]

-----------------------------------------------------------------------------
ShmInit ==
  /\ status = [e \in Ends |-> "absent"]
  /\ asleep = [e \in Ends |-> FALSE]
  /\ buffer = [e \in Ends |-> <<>>]
  /\ published = [e \in Ends |-> 0]
  /\ missed = [e \in Ends |-> 0]
  /\ got = [e \in Ends |-> <<>>]
  /\ result = [e \in Ends |-> "none"]

\* open_server, open_client: the services are opened or created, then this
\* end's subscriber and publisher.  The peer need not exist.
Open(e) ==
  /\ status[e] = "absent"
  /\ status' = [status EXCEPT ![e] = "open"]
  /\ result' = [result EXCEPT ![e] = "Ok"]
  /\ UNCHANGED <<asleep, buffer, published, missed, got>>

\* Node, service or port creation fails: no connection is left behind.
OpenFails(e) ==
  /\ status[e] = "absent"
  /\ result' = [result EXCEPT ![e] = "ConnectionFailed"]
  /\ UNCHANGED <<status, asleep, buffer, published, missed, got>>

-----------------------------------------------------------------------------
\* Mutants: a full buffer refuses the new frame; the new frame is written over
\* the oldest one and the read position stays; one slot fewer than the service
\* was created with.
NewestRefused(frames, frame) ==
  IF Len(frames) < BufferSize THEN Append(frames, frame) ELSE frames

WrittenInPlace(frames, frame) ==
  IF Len(frames) < BufferSize THEN Append(frames, frame)
                              ELSE <<frame>> \o Tail(frames)

SlotFewer(frames, frame) ==
  IF Len(frames) < BufferSize - 1 THEN Append(frames, frame)
                                  ELSE Append(Tail(frames), frame)

\* enable_safe_overflow: a full buffer gives up its oldest frame.
Overflowing(frames, frame) ==
  IF Len(frames) < BufferSize THEN Append(frames, frame)
                              ELSE Append(Tail(frames), frame)

\* The publisher hands the frame to the peer's subscriber if there is one; with
\* nobody attached it succeeds all the same.
Publish(e, m) ==
  IF Attached(Peer(e))
    THEN /\ published' = [published EXCEPT ![Peer(e)] = @ + 1]
         /\ buffer' = [buffer EXCEPT ![Peer(e)] =
                         Overflowing(@, [id  |-> published[Peer(e)] + 1,
                                         msg |-> m])]
         /\ UNCHANGED missed
    ELSE /\ missed' = [missed EXCEPT ![Peer(e)] = @ + 1]
         /\ UNCHANGED <<published, buffer>>

WithinBound(e) == published[Peer(e)] + missed[Peer(e)] < MaxSends

\* send succeeds: it never waits for the peer.
Send(e, m) ==
  /\ Free(e)
  /\ Live(e)
  /\ m.len <= MaxPayload
  /\ WithinBound(e)
  /\ Publish(e, m)
  /\ result' = [result EXCEPT ![e] = "Ok"]
  /\ UNCHANGED <<status, asleep, got>>

\* send refuses a payload that does not fit a frame, or a closed connection;
\* the closed flag is looked at first.
SendRefused(e, m) ==
  /\ Free(e)
  /\ status[e] = "closed" \/ m.len > MaxPayload
  /\ result' = [result EXCEPT ![e] = IF status[e] = "closed"
                                       THEN "ShuttingDown"
                                       ELSE "FramingError"]
  /\ UNCHANGED <<status, asleep, buffer, published, missed, got>>

\* No sample can be loaned or published: the message is not sent.
SendFails(e) ==
  /\ Free(e)
  /\ Live(e)
  /\ result' = [result EXCEPT ![e] = "SendFailed"]
  /\ UNCHANGED <<status, asleep, buffer, published, missed, got>>

\* A peer of another version publishes a frame whose header announces more
\* than a frame of this version holds.
PublishOversized(e, m) ==
  /\ Free(e)
  /\ Live(e)
  /\ m.len > MaxPayload
  /\ WithinBound(e)
  /\ Publish(e, m)
  /\ result' = [result EXCEPT ![e] = "Ok"]
  /\ UNCHANGED <<status, asleep, got>>

-----------------------------------------------------------------------------
\* A poll of receive finds a frame, at the call or after a sleep, and the call
\* ends: with the message, or with an error if the frame is malformed.  The
\* frame is gone either way.
Receive(e) ==
  /\ Live(e)
  /\ buffer[e] # <<>>
  /\ buffer' = [buffer EXCEPT ![e] = Tail(@)]
  /\ got' = [got EXCEPT ![e] = Append(@, Head(buffer[e]).id)]
  /\ result' = [result EXCEPT ![e] =
                  IF Head(buffer[e]).msg.len <= MaxPayload THEN "Ok"
                                                           ELSE "FramingError"]
  /\ asleep' = [asleep EXCEPT ![e] = FALSE]
  /\ UNCHANGED <<status, published, missed>>

\* The first poll finds nothing: the call yields or sleeps, and polls again.
Sleep(e) ==
  /\ Free(e)
  /\ Live(e)
  /\ buffer[e] = <<>>
  /\ asleep' = [asleep EXCEPT ![e] = TRUE]
  /\ UNCHANGED <<status, buffer, published, missed, got, result>>

\* The subscriber reports an error: the call ends.
ReceiveFails(e) ==
  /\ Live(e)
  /\ asleep' = [asleep EXCEPT ![e] = FALSE]
  /\ result' = [result EXCEPT ![e] = "ReceiveFailed"]
  /\ UNCHANGED <<status, buffer, published, missed, got>>

ReceiveRefused(e) ==
  /\ Free(e)
  /\ status[e] = "closed"
  /\ result' = [result EXCEPT ![e] = "ShuttingDown"]
  /\ UNCHANGED <<status, asleep, buffer, published, missed, got>>

\* The caller drops the receive call while it sleeps.
CancelReceive(e) ==
  /\ asleep[e]
  /\ asleep' = [asleep EXCEPT ![e] = FALSE]
  /\ UNCHANGED <<status, buffer, published, missed, got, result>>

-----------------------------------------------------------------------------
\* close only sets the flag; frames in the buffer can no longer be received.
Close(e) ==
  /\ Free(e)
  /\ status' = [status EXCEPT ![e] = "closed"]
  /\ result' = [result EXCEPT ![e] = "Ok"]
  /\ UNCHANGED <<asleep, buffer, published, missed, got>>

\* The connection is dropped, or its process dies: its subscriber goes with
\* its buffer.  Frames it published stay in the peer's buffer.
Drop(e) ==
  /\ Attached(e)
  /\ status' = [status EXCEPT ![e] = "dropped"]
  /\ asleep' = [asleep EXCEPT ![e] = FALSE]
  /\ buffer' = [buffer EXCEPT ![e] = <<>>]
  /\ UNCHANGED <<published, missed, got, result>>

EndNext(e) ==
  \/ Open(e) \/ OpenFails(e)
  \/ \E m \in Message : Send(e, m) \/ SendRefused(e, m) \/ PublishOversized(e, m)
  \/ SendFails(e)
  \/ Receive(e) \/ Sleep(e) \/ ReceiveFails(e) \/ ReceiveRefused(e)
  \/ CancelReceive(e)
  \/ Close(e) \/ Drop(e)

ShmNext == \E e \in Ends : EndNext(e)

ShmSpec == ShmInit /\ [][ShmNext]_shmVars

\* A timer wakes a sleeping receive, and an end with something to read calls
\* receive again.
ShmFairSpec == ShmSpec /\ \A e \in Ends : WF_shmVars(Receive(e))

-----------------------------------------------------------------------------
(* Properties                                                              *)

ShmTypeOK ==
  /\ status \in [Ends -> {"absent", "open", "closed", "dropped"}]
  /\ asleep \in [Ends -> BOOLEAN]
  /\ buffer \in [Ends -> Seq(Frame)]
  /\ \A e \in Ends : Len(buffer[e]) <= BufferSize
  /\ published \in [Ends -> Nat]
  /\ missed \in [Ends -> Nat]
  /\ got \in [Ends -> Seq(Nat \ {0})]
  /\ result \in [Ends -> Result]

\* Whatever the peers do, an end receives frames in the order they were
\* published, each at most once, and what is still in its buffer comes later.
InOrder ==
  \A e \in Ends :
    /\ \A i, j \in 1..Len(got[e]) : i < j => got[e][i] < got[e][j]
    /\ \A i, j \in 1..Len(buffer[e]) :
         i < j => buffer[e][i].id < buffer[e][j].id
    /\ \A i \in 1..Len(got[e]), j \in 1..Len(buffer[e]) :
         got[e][i] < buffer[e][j].id

\* The only frames an attached end loses are those overtaken by BufferSize
\* newer ones: the most recent BufferSize frames are read or readable.
OnlyOldestLost ==
  \A e \in Ends : Attached(e) =>
    \A n \in 1..published[e] :
      \/ n <= published[e] - BufferSize
      \/ \E i \in 1..Len(got[e]) : got[e][i] = n
      \/ \E i \in 1..Len(buffer[e]) : buffer[e][i].id = n

\* Each direction implements the overwriting log.
ToClient == INSTANCE OverwritingLog
  WITH Size <- BufferSize, last <- published["client"],
       next <- published["client"] - Len(buffer["client"]) + 1

ToServer == INSTANCE OverwritingLog
  WITH Size <- BufferSize, last <- published["server"],
       next <- published["server"] - Len(buffer["server"]) + 1

ToClientImplementsLog == ToClient!LogSpec
ToServerImplementsLog == ToServer!LogSpec

\* However the two ends interleave, both directions behave as logs: an end's
\* cursor moves forward only, by a read or by an overflow that finds BufferSize
\* frames unread.
ImplementsLog == ToClientImplementsLog /\ ToServerImplementsLog

\* The newest frame is never the one given up: an end that stays open and
\* keeps receiving gets the last frame it was sent.
NewestArrives ==
  \A e \in Ends :
    published[e] > 0 ~>
      \/ status[e] # "open"
      \/ got[e] # <<>> /\ got[e][Len(got[e])] = published[e]
=============================================================================
