--------------------------- MODULE EmergencyChannel ---------------------------
(***************************************************************************)
(* The emergency channel (crates/laic/src/emergency.rs) beside the main    *)
(* IPC connections (transport/ipc.rs) of the same names.  Both are built   *)
(* of shared-memory services, found by name, which carry one type of frame *)
(* and hand what is published on them to whoever subscribes: what keeps    *)
(* alerts apart from the main traffic is the name of the service.          *)
(*                                                                         *)
(* Emergency channels run through every operation they have; of a main     *)
(* connection there is what could disturb them: it opens, publishes, takes *)
(* frames, goes away and comes back.                                       *)
(***************************************************************************)
EXTENDS Integers, Sequences

CONSTANTS
  Name,        \* names channels and connections are opened under
  Watched,     \* the channel the refinement is about: any of them
  Alert,       \* records with a field len, the payload length
  MaxAlert,    \* MAX_EMERGENCY_PAYLOAD_LEN
  AlertDepth,  \* EMERGENCY_BUFFER_SIZE
  MainDepth,   \* SUBSCRIBER_BUFFER_SIZE of the main connection
  MaxSends,    \* bound: alerts sent on a channel, both ways
  MaxMain      \* bound: frames sent on a main connection

ASSUME EmergencyAssumption ==
  /\ Watched \in Name
  /\ \A a \in Alert : a.len \in Nat
  /\ MaxAlert \in Nat
  /\ AlertDepth \in Nat \ {0}
  /\ MainDepth \in Nat \ {0}
  /\ MaxSends \in Nat
  /\ MaxMain \in Nat

VARIABLES
  port,       \* per endpoint: not opened yet, open, closed flag set, dropped
  waiting,    \* per endpoint: a receive call found nothing and sleeps
  queue,      \* per endpoint: frames its subscriber holds
  published,  \* per endpoint: frames published to its subscriber
  missed,     \* per endpoint: frames sent to it while it had none
  got,        \* per endpoint: numbers of the frames receive took, in order
  result      \* per endpoint: how its last completed call ended

emergencyVars == <<port, waiting, queue, published, missed, got, result>>

-----------------------------------------------------------------------------
Sides == {"client", "server"}
Other(side) == IF side = "client" THEN "server" ELSE "client"

EndpointsOf(channel) == [channel : {channel}, name : Name, side : Sides]
Endpoint == EndpointsOf("emergency") \cup EndpointsOf("ipc")

PeerOf(e) == [channel |-> e.channel, name |-> e.name, side |-> Other(e.side)]

\* Mutant: the emergency services are named like those of the main connection.
OnePrefix(channel) == "laic/ipc/"

Prefix(channel) == IF channel = "ipc" THEN "laic/ipc/" ELSE "laic/emergency/"

\* The services of an endpoint: the server subscribes to c2s and publishes on
\* s2c, the client the other way round.
Service(e, direction) == <<Prefix(e.channel), e.name, direction>>
SubscribesTo(e) == Service(e, IF e.side = "server" THEN "c2s" ELSE "s2c")
PublishesOn(e)  == Service(e, IF e.side = "server" THEN "s2c" ELSE "c2s")
Services(e) == {SubscribesTo(e), PublishesOn(e)}

\* EmergencyFrame or IpcFrame: a service carries the type it was created with.
FrameType(e) == e.channel

Depth(e) == IF e.channel = "ipc" THEN MainDepth ELSE AlertDepth

Attached(e) == port[e] \in {"open", "closed"}
Free(e) == Attached(e) /\ ~waiting[e]

\* open_or_create takes a service that exists only if it carries the type of
\* frame asked for.
Compatible(e) ==
  \A h \in Endpoint :
    Attached(h) /\ Services(h) \cap Services(e) # {} => FrameType(h) = FrameType(e)

Readers(service) == {r \in Endpoint : Attached(r) /\ SubscribesTo(r) = service}

EmergencyInit ==
  /\ port = [e \in Endpoint |-> "absent"]
  /\ waiting = [e \in Endpoint |-> FALSE]
  /\ queue = [e \in Endpoint |-> <<>>]
  /\ published = [e \in Endpoint |-> 0]
  /\ missed = [e \in Endpoint |-> 0]
  /\ got = [e \in Endpoint |-> <<>>]
  /\ result = [e \in Endpoint |-> "none"]

-----------------------------------------------------------------------------
\* Mutants: a full subscriber turns the new frame down; the subscriber keeps
\* one frame more than the service was created for.
TurnedDown(depth, frames, frame) ==
  IF Len(frames) < depth THEN Append(frames, frame) ELSE frames

OneMore(depth, frames, frame) ==
  IF Len(frames) <= depth THEN Append(frames, frame)
                          ELSE Append(Tail(frames), frame)

\* enable_safe_overflow: the oldest frame makes room for the newest.
Kept(depth, frames, frame) ==
  IF Len(frames) < depth THEN Append(frames, frame)
                         ELSE Append(Tail(frames), frame)

Returns(e, code) == result' = [result EXCEPT ![e] = code]

\* A sample is loaned, written and sent: every subscriber of the service gets
\* it, and it makes no difference to the sender if there is none.
Publish(e, m) ==
  LET readers == Readers(PublishesOn(e))
  IN /\ queue' = [r \in Endpoint |->
                    IF r \in readers
                      THEN Kept(Depth(r), queue[r],
                                [id |-> published[r] + 1, msg |-> m])
                      ELSE queue[r]]
     /\ published' = [r \in Endpoint |->
                        published[r] + IF r \in readers THEN 1 ELSE 0]
     /\ missed' = [r \in Endpoint |->
                     missed[r] + IF r = PeerOf(e) /\ readers = {} THEN 1 ELSE 0]

\* Frames sent so far on a connection or channel, both ways.
SentBetween(e) ==
  published[e] + missed[e] + published[PeerOf(e)] + missed[PeerOf(e)]

-----------------------------------------------------------------------------
(* EmergencyChannel                                                        *)

\* open_server, open_client
Open(e) ==
  /\ port[e] = "absent"
  /\ Compatible(e)
  /\ port' = [port EXCEPT ![e] = "open"]
  /\ Returns(e, "Ok")
  /\ UNCHANGED <<waiting, queue, published, missed, got>>

\* A service of another type of frame has the name, or the node, a service or
\* a port cannot be created.
OpenFails(e) ==
  /\ port[e] = "absent"
  /\ Returns(e, "ConnectionFailed")
  /\ UNCHANGED <<port, waiting, queue, published, missed, got>>

Send(e, a) ==
  /\ Free(e) /\ port[e] = "open"
  /\ a.len <= MaxAlert
  /\ SentBetween(e) < MaxSends
  /\ Publish(e, a)
  /\ Returns(e, "Ok")
  /\ UNCHANGED <<port, waiting, got>>

\* The channel is closed, or the payload does not fit the frame.
SendRefused(e, a) ==
  /\ Free(e)
  /\ port[e] = "closed" \/ a.len > MaxAlert
  /\ Returns(e, IF port[e] = "closed" THEN "ShuttingDown" ELSE "FramingError")
  /\ UNCHANGED <<port, waiting, queue, published, missed, got>>

\* The loan or the send fails.
SendFails(e) ==
  /\ Free(e) /\ port[e] = "open"
  /\ \E code \in {"BackpressureFull", "SendFailed"} : Returns(e, code)
  /\ UNCHANGED <<port, waiting, queue, published, missed, got>>

\* A peer of another version publishes a frame whose len is past this
\* version's capacity.
PublishOversized(e, a) ==
  /\ Free(e) /\ port[e] = "open"
  /\ a.len > MaxAlert
  /\ SentBetween(e) < MaxSends
  /\ Publish(e, a)
  /\ Returns(e, "Ok")
  /\ UNCHANGED <<port, waiting, got>>

\* A poll of receive finds a frame: the call ends with its payload, or with an
\* error if its len is malformed.
Receive(e) ==
  /\ port[e] = "open"
  /\ queue[e] # <<>>
  /\ queue' = [queue EXCEPT ![e] = Tail(@)]
  /\ got' = [got EXCEPT ![e] = Append(@, Head(queue[e]).id)]
  /\ waiting' = [waiting EXCEPT ![e] = FALSE]
  /\ Returns(e, IF Head(queue[e]).msg.len <= MaxAlert THEN "Ok" ELSE "FramingError")
  /\ UNCHANGED <<port, published, missed>>

\* The poll finds nothing: the call sleeps for EMERGENCY_POLL_INTERVAL.
Sleep(e) ==
  /\ Free(e) /\ port[e] = "open"
  /\ queue[e] = <<>>
  /\ waiting' = [waiting EXCEPT ![e] = TRUE]
  /\ UNCHANGED <<port, queue, published, missed, got, result>>

ReceiveFails(e) ==
  /\ port[e] = "open"
  /\ waiting' = [waiting EXCEPT ![e] = FALSE]
  /\ Returns(e, "ReceiveFailed")
  /\ UNCHANGED <<port, queue, published, missed, got>>

ReceiveRefused(e) ==
  /\ Free(e) /\ port[e] = "closed"
  /\ Returns(e, "ShuttingDown")
  /\ UNCHANGED <<port, waiting, queue, published, missed, got>>

\* The caller drops a sleeping receive.
CancelReceive(e) ==
  /\ waiting[e]
  /\ waiting' = [waiting EXCEPT ![e] = FALSE]
  /\ UNCHANGED <<port, queue, published, missed, got, result>>

Close(e) ==
  /\ Free(e)
  /\ port' = [port EXCEPT ![e] = "closed"]
  /\ Returns(e, "Ok")
  /\ UNCHANGED <<waiting, queue, published, missed, got>>

\* The channel is dropped or its process dies: publisher, subscriber and node
\* go, and with them the frames the subscriber held.
Drop(e) ==
  /\ Attached(e)
  /\ port' = [port EXCEPT ![e] = "dropped"]
  /\ waiting' = [waiting EXCEPT ![e] = FALSE]
  /\ queue' = [queue EXCEPT ![e] = <<>>]
  /\ UNCHANGED <<published, missed, got, result>>

-----------------------------------------------------------------------------
(* Main IPC connections                                                    *)

MainOpens(e) ==
  /\ port[e] = "absent"
  /\ Compatible(e)
  /\ port' = [port EXCEPT ![e] = "open"]
  /\ UNCHANGED <<waiting, queue, published, missed, got, result>>

MainSends(e) ==
  /\ port[e] = "open"
  /\ SentBetween(e) < MaxMain
  /\ Publish(e, [len |-> 0])
  /\ UNCHANGED <<port, waiting, got, result>>

MainTakes(e) ==
  /\ port[e] = "open"
  /\ queue[e] # <<>>
  /\ queue' = [queue EXCEPT ![e] = Tail(@)]
  /\ UNCHANGED <<port, waiting, published, missed, got, result>>

\* The connection is dropped; it may be opened again under the same name.
MainGoes(e) ==
  /\ Attached(e)
  /\ port' = [port EXCEPT ![e] = "absent"]
  /\ queue' = [queue EXCEPT ![e] = <<>>]
  /\ UNCHANGED <<waiting, published, missed, got, result>>

ChannelNext(e) ==
  \/ Open(e) \/ OpenFails(e)
  \/ \E a \in Alert : Send(e, a) \/ SendRefused(e, a) \/ PublishOversized(e, a)
  \/ SendFails(e)
  \/ Receive(e) \/ Sleep(e) \/ ReceiveFails(e) \/ ReceiveRefused(e)
  \/ CancelReceive(e)
  \/ Close(e) \/ Drop(e)

MainNext(e) == MainOpens(e) \/ MainSends(e) \/ MainTakes(e) \/ MainGoes(e)

EmergencyNext ==
  \/ \E e \in EndpointsOf("emergency") : ChannelNext(e)
  \/ \E e \in EndpointsOf("ipc") : MainNext(e)

EmergencySpec == EmergencyInit /\ [][EmergencyNext]_emergencyVars

\* The poll timer wakes a sleeping receive, and an endpoint of an emergency
\* channel calls receive as long as there is something to read.  The main
\* connections are under no obligation to read or to pause.
EmergencyFairSpec ==
  /\ EmergencySpec
  /\ \A e \in EndpointsOf("emergency") : WF_emergencyVars(Receive(e))

-----------------------------------------------------------------------------
(* Properties                                                              *)

\* The ends of the channel watched, and the error IpcConnection would report
\* for a result.
At(side) == [channel |-> "emergency", name |-> Watched, side |-> side]
Reported(code) == IF code = "BackpressureFull" THEN "SendFailed" ELSE code

Pair == INSTANCE ShmChannel
  WITH Message    <- Alert,
       MaxPayload <- MaxAlert,
       BufferSize <- AlertDepth,
       status     <- [s \in Sides |-> port[At(s)]],
       asleep     <- [s \in Sides |-> waiting[At(s)]],
       buffer     <- [s \in Sides |-> queue[At(s)]],
       published  <- [s \in Sides |-> published[At(s)]],
       missed     <- [s \in Sides |-> missed[At(s)]],
       got        <- [s \in Sides |-> got[At(s)]],
       result     <- [s \in Sides |-> Reported(result[At(s)])]

\* "Physically isolated": whatever the main connections of the same name do,
\* and whatever other channels do, an emergency channel behaves as if it had
\* the shared memory to itself: a channel of its own depth that orders, loses
\* and refuses as the IPC transport does.
AlertsImplementChannel == Pair!ShmSpec

\* No connection or channel ever meets a service of the other's type of frame,
\* in whatever order they are opened, dropped and opened again.
NeverMistaken == \A e \in Endpoint : port[e] = "absent" => Compatible(e)

\* An end that keeps receiving gets the newest alert, however the main
\* connections flood their buffers and however long nobody reads those.
AlertGetsThrough ==
  \A e \in EndpointsOf("emergency") :
    published[e] > 0 ~>
      \/ port[e] # "open"
      \/ got[e] # <<>> /\ got[e][Len(got[e])] = published[e]
=============================================================================
