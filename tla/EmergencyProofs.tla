---------------------------- MODULE EmergencyProofs ----------------------------
(***************************************************************************)
(* An emergency channel implements the shared-memory channel of the IPC    *)
(* transport, whatever the main connections and the other channels do: for *)
(* any names, payloads, depths and bounds.                                 *)
(***************************************************************************)
EXTENDS EmergencyChannel, TLAPS

-----------------------------------------------------------------------------
(* Endpoints                                                               *)

\* The ends of the channel watched are two endpoints, each the other's peer.
LEMMA WatchedEnds ==
  ASSUME NEW s \in Sides
  PROVE  /\ At(s) \in Endpoint
         /\ At(s) \in EndpointsOf("emergency")
         /\ Other(s) \in Sides /\ Other(s) # s
         /\ PeerOf(At(s)) = At(Other(s))
         /\ At(s).channel = "emergency" /\ At(s).name = Watched
         /\ At(s).side = s
         /\ \A t \in Sides : At(t) = At(s) => t = s
  BY EmergencyAssumption
  DEF At, Endpoint, EndpointsOf, Sides, Other, PeerOf

\* Every other endpoint has another name or belongs to a main connection.
LEMMA OnlyTwoEnds ==
  ASSUME NEW e \in EndpointsOf("emergency"), e.name = Watched
  PROVE  \E s \in Sides : e = At(s)
  BY DEF At, EndpointsOf, Sides

\* The subscribers of the service an end publishes on: its peer, if attached.
LEMMA OneReader ==
  ASSUME NEW s \in Sides
  PROVE  Readers(PublishesOn(At(s))) =
           {r \in Endpoint : Attached(r) /\ r = At(Other(s))}
  BY DEF Readers, PublishesOn, SubscribesTo, Service, Prefix, At, Endpoint,
         EndpointsOf, Sides, Other

\* No other endpoint publishes on a service an end of the channel reads.
LEMMA NotRead ==
  ASSUME NEW e \in Endpoint, \A s \in Sides : e # At(s), NEW t \in Sides
  PROVE  At(t) \notin Readers(PublishesOn(e))
  BY DEF Readers, PublishesOn, SubscribesTo, Service, Prefix, At, Endpoint,
         EndpointsOf, Sides

-----------------------------------------------------------------------------
(* What the two ends see of a variable                                     *)

OverEndpoints(f) == DOMAIN f = Endpoint /\ f = [e \in DOMAIN f |-> f[e]]

View(f) == [s \in Sides |-> f[At(s)]]
ViewOfResult(f) == [s \in Sides |-> Reported(f[At(s)])]

\* Every variable is a function of the endpoints, and counts are numbers.
Shaped ==
  /\ OverEndpoints(port) /\ OverEndpoints(waiting) /\ OverEndpoints(queue)
  /\ OverEndpoints(got) /\ OverEndpoints(result)
  /\ published \in [Endpoint -> Nat] /\ missed \in [Endpoint -> Nat]

\* An update at one endpoint leaves a function of the endpoints.
LEMMA UpdateKeepsShape ==
  ASSUME NEW f, OverEndpoints(f), NEW e, NEW v
  PROVE  OverEndpoints([f EXCEPT ![e] = v])
  BY DEF OverEndpoints

\* So does a publication.
LEMMA PublishKeepsShape ==
  ASSUME Shaped, NEW e, NEW m, Publish(e, m)
  PROVE  /\ OverEndpoints(queue')
         /\ published' \in [Endpoint -> Nat] /\ missed' \in [Endpoint -> Nat]
  BY DEF Shaped, Publish, OverEndpoints

\* The variables are functions of the endpoints at the start.
LEMMA InitShaped == EmergencyInit => Shaped
  BY DEF EmergencyInit, Shaped, OverEndpoints

\* Every step keeps them so.
LEMMA StepShaped == Shaped /\ [EmergencyNext]_emergencyVars => Shaped'
<1> SUFFICES ASSUME Shaped, [EmergencyNext]_emergencyVars PROVE Shaped'
  OBVIOUS
<1>1. ASSUME NEW e \in EndpointsOf("emergency"), ChannelNext(e) PROVE Shaped'
  <2>1. CASE Open(e)
    BY <2>1, UpdateKeepsShape DEF Shaped, Open, Returns
  <2>2. CASE OpenFails(e)
    BY <2>2, UpdateKeepsShape DEF Shaped, OpenFails, Returns
  <2>3. ASSUME NEW a \in Alert, SendRefused(e, a) PROVE Shaped'
    BY <2>3, UpdateKeepsShape DEF Shaped, SendRefused, Returns
  <2>4. CASE SendFails(e)
    <3>1. PICK code : Returns(e, code)
      BY <2>4 DEF SendFails
    <3> QED
      BY <2>4, <3>1, UpdateKeepsShape DEF Shaped, SendFails, Returns
  <2>5. CASE Receive(e)
    BY <2>5, UpdateKeepsShape DEF Shaped, Receive, Returns
  <2>6. CASE Sleep(e)
    BY <2>6, UpdateKeepsShape DEF Shaped, Sleep
  <2>7. CASE ReceiveFails(e)
    BY <2>7, UpdateKeepsShape DEF Shaped, ReceiveFails, Returns
  <2>8. CASE ReceiveRefused(e)
    BY <2>8, UpdateKeepsShape DEF Shaped, ReceiveRefused, Returns
  <2>9. CASE CancelReceive(e)
    BY <2>9, UpdateKeepsShape DEF Shaped, CancelReceive
  <2>10. CASE Close(e)
    BY <2>10, UpdateKeepsShape DEF Shaped, Close, Returns
  <2>11. CASE Drop(e)
    BY <2>11, UpdateKeepsShape DEF Shaped, Drop
  <2>12. ASSUME NEW a \in Alert, Send(e, a) PROVE Shaped'
    <3>1. Publish(e, a)
      BY <2>12 DEF Send
    <3> QED
      BY <2>12, <3>1, UpdateKeepsShape, PublishKeepsShape
      DEF Shaped, Send, Returns
  <2>13. ASSUME NEW a \in Alert, PublishOversized(e, a) PROVE Shaped'
    <3>1. Publish(e, a)
      BY <2>13 DEF PublishOversized
    <3> QED
      BY <2>13, <3>1, UpdateKeepsShape, PublishKeepsShape
      DEF Shaped, PublishOversized, Returns
  <2> QED
    BY <1>1, <2>1, <2>2, <2>3, <2>4, <2>5, <2>6, <2>7, <2>8, <2>9, <2>10,
       <2>11, <2>12, <2>13
    DEF ChannelNext
<1>2. ASSUME NEW e \in EndpointsOf("ipc"), MainNext(e) PROVE Shaped'
  <2>1. CASE MainOpens(e)
    BY <2>1, UpdateKeepsShape DEF Shaped, MainOpens
  <2>2. CASE MainSends(e)
    <3>1. Publish(e, [len |-> 0])
      BY <2>2 DEF MainSends
    <3> QED
      BY <2>2, <3>1, PublishKeepsShape DEF Shaped, MainSends
  <2>3. CASE MainTakes(e)
    BY <2>3, UpdateKeepsShape DEF Shaped, MainTakes
  <2>4. CASE MainGoes(e)
    BY <2>4, UpdateKeepsShape DEF Shaped, MainGoes
  <2> QED
    BY <1>2, <2>1, <2>2, <2>3, <2>4 DEF MainNext
<1>3. CASE UNCHANGED emergencyVars
  BY <1>3 DEF Shaped, OverEndpoints, emergencyVars
<1> QED
  BY <1>1, <1>2, <1>3 DEF EmergencyNext

-----------------------------------------------------------------------------
(* Publishing                                                              *)

\* What an end of the channel publishes reaches the other end alone.
LEMMA PublishToPeer ==
  ASSUME Shaped, NEW s \in Sides, NEW m, Publish(At(s), m)
  PROVE  IF Attached(At(Other(s)))
           THEN /\ View(published') =
                     [View(published) EXCEPT ![Other(s)] = @ + 1]
                /\ View(queue') =
                     [View(queue) EXCEPT ![Other(s)] =
                        Kept(AlertDepth, @,
                             [id |-> published[At(Other(s))] + 1, msg |-> m])]
                /\ View(missed') = View(missed)
           ELSE /\ View(missed') =
                     [View(missed) EXCEPT ![Other(s)] = @ + 1]
                /\ View(published') = View(published)
                /\ View(queue') = View(queue)
<1> DEFINE peer == At(Other(s))
           readers == Readers(PublishesOn(At(s)))
<1>1. /\ peer \in Endpoint /\ Other(s) \in Sides
      /\ PeerOf(At(s)) = peer
      /\ Depth(peer) = AlertDepth
      /\ \A t \in Sides : At(t) \in Endpoint /\ (At(t) = peer <=> t = Other(s))
  BY WatchedEnds DEF Depth
<1>2. readers = {r \in Endpoint : Attached(r) /\ r = peer}
  BY OneReader
<1>3. \A t \in Sides : /\ published[At(t)] \in Nat /\ missed[At(t)] \in Nat
  BY <1>1 DEF Shaped
<1>4. \A r \in Endpoint :
        /\ published'[r] = published[r] + IF r \in readers THEN 1 ELSE 0
        /\ missed'[r] =
             missed[r] + IF r = peer /\ readers = {} THEN 1 ELSE 0
        /\ queue'[r] =
             IF r \in readers
               THEN Kept(Depth(r), queue[r], [id |-> published[r] + 1, msg |-> m])
               ELSE queue[r]
  BY <1>1 DEF Publish
<1> HIDE DEF peer, readers
<1>5. CASE Attached(peer)
  <2>1. readers = {peer}
    BY <1>1, <1>2, <1>5
  <2>2. \A t \in Sides : At(t) \in readers <=> t = Other(s)
    BY <1>1, <2>1
  <2>3. \A t \in Sides :
          /\ published'[At(t)] = IF t = Other(s) THEN published[At(t)] + 1
                                                 ELSE published[At(t)]
          /\ missed'[At(t)] = missed[At(t)]
    <3> SUFFICES ASSUME NEW t \in Sides
                 PROVE  /\ published'[At(t)] =
                             IF t = Other(s) THEN published[At(t)] + 1
                                             ELSE published[At(t)]
                        /\ missed'[At(t)] = missed[At(t)]
      OBVIOUS
    <3>1. /\ published'[At(t)] = published[At(t)] + IF At(t) \in readers THEN 1 ELSE 0
          /\ missed'[At(t)] =
               missed[At(t)] + IF At(t) = peer /\ readers = {} THEN 1 ELSE 0
      BY <1>1, <1>4
    <3>2. readers # {}
      BY <2>1
    <3> QED
      BY <1>3, <2>2, <3>1, <3>2
  <2>4. \A t \in Sides :
          queue'[At(t)] =
            IF t = Other(s)
              THEN Kept(AlertDepth, queue[At(t)],
                        [id |-> published[peer] + 1, msg |-> m])
              ELSE queue[At(t)]
    BY <1>1, <1>4, <2>2
  <2>5. View(published') = [View(published) EXCEPT ![Other(s)] = @ + 1]
    BY <1>1, <2>3 DEF View
  <2>6. View(missed') = View(missed)
    BY <2>3 DEF View
  <2>7. View(queue') =
          [View(queue) EXCEPT ![Other(s)] =
             Kept(AlertDepth, @, [id |-> published[peer] + 1, msg |-> m])]
    BY <1>1, <2>4 DEF View
  <2> QED
    BY <1>5, <2>5, <2>6, <2>7 DEF peer
<1>6. CASE ~Attached(peer)
  <2>1. readers = {}
    BY <1>2, <1>6
  <2>2. \A t \in Sides :
          /\ published'[At(t)] = published[At(t)]
          /\ queue'[At(t)] = queue[At(t)]
          /\ missed'[At(t)] = IF t = Other(s) THEN missed[At(t)] + 1
                                              ELSE missed[At(t)]
    BY <1>1, <1>3, <1>4, <2>1
  <2>3. View(missed') = [View(missed) EXCEPT ![Other(s)] = @ + 1]
    BY <1>1, <2>2 DEF View
  <2> QED
    BY <1>6, <2>2, <2>3 DEF View, peer
<1> QED
  BY <1>5, <1>6

\* A variable that changes at another endpoint alone looks the same from both
\* ends of the channel.
SameAtEnds(f, g) == \A s \in Sides : g[At(s)] = f[At(s)]

\* What any other endpoint publishes reaches neither end.
LEMMA PublishElsewhere ==
  ASSUME Shaped, NEW e \in Endpoint, \A s \in Sides : e # At(s),
         NEW m, Publish(e, m)
  PROVE  /\ SameAtEnds(queue, queue')
         /\ SameAtEnds(published, published') /\ SameAtEnds(missed, missed')
<1>1. \A t \in Sides : /\ At(t) \in Endpoint
                       /\ At(t) \notin Readers(PublishesOn(e))
  BY WatchedEnds, NotRead
<1>2. \A t \in Sides : At(t) # PeerOf(e)
  <2>1. SUFFICES ASSUME NEW t \in Sides, At(t) = PeerOf(e) PROVE FALSE
    OBVIOUS
  <2>2. e = At(Other(t))
    BY <2>1 DEF At, PeerOf, Endpoint, EndpointsOf, Sides, Other
  <2> QED
    BY <2>2, WatchedEnds
<1>3. \A t \in Sides : published[At(t)] \in Nat /\ missed[At(t)] \in Nat
  BY <1>1 DEF Shaped
<1>4. \A t \in Sides : /\ published'[At(t)] = published[At(t)]
                       /\ missed'[At(t)] = missed[At(t)]
                       /\ queue'[At(t)] = queue[At(t)]
  BY <1>1, <1>2, <1>3 DEF Publish
<1> QED
  BY <1>4 DEF SameAtEnds

-----------------------------------------------------------------------------
(* Refinement                                                              *)

\* The views are the variables of the channel implemented.
ViewsKept ==
  /\ View(port') = View(port) /\ View(waiting') = View(waiting)
  /\ View(queue') = View(queue) /\ View(got') = View(got)
  /\ View(published') = View(published) /\ View(missed') = View(missed)
  /\ ViewOfResult(result') = ViewOfResult(result)

\* What both ends do not see is a stutter of the channel.
LEMMA KeptIsStutter == ViewsKept => UNCHANGED Pair!shmVars
  BY DEF ViewsKept, View, ViewOfResult, Pair!shmVars

\* A publication of an end is one of the channel's.
LEMMA PublishImplements ==
  ASSUME Shaped, NEW s \in Sides, NEW m, Publish(At(s), m)
  PROVE  Pair!Publish(s, m)
<1> DEFINE p == Other(s)
<1>1. p \in Sides /\ Pair!Peer(s) = p
  BY DEF Pair!Peer, Other, Sides
<1>2. Attached(At(p)) <=> Pair!Attached(p)
  BY <1>1 DEF Attached, Pair!Attached
<1>3. View(published)[p] = published[At(p)]
  BY <1>1 DEF View
<1>4. \A frames, frame : Kept(AlertDepth, frames, frame) = Pair!Overflowing(frames, frame)
  BY DEF Kept, Pair!Overflowing
<1>5. CASE Attached(At(p))
  <2>1. /\ View(published') = [View(published) EXCEPT ![p] = @ + 1]
        /\ View(queue') =
             [View(queue) EXCEPT ![p] =
                Pair!Overflowing(@, [id |-> View(published)[p] + 1, msg |-> m])]
        /\ View(missed') = View(missed)
    BY <1>3, <1>4, <1>5, PublishToPeer
  <2> QED
    BY <1>1, <1>2, <1>5, <2>1 DEF Pair!Publish, View
<1>6. CASE ~Attached(At(p))
  <2>1. /\ View(missed') = [View(missed) EXCEPT ![p] = @ + 1]
        /\ View(published') = View(published)
        /\ View(queue') = View(queue)
    BY <1>6, PublishToPeer
  <2> QED
    BY <1>1, <1>2, <1>6, <2>1 DEF Pair!Publish, View
<1> QED
  BY <1>5, <1>6

\* What an end of the channel does is what the end of an IPC connection does.
LEMMA EndImplements ==
  ASSUME Shaped, NEW s \in Sides, ChannelNext(At(s))
  PROVE  Pair!EndNext(s)
<1> DEFINE e == At(s)
<1>1. /\ View(port)[s] = port[e] /\ View(waiting)[s] = waiting[e]
      /\ View(queue)[s] = queue[e] /\ View(got)[s] = got[e]
  BY DEF View
<1>2. /\ \A v : View([port EXCEPT ![e] = v]) = [View(port) EXCEPT ![s] = v]
      /\ \A v : View([waiting EXCEPT ![e] = v]) = [View(waiting) EXCEPT ![s] = v]
      /\ \A v : View([queue EXCEPT ![e] = v]) = [View(queue) EXCEPT ![s] = v]
      /\ \A v : View([got EXCEPT ![e] = v]) = [View(got) EXCEPT ![s] = v]
  <2>0. \A t \in Sides : At(t) \in Endpoint /\ (At(t) = e <=> t = s)
    BY WatchedEnds
  <2>1. \A v : View([port EXCEPT ![e] = v]) = [View(port) EXCEPT ![s] = v]
    <3> SUFFICES ASSUME NEW v
                 PROVE  View([port EXCEPT ![e] = v]) = [View(port) EXCEPT ![s] = v]
      OBVIOUS
    <3>1. \A t \in Sides : [port EXCEPT ![e] = v][At(t)]
                           = IF t = s THEN v ELSE port[At(t)]
      BY <2>0 DEF Shaped, OverEndpoints
    <3> QED
      BY <3>1 DEF View
  <2>2. \A v : View([waiting EXCEPT ![e] = v]) = [View(waiting) EXCEPT ![s] = v]
    <3> SUFFICES ASSUME NEW v
                 PROVE  View([waiting EXCEPT ![e] = v]) = [View(waiting) EXCEPT ![s] = v]
      OBVIOUS
    <3>1. \A t \in Sides : [waiting EXCEPT ![e] = v][At(t)]
                           = IF t = s THEN v ELSE waiting[At(t)]
      BY <2>0 DEF Shaped, OverEndpoints
    <3> QED
      BY <3>1 DEF View
  <2>3. \A v : View([queue EXCEPT ![e] = v]) = [View(queue) EXCEPT ![s] = v]
    <3> SUFFICES ASSUME NEW v
                 PROVE  View([queue EXCEPT ![e] = v]) = [View(queue) EXCEPT ![s] = v]
      OBVIOUS
    <3>1. \A t \in Sides : [queue EXCEPT ![e] = v][At(t)]
                           = IF t = s THEN v ELSE queue[At(t)]
      BY <2>0 DEF Shaped, OverEndpoints
    <3> QED
      BY <3>1 DEF View
  <2>4. \A v : View([got EXCEPT ![e] = v]) = [View(got) EXCEPT ![s] = v]
    <3> SUFFICES ASSUME NEW v
                 PROVE  View([got EXCEPT ![e] = v]) = [View(got) EXCEPT ![s] = v]
      OBVIOUS
    <3>1. \A t \in Sides : [got EXCEPT ![e] = v][At(t)]
                           = IF t = s THEN v ELSE got[At(t)]
      BY <2>0 DEF Shaped, OverEndpoints
    <3> QED
      BY <3>1 DEF View
  <2> QED
    BY <2>1, <2>2, <2>3, <2>4
<1>R. ASSUME NEW code, Returns(e, code)
      PROVE  ViewOfResult(result') =
               [ViewOfResult(result) EXCEPT ![s] = Reported(code)]
  <2>1. \A t \in Sides : At(t) \in Endpoint /\ (At(t) = e <=> t = s)
    BY WatchedEnds
  <2>2. \A t \in Sides : result'[At(t)] = IF t = s THEN code ELSE result[At(t)]
    BY <1>R, <2>1 DEF Returns, Shaped, OverEndpoints
  <2>3. ViewOfResult(result')
          = [t \in Sides |-> IF t = s THEN Reported(code) ELSE Reported(result[At(t)])]
    BY <2>2 DEF ViewOfResult
  <2>4. [ViewOfResult(result) EXCEPT ![s] = Reported(code)]
          = [t \in Sides |-> IF t = s THEN Reported(code) ELSE Reported(result[At(t)])]
    BY DEF ViewOfResult
  <2> QED
    BY <2>3, <2>4
<1>3. /\ Pair!Attached(s) <=> Attached(e)
      /\ Pair!Free(s) <=> Free(e)
      /\ Pair!Live(s) <=> port[e] = "open"
  BY DEF Attached, Free, Pair!Attached, Pair!Free, Pair!Live
<1>4. \A code \in {"Ok", "ConnectionFailed", "FramingError", "ShuttingDown",
                   "SendFailed", "ReceiveFailed"} : Reported(code) = code
  BY DEF Reported
<1>5. SentBetween(e) < MaxSends => Pair!WithinBound(s)
  <2>1. PeerOf(e) = At(Other(s)) /\ Other(s) \in Sides /\ Pair!Peer(s) = Other(s)
    BY WatchedEnds DEF Pair!Peer, Other
  <2>2. /\ published[e] \in Nat /\ missed[e] \in Nat
        /\ published[At(Other(s))] \in Nat /\ missed[At(Other(s))] \in Nat
    BY WatchedEnds DEF Shaped
  <2>3. MaxSends \in Nat
    BY EmergencyAssumption
  <2> QED
    BY <2>1, <2>2, <2>3 DEF SentBetween, Pair!WithinBound
<1>6. ASSUME Open(e) PROVE Pair!Open(s)
  <2>1. /\ View(port') = [View(port) EXCEPT ![s] = "open"]
        /\ View(waiting') = View(waiting)
        /\ View(queue') = View(queue)
        /\ View(published') = View(published)
        /\ View(missed') = View(missed)
        /\ View(got') = View(got)
    BY <1>6, <1>2 DEF Open
  <2>2. ViewOfResult(result') = [ViewOfResult(result) EXCEPT ![s] =
          "Ok"]
    <3> DEFINE code == "Ok"
    <3>1. Reported(code) = code
      BY DEF Reported
    <3>2. Returns(e, code)
      BY <1>6 DEF Open
    <3> HIDE DEF code
    <3>3. ViewOfResult(result') = [ViewOfResult(result) EXCEPT ![s] = code]
      BY <3>1, <3>2, <1>R
    <3> QED
      BY <3>3 DEF code
  <2> QED
    BY <1>6, <1>1, <1>3, <2>1, <2>2
    DEF Open, Pair!Open, View, ViewOfResult
<1>7. ASSUME OpenFails(e) PROVE Pair!OpenFails(s)
  <2>1. /\ View(port') = View(port)
        /\ View(waiting') = View(waiting)
        /\ View(queue') = View(queue)
        /\ View(published') = View(published)
        /\ View(missed') = View(missed)
        /\ View(got') = View(got)
    BY <1>7, <1>2 DEF OpenFails
  <2>2. ViewOfResult(result') = [ViewOfResult(result) EXCEPT ![s] =
          "ConnectionFailed"]
    <3> DEFINE code == "ConnectionFailed"
    <3>1. Reported(code) = code
      BY DEF Reported
    <3>2. Returns(e, code)
      BY <1>7 DEF OpenFails
    <3> HIDE DEF code
    <3>3. ViewOfResult(result') = [ViewOfResult(result) EXCEPT ![s] = code]
      BY <3>1, <3>2, <1>R
    <3> QED
      BY <3>3 DEF code
  <2> QED
    BY <1>7, <1>1, <1>3, <2>1, <2>2
    DEF OpenFails, Pair!OpenFails, View, ViewOfResult
<1>8. ASSUME NEW a \in Alert, SendRefused(e, a) PROVE Pair!SendRefused(s, a)
  <2>1. /\ View(port') = View(port)
        /\ View(waiting') = View(waiting)
        /\ View(queue') = View(queue)
        /\ View(published') = View(published)
        /\ View(missed') = View(missed)
        /\ View(got') = View(got)
    BY <1>8, <1>2 DEF SendRefused
  <2>2. ViewOfResult(result') = [ViewOfResult(result) EXCEPT ![s] =
          IF port[e] = "closed" THEN "ShuttingDown" ELSE "FramingError"]
    <3> DEFINE code == IF port[e] = "closed" THEN "ShuttingDown" ELSE "FramingError"
    <3>1. Reported(code) = code
      BY DEF Reported
    <3>2. Returns(e, code)
      BY <1>8 DEF SendRefused
    <3> HIDE DEF code
    <3>3. ViewOfResult(result') = [ViewOfResult(result) EXCEPT ![s] = code]
      BY <3>1, <3>2, <1>R
    <3> QED
      BY <3>3 DEF code
  <2> QED
    BY <1>8, <1>1, <1>3, <2>1, <2>2
    DEF SendRefused, Pair!SendRefused, View, ViewOfResult
<1>9. ASSUME Receive(e) PROVE Pair!Receive(s)
  <2>1. /\ View(port') = View(port)
        /\ View(waiting') = [View(waiting) EXCEPT ![s] = FALSE]
        /\ View(queue') = [View(queue) EXCEPT ![s] = Tail(queue[e])]
        /\ View(published') = View(published)
        /\ View(missed') = View(missed)
        /\ View(got') = [View(got) EXCEPT ![s] = Append(got[e], Head(queue[e]).id)]
    BY <1>9, <1>2 DEF Receive
  <2>2. ViewOfResult(result') = [ViewOfResult(result) EXCEPT ![s] =
          IF Head(queue[e]).msg.len <= MaxAlert THEN "Ok" ELSE "FramingError"]
    <3> DEFINE code == IF Head(queue[e]).msg.len <= MaxAlert THEN "Ok" ELSE "FramingError"
    <3>1. Reported(code) = code
      BY DEF Reported
    <3>2. Returns(e, code)
      BY <1>9 DEF Receive
    <3> HIDE DEF code
    <3>3. ViewOfResult(result') = [ViewOfResult(result) EXCEPT ![s] = code]
      BY <3>1, <3>2, <1>R
    <3> QED
      BY <3>3 DEF code
  <2> QED
    BY <1>9, <1>1, <1>3, <2>1, <2>2
    DEF Receive, Pair!Receive, View, ViewOfResult
<1>10. ASSUME Sleep(e) PROVE Pair!Sleep(s)
  <2>1. /\ View(port') = View(port)
        /\ View(waiting') = [View(waiting) EXCEPT ![s] = TRUE]
        /\ View(queue') = View(queue)
        /\ View(published') = View(published)
        /\ View(missed') = View(missed)
        /\ View(got') = View(got)
        /\ ViewOfResult(result') = ViewOfResult(result)
    BY <1>10, <1>2, <1>4 DEF Sleep
  <2> QED
    BY <1>10, <1>1, <1>3, <2>1
    DEF Sleep, Pair!Sleep, View, ViewOfResult
<1>11. ASSUME ReceiveFails(e) PROVE Pair!ReceiveFails(s)
  <2>1. /\ View(port') = View(port)
        /\ View(waiting') = [View(waiting) EXCEPT ![s] = FALSE]
        /\ View(queue') = View(queue)
        /\ View(published') = View(published)
        /\ View(missed') = View(missed)
        /\ View(got') = View(got)
    BY <1>11, <1>2 DEF ReceiveFails
  <2>2. ViewOfResult(result') = [ViewOfResult(result) EXCEPT ![s] =
          "ReceiveFailed"]
    <3> DEFINE code == "ReceiveFailed"
    <3>1. Reported(code) = code
      BY DEF Reported
    <3>2. Returns(e, code)
      BY <1>11 DEF ReceiveFails
    <3> HIDE DEF code
    <3>3. ViewOfResult(result') = [ViewOfResult(result) EXCEPT ![s] = code]
      BY <3>1, <3>2, <1>R
    <3> QED
      BY <3>3 DEF code
  <2> QED
    BY <1>11, <1>1, <1>3, <2>1, <2>2
    DEF ReceiveFails, Pair!ReceiveFails, View, ViewOfResult
<1>12. ASSUME ReceiveRefused(e) PROVE Pair!ReceiveRefused(s)
  <2>1. /\ View(port') = View(port)
        /\ View(waiting') = View(waiting)
        /\ View(queue') = View(queue)
        /\ View(published') = View(published)
        /\ View(missed') = View(missed)
        /\ View(got') = View(got)
    BY <1>12, <1>2 DEF ReceiveRefused
  <2>2. ViewOfResult(result') = [ViewOfResult(result) EXCEPT ![s] =
          "ShuttingDown"]
    <3> DEFINE code == "ShuttingDown"
    <3>1. Reported(code) = code
      BY DEF Reported
    <3>2. Returns(e, code)
      BY <1>12 DEF ReceiveRefused
    <3> HIDE DEF code
    <3>3. ViewOfResult(result') = [ViewOfResult(result) EXCEPT ![s] = code]
      BY <3>1, <3>2, <1>R
    <3> QED
      BY <3>3 DEF code
  <2> QED
    BY <1>12, <1>1, <1>3, <2>1, <2>2
    DEF ReceiveRefused, Pair!ReceiveRefused, View, ViewOfResult
<1>13. ASSUME CancelReceive(e) PROVE Pair!CancelReceive(s)
  <2>1. /\ View(port') = View(port)
        /\ View(waiting') = [View(waiting) EXCEPT ![s] = FALSE]
        /\ View(queue') = View(queue)
        /\ View(published') = View(published)
        /\ View(missed') = View(missed)
        /\ View(got') = View(got)
        /\ ViewOfResult(result') = ViewOfResult(result)
    BY <1>13, <1>2, <1>4 DEF CancelReceive
  <2> QED
    BY <1>13, <1>1, <1>3, <2>1
    DEF CancelReceive, Pair!CancelReceive, View, ViewOfResult
<1>14. ASSUME Close(e) PROVE Pair!Close(s)
  <2>1. /\ View(port') = [View(port) EXCEPT ![s] = "closed"]
        /\ View(waiting') = View(waiting)
        /\ View(queue') = View(queue)
        /\ View(published') = View(published)
        /\ View(missed') = View(missed)
        /\ View(got') = View(got)
    BY <1>14, <1>2 DEF Close
  <2>2. ViewOfResult(result') = [ViewOfResult(result) EXCEPT ![s] =
          "Ok"]
    <3> DEFINE code == "Ok"
    <3>1. Reported(code) = code
      BY DEF Reported
    <3>2. Returns(e, code)
      BY <1>14 DEF Close
    <3> HIDE DEF code
    <3>3. ViewOfResult(result') = [ViewOfResult(result) EXCEPT ![s] = code]
      BY <3>1, <3>2, <1>R
    <3> QED
      BY <3>3 DEF code
  <2> QED
    BY <1>14, <1>1, <1>3, <2>1, <2>2
    DEF Close, Pair!Close, View, ViewOfResult
<1>15. ASSUME Drop(e) PROVE Pair!Drop(s)
  <2>1. /\ View(port') = [View(port) EXCEPT ![s] = "dropped"]
        /\ View(waiting') = [View(waiting) EXCEPT ![s] = FALSE]
        /\ View(queue') = [View(queue) EXCEPT ![s] = <<>>]
        /\ View(published') = View(published)
        /\ View(missed') = View(missed)
        /\ View(got') = View(got)
        /\ ViewOfResult(result') = ViewOfResult(result)
    BY <1>15, <1>2, <1>4 DEF Drop
  <2> QED
    BY <1>15, <1>1, <1>3, <2>1
    DEF Drop, Pair!Drop, View, ViewOfResult
<1>16. ASSUME SendFails(e) PROVE Pair!SendFails(s)
  <2>1. PICK code \in {"BackpressureFull", "SendFailed"} : Returns(e, code)
    BY <1>16 DEF SendFails
  <2>2. Reported(code) = "SendFailed"
    BY DEF Reported
  <2>3. ViewOfResult(result') = [ViewOfResult(result) EXCEPT ![s] = "SendFailed"]
    BY <1>R, <2>1, <2>2
  <2> QED
    BY <1>16, <1>3, <2>3 DEF SendFails, Pair!SendFails, View, ViewOfResult
<1>17. ASSUME NEW a \in Alert, Send(e, a) PROVE Pair!Send(s, a)
  <2>1. Pair!Publish(s, a)
    BY <1>17, PublishImplements DEF Send
  <2>2. ViewOfResult(result') = [ViewOfResult(result) EXCEPT ![s] = "Ok"]
    BY <1>17, <1>4, <1>R DEF Send
  <2> QED
    BY <1>17, <1>3, <1>5, <2>1, <2>2 DEF Send, Pair!Send, View, ViewOfResult
<1>18. ASSUME NEW a \in Alert, PublishOversized(e, a) PROVE Pair!PublishOversized(s, a)
  <2>1. Pair!Publish(s, a)
    BY <1>18, PublishImplements DEF PublishOversized
  <2>2. ViewOfResult(result') = [ViewOfResult(result) EXCEPT ![s] = "Ok"]
    BY <1>18, <1>4, <1>R DEF PublishOversized
  <2> QED
    BY <1>18, <1>3, <1>5, <2>1, <2>2 DEF PublishOversized, Pair!PublishOversized, View, ViewOfResult
<1> QED
  BY <1>6, <1>7, <1>8, <1>9, <1>10, <1>11, <1>12, <1>13,
     <1>14, <1>15, <1>16, <1>17, <1>18
  DEF ChannelNext, Pair!EndNext
-----------------------------------------------------------------------------
(* Everyone else                                                           *)

\* Both ends see no change where none is made at their endpoints.
LEMMA SameViews ==
  ASSUME SameAtEnds(port, port'), SameAtEnds(waiting, waiting'),
         SameAtEnds(queue, queue'), SameAtEnds(got, got'),
         SameAtEnds(published, published'), SameAtEnds(missed, missed'),
         SameAtEnds(result, result')
  PROVE  ViewsKept
  BY DEF SameAtEnds, ViewsKept, View, ViewOfResult

\* Other channels, and main connections of any name, leave both ends alone.
LEMMA OthersAreStutter ==
  ASSUME Shaped, NEW e \in Endpoint, \A s \in Sides : e # At(s),
         ChannelNext(e) \/ MainNext(e)
  PROVE  ViewsKept
<1>0. \A s \in Sides : At(s) \in Endpoint /\ At(s) # e
  BY WatchedEnds
<1>P. ASSUME NEW m, Publish(e, m)
      PROVE  /\ SameAtEnds(queue, queue')
             /\ SameAtEnds(published, published') /\ SameAtEnds(missed, missed')
  BY <1>P, PublishElsewhere
<1>R. ASSUME NEW code, Returns(e, code) PROVE SameAtEnds(result, result')
  BY <1>0, <1>R DEF Returns, Shaped, OverEndpoints, SameAtEnds
<1>1. CASE Open(e)
  BY <1>0, <1>1, SameViews
  DEF Open, Returns, Shaped, OverEndpoints, SameAtEnds
<1>2. CASE OpenFails(e)
  BY <1>0, <1>2, SameViews
  DEF OpenFails, Returns, Shaped, OverEndpoints, SameAtEnds
<1>3. CASE SendFails(e)
  <2>1. PICK code : Returns(e, code)
    BY <1>3 DEF SendFails
  <2> QED
    BY <1>3, <1>R, <2>1, SameViews DEF SendFails, SameAtEnds
<1>4. CASE Receive(e)
  BY <1>0, <1>4, SameViews
  DEF Receive, Returns, Shaped, OverEndpoints, SameAtEnds
<1>5. CASE Sleep(e)
  BY <1>0, <1>5, SameViews
  DEF Sleep, Shaped, OverEndpoints, SameAtEnds
<1>6. CASE ReceiveFails(e)
  BY <1>0, <1>6, SameViews
  DEF ReceiveFails, Returns, Shaped, OverEndpoints, SameAtEnds
<1>7. CASE ReceiveRefused(e)
  BY <1>0, <1>7, SameViews
  DEF ReceiveRefused, Returns, Shaped, OverEndpoints, SameAtEnds
<1>8. CASE CancelReceive(e)
  BY <1>0, <1>8, SameViews
  DEF CancelReceive, Shaped, OverEndpoints, SameAtEnds
<1>9. CASE Close(e)
  BY <1>0, <1>9, SameViews
  DEF Close, Returns, Shaped, OverEndpoints, SameAtEnds
<1>10. CASE Drop(e)
  BY <1>0, <1>10, SameViews
  DEF Drop, Shaped, OverEndpoints, SameAtEnds
<1>11. CASE MainOpens(e)
  BY <1>0, <1>11, SameViews
  DEF MainOpens, Shaped, OverEndpoints, SameAtEnds
<1>12. CASE MainTakes(e)
  BY <1>0, <1>12, SameViews
  DEF MainTakes, Shaped, OverEndpoints, SameAtEnds
<1>13. CASE MainGoes(e)
  BY <1>0, <1>13, SameViews
  DEF MainGoes, Shaped, OverEndpoints, SameAtEnds
<1>14. ASSUME NEW a \in Alert, SendRefused(e, a) PROVE ViewsKept
  BY <1>0, <1>14, SameViews
  DEF SendRefused, Returns, Shaped, OverEndpoints, SameAtEnds
<1>15. ASSUME NEW a \in Alert, Send(e, a) PROVE ViewsKept
  <2>1. Publish(e, a) /\ Returns(e, "Ok")
    BY <1>15 DEF Send
  <2>2. /\ SameAtEnds(queue, queue') /\ SameAtEnds(published, published')
        /\ SameAtEnds(missed, missed') /\ SameAtEnds(result, result')
    BY <2>1, <1>P, <1>R
  <2> QED
    BY <1>15, <2>2, SameViews DEF Send, SameAtEnds
<1>16. ASSUME NEW a \in Alert, PublishOversized(e, a) PROVE ViewsKept
  <2>1. Publish(e, a) /\ Returns(e, "Ok")
    BY <1>16 DEF PublishOversized
  <2>2. /\ SameAtEnds(queue, queue') /\ SameAtEnds(published, published')
        /\ SameAtEnds(missed, missed') /\ SameAtEnds(result, result')
    BY <2>1, <1>P, <1>R
  <2> QED
    BY <1>16, <2>2, SameViews DEF PublishOversized, SameAtEnds
<1>17. CASE MainSends(e)
  <2>1. Publish(e, [len |-> 0])
    BY <1>17 DEF MainSends
  <2>2. /\ SameAtEnds(queue, queue') /\ SameAtEnds(published, published')
        /\ SameAtEnds(missed, missed')
    BY <2>1, <1>P
  <2> QED
    BY <1>17, <2>2, SameViews DEF MainSends, SameAtEnds
<1> QED
  BY <1>1, <1>2, <1>3, <1>4, <1>5, <1>6, <1>7, <1>8, <1>9, <1>10,
     <1>11, <1>12, <1>13, <1>14, <1>15, <1>16, <1>17
  DEF ChannelNext, MainNext

\* Before anything is opened the channel implemented is in its initial state.
LEMMA InitImplements == EmergencyInit => Pair!ShmInit
<1>1. \A s \in Sides : At(s) \in Endpoint
  BY WatchedEnds
<1> QED
  BY <1>1 DEF EmergencyInit, Pair!ShmInit, Pair!Ends, Sides, Reported

\* Every step of every endpoint is a step of the channel or a stutter.
LEMMA StepImplements ==
  Shaped /\ [EmergencyNext]_emergencyVars => [Pair!ShmNext]_(Pair!shmVars)
<1> SUFFICES ASSUME Shaped, [EmergencyNext]_emergencyVars
             PROVE  Pair!ShmNext \/ UNCHANGED Pair!shmVars
  OBVIOUS
<1>1. ASSUME NEW s \in Sides, ChannelNext(At(s)) PROVE Pair!ShmNext
  BY <1>1, EndImplements DEF Pair!ShmNext, Pair!Ends, Sides
<1>2. ASSUME NEW e \in Endpoint, \A s \in Sides : e # At(s),
             ChannelNext(e) \/ MainNext(e)
      PROVE  UNCHANGED Pair!shmVars
  BY <1>2, OthersAreStutter, KeptIsStutter
<1>3. CASE UNCHANGED emergencyVars
  BY <1>3 DEF emergencyVars, Pair!shmVars
<1>4. ASSUME NEW e \in EndpointsOf("ipc"), MainNext(e)
      PROVE  UNCHANGED Pair!shmVars
  <2>1. e \in Endpoint /\ e.channel = "ipc"
    BY DEF Endpoint, EndpointsOf
  <2>2. \A s \in Sides : e # At(s)
    BY <2>1 DEF At
  <2> QED
    BY <1>2, <1>4, <2>1, <2>2
<1>5. ASSUME NEW e \in EndpointsOf("emergency"), ChannelNext(e)
      PROVE  Pair!ShmNext \/ UNCHANGED Pair!shmVars
  BY <1>1, <1>2, <1>5 DEF Endpoint
<1> QED
  BY <1>3, <1>4, <1>5 DEF EmergencyNext

-----------------------------------------------------------------------------
\* "Physically isolated" (emergency.rs): for any names and any number of
\* channels and main connections, whatever they do and in whatever order they
\* are opened and dropped, an emergency channel behaves as a shared-memory
\* channel of its own that nobody else uses.
THEOREM AlertsAreChannel == EmergencySpec => AlertsImplementChannel
<1>1. EmergencyInit => Shaped
  BY InitShaped
<1>2. Shaped /\ [EmergencyNext]_emergencyVars => Shaped'
  BY StepShaped
<1>3. EmergencyInit => Pair!ShmInit
  BY InitImplements
<1>4. Shaped /\ [EmergencyNext]_emergencyVars => [Pair!ShmNext]_(Pair!shmVars)
  BY StepImplements
<1> QED
  BY <1>1, <1>2, <1>3, <1>4, PTL
  DEF EmergencySpec, AlertsImplementChannel, Pair!ShmSpec
-----------------------------------------------------------------------------
\* Endpoints that meet at a service carry the same type of frame: the prefixes
\* keep the names apart.
LEMMA MeetOnlyOwnKind ==
  ASSUME NEW e \in Endpoint, NEW h \in Endpoint,
         Services(h) \cap Services(e) # {}
  PROVE  FrameType(h) = FrameType(e)
<1>1. PICK d \in {"c2s", "s2c"}, c \in {"c2s", "s2c"} :
        Service(h, d) = Service(e, c)
  BY DEF Services, SubscribesTo, PublishesOn
<1>2. Prefix(h.channel) = Prefix(e.channel)
  BY <1>1 DEF Service
<1>3. e.channel \in {"emergency", "ipc"} /\ h.channel \in {"emergency", "ipc"}
  BY DEF Endpoint, EndpointsOf
<1> QED
  BY <1>2, <1>3 DEF Prefix, FrameType

\* Under any names, in whatever order channels and connections are opened and
\* dropped, open_or_create never finds a service of the other type of frame.
THEOREM KindsApart == EmergencySpec => []NeverMistaken
<1>1. NeverMistaken
  BY MeetOnlyOwnKind DEF NeverMistaken, Compatible
<1> QED
  BY <1>1, PTL
=============================================================================
