----------------------------- MODULE GatewayProofs -----------------------------
(***************************************************************************)
(* Proofs about Gateway for any number of messages, failures and dropped   *)
(* calls: the order of what crosses the bridge, how much it may lose, and  *)
(* that it stands between the channels the other modules describe.         *)
(***************************************************************************)
EXTENDS Gateway, ShmProofs

\* How far the gateway's subscriber has come: every frame up to here was read
\* or lost to an overflow.
Cursor == published["server"] - Len(buffer["server"])

\* No element exceeds n.
UpTo(s, n) == \A i \in 1..Len(s) : s[i] <= n

\* Nothing sent over QUIC is newer than this: it is older than the message in
\* hand, or no newer than the last frame read.
Limit == IF hand # Empty THEN hand - 1 ELSE Cursor

GatewayTypes ==
  /\ hand \in Nat
  /\ sentOut \in Seq(Nat) /\ toRemote \in Seq(Nat) /\ remoteGot \in Seq(Nat)
  /\ sentIn \in Seq(Nat) /\ fromRemote \in Seq(Message)
  /\ remoteSent \in Nat /\ takenIn \in Nat /\ failures \in Nat

OutOrdered ==
  /\ hand <= Cursor
  /\ Increasing(sentOut) /\ UpTo(sentOut, Limit)
  /\ Increasing(remoteGot \o toRemote) /\ UpTo(remoteGot \o toRemote, Limit)

\* The messages on their way from the remote follow what was sent over IPC.
InOrdered ==
  /\ Increasing(sentIn) /\ UpTo(sentIn, remoteSent)
  /\ \A i \in 1..Len(fromRemote) :
       /\ fromRemote[i].tag <= remoteSent
       /\ \A j \in 1..Len(sentIn) : sentIn[j] < fromRemote[i].tag
  /\ \A i, j \in 1..Len(fromRemote) :
       i < j => fromRemote[i].tag < fromRemote[j].tag

GatewayInv ==
  /\ ShmInv
  /\ GatewayTypes
  /\ OutOrdered
  /\ InOrdered
  /\ LossBounded

-----------------------------------------------------------------------------
(* Sequences                                                               *)

\* A number above all others may follow them.
LEMMA AppendOrdered ==
  ASSUME NEW s \in Seq(Nat), NEW x \in Nat, NEW n \in Int,
         Increasing(s), UpTo(s, n), n < x
  PROVE  /\ Append(s, x) \in Seq(Nat)
         /\ Len(Append(s, x)) = Len(s) + 1
         /\ Increasing(Append(s, x))
         /\ UpTo(Append(s, x), x)
<1> DEFINE r == Append(s, x)
<1>1. /\ Len(s) \in Nat /\ Len(r) = Len(s) + 1 /\ r \in Seq(Nat)
      /\ r[Len(s) + 1] = x
      /\ \A i \in 1..Len(s) : r[i] = s[i] /\ s[i] \in Nat /\ s[i] <= n
  BY AppendProperties DEF UpTo
<1>2. \A i, j \in 1..Len(s) : i < j => s[i] < s[j]
  BY DEF Increasing
<1> HIDE DEF r
<1>3. \A i \in 1..Len(r) : i \in 1..Len(s) \/ i = Len(s) + 1
  BY <1>1
<1>4. ASSUME NEW i \in 1..Len(r), NEW j \in 1..Len(r), i < j
      PROVE  r[i] < r[j]
  <2>1. i \in 1..Len(s)
    BY <1>1, <1>3, <1>4
  <2>2. CASE j \in 1..Len(s)
    BY <1>1, <1>2, <1>4, <2>1, <2>2
  <2>3. CASE j = Len(s) + 1
    <3>1. r[j] = x
      BY <1>1, <2>3
    <3>2. r[i] \in Nat /\ r[i] <= n
      BY <1>1, <2>1
    <3> QED
      BY <3>1, <3>2
  <2> QED
    BY <1>3, <2>2, <2>3
<1>5. ASSUME NEW i \in 1..Len(r) PROVE r[i] <= x
  <2>1. CASE i \in 1..Len(s)
    <3>1. r[i] \in Nat /\ r[i] <= n
      BY <1>1, <2>1
    <3> QED
      BY <3>1
  <2>2. CASE i = Len(s) + 1
    BY <1>1, <2>2
  <2> QED
    BY <1>3, <2>1, <2>2
<1>6. Increasing(r) /\ UpTo(r, x)
  BY <1>4, <1>5 DEF Increasing, UpTo
<1> QED
  BY <1>1, <1>6 DEF r

\* Cutting the end of a sequence keeps its order and its limit.
LEMMA CutOrdered ==
  ASSUME NEW a \in Seq(Nat), NEW b \in Seq(Nat), NEW k \in 0..Len(b), NEW n \in Int,
         Increasing(a \o b), UpTo(a \o b, n)
  PROVE  LET c == SubSeq(b, 1, k)
         IN  c \in Seq(Nat) /\ Increasing(a \o c) /\ UpTo(a \o c, n)
<1> DEFINE c == SubSeq(b, 1, k)
<1>1. Len(a) \in Nat /\ Len(b) \in Nat /\ k \in Nat /\ k <= Len(b)
  OBVIOUS
<1>2. c \in Seq(Nat) /\ Len(c) = k /\ \A i \in 1..k : c[i] = b[i]
  BY <1>1, SubSeqProperties
<1> HIDE DEF c
<1>3. /\ Len(a \o c) = Len(a) + k
      /\ \A i \in 1..Len(a) + k : (a \o c)[i] = IF i <= Len(a) THEN a[i] ELSE c[i - Len(a)]
  BY <1>1, <1>2, ConcatProperties
<1>4. /\ Len(a \o b) = Len(a) + Len(b)
      /\ \A i \in 1..Len(a) + Len(b) :
           (a \o b)[i] = IF i <= Len(a) THEN a[i] ELSE b[i - Len(a)]
  BY <1>1, ConcatProperties
<1>5. \A i \in 1..Len(a \o c) : i \in 1..Len(a \o b) /\ (a \o c)[i] = (a \o b)[i]
  BY <1>1, <1>2, <1>3, <1>4
<1>6. Increasing(a \o c) /\ UpTo(a \o c, n)
  BY <1>5 DEF Increasing, UpTo
<1> QED
  BY <1>2, <1>6 DEF c

\* What is below a limit is below a greater one.
LEMMA RaiseLimit ==
  ASSUME NEW s \in Seq(Nat), NEW m \in Int, NEW n \in Int, UpTo(s, m), m <= n
  PROVE  UpTo(s, n)
<1>1. \A i \in 1..Len(s) : s[i] \in Nat
  OBVIOUS
<1> QED
  BY <1>1 DEF UpTo

-----------------------------------------------------------------------------
(* The cursor                                                              *)

\* The cursor is a number of a frame.
LEMMA CursorIsNat ==
  ASSUME ShmInv
  PROVE  /\ Cursor \in Nat
         /\ buffer["server"] \in Seq(Frame)
         /\ Len(buffer["server"]) \in Nat
         /\ published["server"] \in Nat
<1>1. "server" \in Ends
  BY DEF Ends
<1>2. Len(buffer["server"]) <= published["server"]
  BY <1>1 DEF ShmInv, EndInv, Consecutive, Gapless
<1> QED
  BY <1>1, <1>2, EndTypes DEF ShmInv, Cursor

\* No step of the connection moves the cursor back.
LEMMA CursorMoves ==
  ASSUME ShmInv, [ShmNext]_shmVars
  PROVE  ShmInv' /\ Cursor' \in Nat /\ Cursor <= Cursor'
<1>1. ShmInv'
  BY StepShm
<1>2. Cursor \in Nat /\ Len(buffer["server"]) \in Nat /\ published["server"] \in Nat
  BY CursorIsNat
<1>3. Cursor' \in Nat /\ Len(buffer["server"])' \in Nat /\ published["server"]' \in Nat
  <2>1. /\ buffer["server"]' \in Seq(Frame) /\ published["server"]' \in Nat
        /\ Len(buffer["server"])' <= published["server"]'
    BY <1>1 DEF ShmInv, ShmTypeOK, EndInv, Consecutive, Gapless, Ends
  <2> QED
    BY <2>1 DEF Cursor
<1>4. Advances("server")
  BY StepAdvances DEF ShmInv, Ends
<1> QED
  BY <1>1, <1>2, <1>3, <1>4 DEF Advances, Cursor

\* Receive moves it by one, to the frame it takes.
LEMMA ReceiveCursor ==
  ASSUME ShmInv, Receive("server")
  PROVE  /\ Head(buffer["server"]).id = Cursor + 1
         /\ Cursor' = Cursor + 1
         /\ Len(got["server"]') = Len(got["server"]) + 1
<1> DEFINE q == buffer["server"]
<1>1. "server" \in Ends /\ ShmTypeOK
  BY DEF Ends, ShmInv
<1>2. q \in Seq(Frame) /\ q # <<>> /\ published["server"] \in Nat /\ got["server"] \in Seq(Nat \ {0})
  BY <1>1, EndTypes DEF Receive
<1>3. Len(q) \in Nat /\ Len(q) >= 1 /\ Head(q) = q[1] /\ Len(Tail(q)) = Len(q) - 1
      /\ Head(q) \in Frame
  BY <1>2
<1>4. /\ buffer["server"]' = Tail(q) /\ published["server"]' = published["server"]
      /\ got["server"]' = Append(got["server"], Head(q).id)
  BY <1>1 DEF Receive, ShmTypeOK
<1>5. q[1].id = published["server"] - Len(q) + 1
  BY <1>1, <1>3 DEF ShmInv, EndInv, Consecutive, Gapless
<1>6. Len(got["server"]') = Len(got["server"]) + 1
  BY <1>2, <1>3, <1>4 DEF Frame
<1> HIDE DEF q
<1>7. Cursor = published["server"] - Len(q) /\ Cursor' = published["server"] - Len(Tail(q))
  BY <1>4 DEF Cursor, q
<1> QED
  BY <1>2, <1>3, <1>5, <1>6, <1>7 DEF q

\* What the gateway does to the connection is what an end may do.
LEMMA GatewayShmStep ==
  ASSUME GatewayTypes, [GatewayNext]_gatewayVars
  PROVE  [ShmNext]_shmVars
<1>e. "server" \in Ends /\ "client" \in Ends
  BY DEF Ends
<1>1. CASE TakeFromIpc
  BY <1>e, <1>1 DEF TakeFromIpc, ShmNext, EndNext
<1>2. CASE SendToQuic \/ SendToQuicFails \/ DropWhileSending \/ DropWhileReceiving
  BY <1>2 DEF SendToQuic, SendToQuicFails, DropWhileSending, DropWhileReceiving
<1>3. CASE Forward
  <2>1. SendToIpc(Head(fromRemote)) /\ Head(fromRemote) \in Message
    BY <1>3 DEF Forward, GatewayTypes
  <2>2. EndNext("server")
    BY <2>1 DEF SendToIpc, EndNext
  <2> QED
    BY <1>e, <2>2 DEF ShmNext
<1>4. CASE CloseGateway
  BY <1>e, <1>4 DEF CloseGateway, ShmNext, EndNext
<1>5. CASE (\E m \in Message : RemoteSends(m)) \/ RemoteReceives \/ QuicDown
  BY <1>5 DEF RemoteSends, RemoteReceives, QuicDown
<1>6. CASE LocalPeer
  <2>1. EndNext("client")
    BY <1>6 DEF LocalPeer, EndNext
  <2> QED
    BY <1>e, <2>1 DEF ShmNext
<1>7. CASE UNCHANGED gatewayVars
  BY <1>7 DEF gatewayVars
<1> QED
  BY <1>1, <1>2, <1>3, <1>4, <1>5, <1>6, <1>7 DEF GatewayNext

-----------------------------------------------------------------------------
(* The initial state                                                       *)

\* The gateway starts with both ends of the connection open and empty.
LEMMA InitGateway == GatewayInit => GatewayInv
<1> SUFFICES ASSUME GatewayInit PROVE GatewayInv
  OBVIOUS
<1>1. ASSUME NEW e \in Ends
      PROVE  /\ status[e] = "open" /\ buffer[e] = <<>>
             /\ published[e] = 0 /\ got[e] = <<>>
  BY DEF GatewayInit
<1>2. /\ BufferSize \in Nat /\ Len(<<>>) = 0 /\ <<>> \in Seq(Frame)
      /\ <<>> \in Seq(Nat) /\ <<>> \in Seq(Message) /\ <<>> \in Seq(Nat \ {0})
      /\ <<>> \o <<>> = <<>>
  BY ShmAssumption
<1>3. ShmTypeOK
  BY <1>1, <1>2 DEF GatewayInit, ShmTypeOK, Result
<1>4. ASSUME NEW e \in Ends PROVE EndInv(e)
  <2>1. Len(buffer[e]) = 0 /\ Len(got[e]) = 0 /\ published[e] = 0
    BY <1>1, <1>2
  <2>2. Consecutive(e) /\ ReadEarlier(e)
    BY <2>1 DEF Consecutive, Gapless, ReadEarlier
  <2>3. Accounted(e) /\ Unopened(e)
    BY <1>1, <2>1 DEF Accounted, Unopened
  <2> QED
    BY <2>2, <2>3 DEF EndInv
<1>5. GatewayTypes
  BY <1>2 DEF GatewayInit, GatewayTypes, Empty
<1>6. OutOrdered
  <2>1. Cursor = 0 /\ hand = 0
    BY <1>1, <1>2 DEF Cursor, Ends, GatewayInit, Empty
  <2>2. sentOut = <<>> /\ remoteGot \o toRemote = <<>>
    BY <1>2 DEF GatewayInit
  <2> QED
    BY <1>2, <2>1, <2>2 DEF OutOrdered, Increasing, UpTo
<1>7. InOrdered
  BY <1>2 DEF GatewayInit, InOrdered, Increasing, UpTo
<1>8. LossBounded
  <2>1. got["server"] = <<>>
    BY <1>1 DEF Ends
  <2> QED
    BY <1>2, <2>1 DEF GatewayInit, LossBounded, Empty
<1> QED
  BY <1>3, <1>4, <1>5, <1>6, <1>7, <1>8 DEF GatewayInv, ShmInv

-----------------------------------------------------------------------------
(* The conjuncts that a step can disturb                                   *)

\* The limit of what was sent only rises, and what was sent stays below it.
LEMMA OutKept ==
  ASSUME GatewayInv, Cursor \in Nat, Cursor' \in Nat,
         GatewayTypes', Limit <= Limit', hand' <= Cursor', sentOut' = sentOut,
         Increasing((remoteGot \o toRemote)'), UpTo((remoteGot \o toRemote)', Limit)
  PROVE  OutOrdered'
<1>1. Limit \in Int /\ Limit' \in Int
  BY DEF Limit, GatewayInv, GatewayTypes
<1>2. /\ sentOut \in Seq(Nat) /\ Increasing(sentOut) /\ UpTo(sentOut, Limit)
      /\ (remoteGot \o toRemote)' \in Seq(Nat)
  BY DEF GatewayInv, GatewayTypes, OutOrdered
<1>3. UpTo(sentOut, Limit') /\ UpTo((remoteGot \o toRemote)', Limit')
  BY <1>1, <1>2, RaiseLimit
<1> QED
  BY <1>2, <1>3 DEF OutOrdered, Increasing, UpTo

\* A step that leaves the way out as it is may move the cursor.
LEMMA OutUntouched ==
  ASSUME GatewayInv, [ShmNext]_shmVars, GatewayTypes',
         UNCHANGED <<hand, sentOut, toRemote, remoteGot>>
  PROVE  OutOrdered'
<1>1. Cursor \in Nat /\ Cursor' \in Nat /\ Cursor <= Cursor'
  BY CursorMoves, CursorIsNat DEF GatewayInv
<1>2. Limit <= Limit' /\ hand' <= Cursor'
  BY <1>1 DEF Limit, GatewayInv, GatewayTypes, OutOrdered
<1>3. /\ Increasing((remoteGot \o toRemote)')
      /\ UpTo((remoteGot \o toRemote)', Limit)
  BY DEF GatewayInv, OutOrdered
<1> QED
  BY <1>1, <1>2, <1>3, OutKept

\* A call that lost the message in hand.
LEMMA HandLost ==
  ASSUME GatewayInv, [ShmNext]_shmVars, GatewayTypes', hand # Empty,
         hand' = Empty, UNCHANGED <<sentOut, toRemote, remoteGot>>
  PROVE  OutOrdered'
<1>1. Cursor \in Nat /\ Cursor' \in Nat /\ Cursor <= Cursor'
  BY CursorMoves, CursorIsNat DEF GatewayInv
<1>2. Limit <= Limit' /\ hand' <= Cursor'
  BY <1>1 DEF Limit, GatewayInv, GatewayTypes, OutOrdered, Empty
<1>3. /\ Increasing((remoteGot \o toRemote)')
      /\ UpTo((remoteGot \o toRemote)', Limit)
  BY DEF GatewayInv, OutOrdered
<1> QED
  BY <1>1, <1>2, <1>3, OutKept

\* The stream to the remote is cut short.
LEMMA OutCut ==
  ASSUME GatewayInv, [ShmNext]_shmVars, GatewayTypes',
         Truncated(toRemote, toRemote'), UNCHANGED <<hand, sentOut, remoteGot>>
  PROVE  OutOrdered'
<1>1. Cursor \in Nat /\ Cursor' \in Nat /\ Cursor <= Cursor'
  BY CursorMoves, CursorIsNat DEF GatewayInv
<1>2. Limit <= Limit' /\ hand' <= Cursor' /\ Limit \in Int
  BY <1>1 DEF Limit, GatewayInv, GatewayTypes, OutOrdered
<1>3. PICK k \in 0..Len(toRemote) : toRemote' = SubSeq(toRemote, 1, k)
  BY DEF Truncated
<1>4. /\ remoteGot \in Seq(Nat) /\ toRemote \in Seq(Nat)
      /\ Increasing(remoteGot \o toRemote) /\ UpTo(remoteGot \o toRemote, Limit)
  BY DEF GatewayInv, GatewayTypes, OutOrdered
<1>5. /\ Increasing(remoteGot \o SubSeq(toRemote, 1, k))
      /\ UpTo(remoteGot \o SubSeq(toRemote, 1, k), Limit)
  BY <1>2, <1>4, CutOrdered
<1>6. /\ Increasing((remoteGot \o toRemote)')
      /\ UpTo((remoteGot \o toRemote)', Limit)
  BY <1>3, <1>5
<1> QED
  BY <1>1, <1>2, <1>6, OutKept

\* Part of the stream from the remote is gone, or its first message was taken.
LEMMA InKept ==
  ASSUME GatewayInv, GatewayTypes', NEW k \in Nat,
         \A i \in 1..Len(fromRemote') :
           i + k \in 1..Len(fromRemote) /\ fromRemote'[i] = fromRemote[i + k],
         UNCHANGED <<remoteSent, sentIn>>
  PROVE  InOrdered'
<1> DEFINE r == fromRemote'
<1>1. Len(r) \in Nat
  BY DEF GatewayTypes
<1>2. \A i \in 1..Len(r) : i + k \in 1..Len(fromRemote) /\ r[i] = fromRemote[i + k]
  OBVIOUS
<1> HIDE DEF r
<1>3. /\ Increasing(sentIn) /\ UpTo(sentIn, remoteSent)
      /\ \A i \in 1..Len(fromRemote) :
           /\ fromRemote[i].tag <= remoteSent
           /\ \A j \in 1..Len(sentIn) : sentIn[j] < fromRemote[i].tag
      /\ \A i, j \in 1..Len(fromRemote) :
           i < j => fromRemote[i].tag < fromRemote[j].tag
  BY DEF GatewayInv, InOrdered
<1>4. \A i \in 1..Len(r) : /\ r[i].tag <= remoteSent
                           /\ \A j \in 1..Len(sentIn) : sentIn[j] < r[i].tag
  BY <1>2, <1>3
<1>5. ASSUME NEW i \in 1..Len(r), NEW j \in 1..Len(r), i < j
      PROVE  r[i].tag < r[j].tag
  <2>1. i + k \in 1..Len(fromRemote) /\ j + k \in 1..Len(fromRemote) /\ i + k < j + k
    BY <1>1, <1>2, <1>5
  <2> QED
    BY <1>2, <1>3, <2>1
<1> QED
  BY <1>3, <1>4, <1>5 DEF InOrdered, r, Increasing, UpTo

\* A step that leaves this direction alone keeps its order.
LEMMA InUntouched ==
  ASSUME GatewayInv, UNCHANGED <<fromRemote, remoteSent, sentIn>>
  PROVE  InOrdered'
  BY DEF GatewayInv, InOrdered, Increasing, UpTo

\* No call lost a message or took one.
LEMMA LossUntouched ==
  ASSUME GatewayInv, Len(got'["server"]) = Len(got["server"]),
         UNCHANGED <<hand, sentOut, takenIn, sentIn, failures>>
  PROVE  LossBounded'
  BY DEF GatewayInv, LossBounded

-----------------------------------------------------------------------------
(* The steps                                                               *)

\* The lengths and counters are natural numbers.
LEMMA Lengths ==
  ASSUME GatewayInv
  PROVE  /\ Len(got["server"]) \in Nat /\ Len(sentOut) \in Nat /\ Len(sentIn) \in Nat
         /\ takenIn \in Nat /\ failures \in Nat /\ hand \in Nat
  BY EndTypes DEF GatewayInv, GatewayTypes, ShmInv, Ends

\* The message taken is newer than all that went before.
LEMMA TakeFromIpcStep ==
  ASSUME GatewayInv, [ShmNext]_shmVars, TakeFromIpc
  PROVE  GatewayInv'
<1>1. /\ Cursor \in Nat /\ Cursor' = Cursor + 1
      /\ Head(buffer["server"]).id = Cursor + 1
      /\ Len(got'["server"]) = Len(got["server"]) + 1
      /\ ShmInv'
  BY CursorIsNat, CursorMoves, ReceiveCursor DEF GatewayInv, TakeFromIpc
<1>2. /\ hand = 0
      /\ UNCHANGED <<sentOut, takenIn, sentIn, toRemote, fromRemote, remoteSent, remoteGot>>
  BY DEF TakeFromIpc, quicVars, Empty
<1>3. CASE hand' = Cursor + 1 /\ failures' = failures
  <2>1. GatewayTypes'
    BY <1>1, <1>2, <1>3 DEF GatewayInv, GatewayTypes
  <2>2. Limit = Cursor /\ Limit' = Cursor /\ hand' <= Cursor' /\ Cursor' \in Nat
    BY <1>1, <1>2, <1>3 DEF Limit, Empty
  <2>3. /\ Increasing((remoteGot \o toRemote)')
        /\ UpTo((remoteGot \o toRemote)', Limit)
    BY <1>2 DEF GatewayInv, OutOrdered
  <2>4. OutOrdered'
    BY <1>1, <1>2, <2>1, <2>2, <2>3, OutKept
  <2>5. InOrdered'
    BY <1>2, InUntouched
  <2>6. LossBounded'
    <3>1. hand' # 0
      BY <1>1, <1>3
    <3> QED
      BY <1>1, <1>2, <1>3, <3>1, Lengths DEF GatewayInv, LossBounded, Empty
  <2> QED
    BY <1>1, <2>1, <2>4, <2>5, <2>6 DEF GatewayInv
<1>4. CASE hand' = hand /\ failures' = failures + 1
  <2>1. GatewayTypes'
    BY <1>2, <1>4 DEF GatewayInv, GatewayTypes
  <2>2. OutOrdered'
    BY <1>2, <1>4, <2>1, OutUntouched
  <2>3. InOrdered'
    BY <1>2, InUntouched
  <2>4. LossBounded'
    BY <1>1, <1>2, <1>4, Lengths DEF GatewayInv, LossBounded, Empty
  <2> QED
    BY <1>1, <2>1, <2>2, <2>3, <2>4 DEF GatewayInv
<1> QED
  BY <1>1, <1>3, <1>4 DEF TakeFromIpc, Received

\* The message in hand goes to the end of what was sent.
LEMMA SendToQuicStep ==
  ASSUME GatewayInv, [ShmNext]_shmVars, SendToQuic
  PROVE  GatewayInv'
<1>1. /\ Cursor \in Nat /\ Cursor' = Cursor /\ ShmInv'
      /\ got' = got
  BY CursorIsNat, CursorMoves DEF GatewayInv, SendToQuic, shmVars, Cursor
<1>2. /\ hand \in Nat /\ hand # 0 /\ hand' = 0 /\ hand <= Cursor
      /\ sentOut' = Append(sentOut, hand)
      /\ toRemote' = Append(toRemote, hand) \/ toRemote' = toRemote
      /\ UNCHANGED <<fromRemote, remoteSent, remoteGot, takenIn, sentIn, failures>>
  BY DEF SendToQuic, GatewayInv, GatewayTypes, OutOrdered, Empty
<1>n. PICK n \in Nat : n = hand - 1
  BY <1>2
<1>3. /\ sentOut \in Seq(Nat) /\ remoteGot \in Seq(Nat) /\ toRemote \in Seq(Nat)
      /\ n < hand /\ n <= Cursor /\ Limit = n
      /\ Increasing(sentOut) /\ UpTo(sentOut, n)
      /\ Increasing(remoteGot \o toRemote) /\ UpTo(remoteGot \o toRemote, n)
      /\ remoteGot \o toRemote \in Seq(Nat)
  BY <1>1, <1>2, <1>n DEF GatewayInv, GatewayTypes, OutOrdered, Limit, Empty
<1>i. n \in Int /\ hand \in Int /\ Cursor \in Int
  BY <1>1, <1>2
<1>4. /\ sentOut' \in Seq(Nat) /\ Len(sentOut') = Len(sentOut) + 1
      /\ Increasing(sentOut') /\ UpTo(sentOut', hand)
  BY <1>2, <1>3, AppendOrdered
<1>5. GatewayTypes'
  <2>1. Append(toRemote, hand) \in Seq(Nat)
    BY <1>2, <1>3, AppendProperties
  <2>2. toRemote' \in Seq(Nat) /\ hand' \in Nat
    BY <1>2, <1>3, <2>1
  <2> QED
    BY <1>2, <1>4, <2>2 DEF GatewayInv, GatewayTypes
<1>6. Limit' = Cursor /\ hand' <= Cursor'
  BY <1>1, <1>2 DEF Limit, Empty
<1>7. Increasing((remoteGot \o toRemote)') /\ UpTo((remoteGot \o toRemote)', Limit')
  <2>1. CASE toRemote' = toRemote
    <3>1. UpTo(remoteGot \o toRemote, Cursor)
      BY <1>3, <1>i, RaiseLimit
    <3> QED
      BY <1>2, <1>3, <1>6, <2>1, <3>1
  <2>2. CASE toRemote' = Append(toRemote, hand)
    <3> DEFINE w == remoteGot \o toRemote
    <3>1. (remoteGot \o toRemote)' = Append(w, hand)
      BY <1>2, <1>3, <2>2
    <3>2. w \in Seq(Nat) /\ Increasing(w) /\ UpTo(w, n)
      BY <1>3
    <3> HIDE DEF w
    <3>3. /\ Append(w, hand) \in Seq(Nat)
          /\ Increasing(Append(w, hand)) /\ UpTo(Append(w, hand), hand)
      BY <1>2, <1>3, <3>2, AppendOrdered
    <3>4. UpTo(Append(w, hand), Cursor)
      BY <1>2, <1>i, <3>3, RaiseLimit
    <3> QED
      BY <1>6, <3>1, <3>3, <3>4
  <2> QED
    BY <1>2, <2>1, <2>2
<1>8. UpTo(sentOut', Limit')
  BY <1>2, <1>4, <1>6, <1>i, RaiseLimit
<1>9. OutOrdered'
  BY <1>4, <1>6, <1>7, <1>8 DEF OutOrdered, Increasing, UpTo
<1>10. InOrdered'
  BY <1>2, InUntouched
<1>11. LossBounded'
  BY <1>1, <1>2, <1>4, Lengths DEF GatewayInv, LossBounded, Empty
<1> QED
  BY <1>1, <1>5, <1>9, <1>10, <1>11 DEF GatewayInv

\* The call that sends fails or is dropped.
LEMMA HandLostStep ==
  ASSUME GatewayInv, [ShmNext]_shmVars, SendToQuicFails \/ DropWhileSending
  PROVE  GatewayInv'
<1>1. /\ hand # Empty /\ hand' = Empty /\ failures' = failures + 1 /\ got' = got
      /\ UNCHANGED <<sentOut, takenIn, sentIn, toRemote, fromRemote, remoteSent, remoteGot>>
  BY DEF SendToQuicFails, DropWhileSending, quicVars, shmVars
<1>2. GatewayTypes'
  BY <1>1 DEF GatewayInv, GatewayTypes, Empty
<1>3. OutOrdered' /\ InOrdered' /\ ShmInv'
  BY <1>1, <1>2, HandLost, InUntouched, CursorMoves DEF GatewayInv
<1>4. LossBounded'
  BY <1>1, Lengths DEF GatewayInv, LossBounded
<1> QED
  BY <1>2, <1>3, <1>4 DEF GatewayInv

\* The message at the head of the remote's stream is newer than what was sent
\* over IPC and older than what follows it.
LEMMA ForwardStep ==
  ASSUME GatewayInv, [ShmNext]_shmVars, Forward
  PROVE  GatewayInv'
<1> DEFINE m == Head(fromRemote)
<1>1. /\ fromRemote \in Seq(Message) /\ fromRemote # <<>>
      /\ fromRemote' = Tail(fromRemote) /\ takenIn' = takenIn + 1
      /\ UNCHANGED <<hand, sentOut, toRemote, remoteSent, remoteGot>>
  BY DEF Forward, GatewayInv, GatewayTypes
<1>2. /\ Len(fromRemote) \in Nat /\ Len(fromRemote) >= 1
      /\ m = fromRemote[1] /\ m \in Message
      /\ fromRemote' \in Seq(Message) /\ Len(fromRemote') = Len(fromRemote) - 1
      /\ \A i \in 1..Len(fromRemote') :
           i + 1 \in 1..Len(fromRemote) /\ fromRemote'[i] = fromRemote[i + 1]
  BY <1>1
<1>3. m.tag \in Nat /\ remoteSent \in Nat /\ sentIn \in Seq(Nat)
  BY <1>2, GatewayAssumption DEF GatewayInv, GatewayTypes
<1>4. /\ Increasing(sentIn) /\ UpTo(sentIn, remoteSent)
      /\ m.tag <= remoteSent
      /\ \A j \in 1..Len(sentIn) : sentIn[j] < m.tag
      /\ \A i \in 1..Len(fromRemote) : fromRemote[i].tag <= remoteSent
      /\ \A i \in 1..Len(fromRemote') : m.tag < fromRemote'[i].tag
      /\ \A i, j \in 1..Len(fromRemote') :
           i < j => fromRemote'[i].tag < fromRemote'[j].tag
  <2>1. /\ Increasing(sentIn) /\ UpTo(sentIn, remoteSent)
        /\ \A i \in 1..Len(fromRemote) :
             /\ fromRemote[i].tag <= remoteSent
             /\ \A j \in 1..Len(sentIn) : sentIn[j] < fromRemote[i].tag
        /\ \A i, j \in 1..Len(fromRemote) :
             i < j => fromRemote[i].tag < fromRemote[j].tag
    BY DEF GatewayInv, InOrdered
  <2>2. 1 \in 1..Len(fromRemote)
    BY <1>2
  <2>3. \A i \in 1..Len(fromRemote') : m.tag < fromRemote'[i].tag
    BY <1>2, <2>1, <2>2
  <2>4. ASSUME NEW i \in 1..Len(fromRemote'), NEW j \in 1..Len(fromRemote'), i < j
        PROVE  fromRemote'[i].tag < fromRemote'[j].tag
    <3>1. /\ i + 1 \in 1..Len(fromRemote) /\ j + 1 \in 1..Len(fromRemote)
          /\ i + 1 < j + 1
      BY <1>2, <2>4
    <3> QED
      BY <1>2, <2>1, <3>1
  <2> QED
    BY <1>2, <2>1, <2>2, <2>3, <2>4
<1>5. ShmInv' /\ got' = got
  <2>1. SendToIpc(m)
    BY DEF Forward
  <2> QED
    BY <2>1, CursorMoves DEF GatewayInv, SendToIpc, Send, SendRefused, SendFails
<1> HIDE DEF m
<1>6. CASE sentIn' = Append(sentIn, m.tag) /\ failures' = failures
  <2>1. /\ sentIn' \in Seq(Nat) /\ Len(sentIn') = Len(sentIn) + 1
        /\ Increasing(sentIn') /\ UpTo(sentIn', m.tag)
    <3>1. PICK n \in Int : n = m.tag - 1
      BY <1>3
    <3>2. UpTo(sentIn, n) /\ n < m.tag
      <4>1. \A j \in 1..Len(sentIn) : sentIn[j] \in Nat
        BY <1>3
      <4> QED
        BY <1>3, <1>4, <3>1, <4>1 DEF UpTo
    <3> DEFINE x == m.tag
    <3>3. x \in Nat /\ n < x
      BY <1>3, <3>2
    <3> HIDE DEF x
    <3>4. /\ Append(sentIn, x) \in Seq(Nat) /\ Len(Append(sentIn, x)) = Len(sentIn) + 1
          /\ Increasing(Append(sentIn, x)) /\ UpTo(Append(sentIn, x), x)
      BY <1>3, <1>4, <3>2, <3>3, AppendOrdered
    <3> QED
      BY <1>6, <3>4 DEF x
  <2>2. GatewayTypes'
    BY <1>1, <1>2, <1>6, <2>1 DEF GatewayInv, GatewayTypes
  <2>3. OutOrdered'
    BY <1>1, <2>2, OutUntouched
  <2>4. \A j \in 1..Len(sentIn') : sentIn'[j] \in Nat /\ sentIn'[j] <= m.tag
    BY <2>1 DEF UpTo
  <2>5. UpTo(sentIn', remoteSent)
    BY <1>3, <1>4, <2>4 DEF UpTo
  <2>6. \A i \in 1..Len(fromRemote') : fromRemote'[i].tag \in Nat
    BY <1>2, GatewayAssumption
  <2>7. ASSUME NEW i \in 1..Len(fromRemote')
        PROVE  /\ fromRemote'[i].tag <= remoteSent
               /\ \A j \in 1..Len(sentIn') : sentIn'[j] < fromRemote'[i].tag
    <3>1. fromRemote'[i].tag <= remoteSent
      BY <1>2, <1>4
    <3>2. m.tag < fromRemote'[i].tag /\ fromRemote'[i].tag \in Nat
      BY <1>4, <2>6
    <3> QED
      BY <1>3, <2>4, <3>1, <3>2
  <2>8. InOrdered'
    BY <1>1, <1>4, <2>1, <2>5, <2>7 DEF InOrdered, Increasing, UpTo
  <2>9. LossBounded'
    BY <1>1, <1>5, <1>6, <2>1, Lengths DEF GatewayInv, LossBounded
  <2> QED
    BY <1>5, <2>2, <2>3, <2>8, <2>9 DEF GatewayInv
<1>7. CASE sentIn' = sentIn /\ failures' = failures + 1
  <2>1. GatewayTypes'
    BY <1>1, <1>2, <1>7 DEF GatewayInv, GatewayTypes
  <2>2. OutOrdered'
    BY <1>1, <2>1, OutUntouched
  <2>3. InOrdered'
    BY <1>1, <1>2, <1>7, <2>1, InKept
  <2>4. LossBounded'
    <3> SUFFICES (Len(got["server"]) - Len(sentOut)) + ((takenIn + 1) - Len(sentIn))
                   <= (failures + 1) + (IF hand # Empty THEN 1 ELSE 0)
      BY <1>1, <1>5, <1>7 DEF LossBounded
    <3>1. (Len(got["server"]) - Len(sentOut)) + (takenIn - Len(sentIn))
            <= failures + (IF hand # Empty THEN 1 ELSE 0)
      BY DEF GatewayInv, LossBounded
    <3> QED
      BY <3>1, Lengths
  <2> QED
    BY <1>5, <2>1, <2>2, <2>3, <2>4 DEF GatewayInv
<1> QED
  BY <1>6, <1>7 DEF Forward, SendToIpc, m

\* The remote numbers its messages.
LEMMA RemoteSendsStep ==
  ASSUME GatewayInv, [ShmNext]_shmVars, NEW m \in Message, RemoteSends(m)
  PROVE  GatewayInv'
<1>1. /\ m.tag = remoteSent + 1 /\ remoteSent' = remoteSent + 1
      /\ fromRemote' = Append(fromRemote, m) /\ got' = got
      /\ UNCHANGED <<hand, sentOut, takenIn, sentIn, failures, toRemote, remoteGot>>
  BY DEF RemoteSends, gateVars, shmVars
<1>2. /\ fromRemote \in Seq(Message) /\ Len(fromRemote) \in Nat
      /\ remoteSent \in Nat /\ sentIn \in Seq(Nat)
      /\ \A j \in 1..Len(sentIn) : sentIn[j] \in Nat
  BY DEF GatewayInv, GatewayTypes
<1>3. /\ fromRemote' \in Seq(Message) /\ Len(fromRemote') = Len(fromRemote) + 1
      /\ fromRemote'[Len(fromRemote) + 1] = m
      /\ \A i \in 1..Len(fromRemote) : /\ fromRemote'[i] = fromRemote[i]
                                       /\ fromRemote[i].tag \in Nat
  BY <1>1, <1>2, AppendProperties, GatewayAssumption
<1>4. /\ Increasing(sentIn)
      /\ \A j \in 1..Len(sentIn) : sentIn[j] <= remoteSent
      /\ \A i \in 1..Len(fromRemote) :
           /\ fromRemote[i].tag <= remoteSent
           /\ \A j \in 1..Len(sentIn) : sentIn[j] < fromRemote[i].tag
      /\ \A i, j \in 1..Len(fromRemote) :
           i < j => fromRemote[i].tag < fromRemote[j].tag
  BY DEF GatewayInv, InOrdered, UpTo
<1>5. \A i \in 1..Len(fromRemote') : i \in 1..Len(fromRemote) \/ i = Len(fromRemote) + 1
  BY <1>2, <1>3
<1>6. GatewayTypes'
  BY <1>1, <1>2, <1>3 DEF GatewayInv, GatewayTypes
<1>7. OutOrdered'
  BY <1>1, <1>6, OutUntouched
<1>8. InOrdered'
  <2>1. UpTo(sentIn, remoteSent + 1)
    BY <1>2, <1>4 DEF UpTo
  <2>2. ASSUME NEW i \in 1..Len(fromRemote')
        PROVE  /\ fromRemote'[i].tag <= remoteSent + 1
               /\ \A j \in 1..Len(sentIn) : sentIn[j] < fromRemote'[i].tag
    <3>1. CASE i \in 1..Len(fromRemote)
      <4>1. /\ fromRemote'[i].tag \in Nat /\ fromRemote'[i].tag <= remoteSent
            /\ \A j \in 1..Len(sentIn) : sentIn[j] < fromRemote'[i].tag
        BY <1>3, <1>4, <3>1
      <4> QED
        BY <1>2, <4>1
    <3>2. CASE i = Len(fromRemote) + 1
      <4>1. fromRemote'[i].tag = remoteSent + 1
        BY <1>1, <1>3, <3>2
      <4> QED
        BY <1>2, <1>4, <4>1
    <3> QED
      BY <1>5, <3>1, <3>2
  <2>3. ASSUME NEW i \in 1..Len(fromRemote'), NEW j \in 1..Len(fromRemote'), i < j
        PROVE  fromRemote'[i].tag < fromRemote'[j].tag
    <3>1. i \in 1..Len(fromRemote)
      BY <1>2, <1>5, <2>3
    <3>2. CASE j \in 1..Len(fromRemote)
      BY <1>3, <1>4, <2>3, <3>1, <3>2
    <3>3. CASE j = Len(fromRemote) + 1
      BY <1>1, <1>2, <1>3, <1>4, <3>1, <3>3
    <3> QED
      BY <1>5, <3>2, <3>3
  <2> QED
    BY <1>1, <1>4, <2>1, <2>2, <2>3 DEF InOrdered, Increasing, UpTo
<1>9. LossBounded' /\ ShmInv'
  BY <1>1, LossUntouched, CursorMoves DEF GatewayInv
<1> QED
  BY <1>6, <1>7, <1>8, <1>9 DEF GatewayInv

\* What the remote gets leaves the stream in order.
LEMMA RemoteReceivesStep ==
  ASSUME GatewayInv, [ShmNext]_shmVars, RemoteReceives
  PROVE  GatewayInv'
<1>1. /\ toRemote # <<>> /\ toRemote' = Tail(toRemote)
      /\ remoteGot' = Append(remoteGot, Head(toRemote)) /\ got' = got
      /\ UNCHANGED <<hand, sentOut, takenIn, sentIn, failures, fromRemote, remoteSent>>
  BY DEF RemoteReceives, gateVars, shmVars
<1>2. toRemote \in Seq(Nat) /\ remoteGot \in Seq(Nat)
  BY DEF GatewayInv, GatewayTypes
<1>3. /\ toRemote' \in Seq(Nat) /\ remoteGot' \in Seq(Nat)
      /\ (remoteGot \o toRemote)' = remoteGot \o toRemote
  BY <1>1, <1>2
<1>4. GatewayTypes'
  BY <1>1, <1>3 DEF GatewayInv, GatewayTypes
<1>5. Cursor \in Nat /\ Cursor' \in Nat /\ Cursor <= Cursor'
  BY CursorMoves, CursorIsNat DEF GatewayInv
<1>6. Limit <= Limit' /\ hand' <= Cursor'
  BY <1>1, <1>5 DEF Limit, GatewayInv, GatewayTypes, OutOrdered
<1>7. OutOrdered'
  BY <1>1, <1>3, <1>4, <1>5, <1>6, OutKept DEF GatewayInv, OutOrdered
<1>8. InOrdered' /\ LossBounded' /\ ShmInv'
  BY <1>1, InUntouched, LossUntouched, CursorMoves DEF GatewayInv
<1> QED
  BY <1>4, <1>7, <1>8 DEF GatewayInv

\* The connection breaks, or the gateway closes it: both streams may be cut.
LEMMA CutStep ==
  ASSUME GatewayInv, [ShmNext]_shmVars, CloseGateway \/ QuicDown
  PROVE  GatewayInv'
<1>1. /\ Truncated(toRemote, toRemote') \/ toRemote' = toRemote
      /\ Truncated(fromRemote, fromRemote') \/ fromRemote' = fromRemote
      /\ got' = got
      /\ UNCHANGED <<hand, sentOut, takenIn, sentIn, failures, remoteSent, remoteGot>>
  BY DEF CloseGateway, QuicDown, Close, gateVars, shmVars
<1>2. toRemote \in Seq(Nat) /\ fromRemote \in Seq(Message)
  BY DEF GatewayInv, GatewayTypes
<1>3. Truncated(toRemote, toRemote') /\ toRemote' \in Seq(Nat)
  <2>1. Len(toRemote) \in 0..Len(toRemote) /\ toRemote = SubSeq(toRemote, 1, Len(toRemote))
    BY <1>2
  <2>2. Truncated(toRemote, toRemote')
    BY <1>1, <2>1 DEF Truncated
  <2>3. PICK k \in 0..Len(toRemote) : toRemote' = SubSeq(toRemote, 1, k)
    BY <2>2 DEF Truncated
  <2>4. toRemote' \in Seq(Nat)
    BY <1>2, <2>3, SubSeqProperties
  <2> QED
    BY <2>2, <2>4
<1>4. /\ fromRemote' \in Seq(Message)
      /\ \A i \in 1..Len(fromRemote') :
           i + 0 \in 1..Len(fromRemote) /\ fromRemote'[i] = fromRemote[i + 0]
  <2>1. CASE fromRemote' = fromRemote
    BY <1>2, <2>1
  <2>2. CASE Truncated(fromRemote, fromRemote')
    <3>1. PICK k \in 0..Len(fromRemote) : fromRemote' = SubSeq(fromRemote, 1, k)
      BY <2>2 DEF Truncated
    <3>2. /\ fromRemote' \in Seq(Message) /\ Len(fromRemote') = k
          /\ \A i \in 1..k : fromRemote'[i] = fromRemote[i]
      BY <1>2, <3>1, SubSeqProperties
    <3> QED
      BY <1>2, <3>2
  <2> QED
    BY <1>1, <2>1, <2>2
<1>5. GatewayTypes'
  BY <1>1, <1>3, <1>4 DEF GatewayInv, GatewayTypes
<1>6. OutOrdered'
  BY <1>1, <1>3, <1>5, OutCut
<1>7. InOrdered'
  BY <1>1, <1>4, <1>5, InKept
<1>8. LossBounded' /\ ShmInv'
  BY <1>1, LossUntouched, CursorMoves DEF GatewayInv
<1> QED
  BY <1>5, <1>6, <1>7, <1>8 DEF GatewayInv

\* The local peer does not touch what the gateway read.
LEMMA LocalPeerStep ==
  ASSUME GatewayInv, [ShmNext]_shmVars,
         LocalPeer \/ DropWhileReceiving \/ UNCHANGED gatewayVars
  PROVE  GatewayInv'
<1>1. UNCHANGED <<hand, sentOut, takenIn, sentIn, toRemote, fromRemote, remoteSent, remoteGot>>
  BY DEF LocalPeer, DropWhileReceiving, gatewayVars, gateVars, quicVars
<1>2. failures' = failures \/ failures' = failures + 1
  BY DEF LocalPeer, DropWhileReceiving, gatewayVars, gateVars
<1>3. got'["server"] = got["server"]
  <2>1. ShmTypeOK /\ "server" \in Ends /\ "server" # "client"
    BY DEF GatewayInv, ShmInv, Ends
  <2>2. CASE Receive("client")
    BY <2>1, <2>2 DEF Receive, ShmTypeOK
  <2> QED
    BY <2>2 DEF LocalPeer, DropWhileReceiving, gatewayVars, shmVars, Send,
                PublishOversized, Drop
<1>4. GatewayTypes'
  BY <1>1, <1>2 DEF GatewayInv, GatewayTypes
<1>5. OutOrdered' /\ InOrdered' /\ ShmInv'
  BY <1>1, <1>4, OutUntouched, InUntouched, CursorMoves DEF GatewayInv
<1>6. LossBounded'
  BY <1>1, <1>2, <1>3, Lengths DEF GatewayInv, LossBounded
<1> QED
  BY <1>4, <1>5, <1>6 DEF GatewayInv

\* Every step keeps the invariant.
LEMMA StepGateway == GatewayInv /\ [GatewayNext]_gatewayVars => GatewayInv'
<1> SUFFICES ASSUME GatewayInv, [GatewayNext]_gatewayVars PROVE GatewayInv'
  OBVIOUS
<1>1. [ShmNext]_shmVars
  BY GatewayShmStep DEF GatewayInv
<1> QED
  BY <1>1, TakeFromIpcStep, SendToQuicStep, HandLostStep, ForwardStep, RemoteSendsStep,
     RemoteReceivesStep, CutStep, LocalPeerStep
  DEF GatewayNext

-----------------------------------------------------------------------------
(* The connections the bridge stands between                               *)

\* The numbers of messages of the remote, and the first n of them.
Numbers(s) == [i \in 1..Len(s) |-> s[i].tag]
FirstNumbers(n) == [i \in 1..n |-> i]

\* What the bridge takes for granted of the two directions of its QUIC
\* connection: they are streams of whole messages, in step until a call of the
\* bridge is dropped in the middle of a frame.
Outgoing == INSTANCE MessageStream WITH
  Message <- Nat,
  queue   <- IF "out" \in torn THEN <<>> ELSE toRemote,
  taken   <- remoteGot,
  up      <- quicUp,
  inStep  <- "out" \notin torn

Incoming == INSTANCE MessageStream WITH
  Message <- Nat,
  queue   <- IF "in" \in torn THEN <<>> ELSE Numbers(fromRemote),
  taken   <- FirstNumbers(takenIn),
  up      <- quicUp,
  inStep  <- "in" \notin torn

StreamsAsPromised == Outgoing!MessageSpec /\ Incoming!MessageSpec

\* A step of either stream, as an action of its own.
OutgoingStep == [Outgoing!MessageNext]_(Outgoing!messageVars)
IncomingStep == [Incoming!MessageNext]_(Incoming!messageVars)

\* The messages under way from the remote are the next ones, in order.
NextFromRemote ==
  /\ quicUp \in BOOLEAN
  /\ \A i \in 1..Len(fromRemote) : fromRemote[i].tag = takenIn + i
  /\ quicUp => takenIn + Len(fromRemote) = remoteSent

\* Numbers keeps lengths, ends and pieces.
LEMMA NumbersOf ==
  ASSUME NEW s \in Seq(Message)
  PROVE  /\ Numbers(s) \in Seq(Nat) /\ Len(Numbers(s)) = Len(s)
         /\ \A i \in 1..Len(s) : Numbers(s)[i] = s[i].tag
<1>1. Len(s) \in Nat /\ \A i \in 1..Len(s) : s[i] \in Message
  BY ElementOfSeq
<1>2. \A i \in 1..Len(s) : s[i].tag \in Nat
  BY <1>1, GatewayAssumption
<1>3. Numbers(s) \in [1..Len(s) -> Nat]
  BY <1>2 DEF Numbers
<1>4. Numbers(s) \in Seq(Nat) /\ Len(Numbers(s)) = Len(s)
  BY <1>1, <1>3, LenProperties
<1> QED
  BY <1>4 DEF Numbers

\* The oldest message and those behind it.
LEMMA NumbersTail ==
  ASSUME NEW s \in Seq(Message), s # <<>>
  PROVE  /\ Numbers(s) # <<>> /\ Head(Numbers(s)) = s[1].tag
         /\ Tail(Numbers(s)) = Numbers(Tail(s))
<1> DEFINE n == Numbers(s)
           t == Tail(s)
<1>1. /\ n \in Seq(Nat) /\ Len(n) = Len(s) /\ Len(s) \in Nat /\ Len(s) # 0
      /\ \A i \in 1..Len(s) : n[i] = s[i].tag
  BY NumbersOf
<1>2. /\ t \in Seq(Message) /\ Len(t) = Len(s) - 1
      /\ \A i \in 1..Len(t) : t[i] = s[i + 1]
  BY <1>1
<1>3. /\ Numbers(t) \in Seq(Nat) /\ Len(Numbers(t)) = Len(t)
      /\ \A i \in 1..Len(t) : Numbers(t)[i] = t[i].tag
  BY <1>2, NumbersOf
<1> HIDE DEF n, t
<1>4. n # <<>> /\ Head(n) = n[1] /\ 1 \in 1..Len(s)
  BY <1>1
<1>5. /\ Tail(n) \in Seq(Nat) /\ Len(Tail(n)) = Len(n) - 1
      /\ \A i \in 1..(Len(n) - 1) : Tail(n)[i] = n[i + 1]
  BY <1>1, <1>4
<1>6. ASSUME NEW i \in 1..Len(Tail(n)) PROVE Tail(n)[i] = Numbers(t)[i]
  <2>1. i \in 1..(Len(n) - 1) /\ i \in 1..Len(t) /\ i + 1 \in 1..Len(s)
    BY <1>1, <1>2, <1>5
  <2> QED
    BY <1>1, <1>2, <1>3, <1>5, <2>1
<1>7. Len(Tail(n)) = Len(Numbers(t))
  BY <1>1, <1>2, <1>3, <1>5
<1> DEFINE a == Tail(n)
           b == Numbers(t)
<1>8. a \in Seq(Nat) /\ b \in Seq(Nat) /\ Len(a) = Len(b) /\ \A i \in 1..Len(a) : a[i] = b[i]
  BY <1>3, <1>5, <1>6, <1>7
<1> HIDE DEF a, b
<1>9. a = b
  BY <1>8, SeqEqual
<1> QED
  BY <1>1, <1>4, <1>9 DEF n, t, a, b

\* One message more.
LEMMA NumbersAppend ==
  ASSUME NEW s \in Seq(Message), NEW m \in Message
  PROVE  Numbers(Append(s, m)) = Append(Numbers(s), m.tag)
<1> DEFINE n == Numbers(s)
           t == Append(s, m)
           a == Numbers(t)
           b == Append(n, m.tag)
<1>1. /\ n \in Seq(Nat) /\ Len(n) = Len(s) /\ Len(s) \in Nat
      /\ \A i \in 1..Len(s) : n[i] = s[i].tag
  BY NumbersOf
<1>2. /\ t \in Seq(Message) /\ Len(t) = Len(s) + 1 /\ t[Len(s) + 1] = m
      /\ \A i \in 1..Len(s) : t[i] = s[i]
  BY AppendProperties
<1>3. /\ a \in Seq(Nat) /\ Len(a) = Len(t)
      /\ \A i \in 1..Len(t) : a[i] = t[i].tag
  BY <1>2, NumbersOf
<1>4. m.tag \in Nat
  BY GatewayAssumption
<1> HIDE DEF n, t
<1>5. /\ b \in Seq(Nat) /\ Len(b) = Len(s) + 1 /\ b[Len(s) + 1] = m.tag
      /\ \A i \in 1..Len(s) : b[i] = n[i]
  BY <1>1, <1>4, AppendProperties
<1> HIDE DEF a, b
<1>6. ASSUME NEW i \in 1..Len(a) PROVE a[i] = b[i]
  <2>1. CASE i = Len(s) + 1
    BY <1>2, <1>3, <1>5, <2>1
  <2>2. CASE i # Len(s) + 1
    <3>1. i \in 1..Len(s) /\ i \in 1..Len(t)
      BY <1>1, <1>2, <1>3, <2>2
    <3> QED
      BY <1>1, <1>2, <1>3, <1>5, <3>1
  <2> QED
    BY <2>1, <2>2
<1>7. a = b
  BY <1>2, <1>3, <1>5, <1>6, SeqEqual
<1> QED
  BY <1>7 DEF a, b, n, t

\* The first few.
LEMMA NumbersCut ==
  ASSUME NEW s \in Seq(Message), NEW k \in 0..Len(s)
  PROVE  Numbers(SubSeq(s, 1, k)) = SubSeq(Numbers(s), 1, k)
<1> DEFINE n == Numbers(s)
           t == SubSeq(s, 1, k)
           a == Numbers(t)
           b == SubSeq(n, 1, k)
<1>1. /\ n \in Seq(Nat) /\ Len(n) = Len(s) /\ Len(s) \in Nat
      /\ \A i \in 1..Len(s) : n[i] = s[i].tag
  BY NumbersOf
<1>2. /\ t \in Seq(Message) /\ Len(t) = k
      /\ \A i \in 1..k : t[i] = s[i]
  BY SubSeqProperties
<1>3. /\ a \in Seq(Nat) /\ Len(a) = Len(t)
      /\ \A i \in 1..Len(t) : a[i] = t[i].tag
  BY <1>2, NumbersOf
<1> HIDE DEF n, t
<1>4. /\ b \in Seq(Nat) /\ Len(b) = k /\ \A i \in 1..k : b[i] = n[i]
  BY <1>1, SubSeqProperties
<1> HIDE DEF a, b
<1>5. ASSUME NEW i \in 1..Len(a) PROVE a[i] = b[i]
  <2>1. i \in 1..k /\ i \in 1..Len(s) /\ i \in 1..Len(t)
    BY <1>1, <1>2, <1>3
  <2> QED
    BY <1>1, <1>2, <1>3, <1>4, <2>1
<1>6. a = b
  BY <1>2, <1>3, <1>4, <1>5, SeqEqual
<1> QED
  BY <1>6 DEF a, b, n, t

\* The next message is the next number.
LEMMA FirstAppend ==
  ASSUME NEW n \in Nat
  PROVE  FirstNumbers(n + 1) = Append(FirstNumbers(n), n + 1)
<1> DEFINE a == FirstNumbers(n + 1)
           f == FirstNumbers(n)
           b == Append(f, n + 1)
<1>1. f \in Seq(Nat) /\ Len(f) = n /\ \A i \in 1..n : f[i] = i
  <2>1. f \in [1..n -> Nat] /\ \A i \in 1..n : f[i] = i
    BY DEF FirstNumbers
  <2> QED
    BY <2>1, LenProperties
<1>2. a \in Seq(Nat) /\ Len(a) = n + 1 /\ \A i \in 1..(n + 1) : a[i] = i
  <2>1. a \in [1..(n + 1) -> Nat] /\ \A i \in 1..(n + 1) : a[i] = i
    BY DEF FirstNumbers
  <2> QED
    BY <2>1, LenProperties
<1> HIDE DEF f
<1>3. /\ b \in Seq(Nat) /\ Len(b) = n + 1 /\ b[n + 1] = n + 1
      /\ \A i \in 1..n : b[i] = f[i]
  BY <1>1, AppendProperties
<1> HIDE DEF a, b
<1>4. ASSUME NEW i \in 1..(n + 1) PROVE a[i] = b[i]
  <2>1. CASE i = n + 1
    BY <1>2, <1>3, <2>1
  <2>2. CASE i # n + 1
    <3>1. i \in 1..n
      BY <2>2
    <3> QED
      BY <1>1, <1>2, <1>3, <3>1
  <2> QED
    BY <2>1, <2>2
<1>5. a = b
  BY <1>2, <1>3, <1>4, SeqEqual
<1> QED
  BY <1>5 DEF a, b, f

\* What the remote sent stays numbered as the bridge counts it.
LEMMA NextFromRemoteStep ==
  GatewayTypes /\ NextFromRemote /\ [GatewayNext]_gatewayVars => NextFromRemote'
<1> SUFFICES ASSUME GatewayTypes, NextFromRemote, [GatewayNext]_gatewayVars
             PROVE  NextFromRemote'
  OBVIOUS
<1>1. /\ fromRemote \in Seq(Message) /\ Len(fromRemote) \in Nat
      /\ takenIn \in Nat /\ remoteSent \in Nat
  BY DEF GatewayTypes
<1>2. CASE UNCHANGED <<fromRemote, takenIn, remoteSent, quicUp>>
  BY <1>2 DEF NextFromRemote
<1>3. CASE Forward
  <2>1. /\ fromRemote # <<>> /\ fromRemote' = Tail(fromRemote)
        /\ takenIn' = takenIn + 1 /\ UNCHANGED <<remoteSent, quicUp>>
    BY <1>3 DEF Forward
  <2>2. /\ Len(fromRemote') = Len(fromRemote) - 1 /\ Len(fromRemote') \in Nat
        /\ \A i \in 1..Len(fromRemote') : fromRemote'[i] = fromRemote[i + 1]
    BY <1>1, <2>1
  <2>3. ASSUME NEW i \in 1..Len(fromRemote') PROVE fromRemote'[i].tag = takenIn' + i
    <3>1. i + 1 \in 1..Len(fromRemote)
      BY <1>1, <2>2
    <3>2. fromRemote[i + 1].tag = takenIn + (i + 1)
      BY <3>1 DEF NextFromRemote
    <3> QED
      BY <1>1, <2>1, <2>2, <3>2
  <2>4. ASSUME quicUp' PROVE takenIn' + Len(fromRemote') = remoteSent'
    <3>1. takenIn + Len(fromRemote) = remoteSent
      BY <2>1, <2>4 DEF NextFromRemote
    <3> QED
      BY <1>1, <2>1, <2>2, <3>1
  <2> QED
    BY <2>1, <2>3, <2>4 DEF NextFromRemote
<1>4. CASE \E m \in Message : RemoteSends(m)
  <2>1. PICK m \in Message : RemoteSends(m)
    BY <1>4
  <2>2. /\ quicUp /\ m.tag = remoteSent + 1 /\ remoteSent' = remoteSent + 1
        /\ fromRemote' = Append(fromRemote, m) /\ UNCHANGED <<takenIn, quicUp>>
    BY <2>1 DEF RemoteSends, gateVars
  <2>3. /\ Len(fromRemote') = Len(fromRemote) + 1
        /\ fromRemote'[Len(fromRemote) + 1] = m
        /\ \A i \in 1..Len(fromRemote) : fromRemote'[i] = fromRemote[i]
    BY <1>1, <2>2, AppendProperties
  <2>4. takenIn + Len(fromRemote) = remoteSent
    BY <2>2 DEF NextFromRemote
  <2>5. ASSUME NEW i \in 1..Len(fromRemote') PROVE fromRemote'[i].tag = takenIn + i
    <3>1. CASE i = Len(fromRemote) + 1
      BY <1>1, <2>2, <2>3, <2>4, <3>1
    <3>2. CASE i # Len(fromRemote) + 1
      <4>1. i \in 1..Len(fromRemote)
        BY <1>1, <2>3, <3>2
      <4> QED
        BY <2>3, <4>1 DEF NextFromRemote
    <3> QED
      BY <3>1, <3>2
  <2>6. takenIn + Len(fromRemote') = remoteSent'
    BY <1>1, <2>2, <2>3, <2>4
  <2> QED
    BY <2>2, <2>5, <2>6 DEF NextFromRemote
<1>5. CASE CloseGateway
  <2>1. quicUp' = FALSE /\ UNCHANGED <<fromRemote, takenIn>>
    BY <1>5 DEF CloseGateway, gateVars
  <2> QED
    BY <2>1 DEF NextFromRemote
<1>6. CASE QuicDown
  <2>1. /\ quicUp' = FALSE /\ takenIn' = takenIn
        /\ Truncated(fromRemote, fromRemote')
    BY <1>6 DEF QuicDown, gateVars
  <2>2. PICK k \in 0..Len(fromRemote) : fromRemote' = SubSeq(fromRemote, 1, k)
    BY <2>1 DEF Truncated
  <2>3. /\ Len(fromRemote') = k /\ k \in Nat /\ k <= Len(fromRemote)
        /\ \A i \in 1..k : fromRemote'[i] = fromRemote[i]
    BY <1>1, <2>2, SubSeqProperties
  <2>4. ASSUME NEW i \in 1..Len(fromRemote') PROVE fromRemote'[i].tag = takenIn' + i
    <3>1. i \in 1..Len(fromRemote) /\ i \in 1..k
      BY <1>1, <2>3
    <3> QED
      BY <2>1, <2>3, <3>1 DEF NextFromRemote
  <2> QED
    BY <2>1, <2>4 DEF NextFromRemote
<1> QED
  BY <1>2, <1>3, <1>4, <1>5, <1>6
  DEF GatewayNext, gatewayVars, quicVars, gateVars, TakeFromIpc, SendToQuic,
      SendToQuicFails, DropWhileSending, DropWhileReceiving, RemoteReceives, LocalPeer

\* Nothing happens in one direction.
LEMMA OutgoingRests ==
  ASSUME UNCHANGED <<toRemote, remoteGot, quicUp>>,
         "out" \in torn' <=> "out" \in torn
  PROVE  OutgoingStep
<1>1. ("out" \notin torn') = ("out" \notin torn)
  OBVIOUS
<1>2. (IF "out" \in torn' THEN <<>> ELSE toRemote')
        = (IF "out" \in torn THEN <<>> ELSE toRemote)
  OBVIOUS
<1> QED
  BY <1>1, <1>2 DEF OutgoingStep, Outgoing!messageVars

\* And in the other.
LEMMA IncomingRests ==
  ASSUME UNCHANGED <<fromRemote, takenIn, quicUp>>,
         "in" \in torn' <=> "in" \in torn
  PROVE  IncomingStep
<1>1. ("in" \notin torn') = ("in" \notin torn)
  OBVIOUS
<1>2. (IF "in" \in torn' THEN <<>> ELSE Numbers(fromRemote'))
        = (IF "in" \in torn THEN <<>> ELSE Numbers(fromRemote))
  OBVIOUS
<1> QED
  BY <1>1, <1>2 DEF IncomingStep, Incoming!messageVars

\* A direction out of step loses its connection, or its messages go astray.
LEMMA OutgoingStrays ==
  ASSUME "out" \in torn, torn' = torn, quicUp' \in {quicUp, FALSE},
         remoteGot' = remoteGot \/ \E m \in Nat : remoteGot' = Append(remoteGot, m)
  PROVE  OutgoingStep
<1>1. Outgoing!Stray
  BY DEF Outgoing!Stray, Outgoing!ReceivesAnything
<1> QED
  BY <1>1 DEF OutgoingStep, Outgoing!MessageNext

\* Every step of the bridge and its peers, seen from the stream to the remote.
LEMMA OutgoingKeeps ==
  ASSUME GatewayTypes, NextFromRemote, [GatewayNext]_gatewayVars
  PROVE  OutgoingStep
<1>0. toRemote \in Seq(Nat) /\ hand \in Nat /\ quicUp \in BOOLEAN
  BY DEF GatewayTypes, NextFromRemote
<1>1. CASE UNCHANGED <<toRemote, remoteGot, quicUp>> /\ torn' \in {torn, torn \cup {"in"}}
  BY <1>1, OutgoingRests
<1>2. CASE SendToQuic
  <2>1. UNCHANGED <<remoteGot, quicUp, torn>>
    BY <1>2 DEF SendToQuic
  <2>2. CASE quicUp /\ "out" \notin torn
    <3>1. toRemote' = Append(toRemote, hand)
      BY <1>2, <2>2 DEF SendToQuic
    <3>2. Outgoing!Send(hand)
      BY <2>1, <2>2, <3>1 DEF Outgoing!Send
    <3> QED
      BY <1>0, <3>2 DEF OutgoingStep, Outgoing!MessageNext
  <2>3. CASE ~(quicUp /\ "out" \notin torn)
    <3>1. toRemote' = toRemote
      BY <1>2, <2>3 DEF SendToQuic
    <3> QED
      BY <2>1, <3>1, OutgoingRests
  <2> QED
    BY <2>2, <2>3
<1>3. CASE DropWhileSending
  <2>1. UNCHANGED <<toRemote, remoteGot, quicUp>> /\ torn' \in {torn, torn \cup {"out"}}
    BY <1>3 DEF DropWhileSending
  <2>2. CASE "out" \notin torn /\ "out" \in torn'
    <3>1. Outgoing!Lapse
      BY <2>1, <2>2 DEF Outgoing!Lapse
    <3> QED
      BY <3>1 DEF OutgoingStep, Outgoing!MessageNext
  <2>3. CASE ~("out" \notin torn /\ "out" \in torn')
    BY <2>1, <2>3, OutgoingRests
  <2> QED
    BY <2>2, <2>3
<1>4. CASE RemoteReceives
  <2>1. /\ toRemote # <<>> /\ toRemote' = Tail(toRemote)
        /\ remoteGot' = Append(remoteGot, Head(toRemote))
        /\ UNCHANGED <<quicUp, torn>>
    BY <1>4 DEF RemoteReceives
  <2>2. CASE "out" \in torn
    <3>1. Head(toRemote) \in Nat
      BY <1>0, <2>1
    <3> QED
      BY <2>1, <2>2, <3>1, OutgoingStrays
  <2>3. CASE "out" \notin torn
    <3>1. Outgoing!Receive
      BY <2>1, <2>3 DEF Outgoing!Receive
    <3> QED
      BY <3>1 DEF OutgoingStep, Outgoing!MessageNext
  <2> QED
    BY <2>2, <2>3
<1>5. CASE CloseGateway \/ QuicDown
  <2>1. quicUp' = FALSE /\ UNCHANGED <<remoteGot, torn>>
    BY <1>5 DEF CloseGateway, QuicDown
  <2>2. quicUp => Truncated(toRemote, toRemote')
    BY <1>5 DEF CloseGateway, QuicDown
  <2>3. ~quicUp => toRemote' = toRemote
    BY <1>5 DEF CloseGateway, QuicDown
  <2>4. CASE ~quicUp
    <3>1. quicUp' = quicUp
      BY <1>0, <2>1, <2>4
    <3> QED
      BY <2>1, <2>3, <2>4, <3>1, OutgoingRests
  <2>5. CASE "out" \in torn
    BY <2>1, <2>5, OutgoingStrays
  <2>6. CASE quicUp /\ "out" \notin torn
    <3>1. \E k \in 0..Len(toRemote) : toRemote' = SubSeq(toRemote, 1, k)
      BY <2>2, <2>6 DEF Truncated
    <3>2. Outgoing!End
      BY <2>1, <2>6, <3>1 DEF Outgoing!End
    <3> QED
      BY <3>2 DEF OutgoingStep, Outgoing!MessageNext
  <2> QED
    BY <2>4, <2>5, <2>6
<1> QED
  BY <1>1, <1>2, <1>3, <1>4, <1>5
  DEF GatewayNext, gatewayVars, quicVars, gateVars, TakeFromIpc, SendToQuicFails,
      Forward, DropWhileReceiving, RemoteSends, LocalPeer

\* Every step seen from the stream from the remote.
LEMMA IncomingKeeps ==
  ASSUME GatewayTypes, NextFromRemote, [GatewayNext]_gatewayVars
  PROVE  IncomingStep
<1>0. fromRemote \in Seq(Message) /\ takenIn \in Nat /\ quicUp \in BOOLEAN
  BY DEF GatewayTypes, NextFromRemote
<1>1. CASE UNCHANGED <<fromRemote, takenIn, quicUp>> /\ torn' \in {torn, torn \cup {"out"}}
  BY <1>1, IncomingRests
<1>2. CASE \E m \in Message : RemoteSends(m)
  <2>1. PICK m \in Message : RemoteSends(m)
    BY <1>2
  <2>2. /\ quicUp /\ fromRemote' = Append(fromRemote, m)
        /\ UNCHANGED <<takenIn, quicUp, torn>>
    BY <2>1 DEF RemoteSends, gateVars
  <2>3. m.tag \in Nat
    BY GatewayAssumption
  <2>4. CASE "in" \notin torn
    <3>1. Numbers(fromRemote') = Append(Numbers(fromRemote), m.tag)
      BY <1>0, <2>2, NumbersAppend
    <3>2. Incoming!Send(m.tag)
      BY <2>2, <2>4, <3>1 DEF Incoming!Send
    <3> QED
      BY <2>3, <3>2 DEF IncomingStep, Incoming!MessageNext
  <2>5. CASE "in" \in torn
    BY <2>2, <2>5 DEF IncomingStep, Incoming!messageVars
  <2> QED
    BY <2>4, <2>5
<1>3. CASE Forward
  <2>1. /\ fromRemote # <<>> /\ "in" \notin torn /\ fromRemote' = Tail(fromRemote)
        /\ takenIn' = takenIn + 1 /\ UNCHANGED <<quicUp, torn>>
    BY <1>3 DEF Forward
  <2>2. /\ Numbers(fromRemote) # <<>> /\ Head(Numbers(fromRemote)) = fromRemote[1].tag
        /\ Numbers(fromRemote') = Tail(Numbers(fromRemote))
    BY <1>0, <2>1, NumbersTail
  <2>3. fromRemote[1].tag = takenIn + 1
    <3>1. 1 \in 1..Len(fromRemote)
      BY <1>0, <2>1
    <3> QED
      BY <3>1 DEF NextFromRemote
  <2>4. FirstNumbers(takenIn') = Append(FirstNumbers(takenIn), takenIn + 1)
    BY <1>0, <2>1, FirstAppend
  <2>5. Incoming!Receive
    BY <2>1, <2>2, <2>3, <2>4 DEF Incoming!Receive
  <2> QED
    BY <2>5 DEF IncomingStep, Incoming!MessageNext
<1>4. CASE DropWhileReceiving
  <2>1. /\ "in" \notin torn /\ torn' = torn \cup {"in"}
        /\ UNCHANGED <<takenIn, quicUp>>
    BY <1>4 DEF DropWhileReceiving
  <2>2. Incoming!Lapse
    BY <2>1 DEF Incoming!Lapse
  <2> QED
    BY <2>2 DEF IncomingStep, Incoming!MessageNext
<1>5. CASE CloseGateway \/ QuicDown
  <2>1. quicUp' = FALSE /\ UNCHANGED <<takenIn, torn>>
    BY <1>5 DEF CloseGateway, QuicDown, gateVars
  <2>2. PICK k \in 0..Len(fromRemote) :
          fromRemote' = SubSeq(fromRemote, 1, k) /\ (~quicUp => fromRemote' = fromRemote)
    <3>1. CASE CloseGateway
      <4>1. fromRemote' = fromRemote
        BY <3>1 DEF CloseGateway
      <4>2. SubSeq(fromRemote, 1, Len(fromRemote)) = fromRemote
        BY <1>0
      <4>3. Len(fromRemote) \in 0..Len(fromRemote)
        BY <1>0
      <4> QED
        BY <4>1, <4>2, <4>3
    <3>2. CASE QuicDown
      BY <3>2 DEF QuicDown, Truncated
    <3> QED
      BY <1>5, <3>1, <3>2
  <2>3. CASE ~quicUp
    <3>1. quicUp' = quicUp
      BY <1>0, <2>1, <2>3
    <3> QED
      BY <2>1, <2>2, <2>3, <3>1, IncomingRests
  <2>4. CASE "in" \in torn
    <3>1. Incoming!Stray
      BY <2>1, <2>4 DEF Incoming!Stray
    <3> QED
      BY <3>1 DEF IncomingStep, Incoming!MessageNext
  <2>5. CASE quicUp /\ "in" \notin torn
    <3>1. Numbers(fromRemote') = SubSeq(Numbers(fromRemote), 1, k)
      BY <1>0, <2>2, NumbersCut
    <3>2. k \in 0..Len(Numbers(fromRemote))
      BY <1>0, NumbersOf
    <3>3. Incoming!End
      BY <2>1, <2>5, <3>1, <3>2 DEF Incoming!End
    <3> QED
      BY <3>3 DEF IncomingStep, Incoming!MessageNext
  <2> QED
    BY <2>3, <2>4, <2>5
<1> QED
  BY <1>1, <1>2, <1>3, <1>4, <1>5
  DEF GatewayNext, gatewayVars, quicVars, gateVars, TakeFromIpc, SendToQuic,
      SendToQuicFails, DropWhileSending, RemoteReceives, LocalPeer

-----------------------------------------------------------------------------
(* Theorems                                                                *)

\* The inductive invariant, for any number of messages and failures
\* (Gateway::forward_ipc_to_quic, forward_quic_to_ipc).
THEOREM GatewayInvariant == GatewaySpec => []GatewayInv
  BY InitGateway, StepGateway, PTL DEF GatewaySpec

\* However many messages there are, and whatever overflows, fails or is
\* dropped, what crosses the bridge in either direction keeps its order and
\* nothing crosses twice (forward_ipc_to_quic, forward_quic_to_ipc).
THEOREM BridgeKeepsOrder == GatewaySpec => []OrderAcross
<1>1. GatewayInv => OrderAcross
  <2> SUFFICES ASSUME GatewayInv PROVE OrderAcross
    OBVIOUS
  <2>1. hand # Empty => \A i \in 1..Len(sentOut) : sentOut[i] < hand
    <3>1. hand \in Nat /\ \A i \in 1..Len(sentOut) : sentOut[i] \in Nat
      BY DEF GatewayInv, GatewayTypes
    <3> QED
      BY <3>1 DEF GatewayInv, OutOrdered, UpTo, Limit
  <2> QED
    BY <2>1 DEF GatewayInv, OutOrdered, InOrdered, OrderAcross
<1> QED
  BY GatewayInvariant, <1>1, PTL

\* For any number of failures, the bridge loses at most one message for each
\* forward call that failed or was dropped, beside the one in hand.
THEOREM BridgeLosesOnePerFailure == GatewaySpec => []LossBounded
<1>1. GatewayInv => LossBounded
  BY DEF GatewayInv
<1> QED
  BY GatewayInvariant, <1>1, PTL

\* The QUIC connection the bridge is modelled with is the one FrameStream
\* implements, and no better: each direction is a stream of whole messages
\* (gateway.rs calls QuicConnection::send and receive).
THEOREM BridgeTrustsOnlyThePromise == GatewaySpec => StreamsAsPromised
<1>1. GatewayInit => NextFromRemote /\ Outgoing!MessageInit /\ Incoming!MessageInit
  <2> SUFFICES ASSUME GatewayInit
               PROVE  NextFromRemote /\ Outgoing!MessageInit /\ Incoming!MessageInit
    OBVIOUS
  <2>1. /\ toRemote = <<>> /\ fromRemote = <<>> /\ quicUp = TRUE /\ torn = {}
        /\ remoteSent = 0 /\ remoteGot = <<>> /\ takenIn = 0
    BY DEF GatewayInit
  <2>2. NextFromRemote
    <3>1. Len(fromRemote) = 0
      BY <2>1
    <3> QED
      BY <2>1, <3>1 DEF NextFromRemote
  <2>3. Numbers(fromRemote) = <<>> /\ FirstNumbers(takenIn) = <<>>
    <3>1. Len(fromRemote) = 0 /\ 1..0 = {}
      BY <2>1
    <3> QED
      BY <2>1, <3>1 DEF Numbers, FirstNumbers
  <2>4. ("out" \notin torn) = TRUE /\ ("in" \notin torn) = TRUE
    BY <2>1
  <2> QED
    BY <2>1, <2>2, <2>3, <2>4 DEF Outgoing!MessageInit, Incoming!MessageInit
<1>2. GatewayInv /\ NextFromRemote /\ [GatewayNext]_gatewayVars
        => NextFromRemote' /\ OutgoingStep /\ IncomingStep
  BY NextFromRemoteStep, OutgoingKeeps, IncomingKeeps DEF GatewayInv
<1> QED
  BY <1>1, <1>2, GatewayInvariant, PTL
  DEF GatewaySpec, StreamsAsPromised, Outgoing!MessageSpec, Incoming!MessageSpec,
      OutgoingStep, IncomingStep

\* Beside the bridge, the two directions of its IPC connection go on being
\* overwriting logs (gateway.rs calls IpcConnection::send and receive).
THEOREM BridgeKeepsLogs == GatewaySpec => ImplementsLog
<1>1. GatewayInit => ToServer!LogInit /\ ToClient!LogInit
  BY DEF GatewayInit, ToServer!LogInit, ToClient!LogInit, Ends
<1>2. GatewayInv /\ [GatewayNext]_gatewayVars
        => /\ [ToServer!LogNext]_(ToServer!logVars)
           /\ [ToClient!LogNext]_(ToClient!logVars)
  BY GatewayShmStep, ServerLogStep, ClientLogStep DEF GatewayInv, ShmInv
<1> QED
  BY <1>1, <1>2, GatewayInvariant, PTL
  DEF GatewaySpec, ImplementsLog, ToServerImplementsLog, ToClientImplementsLog,
      ToServer!LogSpec, ToClient!LogSpec
=============================================================================
