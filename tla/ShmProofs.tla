------------------------------- MODULE ShmProofs -------------------------------
(***************************************************************************)
(* Proofs about ShmChannel for any buffer size, any payload limit and any  *)
(* messages.                                                               *)
(***************************************************************************)
EXTENDS ShmChannel, SequenceTheorems, TLAPS

\* The newest of n frames, with no gap.
Gapless(frames, n) ==
  /\ Len(frames) <= n
  /\ \A i \in 1..Len(frames) : frames[i].id = n - Len(frames) + i

\* A subscriber holds the newest frames published to it.
Consecutive(e) == Gapless(buffer[e], published[e])

\* What has been read was published before what is in the buffer, in order.
ReadEarlier(e) ==
  /\ \A i \in 1..Len(got[e]) : got[e][i] <= published[e] - Len(buffer[e])
  /\ \A i, j \in 1..Len(got[e]) : i < j => got[e][i] < got[e][j]

\* A frame that has left the buffer was read or overtaken by BufferSize others.
Accounted(e) ==
  Attached(e) =>
    \A n \in 1..published[e] :
      \/ n <= published[e] - BufferSize
      \/ n > published[e] - Len(buffer[e])
      \/ \E i \in 1..Len(got[e]) : got[e][i] = n

Unopened(e) == status[e] = "absent" => buffer[e] = <<>> /\ published[e] = 0

EndInv(e) == Consecutive(e) /\ ReadEarlier(e) /\ Accounted(e) /\ Unopened(e)

ShmInv == ShmTypeOK /\ \A e \in Ends : EndInv(e)

-----------------------------------------------------------------------------
\* There are two ends, each the other's peer.
LEMMA PeerIsOther ==
  \A e \in Ends : Peer(e) \in Ends /\ Peer(e) # e /\ \A d \in Ends : d \in {e, Peer(e)}
  BY DEF Ends, Peer

\* What the types say of one end.
LEMMA EndTypes ==
  ASSUME ShmTypeOK, NEW d \in Ends
  PROVE  /\ buffer[d] \in Seq(Frame)
         /\ Len(buffer[d]) \in Nat
         /\ Len(buffer[d]) <= BufferSize
         /\ published[d] \in Nat
         /\ got[d] \in Seq(Nat \ {0})
<1>1. buffer[d] \in Seq(Frame) /\ published[d] \in Nat /\ got[d] \in Seq(Nat \ {0})
  BY DEF ShmTypeOK
<1>2. Len(buffer[d]) <= BufferSize
  BY DEF ShmTypeOK
<1> QED
  BY <1>1, <1>2

\* A full buffer keeps its size and shifts by one; any other grows by one.
LEMMA OverflowShift ==
  ASSUME NEW q \in Seq(Frame), NEW f \in Frame, Len(q) <= BufferSize
  PROVE  LET r == Overflowing(q, f)
         IN  /\ r \in Seq(Frame)
             /\ Len(r) <= BufferSize
             /\ Len(r) >= 1
             /\ r[Len(r)] = f
             /\ \/ /\ Len(r) = Len(q) + 1
                   /\ \A i \in 1..Len(q) : r[i] = q[i]
                \/ /\ Len(r) = Len(q)
                   /\ Len(q) = BufferSize
                   /\ \A i \in 1..(Len(q) - 1) : r[i] = q[i + 1]
<1> DEFINE r == Overflowing(q, f)
<1>1. BufferSize \in Nat \ {0}
  BY ShmAssumption
<1>2. CASE Len(q) < BufferSize
  <2>1. r = Append(q, f)
    BY <1>2 DEF Overflowing
  <2> HIDE DEF r
  <2>2. r \in Seq(Frame) /\ Len(r) = Len(q) + 1 /\ r[Len(q) + 1] = f
    BY <2>1
  <2>3. \A i \in 1..Len(q) : r[i] = q[i]
    BY <2>1, AppendProperties
  <2> QED
    BY <1>1, <1>2, <2>2, <2>3 DEF r
<1>3. CASE Len(q) = BufferSize
  <2>1. r = Append(Tail(q), f)
    BY <1>1, <1>3 DEF Overflowing
  <2> HIDE DEF r
  <2>2. /\ Tail(q) \in Seq(Frame) /\ Len(Tail(q)) = Len(q) - 1
        /\ \A i \in 1..Len(Tail(q)) : Tail(q)[i] = q[i + 1]
    BY <1>1, <1>3
  <2>3. r \in Seq(Frame) /\ Len(r) = Len(q) /\ r[Len(q)] = f
    BY <1>1, <2>1, <2>2
  <2>4. \A i \in 1..(Len(q) - 1) : r[i] = q[i + 1]
    BY <2>1, <2>2, AppendProperties
  <2> QED
    BY <1>1, <1>3, <2>3, <2>4 DEF r
<1> QED
  BY <1>1, <1>2, <1>3

\* Pushing the next frame keeps a buffer the gapless tail of what was published.
LEMMA WindowMoves ==
  ASSUME NEW q \in Seq(Frame), NEW n \in Nat, NEW f \in Frame, f.id = n + 1,
         Len(q) <= BufferSize, Gapless(q, n)
  PROVE  Gapless(Overflowing(q, f), n + 1)
<1> DEFINE r == Overflowing(q, f)
<1>1. BufferSize \in Nat \ {0} /\ Len(q) \in Nat
  BY ShmAssumption
<1>2. /\ r \in Seq(Frame)
      /\ r[Len(r)] = f
      /\ \/ /\ Len(r) = Len(q) + 1
            /\ \A i \in 1..Len(q) : r[i] = q[i]
         \/ /\ Len(r) = Len(q)
            /\ Len(q) = BufferSize
            /\ \A i \in 1..(Len(q) - 1) : r[i] = q[i + 1]
  BY OverflowShift
<1> HIDE DEF r
<1>3. Len(r) \in Nat /\ Len(r) <= n + 1
  BY <1>1, <1>2 DEF Gapless
<1>4. ASSUME NEW i \in 1..Len(r) PROVE r[i].id = (n + 1) - Len(r) + i
  <2>1. CASE i = Len(r)
    BY <1>2, <1>3, <2>1
  <2>2. CASE i # Len(r) /\ Len(r) = Len(q) + 1 /\ \A j \in 1..Len(q) : r[j] = q[j]
    <3>1. i \in 1..Len(q) /\ r[i] = q[i]
      BY <1>1, <2>2
    <3>2. q[i].id = n - Len(q) + i
      BY <3>1 DEF Gapless
    <3> QED
      BY <1>1, <2>2, <3>1, <3>2
  <2>3. CASE /\ i # Len(r) /\ Len(r) = Len(q)
             /\ \A j \in 1..(Len(q) - 1) : r[j] = q[j + 1]
    <3>1. i \in 1..(Len(q) - 1) /\ i + 1 \in 1..Len(q) /\ r[i] = q[i + 1]
      BY <1>1, <2>3
    <3>2. q[i + 1].id = n - Len(q) + (i + 1)
      BY <3>1 DEF Gapless
    <3> QED
      BY <1>1, <2>3, <3>1, <3>2
  <2> QED
    BY <1>2, <2>1, <2>2, <2>3
<1>5. Gapless(r, n + 1)
  BY <1>3, <1>4 DEF Gapless
<1> QED
  BY <1>5 DEF r

\* The invariant holds before either end opens.
LEMMA InitShm == ShmInit => ShmInv
<1> SUFFICES ASSUME ShmInit PROVE ShmInv
  OBVIOUS
<1>1. ASSUME NEW e \in Ends
      PROVE  /\ status[e] = "absent" /\ asleep[e] = FALSE /\ buffer[e] = <<>>
             /\ published[e] = 0 /\ missed[e] = 0 /\ got[e] = <<>>
             /\ result[e] = "none"
  BY DEF ShmInit
<1>2. BufferSize \in Nat /\ Len(<<>>) = 0 /\ <<>> \in Seq(Frame)
      /\ <<>> \in Seq(Nat \ {0})
  BY ShmAssumption
<1>3. ShmTypeOK
  BY <1>1, <1>2 DEF ShmInit, ShmTypeOK, Result
<1>4. ASSUME NEW e \in Ends PROVE EndInv(e)
  <2>1. Len(buffer[e]) = 0 /\ Len(got[e]) = 0 /\ published[e] = 0
    BY <1>1, <1>2
  <2>2. Consecutive(e)
    BY <2>1 DEF Consecutive, Gapless
  <2>3. ReadEarlier(e)
    BY <2>1 DEF ReadEarlier
  <2>4. Accounted(e) /\ Unopened(e)
    BY <1>1, <2>1 DEF Accounted, Unopened
  <2> QED
    BY <2>2, <2>3, <2>4 DEF EndInv
<1> QED
  BY <1>3, <1>4 DEF ShmInv

\* A step that leaves the buffer and the counters of an end alone, and does
\* not take it back to an earlier stage, keeps the invariant of that end.
LEMMA EndUntouched ==
  ASSUME ShmInv, NEW d \in Ends,
         buffer'[d] = buffer[d], published'[d] = published[d], got'[d] = got[d],
         Attached(d)' => Attached(d) \/ status[d] = "absent",
         status'[d] = "absent" => status[d] = "absent"
  PROVE  EndInv(d)'
<1>1. Consecutive(d)' /\ ReadEarlier(d)' /\ Unopened(d)'
  BY DEF ShmInv, EndInv, Consecutive, ReadEarlier, Unopened
<1>2. Accounted(d)'
  BY DEF ShmInv, EndInv, Accounted, Unopened
<1> QED
  BY <1>1, <1>2 DEF EndInv

\* Publishing moves the window of an attached peer by one.
LEMMA PeerWindow ==
  ASSUME ShmInv, NEW p \in Ends, NEW m \in Message, Attached(p),
         buffer'[p] = Overflowing(buffer[p],
                                  [id |-> published[p] + 1, msg |-> m]),
         published'[p] = published[p] + 1, got'[p] = got[p],
         status'[p] = status[p]
  PROVE  /\ EndInv(p)'
         /\ buffer'[p] \in Seq(Frame)
         /\ Len(buffer'[p]) <= BufferSize
<1>1. /\ buffer[p] \in Seq(Frame) /\ Len(buffer[p]) \in Nat
      /\ Len(buffer[p]) <= BufferSize /\ published[p] \in Nat
      /\ got[p] \in Seq(Nat \ {0})
  BY EndTypes DEF ShmInv
<1>2. Consecutive(p) /\ ReadEarlier(p) /\ Accounted(p) /\ Unopened(p)
  BY DEF ShmInv, EndInv
<1> DEFINE f == [id |-> published[p] + 1, msg |-> m]
<1>3. f \in Frame /\ f.id = published[p] + 1
  BY <1>1 DEF Frame
<1> HIDE DEF f
<1>4. buffer'[p] = Overflowing(buffer[p], f)
  BY DEF f
<1>5. Consecutive(p)'
  BY <1>1, <1>2, <1>3, <1>4, WindowMoves DEF Consecutive
<1>6. /\ buffer'[p] \in Seq(Frame)
      /\ Len(buffer'[p]) <= BufferSize
      /\ Len(buffer'[p]) >= 1
      /\ \/ Len(buffer'[p]) = Len(buffer[p]) + 1
         \/ Len(buffer'[p]) = Len(buffer[p]) /\ Len(buffer[p]) = BufferSize
  <2> DEFINE r == Overflowing(buffer[p], f)
  <2>1. /\ r \in Seq(Frame)
        /\ Len(r) <= BufferSize
        /\ Len(r) >= 1
        /\ \/ Len(r) = Len(buffer[p]) + 1
           \/ Len(r) = Len(buffer[p]) /\ Len(buffer[p]) = BufferSize
    BY <1>1, <1>3, OverflowShift
  <2> QED
    BY <1>4, <2>1
<1>7. Len(buffer'[p]) \in Nat /\ BufferSize \in Nat
  BY <1>6, ShmAssumption
<1>8. ReadEarlier(p)'
  <2>1. published[p] - Len(buffer[p]) <= published'[p] - Len(buffer'[p])
    BY <1>1, <1>6, <1>7
  <2>2. \A i \in 1..Len(got[p]) :
          got[p][i] \in Nat /\ got[p][i] <= published[p] - Len(buffer[p])
    BY <1>1, <1>2 DEF ReadEarlier
  <2>3. ASSUME NEW i \in 1..Len(got[p])
        PROVE  got[p][i] <= published'[p] - Len(buffer'[p])
    <3>1. got[p][i] \in Nat /\ got[p][i] <= published[p] - Len(buffer[p])
      BY <2>2, <2>3
    <3>2. /\ published[p] - Len(buffer[p]) \in Int
          /\ published'[p] - Len(buffer'[p]) \in Int
      BY <1>1, <1>7
    <3> QED
      BY <2>1, <3>1, <3>2
  <2>4. \A i, j \in 1..Len(got[p]) : i < j => got[p][i] < got[p][j]
    BY <1>2 DEF ReadEarlier
  <2> QED
    BY <2>3, <2>4 DEF ReadEarlier
<1>9. Accounted(p)'
  <2> SUFFICES ASSUME NEW n \in 1..published'[p]
               PROVE  \/ n <= published'[p] - BufferSize
                      \/ n > published'[p] - Len(buffer'[p])
                      \/ \E i \in 1..Len(got'[p]) : got'[p][i] = n
    BY DEF Accounted
  <2>1. CASE n = published[p] + 1
    BY <1>1, <1>6, <1>7, <2>1
  <2>2. CASE n \in 1..published[p]
    <3>1. \/ n <= published[p] - BufferSize
          \/ n > published[p] - Len(buffer[p])
          \/ \E i \in 1..Len(got[p]) : got[p][i] = n
      BY <1>2, <2>2 DEF Accounted
    <3> QED
      BY <1>1, <1>6, <1>7, <2>2, <3>1
  <2>3. n = published[p] + 1 \/ n \in 1..published[p]
    BY <1>1
  <2> QED
    BY <2>1, <2>2, <2>3
<1>10. Unopened(p)'
  BY DEF Unopened, Attached
<1>11. EndInv(p)'
  BY <1>5, <1>8, <1>9, <1>10 DEF EndInv
<1> QED
  BY <1>6, <1>11

\* A publication keeps it, whether or not it overflows the subscriber's buffer.
LEMMA PublishInv ==
  ASSUME ShmInv, NEW e \in Ends, NEW m \in Message, Publish(e, m),
         UNCHANGED <<status, asleep, got>>, result' \in [Ends -> Result]
  PROVE  ShmInv'
<1> DEFINE p == Peer(e)
<1>1. p \in Ends /\ p # e /\ \A d \in Ends : d = e \/ d = p
  BY PeerIsOther
<1>2. ShmTypeOK
  BY DEF ShmInv
<1>3. CASE ~Attached(p)
  <2>1. UNCHANGED <<published, buffer>>
        /\ missed' = [missed EXCEPT ![p] = @ + 1]
    BY <1>3 DEF Publish
  <2>2. ASSUME NEW d \in Ends PROVE EndInv(d)'
    BY <2>1, EndUntouched DEF Attached
  <2>3. missed' \in [Ends -> Nat]
    BY <1>1, <1>2, <2>1 DEF ShmTypeOK
  <2>4. ShmTypeOK'
    BY <1>2, <2>1, <2>3 DEF ShmTypeOK
  <2> QED
    BY <2>2, <2>4 DEF ShmInv
<1>4. CASE Attached(p)
  <2>1. /\ published' = [published EXCEPT ![p] = @ + 1]
        /\ buffer' = [buffer EXCEPT ![p] =
             Overflowing(@, [id |-> published[p] + 1, msg |-> m])]
        /\ missed' = missed
    BY <1>4 DEF Publish
  <2>2. /\ buffer'[p] = Overflowing(buffer[p],
                                    [id |-> published[p] + 1, msg |-> m])
        /\ published'[p] = published[p] + 1
        /\ buffer'[e] = buffer[e] /\ published'[e] = published[e]
    BY <1>1, <1>2, <2>1 DEF ShmTypeOK
  <2>3. EndInv(p)' /\ buffer'[p] \in Seq(Frame) /\ Len(buffer'[p]) <= BufferSize
    BY <1>1, <1>4, <2>2, PeerWindow
  <2>4. EndInv(e)'
    BY <2>2, EndUntouched DEF Attached
  <2>5. \A d \in Ends : buffer'[d] \in Seq(Frame) /\ Len(buffer'[d]) <= BufferSize
    BY <1>1, <1>2, <2>2, <2>3, EndTypes
  <2>6. buffer' \in [Ends -> Seq(Frame)] /\ published' \in [Ends -> Nat]
    BY <1>1, <1>2, <2>1, <2>5 DEF ShmTypeOK
  <2>7. ShmTypeOK'
    BY <1>2, <2>1, <2>5, <2>6 DEF ShmTypeOK
  <2>8. ASSUME NEW d \in Ends PROVE EndInv(d)'
    BY <1>1, <2>3, <2>4
  <2> QED
    BY <2>7, <2>8 DEF ShmInv
<1> QED
  BY <1>3, <1>4

\* Reading takes the oldest frame of the buffer and adds it to what was read.
LEMMA ReceiveInv ==
  ASSUME ShmInv, NEW e \in Ends, Receive(e)
  PROVE  ShmInv'
<1> DEFINE q == buffer[e]
           n == published[e]
<1>1. ShmTypeOK
  BY DEF ShmInv
<1>2. /\ q \in Seq(Frame) /\ q # <<>> /\ Len(q) \in Nat /\ Len(q) <= BufferSize
      /\ n \in Nat /\ got[e] \in Seq(Nat \ {0})
  BY <1>1, EndTypes DEF Receive
<1>3. /\ buffer' = [buffer EXCEPT ![e] = Tail(q)]
      /\ got' = [got EXCEPT ![e] = Append(got[e], Head(q).id)]
      /\ UNCHANGED <<status, published, missed>>
  BY DEF Receive
<1>4. /\ buffer'[e] = Tail(q) /\ got'[e] = Append(got[e], Head(q).id)
      /\ published'[e] = n /\ status'[e] = status[e]
  BY <1>1, <1>3 DEF ShmTypeOK
<1>5. /\ Gapless(q, n)
      /\ \A i \in 1..Len(got[e]) : got[e][i] <= n - Len(q)
      /\ \A i, j \in 1..Len(got[e]) : i < j => got[e][i] < got[e][j]
      /\ Attached(e) =>
           \A k \in 1..n : \/ k <= n - BufferSize
                          \/ k > n - Len(q)
                          \/ \E i \in 1..Len(got[e]) : got[e][i] = k
      /\ status[e] = "absent" => q = <<>>
  BY DEF ShmInv, EndInv, Consecutive, ReadEarlier, Accounted, Unopened
<1> HIDE DEF q, n
<1>6. /\ Len(q) >= 1 /\ Tail(q) \in Seq(Frame) /\ Len(Tail(q)) = Len(q) - 1
      /\ \A i \in 1..Len(Tail(q)) : i + 1 \in 1..Len(q) /\ Tail(q)[i] = q[i + 1]
      /\ Head(q) = q[1] /\ Head(q) \in Frame
  BY <1>2
<1>7. Len(q) <= n /\ Head(q).id = n - Len(q) + 1 /\ Head(q).id \in Nat \ {0}
  BY <1>2, <1>5, <1>6 DEF Gapless, Frame
<1>8. Consecutive(e)'
  <2>1. ASSUME NEW i \in 1..Len(Tail(q))
        PROVE  Tail(q)[i].id = n - Len(Tail(q)) + i
    <3>1. q[i + 1].id = n - Len(q) + (i + 1)
      BY <1>5, <1>6 DEF Gapless
    <3> QED
      BY <1>2, <1>6, <3>1
  <2>2. Len(Tail(q)) <= n
    BY <1>2, <1>6, <1>7
  <2> QED
    BY <1>4, <2>1, <2>2 DEF Consecutive, Gapless
<1>9. /\ Len(got'[e]) = Len(got[e]) + 1
      /\ got'[e][Len(got[e]) + 1] = n - Len(q) + 1
      /\ \A i \in 1..Len(got[e]) : got'[e][i] = got[e][i]
      /\ got'[e] \in Seq(Nat \ {0})
  BY <1>2, <1>4, <1>7, AppendProperties
<1>10. ReadEarlier(e)'
  <2>1. \A i \in 1..Len(got[e]) : got[e][i] \in Nat /\ got[e][i] <= n - Len(q)
    BY <1>2, <1>5
  <2>2. Len(got[e]) \in Nat
    BY <1>2
  <2>3. \A i \in 1..Len(got'[e]) : i \in 1..Len(got[e]) \/ i = Len(got[e]) + 1
    BY <1>9, <2>2
  <2>4. \A i \in 1..Len(got'[e]) : got'[e][i] <= n - Len(Tail(q))
    <3> SUFFICES ASSUME NEW i \in 1..Len(got'[e])
                 PROVE  got'[e][i] <= n - Len(Tail(q))
      OBVIOUS
    <3>1. n - Len(Tail(q)) = n - Len(q) + 1
      BY <1>2, <1>6
    <3>2. CASE i \in 1..Len(got[e])
      <4>1. /\ got'[e][i] = got[e][i]
            /\ got[e][i] \in Nat /\ got[e][i] <= n - Len(q)
        BY <1>9, <2>1, <3>2
      <4>2. n - Len(q) \in Int
        BY <1>2
      <4> QED
        BY <3>1, <4>1, <4>2
    <3>3. CASE i = Len(got[e]) + 1
      BY <1>2, <1>9, <3>1, <3>3
    <3> QED
      BY <2>3, <3>2, <3>3
  <2>5. \A i, j \in 1..Len(got'[e]) : i < j => got'[e][i] < got'[e][j]
    <3> SUFFICES ASSUME NEW i \in 1..Len(got'[e]), NEW j \in 1..Len(got'[e]),
                        i < j
                 PROVE  got'[e][i] < got'[e][j]
      OBVIOUS
    <3>1. i \in 1..Len(got[e])
      BY <2>2, <2>3
    <3>2. CASE j \in 1..Len(got[e])
      BY <1>5, <1>9, <3>1, <3>2
    <3>3. CASE j = Len(got[e]) + 1
      <4>1. got'[e][i] \in Nat /\ got'[e][i] <= n - Len(q)
        BY <1>9, <2>1, <3>1
      <4>2. got'[e][j] = n - Len(q) + 1
        BY <1>9, <3>3
      <4>3. n \in Nat /\ Len(q) \in Nat
        BY <1>2
      <4> QED
        BY <4>1, <4>2, <4>3
    <3> QED
      BY <2>3, <3>2, <3>3
  <2> QED
    BY <1>4, <2>4, <2>5 DEF ReadEarlier
<1>11. Accounted(e)'
  <2> SUFFICES ASSUME Attached(e), NEW k \in 1..n
               PROVE  \/ k <= n - BufferSize
                      \/ k > n - Len(Tail(q))
                      \/ \E i \in 1..Len(got'[e]) : got'[e][i] = k
    BY <1>3, <1>4 DEF Accounted, Attached
  <2>1. Len(got[e]) \in Nat
    BY <1>2
  <2>2. CASE k <= n - BufferSize
    BY <2>2
  <2>3. CASE k > n - Len(q)
    <3>1. k > n - Len(Tail(q)) \/ k = n - Len(q) + 1
      <4>1. Len(Tail(q)) = Len(q) - 1
        BY <1>6
      <4>2. k \in Int /\ n \in Int /\ Len(q) \in Int
        BY <1>2
      <4> QED
        BY <2>3, <4>1, <4>2
    <3>2. Len(got'[e]) \in Nat /\ Len(got[e]) + 1 \in 1..Len(got'[e])
      BY <1>9, <2>1
    <3> QED
      BY <1>9, <3>1, <3>2
  <2>4. CASE \E i \in 1..Len(got[e]) : got[e][i] = k
    <3>1. PICK i \in 1..Len(got[e]) : got[e][i] = k
      BY <2>4
    <3>2. i \in 1..Len(got'[e]) /\ got'[e][i] = k
      BY <1>9, <2>1, <3>1
    <3> QED
      BY <3>2
  <2> QED
    BY <1>5, <2>2, <2>3, <2>4
<1>12. Unopened(e)'
  <2>1. status[e] # "absent"
    BY <1>2, <1>5
  <2> QED
    BY <1>4, <2>1 DEF Unopened
<1>13. ASSUME NEW d \in Ends PROVE EndInv(d)'
  <2>1. CASE d = e
    BY <1>8, <1>10, <1>11, <1>12, <2>1 DEF EndInv
  <2>2. CASE d # e
    <3>1. buffer'[d] = buffer[d] /\ got'[d] = got[d]
      BY <1>1, <1>3, <2>2 DEF ShmTypeOK
    <3> QED
      BY <1>3, <3>1, EndUntouched DEF Attached
  <2> QED
    BY <2>1, <2>2
<1>14. ShmTypeOK'
  <2>1. buffer' \in [Ends -> Seq(Frame)] /\ got' \in [Ends -> Seq(Nat \ {0})]
    BY <1>1, <1>3, <1>4, <1>6, <1>9 DEF ShmTypeOK
  <2>2. \A d \in Ends : Len(buffer'[d]) <= BufferSize
    <3>1. Len(Tail(q)) <= BufferSize
      BY <1>2, <1>6, ShmAssumption
    <3> QED
      BY <1>1, <1>3, <3>1 DEF ShmTypeOK
  <2>3. asleep' \in [Ends -> BOOLEAN] /\ result' \in [Ends -> Result]
    BY <1>1 DEF Receive, ShmTypeOK, Result
  <2> QED
    BY <1>1, <1>3, <2>1, <2>2, <2>3 DEF ShmTypeOK
<1> QED
  BY <1>13, <1>14 DEF ShmInv

\* The steps that move neither a frame nor a counter.
LEMMA QuietStep ==
  ASSUME ShmInv, UNCHANGED <<buffer, published, missed, got>>,
         status' \in [Ends -> {"absent", "open", "closed", "dropped"}],
         asleep' \in [Ends -> BOOLEAN], result' \in [Ends -> Result],
         \A d \in Ends : /\ Attached(d)' => Attached(d) \/ status[d] = "absent"
                         /\ status'[d] = "absent" => status[d] = "absent"
  PROVE  ShmInv'
<1>1. ASSUME NEW d \in Ends PROVE EndInv(d)'
  BY EndUntouched
<1>2. ShmTypeOK'
  BY DEF ShmInv, ShmTypeOK
<1> QED
  BY <1>1, <1>2 DEF ShmInv

\* An end that is dropped takes its buffer along.
LEMMA DropInv ==
  ASSUME ShmInv, NEW e \in Ends, Drop(e)
  PROVE  ShmInv'
<1>1. ShmTypeOK
  BY DEF ShmInv
<1>2. /\ status' = [status EXCEPT ![e] = "dropped"]
      /\ buffer' = [buffer EXCEPT ![e] = <<>>]
      /\ asleep' = [asleep EXCEPT ![e] = FALSE]
      /\ UNCHANGED <<published, missed, got, result>>
  BY DEF Drop
<1>3. status'[e] = "dropped" /\ buffer'[e] = <<>>
  BY <1>1, <1>2 DEF ShmTypeOK
<1>4. EndInv(e)'
  <2>1. /\ published[e] \in Nat /\ Len(buffer'[e]) = 0 /\ Len(buffer[e]) \in Nat
        /\ got[e] \in Seq(Nat \ {0}) /\ ReadEarlier(e)
    BY <1>1, <1>3, EndTypes DEF ShmInv, EndInv
  <2>2. Consecutive(e)'
    BY <1>2, <2>1 DEF Consecutive, Gapless
  <2>3. ReadEarlier(e)'
    <3>1. \A i \in 1..Len(got[e]) : got[e][i] \in Nat
      BY <2>1
    <3> QED
      BY <1>2, <2>1, <3>1 DEF ReadEarlier
  <2>4. Accounted(e)' /\ Unopened(e)'
    BY <1>3 DEF Accounted, Unopened, Attached
  <2> QED
    BY <2>2, <2>3, <2>4 DEF EndInv
<1>5. ASSUME NEW d \in Ends, d # e PROVE EndInv(d)'
  <2>1. buffer'[d] = buffer[d] /\ status'[d] = status[d]
    BY <1>1, <1>2, <1>5 DEF ShmTypeOK
  <2> QED
    BY <1>2, <2>1, EndUntouched DEF Attached
<1>6. ShmTypeOK'
  <2>1. <<>> \in Seq(Frame) /\ Len(<<>>) <= BufferSize
    BY ShmAssumption
  <2> QED
    BY <1>1, <1>2, <2>1 DEF ShmTypeOK
<1> QED
  BY <1>4, <1>5, <1>6 DEF ShmInv

\* Every step of either end keeps it.
LEMMA StepShm == ShmInv /\ [ShmNext]_shmVars => ShmInv'
<1> SUFFICES ASSUME ShmInv, [ShmNext]_shmVars PROVE ShmInv'
  OBVIOUS
<1>t. ShmTypeOK
  BY DEF ShmInv
<1>1. ASSUME NEW e \in Ends, EndNext(e) PROVE ShmInv'
  <2>1. CASE Open(e) \/ OpenFails(e) \/ Close(e)
    BY <1>t, <2>1, QuietStep
    DEF Open, OpenFails, Close, Free, ShmTypeOK, Result, Attached
  <2>2. CASE \E m \in Message : Send(e, m) \/ PublishOversized(e, m)
    <3>1. PICK m \in Message : Send(e, m) \/ PublishOversized(e, m)
      BY <2>2
    <3>2. result' \in [Ends -> Result]
      BY <1>t, <3>1 DEF Send, PublishOversized, ShmTypeOK, Result
    <3> QED
      BY <3>1, <3>2, PublishInv DEF Send, PublishOversized
  <2>3. CASE \E m \in Message : SendRefused(e, m)
    BY <1>t, <2>3, QuietStep DEF SendRefused, ShmTypeOK, Result, Attached
  <2>4. CASE Receive(e)
    BY <2>4, ReceiveInv
  <2>5. CASE \/ Sleep(e) \/ SendFails(e) \/ ReceiveFails(e) \/ ReceiveRefused(e)
             \/ CancelReceive(e)
    BY <1>t, <2>5, QuietStep
    DEF Sleep, SendFails, ReceiveFails, ReceiveRefused, CancelReceive, ShmTypeOK, Result, Attached
  <2>6. CASE Drop(e)
    BY <2>6, DropInv
  <2> QED
    BY <1>1, <2>1, <2>2, <2>3, <2>4, <2>5, <2>6 DEF EndNext
<1>2. CASE UNCHANGED shmVars
  BY <1>t, <1>2, QuietStep DEF shmVars, ShmTypeOK, Attached
<1> QED
  BY <1>1, <1>2 DEF ShmNext

\* The inductive invariant, for any depth, payload limit and messages
\* (IpcConnection::send, receive, close, drop).
THEOREM ShmInvariant == ShmSpec => []ShmInv
  BY InitShm, StepShm, PTL DEF ShmSpec

\* The subscriber buffer never exceeds its depth and every piece of connection
\* state keeps its type, for any depth, payload limit and messages.
THEOREM ShmTypeCorrect == ShmSpec => []ShmTypeOK
<1>1. ShmInv => ShmTypeOK
  BY DEF ShmInv
<1> QED
  BY ShmInvariant, <1>1, PTL

\* Delivery is in order and without duplicates, for any buffer depth, through
\* overflow, cancelled receives, closes and drops.
THEOREM DeliveryInOrder == ShmSpec => []InOrder
<1>1. ShmInv => InOrder
  <2> SUFFICES ASSUME ShmInv, NEW e \in Ends
               PROVE  /\ \A i, j \in 1..Len(got[e]) :
                           i < j => got[e][i] < got[e][j]
                      /\ \A i, j \in 1..Len(buffer[e]) :
                           i < j => buffer[e][i].id < buffer[e][j].id
                      /\ \A i \in 1..Len(got[e]), j \in 1..Len(buffer[e]) :
                           got[e][i] < buffer[e][j].id
    BY DEF InOrder
  <2> DEFINE n == published[e]
             q == buffer[e]
  <2>1. n \in Nat /\ Len(q) \in Nat /\ got[e] \in Seq(Nat \ {0})
    BY EndTypes DEF ShmInv
  <2>2. /\ \A i \in 1..Len(q) : q[i].id = n - Len(q) + i
        /\ \A i \in 1..Len(got[e]) : got[e][i] <= n - Len(q)
        /\ \A i, j \in 1..Len(got[e]) : i < j => got[e][i] < got[e][j]
    BY DEF ShmInv, EndInv, Consecutive, Gapless, ReadEarlier
  <2> HIDE DEF n, q
  <2>3. \A i, j \in 1..Len(q) : i < j => q[i].id < q[j].id
    BY <2>1, <2>2
  <2>4. ASSUME NEW i \in 1..Len(got[e]), NEW j \in 1..Len(q)
        PROVE  got[e][i] < q[j].id
    <3>1. got[e][i] \in Nat /\ got[e][i] <= n - Len(q) /\ q[j].id = n - Len(q) + j
      BY <2>1, <2>2
    <3> QED
      BY <2>1, <3>1
  <2> QED
    BY <2>2, <2>3, <2>4 DEF q
<1> QED
  BY ShmInvariant, <1>1, PTL

\* The newest BufferSize frames are never lost by an attached reader.
THEOREM NewestFramesKept == ShmSpec => []OnlyOldestLost
<1>1. ShmInv => OnlyOldestLost
  <2> SUFFICES ASSUME ShmInv, NEW e \in Ends, Attached(e),
                      NEW k \in 1..published[e]
               PROVE  \/ k <= published[e] - BufferSize
                      \/ \E i \in 1..Len(got[e]) : got[e][i] = k
                      \/ \E i \in 1..Len(buffer[e]) : buffer[e][i].id = k
    BY DEF OnlyOldestLost
  <2> DEFINE n == published[e]
             q == buffer[e]
  <2>1. n \in Nat /\ Len(q) \in Nat
    BY EndTypes DEF ShmInv
  <2>2. /\ Len(q) <= n
        /\ \A i \in 1..Len(q) : q[i].id = n - Len(q) + i
        /\ \/ k <= n - BufferSize
           \/ k > n - Len(q)
           \/ \E i \in 1..Len(got[e]) : got[e][i] = k
    BY DEF ShmInv, EndInv, Consecutive, Gapless, Accounted
  <2>3. k \in 1..n
    OBVIOUS
  <2> HIDE DEF n, q
  <2>4. CASE k > n - Len(q)
    <3>1. k - (n - Len(q)) \in 1..Len(q)
      BY <2>1, <2>2, <2>3, <2>4
    <3>2. q[k - (n - Len(q))].id = k
      BY <2>1, <2>2, <2>3, <3>1
    <3> QED
      BY <3>1, <3>2 DEF q
  <2> QED
    BY <2>2, <2>4 DEF n
<1> QED
  BY ShmInvariant, <1>1, PTL

-----------------------------------------------------------------------------
(* Each direction implements the overwriting log                           *)

\* The four things a step can do to one direction.
Advances(d) ==
  \/ /\ published'[d] = published[d] + 1
     /\ \/ Len(buffer[d]) < BufferSize /\ Len(buffer'[d]) = Len(buffer[d]) + 1
        \/ Len(buffer[d]) = BufferSize /\ Len(buffer'[d]) = BufferSize
  \/ /\ published'[d] = published[d]
     /\ Len(buffer[d]) > 0
     /\ Len(buffer'[d]) = Len(buffer[d]) - 1
  \/ published'[d] = published[d] /\ Len(buffer'[d]) = 0
  \/ published'[d] = published[d] /\ buffer'[d] = buffer[d]

\* A publication is one of the log's moves.
LEMMA PublishAdvances ==
  ASSUME ShmTypeOK, NEW e \in Ends, NEW m \in Message, Publish(e, m), NEW d \in Ends
  PROVE  Advances(d)
<1> DEFINE p == Peer(e)
           f == [id |-> published[p] + 1, msg |-> m]
           r == Overflowing(buffer[p], f)
<1>1. p \in Ends
  BY PeerIsOther
<1>2. CASE ~Attached(p)
  BY <1>2 DEF Publish, Advances
<1>3. CASE Attached(p)
  <2>1. /\ published' = [published EXCEPT ![p] = @ + 1]
        /\ buffer' = [buffer EXCEPT ![p] = r]
    BY <1>3 DEF Publish
  <2>2. CASE d # p
    BY <2>1, <2>2 DEF Advances, ShmTypeOK
  <2>3. CASE d = p
    <3>1. /\ buffer[p] \in Seq(Frame) /\ Len(buffer[p]) \in Nat
          /\ Len(buffer[p]) <= BufferSize /\ published[p] \in Nat
      BY <1>1, EndTypes
    <3>2. f \in Frame
      BY <3>1 DEF Frame
    <3> HIDE DEF f
    <3>3. \/ Len(r) = Len(buffer[p]) + 1 /\ Len(r) <= BufferSize
          \/ Len(r) = Len(buffer[p]) /\ Len(buffer[p]) = BufferSize
      BY <3>1, <3>2, OverflowShift
    <3>4. buffer'[p] = r /\ published'[p] = published[p] + 1
      BY <1>1, <2>1 DEF ShmTypeOK
    <3> HIDE DEF r
    <3> QED
      BY <2>3, <3>1, <3>3, <3>4, ShmAssumption DEF Advances
  <2> QED
    BY <2>2, <2>3
<1> QED
  BY <1>2, <1>3

\* And so is every step.
LEMMA StepAdvances ==
  ASSUME ShmTypeOK, [ShmNext]_shmVars, NEW d \in Ends
  PROVE  Advances(d)
<1>1. ASSUME NEW e \in Ends, EndNext(e) PROVE Advances(d)
  <2>1. CASE \E m \in Message : Send(e, m) \/ PublishOversized(e, m)
    BY <2>1, PublishAdvances DEF Send, PublishOversized
  <2>2. CASE Receive(e)
    <3>1. buffer[e] \in Seq(Frame) /\ buffer[e] # <<>>
      BY <2>2, EndTypes DEF Receive
    <3>2. Len(buffer[e]) > 0 /\ Len(Tail(buffer[e])) = Len(buffer[e]) - 1
      BY <3>1
    <3> QED
      BY <2>2, <3>2 DEF Receive, Advances, ShmTypeOK
  <2>3. CASE Drop(e)
    BY <2>3 DEF Drop, Advances, ShmTypeOK
  <2>4. CASE UNCHANGED <<buffer, published>>
    BY <2>4 DEF Advances
  <2> QED
    BY <1>1, <2>1, <2>2, <2>3, <2>4
    DEF EndNext, Open, OpenFails, SendRefused, SendFails, Sleep, ReceiveFails,
        ReceiveRefused,
        CancelReceive, Close
<1>2. CASE UNCHANGED shmVars
  BY <1>2 DEF shmVars, Advances
<1> QED
  BY <1>1, <1>2 DEF ShmNext

\* A step of the connection is one of the log the server end reads, or none.
LEMMA ServerLogStep ==
  ShmTypeOK /\ [ShmNext]_shmVars => [ToServer!LogNext]_(ToServer!logVars)
<1> SUFFICES ASSUME ShmTypeOK, [ShmNext]_shmVars
             PROVE  [ToServer!LogNext]_(ToServer!logVars)
  OBVIOUS
<1>1. "server" \in Ends
  BY DEF Ends
<1>2. /\ Len(buffer["server"]) \in Nat /\ published["server"] \in Nat
      /\ BufferSize \in Nat
  BY <1>1, EndTypes, ShmAssumption
<1>3. Advances("server")
  BY <1>1, StepAdvances
<1> DEFINE n == published["server"]
           l == Len(buffer["server"])
<1>4. CASE /\ n' = n + 1
           /\ \/ l < BufferSize /\ l' = l + 1
              \/ l = BufferSize /\ l' = BufferSize
  <2> SUFFICES ToServer!Publish
    BY DEF ToServer!LogNext
  <2>1. CASE l < BufferSize /\ l' = l + 1
    <3>1. n - (n - l + 1) + 1 < BufferSize /\ n' - l' + 1 = n - l + 1
      <4>1. n \in Nat /\ l \in Nat /\ n' = n + 1 /\ l' = l + 1 /\ l < BufferSize
        BY <1>2, <1>4, <2>1
      <4> HIDE DEF n, l
      <4> QED
        BY <1>2, <4>1
    <3> QED
      BY <1>4, <3>1 DEF ToServer!Publish
  <2>2. CASE l = BufferSize /\ l' = BufferSize
    <3>1. ~(n - (n - l + 1) + 1 < BufferSize) /\ n' - l' + 1 = (n - l + 1) + 1
      BY <1>2, <1>4, <2>2
    <3> QED
      BY <1>4, <3>1 DEF ToServer!Publish
  <2> QED
    BY <1>4, <2>1, <2>2
<1>5. CASE n' = n /\ l > 0 /\ l' = l - 1
  <2> SUFFICES ToServer!Read
    BY DEF ToServer!LogNext
  <2>1. n - l + 1 <= n /\ n' - l' + 1 = (n - l + 1) + 1
    BY <1>2, <1>5
  <2> QED
    BY <1>5, <2>1 DEF ToServer!Read
<1>6. CASE n' = n /\ l' = 0
  <2> SUFFICES ToServer!Leave
    BY DEF ToServer!LogNext
  <2>1. n' - l' + 1 = n + 1
    BY <1>2, <1>6
  <2> QED
    BY <1>6, <2>1 DEF ToServer!Leave
<1>7. CASE n' = n /\ buffer'["server"] = buffer["server"]
  BY <1>7 DEF ToServer!logVars
<1> QED
  BY <1>3, <1>4, <1>5, <1>6, <1>7 DEF Advances

\* The frames the server end can get are those of a log whose reader skips the
\* oldest unread frame exactly when BufferSize are unread.
THEOREM ServerReadsLog == ShmSpec => ToServerImplementsLog
<1>1. ShmInit => ToServer!LogInit
  BY DEF ShmInit, ToServer!LogInit, Ends
<1> QED
  BY <1>1, ServerLogStep, ShmTypeCorrect, PTL
  DEF ShmSpec, ToServerImplementsLog, ToServer!LogSpec

\* The same for the client end.
LEMMA ClientLogStep ==
  ShmTypeOK /\ [ShmNext]_shmVars => [ToClient!LogNext]_(ToClient!logVars)
<1> SUFFICES ASSUME ShmTypeOK, [ShmNext]_shmVars
             PROVE  [ToClient!LogNext]_(ToClient!logVars)
  OBVIOUS
<1>1. "client" \in Ends
  BY DEF Ends
<1>2. /\ Len(buffer["client"]) \in Nat /\ published["client"] \in Nat
      /\ BufferSize \in Nat
  BY <1>1, EndTypes, ShmAssumption
<1>3. Advances("client")
  BY <1>1, StepAdvances
<1> DEFINE n == published["client"]
           l == Len(buffer["client"])
<1>4. CASE /\ n' = n + 1
           /\ \/ l < BufferSize /\ l' = l + 1
              \/ l = BufferSize /\ l' = BufferSize
  <2> SUFFICES ToClient!Publish
    BY DEF ToClient!LogNext
  <2>1. CASE l < BufferSize /\ l' = l + 1
    <3>1. n - (n - l + 1) + 1 < BufferSize /\ n' - l' + 1 = n - l + 1
      <4>1. n \in Nat /\ l \in Nat /\ n' = n + 1 /\ l' = l + 1 /\ l < BufferSize
        BY <1>2, <1>4, <2>1
      <4> HIDE DEF n, l
      <4> QED
        BY <1>2, <4>1
    <3> QED
      BY <1>4, <3>1 DEF ToClient!Publish
  <2>2. CASE l = BufferSize /\ l' = BufferSize
    <3>1. ~(n - (n - l + 1) + 1 < BufferSize) /\ n' - l' + 1 = (n - l + 1) + 1
      BY <1>2, <1>4, <2>2
    <3> QED
      BY <1>4, <3>1 DEF ToClient!Publish
  <2> QED
    BY <1>4, <2>1, <2>2
<1>5. CASE n' = n /\ l > 0 /\ l' = l - 1
  <2> SUFFICES ToClient!Read
    BY DEF ToClient!LogNext
  <2>1. n - l + 1 <= n /\ n' - l' + 1 = (n - l + 1) + 1
    BY <1>2, <1>5
  <2> QED
    BY <1>5, <2>1 DEF ToClient!Read
<1>6. CASE n' = n /\ l' = 0
  <2> SUFFICES ToClient!Leave
    BY DEF ToClient!LogNext
  <2>1. n' - l' + 1 = n + 1
    BY <1>2, <1>6
  <2> QED
    BY <1>6, <2>1 DEF ToClient!Leave
<1>7. CASE n' = n /\ buffer'["client"] = buffer["client"]
  BY <1>7 DEF ToClient!logVars
<1> QED
  BY <1>3, <1>4, <1>5, <1>6, <1>7 DEF Advances

\* The frames the client end can get are those of such a log as well.
THEOREM ClientReadsLog == ShmSpec => ToClientImplementsLog
<1>1. ShmInit => ToClient!LogInit
  BY DEF ShmInit, ToClient!LogInit, Ends
<1> QED
  BY <1>1, ClientLogStep, ShmTypeCorrect, PTL
  DEF ShmSpec, ToClientImplementsLog, ToClient!LogSpec

\* Both directions of a connection implement the log at once, whatever the two
\* ends open, send, receive, close, drop or abandon.
THEOREM ConnectionIsTwoLogs == ShmSpec => ImplementsLog
BY ServerReadsLog, ClientReadsLog DEF ImplementsLog
=============================================================================
