------------------------------ MODULE FrameProofs ------------------------------
(***************************************************************************)
(* The reading end of a stream without separators stays in step with the   *)
(* writing end (FrameStream), for every size of header, payload bound and  *)
(* window, and however the bytes are split over polls.                     *)
(*                                                                         *)
(* The argument follows the cells from the writer to the reader.  What the *)
(* reader holds of its present call, what the stream holds, and what the   *)
(* writer still has to write, in this order, are a Run: cells of the       *)
(* frames as written, each frame's one after the other, from the place in  *)
(* frame Len(received) + 1 that the reader has come to.  A step at either  *)
(* end moves the borders between the three parts, takes cells from the     *)
(* front, adds a frame's cells at the back or, when the connection ends,   *)
(* cuts the run off.  A refused header leaves the run, and from then on    *)
(* only the receive that refused it matters: no caller that goes by        *)
(* is_retryable calls again after it.                                      *)
(*                                                                         *)
(* The second part shows that this stream of pieces implements one of      *)
(* whole messages (MessageStream).  Messages on the way are read off the   *)
(* run: its part that still arrives whatever the writer does ends in a     *)
(* cell, and that cell tells the newest frame of which nothing is missing  *)
(* (LastWhole, which only grows along a run).  While the connection is up  *)
(* these are the frames whose send returned Ok; a connection that ends     *)
(* cuts the run off, and with it the newest of them.                       *)
(***************************************************************************)
EXTENDS FrameStream, Integers, SequenceTheorems, NaturalsInduction,
        WellFoundedInduction, TLAPS

\* A cell of a frame, and the cells a frame makes.
Cell == [of : Frame, at : Nat \ {0}]
Size(f) == HeaderCells + f.len

\* Cells as they were written, one frame after the other.
Run(q, w) ==
  /\ \A i \in 1..Len(q) : /\ q[i].of.id \in 1..Len(w)
                          /\ q[i].of = w[q[i].of.id]
                          /\ q[i].at \in 1..Size(q[i].of)
  /\ \A i, j \in 1..Len(q) :
       i <= j /\ q[i].at + (j - i) <= Size(q[i].of) =>
         q[j].of = q[i].of /\ q[j].at = q[i].at + (j - i)
  /\ \A i \in 1..(Len(q) - 1) :
       q[i].at = Size(q[i].of) =>
         q[i + 1].of.id = q[i].of.id + 1 /\ q[i + 1].at = 1

\* They begin in frame n + 1, of which o cells are gone.
StartsAt(q, w, n, o) ==
  q # <<>> => n < Len(w) /\ q[1].of = w[n + 1] /\ q[1].at = o + 1

\* They end with the last frame.
Finishes(q, w, n, o) ==
  IF q = <<>> THEN n = Len(w) /\ o = 0
              ELSE q[Len(q)].of = w[Len(w)] /\ q[Len(q)].at = Size(w[Len(w)])

\* What the reader has not yet handed over: taken, on its way, and, while the
\* connection is up, still to be written.
Unwritten == IF ended = "no" THEN left ELSE <<>>
Ahead == have \o wire \o Unwritten
Offset == IF head = NoHeader THEN 0 ELSE HeaderCells

Code == {"Ok", "FramingError", "InvalidMagic", "UnsupportedVersion"}
Outcome == [code : Code, frame : Frame \cup {NoFrame}]

StreamTypes ==
  /\ wire \in Seq(Cell) /\ left \in Seq(Cell) /\ have \in Seq(Cell)
  /\ head \in [of : Frame \cup {NoFrame}, len : Nat]
  /\ written \in Seq(Frame)
  /\ received \in Seq(Outcome)
  /\ torn \subseteq {"dropped", "refused"}
  /\ ended \in {"no", "writer", "reader", "network"}

Numbered == \A i \in 1..Len(written) : written[i].id = i /\ Writable(written[i])

\* The i-th receive returned the i-th frame, and no frame of this version was
\* refused.
InPlace(i) ==
  /\ i <= Len(written)
  /\ received[i].frame = written[i]
  /\ received[i].code # "Ok" => written[i].origin # "own"

GoesOn(code) == code = "Ok" \/ Retryable(code)

\* A reader that stops where is_retryable says so.
Story ==
  \A i \in 1..Len(received) :
    (\A j \in 1..(i - 1) : GoesOn(received[j].code)) => InPlace(i)

InStep ==
  /\ \A i \in 1..Len(received) : InPlace(i)
  /\ Run(Ahead, written)
  /\ StartsAt(Ahead, written, Len(received), Offset)
  /\ ended = "no" => Finishes(Ahead, written, Len(received), Offset)
  /\ head # NoHeader => /\ Len(received) < Len(written)
                        /\ head.of = written[Len(received) + 1]
                        /\ head.len = head.of.len /\ head.len > 0

StreamInv ==
  /\ StreamTypes /\ Numbered
  /\ "dropped" \notin torn =>
       /\ Story
       /\ "refused" \notin torn => InStep
       /\ "refused" \in torn =>
            \E i \in 1..Len(received) : ~GoesOn(received[i].code)

-----------------------------------------------------------------------------
(* Sequences                                                               *)

\* A sequence cut in two.
LEMMA TwoParts ==
  ASSUME NEW S, NEW c \in Seq(S), NEW k \in 0..Len(c)
  PROVE  /\ SubSeq(c, 1, k) \in Seq(S) /\ Len(SubSeq(c, 1, k)) = k
         /\ \A i \in 1..k : SubSeq(c, 1, k)[i] = c[i]
         /\ SubSeq(c, k + 1, Len(c)) \in Seq(S)
         /\ SubSeq(c, 1, k) \o SubSeq(c, k + 1, Len(c)) = c
<1>1. Len(c) \in Nat /\ \A i \in 1..Len(c) : c[i] \in S
  BY LenProperties, ElementOfSeq
<1>2. k \in Nat /\ k <= Len(c)
  BY <1>1
<1>3. \A i \in 1..k : c[i] \in S
  BY <1>1, <1>2
<1>4. /\ SubSeq(c, 1, k) \in Seq(S)
      /\ Len(SubSeq(c, 1, k)) = IF 1 <= k THEN k - 1 + 1 ELSE 0
      /\ \A i \in 1..(k - 1 + 1) : SubSeq(c, 1, k)[i] = c[1 + i - 1]
  BY <1>2, <1>3, SubSeqProperties
<1>5. \A i \in 1..k : SubSeq(c, 1, k)[i] = c[i]
  <2> SUFFICES ASSUME NEW i \in 1..k PROVE SubSeq(c, 1, k)[i] = c[i]
    OBVIOUS
  <2>1. i \in 1..(k - 1 + 1) /\ 1 + i - 1 = i
    BY <1>2
  <2> QED
    BY <1>4, <2>1
<1>6. Len(SubSeq(c, 1, k)) = k
  <2> PICK n : n = Len(SubSeq(c, 1, k))
    OBVIOUS
  <2>1. n = IF 1 <= k THEN k - 1 + 1 ELSE 0
    BY <1>4
  <2>2. n = k
    BY <1>2, <2>1
  <2> QED
    BY <2>2
<1>7. \A i \in (k + 1)..Len(c) : c[i] \in S
  BY <1>1, <1>2
<1>8. SubSeq(c, k + 1, Len(c)) \in Seq(S)
  BY <1>1, <1>2, <1>7, SubSeqProperties
<1>9. SubSeq(c, 1, k) \o SubSeq(c, k + 1, Len(c)) = c
  <2>1. /\ 1 \in 1..(Len(c) + 1) /\ k \in (1 - 1)..Len(c)
        /\ Len(c) \in k..Len(c)
    BY <1>1, <1>2
  <2>2. SubSeq(c, 1, k) \o SubSeq(c, k + 1, Len(c)) = SubSeq(c, 1, Len(c))
    BY <2>1, ConcatAdjacentSubSeq
  <2> QED
    BY <2>2, SubSeqFull
<1> QED
  BY <1>4, <1>5, <1>6, <1>8, <1>9

\* Moving the border between the stream and what is still to be written.
LEMMA WritingMoves ==
  ASSUME NEW a \in Seq(Cell), NEW b \in Seq(Cell), NEW c \in Seq(Cell),
         NEW k \in 0..Len(c)
  PROVE  (a \o (b \o SubSeq(c, 1, k))) \o SubSeq(c, k + 1, Len(c)) = (a \o b) \o c
<1> DEFINE x == SubSeq(c, 1, k)
           y == SubSeq(c, k + 1, Len(c))
<1>1. x \in Seq(Cell) /\ y \in Seq(Cell) /\ x \o y = c
  BY TwoParts
<1> HIDE DEF x, y
<1>t. x \in Seq(Cell) /\ y \in Seq(Cell)
  BY <1>1
<1>2. b \o x \in Seq(Cell) /\ a \o b \in Seq(Cell)
  BY <1>1, ConcatProperties
<1>3. a \o (b \o x) = (a \o b) \o x
  BY <1>t
<1>4. ((a \o b) \o x) \o y = (a \o b) \o (x \o y)
  <2> DEFINE d == a \o b
  <2>1. d \in Seq(Cell)
    BY <1>2
  <2> HIDE DEF d
  <2>2. (d \o x) \o y = d \o (x \o y)
    BY <1>t, <2>1
  <2> QED
    BY <2>2 DEF d
<1> QED
  BY <1>1, <1>3, <1>4 DEF x, y

\* Moving the border between what the reader has and the stream.
LEMMA ReadingMoves ==
  ASSUME NEW a \in Seq(Cell), NEW b \in Seq(Cell), NEW c \in Seq(Cell),
         NEW k \in 0..Len(b)
  PROVE  /\ a \o SubSeq(b, 1, k) \in Seq(Cell)
         /\ Len(a \o SubSeq(b, 1, k)) = Len(a) + k
         /\ SubSeq(b, k + 1, Len(b)) \in Seq(Cell)
         /\ ((a \o SubSeq(b, 1, k)) \o SubSeq(b, k + 1, Len(b))) \o c = (a \o b) \o c
<1> DEFINE x == SubSeq(b, 1, k)
           y == SubSeq(b, k + 1, Len(b))
<1>1. x \in Seq(Cell) /\ y \in Seq(Cell) /\ x \o y = b /\ Len(x) = k
  BY TwoParts
<1> HIDE DEF x, y
<1>t. x \in Seq(Cell) /\ y \in Seq(Cell)
  BY <1>1
<1>2. a \o x \in Seq(Cell)
  BY <1>1, ConcatProperties
<1>3. Len(a \o x) = Len(a) + k
  <2>1. Len(a \o x) = Len(a) + Len(x)
    BY <1>1, ConcatProperties
  <2> QED
    BY <1>1, <2>1
<1>4. (a \o x) \o y = a \o (x \o y)
  BY <1>t
<1> QED
  BY <1>1, <1>2, <1>3, <1>4 DEF x, y

-----------------------------------------------------------------------------
(* Frames and their cells                                                  *)

\* The sizes of a frame.
LEMMA FrameFacts ==
  ASSUME NEW f \in Frame
  PROVE  /\ f.id \in Nat \ {0} /\ f.len \in Nat /\ f.len \in Length
         /\ Size(f) \in Nat /\ HeaderCells \in Nat \ {0}
         /\ Size(f) = HeaderCells + f.len
         /\ f # NoFrame
<1>1. f.id \in 1..MaxFrames /\ f.len \in Length
  BY DEF Frame
<1>2. HeaderCells \in Nat \ {0} /\ MaxFrames \in Nat /\ Length \subseteq Nat
  BY StreamAssumption
<1>4. f.id \in Nat \ {0} /\ f.len \in Nat
  <2>1. \A n \in 1..MaxFrames : n \in Nat \ {0}
    BY <1>2
  <2> QED
    BY <1>1, <1>2, <2>1
<1>3. NoFrame.id = 0
  BY DEF NoFrame
<1> QED
  BY <1>1, <1>2, <1>3, <1>4 DEF Size

\* The cells of a frame are numbered from 1 to its size.
LEMMA CellsOfFrame ==
  ASSUME NEW f \in Frame
  PROVE  /\ Cells(f) \in Seq(Cell) /\ Len(Cells(f)) = Size(f)
         /\ \A i \in 1..Size(f) : Cells(f)[i] = [of |-> f, at |-> i]
<1> DEFINE n == Size(f)
<1>1. n \in Nat
  BY FrameFacts
<1>2. Cells(f) = [i \in 1..n |-> [of |-> f, at |-> i]]
  BY DEF Cells, Size
<1> HIDE DEF n
<1>3. \A i \in 1..n : [of |-> f, at |-> i] \in Cell
  BY <1>1 DEF Cell
<1>4. Cells(f) \in [1..n -> Cell]
  BY <1>2, <1>3
<1>5. Cells(f) \in Seq(Cell)
  BY <1>1, <1>4
<1>6. Len(Cells(f)) = n
  BY <1>1, <1>4, <1>5
<1> QED
  BY <1>2, <1>5, <1>6 DEF n

\* A cell is a place in a frame.
LEMMA CellFields ==
  ASSUME NEW c \in Cell
  PROVE  c.of \in Frame /\ c.at \in Nat \ {0} /\ c = [of |-> c.of, at |-> c.at]
BY DEF Cell

-----------------------------------------------------------------------------
(* Runs                                                                    *)

\* A stretch of a run is a run.
LEMMA Stretch ==
  ASSUME NEW q \in Seq(Cell), NEW p \in Seq(Cell), NEW m \in Nat, NEW w,
         m + Len(p) <= Len(q), \A i \in 1..Len(p) : p[i] = q[m + i],
         Run(q, w)
  PROVE  Run(p, w)
<1>1. Len(p) \in Nat /\ Len(q) \in Nat
  BY LenProperties
<1>2. ASSUME NEW i \in 1..Len(p) PROVE m + i \in 1..Len(q)
  BY <1>1
<1>3. ASSUME NEW i \in 1..Len(p)
      PROVE  /\ p[i].of.id \in 1..Len(w)
             /\ p[i].of = w[p[i].of.id]
             /\ p[i].at \in 1..Size(p[i].of)
  <2>1. m + i \in 1..Len(q) /\ p[i] = q[m + i]
    BY <1>2
  <2>2. \A l \in 1..Len(q) : /\ q[l].of.id \in 1..Len(w)
                              /\ q[l].of = w[q[l].of.id]
                              /\ q[l].at \in 1..Size(q[l].of)
    BY DEF Run
  <2> QED
    BY <2>1, <2>2
<1>4. ASSUME NEW i \in 1..Len(p), NEW j \in 1..Len(p),
             i <= j, p[i].at + (j - i) <= Size(p[i].of)
      PROVE  p[j].of = p[i].of /\ p[j].at = p[i].at + (j - i)
  <2>1. m + i <= m + j /\ (m + j) - (m + i) = j - i
    BY <1>1, <1>4
  <2>2. m + i \in 1..Len(q) /\ m + j \in 1..Len(q)
    BY <1>2
  <2>3. p[i] = q[m + i] /\ p[j] = q[m + j]
    OBVIOUS
  <2>4. q[m + i].at + ((m + j) - (m + i)) <= Size(q[m + i].of)
    BY <1>4, <2>1, <2>3
  <2>5. /\ q[m + j].of = q[m + i].of
        /\ q[m + j].at = q[m + i].at + ((m + j) - (m + i))
    BY <2>1, <2>2, <2>4 DEF Run
  <2> QED
    BY <2>1, <2>3, <2>5
<1>5. ASSUME NEW i \in 1..(Len(p) - 1), p[i].at = Size(p[i].of)
      PROVE  p[i + 1].of.id = p[i].of.id + 1 /\ p[i + 1].at = 1
  <2>1. /\ i \in 1..Len(p) /\ i + 1 \in 1..Len(p)
        /\ m + i \in 1..(Len(q) - 1) /\ m + (i + 1) = (m + i) + 1
    BY <1>1
  <2>2. p[i] = q[m + i] /\ p[i + 1] = q[(m + i) + 1]
    BY <2>1
  <2> QED
    BY <1>5, <2>1, <2>2 DEF Run
<1> QED
  BY <1>3, <1>4, <1>5 DEF Run

\* A run cut short.
LEMMA CutShort ==
  ASSUME NEW a \in Seq(Cell), NEW b \in Seq(Cell), NEW c \in Seq(Cell),
         NEW k \in 0..Len(b), NEW w, NEW n, NEW o,
         Run((a \o b) \o c, w), StartsAt((a \o b) \o c, w, n, o)
  PROVE  /\ Run((a \o SubSeq(b, 1, k)) \o <<>>, w)
         /\ StartsAt((a \o SubSeq(b, 1, k)) \o <<>>, w, n, o)
<1> DEFINE x == SubSeq(b, 1, k)
           y == SubSeq(b, k + 1, Len(b))
<1>1. x \in Seq(Cell) /\ y \in Seq(Cell) /\ x \o y = b
  BY TwoParts
<1> HIDE DEF x, y
<1> DEFINE p == a \o x
           d == y \o c
           q == (a \o b) \o c
<1>2. p \in Seq(Cell) /\ d \in Seq(Cell) /\ p \o <<>> = p
  BY <1>1
<1>3. q = p \o d
  <2>2. a \o (x \o y) = (a \o x) \o y
    <3>1. x \in Seq(Cell) /\ y \in Seq(Cell)
      BY <1>1
    <3> HIDE DEF p, d, q
    <3> QED
      BY <3>1
  <2>3. ((a \o x) \o y) \o c = (a \o x) \o (y \o c)
    <3>1. ASSUME NEW z \in Seq(Cell) PROVE (z \o y) \o c = z \o (y \o c)
      BY <1>1
    <3>2. a \o x \in Seq(Cell)
      BY <1>2
    <3> HIDE DEF p, d, q
    <3> QED
      BY <3>1, <3>2, Zenon
  <2> QED
    BY <1>1, <2>2, <2>3
<1> HIDE DEF p, d, q
<1>4. q \in Seq(Cell) /\ Len(q) = Len(p) + Len(d) /\ Len(p) \in Nat /\ Len(d) \in Nat
  BY <1>2, <1>3
<1>5. \A i \in 1..Len(p) : p[i] = q[0 + i]
  <2>1. \A i \in 1..Len(p) : (p \o d)[i] = p[i]
    BY <1>2
  <2> QED
    BY <1>3, <1>4, <2>1
<1>6. Run(p, w)
  <2>1. 0 + Len(p) <= Len(q) /\ 0 \in Nat
    BY <1>4
  <2>2. Run(q, w)
    BY DEF q
  <2> QED
    BY <1>2, <1>4, <1>5, <2>1, <2>2, Stretch
<1>7. StartsAt(p, w, n, o)
  <2> SUFFICES ASSUME p # <<>>
               PROVE  n < Len(w) /\ p[1].of = w[n + 1] /\ p[1].at = o + 1
    BY DEF StartsAt
  <2>1. 1 \in 1..Len(p)
    BY <1>2
  <2>2. p[1] = q[1] /\ q # <<>>
    BY <1>4, <1>5, <2>1
  <2> QED
    BY <2>2 DEF StartsAt, q
<1> QED
  BY <1>2, <1>6, <1>7 DEF p, x

\* Without the cells a, which take it from o to p in frame g, the reader is at
\* the rest b of the run: still in that frame, or before the next.
TakenFrom(a, b, w, n, o, g, p) ==
  /\ n < Len(w) /\ Run(b, w)
  /\ \A i \in 1..Len(a) : a[i].of = g /\ a[i].at = o + i
  /\ p < Size(g) =>
       /\ StartsAt(b, w, n, p)
       /\ Finishes(a \o b, w, n, o) => Finishes(b, w, n, p)
  /\ p = Size(g) =>
       /\ StartsAt(b, w, n + 1, 0)
       /\ Finishes(a \o b, w, n, o) => Finishes(b, w, n + 1, 0)

\* The reader takes cells that all belong to the frame it has come to.
LEMMA TakeCells ==
  ASSUME NEW w \in Seq(Frame), \A i \in 1..Len(w) : w[i].id = i,
         NEW a \in Seq(Cell), NEW b \in Seq(Cell), NEW n \in Nat, NEW o \in Nat,
         a # <<>>, Run(a \o b, w), StartsAt(a \o b, w, n, o),
         NEW g, g = w[n + 1], NEW p, p = o + Len(a), p <= Size(g)
  PROVE  TakenFrom(a, b, w, n, o, g, p)
<1> DEFINE q == a \o b
           l == Len(a)
           f == w[n + 1]
<1>1. /\ q \in Seq(Cell) /\ Len(q) = l + Len(b)
      /\ \A i \in 1..l : q[i] = a[i]
      /\ \A i \in 1..Len(b) : b[i] = q[l + i]
  <2>1. q \in Seq(Cell) /\ Len(q) = l + Len(b)
    OBVIOUS
  <2>2. \A i \in 1..l : q[i] = a[i]
    OBVIOUS
  <2>3. \A i \in 1..Len(b) : b[i] = q[l + i]
    OBVIOUS
  <2> QED
    BY <2>1, <2>2, <2>3
<1>2. l \in Nat \ {0} /\ Len(b) \in Nat /\ Len(w) \in Nat
  OBVIOUS
<1>3. q # <<>>
  OBVIOUS
<1>4. n < Len(w) /\ q[1].of = f /\ q[1].at = o + 1
  BY <1>3 DEF StartsAt
<1>5. n + 1 \in 1..Len(w) /\ f \in Frame /\ f.id = n + 1
  BY <1>2, <1>4
<1>6. Size(f) \in Nat /\ o + l <= Size(f)
  BY <1>5, FrameFacts
<1>7. Run(q, w) /\ f = g /\ p = o + l
  OBVIOUS
<1> HIDE DEF q, l, f
<1>8. ASSUME NEW i \in 1..Len(q), o + i <= Size(f)
      PROVE  q[i].of = f /\ q[i].at = o + i
  <2>1. 1 \in 1..Len(q) /\ 1 <= i
    BY <1>1, <1>2
  <2>2. q[1].at + (i - 1) = o + i
    BY <1>4, <1>8
  <2>3. q[1].at + (i - 1) <= Size(q[1].of)
    BY <1>4, <1>8, <2>2
  <2>4. q[i].of = q[1].of /\ q[i].at = q[1].at + (i - 1)
    BY <1>7, <2>1, <2>3 DEF Run
  <2> QED
    BY <1>4, <2>2, <2>4
<1>9. \A i \in 1..l : a[i].of = f /\ a[i].at = o + i
  <2> SUFFICES ASSUME NEW i \in 1..l PROVE a[i].of = f /\ a[i].at = o + i
    OBVIOUS
  <2>1. i \in 1..Len(q) /\ o + i <= Size(f)
    BY <1>1, <1>2, <1>6
  <2> QED
    BY <1>1, <1>8, <2>1
<1>10. Run(b, w)
  <2>1. l \in Nat /\ l + Len(b) <= Len(q)
    BY <1>1, <1>2
  <2> QED
    BY <1>1, <1>7, <2>1, Stretch
<1>11. ASSUME b # <<>> PROVE 1 \in 1..Len(b) /\ l + 1 \in 1..Len(q) /\ b[1] = q[l + 1]
  <2>1. 1 \in 1..Len(b)
    BY <1>11
  <2> QED
    BY <1>1, <1>2, <2>1
<1>12. ASSUME b # <<>> PROVE b[Len(b)] = q[Len(q)]
  <2>1. Len(b) \in 1..Len(b)
    BY <1>12
  <2> QED
    BY <1>1, <2>1
<1>13. l \in 1..Len(q) /\ q[l].of = f /\ q[l].at = o + l
  BY <1>1, <1>2, <1>6, <1>8
<1>14. b = <<>> => Len(q) = l
  <2>1. b = <<>> => Len(b) = 0
    OBVIOUS
  <2> QED
    BY <1>1, <1>2, <2>1
<1>15. ASSUME o + l < Size(f)
       PROVE  /\ StartsAt(b, w, n, o + l)
              /\ Finishes(q, w, n, o) => Finishes(b, w, n, o + l)
  <2>1. ASSUME b # <<>> PROVE b[1].of = f /\ b[1].at = (o + l) + 1
    <3>1. o + (l + 1) <= Size(f) /\ o + (l + 1) = (o + l) + 1
      BY <1>2, <1>6, <1>15
    <3> QED
      BY <1>8, <1>11, <2>1, <3>1
  <2>2. StartsAt(b, w, n, o + l)
    BY <1>4, <2>1 DEF StartsAt, f
  <2>3. ASSUME Finishes(q, w, n, o) PROVE Finishes(b, w, n, o + l)
    <3>1. q[Len(q)].of = w[Len(w)] /\ q[Len(q)].at = Size(w[Len(w)])
      BY <1>3, <2>3 DEF Finishes
    <3>2. b # <<>>
      <4> SUFFICES ASSUME b = <<>> PROVE FALSE
        OBVIOUS
      <4>1. f = w[Len(w)] /\ o + l = Size(f)
        BY <1>13, <1>14, <3>1
      <4> QED
        BY <1>2, <1>6, <1>15, <4>1
    <3> QED
      BY <1>12, <3>1, <3>2 DEF Finishes
  <2> QED
    BY <2>2, <2>3
<1>16. ASSUME o + l = Size(f)
       PROVE  /\ StartsAt(b, w, n + 1, 0)
              /\ Finishes(q, w, n, o) => Finishes(b, w, n + 1, 0)
  <2>1. ASSUME b # <<>>
        PROVE  n + 1 < Len(w) /\ b[1].of = w[(n + 1) + 1] /\ b[1].at = 0 + 1
    <3>1. l \in 1..(Len(q) - 1) /\ q[l].at = Size(q[l].of)
      BY <1>1, <1>2, <1>11, <1>13, <1>16, <2>1
    <3>2. q[l + 1].of.id = q[l].of.id + 1 /\ q[l + 1].at = 1
      BY <1>7, <3>1 DEF Run
    <3>3. q[l + 1].of.id \in 1..Len(w) /\ q[l + 1].of = w[q[l + 1].of.id]
      BY <1>7, <1>11, <2>1 DEF Run
    <3>4. q[l + 1].of.id = (n + 1) + 1
      BY <1>5, <1>13, <3>2
    <3>5. n + 1 < Len(w)
      BY <1>2, <3>3, <3>4
    <3> QED
      BY <1>11, <2>1, <3>2, <3>3, <3>4, <3>5
  <2>2. StartsAt(b, w, n + 1, 0)
    BY <2>1 DEF StartsAt
  <2>3. ASSUME Finishes(q, w, n, o) PROVE Finishes(b, w, n + 1, 0)
    <3>1. q[Len(q)].of = w[Len(w)] /\ q[Len(q)].at = Size(w[Len(w)])
      BY <1>3, <2>3 DEF Finishes
    <3>2. CASE b = <<>>
      <4>1. f = w[Len(w)]
        BY <1>13, <1>14, <3>1, <3>2
      <4>2. Len(w) \in 1..Len(w)
        BY <1>2, <1>5
      <4>3. f.id = Len(w)
        BY <4>1, <4>2
      <4> QED
        BY <1>5, <3>2, <4>3 DEF Finishes
    <3>3. CASE b # <<>>
      BY <1>12, <3>1, <3>3 DEF Finishes
    <3> QED
      BY <3>2, <3>3
  <2> QED
    BY <2>2, <2>3
<1> QED
  <2>1. \A i \in 1..l : a[i].of = g /\ a[i].at = o + i
    BY <1>7, <1>9
  <2>2. p < Size(g) =>
          /\ StartsAt(b, w, n, p)
          /\ Finishes(q, w, n, o) => Finishes(b, w, n, p)
    BY <1>7, <1>15
  <2>3. p = Size(g) =>
          /\ StartsAt(b, w, n + 1, 0)
          /\ Finishes(q, w, n, o) => Finishes(b, w, n + 1, 0)
    BY <1>7, <1>16
  <2> QED
    BY <1>4, <1>10, <2>1, <2>2, <2>3 DEF q, l, TakenFrom

\* The writer begins a frame.
LEMMA AddFrame ==
  ASSUME NEW w \in Seq(Frame), \A i \in 1..Len(w) : w[i].id = i,
         NEW q \in Seq(Cell), NEW n \in Nat, NEW o \in Nat,
         NEW f \in Frame, f.id = Len(w) + 1,
         Run(q, w), StartsAt(q, w, n, o), Finishes(q, w, n, o)
  PROVE  /\ Run(q \o Cells(f), Append(w, f))
         /\ StartsAt(q \o Cells(f), Append(w, f), n, o)
         /\ Finishes(q \o Cells(f), Append(w, f), n, o)
<1> DEFINE c == Cells(f)
           r == q \o c
           v == Append(w, f)
           L == Len(q)
           k == Len(w)
           z == Size(f)
<1>1. /\ c \in Seq(Cell) /\ Len(c) = z
      /\ \A i \in 1..z : c[i].of = f /\ c[i].at = i
  <2>1. \A i \in 1..Size(f) : Cells(f)[i] = [of |-> f, at |-> i]
    BY CellsOfFrame
  <2>2. ASSUME NEW i \in 1..Size(f) PROVE Cells(f)[i].of = f /\ Cells(f)[i].at = i
    <3> HIDE DEF c, r, v, L, k, z
    <3>1. Cells(f)[i] = [of |-> f, at |-> i]
      BY <2>1
    <3> QED
      BY <3>1
  <2> QED
    BY <2>2, CellsOfFrame
<1>2. z \in Nat \ {0}
  BY FrameFacts
<1> HIDE DEF c, z
<1>3. L \in Nat /\ k \in Nat
  OBVIOUS
<1>4. /\ r \in Seq(Cell) /\ Len(r) = L + Len(c)
      /\ \A i \in 1..L : r[i] = q[i]
      /\ \A i \in 1..Len(c) : r[L + i] = c[i]
  <2>c. c \in Seq(Cell)
    BY <1>1
  <2>1. r \in Seq(Cell) /\ Len(r) = L + Len(c)
    BY <2>c
  <2>2. \A i \in 1..L : r[i] = q[i]
    BY <2>c
  <2>3. \A i \in 1..Len(c) : r[L + i] = c[i]
    BY <2>c
  <2> QED
    BY <2>1, <2>2, <2>3
<1>5. /\ Len(v) = k + 1 /\ v[k + 1] = f
      /\ \A i \in 1..k : v[i] = w[i]
  <2>1. Len(v) = k + 1
    OBVIOUS
  <2>2. v[k + 1] = f
    OBVIOUS
  <2>3. \A i \in 1..k : v[i] = w[i]
    OBVIOUS
  <2> QED
    BY <2>1, <2>2, <2>3
<1>6. q = <<>> => L = 0
  OBVIOUS
<1>7. q # <<>> => L \in 1..L /\ 1 \in 1..L
  OBVIOUS
<1>n. f.id = k + 1 /\ \A i \in 1..k : w[i].id = i
  OBVIOUS
<1> HIDE DEF r, v, L, k
<1>8. Len(r) = L + z /\ Len(r) \in Nat
  BY <1>1, <1>2, <1>3, <1>4
<1>9. ASSUME NEW i \in 1..Len(r), i > L
      PROVE  r[i].of = f /\ r[i].at = i - L
  <2>1. i - L \in 1..z /\ L + (i - L) = i
    BY <1>2, <1>3, <1>8, <1>9
  <2>2. r[L + (i - L)] = c[i - L]
    BY <1>1, <1>4, <2>1
  <2> QED
    BY <1>1, <2>1, <2>2
<1>10. ASSUME NEW i \in 1..Len(r), ~(i > L)
       PROVE  i \in 1..L /\ r[i] = q[i]
  BY <1>3, <1>4, <1>8, <1>10
<1>11. ASSUME q # <<>>
       PROVE  /\ q[L].of = w[k] /\ q[L].at = Size(q[L].of)
              /\ k \in 1..k /\ q[L].of.id = k
  <2>1. q[L].of = w[k] /\ q[L].at = Size(w[k])
    BY <1>11 DEF Finishes, L, k
  <2>2. q[L].of.id \in 1..k
    BY <1>7, <1>11 DEF Run, L, k
  <2>3. k \in 1..k
    BY <1>3, <2>2
  <2> QED
    BY <1>n, <2>1, <2>3
<1>12. ASSUME NEW i \in 1..Len(r)
       PROVE  /\ r[i].of.id \in 1..Len(v)
              /\ r[i].of = v[r[i].of.id]
              /\ r[i].at \in 1..Size(r[i].of)
  <2>1. CASE i > L
    <3>1. r[i].of = f /\ r[i].at = i - L
      BY <1>9, <2>1
    <3>2. i - L \in 1..z
      BY <1>2, <1>3, <1>8, <2>1
    <3>3. r[i].of.id = k + 1 /\ k + 1 \in 1..Len(v)
      BY <1>3, <1>5, <1>n, <3>1
    <3> QED
      BY <1>5, <3>1, <3>2, <3>3 DEF z
  <2>2. CASE ~(i > L)
    <3>1. i \in 1..L /\ r[i] = q[i]
      BY <1>10, <2>2
    <3>2. /\ q[i].of.id \in 1..k
          /\ q[i].of = w[q[i].of.id]
          /\ q[i].at \in 1..Size(q[i].of)
      BY <3>1 DEF Run, L, k
    <3>3. 1..k \subseteq 1..Len(v)
      BY <1>3, <1>5
    <3> QED
      BY <1>5, <3>1, <3>2, <3>3
  <2> QED
    BY <2>1, <2>2
<1>13. ASSUME NEW i \in 1..Len(r), NEW j \in 1..Len(r),
              i <= j, r[i].at + (j - i) <= Size(r[i].of)
       PROVE  r[j].of = r[i].of /\ r[j].at = r[i].at + (j - i)
  <2>1. CASE i > L
    <3>1. j > L
      BY <1>3, <1>8, <1>13, <2>1
    <3>2. /\ r[i].of = f /\ r[i].at = i - L
          /\ r[j].of = f /\ r[j].at = j - L
      BY <1>9, <2>1, <3>1
    <3> QED
      BY <1>3, <1>8, <3>2
  <2>2. CASE ~(i > L) /\ ~(j > L)
    <3>1. /\ i \in 1..L /\ r[i] = q[i]
          /\ j \in 1..L /\ r[j] = q[j]
      BY <1>10, <2>2
    <3> QED
      BY <1>13, <3>1 DEF Run, L
  <2>3. CASE ~(i > L) /\ j > L
    <3>1. i \in 1..L /\ r[i] = q[i]
      BY <1>10, <2>3
    <3>2. q # <<>> /\ L \in 1..L /\ i <= L
      BY <1>3, <1>6, <1>7, <3>1
    <3>3. q[i].at \in Nat /\ Size(q[i].of) \in Nat
      BY <3>1, CellFields, ElementOfSeq, FrameFacts DEF L
    <3>4. q[i].at + (j - i) <= Size(q[i].of)
      BY <1>13, <3>1
    <3>5. q[i].at + (L - i) <= Size(q[i].of)
      BY <1>3, <1>8, <2>3, <3>2, <3>3, <3>4
    <3>6. q[L].of = q[i].of /\ q[L].at = q[i].at + (L - i)
      BY <3>1, <3>2, <3>5 DEF Run, L
    <3>7. Size(q[i].of) = q[i].at + (L - i)
      BY <1>11, <3>2, <3>6
    <3> QED
      BY <1>3, <1>8, <2>3, <3>1, <3>3, <3>4, <3>7
  <2> QED
    BY <2>1, <2>2, <2>3
<1>14. ASSUME NEW i \in 1..(Len(r) - 1), r[i].at = Size(r[i].of)
       PROVE  r[i + 1].of.id = r[i].of.id + 1 /\ r[i + 1].at = 1
  <2>1. i \in 1..Len(r) /\ i + 1 \in 1..Len(r)
    BY <1>8
  <2>2. CASE i > L
    <3>1. i - L = z
      BY <1>9, <1>14, <2>1, <2>2 DEF z
    <3> QED
      BY <1>2, <1>3, <1>8, <3>1
  <2>3. CASE ~(i > L) /\ i # L
    <3>1. i \in 1..L /\ r[i] = q[i]
      BY <1>10, <2>1, <2>3
    <3>2. i \in 1..(L - 1) /\ ~(i + 1 > L)
      BY <1>3, <2>3, <3>1
    <3>3. r[i + 1] = q[i + 1]
      BY <1>10, <2>1, <3>2
    <3> QED
      BY <1>14, <3>1, <3>2, <3>3 DEF Run, L
  <2>4. CASE i = L
    <3>1. r[i] = q[i] /\ q # <<>>
      BY <1>3, <1>6, <1>10, <2>1, <2>4
    <3>2. r[i].of.id = k
      BY <1>11, <2>4, <3>1
    <3>3. i + 1 > L /\ (i + 1) - L = 1
      BY <1>3, <2>4
    <3>4. r[i + 1].of = f /\ r[i + 1].at = 1
      BY <1>9, <2>1, <3>3
    <3> QED
      BY <1>n, <3>2, <3>4
  <2> QED
    BY <2>2, <2>3, <2>4
<1>15. Run(r, v)
  BY <1>12, <1>13, <1>14 DEF Run
<1>16. StartsAt(r, v, n, o)
  <2>1. CASE q # <<>>
    <3>1. n < k /\ q[1].of = w[n + 1] /\ q[1].at = o + 1
      BY <2>1 DEF StartsAt, k
    <3>2. r[1] = q[1]
      BY <1>4, <1>7, <2>1
    <3>3. n < Len(v) /\ v[n + 1] = w[n + 1]
      BY <1>3, <1>5, <3>1
    <3> QED
      BY <3>1, <3>2, <3>3 DEF StartsAt
  <2>2. CASE q = <<>>
    <3>1. n = k /\ o = 0
      BY <2>2 DEF Finishes, k
    <3>2. 1 \in 1..Len(r) /\ 1 > L /\ 1 - L = 1
      BY <1>2, <1>6, <1>8, <2>2
    <3>3. r[1].of = f /\ r[1].at = 1
      BY <1>9, <3>2
    <3>4. n < Len(v) /\ v[n + 1] = f /\ 1 = o + 1
      BY <1>3, <1>5, <3>1
    <3> QED
      BY <3>3, <3>4 DEF StartsAt
  <2> QED
    BY <2>1, <2>2
<1>17. Finishes(r, v, n, o)
  <2>1. Len(r) \in 1..Len(r) /\ Len(r) > L /\ Len(r) - L = z
    BY <1>2, <1>3, <1>8
  <2>2. r[Len(r)].of = f /\ r[Len(r)].at = z
    BY <1>9, <2>1
  <2>3. r # <<>>
    BY <1>4, <2>1
  <2>4. v[Len(v)] = f
    BY <1>5
  <2> QED
    BY <2>2, <2>3, <2>4 DEF Finishes, z
<1> QED
  BY <1>15, <1>16, <1>17 DEF r, v, c

-----------------------------------------------------------------------------
(* Bookkeeping                                                             *)

\* Nothing is written, read or under way at the start.
LEMMA StreamStart == StreamInit => StreamInv
<1> SUFFICES ASSUME StreamInit PROVE StreamInv
  OBVIOUS
<1>1. /\ wire = <<>> /\ left = <<>> /\ have = <<>> /\ head = NoHeader
      /\ written = <<>> /\ received = <<>> /\ torn = {} /\ ended = "no"
  BY DEF StreamInit
<1>2. NoHeader \in [of : Frame \cup {NoFrame}, len : Nat]
  BY DEF NoHeader
<1>3. StreamTypes
  BY <1>1, <1>2 DEF StreamTypes
<1>4. Len(written) = 0 /\ Len(received) = 0
  BY <1>1
<1>5. Ahead = <<>>
  <2>1. Unwritten = <<>>
    BY <1>1 DEF Unwritten
  <2> QED
    BY <1>1, <2>1 DEF Ahead
<1>6. Numbered /\ Story
  BY <1>4 DEF Numbered, Story
<1>7. InStep
  <2>1. \A i \in 1..Len(received) : InPlace(i)
    BY <1>4
  <2>2. Len(Ahead) = 0
    BY <1>5
  <2>3. Run(Ahead, written)
    BY <2>2 DEF Run
  <2>4. /\ StartsAt(Ahead, written, Len(received), Offset)
        /\ Finishes(Ahead, written, Len(received), Offset)
    BY <1>1, <1>4, <1>5 DEF StartsAt, Finishes, Offset
  <2> QED
    BY <1>1, <2>1, <2>3, <2>4 DEF InStep
<1> QED
  BY <1>1, <1>3, <1>6, <1>7 DEF StreamInv

\* A step that neither begins a frame nor ends a receive.
LEMMA SameStory ==
  ASSUME StreamInv, StreamTypes', UNCHANGED <<written, received, torn>>,
         "dropped" \notin torn /\ InStep => InStep'
  PROVE  StreamInv'
<1>1. written' = written /\ received' = received /\ torn' = torn
  OBVIOUS
<1>2. Numbered' /\ (Story => Story')
  BY <1>1 DEF StreamInv, Numbered, Story, InPlace
<1>3. "refused" \in torn /\ "dropped" \notin torn =>
        \E i \in 1..Len(received') : ~GoesOn(received'[i].code)
  BY <1>1 DEF StreamInv
<1> QED
  BY <1>1, <1>2, <1>3 DEF StreamInv

\* A step that moves cells only.
LEMMA SameReader ==
  ASSUME InStep, UNCHANGED <<written, received, head>>,
         Run(Ahead', written), StartsAt(Ahead', written, Len(received), Offset),
         ended' = "no" => Finishes(Ahead', written, Len(received), Offset)
  PROVE  InStep'
<1>1. written' = written /\ received' = received /\ head' = head
  OBVIOUS
<1>2. Offset' = Offset
  BY <1>1 DEF Offset
<1>3. \A i \in 1..Len(received') : InPlace(i)'
  BY <1>1 DEF InStep, InPlace
<1> QED
  BY <1>1, <1>2, <1>3 DEF InStep

\* The reader has nothing and nothing is under way any more.
LEMMA NothingAhead ==
  ASSUME InStep, UNCHANGED <<written, received>>, head' = NoHeader,
         have' = <<>>, wire' = <<>>, ended' # "no"
  PROVE  InStep'
<1>1. written' = written /\ received' = received
  OBVIOUS
<1>2. Ahead' = <<>>
  <2>1. Unwritten' = <<>>
    BY DEF Unwritten
  <2> QED
    BY <2>1 DEF Ahead
<1>3. \A i \in 1..Len(received') : InPlace(i)'
  BY <1>1 DEF InStep, InPlace
<1>4. Run(Ahead', written')
  <2>1. Len(Ahead') = 0
    BY <1>2
  <2> QED
    BY <2>1 DEF Run
<1>5. StartsAt(Ahead', written', Len(received'), Offset')
  BY <1>2 DEF StartsAt
<1> QED
  BY <1>3, <1>4, <1>5 DEF InStep

\* After a call that refused a frame and left its payload, no receive counts.
LEMMA StoppedBefore ==
  ASSUME StreamInv, StreamTypes', written' = written, NEW r,
         received' = Append(received, r),
         "dropped" \notin torn, "refused" \in torn, "refused" \in torn'
  PROVE  StreamInv'
<1>1. received \in Seq(Outcome) /\ Numbered /\ Story
  BY DEF StreamInv, StreamTypes
<1>2. PICK b \in 1..Len(received) : ~GoesOn(received[b].code)
  BY DEF StreamInv
<1>3. Len(received') = Len(received) + 1 /\ Len(received) \in Nat
  BY <1>1
<1>4. \A i \in 1..Len(received) : received'[i] = received[i]
  BY <1>1
<1>5. b \in 1..Len(received') /\ ~GoesOn(received'[b].code)
  BY <1>2, <1>3, <1>4
<1>6. ASSUME NEW i \in 1..Len(received'),
             \A j \in 1..(i - 1) : GoesOn(received'[j].code)
      PROVE  InPlace(i)'
  <2>1. ~(b \in 1..(i - 1))
    BY <1>5, <1>6
  <2>2. i \in 1..Len(received) /\ 1..(i - 1) \subseteq 1..Len(received)
    BY <1>2, <1>3, <2>1
  <2>3. \A j \in 1..(i - 1) : GoesOn(received[j].code)
    BY <1>4, <1>6, <2>2
  <2>4. InPlace(i)
    BY <1>1, <2>2, <2>3 DEF Story
  <2> QED
    BY <1>4, <2>2, <2>4 DEF InPlace
<1>7. Story' /\ Numbered'
  BY <1>1, <1>6 DEF Story, Numbered
<1> QED
  BY <1>5, <1>7 DEF StreamInv

\* A receive that returned the frame the reader had come to.
LEMMA ReturnedInPlace ==
  ASSUME StreamInv, StreamTypes', written' = written, NEW code, NEW f,
         received' = Append(received, [code |-> code, frame |-> f]),
         "dropped" \notin torn, "refused" \notin torn,
         Len(received) < Len(written), f = written[Len(received) + 1],
         code # "Ok" => f.origin # "own",
         "refused" \in torn' => ~GoesOn(code),
         "refused" \notin torn' /\ (\A i \in 1..Len(received') : InPlace(i)') => InStep'
  PROVE  StreamInv'
<1>1. received \in Seq(Outcome) /\ Numbered /\ InStep
  BY DEF StreamInv, StreamTypes
<1>2. /\ Len(received') = Len(received) + 1 /\ Len(received) \in Nat
      /\ Len(received) + 1 \in 1..Len(received')
  <2>1. Len(received') = Len(received) + 1 /\ Len(received) \in Nat
    BY <1>1
  <2> QED
    BY <2>1
<1>3. \A i \in 1..Len(received) : received'[i] = received[i]
  BY <1>1
<1>4. received'[Len(received) + 1] = [code |-> code, frame |-> f]
  BY <1>1
<1>5. received'[Len(received) + 1].code = code /\ received'[Len(received) + 1].frame = f
  BY <1>4
<1>6. Len(written) \in Nat
  BY DEF StreamInv, StreamTypes
<1>7. ASSUME NEW i \in 1..Len(received') PROVE InPlace(i)'
  <2>1. CASE i = Len(received) + 1
    <3>1. i <= Len(written)
      BY <1>2, <1>6, <2>1
    <3> QED
      BY <1>5, <2>1, <3>1 DEF InPlace
  <2>2. CASE i # Len(received) + 1
    <3>1. i \in 1..Len(received)
      BY <1>2, <2>2
    <3> QED
      BY <1>1, <1>3, <3>1 DEF InStep, InPlace
  <2> QED
    BY <2>1, <2>2
<1>8. Story' /\ Numbered'
  BY <1>1, <1>7 DEF Story, Numbered
<1>9. "refused" \in torn' => \E i \in 1..Len(received') : ~GoesOn(received'[i].code)
  BY <1>2, <1>5
<1> QED
  BY <1>7, <1>8, <1>9 DEF StreamInv

-----------------------------------------------------------------------------
(* The writing end                                                         *)

\* A poll moves no more than there is.
LEMMA LeastBound ==
  ASSUME NEW m \in Nat, NEW n \in Int, NEW k \in 1..Least(m, n)
  PROVE  k \in 0..m
BY DEF Least

\* The parts of the run are sequences of cells.
LEMMA AheadTypes ==
  ASSUME StreamTypes
  PROVE  /\ have \in Seq(Cell) /\ wire \in Seq(Cell) /\ left \in Seq(Cell)
         /\ Unwritten \in Seq(Cell) /\ Ahead \in Seq(Cell)
         /\ Len(wire) \in Nat /\ Len(left) \in Nat /\ Len(have) \in Nat
<1>1. Unwritten \in Seq(Cell)
  BY DEF StreamTypes, Unwritten
<1> QED
  BY <1>1 DEF StreamTypes, Ahead

\* A frame begun goes to the end of the run, its first cells to the stream.
LEMMA BeginSendStep ==
  ASSUME StreamInv, NEW f \in Frame, BeginSend(f)
  PROVE  StreamInv'
<1> DEFINE w == written
           v == Append(written, f)
<1>1. /\ left = <<>> /\ ended = "no" /\ f.id = Len(written) + 1 /\ Writable(f)
      /\ written' = v
      /\ head' = head /\ have' = have /\ received' = received /\ torn' = torn
      /\ ended' = ended
  BY DEF BeginSend
<1>2. PICK k \in 1..Least(HeaderCells + f.len, Window - Len(wire)) :
        /\ wire' = wire \o SubSeq(Cells(f), 1, k)
        /\ left' = SubSeq(Cells(f), k + 1, Len(Cells(f)))
  BY DEF BeginSend, Put
<1>3. StreamTypes /\ Numbered /\ w \in Seq(Frame) /\ Len(w) \in Nat
  BY DEF StreamInv, StreamTypes
<1>4. have \in Seq(Cell) /\ wire \in Seq(Cell)
  BY <1>3, AheadTypes
<1>5. k \in 0..Len(Cells(f)) /\ Cells(f) \in Seq(Cell)
  <2>1. HeaderCells + f.len \in Nat /\ HeaderCells + f.len = Len(Cells(f))
    BY FrameFacts, CellsOfFrame
  <2>2. Window - Len(wire) \in Int
    <3>1. Window \in Nat \ {0}
      BY StreamAssumption
    <3> QED
      BY <1>4, <3>1
  <2>3. k \in 0..(HeaderCells + f.len)
    BY <1>2, <2>1, <2>2, LeastBound
  <2> QED
    BY <2>1, <2>3, CellsOfFrame
<1>6. /\ SubSeq(Cells(f), 1, k) \in Seq(Cell)
      /\ SubSeq(Cells(f), k + 1, Len(Cells(f))) \in Seq(Cell)
  BY <1>5, TwoParts
<1>7. wire' \in Seq(Cell) /\ left' \in Seq(Cell)
  BY <1>2, <1>4, <1>6
<1>8. /\ v \in Seq(Frame) /\ Len(v) = Len(w) + 1 /\ v[Len(w) + 1] = f
      /\ \A i \in 1..Len(w) : v[i] = w[i]
  <2>1. v \in Seq(Frame) /\ Len(v) = Len(w) + 1
    BY <1>3
  <2>2. v[Len(w) + 1] = f
    BY <1>3
  <2>3. \A i \in 1..Len(w) : v[i] = w[i]
    BY <1>3
  <2> QED
    BY <2>1, <2>2, <2>3
<1> HIDE DEF v
<1>9. StreamTypes'
  BY <1>1, <1>3, <1>7, <1>8 DEF StreamTypes
<1>10. Numbered'
  <2> SUFFICES ASSUME NEW i \in 1..Len(v) PROVE v[i].id = i /\ Writable(v[i])
    BY <1>1 DEF Numbered
  <2>1. CASE i = Len(w) + 1
    BY <1>1, <1>8, <2>1
  <2>2. CASE i # Len(w) + 1
    <3>1. i \in 1..Len(w)
      BY <1>3, <1>8, <2>2
    <3> QED
      BY <1>3, <1>8, <3>1 DEF Numbered
  <2> QED
    BY <2>1, <2>2
<1>11. received \in Seq(Outcome) /\ Len(received) \in Nat
  BY <1>3 DEF StreamTypes
<1>12. ASSUME NEW i \in 1..Len(received), InPlace(i) PROVE InPlace(i)'
  <2>1. i \in 1..Len(w)
    BY <1>3, <1>11, <1>12 DEF InPlace
  <2>2. v[i] = w[i] /\ i <= Len(v)
    BY <1>3, <1>8, <2>1
  <2> QED
    BY <1>1, <1>12, <2>2 DEF InPlace
<1>13. "dropped" \notin torn => Story'
  BY <1>1, <1>12 DEF StreamInv, Story
<1>14. ASSUME InStep PROVE InStep'
  <2> DEFINE q == have \o wire
             n == Len(received)
  <2>1. Ahead = q
    <3>1. Unwritten = <<>>
      BY <1>1 DEF Unwritten
    <3> QED
      BY <1>4, <3>1 DEF Ahead
  <2>2. Ahead' = q \o Cells(f)
    <3>1. Unwritten' = left'
      BY <1>1 DEF Unwritten
    <3>2. Ahead' = (have \o (wire \o SubSeq(Cells(f), 1, k)))
                     \o SubSeq(Cells(f), k + 1, Len(Cells(f)))
      BY <1>1, <1>2, <3>1 DEF Ahead
    <3>3. (have \o (wire \o SubSeq(Cells(f), 1, k)))
            \o SubSeq(Cells(f), k + 1, Len(Cells(f))) = (have \o wire) \o Cells(f)
      BY <1>4, <1>5, WritingMoves, Zenon
    <3> QED
      BY <3>2, <3>3, Zenon
  <2>3. q \in Seq(Cell)
    BY <1>4
  <2>4. Run(q, w) /\ StartsAt(q, w, n, Offset) /\ Finishes(q, w, n, Offset)
    BY <1>1, <1>14, <2>1 DEF InStep
  <2>5. Offset \in Nat /\ Offset' = Offset
    BY <1>1, StreamAssumption DEF Offset
  <2> HIDE DEF q
  <2>6. \A i \in 1..Len(w) : w[i].id = i
    BY <1>3 DEF Numbered
  <2>7. /\ Run(q \o Cells(f), v)
        /\ StartsAt(q \o Cells(f), v, n, Offset)
        /\ Finishes(q \o Cells(f), v, n, Offset)
    BY <1>1, <1>3, <1>11, <2>3, <2>4, <2>5, <2>6, AddFrame DEF v
  <2>8. \A i \in 1..Len(received') : InPlace(i)'
    BY <1>1, <1>12, <1>14 DEF InStep
  <2>9. ASSUME head # NoHeader
        PROVE  /\ n < Len(v) /\ head.of = v[n + 1]
               /\ head.len = head.of.len /\ head.len > 0
    <3>1. /\ n < Len(w) /\ head.of = w[n + 1]
          /\ head.len = head.of.len /\ head.len > 0
      BY <1>14, <2>9 DEF InStep
    <3>2. n < Len(v) /\ n + 1 \in 1..Len(w)
      BY <1>3, <1>8, <1>11, <3>1
    <3> QED
      BY <1>8, <3>1, <3>2
  <2> QED
    BY <1>1, <2>2, <2>5, <2>7, <2>8, <2>9 DEF InStep
<1> QED
  BY <1>1, <1>9, <1>10, <1>13, <1>14 DEF StreamInv

\* Writing on moves cells from the writer to the stream.
LEMMA GoOnSendingStep ==
  ASSUME StreamInv, GoOnSending
  PROVE  StreamInv'
<1>1. /\ ended = "no" /\ ended' = ended
      /\ head' = head /\ have' = have /\ written' = written
      /\ received' = received /\ torn' = torn
  BY DEF GoOnSending
<1>2. PICK k \in 1..Least(Len(left), Window - Len(wire)) :
        /\ wire' = wire \o SubSeq(left, 1, k)
        /\ left' = SubSeq(left, k + 1, Len(left))
  BY DEF GoOnSending, Put
<1>3. StreamTypes
  BY DEF StreamInv
<1>4. have \in Seq(Cell) /\ wire \in Seq(Cell) /\ left \in Seq(Cell)
  BY <1>3, AheadTypes
<1>5. k \in 0..Len(left)
  <2>1. Len(left) \in Nat /\ Window - Len(wire) \in Int
    <3>1. Window \in Nat \ {0}
      BY StreamAssumption
    <3> QED
      BY <1>4, <3>1
  <2> QED
    BY <1>2, <2>1, LeastBound
<1>6. /\ SubSeq(left, 1, k) \in Seq(Cell)
      /\ SubSeq(left, k + 1, Len(left)) \in Seq(Cell)
  BY <1>4, <1>5, TwoParts
<1>7. wire' \in Seq(Cell) /\ left' \in Seq(Cell)
  BY <1>2, <1>4, <1>6
<1>8. StreamTypes'
  BY <1>1, <1>3, <1>7 DEF StreamTypes
<1>9. Ahead' = Ahead
  <2>1. Unwritten = left /\ Unwritten' = left'
    BY <1>1 DEF Unwritten
  <2>2. Ahead' = (have \o (wire \o SubSeq(left, 1, k))) \o SubSeq(left, k + 1, Len(left))
    BY <1>1, <1>2, <2>1 DEF Ahead
  <2>3. (have \o (wire \o SubSeq(left, 1, k))) \o SubSeq(left, k + 1, Len(left))
          = (have \o wire) \o left
    BY <1>4, <1>5, WritingMoves, Zenon
  <2>4. Ahead = (have \o wire) \o left
    BY <2>1 DEF Ahead
  <2> QED
    BY <2>2, <2>3, <2>4, Zenon
<1>10. ASSUME InStep PROVE InStep'
  BY <1>1, <1>9, <1>10, SameReader DEF InStep
<1> QED
  BY <1>1, <1>8, <1>10, SameStory

\* A send dropped half way is the end of the guarantee.
LEMMA CancelSendStep ==
  ASSUME StreamInv, CancelSend
  PROVE  StreamInv'
<1>1. /\ left' = <<>> /\ torn' = torn \cup {"dropped"}
      /\ UNCHANGED <<wire, head, have, written, received, ended>>
  BY DEF CancelSend
<1>2. StreamTypes'
  BY <1>1 DEF StreamInv, StreamTypes
<1>3. Numbered'
  BY <1>1 DEF StreamInv, Numbered
<1> QED
  BY <1>1, <1>2, <1>3 DEF StreamInv

\* A send that fails does so on a connection that ended.
LEMMA SendFailsStep ==
  ASSUME StreamInv, SendFails
  PROVE  StreamInv'
<1>1. /\ ended # "no" /\ left' = <<>>
      /\ UNCHANGED <<wire, head, have, written, received, torn, ended>>
  BY DEF SendFails
<1>2. StreamTypes'
  BY <1>1 DEF StreamInv, StreamTypes
<1>3. Ahead' = Ahead
  BY <1>1 DEF Ahead, Unwritten
<1>4. ASSUME InStep PROVE InStep'
  BY <1>1, <1>3, <1>4, SameReader DEF InStep
<1> QED
  BY <1>1, <1>2, <1>4, SameStory

-----------------------------------------------------------------------------
(* The reading end                                                         *)

\* What is decoded, and why it may be refused.
LEMMA DecodedTypes ==
  ASSUME NEW cells \in Seq(Cell), Len(cells) >= HeaderCells,
         NEW d \in Decoded(cells)
  PROVE  d.of \in Frame \cup {NoFrame} /\ d.len \in Nat /\ Refusal(d) \in Code
<1>1. Refusal(d) \in Code
  BY DEF Refusal, Code
<1>2. Length \subseteq Nat
  BY StreamAssumption
<1>3. CASE IsHeader(cells)
  <2>1. d = [of |-> cells[1].of, len |-> cells[1].of.len,
             ok |-> cells[1].of.origin # "other header"]
    BY <1>3 DEF Decoded
  <2>2. d.of = cells[1].of /\ d.len = cells[1].of.len
    BY <2>1
  <2>3. 1 \in 1..Len(cells)
    <3>1. HeaderCells \in Nat \ {0}
      BY StreamAssumption
    <3> QED
      BY <3>1
  <2>4. cells[1] \in Cell
    BY <2>3, ElementOfSeq
  <2>5. cells[1].of \in Frame
    BY <2>4, CellFields
  <2> QED
    BY <1>1, <2>2, <2>5, FrameFacts
<1>4. CASE ~IsHeader(cells)
  <2>1. d \in [of : {NoFrame}, len : Length, ok : BOOLEAN]
    BY <1>4 DEF Decoded
  <2> QED
    BY <1>1, <1>2, <2>1
<1> QED
  BY <1>3, <1>4

\* is_retryable of the errors a refused header gives.
LEMMA RefusalStops == \A d : ~GoesOn(Refusal(d))
BY DEF GoesOn, Refusal, Retryable, TransportError, FlowError,
       TransportErrorCode, FlowErrorCode

\* A receive adds one outcome.
LEMMA ReturnTypes ==
  ASSUME StreamTypes, NEW code \in Code, NEW f \in Frame \cup {NoFrame}
  PROVE  Append(received, [code |-> code, frame |-> f]) \in Seq(Outcome)
<1>1. [code |-> code, frame |-> f] \in Outcome
  BY DEF Outcome
<1> QED
  BY <1>1 DEF StreamTypes

\* The cells that make the header of the frame the reader has come to.
LEMMA HeaderOfFrame ==
  ASSUME NEW f \in Frame, NEW cells \in Seq(Cell), Len(cells) = HeaderCells,
         \A i \in 1..Len(cells) : cells[i].of = f /\ cells[i].at = i
  PROVE  Decoded(cells) = {[of |-> f, len |-> f.len, ok |-> f.origin # "other header"]}
<1>1. HeaderCells \in Nat \ {0}
  BY StreamAssumption
<1>2. 1 \in 1..HeaderCells
  BY <1>1
<1>3. \A i \in 1..HeaderCells : cells[i].of = f /\ cells[i].at = i
  BY <1>1
<1>4. IsHeader(cells) /\ cells[1].of = f
  BY <1>2, <1>3 DEF IsHeader
<1> QED
  BY <1>4 DEF Decoded

\* The cells that make its payload.
LEMMA PayloadOfFrame ==
  ASSUME NEW f \in Frame, NEW cells \in Seq(Cell), NEW h, h.of = f,
         Len(cells) = f.len,
         \A i \in 1..Len(cells) : cells[i].of = f /\ cells[i].at = HeaderCells + i
  PROVE  Whole(h, cells)
<1> DEFINE s == SubSeq(Cells(f), HeaderCells + 1, HeaderCells + f.len)
<1>1. /\ HeaderCells \in Nat \ {0} /\ f.len \in Nat /\ Size(f) = HeaderCells + f.len
      /\ f # NoFrame
  BY FrameFacts
<1>2. Cells(f) \in Seq(Cell) /\ Len(Cells(f)) = Size(f)
  BY CellsOfFrame
<1>3. \A i \in (HeaderCells + 1)..(HeaderCells + f.len) : i \in 1..Size(f)
  BY <1>1
<1>4. \A i \in (HeaderCells + 1)..(HeaderCells + f.len) : Cells(f)[i] \in Cell
  BY <1>2, <1>3, ElementOfSeq
<1>5. HeaderCells + 1 \in Int /\ HeaderCells + f.len \in Int
  BY <1>1
<1> DEFINE c == Cells(f)
           lo == HeaderCells + 1
           hi == HeaderCells + f.len
<1>6. lo \in Int /\ hi \in Int /\ \A i \in lo..hi : c[i] \in Cell
  BY <1>4, <1>5
<1>7. s = SubSeq(c, lo, hi) /\ lo = HeaderCells + 1 /\ hi = HeaderCells + f.len
  OBVIOUS
<1> HIDE DEF s, c, lo, hi
<1>10. /\ SubSeq(c, lo, hi) \in Seq(Cell)
       /\ Len(SubSeq(c, lo, hi)) = IF lo <= hi THEN hi - lo + 1 ELSE 0
       /\ \A i \in 1..(hi - lo + 1) : SubSeq(c, lo, hi)[i] = c[lo + i - 1]
  BY <1>6, SubSeqProperties
<1>11. hi - lo + 1 = f.len /\ (lo <= hi <=> 1 <= f.len)
  BY <1>1, <1>7
<1>12. Len(s) = f.len
  <2>1. Len(s) = IF lo <= hi THEN hi - lo + 1 ELSE 0
    BY <1>7, <1>10
  <2>2. PICK n : n = Len(s)
    OBVIOUS
  <2>3. n = f.len
    BY <1>1, <1>11, <2>1, <2>2
  <2> QED
    BY <2>2, <2>3
<1>8. ASSUME NEW i \in 1..f.len PROVE s[i] = cells[i]
  <2>1. /\ i \in 1..(hi - lo + 1) /\ lo + i - 1 = HeaderCells + i
        /\ HeaderCells + i \in 1..Size(f)
    BY <1>1, <1>7, <1>11
  <2>2. s[i] = Cells(f)[HeaderCells + i]
    BY <1>7, <1>10, <2>1 DEF c
  <2>3. Cells(f)[HeaderCells + i] = [of |-> f, at |-> HeaderCells + i]
    BY <2>1, CellsOfFrame
  <2>4. cells[i] \in Cell
    BY ElementOfSeq
  <2>5. cells[i] = [of |-> cells[i].of, at |-> cells[i].at]
    BY <2>4, CellFields
  <2>6. cells[i].of = f /\ cells[i].at = HeaderCells + i
    OBVIOUS
  <2> QED
    BY <2>2, <2>3, <2>5, <2>6
<1>9. s = cells
  <2>1. Len(s) = Len(cells) /\ \A i \in 1..Len(s) : s[i] = cells[i]
    BY <1>8, <1>12
  <2> QED
    BY <1>7, <1>10, <2>1, SeqEqual
<1> QED
  BY <1>1, <1>9 DEF Whole, s

\* Reading a header takes it off the front of the run: it is accepted, whole or
\* with its payload to come, or refused.
LEMMA ReadHeaderStep ==
  ASSUME StreamInv, ReadHeader
  PROVE  StreamInv'
<1>1. /\ head = NoHeader
      /\ left' = left /\ written' = written /\ ended' = ended
  BY DEF ReadHeader
<1> DEFINE Room == Least(HeaderCells - Len(have), Len(wire))
           Taken(k) == have \o SubSeq(wire, 1, k)
<1>2. PICK k \in 1..Room :
        /\ wire' = SubSeq(wire, k + 1, Len(wire))
        /\ IF Len(Taken(k)) < HeaderCells
             THEN have' = Taken(k) /\ UNCHANGED <<head, received, torn>>
             ELSE \E d \in Decoded(Taken(k)) :
                    \/ /\ d.ok /\ Readable(d.len) /\ Payload(d) > 0
                       /\ head' = [of |-> d.of, len |-> d.len]
                       /\ have' = <<>>
                       /\ UNCHANGED <<received, torn>>
                    \/ /\ d.ok /\ Readable(d.len) /\ Payload(d) = 0
                       /\ Return("Ok", IF Whole(d, <<>>) THEN d.of ELSE NoFrame)
                       /\ UNCHANGED torn
                    \/ /\ ~d.ok \/ ~Readable(d.len)
                       /\ Return(Refusal(d), d.of)
                       /\ torn' = IF d.len > 0 THEN torn \cup {"refused"} ELSE torn
  BY Zenon DEF ReadHeader
<1>3. StreamTypes /\ Numbered
  BY DEF StreamInv
<1>4. /\ have \in Seq(Cell) /\ wire \in Seq(Cell) /\ Unwritten \in Seq(Cell)
      /\ Len(have) \in Nat /\ Len(wire) \in Nat /\ HeaderCells \in Nat \ {0}
  BY <1>3, AheadTypes, StreamAssumption
<1>5. k \in 0..Len(wire) /\ Len(have) + k <= HeaderCells
  BY <1>2, <1>4 DEF Least
<1> DEFINE cells == have \o SubSeq(wire, 1, k)
           rest == SubSeq(wire, k + 1, Len(wire))
           b == rest \o Unwritten
<1>6. /\ cells \in Seq(Cell) /\ Len(cells) = Len(have) + k
      /\ rest \in Seq(Cell) /\ (cells \o rest) \o Unwritten = Ahead
  <2>1. /\ cells \in Seq(Cell) /\ Len(cells) = Len(have) + k /\ rest \in Seq(Cell)
        /\ (cells \o rest) \o Unwritten = (have \o wire) \o Unwritten
    <3>1. /\ have \in Seq(Cell) /\ wire \in Seq(Cell) /\ Unwritten \in Seq(Cell)
          /\ k \in 0..Len(wire)
      BY <1>4, <1>5
    <3> QED
      BY <3>1, ReadingMoves, ZenonT(40)
  <2> HIDE DEF cells, rest
  <2> QED
    BY <2>1, Zenon DEF Ahead
<1>7. wire' = rest /\ Unwritten' = Unwritten
  BY <1>1, <1>2 DEF Unwritten
<1>8. CASE Len(cells) < HeaderCells
  <2>1. have' = cells /\ UNCHANGED <<head, received, torn>>
    BY <1>2, <1>8
  <2>2. StreamTypes'
    BY <1>1, <1>3, <1>6, <1>7, <2>1 DEF StreamTypes
  <2>3. Ahead' = Ahead
    BY <1>6, <1>7, <2>1 DEF Ahead
  <2>4. ASSUME InStep PROVE InStep'
    BY <1>1, <2>1, <2>3, <2>4, SameReader DEF InStep
  <2> QED
    BY <1>1, <2>1, <2>2, <2>4, SameStory
<1>9. CASE ~(Len(cells) < HeaderCells)
  <2>1. Len(cells) = HeaderCells /\ Len(cells) >= HeaderCells
    BY <1>4, <1>5, <1>6, <1>9
  <2>2. PICK d \in Decoded(cells) :
          \/ /\ d.ok /\ Readable(d.len) /\ Payload(d) > 0
             /\ head' = [of |-> d.of, len |-> d.len]
             /\ have' = <<>>
             /\ UNCHANGED <<received, torn>>
          \/ /\ d.ok /\ Readable(d.len) /\ Payload(d) = 0
             /\ Return("Ok", IF Whole(d, <<>>) THEN d.of ELSE NoFrame)
             /\ UNCHANGED torn
          \/ /\ ~d.ok \/ ~Readable(d.len)
             /\ Return(Refusal(d), d.of)
             /\ torn' = IF d.len > 0 THEN torn \cup {"refused"} ELSE torn
    BY <1>2, <1>9
  <2> HIDE DEF cells, rest
  <2>3. d.of \in Frame \cup {NoFrame} /\ d.len \in Nat /\ Refusal(d) \in Code
    BY <1>6, <2>1, DecodedTypes
  <2> DEFINE n == Len(received)
             f == written[n + 1]
  <2>4. written \in Seq(Frame) /\ Len(written) \in Nat /\ n \in Nat
    BY <1>3 DEF StreamTypes
  <2>5. \A i \in 1..Len(written) : written[i].id = i /\ Writable(written[i])
    BY <1>3 DEF Numbered
  \* What a reader in step makes of the header.
  <2>6. ASSUME InStep
        PROVE  /\ n < Len(written) /\ f \in Frame /\ Writable(f)
               /\ Run(b, written) /\ b \in Seq(Cell)
               /\ d.of = f /\ d.len = f.len /\ (d.ok <=> f.origin # "other header")
               /\ f.len > 0 =>
                    /\ StartsAt(b, written, n, HeaderCells)
                    /\ ended = "no" => Finishes(b, written, n, HeaderCells)
               /\ f.len = 0 =>
                    /\ StartsAt(b, written, n + 1, 0)
                    /\ ended = "no" => Finishes(b, written, n + 1, 0)
    <3>1. b \in Seq(Cell) /\ Ahead = cells \o b
      <4>1. cells \in Seq(Cell) /\ rest \in Seq(Cell) /\ Unwritten \in Seq(Cell)
        BY <1>4, <1>6
      <4>2. rest \o Unwritten \in Seq(Cell)
        BY <4>1
      <4>3. (cells \o rest) \o Unwritten = cells \o (rest \o Unwritten)
        BY <4>1
      <4> QED
        BY <1>6, <4>2, <4>3, Zenon
    <3>2. Offset = 0 /\ Offset \in Nat
      BY <1>1 DEF Offset
    <3> HIDE DEF b
    <3>3. /\ Run(cells \o b, written) /\ StartsAt(cells \o b, written, n, Offset)
          /\ ended = "no" => Finishes(cells \o b, written, n, Offset)
      BY <2>6, <3>1 DEF InStep
    <3>4. cells # <<>>
      BY <1>4, <1>6, <2>1
    <3>5. n < Len(written)
      <4>1. cells \o b # <<>>
        BY <1>6, <3>1, <3>4
      <4> QED
        BY <3>3, <4>1 DEF StartsAt
    <3>6. n + 1 \in 1..Len(written) /\ f \in Frame
      BY <2>4, <3>5
    <3>7. f.len \in Nat /\ Size(f) = HeaderCells + f.len
      BY <3>6, FrameFacts
    <3> HIDE DEF f, n
    <3>13. Offset + Len(cells) = HeaderCells
      BY <1>4, <2>1, <3>2
    <3>8. Offset + Len(cells) <= Size(f)
      BY <1>4, <3>7, <3>13
    <3>9. /\ Run(b, written)
          /\ \A i \in 1..Len(cells) : cells[i].of = f /\ cells[i].at = Offset + i
          /\ HeaderCells < Size(f) =>
               /\ StartsAt(b, written, n, HeaderCells)
               /\ Finishes(cells \o b, written, n, Offset) =>
                    Finishes(b, written, n, HeaderCells)
          /\ HeaderCells = Size(f) =>
               /\ StartsAt(b, written, n + 1, 0)
               /\ Finishes(cells \o b, written, n, Offset) => Finishes(b, written, n + 1, 0)
      <4>1. /\ written \in Seq(Frame) /\ cells \in Seq(Cell) /\ b \in Seq(Cell)
            /\ n \in Nat /\ Offset \in Nat
        BY <1>6, <2>4, <3>1, <3>2 DEF n
      <4>2. \A i \in 1..Len(written) : written[i].id = i
        BY <2>5
      <4>3. f = written[n + 1]
        BY DEF f
      <4>4. HeaderCells <= Size(f)
        BY <3>8, <3>13
      <4>5. Run(cells \o b, written) /\ StartsAt(cells \o b, written, n, Offset)
        BY <3>3
      <4>6. HeaderCells = Offset + Len(cells)
        BY <3>13
      <4>7. TakenFrom(cells, b, written, n, Offset, f, HeaderCells)
        BY <3>4, <4>1, <4>2, <4>3, <4>4, <4>5, <4>6, TakeCells
      <4> QED
        BY <4>7 DEF TakenFrom
    <3>15. \A i \in 1..Len(cells) : cells[i].of = f /\ cells[i].at = i
      BY <3>2, <3>9
    <3>10. Decoded(cells)
             = {[of |-> f, len |-> f.len, ok |-> f.origin # "other header"]}
      BY <1>6, <2>1, <3>6, <3>15, HeaderOfFrame
    <3>11. d = [of |-> f, len |-> f.len, ok |-> f.origin # "other header"]
      BY <3>10
    <3>16. d.of = f /\ d.len = f.len /\ (d.ok <=> f.origin # "other header")
      BY <3>11
    <3>12. Writable(f)
      BY <2>5, <3>6 DEF f
    <3>14. /\ f.len > 0 => HeaderCells < Size(f)
           /\ f.len = 0 => HeaderCells = Size(f)
      BY <1>4, <3>7
    <3> QED
      BY <3>1, <3>3, <3>5, <3>6, <3>9, <3>12, <3>13, <3>14, <3>16
  \* With nothing held back, what is ahead is what the stream has left.
  <2>7. ASSUME have' = <<>> PROVE Ahead' = b
    <3>1. Ahead' = (<<>> \o rest) \o Unwritten
      BY <1>7, <2>7 DEF Ahead
    <3>2. <<>> \o rest = rest
      BY <1>6
    <3> QED
      BY <3>1, <3>2
  <2> HIDE DEF b
  <2>8. CASE /\ d.ok /\ Readable(d.len) /\ Payload(d) > 0
             /\ head' = [of |-> d.of, len |-> d.len]
             /\ have' = <<>>
             /\ UNCHANGED <<received, torn>>
    <3>1. head' \in [of : Frame \cup {NoFrame}, len : Nat]
      BY <2>3, <2>8
    <3>0. have' = <<>> /\ received' = received /\ torn' = torn
      BY <2>8
    <3>2. StreamTypes'
      BY <1>1, <1>3, <1>6, <1>7, <3>0, <3>1 DEF StreamTypes
    <3>3. ASSUME InStep PROVE InStep'
      <4>1. d.of = f /\ d.len = f.len /\ f # NoFrame
        BY <2>6, <3>3, FrameFacts
      <4>2. f.len > 0
        BY <2>8, <4>1 DEF Payload
      <4>3. head'.of = f /\ head'.len = f.len
        BY <2>8, <4>1
      <4>4. head' # NoHeader
        BY <4>1, <4>3 DEF NoHeader
      <4>5. Offset' = HeaderCells
        BY <4>4 DEF Offset
      <4>6. received' = received
        BY <2>8
      <4>7. \A i \in 1..Len(received') : InPlace(i)'
        BY <1>1, <3>3, <4>6 DEF InStep, InPlace
      <4>8. Ahead' = b
        BY <2>7, <2>8
      <4> QED
        BY <1>1, <2>6, <3>3, <4>2, <4>3, <4>5, <4>6, <4>7, <4>8 DEF InStep
    <3> QED
      BY <1>1, <2>8, <3>2, <3>3, SameStory
  \* The call ends: the rest of this step is the same for a message and an error.
  <2>9. ASSUME NEW code \in Code, NEW g \in Frame \cup {NoFrame},
               Return(code, g), torn' \in {torn, torn \cup {"refused"}},
               InStep => /\ g = f
                         /\ code # "Ok" => f.origin # "own"
                         /\ "refused" \notin torn' => f.len = 0,
               "refused" \in torn' => "refused" \in torn \/ ~GoesOn(code)
        PROVE  StreamInv'
    <3>1. /\ received' = Append(received, [code |-> code, frame |-> g])
          /\ head' = NoHeader /\ have' = <<>>
      BY <2>9 DEF Return
    <3>2. StreamTypes'
      <4>1. received' \in Seq(Outcome)
        BY <1>3, <3>1, ReturnTypes
      <4>2. NoHeader \in [of : Frame \cup {NoFrame}, len : Nat]
        BY DEF NoHeader
      <4>3. torn' \subseteq {"dropped", "refused"}
        BY <1>3, <2>9 DEF StreamTypes
      <4> QED
        BY <1>1, <1>3, <1>6, <1>7, <3>1, <4>1, <4>2, <4>3 DEF StreamTypes
    <3>3. "dropped" \in torn' <=> "dropped" \in torn
      BY <2>9
    <3>4. "refused" \in torn => "refused" \in torn'
      BY <2>9
    <3>5. CASE "dropped" \in torn
      BY <1>1, <1>3, <3>2, <3>3, <3>5 DEF StreamInv, Numbered
    <3>6. CASE "dropped" \notin torn /\ "refused" \in torn
      BY <1>1, <3>1, <3>2, <3>4, <3>6, StoppedBefore
    <3>7. CASE "dropped" \notin torn /\ "refused" \notin torn
      <4>1. InStep
        BY <3>7 DEF StreamInv
      <4>2. g = f /\ n < Len(written) /\ f \in Frame
        BY <2>6, <2>9, <4>1
      <4>3. ASSUME "refused" \notin torn', \A i \in 1..Len(received') : InPlace(i)'
            PROVE  InStep'
        <5>1. f.len = 0
          BY <2>9, <4>1, <4>3
        <5>2. Len(received') = n + 1
          BY <1>3, <3>1 DEF StreamTypes
        <5>3. Offset' = 0
          BY <3>1 DEF Offset
        <5>4. Ahead' = b
          BY <2>7, <3>1
        <5> QED
          BY <1>1, <2>6, <3>1, <4>1, <4>3, <5>1, <5>2, <5>3, <5>4 DEF InStep
      <4> QED
        BY <1>1, <2>9, <3>1, <3>2, <3>7, <4>1, <4>2, <4>3, ReturnedInPlace
    <3> QED
      BY <3>5, <3>6, <3>7
  <2>10. CASE /\ d.ok /\ Readable(d.len) /\ Payload(d) = 0
              /\ Return("Ok", IF Whole(d, <<>>) THEN d.of ELSE NoFrame)
              /\ UNCHANGED torn
    <3> DEFINE g == IF Whole(d, <<>>) THEN d.of ELSE NoFrame
    <3>1. "Ok" \in Code /\ g \in Frame \cup {NoFrame}
      BY <2>3 DEF Code
    <3>2. ASSUME InStep PROVE g = f /\ f.len = 0
      <4>1. d.of = f /\ d.len = f.len /\ f \in Frame
        BY <2>6, <3>2
      <4>2. f.len = 0
        BY <2>10, <4>1 DEF Payload
      <4>3. <<>> \in Seq(Cell) /\ Len(<<>>) = f.len
        BY <4>2
      <4>4. \A i \in 1..Len(<<>>) : <<>>[i].of = f /\ <<>>[i].at = HeaderCells + i
        OBVIOUS
      <4>5. Whole(d, <<>>)
        BY <4>1, <4>3, <4>4, PayloadOfFrame
      <4> QED
        BY <4>1, <4>2, <4>5
    <3> HIDE DEF g
    <3>3. Return("Ok", g) /\ torn' = torn
      BY <2>10 DEF g
    <3> QED
      BY <2>9, <3>1, <3>2, <3>3
  <2>11. CASE /\ ~d.ok \/ ~Readable(d.len)
              /\ Return(Refusal(d), d.of)
              /\ torn' = IF d.len > 0 THEN torn \cup {"refused"} ELSE torn
    <3>1. torn' \in {torn, torn \cup {"refused"}}
      BY <2>11
    <3>2. "refused" \in torn' => "refused" \in torn \/ ~GoesOn(Refusal(d))
      BY RefusalStops
    <3>3. ASSUME InStep
          PROVE  /\ d.of = f /\ f.origin # "own"
                 /\ "refused" \notin torn' => f.len = 0
      <4>1. d.of = f /\ d.len = f.len /\ f \in Frame /\ Writable(f)
        BY <2>6, <3>3
      <4>2. d.ok <=> f.origin # "other header"
        BY <2>6, <3>3
      <4>3. f.origin # "own"
        BY <2>11, <4>1, <4>2 DEF Writable, Readable
      <4>4. "refused" \notin torn' => ~(d.len > 0)
        BY <2>11
      <4> QED
        BY <2>3, <4>1, <4>3, <4>4
    <3> QED
      BY <2>3, <2>9, <2>11, <3>1, <3>2, <3>3
  <2> QED
    BY <2>2, <2>8, <2>10, <2>11
<1> QED
  BY <1>8, <1>9

\* Reading a payload takes it off the front of the run, and hands over the frame.
LEMMA ReadPayloadStep ==
  ASSUME StreamInv, ReadPayload
  PROVE  StreamInv'
<1>1. /\ head # NoHeader /\ torn' = torn
      /\ left' = left /\ written' = written /\ ended' = ended
  BY DEF ReadPayload
<1> DEFINE Room == Least(Payload(head) - Len(have), Len(wire))
           Taken(k) == have \o SubSeq(wire, 1, k)
<1>2. PICK k \in 1..Room :
        /\ wire' = SubSeq(wire, k + 1, Len(wire))
        /\ IF Len(Taken(k)) < Payload(head)
             THEN have' = Taken(k) /\ UNCHANGED <<head, received>>
             ELSE Return("Ok", IF Whole(head, Taken(k)) THEN head.of ELSE NoFrame)
  BY Zenon DEF ReadPayload
<1>3. StreamTypes /\ Numbered
  BY DEF StreamInv
<1>4. /\ have \in Seq(Cell) /\ wire \in Seq(Cell) /\ Unwritten \in Seq(Cell)
      /\ Len(have) \in Nat /\ Len(wire) \in Nat
      /\ HeaderCells \in Nat \ {0}
  BY <1>3, AheadTypes, StreamAssumption
<1>5. head.of \in Frame \cup {NoFrame} /\ head.len \in Nat /\ Payload(head) = head.len
  BY <1>3 DEF StreamTypes, Payload
<1>6. k \in 0..Len(wire) /\ Len(have) + k <= head.len
  BY <1>2, <1>4, <1>5 DEF Least
<1> DEFINE cells == have \o SubSeq(wire, 1, k)
           rest == SubSeq(wire, k + 1, Len(wire))
           b == rest \o Unwritten
<1>7. /\ cells \in Seq(Cell) /\ Len(cells) = Len(have) + k
      /\ rest \in Seq(Cell) /\ (cells \o rest) \o Unwritten = Ahead
  <2>1. /\ cells \in Seq(Cell) /\ Len(cells) = Len(have) + k /\ rest \in Seq(Cell)
        /\ (cells \o rest) \o Unwritten = (have \o wire) \o Unwritten
    <3>1. /\ have \in Seq(Cell) /\ wire \in Seq(Cell) /\ Unwritten \in Seq(Cell)
          /\ k \in 0..Len(wire)
      BY <1>4, <1>6
    <3> QED
      BY <3>1, ReadingMoves, ZenonT(40)
  <2> HIDE DEF cells, rest
  <2> QED
    BY <2>1, Zenon DEF Ahead
<1>8. wire' = rest /\ Unwritten' = Unwritten
  BY <1>1, <1>2 DEF Unwritten
<1>9. CASE Len(cells) < head.len
  <2>1. have' = cells /\ UNCHANGED <<head, received>>
    BY <1>2, <1>5, <1>9
  <2>2. StreamTypes'
    BY <1>1, <1>3, <1>7, <1>8, <2>1 DEF StreamTypes
  <2>3. Ahead' = Ahead
    BY <1>7, <1>8, <2>1 DEF Ahead
  <2>4. ASSUME InStep PROVE InStep'
    BY <1>1, <2>1, <2>3, <2>4, SameReader DEF InStep
  <2> QED
    BY <1>1, <2>1, <2>2, <2>4, SameStory
<1>10. CASE ~(Len(cells) < head.len)
  <2> DEFINE n == Len(received)
             f == written[n + 1]
             g == IF Whole(head, cells) THEN head.of ELSE NoFrame
  <2>1. Len(cells) = head.len
    <3>1. /\ Len(cells) \in Nat /\ head.len \in Nat
          /\ Len(cells) <= head.len /\ ~(Len(cells) < head.len)
      <4>1. Len(cells) = Len(have) + k
        BY <1>7
      <4> HIDE DEF cells
      <4> QED
        BY <1>4, <1>5, <1>6, <1>10, <4>1
    <3> HIDE DEF cells
    <3> QED
      BY <3>1
  <2>2. Return("Ok", g)
    BY <1>2, <1>5, <1>10
  <2>3. /\ received' = Append(received, [code |-> "Ok", frame |-> g])
        /\ head' = NoHeader /\ have' = <<>>
    BY <2>2 DEF Return
  <2>4. g \in Frame \cup {NoFrame} /\ "Ok" \in Code
    BY <1>5 DEF Code
  <2> HIDE DEF cells, rest
  <2>5. written \in Seq(Frame) /\ Len(written) \in Nat /\ n \in Nat
    BY <1>3 DEF StreamTypes
  <2>6. \A i \in 1..Len(written) : written[i].id = i
    BY <1>3 DEF Numbered
  <2>7. StreamTypes'
    <3>1. received' \in Seq(Outcome)
      BY <1>3, <2>3, <2>4, ReturnTypes
    <3>2. NoHeader \in [of : Frame \cup {NoFrame}, len : Nat]
      BY DEF NoHeader
    <3> QED
      BY <1>1, <1>3, <1>7, <1>8, <2>3, <3>1, <3>2 DEF StreamTypes
  <2>8. Ahead' = b
    <3>1. Ahead' = (<<>> \o rest) \o Unwritten
      BY <1>8, <2>3 DEF Ahead
    <3>2. <<>> \o rest = rest
      BY <1>7
    <3> QED
      BY <3>1, <3>2
  \* A reader in step has the frame's payload.
  <2>9. ASSUME InStep
        PROVE  /\ n < Len(written) /\ g = f
               /\ Run(b, written) /\ StartsAt(b, written, n + 1, 0)
               /\ ended = "no" => Finishes(b, written, n + 1, 0)
    <3>1. b \in Seq(Cell) /\ Ahead = cells \o b
      <4>1. cells \in Seq(Cell) /\ rest \in Seq(Cell) /\ Unwritten \in Seq(Cell)
        BY <1>4, <1>7
      <4>2. rest \o Unwritten \in Seq(Cell)
        BY <4>1
      <4>3. (cells \o rest) \o Unwritten = cells \o (rest \o Unwritten)
        BY <4>1
      <4> QED
        BY <1>7, <4>2, <4>3, Zenon
    <3>2. Offset = HeaderCells
      BY <1>1 DEF Offset
    <3> HIDE DEF b
    <3>3. /\ Run(cells \o b, written) /\ StartsAt(cells \o b, written, n, HeaderCells)
          /\ ended = "no" => Finishes(cells \o b, written, n, HeaderCells)
      BY <2>9, <3>1, <3>2 DEF InStep
    <3>4. n < Len(written) /\ head.of = f /\ head.len = head.of.len /\ head.len > 0
      BY <1>1, <2>9 DEF InStep
    <3>5. n + 1 \in 1..Len(written) /\ f \in Frame
      BY <2>5, <3>4
    <3>6. f.len \in Nat /\ Size(f) = HeaderCells + f.len
      BY <3>5, FrameFacts
    <3>7. f = written[n + 1] /\ head.len = f.len
      BY <3>4
    <3> HIDE DEF f, n
    <3>8. cells # <<>>
      BY <1>5, <1>7, <2>1, <3>4
    <3>9. Size(f) = HeaderCells + Len(cells) /\ Size(f) <= Size(f) /\ HeaderCells \in Nat
      BY <1>4, <2>1, <3>6, <3>7
    <3>10. TakenFrom(cells, b, written, n, HeaderCells, f, Size(f))
      <4>1. /\ cells \in Seq(Cell) /\ b \in Seq(Cell) /\ written \in Seq(Frame)
            /\ n \in Nat
        BY <1>7, <2>5, <3>1 DEF n
      <4>2. Run(cells \o b, written) /\ StartsAt(cells \o b, written, n, HeaderCells)
        BY <3>3
      <4> QED
        BY <2>6, <3>7, <3>8, <3>9, <4>1, <4>2, TakeCells
    <3>11. Whole(head, cells)
      <4>1. \A i \in 1..Len(cells) : cells[i].of = f /\ cells[i].at = HeaderCells + i
        BY <3>10 DEF TakenFrom
      <4>2. Len(cells) = f.len /\ cells \in Seq(Cell) /\ head.of = f
        BY <1>7, <2>1, <3>4, <3>7
      <4> QED
        BY <3>5, <4>1, <4>2, PayloadOfFrame
    <3> QED
      BY <3>3, <3>4, <3>10, <3>11 DEF TakenFrom
  <2> HIDE DEF b, g
  <2>10. CASE "dropped" \in torn
    BY <1>1, <1>3, <2>7, <2>10 DEF StreamInv, Numbered
  <2>11. CASE "dropped" \notin torn /\ "refused" \in torn
    BY <1>1, <2>3, <2>7, <2>11, StoppedBefore
  <2>12. CASE "dropped" \notin torn /\ "refused" \notin torn
    <3>1. InStep
      BY <2>12 DEF StreamInv
    <3>2. g = f /\ n < Len(written)
      BY <2>9, <3>1
    <3>3. ASSUME \A i \in 1..Len(received') : InPlace(i)'
          PROVE  InStep'
      <4>1. Len(received') = n + 1
        BY <1>3, <2>3 DEF StreamTypes
      <4>2. Offset' = 0
        BY <2>3 DEF Offset
      <4> QED
        BY <1>1, <2>3, <2>8, <2>9, <3>1, <3>3, <4>1, <4>2 DEF InStep
    <3> QED
      BY <1>1, <2>3, <2>7, <2>12, <3>2, <3>3, ReturnedInPlace
  <2> QED
    BY <2>10, <2>11, <2>12
<1> QED
  BY <1>9, <1>10

\* A receive dropped half way is the end of the guarantee.
LEMMA CancelReceiveStep ==
  ASSUME StreamInv, CancelReceive
  PROVE  StreamInv'
<1>1. /\ head' = NoHeader /\ have' = <<>> /\ torn' = torn \cup {"dropped"}
      /\ wire' = wire /\ left' = left /\ written' = written
      /\ received' = received /\ ended' = ended
  BY DEF CancelReceive
<1>2. NoHeader \in [of : Frame \cup {NoFrame}, len : Nat]
  BY DEF NoHeader
<1>3. StreamTypes'
  BY <1>1, <1>2 DEF StreamInv, StreamTypes
<1>4. Numbered'
  BY <1>1 DEF StreamInv, Numbered
<1> QED
  BY <1>1, <1>3, <1>4 DEF StreamInv

\* A receive that fails does so on a connection that ended.
LEMMA ReceiveFailsStep ==
  ASSUME StreamInv, ReceiveFails
  PROVE  StreamInv'
<1>1. /\ wire = <<>> /\ ended # "no" /\ head' = NoHeader /\ have' = <<>>
      /\ wire' = wire /\ left' = left /\ written' = written
      /\ received' = received /\ torn' = torn /\ ended' = ended
  BY DEF ReceiveFails
<1>2. NoHeader \in [of : Frame \cup {NoFrame}, len : Nat]
  BY DEF NoHeader
<1>3. StreamTypes'
  BY <1>1, <1>2 DEF StreamInv, StreamTypes
<1>4. ASSUME InStep PROVE InStep'
  BY <1>1, <1>4, NothingAhead
<1> QED
  BY <1>1, <1>3, <1>4, SameStory

\* close by the writer, or a failure of the network: the stream is cut off.
LEMMA CutOffStep ==
  ASSUME StreamInv, ended' \in {"writer", "network"},
         NEW k \in 0..Len(wire), wire' = SubSeq(wire, 1, k),
         UNCHANGED <<left, head, have, written, received, torn>>
  PROVE  StreamInv'
<1>1. StreamTypes
  BY DEF StreamInv
<1>2. have \in Seq(Cell) /\ wire \in Seq(Cell) /\ Unwritten \in Seq(Cell)
  BY <1>1, AheadTypes
<1>3. wire' \in Seq(Cell)
  BY <1>2, TwoParts
<1>4. StreamTypes'
  BY <1>1, <1>3 DEF StreamTypes
<1>5. Ahead' = (have \o SubSeq(wire, 1, k)) \o <<>>
  <2>1. Unwritten' = <<>>
    BY DEF Unwritten
  <2> QED
    BY <2>1 DEF Ahead
<1>6. ASSUME InStep PROVE InStep'
  <2>1. /\ Run((have \o wire) \o Unwritten, written)
        /\ StartsAt((have \o wire) \o Unwritten, written, Len(received), Offset)
    BY <1>6 DEF InStep, Ahead
  <2>2. /\ Run(Ahead', written)
        /\ StartsAt(Ahead', written, Len(received), Offset)
    BY <1>2, <1>5, <2>1, CutShort
  <2> QED
    BY <1>6, <2>2, SameReader
<1> QED
  BY <1>4, <1>6, SameStory

\* Closing ends the run.
LEMMA CloseReaderStep ==
  ASSUME StreamInv, CloseReader
  PROVE  StreamInv'
<1>1. /\ head = NoHeader /\ have = <<>> /\ wire' = <<>> /\ ended' = "reader"
      /\ UNCHANGED <<left, head, have, written, received, torn>>
  BY DEF CloseReader, Started
<1>2. StreamTypes'
  BY <1>1 DEF StreamInv, StreamTypes
<1>3. ASSUME InStep PROVE InStep'
  BY <1>1, <1>3, NothingAhead
<1> QED
  BY <1>1, <1>2, <1>3, SameStory

-----------------------------------------------------------------------------
(* The promise of whole messages                                           *)

\* What the promise needs to know of calls in progress: the writer has the rest
\* of the last frame to write, its first cell being gone; what it wrote before
\* returned Ok; the reader has less than it waits for.
LastFrame == written[Len(written)]

RestOfFrame ==
  left # <<>> =>
    /\ written # <<>>
    /\ Len(left) < Size(LastFrame)
    /\ \A i \in 1..Len(left) :
         left[i].of = LastFrame /\ left[i].at = (Size(LastFrame) - Len(left)) + i

Finished == Len(written) - (IF left = <<>> THEN 0 ELSE 1)

Unfinished == Len(have) < IF head = NoHeader THEN HeaderCells ELSE head.len

PromiseInv ==
  /\ StreamInv
  /\ RestOfFrame
  /\ torn = {} => /\ Unfinished
                  /\ ended = "no" => sent = SubSeq(written, 1, Finished)

\* A stretch of a sequence, by its elements.
LEMMA StretchOf ==
  ASSUME NEW S, NEW w \in Seq(S), NEW m \in Nat, NEW l \in m..Len(w)
  PROVE  /\ SubSeq(w, m + 1, l) \in Seq(S)
         /\ Len(SubSeq(w, m + 1, l)) = l - m
         /\ \A i \in 1..(l - m) : SubSeq(w, m + 1, l)[i] = w[m + i]
<1>1. /\ Len(w) \in Nat /\ l \in Nat /\ m <= l /\ l <= Len(w) /\ m + 1 \in Int /\ l \in Int
      /\ \A i \in (m + 1)..l : w[i] \in S
  <2>1. Len(w) \in Nat /\ l \in Nat /\ m <= l /\ l <= Len(w)
    OBVIOUS
  <2>2. \A i \in (m + 1)..l : i \in 1..Len(w)
    BY <2>1
  <2> QED
    BY <2>1, <2>2, ElementOfSeq
<1> DEFINE lo == m + 1
           s == SubSeq(w, lo, l)
<1>2. /\ s \in Seq(S)
      /\ Len(s) = IF lo <= l THEN l - lo + 1 ELSE 0
      /\ \A i \in 1..(l - lo + 1) : s[i] = w[lo + i - 1]
  BY <1>1, SubSeqProperties
<1>3. (IF lo <= l THEN l - lo + 1 ELSE 0) = l - m /\ l - lo + 1 = l - m
  BY <1>1
<1>4. \A i \in 1..(l - m) : lo + i - 1 = m + i
  BY <1>1
<1> HIDE DEF s
<1>5. Len(s) = l - m
  BY <1>2, <1>3
<1>6. \A i \in 1..(l - m) : s[i] = w[m + i]
  BY <1>2, <1>3, <1>4
<1> QED
  BY <1>2, <1>5, <1>6 DEF s

\* Its elements make it.
LEMMA IsStretch ==
  ASSUME NEW S, NEW w \in Seq(S), NEW m \in Nat, NEW l \in m..Len(w),
         NEW s \in Seq(S), Len(s) = l - m, \A i \in 1..(l - m) : s[i] = w[m + i]
  PROVE  s = SubSeq(w, m + 1, l)
<1> DEFINE t == SubSeq(w, m + 1, l)
<1>1. /\ t \in Seq(S) /\ Len(t) = l - m
      /\ \A i \in 1..(l - m) : t[i] = w[m + i]
  BY StretchOf
<1> HIDE DEF t
<1>2. Len(s) = Len(t) /\ \A i \in 1..Len(s) : s[i] = t[i]
  BY <1>1
<1>3. s = t
  BY <1>1, <1>2, SeqEqual
<1> QED
  BY <1>3 DEF t

\* A stretch without its first element.
LEMMA StretchTail ==
  ASSUME NEW S, NEW w \in Seq(S), NEW m \in Nat, NEW l \in (m + 1)..Len(w)
  PROVE  /\ SubSeq(w, m + 1, l) # <<>>
         /\ Head(SubSeq(w, m + 1, l)) = w[m + 1]
         /\ Tail(SubSeq(w, m + 1, l)) = SubSeq(w, (m + 1) + 1, l)
<1> DEFINE s == SubSeq(w, m + 1, l)
<1>1. Len(w) \in Nat /\ l \in Nat /\ m + 1 <= l /\ l \in m..Len(w) /\ m + 1 \in Nat
  OBVIOUS
<1>2. /\ s \in Seq(S) /\ Len(s) = l - m
      /\ \A i \in 1..(l - m) : s[i] = w[m + i]
  BY <1>1, StretchOf
<1> HIDE DEF s
<1>3. Len(s) # 0 /\ s # <<>> /\ 1 \in 1..(l - m)
  BY <1>1, <1>2
<1>4. Head(s) = w[m + 1]
  BY <1>2, <1>3, HeadTailProperties
<1>5. /\ Tail(s) \in Seq(S) /\ Len(Tail(s)) = Len(s) - 1
      /\ \A i \in 1..Len(Tail(s)) : Tail(s)[i] = s[i + 1]
  BY <1>2, <1>3, HeadTailProperties
<1> DEFINE t == Tail(s)
<1> HIDE DEF t
<1>6. t \in Seq(S) /\ Len(t) = l - (m + 1)
  BY <1>1, <1>2, <1>5 DEF t
<1>7. ASSUME NEW i \in 1..(l - (m + 1)) PROVE t[i] = w[(m + 1) + i]
  <2>1. i + 1 \in 1..(l - m) /\ m + (i + 1) = (m + 1) + i /\ i \in 1..Len(t)
    BY <1>1, <1>6
  <2>2. t[i] = s[i + 1]
    BY <1>5, <2>1 DEF t
  <2> QED
    BY <1>2, <2>1, <2>2
<1>8. t = SubSeq(w, (m + 1) + 1, l)
  BY <1>1, <1>6, <1>7, IsStretch
<1> QED
  BY <1>3, <1>4, <1>8 DEF s, t

\* A stretch and one element more.
LEMMA StretchMore ==
  ASSUME NEW S, NEW w \in Seq(S), NEW m \in Nat, NEW l \in m..Len(w),
         NEW v \in Seq(S), l + 1 <= Len(v), \A i \in 1..l : v[i] = w[i]
  PROVE  SubSeq(v, m + 1, l + 1) = Append(SubSeq(w, m + 1, l), v[l + 1])
<1> DEFINE s == SubSeq(w, m + 1, l)
           x == v[l + 1]
<1>1. Len(w) \in Nat /\ l \in Nat /\ m <= l /\ l <= Len(w) /\ Len(v) \in Nat
  OBVIOUS
<1>2. /\ s \in Seq(S) /\ Len(s) = l - m
      /\ \A i \in 1..(l - m) : s[i] = w[m + i]
  BY StretchOf
<1>3. x \in S
  <2>1. l + 1 \in 1..Len(v)
    BY <1>1
  <2> QED
    BY <2>1, ElementOfSeq
<1> DEFINE t == Append(s, x)
<1> HIDE DEF s, x
<1>4. /\ t \in Seq(S) /\ Len(t) = Len(s) + 1
      /\ \A i \in 1..Len(s) : t[i] = s[i]
      /\ t[Len(s) + 1] = x
  BY <1>2, <1>3, AppendProperties
<1> HIDE DEF t
<1>5. Len(t) = (l + 1) - m
  BY <1>1, <1>2, <1>4
<1>6. ASSUME NEW i \in 1..((l + 1) - m) PROVE t[i] = v[m + i]
  <2>1. CASE i = (l + 1) - m
    <3>1. i = Len(s) + 1 /\ m + i = l + 1
      BY <1>1, <1>2, <2>1
    <3> QED
      BY <1>4, <3>1 DEF x
  <2>2. CASE i # (l + 1) - m
    <3>1. i \in 1..(l - m) /\ m + i \in 1..l
      BY <1>1, <2>2
    <3> QED
      BY <1>2, <1>4, <3>1
  <2> QED
    BY <2>1, <2>2
<1>7. l + 1 \in m..Len(v)
  BY <1>1
<1>8. t = SubSeq(v, m + 1, l + 1)
  BY <1>4, <1>5, <1>6, <1>7, IsStretch
<1> QED
  BY <1>8 DEF t, s, x

\* The same stretch of a longer sequence.
LEMMA StretchSame ==
  ASSUME NEW S, NEW w \in Seq(S), NEW m \in Nat, NEW l \in m..Len(w),
         NEW v \in Seq(S), l <= Len(v), \A i \in 1..l : v[i] = w[i]
  PROVE  SubSeq(v, m + 1, l) = SubSeq(w, m + 1, l)
<1> DEFINE s == SubSeq(w, m + 1, l)
<1>1. Len(w) \in Nat /\ l \in Nat /\ m <= l /\ l <= Len(w) /\ Len(v) \in Nat
  OBVIOUS
<1>2. /\ s \in Seq(S) /\ Len(s) = l - m
      /\ \A i \in 1..(l - m) : s[i] = w[m + i]
  BY StretchOf
<1> HIDE DEF s
<1>3. ASSUME NEW i \in 1..(l - m) PROVE s[i] = v[m + i]
  <2>1. m + i \in 1..l
    BY <1>1
  <2> QED
    BY <1>2, <2>1
<1>4. l \in m..Len(v)
  BY <1>1
<1>5. s = SubSeq(v, m + 1, l)
  BY <1>2, <1>3, <1>4, IsStretch
<1> QED
  BY <1>5 DEF s

\* The first part of a stretch.
LEMMA StretchCut ==
  ASSUME NEW S, NEW w \in Seq(S), NEW m \in Nat, NEW l \in m..Len(w), NEW k \in m..l
  PROVE  SubSeq(w, m + 1, k) = SubSeq(SubSeq(w, m + 1, l), 1, k - m)
<1> DEFINE s == SubSeq(w, m + 1, l)
           t == SubSeq(s, 0 + 1, k - m)
<1>1. Len(w) \in Nat /\ l \in Nat /\ m <= l /\ l <= Len(w) /\ k \in Nat /\ m <= k /\ k <= l
  OBVIOUS
<1>2. /\ s \in Seq(S) /\ Len(s) = l - m
      /\ \A i \in 1..(l - m) : s[i] = w[m + i]
  BY StretchOf
<1> HIDE DEF s
<1>3. 0 \in Nat /\ k - m \in 0..Len(s) /\ (k - m) - 0 = k - m /\ k \in m..Len(w)
  BY <1>1, <1>2
<1>4. /\ t \in Seq(S) /\ Len(t) = k - m
      /\ \A i \in 1..(k - m) : t[i] = s[0 + i]
  BY <1>2, <1>3, StretchOf
<1> HIDE DEF t
<1>5. ASSUME NEW i \in 1..(k - m) PROVE t[i] = w[m + i]
  <2>1. i \in 1..(l - m) /\ 0 + i = i
    BY <1>1
  <2> QED
    BY <1>2, <1>4, <2>1
<1>6. t = SubSeq(w, m + 1, k)
  BY <1>3, <1>4, <1>5, IsStretch
<1> QED
  BY <1>6 DEF t, s

\* Induction over the natural numbers, from the existence of a least
\* counterexample.
LEMMA NumbersByInduction ==
  ASSUME NEW S, 0 \in S, \A n \in Nat : n \in S => n + 1 \in S
  PROVE  Nat \subseteq S
<1> DEFINE T == {n \in Nat : n \notin S}
           R == {ss \in Nat \X Nat : ss[1] < ss[2]}
<1> SUFFICES ASSUME T # {} PROVE FALSE
  OBVIOUS
<1>1. IsWellFoundedOn(R, Nat)
  BY NatLessThanWellFounded DEF OpToRel
<1>2. PICK x \in T : \A y \in T : ~ (<<y, x>> \in R)
  <2> HIDE DEF R
  <2> QED
    BY <1>1, WFMin
<1>3. ASSUME NEW y \in Nat, y < x PROVE <<y, x>> \in R
  <2>1. /\ <<y, x>> \in Nat \X Nat
        /\ <<y, x>>[1] = y /\ <<y, x>>[2] = x
    OBVIOUS
  <2> QED
    BY <1>3, <2>1
<1> HIDE DEF R
<1>4. x \in Nat /\ x # 0
  OBVIOUS
<1>5. x - 1 \in Nat /\ x - 1 < x
  BY <1>4
<1>6. x - 1 \notin T
  BY <1>2, <1>3, <1>5
<1> QED
  BY <1>4, <1>5, <1>6

\* Numbers none of which is less than the one before do not decrease.
LEMMA Ascending ==
  ASSUME NEW n \in Nat, NEW v \in [1..n -> Int], \A i \in 1..(n - 1) : v[i] <= v[i + 1],
         NEW i \in 1..n, NEW j \in 1..n, i <= j
  PROVE  v[i] <= v[j]
<1> DEFINE S == {d \in Nat : \A a \in 1..n : a + d <= n => v[a] <= v[a + d]}
<1>0. \A a \in 1..n : v[a] \in Int
  OBVIOUS
<1>1. 0 \in S
  <2>1. \A a \in 1..n : a + 0 = a /\ v[a] <= v[a]
    BY <1>0
  <2> QED
    BY <2>1
<1>2. ASSUME NEW d \in Nat, d \in S PROVE d + 1 \in S
  <2> SUFFICES ASSUME NEW a \in 1..n, a + (d + 1) <= n PROVE v[a] <= v[a + (d + 1)]
    OBVIOUS
  <2>1. /\ a + d <= n /\ a + d \in 1..(n - 1) /\ (a + d) + 1 = a + (d + 1)
        /\ a + d \in 1..n /\ (a + d) + 1 \in 1..n
    OBVIOUS
  <2>2. v[a] <= v[a + d]
    BY <1>2, <2>1
  <2>3. v[a + d] <= v[(a + d) + 1]
    BY <2>1
  <2>4. v[a] \in Int /\ v[a + d] \in Int /\ v[(a + d) + 1] \in Int
    BY <1>0, <2>1
  <2>5. v[a] <= v[(a + d) + 1]
    BY <2>2, <2>3, <2>4
  <2> QED
    BY <2>1, <2>5
<1>3. Nat \subseteq S
  <2> HIDE DEF S
  <2>1. \A d \in Nat : d \in S => d + 1 \in S
    BY <1>2
  <2> QED
    BY <1>1, <2>1, NumbersByInduction
<1>4. j - i \in S /\ i + (j - i) = j
  <2>1. j - i \in Nat /\ i + (j - i) = j
    OBVIOUS
  <2> HIDE DEF S
  <2> QED
    BY <1>3, <2>1
<1>5. i + (j - i) <= n
  BY <1>4
<1> QED
  BY <1>4, <1>5

\* A cell's place in its frame decides whether the frame is whole.
LEMMA LastWholeFacts ==
  ASSUME NEW c \in Cell, c.at <= Size(c.of)
  PROVE  /\ c.at = Size(c.of) => LastWhole(c) = c.of.id
         /\ c.at < Size(c.of) => LastWhole(c) = c.of.id - 1
         /\ LastWhole(c) \in {c.of.id, c.of.id - 1}
         /\ c.of.id \in Nat \ {0} /\ c.at \in Nat \ {0} /\ Size(c.of) \in Nat
<1>1. c.of \in Frame /\ c.at \in Nat \ {0}
  BY CellFields
<1>2. c.of.id \in Nat \ {0} /\ Size(c.of) \in Nat
  BY <1>1, FrameFacts
<1>3. LastWhole(c) = IF c.at = Size(c.of) THEN c.of.id ELSE c.of.id - 1
  BY DEF LastWhole, Size
<1> QED
  BY <1>1, <1>2, <1>3

\* The further along a run, the more frames are whole.
LEMMA WholeGrows ==
  ASSUME NEW q \in Seq(Cell), NEW w, Run(q, w),
         NEW i \in 1..Len(q), NEW j \in 1..Len(q), i <= j
  PROVE  LastWhole(q[i]) <= LastWhole(q[j])
<1> DEFINE n == Len(q)
           v == [a \in 1..n |-> LastWhole(q[a])]
<1>1. n \in Nat
  OBVIOUS
<1>2. ASSUME NEW a \in 1..n
      PROVE  /\ q[a] \in Cell /\ q[a].at <= Size(q[a].of)
             /\ q[a].at = Size(q[a].of) => LastWhole(q[a]) = q[a].of.id
             /\ q[a].at < Size(q[a].of) => LastWhole(q[a]) = q[a].of.id - 1
             /\ LastWhole(q[a]) \in {q[a].of.id, q[a].of.id - 1}
             /\ q[a].of.id \in Nat \ {0} /\ q[a].at \in Nat \ {0}
             /\ Size(q[a].of) \in Nat
  <2>1. q[a] \in Cell
    BY ElementOfSeq
  <2>2. q[a].at \in 1..Size(q[a].of)
    BY DEF Run
  <2>3. Size(q[a].of) \in Nat
    BY <2>1, CellFields, FrameFacts
  <2>4. q[a].at <= Size(q[a].of)
    BY <2>2, <2>3
  <2> QED
    BY <2>1, <2>4, LastWholeFacts
<1>3. v \in [1..n -> Int]
  <2>1. ASSUME NEW a \in 1..n PROVE LastWhole(q[a]) \in Int
    <3> DEFINE d == LastWhole(q[a])
               k == q[a].of.id
    <3>1. d \in {k, k - 1} /\ k \in Nat
      BY <1>2
    <3> HIDE DEF d, k
    <3>2. d \in Int
      BY <3>1
    <3> QED
      BY <3>2 DEF d
  <2> QED
    BY <2>1
<1>4. ASSUME NEW a \in 1..(n - 1) PROVE v[a] <= v[a + 1]
  <2>1. a \in 1..n /\ a + 1 \in 1..n /\ a \in 1..(Len(q) - 1) /\ a <= a + 1
        /\ (a + 1) - a = 1
    BY <1>1
  <2>2. v[a] = LastWhole(q[a]) /\ v[a + 1] = LastWhole(q[a + 1])
    BY <2>1
  <2> HIDE DEF v, n
  <2>3. CASE q[a].at = Size(q[a].of)
    <3>1. q[a + 1].of.id = q[a].of.id + 1
      BY <2>1, <2>3 DEF Run
    <3>2. LastWhole(q[a]) = q[a].of.id
      BY <1>2, <2>1, <2>3
    <3>3. LastWhole(q[a + 1]) \in {q[a + 1].of.id, q[a + 1].of.id - 1}
      BY <1>2, <2>1
    <3>4. q[a].of.id \in Nat
      BY <1>2, <2>1
    <3> QED
      BY <2>2, <3>1, <3>2, <3>3, <3>4
  <2>4. CASE q[a].at # Size(q[a].of)
    <3>1. /\ q[a].at < Size(q[a].of) /\ q[a].at + 1 <= Size(q[a].of)
          /\ LastWhole(q[a]) = q[a].of.id - 1
      BY <1>2, <2>1, <2>4
    <3>2. q[a].at + ((a + 1) - a) <= Size(q[a].of)
      BY <2>1, <3>1
    <3>3. q[a + 1].of = q[a].of
      BY <2>1, <3>2 DEF Run, n
    <3>4. LastWhole(q[a + 1]) \in {q[a].of.id, q[a].of.id - 1}
      BY <1>2, <2>1, <3>3
    <3>5. q[a].of.id \in Nat
      BY <1>2, <2>1
    <3> QED
      BY <2>2, <3>1, <3>4, <3>5
  <2> QED
    BY <2>3, <2>4
<1>5. v[i] = LastWhole(q[i]) /\ v[j] = LastWhole(q[j])
  OBVIOUS
<1> HIDE DEF v
<1>6. v[i] <= v[j]
  BY <1>1, <1>3, <1>4, Ascending
<1> QED
  BY <1>5, <1>6

\* The whole frames of a run are among those written, from the reader's on.
LEMMA WholeBounds ==
  ASSUME NEW w \in Seq(Frame), \A i \in 1..Len(w) : w[i].id = i,
         NEW q \in Seq(Cell), NEW n \in Nat, NEW o,
         Run(q, w), StartsAt(q, w, n, o), NEW i \in 1..Len(q)
  PROVE  /\ LastWhole(q[i]) \in Nat
         /\ n <= LastWhole(q[i]) /\ LastWhole(q[i]) <= Len(w)
<1>1. 1 \in 1..Len(q) /\ q # <<>> /\ 1 <= i
  OBVIOUS
<1>2. n < Len(w) /\ q[1].of = w[n + 1]
  BY <1>1 DEF StartsAt
<1>3. q[1].of.id = n + 1
  <2>1. n + 1 \in 1..Len(w)
    BY <1>2
  <2> QED
    BY <1>2, <2>1
<1>4. ASSUME NEW a \in 1..Len(q)
      PROVE  LastWhole(q[a]) \in {q[a].of.id, q[a].of.id - 1} /\ q[a].of.id \in 1..Len(w)
  <2>1. q[a] \in Cell
    BY ElementOfSeq
  <2>2. q[a].at \in 1..Size(q[a].of) /\ q[a].of.id \in 1..Len(w)
    BY DEF Run
  <2>3. Size(q[a].of) \in Nat
    BY <2>1, CellFields, FrameFacts
  <2>4. q[a].at <= Size(q[a].of)
    BY <2>2, <2>3
  <2> QED
    BY <2>1, <2>2, <2>4, LastWholeFacts
<1>5. LastWhole(q[1]) \in {n + 1, n}
  <2>1. LastWhole(q[1]) \in {q[1].of.id, q[1].of.id - 1}
    BY <1>1, <1>4
  <2> QED
    BY <1>3, <2>1
<1>6. LastWhole(q[1]) <= LastWhole(q[i])
  BY <1>1, WholeGrows
<1>7. LastWhole(q[i]) \in {q[i].of.id, q[i].of.id - 1} /\ q[i].of.id \in 1..Len(w)
  BY <1>4
<1>8. Len(w) \in Nat
  OBVIOUS
<1>9. q[i].of.id \in Nat /\ 1 <= q[i].of.id /\ q[i].of.id <= Len(w)
  BY <1>7, <1>8
<1> QED
  BY <1>5, <1>6, <1>7, <1>8, <1>9

\* The cells that can arrive whatever becomes of the writer, and the newest frame
\* they make whole.
Arriving == have \o wire
WholeSoFar == WholeUpTo(Arriving)

\* A reader in step: what arrives is a run of its own.
LEMMA ArrivingFacts ==
  ASSUME StreamInv, torn = {}
  PROVE  /\ StreamTypes /\ InStep /\ Arriving \in Seq(Cell) /\ Ahead = Arriving \o Unwritten
         /\ written \in Seq(Frame) /\ \A i \in 1..Len(written) : written[i].id = i
         /\ Len(written) \in Nat /\ Len(received) \in Nat /\ Len(received) <= Len(written)
         /\ Run(Arriving, written)
         /\ StartsAt(Arriving, written, Len(received), Offset)
<1>1. StreamTypes /\ Numbered /\ InStep
  BY DEF StreamInv
<1>2. /\ have \in Seq(Cell) /\ wire \in Seq(Cell) /\ Unwritten \in Seq(Cell)
      /\ Len(wire) \in Nat
  BY <1>1, AheadTypes
<1>3. written \in Seq(Frame) /\ Len(written) \in Nat /\ Len(received) \in Nat
  BY <1>1 DEF StreamTypes
<1>4. Arriving \in Seq(Cell)
  BY <1>2 DEF Arriving
<1>5. Len(received) <= Len(written)
  <2>1. CASE Len(received) = 0
    BY <1>3, <2>1
  <2>2. CASE Len(received) # 0
    <3>1. Len(received) \in 1..Len(received)
      BY <1>3, <2>2
    <3> QED
      BY <1>1, <3>1 DEF InStep, InPlace
  <2> QED
    BY <2>1, <2>2
<1>6. /\ Run((have \o wire) \o Unwritten, written)
      /\ StartsAt((have \o wire) \o Unwritten, written, Len(received), Offset)
  BY <1>1 DEF InStep, Ahead
<1>7. Len(wire) \in 0..Len(wire)
  BY <1>2
<1>8. /\ Run((have \o SubSeq(wire, 1, Len(wire))) \o <<>>, written)
      /\ StartsAt((have \o SubSeq(wire, 1, Len(wire))) \o <<>>, written,
                  Len(received), Offset)
  BY <1>2, <1>6, <1>7, CutShort
<1>9. (have \o SubSeq(wire, 1, Len(wire))) \o <<>> = Arriving
  <2>1. SubSeq(wire, 1, Len(wire)) = wire
    BY <1>2, SubSeqFull
  <2>2. (have \o wire) \o <<>> = have \o wire
    <3> DEFINE d == have \o wire
    <3>1. d \in Seq(Cell)
      BY <1>2
    <3> HIDE DEF d
    <3>2. d \o <<>> = d
      BY <3>1
    <3> QED
      BY <3>2 DEF d
  <2> QED
    BY <2>1, <2>2 DEF Arriving
<1>10. Run(Arriving, written) /\ StartsAt(Arriving, written, Len(received), Offset)
  BY <1>8, <1>9
<1>11. \A i \in 1..Len(written) : written[i].id = i
  BY <1>1 DEF Numbered
<1> QED
  BY <1>1, <1>3, <1>4, <1>5, <1>10, <1>11 DEF Ahead, Arriving

\* Frames made whole are those received and some of those written since.
LEMMA WholeRange ==
  ASSUME StreamInv, torn = {}
  PROVE  /\ WholeSoFar \in Nat /\ Len(received) <= WholeSoFar /\ WholeSoFar <= Len(written)
         /\ Arriving # <<>> => WholeSoFar = LastWhole(Arriving[Len(Arriving)])
<1>1. /\ Arriving \in Seq(Cell) /\ written \in Seq(Frame)
      /\ \A i \in 1..Len(written) : written[i].id = i
      /\ Len(written) \in Nat /\ Len(received) \in Nat /\ Len(received) <= Len(written)
      /\ Run(Arriving, written)
      /\ StartsAt(Arriving, written, Len(received), Offset)
  BY ArrivingFacts
<1>2. CASE Arriving = <<>>
  BY <1>1, <1>2 DEF WholeSoFar, WholeUpTo
<1>3. CASE Arriving # <<>>
  <2>1. Len(Arriving) \in 1..Len(Arriving)
    BY <1>1, <1>3
  <2>2. WholeSoFar = LastWhole(Arriving[Len(Arriving)])
    BY <1>3 DEF WholeSoFar, WholeUpTo
  <2>3. /\ LastWhole(Arriving[Len(Arriving)]) \in Nat
        /\ Len(received) <= LastWhole(Arriving[Len(Arriving)])
        /\ LastWhole(Arriving[Len(Arriving)]) <= Len(written)
    BY <1>1, <2>1, WholeBounds
  <2> QED
    BY <2>2, <2>3
<1> QED
  BY <1>2, <1>3

\* Parts of what is ahead of the reader.
LEMMA AheadParts ==
  ASSUME StreamInv, torn = {}
  PROVE  /\ Ahead \in Seq(Cell) /\ Unwritten \in Seq(Cell)
         /\ Len(Ahead) = Len(Arriving) + Len(Unwritten)
         /\ Len(Arriving) \in Nat /\ Len(Unwritten) \in Nat
         /\ \A i \in 1..Len(Arriving) : Ahead[i] = Arriving[i]
         /\ \A i \in 1..Len(Unwritten) : Ahead[Len(Arriving) + i] = Unwritten[i]
<1>1. /\ StreamTypes /\ Arriving \in Seq(Cell) /\ Ahead = Arriving \o Unwritten
  BY ArrivingFacts
<1>2. Unwritten \in Seq(Cell) /\ Ahead \in Seq(Cell)
  BY <1>1, AheadTypes
<1> DEFINE a == Arriving
           b == Unwritten
           q == Ahead
<1>3. a \in Seq(Cell) /\ b \in Seq(Cell) /\ q = a \o b /\ q \in Seq(Cell)
  BY <1>1, <1>2
<1> HIDE DEF a, b, q
<1>4. Len(q) = Len(a) + Len(b)
  BY <1>3
<1>5. \A i \in 1..Len(a) : q[i] = a[i]
  BY <1>3
<1>6. \A i \in 1..Len(b) : q[Len(a) + i] = b[i]
  BY <1>3
<1>7. Len(a) \in Nat /\ Len(b) \in Nat
  BY <1>3
<1> QED
  BY <1>3, <1>4, <1>5, <1>6, <1>7 DEF a, b, q

\* The first cells ahead of a reader in step are those of the frame it has come
\* to.
LEMMA FrontCells ==
  ASSUME StreamInv, torn = {}, NEW i \in 1..Len(Arriving),
         Offset + i <= Size(written[Len(received) + 1])
  PROVE  /\ Len(received) < Len(written)
         /\ Arriving[i].of = written[Len(received) + 1]
         /\ Arriving[i].at = Offset + i
<1> DEFINE n == Len(received)
           f == written[n + 1]
           a == Arriving
<1>1. /\ a \in Seq(Cell) /\ Run(a, written) /\ StartsAt(a, written, n, Offset)
      /\ Offset \in Nat
  <2>1. Offset \in Nat
    BY StreamAssumption DEF Offset
  <2> QED
    BY <2>1, ArrivingFacts
<1>2. 1 \in 1..Len(a) /\ a # <<>> /\ 1 <= i /\ i \in Nat
  BY <1>1
<1>3. n < Len(written) /\ a[1].of = f /\ a[1].at = Offset + 1
  BY <1>1, <1>2 DEF StartsAt
<1> HIDE DEF a, f, n
<1>4. a[1].at + (i - 1) = Offset + i
  BY <1>1, <1>2, <1>3
<1>5. a[1].at + (i - 1) <= Size(a[1].of)
  BY <1>3, <1>4 DEF f, n
<1>6. a[i].of = a[1].of /\ a[i].at = a[1].at + (i - 1)
  <2>1. i \in 1..Len(a)
    BY DEF a
  <2> QED
    BY <1>1, <1>2, <1>5, <2>1 DEF Run
<1> QED
  BY <1>3, <1>4, <1>6 DEF a, f, n

\* While the connection is up, the frames whole are those whose send returned.
LEMMA SentAreWhole ==
  ASSUME PromiseInv, torn = {}, ended = "no"
  PROVE  WholeSoFar = Finished
<1>1. StreamInv /\ RestOfFrame
  BY DEF PromiseInv
<1>2. /\ StreamTypes /\ InStep /\ Arriving \in Seq(Cell) /\ written \in Seq(Frame)
      /\ \A i \in 1..Len(written) : written[i].id = i
      /\ Len(written) \in Nat /\ Len(received) \in Nat
      /\ Run(Ahead, written)
      /\ StartsAt(Ahead, written, Len(received), Offset)
      /\ Finishes(Ahead, written, Len(received), Offset)
  BY <1>1, ArrivingFacts DEF InStep
<1>3. /\ Ahead \in Seq(Cell) /\ left \in Seq(Cell) /\ Unwritten = left
      /\ Len(Ahead) = Len(Arriving) + Len(left)
      /\ Len(Arriving) \in Nat /\ Len(left) \in Nat
      /\ \A i \in 1..Len(Arriving) : Ahead[i] = Arriving[i]
      /\ \A i \in 1..Len(left) : Ahead[Len(Arriving) + i] = left[i]
  <2>1. Unwritten = left
    BY DEF Unwritten
  <2> QED
    BY <1>1, <2>1, AheadParts
<1>4. Arriving # <<>> => WholeSoFar = LastWhole(Arriving[Len(Arriving)])
  BY <1>1, WholeRange
<1>5. Arriving = <<>> => WholeSoFar = Len(received) /\ Len(Arriving) = 0
  BY DEF WholeSoFar, WholeUpTo
<1>6. Arriving # <<>> => Len(Arriving) \in 1..Len(Arriving)
  BY <1>2
<1> DEFINE m == Len(Arriving)
           k == Len(written)
<1>7. CASE left = <<>>
  <2>1. Len(left) = 0 /\ Len(Ahead) = m /\ Finished = k
    BY <1>2, <1>3, <1>7 DEF Finished
  <2>2. CASE Arriving = <<>>
    <3>1. Ahead = <<>>
      BY <1>3, <1>5, <2>1, <2>2
    <3> QED
      BY <1>2, <1>5, <2>1, <2>2, <3>1 DEF Finishes
  <2>3. CASE Arriving # <<>>
    <3>1. m \in 1..m /\ Ahead[m] = Arriving[m] /\ Ahead # <<>>
      BY <1>3, <1>6, <2>1, <2>3
    <3>2. Arriving[m].of = written[k] /\ Arriving[m].at = Size(written[k])
      BY <1>2, <2>1, <3>1 DEF Finishes
    <3>3. Arriving[m] \in Cell
      BY <1>2, <3>1, ElementOfSeq
    <3>4. Arriving[m].of.id \in 1..k
      BY <1>2, <1>3, <2>1, <3>1 DEF Run
    <3>5. written[k].id = k
      <4>1. k \in 1..k
        BY <1>2, <3>4
      <4> QED
        BY <1>2, <4>1
    <3>6. Size(written[k]) \in Nat
      BY <3>2, <3>3, CellFields, FrameFacts
    <3>7. Arriving[m].at = Size(Arriving[m].of) /\ Arriving[m].at <= Size(Arriving[m].of)
      BY <3>2, <3>6
    <3>8. LastWhole(Arriving[m]) = Arriving[m].of.id
      BY <3>3, <3>7, LastWholeFacts
    <3> QED
      BY <1>4, <2>1, <2>3, <3>2, <3>5, <3>8
  <2> QED
    BY <2>2, <2>3
<1>8. CASE left # <<>>
  <2> DEFINE F == LastFrame
             l == Len(left)
  <2>1. /\ written # <<>> /\ l < Size(F) /\ 1 \in 1..l
        /\ left[1].of = F /\ left[1].at = (Size(F) - l) + 1
    <3>1. 1 \in 1..l
      BY <1>3, <1>8
    <3> QED
      BY <1>1, <1>8, <3>1 DEF RestOfFrame
  <2>2. k \in 1..k /\ F \in Frame /\ F.id = k /\ F = written[k]
    <3>1. k \in 1..k
      BY <1>2, <2>1
    <3> QED
      BY <1>2, <3>1, ElementOfSeq DEF LastFrame
  <2>3. Size(F) \in Nat /\ left[1].at > 1
    <3>1. Size(F) \in Nat
      BY <2>2, FrameFacts
    <3> HIDE DEF F, l
    <3> QED
      BY <1>3, <2>1, <3>1 DEF l
  <2>4. Finished = k - 1
    BY <1>8 DEF Finished
  <2>5. Ahead[m + 1] = left[1] /\ m + 1 \in 1..Len(Ahead)
    BY <1>3, <2>1
  <2>6. CASE Arriving = <<>>
    <3>1. m = 0 /\ Ahead # <<>> /\ Ahead[1] = left[1]
      BY <1>3, <1>5, <2>5, <2>6
    <3>2. Len(received) < k /\ left[1].of = written[Len(received) + 1]
      BY <1>2, <3>1 DEF StartsAt
    <3>3. Len(received) + 1 \in 1..k
      BY <1>2, <3>2
    <3>4. F.id = Len(received) + 1
      BY <1>2, <2>1, <3>2, <3>3
    <3> QED
      BY <1>2, <1>5, <2>2, <2>4, <2>6, <3>4
  <2>7. CASE Arriving # <<>>
    <3>1. m \in 1..m /\ Ahead[m] = Arriving[m] /\ m \in 1..Len(Ahead)
          /\ m \in 1..(Len(Ahead) - 1) /\ m <= m + 1 /\ (m + 1) - m = 1
      BY <1>3, <1>6, <2>5, <2>7
    <3>2. Arriving[m] \in Cell
      BY <1>2, <3>1, ElementOfSeq
    <3>3. Arriving[m].at \in 1..Size(Arriving[m].of)
      BY <1>2, <3>1 DEF Run
    <3>4. Size(Arriving[m].of) \in Nat
      BY <3>2, CellFields, FrameFacts
    <3>5. Arriving[m].at # Size(Arriving[m].of)
      <4> SUFFICES ASSUME Arriving[m].at = Size(Arriving[m].of) PROVE FALSE
        OBVIOUS
      <4>1. Ahead[m].at = Size(Ahead[m].of)
        BY <3>1
      <4>2. Ahead[m + 1].at = 1
        BY <1>2, <3>1, <4>1 DEF Run
      <4> QED
        BY <2>3, <2>5, <4>2
    <3>6. /\ Arriving[m].at < Size(Arriving[m].of)
          /\ Arriving[m].at + 1 <= Size(Arriving[m].of)
          /\ Arriving[m].at <= Size(Arriving[m].of)
      BY <3>3, <3>4, <3>5
    <3>7. Ahead[m].at + ((m + 1) - m) <= Size(Ahead[m].of)
      BY <3>1, <3>6
    <3>8. Ahead[m + 1].of = Ahead[m].of
      BY <1>2, <2>5, <3>1, <3>7 DEF Run
    <3>9. Arriving[m].of = F
      BY <2>1, <2>5, <3>1, <3>8
    <3>10. LastWhole(Arriving[m]) = Arriving[m].of.id - 1
      BY <3>2, <3>6, LastWholeFacts
    <3> QED
      BY <1>4, <2>2, <2>4, <2>7, <3>9, <3>10
  <2> QED
    BY <2>6, <2>7
<1> QED
  BY <1>7, <1>8

\* At the start no call is in progress.
LEMMA PromiseStart == StreamInit => PromiseInv
<1> SUFFICES ASSUME StreamInit PROVE PromiseInv
  OBVIOUS
<1>1. /\ left = <<>> /\ have = <<>> /\ head = NoHeader
      /\ written = <<>> /\ sent = <<>>
  BY DEF StreamInit
<1>2. RestOfFrame
  BY <1>1 DEF RestOfFrame
<1>3. Unfinished
  <2>1. HeaderCells \in Nat \ {0} /\ Len(have) = 0
    BY <1>1, StreamAssumption
  <2> QED
    BY <1>1, <2>1 DEF Unfinished
<1>4. sent = SubSeq(written, 1, Finished)
  <2>1. Finished = 0
    BY <1>1 DEF Finished
  <2>2. SubSeq(written, 1, 0) = <<>>
    BY <1>1
  <2> QED
    BY <1>1, <2>1, <2>2
<1> QED
  BY <1>2, <1>3, <1>4, StreamStart DEF PromiseInv

\* A frame begun: what is not written of it is left, and its send returns when
\* nothing is.
LEMMA BeginSendLeaves ==
  ASSUME PromiseInv, NEW f \in Frame, BeginSend(f)
  PROVE  /\ RestOfFrame'
         /\ torn' = {} /\ ended' = "no" => sent' = SubSeq(written', 1, Finished')
<1> DEFINE w == written
           v == Append(w, f)
           c == Cells(f)
           z == Size(f)
<1>1. /\ left = <<>> /\ ended = "no" /\ written' = v /\ torn' = torn
  BY DEF BeginSend
<1>2. PICK k \in 1..Least(HeaderCells + f.len, Window - Len(wire)) :
        /\ left' = SubSeq(c, k + 1, Len(c))
        /\ sent' = IF k = Len(c) THEN Append(sent, f) ELSE sent
  BY DEF BeginSend, Put
<1>3. StreamTypes /\ w \in Seq(Frame) /\ Len(w) \in Nat /\ wire \in Seq(Cell)
  BY DEF PromiseInv, StreamInv, StreamTypes
<1>4. /\ z \in Nat /\ c \in Seq(Cell) /\ Len(c) = z /\ z = HeaderCells + f.len
      /\ \A i \in 1..z : c[i] = [of |-> f, at |-> i]
  BY FrameFacts, CellsOfFrame
<1>5. k \in 1..z
  <2>1. Window - Len(wire) \in Int
    <3>1. Window \in Nat \ {0}
      BY StreamAssumption
    <3> QED
      BY <1>3, <3>1
  <2>2. k \in 0..z
    BY <1>2, <1>4, <2>1, LeastBound
  <2>3. 1 <= k
    BY <1>2, <1>4, <2>1 DEF Least
  <2> QED
    BY <1>4, <2>2, <2>3
<1> HIDE DEF c, z
<1>6. k \in Nat /\ z \in k..Len(c) /\ Len(c) \in k..Len(c)
  BY <1>4, <1>5
<1>7. /\ left' \in Seq(Cell) /\ Len(left') = z - k
      /\ \A i \in 1..(z - k) : left'[i] = c[k + i]
  BY <1>2, <1>4, <1>6, StretchOf
<1>8. /\ v \in Seq(Frame) /\ Len(v) = Len(w) + 1 /\ v[Len(w) + 1] = f
      /\ \A i \in 1..Len(w) : v[i] = w[i]
  <2>1. v \in Seq(Frame) /\ Len(v) = Len(w) + 1
    BY <1>3
  <2>2. v[Len(w) + 1] = f
    BY <1>3
  <2>3. \A i \in 1..Len(w) : v[i] = w[i]
    BY <1>3
  <2> QED
    BY <2>1, <2>2, <2>3
<1> HIDE DEF v
<1>9. RestOfFrame'
  <2>1. LastFrame' = f /\ written' # <<>>
    BY <1>1, <1>3, <1>8 DEF LastFrame
  <2>2. Len(left') < z /\ z - Len(left') = k
    BY <1>4, <1>5, <1>7
  <2>3. ASSUME NEW i \in 1..Len(left')
        PROVE  left'[i].of = f /\ left'[i].at = (z - Len(left')) + i
    <3>1. i \in 1..(z - k) /\ k + i \in 1..z
      BY <1>4, <1>5, <1>7
    <3>2. left'[i] = [of |-> f, at |-> k + i]
      BY <1>4, <1>7, <3>1
    <3> QED
      BY <2>2, <3>2
  <2>4. Len(left') < Size(f)
    BY <2>2 DEF z
  <2>5. \A i \in 1..Len(left') :
          left'[i].of = f /\ left'[i].at = (Size(f) - Len(left')) + i
    BY <2>3 DEF z
  <2> HIDE DEF w
  <2> QED
    BY <2>1, <2>4, <2>5 DEF RestOfFrame
<1>10. ASSUME torn' = {} PROVE sent' = SubSeq(written', 1, Finished')
  <2>1. sent = w
    <3>1. sent = SubSeq(w, 1, Finished) /\ Finished = Len(w)
      BY <1>1, <1>3, <1>10 DEF PromiseInv, Finished
    <3> QED
      BY <1>3, <3>1, SubSeqFull
  <2>2. left' = <<>> <=> k = z
    <3>1. left' = <<>> <=> Len(left') = 0
      BY <1>7
    <3> QED
      BY <1>4, <1>5, <1>7, <3>1
  <2>3. CASE k = z
    <3>1. Finished' = Len(v)
      BY <1>1, <1>8, <2>2, <2>3 DEF Finished
    <3>2. SubSeq(v, 1, Len(v)) = v
      BY <1>8, SubSeqFull
    <3>3. sent' = v
      BY <1>2, <1>4, <2>1, <2>3 DEF v
    <3> QED
      BY <1>1, <3>1, <3>2, <3>3
  <2>4. CASE k # z
    <3>1. Finished' = Len(w)
      BY <1>1, <1>3, <1>8, <2>2, <2>4 DEF Finished
    <3>2. Len(w) \in 0..Len(w) /\ 0 \in Nat /\ Len(w) <= Len(v) /\ 0 + 1 = 1
      BY <1>3, <1>8
    <3>3. SubSeq(v, 0 + 1, Len(w)) = SubSeq(w, 0 + 1, Len(w))
      BY <1>3, <1>8, <3>2, StretchSame
    <3>4. SubSeq(w, 1, Len(w)) = w
      BY <1>3, SubSeqFull
    <3>5. sent' = w
      BY <1>2, <1>4, <2>1, <2>4
    <3> QED
      BY <1>1, <3>1, <3>2, <3>3, <3>4, <3>5
  <2> QED
    BY <2>3, <2>4
<1> QED
  BY <1>9, <1>10

\* Writing on leaves less of the same frame.
LEMMA GoOnSendingLeaves ==
  ASSUME PromiseInv, GoOnSending
  PROVE  /\ RestOfFrame'
         /\ torn' = {} /\ ended' = "no" => sent' = SubSeq(written', 1, Finished')
<1> DEFINE w == written
           c == left
           l == Len(left)
           z == Size(LastFrame)
<1>1. /\ c # <<>> /\ ended = "no" /\ written' = w /\ torn' = torn
  BY DEF GoOnSending
<1>2. PICK k \in 1..Least(l, Window - Len(wire)) :
        /\ left' = SubSeq(c, k + 1, Len(c))
        /\ sent' = IF k = Len(c) THEN Append(sent, Head(c).of) ELSE sent
  BY DEF GoOnSending, Put
<1>3. StreamTypes /\ w \in Seq(Frame) /\ Len(w) \in Nat /\ wire \in Seq(Cell)
      /\ c \in Seq(Cell)
  BY DEF PromiseInv, StreamInv, StreamTypes
<1>4. /\ w # <<>> /\ l < z
      /\ \A i \in 1..l : c[i].of = LastFrame /\ c[i].at = (z - l) + i
  BY <1>1 DEF PromiseInv, RestOfFrame
<1>5. l \in Nat /\ l # 0 /\ Len(w) \in 1..Len(w) /\ LastFrame \in Frame /\ z \in Nat
  <2>1. l \in Nat /\ l # 0 /\ Len(w) \in 1..Len(w)
    BY <1>1, <1>3, <1>4
  <2>2. LastFrame \in Frame
    BY <1>3, <2>1, ElementOfSeq DEF LastFrame
  <2> QED
    BY <2>1, <2>2, FrameFacts
<1>6. k \in 1..l
  <2>1. Window - Len(wire) \in Int
    <3>1. Window \in Nat \ {0}
      BY StreamAssumption
    <3> QED
      BY <1>3, <3>1
  <2>2. k \in 0..l
    BY <1>2, <1>5, <2>1, LeastBound
  <2>3. 1 <= k
    BY <1>2, <1>5, <2>1 DEF Least
  <2> QED
    BY <1>5, <2>2, <2>3
<1>h. l = Len(c)
  OBVIOUS
<1>i. LastFrame' = LastFrame /\ written' # <<>>
  BY <1>1, <1>4 DEF LastFrame
<1> HIDE DEF c, l, z
<1>7. k \in Nat /\ Len(c) \in k..Len(c)
  BY <1>5, <1>6, <1>h
<1>8. /\ left' \in Seq(Cell) /\ Len(left') = l - k
      /\ \A i \in 1..(l - k) : left'[i] = c[k + i]
  BY <1>2, <1>3, <1>7, <1>h, StretchOf
<1>9. RestOfFrame'
  <2>1. Len(left') < z
    BY <1>4, <1>5, <1>6, <1>8
  <2>2. ASSUME NEW i \in 1..Len(left')
        PROVE  left'[i].of = LastFrame /\ left'[i].at = (z - Len(left')) + i
    <3>1. i \in 1..(l - k) /\ k + i \in 1..l /\ (z - l) + (k + i) = (z - (l - k)) + i
      BY <1>5, <1>6, <1>8
    <3>2. left'[i] = c[k + i]
      BY <1>8, <3>1
    <3>3. c[k + i].of = LastFrame /\ c[k + i].at = (z - l) + (k + i)
      BY <1>4, <3>1
    <3> QED
      BY <1>8, <3>1, <3>2, <3>3
  <2> HIDE DEF w
  <2> QED
    BY <1>i, <2>1, <2>2 DEF RestOfFrame, z
<1>10. ASSUME torn' = {} PROVE sent' = SubSeq(written', 1, Finished')
  <2> DEFINE m == Len(w) - 1
  <2>1. sent = SubSeq(w, 1, m)
    <3>1. Finished = m
      BY <1>1 DEF Finished, c
    <3>2. sent = SubSeq(w, 1, Finished)
      BY <1>1, <1>10 DEF PromiseInv
    <3> QED
      BY <3>1, <3>2
  <2>2. m \in Nat /\ m + 1 = Len(w) /\ m \in 0..Len(w) /\ 0 \in Nat /\ m + 1 <= Len(w)
        /\ 0 + 1 = 1
    BY <1>3, <1>5
  <2>3. left' = <<>> <=> k = l
    <3>1. left' = <<>> <=> Len(left') = 0
      BY <1>8
    <3> QED
      BY <1>5, <1>6, <1>8, <3>1
  <2> HIDE DEF m
  <2>4. CASE k = l
    <3>1. Finished' = m + 1
      BY <1>1, <2>2, <2>3, <2>4 DEF Finished
    <3>2. SubSeq(w, 0 + 1, m + 1) = Append(SubSeq(w, 0 + 1, m), w[m + 1])
      <4>1. \A i \in 1..m : w[i] = w[i]
        OBVIOUS
      <4> QED
        BY <1>3, <2>2, <4>1, StretchMore
    <3>3. Head(c).of = w[m + 1]
      <4>1. 1 \in 1..l /\ Head(c) = c[1]
        BY <1>1, <1>3, <1>5, <1>h
      <4>2. c[1].of = LastFrame
        BY <1>4, <4>1
      <4> QED
        BY <2>2, <4>1, <4>2 DEF LastFrame
    <3>4. sent' = Append(sent, Head(c).of)
      BY <1>2, <1>h, <2>4
    <3> QED
      BY <1>1, <2>1, <2>2, <3>1, <3>2, <3>3, <3>4
  <2>5. CASE k # l
    <3>1. Finished' = m
      BY <1>1, <2>3, <2>5 DEF Finished, m
    <3>2. sent' = sent
      BY <1>2, <1>h, <2>5
    <3> QED
      BY <1>1, <2>1, <3>1, <3>2
  <2> QED
    BY <2>4, <2>5
<1> QED
  BY <1>9, <1>10

\* A step that writes nothing.
LEMMA NothingWritten ==
  ASSUME PromiseInv, StreamInv', written' = written, sent' = sent,
         left' = left \/ (left' = <<>> /\ (ended' # "no" \/ torn' # {})),
         torn' = {} => torn = {}, ended' = "no" => ended = "no",
         torn' = {} => Unfinished'
  PROVE  PromiseInv'
<1>1. RestOfFrame'
  <2>1. LastFrame' = LastFrame
    BY DEF LastFrame
  <2> QED
    BY <2>1 DEF PromiseInv, RestOfFrame
<1>2. torn' = {} /\ ended' = "no" => sent' = SubSeq(written', 1, Finished')
  BY DEF PromiseInv, Finished
<1> QED
  BY <1>1, <1>2 DEF PromiseInv

\* What the promise sees of a stream in step.
PromiseView ==
  /\ written \in Seq(Frame) /\ received \in Seq(Outcome)
  /\ Len(received) \in Nat /\ Len(written) \in Nat /\ WholeSoFar \in Nat
  /\ Len(received) <= WholeSoFar /\ WholeSoFar <= Len(written)
  /\ OnTheWay = SubSeq(written, Len(received) + 1, WholeSoFar)
  /\ ended = "no" => WholeSoFar = Finished
  /\ \A i \in 1..Len(received) : received[i].frame = written[i]

\* What is on the way are the whole frames not yet received, while the connection
\* is up and after.
LEMMA ViewInStep == PromiseInv /\ torn = {} => PromiseView
<1> SUFFICES ASSUME PromiseInv, torn = {} PROVE PromiseView
  OBVIOUS
<1>1. StreamInv
  BY DEF PromiseInv
<1>2. /\ StreamTypes /\ InStep /\ written \in Seq(Frame)
      /\ Len(written) \in Nat /\ Len(received) \in Nat
  BY <1>1, ArrivingFacts
<1>3. /\ WholeSoFar \in Nat /\ Len(received) <= WholeSoFar
      /\ WholeSoFar <= Len(written)
  BY <1>1, WholeRange
<1>4. ended = "no" => WholeSoFar = Finished
  BY SentAreWhole
<1>5. OnTheWay = SubSeq(written, Len(received) + 1, WholeSoFar)
  <2>1. CASE ended # "no"
    BY <2>1 DEF OnTheWay, WholeSoFar, Arriving
  <2>2. CASE ended = "no"
    <3> DEFINE w == written
               m == Len(received)
               l == WholeSoFar
    <3>1. OnTheWay = SubSeq(sent, m + 1, Len(sent))
      BY <2>2 DEF OnTheWay
    <3>2. sent = SubSeq(w, 1, l)
      BY <1>4, <2>2 DEF PromiseInv
    <3>3. w \in Seq(Frame) /\ 0 \in Nat /\ l \in 0..Len(w) /\ l \in m..Len(w)
          /\ 0 + 1 = 1 /\ l - 0 = l /\ m \in Nat /\ l \in Nat
      BY <1>2, <1>3
    <3> HIDE DEF w, m, l
    <3>4. /\ sent \in Seq(Frame) /\ Len(sent) = l
          /\ \A i \in 1..l : sent[i] = w[0 + i]
      <4>1. /\ SubSeq(w, 0 + 1, l) \in Seq(Frame)
            /\ Len(SubSeq(w, 0 + 1, l)) = l - 0
            /\ \A i \in 1..(l - 0) : SubSeq(w, 0 + 1, l)[i] = w[0 + i]
        BY <3>3, StretchOf
      <4> QED
        BY <3>2, <3>3, <4>1
    <3>5. \A i \in 1..l : sent[i] = w[i] /\ l <= Len(sent)
      BY <3>3, <3>4
    <3>6. l <= Len(sent)
      BY <3>3, <3>4
    <3>7. SubSeq(sent, m + 1, l) = SubSeq(w, m + 1, l)
      <4>1. \A i \in 1..l : sent[i] = w[i]
        BY <3>5
      <4> QED
        BY <3>3, <3>4, <3>6, <4>1, StretchSame
    <3> QED
      BY <3>1, <3>4, <3>7 DEF w, m, l
  <2> QED
    BY <2>1, <2>2
<1>6. \A i \in 1..Len(received) : received[i].frame = written[i]
  BY <1>2 DEF InStep, InPlace
<1> QED
  BY <1>2, <1>3, <1>4, <1>5, <1>6 DEF PromiseView, StreamTypes

\* What has been received, when receive returns.
LEMMA DeliveredMore ==
  ASSUME received \in Seq(Outcome), NEW r, r.frame \in Frame \cup {NoFrame},
         received' = Append(received, r), r \in Outcome
  PROVE  Delivered' = Append(Delivered, r.frame)
<1> DEFINE n == Len(received)
           D == [i \in 1..n |-> received[i].frame]
           M == Frame \cup {NoFrame}
<1>1. /\ n \in Nat /\ Len(received') = n + 1
      /\ \A i \in 1..n : received'[i] = received[i]
      /\ received'[n + 1] = r
  BY AppendProperties
<1>2. ASSUME NEW i \in 1..n PROVE received[i].frame \in M
  <2>1. received[i] \in Outcome
    BY ElementOfSeq
  <2> QED
    BY <2>1 DEF Outcome
<1>3. D \in Seq(M) /\ Len(D) = n /\ \A i \in 1..n : D[i] = received[i].frame
  <2>1. D \in [1..n -> M]
    BY <1>2
  <2> HIDE DEF M
  <2>2. D \in Seq(M) /\ Len(D) = n
    BY <1>1, <2>1, LenProperties
  <2> QED
    BY <2>2
<1> DEFINE E == [i \in 1..(n + 1) |-> received'[i].frame]
<1>4. Delivered = D /\ Delivered' = E
  BY <1>1 DEF Delivered
<1> HIDE DEF n, D
<1>5. /\ Append(D, r.frame) \in Seq(M) /\ Len(Append(D, r.frame)) = n + 1
      /\ \A i \in 1..n : Append(D, r.frame)[i] = D[i]
      /\ Append(D, r.frame)[n + 1] = r.frame
  BY <1>3, AppendProperties
<1>6. ASSUME NEW i \in 1..(n + 1) PROVE E[i] = Append(D, r.frame)[i]
  <2>1. CASE i = n + 1
    BY <1>1, <1>5, <2>1
  <2>2. CASE i # n + 1
    <3>1. i \in 1..n
      BY <1>1, <2>2
    <3> QED
      BY <1>1, <1>3, <1>5, <3>1
  <2> QED
    BY <2>1, <2>2
<1>7. E \in Seq(M) /\ Len(E) = n + 1
  <2>1. \A i \in 1..(n + 1) : E[i] \in M
    BY <1>5, <1>6, ElementOfSeq
  <2>2. E \in [1..(n + 1) -> M]
    BY <2>1
  <2> HIDE DEF M, E
  <2>3. n + 1 \in Nat
    BY <1>1
  <2> QED
    BY <2>2, <2>3, LenProperties
<1> HIDE DEF E, M
<1>8. E = Append(D, r.frame)
  BY <1>5, <1>6, <1>7, SeqEqual
<1> QED
  BY <1>4, <1>8

\* What the promise sees of a step, as an action of its own.
PromiseStep == [Promise!MessageNext]_(Promise!messageVars)

\* Nothing happens to messages.
LEMMA NoMessage ==
  ASSUME OnTheWay' = OnTheWay, Delivered' = Delivered,
         torn' = {} <=> torn = {}, ended' = "no" <=> ended = "no"
  PROVE  PromiseStep
<1>1. (ended' = "no") = (ended = "no") /\ (torn' = {}) = (torn = {})
  OBVIOUS
<1> QED
  BY <1>1 DEF PromiseStep, Promise!messageVars

\* Nothing happens to messages in a stream in step.
LEMMA SameWhole ==
  ASSUME PromiseView, PromiseView', torn = {}, torn' = {}, written' = written,
         received' = received, ended' = ended, WholeSoFar' = WholeSoFar
  PROVE  PromiseStep
<1>1. OnTheWay' = OnTheWay
  BY DEF PromiseView
<1>2. Delivered' = Delivered
  BY DEF Delivered
<1> QED
  BY <1>1, <1>2, NoMessage

\* A send that returns adds its message.
LEMMA MessageSent ==
  ASSUME PromiseView, PromiseView', torn = {}, torn' = {}, ended = "no",
         ended' = "no", received' = received,
         \A i \in 1..WholeSoFar : written'[i] = written[i],
         WholeSoFar' \in {WholeSoFar, WholeSoFar + 1}
  PROVE  PromiseStep
<1> DEFINE w == written
           v == written'
           m == Len(received)
           l == WholeSoFar
<1>1. /\ w \in Seq(Frame) /\ v \in Seq(Frame) /\ m \in Nat /\ l \in m..Len(w)
      /\ Len(v) \in Nat /\ l \in Nat /\ m <= l
      /\ OnTheWay = SubSeq(w, m + 1, l)
      /\ \A i \in 1..l : v[i] = w[i]
  BY DEF PromiseView
<1>2. OnTheWay' = SubSeq(v, m + 1, WholeSoFar') /\ WholeSoFar' <= Len(v)
  BY DEF PromiseView
<1>d. Delivered' = Delivered
  BY DEF Delivered
<1> HIDE DEF w, v, m
<1>3. CASE WholeSoFar' = l
  <2>1. l <= Len(v)
    BY <1>2, <1>3
  <2> HIDE DEF l
  <2>2. SubSeq(v, m + 1, l) = SubSeq(w, m + 1, l)
    BY <1>1, <2>1, StretchSame
  <2>3. OnTheWay' = OnTheWay
    BY <1>1, <1>2, <1>3, <2>2
  <2> QED
    BY <1>d, <2>3, NoMessage
<1>4. CASE WholeSoFar' = l + 1
  <2>1. l + 1 <= Len(v) /\ l + 1 \in 1..Len(v)
    BY <1>1, <1>2, <1>4
  <2> HIDE DEF l
  <2>2. SubSeq(v, m + 1, l + 1) = Append(SubSeq(w, m + 1, l), v[l + 1])
    BY <1>1, <2>1, StretchMore
  <2>3. v[l + 1] \in Frame
    BY <1>1, <2>1, ElementOfSeq
  <2>4. OnTheWay' = Append(OnTheWay, v[l + 1])
    BY <1>1, <1>2, <1>4, <2>2
  <2>5. Promise!Send(v[l + 1])
    BY <1>d, <2>4 DEF Promise!Send
  <2>6. Promise!MessageNext
    BY <2>3, <2>5 DEF Promise!MessageNext
  <2> QED
    BY <2>6 DEF PromiseStep
<1> QED
  BY <1>3, <1>4

\* A receive that returns takes the oldest message.
LEMMA MessageReceived ==
  ASSUME PromiseView, PromiseView', torn = {}, torn' = {}, ended' = ended,
         written' = written, NEW r \in Outcome, received' = Append(received, r),
         WholeSoFar' = WholeSoFar
  PROVE  PromiseStep
<1> DEFINE w == written
           m == Len(received)
           l == WholeSoFar
<1>1. /\ received \in Seq(Outcome) /\ Len(received') = m + 1 /\ received'[m + 1] = r
      /\ r.frame \in Frame \cup {NoFrame}
  <2>1. received \in Seq(Outcome)
    BY DEF PromiseView
  <2> QED
    BY <2>1, AppendProperties DEF Outcome
<1>2. /\ w \in Seq(Frame) /\ m \in Nat /\ Len(w) \in Nat /\ l \in Nat
      /\ l <= Len(w) /\ OnTheWay = SubSeq(w, m + 1, l)
  BY DEF PromiseView
<1>3. /\ m + 1 <= l /\ OnTheWay' = SubSeq(w, (m + 1) + 1, l)
      /\ r.frame = w[m + 1]
  <2>1. m + 1 \in 1..Len(received')
    BY <1>1, <1>2
  <2> QED
    BY <1>1, <2>1 DEF PromiseView
<1>4. Delivered' = Append(Delivered, r.frame)
  BY <1>1, DeliveredMore
<1> HIDE DEF w, m, l
<1>5. l \in (m + 1)..Len(w)
  BY <1>2, <1>3
<1>6. /\ OnTheWay # <<>> /\ Head(OnTheWay) = w[m + 1]
      /\ Tail(OnTheWay) = SubSeq(w, (m + 1) + 1, l)
  BY <1>2, <1>5, StretchTail
<1>7. Promise!Receive
  BY <1>3, <1>4, <1>6 DEF Promise!Receive
<1>8. Promise!MessageNext
  BY <1>7 DEF Promise!MessageNext
<1> QED
  BY <1>8 DEF PromiseStep

\* The connection ends, and the first few messages on the way arrive.
LEMMA ConnectionEnds ==
  ASSUME PromiseView, PromiseView', torn = {}, torn' = {}, ended = "no", ended' # "no",
         written' = written, received' = received, WholeSoFar' <= WholeSoFar
  PROVE  PromiseStep
<1> DEFINE w == written
           m == Len(received)
           l == WholeSoFar
           k == WholeSoFar'
<1>1. /\ w \in Seq(Frame) /\ m \in Nat /\ l \in m..Len(w) /\ k \in m..l
      /\ OnTheWay = SubSeq(w, m + 1, l) /\ OnTheWay' = SubSeq(w, m + 1, k)
      /\ l \in Nat /\ k \in Nat /\ m <= k /\ k <= l
  BY DEF PromiseView
<1>d. Delivered' = Delivered
  BY DEF Delivered
<1> HIDE DEF w, m, l, k
<1>2. SubSeq(w, m + 1, k) = SubSeq(SubSeq(w, m + 1, l), 1, k - m)
  BY <1>1, StretchCut
<1>3. Len(OnTheWay) = l - m
  BY <1>1, StretchOf
<1>4. k - m \in 0..Len(OnTheWay)
  BY <1>1, <1>3
<1>5. Promise!End
  BY <1>1, <1>2, <1>4, <1>d DEF Promise!End
<1>6. Promise!MessageNext
  BY <1>5 DEF Promise!MessageNext
<1> QED
  BY <1>6 DEF PromiseStep

\* A call ends in the middle of a frame, or did before.
LEMMA NoPromise ==
  ASSUME StreamTypes, torn' # {}, ended' = ended \/ ended' # "no",
         torn = {} => ended' = ended,
         \/ received' = received
         \/ \E r \in Outcome : received' = Append(received, r)
  PROVE  PromiseStep
<1>1. received \in Seq(Outcome)
  BY DEF StreamTypes
<1>2. OnTheWay' = <<>>
  BY DEF OnTheWay
<1>3. Delivered' = Delivered \/ Promise!ReceivesAnything
  <2>1. CASE received' = received
    BY <2>1 DEF Delivered
  <2>2. CASE \E r \in Outcome : received' = Append(received, r)
    <3>1. PICK r \in Outcome : received' = Append(received, r)
      BY <2>2
    <3>2. r.frame \in Frame \cup {NoFrame}
      BY DEF Outcome
    <3>3. Delivered' = Append(Delivered, r.frame)
      BY <1>1, <3>1, <3>2, DeliveredMore
    <3> QED
      BY <3>2, <3>3 DEF Promise!ReceivesAnything
  <2> QED
    BY <2>1, <2>2
<1>4. CASE torn = {}
  <2>1. (ended' = "no") = (ended = "no") /\ (torn' = {}) = FALSE
    BY <1>4
  <2>2. Promise!Lapse
    BY <1>2, <1>3, <1>4, <2>1 DEF Promise!Lapse
  <2> QED
    BY <2>2 DEF PromiseStep, Promise!MessageNext
<1>5. CASE torn # {}
  <2>1. OnTheWay = <<>>
    BY <1>5 DEF OnTheWay
  <2>2. (torn' = {}) = (torn = {}) /\ (ended' = "no") \in {ended = "no", FALSE}
    BY <1>5
  <2>3. Promise!Stray
    BY <1>2, <1>3, <1>5, <2>1, <2>2 DEF Promise!Stray
  <2> QED
    BY <2>3 DEF PromiseStep, Promise!MessageNext
<1> QED
  BY <1>4, <1>5

\* The view holds before and after a step, as long as the reader is in step.
LEMMA ViewsInStep ==
  /\ PromiseInv /\ torn = {} => PromiseView
  /\ PromiseInv' /\ torn' = {} => PromiseView'
<1>1. (PromiseInv /\ torn = {} => PromiseView)'
  BY ViewInStep, PTL
<1> QED
  BY <1>1, ViewInStep

\* PromiseInv holds the types and the stream's own invariant.
LEMMA TypesOf == PromiseInv => StreamTypes /\ StreamInv
BY DEF PromiseInv, StreamInv

\* The cells that can still arrive after the reader took some of the stream.
LEMMA ArrivingLeft ==
  ASSUME StreamTypes, NEW k \in 0..Len(wire)
  PROVE  /\ have \o SubSeq(wire, 1, k) \in Seq(Cell)
         /\ Len(have \o SubSeq(wire, 1, k)) = Len(have) + k
         /\ SubSeq(wire, k + 1, Len(wire)) \in Seq(Cell)
         /\ (have \o SubSeq(wire, 1, k)) \o SubSeq(wire, k + 1, Len(wire)) = Arriving
<1>1. have \in Seq(Cell) /\ wire \in Seq(Cell)
  BY AheadTypes
<1> DEFINE x == SubSeq(wire, 1, k)
           y == SubSeq(wire, k + 1, Len(wire))
<1>2. x \in Seq(Cell) /\ y \in Seq(Cell) /\ x \o y = wire /\ Len(x) = k
  BY <1>1, TwoParts
<1> HIDE DEF x, y
<1>3. have \o x \in Seq(Cell) /\ Len(have \o x) = Len(have) + k
  <2>1. have \o x \in Seq(Cell) /\ Len(have \o x) = Len(have) + Len(x)
    BY <1>1, <1>2, ConcatProperties
  <2> QED
    BY <1>2, <2>1
<1>4. (have \o x) \o y = have \o (x \o y)
  <2>1. have \in Seq(Cell) /\ x \in Seq(Cell) /\ y \in Seq(Cell)
    BY <1>1, <1>2
  <2> QED
    BY <2>1
<1> QED
  BY <1>2, <1>3, <1>4 DEF x, y, Arriving

\* The newest cell of two parts is that of the second, if it has any.
LEMMA NewestCell ==
  ASSUME NEW a \in Seq(Cell), NEW b \in Seq(Cell)
  PROVE  /\ b # <<>> => a \o b # <<>> /\ (a \o b)[Len(a \o b)] = b[Len(b)]
         /\ a \o <<>> = a
<1>1. a \o <<>> = a
  OBVIOUS
<1>2. ASSUME b # <<>> PROVE a \o b # <<>> /\ (a \o b)[Len(a \o b)] = b[Len(b)]
  <2>1. Len(b) \in Nat /\ Len(b) # 0 /\ Len(a) \in Nat /\ Len(b) \in 1..Len(b)
    BY <1>2
  <2>2. a \o b \in Seq(Cell) /\ Len(a \o b) = Len(a) + Len(b)
    OBVIOUS
  <2>3. (a \o b)[Len(a) + Len(b)] = b[Len(b)]
    BY <2>1
  <2>4. a \o b # <<>>
    BY <2>1, <2>2
  <2> QED
    BY <2>2, <2>3, <2>4
<1> QED
  BY <1>1, <1>2

\* The reader took cells off the front: what is whole does not change, unless
\* nothing is left of the stream.
LEMMA FrontTaken ==
  ASSUME StreamTypes, NEW k \in 0..Len(wire), wire' = SubSeq(wire, k + 1, Len(wire)),
         have' = <<>>,
         LET cells == have \o SubSeq(wire, 1, k) IN
           /\ cells # <<>>
           /\ LastWhole(cells[Len(cells)]) = Len(received')
  PROVE  WholeSoFar' = WholeSoFar
<1> DEFINE a == have \o SubSeq(wire, 1, k)
           b == SubSeq(wire, k + 1, Len(wire))
<1>1. a \in Seq(Cell) /\ b \in Seq(Cell) /\ Arriving = a \o b
  BY ArrivingLeft
<1>2. a # <<>> /\ LastWhole(a[Len(a)]) = Len(received')
  OBVIOUS
<1>3. Arriving' = b
  <2>1. <<>> \o b = b
    BY <1>1
  <2> QED
    BY <2>1 DEF Arriving
<1> HIDE DEF a, b
<1>4. CASE b = <<>>
  <2>1. Arriving = a
    BY <1>1, <1>4, NewestCell
  <2>2. WholeSoFar = LastWhole(a[Len(a)])
    BY <1>2, <2>1 DEF WholeSoFar, WholeUpTo
  <2>3. WholeSoFar' = Len(received')
    BY <1>3, <1>4 DEF WholeSoFar, WholeUpTo
  <2> QED
    BY <1>2, <2>2, <2>3
<1>5. CASE b # <<>>
  <2>1. Arriving # <<>> /\ Arriving[Len(Arriving)] = b[Len(b)]
    BY <1>1, <1>5, NewestCell
  <2>2. WholeSoFar = LastWhole(b[Len(b)])
    BY <2>1 DEF WholeSoFar, WholeUpTo
  <2>3. WholeSoFar' = LastWhole(b[Len(b)])
    BY <1>3, <1>5 DEF WholeSoFar, WholeUpTo
  <2> QED
    BY <2>2, <2>3
<1> QED
  BY <1>4, <1>5

-----------------------------------------------------------------------------
\* Writing a frame is a send when its last cell is written.
LEMMA SendingKeeps ==
  ASSUME PromiseInv, (\E f \in Frame : BeginSend(f)) \/ GoOnSending
  PROVE  PromiseInv' /\ PromiseStep
<1>1. /\ ended = "no" /\ ended' = "no"
      /\ head' = head /\ have' = have /\ received' = received /\ torn' = torn
  BY DEF BeginSend, GoOnSending
<1>2. StreamInv'
  BY BeginSendStep, GoOnSendingStep DEF PromiseInv
<1>3. /\ RestOfFrame'
      /\ torn' = {} /\ ended' = "no" => sent' = SubSeq(written', 1, Finished')
  BY BeginSendLeaves, GoOnSendingLeaves
<1>4. torn' = {} => Unfinished'
  BY <1>1 DEF PromiseInv, Unfinished
<1>5. PromiseInv'
  BY <1>2, <1>3, <1>4 DEF PromiseInv
<1>6. CASE torn # {}
  <2>1. StreamTypes
    BY TypesOf
  <2> QED
    BY <1>1, <1>5, <1>6, <2>1, NoPromise
<1>7. CASE torn = {}
  <2>1. PromiseView /\ PromiseView'
    BY <1>1, <1>5, <1>7, ViewsInStep
  <2>2. /\ WholeSoFar = Finished /\ WholeSoFar' = Finished' /\ Len(written) \in Nat
        /\ WholeSoFar \in Nat /\ WholeSoFar <= Len(written) /\ written \in Seq(Frame)
    BY <1>1, <2>1 DEF PromiseView
  <2>0. /\ Finished \in {Len(written), Len(written) - 1}
        /\ left = <<>> => Finished = Len(written)
        /\ left # <<>> => Finished = Len(written) - 1
    BY <2>2 DEF Finished
  <2>5. /\ Finished' \in {Len(written'), Len(written') - 1}
        /\ Len(written') \in Nat
    <3>1. Len(written') \in Nat
      BY <2>1 DEF PromiseView
    <3>2. CASE left' = <<>>
      BY <3>1, <3>2 DEF Finished
    <3>3. CASE left' # <<>>
      BY <3>1, <3>3 DEF Finished
    <3> QED
      BY <3>1, <3>2, <3>3
  <2>3. CASE \E f \in Frame : BeginSend(f)
    <3>1. PICK f \in Frame : left = <<>> /\ written' = Append(written, f)
      BY <2>3 DEF BeginSend
    <3>2. /\ Len(written') = Len(written) + 1
          /\ \A i \in 1..Len(written) : written'[i] = written[i]
      BY <2>2, <3>1
    <3>3. WholeSoFar = Len(written)
      BY <2>0, <2>2, <3>1
    <3>4. WholeSoFar' \in {WholeSoFar, WholeSoFar + 1}
      BY <2>2, <2>5, <3>2, <3>3
    <3>5. \A i \in 1..WholeSoFar : written'[i] = written[i]
      BY <3>2, <3>3
    <3> QED
      BY <1>1, <1>5, <1>7, <2>1, <3>4, <3>5, MessageSent
  <2>4. CASE GoOnSending
    <3>1. left # <<>> /\ written' = written
      BY <2>4 DEF GoOnSending
    <3>2. WholeSoFar' \in {WholeSoFar, WholeSoFar + 1}
      BY <2>0, <2>2, <2>5, <3>1
    <3> QED
      BY <1>1, <1>5, <1>7, <2>1, <3>1, <3>2, MessageSent
  <2> QED
    BY <2>3, <2>4
<1> QED
  BY <1>5, <1>6, <1>7

\* A send that ends early adds no message.
LEMMA SendingEndsKeeps ==
  ASSUME PromiseInv, CancelSend \/ SendFails
  PROVE  PromiseInv' /\ PromiseStep
<1>1. /\ left' = <<>>
      /\ UNCHANGED <<wire, head, have, written, sent, received, ended>>
      /\ \/ torn' = torn \cup {"dropped"}
         \/ torn' = torn /\ ended # "no"
  BY DEF CancelSend, SendFails
<1>2. StreamInv'
  BY CancelSendStep, SendFailsStep DEF PromiseInv
<1>3. torn' = {} => torn = {}
  BY <1>1
<1>4. torn' = {} => Unfinished'
  BY <1>1, <1>3 DEF PromiseInv, Unfinished
<1>5. ended' # "no" \/ torn' # {}
  BY <1>1
<1>6. PromiseInv'
  BY <1>1, <1>2, <1>3, <1>4, <1>5, NothingWritten
<1>7. CASE torn' # {}
  <2>1. StreamTypes
    BY TypesOf
  <2> QED
    BY <1>1, <1>6, <1>7, <2>1, NoPromise
<1>8. CASE torn' = {}
  <2>1. WholeSoFar' = WholeSoFar
    BY <1>1 DEF WholeSoFar, WholeUpTo, Arriving
  <2>2. PromiseView /\ PromiseView'
    BY <1>3, <1>6, <1>8, ViewsInStep
  <2> QED
    BY <1>1, <1>3, <1>6, <1>8, <2>1, <2>2, SameWhole
<1> QED
  BY <1>7, <1>8

\* A dropped receive ends the promise.
LEMMA CancelReceiveKeeps ==
  ASSUME PromiseInv, CancelReceive
  PROVE  PromiseInv' /\ PromiseStep
<1>1. /\ torn' = torn \cup {"dropped"}
      /\ UNCHANGED <<wire, left, written, sent, received, ended>>
  BY DEF CancelReceive
<1>2. StreamInv'
  BY CancelReceiveStep DEF PromiseInv
<1>3. torn' # {}
  BY <1>1
<1>4. PromiseInv'
  BY <1>1, <1>2, <1>3, NothingWritten
<1>5. StreamTypes
  BY TypesOf
<1> QED
  BY <1>1, <1>3, <1>4, <1>5, NoPromise

\* The frame a reader in step has come to, when some of it has arrived.
LEMMA FrameDue ==
  ASSUME StreamInv, torn = {}, Arriving # <<>>
  PROVE  LET f == written[Len(received) + 1] IN
         /\ Len(received) < Len(written) /\ Len(received) \in Nat
         /\ f \in Frame /\ f.id = Len(received) + 1
         /\ Size(f) = HeaderCells + f.len /\ f.len \in Nat /\ Size(f) \in Nat
         /\ HeaderCells \in Nat \ {0} /\ Arriving \in Seq(Cell)
<1> DEFINE n == Len(received)
           f == written[n + 1]
<1>1. /\ written \in Seq(Frame) /\ \A i \in 1..Len(written) : written[i].id = i
      /\ Len(written) \in Nat /\ n \in Nat /\ Arriving \in Seq(Cell)
      /\ StartsAt(Arriving, written, n, Offset)
  BY ArrivingFacts
<1>2. n < Len(written)
  BY <1>1 DEF StartsAt
<1>3. n + 1 \in 1..Len(written)
  BY <1>1, <1>2
<1>4. f \in Frame /\ f.id = n + 1
  BY <1>1, <1>3, ElementOfSeq
<1>5. /\ Size(f) = HeaderCells + f.len /\ f.len \in Nat /\ Size(f) \in Nat
      /\ HeaderCells \in Nat \ {0}
  BY <1>4, FrameFacts
<1> QED
  BY <1>1, <1>2, <1>4, <1>5

\* Whether the last cell taken from the frame that is due makes it whole.
LEMMA DueWhole ==
  ASSUME StreamInv, torn = {}, NEW i \in 1..Len(Arriving),
         Offset + i <= Size(written[Len(received) + 1])
  PROVE  /\ Offset + i = Size(written[Len(received) + 1]) =>
              LastWhole(Arriving[i]) = Len(received) + 1
         /\ Offset + i < Size(written[Len(received) + 1]) =>
              LastWhole(Arriving[i]) = Len(received)
<1> DEFINE n == Len(received)
           f == written[n + 1]
           c == Arriving[i]
<1>1. c.of = f /\ c.at = Offset + i
  BY FrontCells
<1>2. Arriving # <<>> /\ Arriving \in Seq(Cell)
  <2>1. Arriving \in Seq(Cell)
    BY ArrivingFacts
  <2> QED
    BY <2>1
<1>3. n \in Nat /\ f.id = n + 1
  BY <1>2, FrameDue
<1>4. c \in Cell
  BY <1>2, ElementOfSeq
<1> HIDE DEF n, f, c
<1>5. c.at <= Size(c.of)
  BY <1>1 DEF f, n
<1>6. /\ c.at = Size(c.of) => LastWhole(c) = n + 1
      /\ c.at < Size(c.of) => LastWhole(c) = (n + 1) - 1
  BY <1>1, <1>3, <1>4, <1>5, LastWholeFacts
<1>7. (n + 1) - 1 = n
  BY <1>3
<1> QED
  BY <1>1, <1>6, <1>7 DEF c, f, n

\* A header read by a reader in step ends its frame if it announces no payload.
LEMMA HeaderTaken ==
  ASSUME PromiseInv, torn = {}, head = NoHeader, NEW k \in 0..Len(wire),
         NEW cells, cells = have \o SubSeq(wire, 1, k),
         Len(cells) = HeaderCells, NEW d \in Decoded(cells)
  PROVE  /\ cells # <<>> /\ d.len \in Nat
         /\ d.len > 0 => LastWhole(cells[Len(cells)]) = Len(received)
         /\ d.len = 0 => LastWhole(cells[Len(cells)]) = Len(received) + 1
<1> DEFINE rest == SubSeq(wire, k + 1, Len(wire))
           n == Len(received)
           f == written[n + 1]
<1>1. StreamTypes /\ StreamInv
  BY TypesOf
<1>2. cells \in Seq(Cell) /\ rest \in Seq(Cell) /\ cells \o rest = Arriving
  BY <1>1, ArrivingLeft
<1>3. HeaderCells \in Nat \ {0} /\ Offset = 0
  BY StreamAssumption DEF Offset
<1>4. cells # <<>> /\ HeaderCells \in 1..Len(cells)
  BY <1>2, <1>3
<1> HIDE DEF rest
<1>5. /\ Len(Arriving) = Len(cells) + Len(rest) /\ Len(rest) \in Nat
      /\ Arriving # <<>> /\ \A i \in 1..Len(cells) : Arriving[i] = cells[i]
  <2> DEFINE q == cells \o rest
  <2>1. Len(q) = Len(cells) + Len(rest) /\ Len(rest) \in Nat
    BY <1>2
  <2>2. \A i \in 1..Len(cells) : q[i] = cells[i]
    BY <1>2
  <2> HIDE DEF q
  <2>3. Len(cells) \in Nat /\ Len(cells) # 0
    BY <1>2, <1>4
  <2>4. q = Arriving
    BY <1>2 DEF q
  <2>5. Len(q) # 0
    BY <2>1, <2>3
  <2>6. q # <<>>
    BY <2>5
  <2> QED
    BY <2>1, <2>2, <2>4, <2>6
<1>6. f \in Frame /\ Size(f) = HeaderCells + f.len /\ f.len \in Nat
  BY <1>1, <1>5, FrameDue
<1> HIDE DEF f, n
<1>7. ASSUME NEW i \in 1..Len(cells)
      PROVE  i \in 1..Len(Arriving) /\ Offset + i <= Size(f) /\ Offset + i = i
  BY <1>3, <1>5, <1>6
<1>8. \A i \in 1..Len(cells) : cells[i].of = f /\ cells[i].at = i
  BY <1>1, <1>5, <1>7, FrontCells DEF f, n
<1>9. Decoded(cells) = {[of |-> f, len |-> f.len, ok |-> f.origin # "other header"]}
  BY <1>2, <1>6, <1>8, HeaderOfFrame
<1>10. d.len = f.len
  <2> DEFINE e == [of |-> f, len |-> f.len, ok |-> f.origin # "other header"]
  <2>1. e.len = f.len
    OBVIOUS
  <2>2. Decoded(cells) = {e}
    BY <1>9
  <2> HIDE DEF e
  <2>3. d = e
    BY <2>2
  <2> QED
    BY <2>1, <2>3
<1>11. Len(cells) \in 1..Len(cells) /\ Arriving[Len(cells)] = cells[Len(cells)]
  BY <1>4, <1>5
<1>12. /\ Len(cells) = Size(f) => LastWhole(cells[Len(cells)]) = n + 1
       /\ Len(cells) < Size(f) => LastWhole(cells[Len(cells)]) = n
  BY <1>1, <1>7, <1>11, DueWhole DEF f, n
<1>13. /\ f.len = 0 => Len(cells) = Size(f)
       /\ f.len > 0 => Len(cells) < Size(f)
  BY <1>3, <1>6
<1> QED
  BY <1>4, <1>6, <1>10, <1>12, <1>13 DEF n

\* A payload read by a reader in step ends its frame.
LEMMA PayloadTaken ==
  ASSUME PromiseInv, torn = {}, head # NoHeader, NEW k \in 0..Len(wire),
         NEW cells, cells = have \o SubSeq(wire, 1, k), Len(cells) = head.len
  PROVE  cells # <<>> /\ LastWhole(cells[Len(cells)]) = Len(received) + 1
<1> DEFINE rest == SubSeq(wire, k + 1, Len(wire))
           n == Len(received)
           f == written[n + 1]
<1>1. StreamTypes /\ StreamInv /\ InStep
  BY TypesOf DEF StreamInv
<1>2. cells \in Seq(Cell) /\ rest \in Seq(Cell) /\ cells \o rest = Arriving
  BY <1>1, ArrivingLeft
<1>3. HeaderCells \in Nat \ {0} /\ Offset = HeaderCells
  BY StreamAssumption DEF Offset
<1>4. head.len = f.len /\ head.len > 0
  BY <1>1 DEF InStep
<1>d. head.len \in Nat
  BY <1>1 DEF StreamTypes
<1> HIDE DEF f
<1>e. Len(cells) \in Nat /\ Len(cells) > 0
  BY <1>4, <1>d
<1>5. cells # <<>> /\ Len(cells) \in 1..Len(cells)
  <2>1. cells # <<>>
    BY <1>e
  <2> QED
    BY <1>e, <2>1
<1> USE DEF f
<1> HIDE DEF rest
<1>6. Len(cells) \in 1..Len(Arriving) /\ Arriving # <<>>
      /\ Arriving[Len(cells)] = cells[Len(cells)]
  <2> DEFINE q == cells \o rest
  <2>1. Len(q) = Len(cells) + Len(rest) /\ Len(rest) \in Nat /\ Len(cells) \in Nat
    BY <1>2
  <2>2. \A i \in 1..Len(cells) : q[i] = cells[i]
    BY <1>2
  <2> HIDE DEF q
  <2>3. Len(q) # 0
    BY <1>e, <2>1
  <2>4. q = Arriving
    BY <1>2 DEF q
  <2>5. q # <<>>
    BY <2>3
  <2> QED
    BY <1>5, <2>1, <2>2, <2>4, <2>5
<1>7. f \in Frame /\ Size(f) = HeaderCells + f.len /\ f.len \in Nat
  BY <1>1, <1>6, FrameDue
<1> HIDE DEF f, n
<1>8. Offset + Len(cells) = Size(f) /\ Offset + Len(cells) <= Size(f)
  BY <1>3, <1>4, <1>7
<1>9. LastWhole(cells[Len(cells)]) = n + 1
  BY <1>1, <1>6, <1>8, DueWhole DEF f, n
<1> QED
  BY <1>5, <1>9 DEF n

\* What the reader holds of its present call makes no frame whole.
LEMMA HeldIsUnfinished ==
  ASSUME PromiseInv, torn = {}, wire = <<>>
  PROVE  WholeSoFar = Len(received)
<1> DEFINE n == Len(received)
           f == written[n + 1]
           i == Len(have)
<1>1. StreamTypes /\ StreamInv /\ InStep /\ Unfinished
  BY TypesOf DEF StreamInv, PromiseInv
<1>2. Arriving = have /\ have \in Seq(Cell)
  <2>1. have \in Seq(Cell)
    BY <1>1, AheadTypes
  <2> QED
    BY <2>1, NewestCell DEF Arriving
<1>3. CASE have = <<>>
  BY <1>2, <1>3 DEF WholeSoFar, WholeUpTo
<1>4. CASE have # <<>>
  <2>1. i \in 1..Len(Arriving) /\ Arriving # <<>> /\ i \in Nat
    BY <1>2, <1>4
  <2>2. f \in Frame /\ Size(f) = HeaderCells + f.len /\ f.len \in Nat
        /\ HeaderCells \in Nat \ {0}
    BY <1>1, <2>1, FrameDue
  <2>3. Offset + i < Size(f)
    <3>1. CASE head = NoHeader
      <4>1. Offset = 0 /\ i < HeaderCells
        BY <1>1, <3>1 DEF Offset, Unfinished
      <4> HIDE DEF f, i
      <4> QED
        BY <2>1, <2>2, <4>1
    <3>2. CASE head # NoHeader
      <4>1. Offset = HeaderCells /\ i < head.len
        BY <1>1, <3>2 DEF Offset, Unfinished
      <4>2. head.len = f.len
        BY <1>1, <3>2 DEF InStep
      <4> HIDE DEF f, i
      <4> QED
        BY <2>1, <2>2, <4>1, <4>2
    <3> QED
      BY <3>1, <3>2
  <2>4. Offset + i <= Size(f)
    <3>1. Offset \in Nat
      BY <2>2 DEF Offset
    <3> HIDE DEF f, i
    <3> QED
      BY <2>1, <2>2, <2>3, <3>1
  <2>5. LastWhole(Arriving[i]) = n
    BY <1>1, <2>1, <2>3, <2>4, DueWhole
  <2> QED
    BY <1>2, <2>1, <2>5 DEF WholeSoFar, WholeUpTo
<1> QED
  BY <1>3, <1>4

\* A step of the reader that leaves what is whole as it is hands over the oldest
\* message or none.
LEMMA ReaderKeeps ==
  ASSUME PromiseInv, StreamInv', UNCHANGED <<left, written, sent, ended>>,
         torn' = {} => torn = {} /\ Unfinished' /\ WholeSoFar' = WholeSoFar,
         \/ received' = received
         \/ \E r \in Outcome : received' = Append(received, r)
  PROVE  PromiseInv' /\ PromiseStep
<1>1. PromiseInv'
  BY NothingWritten
<1>2. CASE torn' # {}
  <2>1. StreamTypes
    BY TypesOf
  <2> QED
    BY <1>1, <1>2, <2>1, NoPromise
<1>3. CASE torn' = {}
  <2>1. PromiseView /\ PromiseView'
    BY <1>1, <1>3, ViewsInStep
  <2>2. CASE received' = received
    BY <1>1, <1>3, <2>1, <2>2, SameWhole
  <2>3. CASE \E r \in Outcome : received' = Append(received, r)
    <3>1. PICK r \in Outcome : received' = Append(received, r)
      BY <2>3
    <3> QED
      BY <1>1, <1>3, <2>1, <3>1, MessageReceived
  <2> QED
    BY <2>2, <2>3
<1> QED
  BY <1>2, <1>3

\* Cells taken that end no call: as much can still arrive.
LEMMA HeldBack ==
  ASSUME StreamTypes, NEW k \in 0..Len(wire), wire' = SubSeq(wire, k + 1, Len(wire)),
         have' = have \o SubSeq(wire, 1, k), received' = received
  PROVE  WholeSoFar' = WholeSoFar
<1>1. Arriving' = Arriving
  BY ArrivingLeft DEF Arriving
<1> QED
  BY <1>1 DEF WholeSoFar, WholeUpTo

\* A call of receive that returned holds nothing.
LEMMA NothingHeld ==
  ASSUME head' = NoHeader, have' = <<>>
  PROVE  Unfinished'
<1>1. HeaderCells \in Nat \ {0} /\ Len(have') = 0
  BY StreamAssumption
<1> QED
  BY <1>1 DEF Unfinished

\* Reading a header.
LEMMA ReadHeaderKeeps ==
  ASSUME PromiseInv, ReadHeader
  PROVE  PromiseInv' /\ PromiseStep
<1>1. head = NoHeader /\ UNCHANGED <<left, written, sent, ended>>
  BY DEF ReadHeader
<1>2. StreamTypes /\ StreamInv /\ StreamInv'
  BY TypesOf, ReadHeaderStep
<1> DEFINE Room == Least(HeaderCells - Len(have), Len(wire))
           Taken(k) == have \o SubSeq(wire, 1, k)
<1>3. PICK k \in 1..Room :
        /\ wire' = SubSeq(wire, k + 1, Len(wire))
        /\ IF Len(Taken(k)) < HeaderCells
             THEN have' = Taken(k) /\ UNCHANGED <<head, received, torn>>
             ELSE \E d \in Decoded(Taken(k)) :
                    \/ /\ d.ok /\ Readable(d.len) /\ Payload(d) > 0
                       /\ head' = [of |-> d.of, len |-> d.len]
                       /\ have' = <<>>
                       /\ UNCHANGED <<received, torn>>
                    \/ /\ d.ok /\ Readable(d.len) /\ Payload(d) = 0
                       /\ Return("Ok", IF Whole(d, <<>>) THEN d.of ELSE NoFrame)
                       /\ UNCHANGED torn
                    \/ /\ ~d.ok \/ ~Readable(d.len)
                       /\ Return(Refusal(d), d.of)
                       /\ torn' = IF d.len > 0 THEN torn \cup {"refused"} ELSE torn
  BY Zenon DEF ReadHeader
<1>4. /\ have \in Seq(Cell) /\ wire \in Seq(Cell)
      /\ Len(have) \in Nat /\ Len(wire) \in Nat /\ HeaderCells \in Nat \ {0}
  BY <1>2, AheadTypes, StreamAssumption
<1>5. k \in 0..Len(wire) /\ Len(have) + k <= HeaderCells
  BY <1>3, <1>4 DEF Least
<1> DEFINE cells == have \o SubSeq(wire, 1, k)
<1>6. cells \in Seq(Cell) /\ Len(cells) = Len(have) + k
  BY <1>2, <1>5, ArrivingLeft
<1>7. CASE Len(cells) < HeaderCells
  <2>1. have' = cells /\ UNCHANGED <<head, received, torn>>
    BY <1>3, <1>7
  <2>2. WholeSoFar' = WholeSoFar
    BY <1>2, <1>3, <1>5, <2>1, HeldBack
  <2> HIDE DEF cells
  <2>3. Unfinished'
    BY <1>1, <1>7, <2>1 DEF Unfinished
  <2> QED
    BY <1>1, <1>2, <2>1, <2>2, <2>3, ReaderKeeps
<1>8. CASE ~(Len(cells) < HeaderCells)
  <2>1. Len(cells) = HeaderCells /\ Len(cells) >= HeaderCells
    BY <1>4, <1>5, <1>6, <1>8
  <2>2. PICK d \in Decoded(cells) :
          \/ /\ d.ok /\ Readable(d.len) /\ Payload(d) > 0
             /\ head' = [of |-> d.of, len |-> d.len]
             /\ have' = <<>>
             /\ UNCHANGED <<received, torn>>
          \/ /\ d.ok /\ Readable(d.len) /\ Payload(d) = 0
             /\ Return("Ok", IF Whole(d, <<>>) THEN d.of ELSE NoFrame)
             /\ UNCHANGED torn
          \/ /\ ~d.ok \/ ~Readable(d.len)
             /\ Return(Refusal(d), d.of)
             /\ torn' = IF d.len > 0 THEN torn \cup {"refused"} ELSE torn
    BY <1>3, <1>8
  <2>3. d.of \in Frame \cup {NoFrame} /\ d.len \in Nat /\ Refusal(d) \in Code
    BY <1>6, <2>1, DecodedTypes
  <2>4. torn' = {} => torn = {}
    BY <2>2
  <2>5. have' = <<>>
    BY <2>2 DEF Return
  \* A reader in step: the header ends its frame if it announces no payload.
  <2>6. ASSUME torn = {}
        PROVE  /\ cells # <<>>
               /\ d.len > 0 => LastWhole(cells[Len(cells)]) = Len(received)
               /\ d.len = 0 => LastWhole(cells[Len(cells)]) = Len(received) + 1
    BY <1>1, <1>5, <2>1, <2>6, HeaderTaken
  <2>7. ASSUME torn' = {}, d.len > 0 => received' = received,
               d.len = 0 => Len(received') = Len(received) + 1
        PROVE  WholeSoFar' = WholeSoFar
    <3>1. cells # <<>> /\ LastWhole(cells[Len(cells)]) = Len(received')
      <4> HIDE DEF cells
      <4>1. CASE d.len > 0
        BY <2>4, <2>6, <2>7, <4>1
      <4>2. CASE d.len = 0
        BY <2>4, <2>6, <2>7, <4>2
      <4> QED
        BY <2>3, <4>1, <4>2
    <3> QED
      BY <1>2, <1>3, <1>5, <2>5, <3>1, FrontTaken
  <2> HIDE DEF cells
  <2>8. CASE /\ Payload(d) > 0
             /\ head' = [of |-> d.of, len |-> d.len]
             /\ UNCHANGED <<received, torn>>
    <3>1. d.len > 0 /\ ~(d.len = 0)
      BY <2>3, <2>8 DEF Payload
    <3>2. torn' = {} => WholeSoFar' = WholeSoFar
      BY <2>7, <2>8, <3>1
    <3>3. head'.len = d.len
      BY <2>8
    <3>4. Unfinished'
      <4>1. Len(have') = 0
        BY <2>5
      <4>2. Len(have') < HeaderCells /\ Len(have') < head'.len
        BY <1>4, <3>1, <3>3, <4>1
      <4> QED
        BY <4>2 DEF Unfinished
    <3> QED
      BY <1>1, <1>2, <2>4, <2>8, <3>2, <3>4, ReaderKeeps
  \* The call ends.
  <2>9. ASSUME NEW code \in Code, NEW g \in Frame \cup {NoFrame}, Return(code, g),
               torn' = {} => d.len = 0
        PROVE  PromiseInv' /\ PromiseStep
    <3> DEFINE r == [code |-> code, frame |-> g]
    <3>1. r \in Outcome /\ received' = Append(received, r) /\ head' = NoHeader
      BY <2>9 DEF Return, Outcome
    <3> HIDE DEF r
    <3>2. Len(received') = Len(received) + 1
      <4>1. received \in Seq(Outcome)
        BY <1>2 DEF StreamTypes
      <4> QED
        BY <3>1, <4>1
    <3>3. torn' = {} => WholeSoFar' = WholeSoFar
      BY <2>7, <2>9, <3>2
    <3>4. Unfinished'
      BY <2>5, <3>1, NothingHeld
    <3> QED
      BY <1>1, <1>2, <2>4, <3>1, <3>3, <3>4, ReaderKeeps
  <2>10. CASE /\ Payload(d) = 0
              /\ Return("Ok", IF Whole(d, <<>>) THEN d.of ELSE NoFrame)
    <3> DEFINE g == IF Whole(d, <<>>) THEN d.of ELSE NoFrame
    <3>1. "Ok" \in Code /\ g \in Frame \cup {NoFrame} /\ d.len = 0
      BY <2>3, <2>10 DEF Code, Payload
    <3> HIDE DEF g
    <3>2. Return("Ok", g)
      BY <2>10 DEF g
    <3> QED
      BY <2>9, <3>1, <3>2
  <2>11. CASE /\ Return(Refusal(d), d.of)
              /\ torn' = IF d.len > 0 THEN torn \cup {"refused"} ELSE torn
    <3>1. torn' = {} => d.len = 0
      BY <2>3, <2>11
    <3> QED
      BY <2>3, <2>9, <2>11, <3>1
  <2> QED
    BY <2>2, <2>8, <2>10, <2>11
<1> QED
  BY <1>7, <1>8

\* Reading a payload.
LEMMA ReadPayloadKeeps ==
  ASSUME PromiseInv, ReadPayload
  PROVE  PromiseInv' /\ PromiseStep
<1>1. head # NoHeader /\ UNCHANGED <<left, written, sent, torn, ended>>
  BY DEF ReadPayload
<1>2. StreamTypes /\ StreamInv /\ StreamInv'
  BY TypesOf, ReadPayloadStep
<1> DEFINE Room == Least(Payload(head) - Len(have), Len(wire))
           Taken(k) == have \o SubSeq(wire, 1, k)
<1>3. PICK k \in 1..Room :
        /\ wire' = SubSeq(wire, k + 1, Len(wire))
        /\ IF Len(Taken(k)) < Payload(head)
             THEN have' = Taken(k) /\ UNCHANGED <<head, received>>
             ELSE Return("Ok", IF Whole(head, Taken(k)) THEN head.of ELSE NoFrame)
  BY Zenon DEF ReadPayload
<1>4. /\ have \in Seq(Cell) /\ wire \in Seq(Cell) /\ received \in Seq(Outcome)
      /\ Len(have) \in Nat /\ Len(wire) \in Nat
      /\ head.of \in Frame \cup {NoFrame} /\ head.len \in Nat
      /\ Payload(head) = head.len
  BY <1>2, AheadTypes DEF StreamTypes, Payload
<1>5. k \in 0..Len(wire) /\ Len(have) + k <= head.len
  BY <1>3, <1>4 DEF Least
<1> DEFINE cells == have \o SubSeq(wire, 1, k)
<1>6. cells \in Seq(Cell) /\ Len(cells) = Len(have) + k
  BY <1>2, <1>5, ArrivingLeft
<1>7. CASE Len(cells) < head.len
  <2>1. have' = cells /\ UNCHANGED <<head, received, torn>>
    BY <1>1, <1>3, <1>4, <1>7
  <2>2. WholeSoFar' = WholeSoFar
    BY <1>2, <1>3, <1>5, <2>1, HeldBack
  <2> HIDE DEF cells
  <2>3. Unfinished'
    BY <1>1, <1>7, <2>1 DEF Unfinished
  <2> QED
    BY <1>1, <1>2, <2>1, <2>2, <2>3, ReaderKeeps
<1>8. CASE ~(Len(cells) < head.len)
  <2> DEFINE g == IF Whole(head, cells) THEN head.of ELSE NoFrame
             r == [code |-> "Ok", frame |-> g]
  <2>1. Len(cells) = head.len
    BY <1>4, <1>5, <1>6, <1>8
  <2>2. Return("Ok", g)
    BY <1>3, <1>4, <1>8
  <2>3. g \in Frame \cup {NoFrame} /\ "Ok" \in Code
    BY <1>4 DEF Code
  <2>4. cells # <<>> /\ torn = {} => LastWhole(cells[Len(cells)]) = Len(received) + 1
    BY <1>1, <1>5, <2>1, PayloadTaken
  <2>5. torn = {} => cells # <<>>
    BY <1>1, <1>5, <2>1, PayloadTaken
  <2> HIDE DEF g
  <2>6. /\ r \in Outcome /\ received' = Append(received, r)
        /\ head' = NoHeader /\ have' = <<>>
    BY <2>2, <2>3 DEF Return, Outcome
  <2> HIDE DEF r
  <2>7. Len(received') = Len(received) + 1
    BY <1>4, <2>6
  <2>8. ASSUME torn' = {} PROVE WholeSoFar' = WholeSoFar
    <3>1. cells # <<>> /\ LastWhole(cells[Len(cells)]) = Len(received')
      <4> HIDE DEF cells
      <4> QED
        BY <1>1, <2>4, <2>5, <2>7, <2>8
    <3> QED
      BY <1>2, <1>3, <1>5, <2>6, <3>1, FrontTaken
  <2>9. Unfinished'
    BY <2>6, NothingHeld
  <2> HIDE DEF cells
  <2> QED
    BY <1>1, <1>2, <2>6, <2>8, <2>9, ReaderKeeps
<1> QED
  BY <1>7, <1>8

\* A receive that fails held no whole frame.
LEMMA ReceiveFailsKeeps ==
  ASSUME PromiseInv, ReceiveFails
  PROVE  PromiseInv' /\ PromiseStep
<1>1. /\ wire = <<>> /\ wire' = <<>> /\ head' = NoHeader /\ have' = <<>>
      /\ UNCHANGED <<left, written, sent, received, torn, ended>>
  BY DEF ReceiveFails
<1>2. StreamInv'
  BY ReceiveFailsStep, TypesOf
<1>3. Unfinished'
  BY <1>1, NothingHeld
<1>4. ASSUME torn = {} PROVE WholeSoFar' = WholeSoFar
  <2>1. WholeSoFar = Len(received)
    BY <1>1, <1>4, HeldIsUnfinished
  <2>2. Arriving' = <<>>
    BY <1>1 DEF Arriving
  <2> QED
    BY <1>1, <2>1, <2>2 DEF WholeSoFar, WholeUpTo
<1> QED
  BY <1>1, <1>2, <1>3, <1>4, ReaderKeeps

\* A step that ends the connection, if no more is whole after it than before.
LEMMA EndKeeps ==
  ASSUME PromiseInv, StreamInv', ended = "no", ended' # "no",
         UNCHANGED <<left, head, have, written, sent, received, torn>>,
         torn = {} => WholeSoFar' <= WholeSoFar
  PROVE  PromiseInv' /\ PromiseStep
<1>1. torn' = {} => Unfinished'
  BY DEF PromiseInv, Unfinished
<1>2. PromiseInv'
  BY <1>1, NothingWritten
<1>3. CASE torn = {}
  <2>1. PromiseView /\ PromiseView'
    BY <1>2, <1>3, ViewsInStep
  <2> QED
    BY <1>2, <1>3, <2>1, ConnectionEnds
<1>4. CASE torn # {}
  <2>1. StreamTypes
    BY TypesOf
  <2> QED
    BY <1>2, <1>4, <2>1, NoPromise
<1> QED
  BY <1>3, <1>4

\* Part of what the stream held is lost: no more is whole than before.
LEMMA FewerWhole ==
  ASSUME StreamInv, torn = {}, NEW k \in 0..Len(wire), wire' = SubSeq(wire, 1, k),
         UNCHANGED <<have, received>>
  PROVE  WholeSoFar' <= WholeSoFar
<1> DEFINE a == have \o SubSeq(wire, 1, k)
           b == SubSeq(wire, k + 1, Len(wire))
<1>1. /\ Arriving \in Seq(Cell) /\ Run(Arriving, written) /\ StreamTypes
      /\ WholeSoFar \in Nat /\ Len(received) <= WholeSoFar /\ Len(received) \in Nat
      /\ Arriving # <<>> => WholeSoFar = LastWhole(Arriving[Len(Arriving)])
  BY ArrivingFacts, WholeRange
<1>2. a \in Seq(Cell) /\ b \in Seq(Cell) /\ Arriving = a \o b
  BY <1>1, ArrivingLeft
<1>3. Arriving' = a
  BY DEF Arriving
<1> HIDE DEF a, b
<1>4. CASE a = <<>>
  <2>1. WholeSoFar' = Len(received)
    BY <1>3, <1>4 DEF WholeSoFar, WholeUpTo
  <2> QED
    BY <1>1, <2>1
<1>5. CASE a # <<>>
  <2> DEFINE q == a \o b
             i == Len(a)
             j == Len(q)
  <2>1. i \in Nat /\ i # 0 /\ Len(b) \in Nat /\ j = i + Len(b)
    BY <1>2, <1>5
  <2>2. \A x \in 1..i : q[x] = a[x]
    BY <1>2
  <2>3. i \in 1..i /\ i \in 1..j /\ j \in 1..j /\ i <= j
    BY <2>1
  <2>4. q[i] = a[i]
    BY <2>2, <2>3
  <2>5. q = Arriving
    BY <1>2
  <2> HIDE DEF q, i
  <2>6. LastWhole(q[i]) <= LastWhole(q[j])
    BY <1>1, <2>3, <2>5, WholeGrows
  <2>7. q # <<>>
    BY <2>1
  <2>8. WholeSoFar = LastWhole(q[j])
    BY <1>1, <2>5, <2>7
  <2>9. WholeSoFar' = LastWhole(a[i])
    BY <1>3, <1>5 DEF WholeSoFar, WholeUpTo, i
  <2> QED
    BY <2>4, <2>6, <2>8, <2>9
<1> QED
  BY <1>4, <1>5

\* close at either end, or a failure of the network.
LEMMA ConnectionEndsKeeps ==
  ASSUME PromiseInv, CloseWriter \/ Lose \/ CloseReader
  PROVE  PromiseInv' /\ PromiseStep
<1>1. /\ ended = "no" /\ ended' # "no"
      /\ UNCHANGED <<left, head, have, written, sent, received, torn>>
  BY DEF CloseWriter, Lose, CloseReader
<1>2. StreamInv
  BY TypesOf
<1>3. CASE CloseWriter \/ Lose
  <2>1. PICK k \in 0..Len(wire) : wire' = SubSeq(wire, 1, k)
    BY <1>3 DEF CloseWriter, Lose
  <2>2. ended' \in {"writer", "network"}
    BY <1>3 DEF CloseWriter, Lose
  <2>3. StreamInv'
    BY <1>1, <1>2, <2>1, <2>2, CutOffStep
  <2>4. torn = {} => WholeSoFar' <= WholeSoFar
    BY <1>1, <1>2, <2>1, FewerWhole
  <2> QED
    BY <1>1, <2>3, <2>4, EndKeeps
<1>4. CASE CloseReader
  <2>1. StreamInv'
    BY <1>2, <1>4, CloseReaderStep
  <2>2. wire' = <<>> /\ have' = <<>>
    BY <1>1, <1>4 DEF CloseReader, Started
  <2>3. Arriving' = <<>>
    BY <2>2 DEF Arriving
  <2>4. WholeSoFar' = Len(received)
    BY <1>1, <2>3 DEF WholeSoFar, WholeUpTo
  <2>5. torn = {} => WholeSoFar' <= WholeSoFar
    BY <1>2, <2>4, WholeRange
  <2> QED
    BY <1>1, <2>1, <2>5, EndKeeps
<1> QED
  BY <1>3, <1>4

\* A step of the model is one of the stream of messages, or none.
LEMMA StreamStepKeeps ==
  ASSUME PromiseInv, [StreamNext]_streamVars
  PROVE  PromiseInv' /\ PromiseStep
<1>1. CASE \/ (\E f \in Frame : BeginSend(f)) \/ GoOnSending
           \/ CancelSend \/ SendFails \/ CancelReceive
  BY <1>1, SendingKeeps, SendingEndsKeeps, CancelReceiveKeeps
<1>2. CASE ReadHeader \/ ReadPayload \/ ReceiveFails
  BY <1>2, ReadHeaderKeeps, ReadPayloadKeeps, ReceiveFailsKeeps
<1>3. CASE CloseWriter \/ Lose \/ CloseReader
  BY <1>3, ConnectionEndsKeeps
<1>4. CASE UNCHANGED streamVars
  <2>1. UNCHANGED <<wire, left, head, have, written, sent, received, torn, ended>>
    BY <1>4 DEF streamVars
  <2>2. StreamInv'
    <3>1. StreamTypes'
      BY <2>1, TypesOf DEF StreamTypes
    <3>2. Ahead' = Ahead
      BY <2>1 DEF Ahead, Unwritten
    <3>3. ASSUME InStep PROVE InStep'
      BY <2>1, <3>2, <3>3, SameReader DEF InStep
    <3> QED
      BY <2>1, <3>1, <3>3, TypesOf, SameStory
  <2>3. torn' = {} => Unfinished'
    BY <2>1 DEF PromiseInv, Unfinished
  <2>4. WholeSoFar' = WholeSoFar
    BY <2>1 DEF WholeSoFar, WholeUpTo, Arriving
  <2> QED
    BY <2>1, <2>2, <2>3, <2>4, ReaderKeeps
<1> QED
  BY <1>1, <1>2, <1>3, <1>4 DEF StreamNext

-----------------------------------------------------------------------------
(* Theorems                                                                *)

\* Whatever write_frame, read_frame and their callers do, and however the bytes
\* are split over polls, what is ahead of a reader that is in step is the rest
\* of the frames as they were written.
THEOREM StreamInvariant == StreamSpec => []StreamInv
<1>1. StreamInit => StreamInv
  BY StreamStart
<1>2. StreamInv /\ [StreamNext]_streamVars => StreamInv'
  <2> SUFFICES ASSUME StreamInv, [StreamNext]_streamVars PROVE StreamInv'
    OBVIOUS
  <2>1. ASSUME NEW f \in Frame, BeginSend(f) PROVE StreamInv'
    BY <2>1, BeginSendStep
  <2>2. CASE GoOnSending
    BY <2>2, GoOnSendingStep
  <2>3. CASE CancelSend
    BY <2>3, CancelSendStep
  <2>4. CASE SendFails
    BY <2>4, SendFailsStep
  <2>5. CASE ReadHeader
    BY <2>5, ReadHeaderStep
  <2>6. CASE ReadPayload
    BY <2>6, ReadPayloadStep
  <2>7. CASE CancelReceive
    BY <2>7, CancelReceiveStep
  <2>8. CASE ReceiveFails
    BY <2>8, ReceiveFailsStep
  <2>9. CASE CloseWriter \/ Lose
    <3>1. PICK k \in 0..Len(wire) : wire' = SubSeq(wire, 1, k)
      BY <2>9 DEF CloseWriter, Lose
    <3>2. /\ ended' \in {"writer", "network"}
          /\ UNCHANGED <<left, head, have, written, received, torn>>
      BY <2>9 DEF CloseWriter, Lose
    <3> QED
      BY <3>1, <3>2, CutOffStep
  <2>10. CASE CloseReader
    BY <2>10, CloseReaderStep
  <2>11. CASE UNCHANGED streamVars
    <3>1. /\ UNCHANGED <<wire, left, head, have, written, received, torn, ended>>
      BY <2>11 DEF streamVars
    <3>2. StreamTypes'
      BY <3>1 DEF StreamInv, StreamTypes
    <3>3. Ahead' = Ahead
      BY <3>1 DEF Ahead, Unwritten
    <3>4. ASSUME InStep PROVE InStep'
      BY <3>1, <3>3, <3>4, SameReader DEF InStep
    <3> QED
      BY <3>1, <3>2, <3>4, SameStory
  <2> QED
    BY <2>1, <2>2, <2>3, <2>4, <2>5, <2>6, <2>7, <2>8, <2>9, <2>10, <2>11
       DEF StreamNext
<1> QED
  BY <1>1, <1>2, PTL DEF StreamSpec

\* As long as no call of write_frame or read_frame ended in the middle of a
\* frame, the n-th receive returned the n-th frame, whole.
THEOREM ReaderStaysInStep == StreamSpec => []FramesInStep
<1>1. StreamInv => FramesInStep
  <2> SUFFICES ASSUME StreamInv, torn = {} PROVE
               /\ Len(received) <= Len(written)
               /\ \A i \in 1..Len(received) : received[i].frame = written[i]
    BY DEF FramesInStep
  <2>1. \A i \in 1..Len(received) : InPlace(i)
    BY DEF StreamInv, InStep
  <2>2. Len(received) \in Nat /\ Len(written) \in Nat
    BY DEF StreamInv, StreamTypes
  <2>3. Len(received) <= Len(written)
    <3>1. CASE Len(received) = 0
      BY <2>2, <3>1
    <3>2. CASE Len(received) # 0
      <4>1. Len(received) \in 1..Len(received)
        BY <2>2, <3>2
      <4> QED
        BY <2>1, <4>1 DEF InPlace
    <3> QED
      BY <3>1, <3>2
  <2> QED
    BY <2>1, <2>3 DEF InPlace
<1> QED
  BY <1>1, StreamInvariant, PTL

\* The first frame a read_frame refuses was not written by this version's
\* write_frame.
THEOREM NoOwnFrameRefused == StreamSpec => []OwnFramesAccepted
<1>1. StreamInv => OwnFramesAccepted
  <2> SUFFICES ASSUME StreamInv, "dropped" \notin torn, NEW i \in 1..Len(received),
                      received[i].code # "Ok",
                      \A j \in 1..(i - 1) : received[j].code = "Ok"
               PROVE  written[i].origin # "own"
    BY DEF OwnFramesAccepted
  <2>1. InPlace(i)
    BY DEF StreamInv, Story, GoesOn
  <2> QED
    BY <2>1 DEF InPlace
<1> QED
  BY <1>1, StreamInvariant, PTL

\* A reader that goes on only where is_retryable lets it never sees a frame out
\* of step, though a refused header leaves its payload in the stream.
THEOREM RetryingStaysInStep == StreamSpec => []RetryLoopInStep
<1>1. StreamInv => RetryLoopInStep
  <2> SUFFICES ASSUME StreamInv, "dropped" \notin torn, NEW i \in 1..Len(received),
                      \A j \in 1..(i - 1) : \/ received[j].code = "Ok"
                                            \/ Retryable(received[j].code)
               PROVE  received[i].frame = written[i]
    BY DEF RetryLoopInStep
  <2>1. InPlace(i)
    BY DEF StreamInv, Story, GoesOn
  <2> QED
    BY <2>1 DEF InPlace
<1> QED
  BY <1>1, StreamInvariant, PTL

\* The frames and their pieces implement the stream of whole messages: whatever
\* write_frame and read_frame are given by the stream, a receive returns the
\* oldest message whose send returned, and none whose send has not; a connection
\* that ends keeps the first few and no part of another.
THEOREM StreamIsReliable == StreamSpec => ImplementsStream
<1>1. StreamInit => PromiseInv /\ Promise!MessageInit
  <2> SUFFICES ASSUME StreamInit PROVE PromiseInv /\ Promise!MessageInit
    OBVIOUS
  <2>1. /\ sent = <<>> /\ received = <<>> /\ torn = {} /\ ended = "no"
    BY DEF StreamInit
  <2>2. OnTheWay = <<>>
    <3>1. SubSeq(sent, Len(received) + 1, Len(sent)) = <<>>
      BY <2>1
    <3> QED
      BY <2>1, <3>1 DEF OnTheWay
  <2>3. Delivered = <<>>
    <3>1. Len(received) = 0 /\ 1..0 = {}
      BY <2>1
    <3> QED
      BY <3>1 DEF Delivered
  <2>4. (ended = "no") = TRUE /\ (torn = {}) = TRUE
    BY <2>1
  <2> QED
    BY <2>2, <2>3, <2>4, PromiseStart DEF Promise!MessageInit
<1>2. PromiseInv /\ [StreamNext]_streamVars => PromiseInv' /\ PromiseStep
  BY StreamStepKeeps
<1> QED
  BY <1>1, <1>2, PTL DEF StreamSpec, ImplementsStream, Promise!MessageSpec, PromiseStep
=============================================================================
