------------------------------ MODULE FrameStream ------------------------------
(***************************************************************************)
(* One direction of a QuicConnection: write_frame at one end, read_frame   *)
(* at the other (crates/laic/src/transport/framing.rs, quic.rs).  A frame  *)
(* is a header and as many payload bytes as the header says; nothing marks *)
(* where a frame begins.  Bytes are counted in cells: HeaderCells of them  *)
(* make a header.  Either call may be dropped by its caller while it waits *)
(* for the stream, with part of its frame written or read.                 *)
(***************************************************************************)
EXTENDS Errors, Sequences

CONSTANTS
  HeaderCells,  \* HEADER_SIZE
  MaxLen,       \* MAX_PAYLOAD_LEN, in cells
  Window,       \* cells the stream takes before a write waits
  Length,       \* payload lengths of the messages sent
  Origin,       \* versions a frame may come from
  MaxFrames     \* bound: frames written

ASSUME StreamAssumption ==
  /\ HeaderCells \in Nat \ {0}
  /\ MaxLen \in Nat
  /\ Window \in Nat \ {0}
  /\ Length \subseteq Nat
  /\ Origin \subseteq {"own", "other bound", "other header"}
  /\ MaxFrames \in Nat

VARIABLES
  wire,      \* cells the stream holds: written and not yet read
  left,      \* cells the write in progress still has to write; <<>> if none
  head,      \* header the read in progress has decoded, or NoHeader
  have,      \* cells the read in progress has taken since
  written,   \* history: frames of which a cell was written
  sent,      \* history: frames whose send returned Ok
  received,  \* history: what completed receive calls returned
  torn,      \* history: how calls ended in the middle of a frame
  ended,     \* "no", or what took the connection down
  failed     \* a receive call failed because the connection was down

streamVars == <<wire, left, head, have, written, sent, received, torn, ended,
                failed>>

-----------------------------------------------------------------------------
\* A frame on the wire: written by this version, or by a peer of a version with
\* another MAX_PAYLOAD_LEN, or with a header that decode refuses.
Frame == [id : 1..MaxFrames, len : Length, origin : Origin]

Cells(f) == [i \in 1..(HeaderCells + f.len) |-> [of |-> f, at |-> i]]

NoFrame == [id |-> 0, len |-> 0, origin |-> "own"]
NoHeader == [of |-> NoFrame, len |-> 0]
Started == head # NoHeader \/ have # <<>>

Least(m, n) == IF m < n THEN m ELSE n

StreamInit ==
  /\ wire = <<>> /\ left = <<>>
  /\ head = NoHeader /\ have = <<>>
  /\ written = <<>> /\ sent = <<>> /\ received = <<>>
  /\ torn = {}
  /\ ended = "no"
  /\ failed = FALSE

-----------------------------------------------------------------------------
(* The writing end                                                         *)

\* Mutant: write_frame takes what one write call accepts for the whole frame.
ShortWrite(f, cells, k) ==
  /\ wire' = wire \o SubSeq(cells, 1, k)
  /\ left' = <<>>
  /\ sent' = Append(sent, f)

\* The next k cells of the frame whose cells are given go out; when none is
\* left, send returns Ok in the same poll.
Put(f, cells, k) ==
  /\ wire' = wire \o SubSeq(cells, 1, k)
  /\ left' = SubSeq(cells, k + 1, Len(cells))
  /\ sent' = IF k = Len(cells) THEN Append(sent, f) ELSE sent

\* Mutant: write_frame does not look at the payload length.
AnyLength(f) == TRUE

\* The size check of write_frame.
Writable(f) == f.origin = "own" => f.len <= MaxLen

\* send: the first cells of a message's frame are written.
BeginSend(f) ==
  /\ left = <<>>
  /\ ended = "no"
  /\ f.id = Len(written) + 1
  /\ Writable(f)
  /\ \E k \in 1..Least(HeaderCells + f.len, Window - Len(wire)) :
       Put(f, Cells(f), k)
  /\ written' = Append(written, f)
  /\ UNCHANGED <<head, have, received, torn, ended, failed>>

\* send goes on when the stream takes more.
GoOnSending ==
  /\ left # <<>>
  /\ ended = "no"
  /\ \E k \in 1..Least(Len(left), Window - Len(wire)) :
       Put(Head(left).of, left, k)
  /\ UNCHANGED <<head, have, written, received, torn, ended, failed>>

\* The caller drops send in the middle of a frame: the rest is never written.
CancelSend ==
  /\ left # <<>>
  /\ left' = <<>>
  /\ torn' = torn \cup {"dropped"}
  /\ UNCHANGED <<wire, head, have, written, sent, received, ended, failed>>

\* send fails: the connection is down.
SendFails ==
  /\ left # <<>>
  /\ ended # "no"
  /\ left' = <<>>
  /\ UNCHANGED <<wire, head, have, written, sent, received, torn, ended, failed>>

-----------------------------------------------------------------------------
(* The reading end                                                         *)

\* Cells that are the header of a frame, whole and aligned.
IsHeader(cells) ==
  \A i \in 1..HeaderCells : cells[i].at = i /\ cells[i].of = cells[1].of

\* What MessageHeader::decode can make of HeaderCells cells: the header that
\* was written, or, of cells that are no header, a refusal or any length.
Decoded(cells) ==
  IF IsHeader(cells)
    THEN {[of |-> cells[1].of, len |-> cells[1].of.len, 
          ok |-> cells[1].of.origin # "other header"]}
    ELSE [of : {NoFrame}, len : Length, ok : BOOLEAN]

\* The message is a frame as it was written.
Whole(h, payload) ==
  /\ h.of # NoFrame
  /\ payload = SubSeq(Cells(h.of), HeaderCells + 1, HeaderCells + h.of.len)

\* Mutants: a read stops one cell short, or waits for one cell more.
OneShort(h) == IF h.len > 0 THEN h.len - 1 ELSE 0
OneMore(h) == h.len + 1

\* The size check of read_frame.
Readable(len) == len <= MaxLen

\* read_exact waits for the whole header, then for exactly payload_len.
Payload(h) == h.len

\* Mutant: a refused header is reported as a failed receive.
Unspecific(d) == "ReceiveFailed"

\* Why a decoded header ends the call: decode refused it, or it announces more
\* than MAX_PAYLOAD_LEN.
Refusal(d) == IF d.ok THEN "FramingError"
              ELSE IF d.of = NoFrame THEN "InvalidMagic"
              ELSE "UnsupportedVersion"

\* receive returns with a message or an error.
Return(code, f) ==
  /\ received' = Append(received, [code |-> code, frame |-> f])
  /\ head' = NoHeader
  /\ have' = <<>>

\* receive takes k cells of the header; when it is complete it is decoded, and
\* a refused header ends the call with its payload still in the stream.
ReadHeader ==
  /\ head = NoHeader
  /\ \E k \in 1..Least(HeaderCells - Len(have), Len(wire)) :
       LET cells == have \o SubSeq(wire, 1, k) IN
       /\ wire' = SubSeq(wire, k + 1, Len(wire))
       /\ IF Len(cells) < HeaderCells
            THEN have' = cells /\ UNCHANGED <<head, received, torn>>
            ELSE \E d \in Decoded(cells) :
                   \/ /\ d.ok /\ Readable(d.len) /\ Payload(d) > 0
                      /\ head' = [of |-> d.of, len |-> d.len]
                      /\ have' = <<>>
                      /\ UNCHANGED <<received, torn>>
                   \/ /\ d.ok /\ Readable(d.len) /\ Payload(d) = 0
                      /\ Return("Ok", IF Whole(d, <<>>) THEN d.of ELSE NoFrame)
                      /\ UNCHANGED torn
                   \/ /\ ~d.ok \/ ~Readable(d.len)
                      /\ Return(Refusal(d), d.of)
                      /\ torn' = IF d.len > 0 THEN torn \cup {"refused"} ELSE torn
  /\ UNCHANGED <<left, written, sent, ended, failed>>

\* receive takes k cells of the payload, and returns the message when it has
\* them all.
ReadPayload ==
  /\ head # NoHeader
  /\ \E k \in 1..Least(Payload(head) - Len(have), Len(wire)) :
       LET cells == have \o SubSeq(wire, 1, k) IN
       /\ wire' = SubSeq(wire, k + 1, Len(wire))
       /\ IF Len(cells) < Payload(head)
            THEN have' = cells /\ UNCHANGED <<head, received>>
            ELSE Return("Ok", IF Whole(head, cells) THEN head.of ELSE NoFrame)
  /\ UNCHANGED <<left, written, sent, torn, ended, failed>>

\* The caller drops receive: what the call had read is lost.
CancelReceive ==
  /\ Started
  /\ head' = NoHeader
  /\ have' = <<>>
  /\ torn' = torn \cup {"dropped"}
  /\ UNCHANGED <<wire, left, written, sent, received, ended, failed>>

\* The connection is down and the stream holds nothing more.
ReceiveFails ==
  /\ wire = <<>>
  /\ ended \notin {"no", "reader"}
  /\ head' = NoHeader
  /\ have' = <<>>
  /\ failed' = TRUE
  /\ UNCHANGED <<wire, left, written, sent, received, torn, ended>>

-----------------------------------------------------------------------------
\* close, or the drop of the connection, at one end; it holds the connection,
\* so it has no call in progress.  finish() is followed at once by
\* CONNECTION_CLOSE: of what the stream holds, any part may still arrive.
CloseWriter ==
  /\ ended = "no"
  /\ left = <<>>
  /\ ended' = "writer"
  /\ \E k \in 0..Len(wire) : wire' = SubSeq(wire, 1, k)
  /\ UNCHANGED <<left, head, have, written, sent, received, torn, failed>>

\* The reading end closes: what it had not read is gone.
CloseReader ==
  /\ ended = "no"
  /\ ~Started
  /\ ended' = "reader"
  /\ wire' = <<>>
  /\ UNCHANGED <<left, head, have, written, sent, received, torn, failed>>

\* Idle timeout or network failure.
Lose ==
  /\ ended = "no"
  /\ ended' = "network"
  /\ \E k \in 0..Len(wire) : wire' = SubSeq(wire, 1, k)
  /\ UNCHANGED <<left, head, have, written, sent, received, torn, failed>>

StreamNext ==
  \/ \E f \in Frame : BeginSend(f)
  \/ GoOnSending \/ CancelSend \/ SendFails
  \/ ReadHeader \/ ReadPayload \/ CancelReceive \/ ReceiveFails
  \/ CloseWriter \/ CloseReader \/ Lose

StreamSpec == StreamInit /\ [][StreamNext]_streamVars

\* A call in progress is polled when the stream can move, and the reader calls
\* receive again and again.
StreamFairSpec ==
  /\ StreamSpec
  /\ WF_streamVars(GoOnSending)
  /\ WF_streamVars(ReadHeader) /\ WF_streamVars(ReadPayload)
  /\ WF_streamVars(ReceiveFails)

-----------------------------------------------------------------------------
(* Properties                                                              *)

\* The newest frame of which no cell is missing, when c is the newest cell that
\* the reader has or the stream holds.
LastWhole(c) == IF c.at = HeaderCells + c.of.len THEN c.of.id ELSE c.of.id - 1

WholeUpTo(cells) ==
  IF cells = <<>> THEN Len(received) ELSE LastWhole(cells[Len(cells)])

\* Frames whose send returned Ok and that no receive has returned; of a
\* connection that ended, those that arrive whole.
OnTheWay ==
  IF torn # {} THEN <<>>
  ELSE IF ended = "no" THEN SubSeq(sent, Len(received) + 1, Len(sent))
  ELSE SubSeq(written, Len(received) + 1, WholeUpTo(have \o wire))

Delivered == [i \in 1..Len(received) |-> received[i].frame]

Promise == INSTANCE MessageStream WITH
  Message <- Frame \cup {NoFrame},
  queue   <- OnTheWay,
  taken   <- Delivered,
  up      <- ended = "no",
  inStep  <- torn = {}

\* The frames and their pieces implement a stream of messages: a receive returns
\* the oldest message whose send returned, and none whose send has not; the end
\* of the connection keeps the first few and no part of another.
ImplementsStream == Promise!MessageSpec

\* Without a separator between frames, the reader stays in step with the
\* writer however the bytes are split over polls: as long as no call ended in
\* the middle of a frame, the n-th receive returns the n-th frame, whole.
FramesInStep ==
  torn = {} => /\ Len(received) <= Len(written)
               /\ \A i \in 1..Len(received) : received[i].frame = written[i]

\* What the size check of write_frame is for: a frame this version emits is
\* never the first one the other end's read_frame refuses.
OwnFramesAccepted ==
  "dropped" \notin torn =>
    \A i \in 1..Len(received) :
      /\ received[i].code # "Ok"
      /\ \A j \in 1..(i - 1) : received[j].code = "Ok"
      => written[i].origin # "own"

\* What is_retryable promises a reader: one that goes on after a message or a
\* retryable error, and stops at any other, never sees a frame out of step,
\* though a refused header leaves its payload in the stream.
RetryLoopInStep ==
  "dropped" \notin torn =>
    \A i \in 1..Len(received) :
      (\A j \in 1..(i - 1) : \/ received[j].code = "Ok"
                             \/ Retryable(received[j].code))
      => received[i].frame = written[i]

\* A frame whose send returned Ok is received by an end that goes on calling
\* receive, if no call is dropped and the connection stays up.
SentIsReceived ==
  \A n \in 1..MaxFrames :
    Len(sent) >= n ~> Len(received) >= n \/ torn # {} \/ ended # "no"

\* What the doc comment of QuicConnection::close says of finish(): buffered
\* bytes are flushed.  It does not hold: close() goes on to Connection::close,
\* which abandons them, and the peer's next receive fails instead.
FlushedOnClose ==
  failed /\ ended = "writer" /\ torn = {} => Len(received) >= Len(sent)
=============================================================================
