-------------------------------- MODULE Errors --------------------------------
(***************************************************************************)
(* LaicError of crates/laic/src/error.rs and error/protocol.rs: the errors *)
(* of each layer with the stable code the other end, or another language's *)
(* SDK, matches on, and which of them a caller should retry.               *)
(***************************************************************************)
EXTENDS Naturals

\* 0x0101 to 0x0109
TransportErrorCode ==
  [ConnectionFailed |-> 257, ConnectionLost |-> 258, NotConnected |-> 259,
   SendFailed |-> 260, ReceiveFailed |-> 261, Timeout |-> 262,
   BackpressureFull |-> 263, ShuttingDown |-> 264, FramingError |-> 265]

\* Mutant: UnexpectedPayloadFormat is given the place it has in the enum, and
\* the handshake's codes move up.
Renumbered ==
  [InvalidMagic |-> 769, BufferTooShort |-> 770, UnsupportedVersion |-> 771,
   InvalidPayloadFormat |-> 772, InvalidQos |-> 773,
   PayloadLengthMismatch |-> 774, UnexpectedMessageType |-> 775,
   UnexpectedPayloadFormat |-> 776, UnsupportedHandshakeVersion |-> 777,
   TrustDomainMismatch |-> 778, HandshakeNonceMismatch |-> 779,
   InvalidHandshakePayload |-> 780]

\* 0x0301 to 0x030C; the order is that of publication, not of the enum.
ProtocolErrorCode ==
  [InvalidMagic |-> 769, BufferTooShort |-> 770, UnsupportedVersion |-> 771,
   InvalidPayloadFormat |-> 772, InvalidQos |-> 773,
   PayloadLengthMismatch |-> 774, UnexpectedMessageType |-> 775,
   UnsupportedHandshakeVersion |-> 776, TrustDomainMismatch |-> 777,
   HandshakeNonceMismatch |-> 778, InvalidHandshakePayload |-> 779,
   UnexpectedPayloadFormat |-> 780]

\* 0x0401
FlowErrorCode == [CreditExhausted |-> 1025]

TransportError == DOMAIN TransportErrorCode
ProtocolError == DOMAIN ProtocolErrorCode
FlowError == DOMAIN FlowErrorCode

\* is_retryable of the four layers: a transport that may recover, or a credit
\* that may come; never a protocol or a codec error.
Retryable(e) ==
  \/ e \in TransportError \ {"NotConnected", "ShuttingDown", "FramingError"}
  \/ e \in FlowError
=============================================================================
