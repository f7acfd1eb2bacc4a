--------------------------------- MODULE Wire ---------------------------------
(***************************************************************************)
(* Messages and their header (crates/laic/src/protocol): how a message is  *)
(* built and changed, and the 40 bytes its header becomes on the wire.  A  *)
(* payload is its length.                                                  *)
(***************************************************************************)
EXTENDS Integers, Sequences

-----------------------------------------------------------------------------
(* Constants of the protocol                                               *)

MAGIC == 1279347011
VERSION == 1

\* Values PayloadFormat::from_u8 and Qos::from_u8 know.
PayloadFormats == 0..2
QosLevels == 0..2

DATA == 1
CONTROL == 2
HEARTBEAT == 4

FLAG_END_OF_STREAM == 8
FLAG_HAS_CREDIT_GRANT == 16

-----------------------------------------------------------------------------
(* Unsigned integers of two, four and eight bytes                          *)

U8 == 0..255

\* What is above the two lowest bytes.
High(n) == (n \div 256) \div 256

U16 == {n \in Nat : n \div 256 \in U8}
U32 == {n \in Nat : High(n) \in U16}
U64 == {n \in Nat : High(High(n)) \in U32}

\* to_le_bytes
Bytes2(n) == <<n % 256, (n \div 256) % 256>>
Bytes4(n) == Bytes2(n) \o Bytes2(High(n))
Bytes8(n) == Bytes4(n) \o Bytes4(High(High(n)))

\* from_le_bytes of the bytes that begin at an offset.
Int2(bytes, at) == bytes[at + 1] + 256 * bytes[at + 2]
Int4(bytes, at) == Int2(bytes, at) + 256 * (256 * Int2(bytes, at + 2))

\* Mutant: only the first byte of eight is read.
LowByte(bytes, at) == bytes[at + 1]

Int8(bytes, at) ==
  Int4(bytes, at) + 256 * (256 * (256 * (256 * Int4(bytes, at + 4))))

\* Bits of a flags word.
Has(flags, bit) == (flags \div bit) % 2 = 1
With(flags, bit) == IF Has(flags, bit) THEN flags ELSE flags + bit

\* Mutant: all flags are cleared, not the one bit.
ClearAll(flags, bit) == 0

Without(flags, bit) == IF Has(flags, bit) THEN flags - bit ELSE flags

-----------------------------------------------------------------------------
(* The header                                                              *)

MessageHeader ==
  [magic : U32, version : U16, msg_type : U16, msg_id : U64,
   correlation_id : U64, payload_len : U32, payload_format : U8, qos : U8,
   credit_grant : U16, flags : U32, reserved : [1..4 -> U8]]

\* A header encode agrees to write and decode agrees to read.
Valid(h) ==
  /\ h.magic = MAGIC /\ h.version = VERSION
  /\ h.payload_format \in PayloadFormats /\ h.qos \in QosLevels

\* encode of a valid header, into a buffer that is long enough.
Encoded(h) ==
  Bytes4(h.magic) \o Bytes2(h.version) \o Bytes2(h.msg_type)
    \o Bytes8(h.msg_id) \o Bytes8(h.correlation_id) \o Bytes4(h.payload_len)
    \o <<h.payload_format, h.qos>> \o Bytes2(h.credit_grant)
    \o Bytes4(h.flags) \o h.reserved

\* The fields decode finds in the bytes, which it returns if they are valid.
Fields(bytes) ==
  [magic |-> Int4(bytes, 0), version |-> Int2(bytes, 4),
   msg_type |-> Int2(bytes, 6),
   msg_id |-> Int8(bytes, 8), correlation_id |-> Int8(bytes, 16),
   payload_len |-> Int4(bytes, 24),
   payload_format |-> bytes[29], qos |-> bytes[30],
   credit_grant |-> Int2(bytes, 30), flags |-> Int4(bytes, 32),
   reserved |-> SubSeq(bytes, 37, 40)]

-----------------------------------------------------------------------------
(* Messages                                                                *)

\* Message::new
NewMessage(type, id, format, qos, len) ==
  [header |-> [magic |-> MAGIC, version |-> VERSION, msg_type |-> type,
               msg_id |-> id, correlation_id |-> 0, payload_len |-> len,
               payload_format |-> format, qos |-> qos, credit_grant |-> 0,
               flags |-> 0, reserved |-> <<0, 0, 0, 0>>],
   len |-> len]

\* set_credit_grant keeps the flag that announces the field.
SetCreditGrant(m, credits) ==
  [m EXCEPT !.header.credit_grant = credits,
            !.header.flags = IF credits > 0
                               THEN With(@, FLAG_HAS_CREDIT_GRANT)
                               ELSE Without(@, FLAG_HAS_CREDIT_GRANT)]

SetCorrelationId(m, id) == [m EXCEPT !.header.correlation_id = id]

SetEndOfStream(m) == [m EXCEPT !.header.flags = With(@, FLAG_END_OF_STREAM)]

IsEndOfStream(m) == Has(m.header.flags, FLAG_END_OF_STREAM)
=============================================================================
