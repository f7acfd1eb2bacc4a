------------------------------ MODULE CallProofs ------------------------------
(***************************************************************************)
(* Proofs about Wire: MessageHeader::decode finds in the 40 bytes of a     *)
(* header the fields that encode put there.  And about CreditFlow and      *)
(* SkillCalls for any window, buffer, calls and messages: the credits      *)
(* there are, and, when the window fits the buffer, that no message of a   *)
(* call or of a stream is lost.                                            *)
(***************************************************************************)
EXTENDS SkillCalls, Wire, ShmProofs, SequenceTheorems, FiniteSetTheorems, WellFoundedInduction

-----------------------------------------------------------------------------
(* Little-endian integers                                                  *)

\* The value of the two lowest bytes.
Low(n) == (n % 256) + 256 * ((n \div 256) % 256)

\* An integer is its lowest byte and what is above it.
LEMMA SplitByte ==
  ASSUME NEW n \in Nat
  PROVE  n % 256 \in 0..255 /\ n \div 256 \in Nat /\ n = (n % 256) + 256 * (n \div 256)
  BY SMT

\* It is its two lowest bytes and what is above them.
LEMMA SplitWord ==
  ASSUME NEW n \in Nat
  PROVE  Low(n) \in Nat /\ High(n) \in Nat /\ n = Low(n) + 256 * (256 * High(n))
<1> DEFINE q == n \div 256
<1>1. q \in Nat /\ n % 256 \in Nat /\ n = (n % 256) + 256 * q
  BY SplitByte
<1>2. q \div 256 \in Nat /\ q % 256 \in Nat /\ q = (q % 256) + 256 * (q \div 256)
  BY <1>1, SplitByte
<1>3. Low(n) = (n % 256) + 256 * (q % 256) /\ High(n) = q \div 256
  BY DEF Low, High
<1> HIDE DEF q
<1> QED
  BY <1>1, <1>2, <1>3

\* A number of two bytes is its two lowest bytes.
LEMMA LowOfWord ==
  ASSUME NEW n \in U16
  PROVE  n \in Nat /\ Low(n) = n
<1>1. n \in Nat /\ n \div 256 \in 0..255
  BY Zenon DEF U16, U8
<1>2. (n \div 256) % 256 = n \div 256
  BY <1>1, SMT
<1> QED
  BY <1>1, <1>2, SplitByte DEF Low

\* to_le_bytes of two bytes.
LEMMA TwoBytes ==
  ASSUME NEW n \in Nat
  PROVE  /\ Bytes2(n) \in Seq(Nat) /\ Len(Bytes2(n)) = 2
         /\ Bytes2(n)[1] + 256 * Bytes2(n)[2] = Low(n)
<1>1. n % 256 \in Nat /\ (n \div 256) % 256 \in Nat
  BY SplitByte
<1> QED
  BY <1>1 DEF Bytes2, Low

\* from_le_bytes of two bytes.
LEMMA ReadTwo ==
  ASSUME NEW bytes, NEW at \in Nat, NEW n \in Nat,
         bytes[at + 1] = Bytes2(n)[1], bytes[at + 2] = Bytes2(n)[2]
  PROVE  Int2(bytes, at) = Low(n)
  BY TwoBytes DEF Int2

\* The elements of a concatenation.
LEMMA Concatenated ==
  ASSUME NEW s \in Seq(Nat), NEW t \in Seq(Nat)
  PROVE  /\ s \o t \in Seq(Nat) /\ Len(s \o t) = Len(s) + Len(t)
         /\ \A i \in 1..Len(s) : (s \o t)[i] = s[i]
         /\ \A i \in 1..Len(t) : (s \o t)[Len(s) + i] = t[i]
  OBVIOUS

\* to_le_bytes of four bytes.
LEMMA FourBytes ==
  ASSUME NEW n \in Nat
  PROVE  /\ Bytes4(n) \in Seq(Nat) /\ Len(Bytes4(n)) = 4
         /\ Bytes4(n)[1] = Bytes2(n)[1] /\ Bytes4(n)[2] = Bytes2(n)[2]
         /\ Bytes4(n)[3] = Bytes2(High(n))[1]
         /\ Bytes4(n)[4] = Bytes2(High(n))[2]
<1> DEFINE s == Bytes2(n)
           t == Bytes2(High(n))
<1>1. s \in Seq(Nat) /\ Len(s) = 2 /\ t \in Seq(Nat) /\ Len(t) = 2
  BY SplitWord, TwoBytes
<1>2. Bytes4(n) = s \o t
  BY DEF Bytes4
<1> HIDE DEF s, t
<1> DEFINE r == s \o t
<1>3. /\ r \in Seq(Nat) /\ Len(r) = Len(s) + Len(t)
      /\ \A i \in 1..Len(s) : r[i] = s[i]
      /\ \A i \in 1..Len(t) : r[Len(s) + i] = t[i]
  BY <1>1, Concatenated
<1> HIDE DEF r
<1>4. /\ Len(r) = 4
      /\ r[1] = s[1] /\ r[2] = s[2] /\ r[3] = t[1] /\ r[4] = t[2]
  BY <1>1, <1>3
<1> QED
  BY <1>2, <1>3, <1>4 DEF r, s, t

\* from_le_bytes of four bytes.
LEMMA ReadFour ==
  ASSUME NEW bytes, NEW at \in Nat, NEW n \in Nat,
         \A i \in 1..4 : bytes[at + i] = Bytes4(n)[i]
  PROVE  Int4(bytes, at) = Low(n) + 256 * (256 * Low(High(n)))
<1>1. Int2(bytes, at) = Low(n)
  BY FourBytes, ReadTwo
<1>2. Int2(bytes, at + 2) = Low(High(n))
  <2>1. High(n) \in Nat /\ at + 2 \in Nat
    BY SplitWord
  <2>2. (at + 2) + 1 = at + 3 /\ (at + 2) + 2 = at + 4
    OBVIOUS
  <2>3. /\ bytes[(at + 2) + 1] = Bytes2(High(n))[1]
        /\ bytes[(at + 2) + 2] = Bytes2(High(n))[2]
    BY <2>2, FourBytes
  <2> QED
    BY <2>1, <2>3, ReadTwo
<1> QED
  BY <1>1, <1>2 DEF Int4

\* The bytes of s begin at an offset.
Field(bytes, at, s) == \A i \in 1..Len(s) : bytes[at + i] = s[i]

\* Integers of two, four and eight bytes are read back.
LEMMA ReadU16 ==
  ASSUME NEW bytes, NEW at \in Nat, NEW n \in U16, Field(bytes, at, Bytes2(n))
  PROVE  Int2(bytes, at) = n
<1>1. n \in Nat /\ Low(n) = n
  BY LowOfWord
<1>2. Len(Bytes2(n)) = 2
  BY <1>1, TwoBytes
<1>3. bytes[at + 1] = Bytes2(n)[1] /\ bytes[at + 2] = Bytes2(n)[2]
  BY <1>2 DEF Field
<1> QED
  BY <1>1, <1>3, ReadTwo

\* A field of four bytes is read as it was written.
LEMMA ReadU32 ==
  ASSUME NEW bytes, NEW at \in Nat, NEW n \in U32, Field(bytes, at, Bytes4(n))
  PROVE  Int4(bytes, at) = n
<1>1. n \in Nat /\ High(n) \in U16
  BY Zenon DEF U32
<1>2. Low(High(n)) = High(n)
  BY <1>1, LowOfWord
<1>3. Len(Bytes4(n)) = 4
  BY <1>1, FourBytes
<1>4. \A i \in 1..4 : bytes[at + i] = Bytes4(n)[i]
  BY <1>3 DEF Field
<1>5. n = Low(n) + 256 * (256 * High(n))
  BY <1>1, SplitWord
<1>6. Int4(bytes, at) = Low(n) + 256 * (256 * Low(High(n)))
  BY <1>1, <1>4, ReadFour
<1> QED
  BY <1>2, <1>5, <1>6

\* to_le_bytes of eight bytes.
LEMMA EightBytes ==
  ASSUME NEW n \in Nat
  PROVE  /\ Bytes8(n) \in Seq(Nat) /\ Len(Bytes8(n)) = 8
         /\ \A i \in 1..4 : Bytes8(n)[i] = Bytes4(n)[i]
         /\ \A i \in 1..4 : Bytes8(n)[4 + i] = Bytes4(High(High(n)))[i]
<1> DEFINE s == Bytes4(n)
           t == Bytes4(High(High(n)))
<1>1. s \in Seq(Nat) /\ Len(s) = 4 /\ t \in Seq(Nat) /\ Len(t) = 4
  BY SplitWord, FourBytes
<1>2. Bytes8(n) = s \o t
  BY DEF Bytes8
<1> HIDE DEF s, t
<1> DEFINE r == s \o t
<1>3. /\ r \in Seq(Nat) /\ Len(r) = Len(s) + Len(t)
      /\ \A i \in 1..Len(s) : r[i] = s[i]
      /\ \A i \in 1..Len(t) : r[Len(s) + i] = t[i]
  BY <1>1, Concatenated
<1> HIDE DEF r
<1>4. /\ Len(r) = 8
      /\ \A i \in 1..4 : r[i] = s[i]
      /\ \A i \in 1..4 : r[4 + i] = t[i]
  BY <1>1, <1>3
<1> QED
  BY <1>2, <1>3, <1>4 DEF r, s, t

\* A field of eight bytes is read as it was written.
LEMMA ReadU64 ==
  ASSUME NEW bytes, NEW at \in Nat, NEW n \in U64, Field(bytes, at, Bytes8(n))
  PROVE  Int8(bytes, at) = n
<1> DEFINE h == High(n)
           hh == High(h)
<1>1. n \in Nat /\ hh \in U32
  BY Zenon DEF U64
<1>b. \A i \in 1..8 : bytes[at + i] = Bytes8(n)[i]
  <2>1. Len(Bytes8(n)) = 8
    BY <1>1, EightBytes, Zenon
  <2> QED
    BY <2>1 DEF Field
<1>2. h \in Nat /\ Low(n) \in Nat /\ n = Low(n) + 256 * (256 * h)
  BY <1>1, SplitWord
<1>3. hh \in Nat /\ Low(h) \in Nat /\ h = Low(h) + 256 * (256 * hh)
  BY <1>2, SplitWord
<1>4. Int4(bytes, at) = Low(n) + 256 * (256 * Low(h))
  <2>1. \A i \in 1..4 : bytes[at + i] = Bytes4(n)[i]
    <3>1. \A i \in 1..4 : Bytes8(n)[i] = Bytes4(n)[i]
      BY <1>1, EightBytes
    <3>2. \A i \in 1..4 : i \in 1..8
      OBVIOUS
    <3> QED
      BY <1>b, <3>1, <3>2
  <2> QED
    BY <1>1, <2>1, ReadFour
<1>5. Int4(bytes, at + 4) = hh
  <2>1. \A i \in 1..4 : Bytes8(n)[4 + i] = Bytes4(hh)[i]
    BY <1>1, EightBytes
  <2> HIDE DEF hh, h
  <2>2. \A i \in 1..4 : 4 + i \in 1..8 /\ at + (4 + i) = (at + 4) + i
    OBVIOUS
  <2>3. \A i \in 1..4 : bytes[(at + 4) + i] = Bytes4(hh)[i]
    BY <1>b, <2>1, <2>2
  <2>4. at + 4 \in Nat
    OBVIOUS
  <2>l. Len(Bytes4(hh)) = 4
    BY <1>3, FourBytes, Zenon
  <2>5. Field(bytes, at + 4, Bytes4(hh))
    BY <2>3, <2>l DEF Field
  <2> QED
    BY <1>1, <2>4, <2>5, ReadU32
<1>6. Int8(bytes, at) = Low(n) + 256 * (256 * Low(h)) + 256 * (256 * (256 * (256 * hh)))
  BY <1>4, <1>5 DEF Int8
<1> HIDE DEF h, hh
<1> QED
  BY <1>1, <1>2, <1>3, <1>6

-----------------------------------------------------------------------------
(* The header                                                              *)

\* e begins with p.
Begins(e, p) == Len(p) <= Len(e) /\ \A i \in 1..Len(p) : e[i] = p[i]

\* What e begins with ends with s: s is found where it was put.
LEMMA FieldFound ==
  ASSUME NEW e \in Seq(Nat), NEW p \in Seq(Nat), NEW s \in Seq(Nat), Begins(e, p \o s)
  PROVE  Begins(e, p) /\ Field(e, Len(p), s)
<1> DEFINE r == p \o s
<1>1. /\ r \in Seq(Nat) /\ Len(r) = Len(p) + Len(s)
      /\ \A i \in 1..Len(p) : r[i] = p[i]
      /\ \A i \in 1..Len(s) : r[Len(p) + i] = s[i]
  BY Concatenated
<1>2. Len(r) <= Len(e) /\ \A i \in 1..Len(r) : e[i] = r[i]
  BY DEF Begins
<1> HIDE DEF r
<1>3. Len(p) \in Nat /\ Len(s) \in Nat
  OBVIOUS
<1>4. Begins(e, p)
  <2>1. Len(r) = Len(p) + Len(s) /\ Len(r) <= Len(e) /\ Len(e) \in Nat
    BY <1>1, <1>2
  <2>2. Len(p) <= Len(e)
    BY <1>3, <2>1
  <2>3. \A i \in 1..Len(p) : i \in 1..Len(r)
    BY <1>3, <2>1
  <2>4. \A i \in 1..Len(p) : e[i] = p[i]
    BY <1>1, <1>2, <2>3
  <2> QED
    BY <2>2, <2>4 DEF Begins
<1>5. \A i \in 1..Len(s) : Len(p) + i \in 1..Len(r)
  BY <1>1, <1>3
<1> QED
  BY <1>1, <1>2, <1>4, <1>5 DEF Field

\* The length of what a field is appended to.
LEMMA Extended ==
  ASSUME NEW s \in Seq(Nat), NEW t \in Seq(Nat)
  PROVE  s \o t \in Seq(Nat) /\ Len(s \o t) = Len(s) + Len(t)
  BY Concatenated

\* What is left of a sequence after its first m elements.
LEMMA RestOf ==
  ASSUME NEW s \in Seq(Nat), NEW m \in Nat, m <= Len(s)
  PROVE  LET r == SubSeq(s, m + 1, Len(s))
         IN  /\ r \in Seq(Nat) /\ Len(r) = Len(s) - m
             /\ \A i \in 1..(Len(s) - m) : r[i] = s[m + i]
<1>1. \A i \in (m + 1)..Len(s) : s[i] \in Nat
  OBVIOUS
<1>2. m + 1 \in Int /\ Len(s) \in Int
  OBVIOUS
<1> DEFINE r == SubSeq(s, m + 1, Len(s))
<1>3. /\ r \in Seq(Nat)
      /\ Len(r) = IF m + 1 <= Len(s) THEN Len(s) - (m + 1) + 1 ELSE 0
      /\ \A i \in 1..(Len(s) - (m + 1) + 1) : r[i] = s[(m + 1) + i - 1]
  BY <1>1, <1>2, SubSeqProperties
<1> HIDE DEF r
<1>4. Len(r) = Len(s) - m
  BY <1>2, <1>3
<1>5. \A i \in 1..(Len(s) - m) : i \in 1..(Len(s) - (m + 1) + 1) /\ (m + 1) + i - 1 = m + i
  BY <1>2
<1> QED
  BY <1>3, <1>4, <1>5 DEF r

\* Four numbered elements are four.
LEMMA IntervalOfFour ==
  ASSUME NEW n \in Nat, 1..n = 1..4
  PROVE  n = 4
<1>1. 4 \in 1..4 /\ 1 \in 1..4
  OBVIOUS
<1>2. 4 \in 1..n
  BY <1>1, Zenon
<1>3. n \in 1..n
  BY <1>2
<1>4. n \in 1..4
  BY <1>3, Zenon
<1> QED
  BY <1>2, <1>4

\* The fields of a header have the bytes their types have.
LEMMA FieldTypes ==
  ASSUME NEW h \in MessageHeader
  PROVE  /\ h.magic \in U32 /\ h.version \in U16 /\ h.msg_type \in U16
         /\ h.msg_id \in U64 /\ h.correlation_id \in U64 /\ h.payload_len \in U32
         /\ h.payload_format \in Nat /\ h.qos \in Nat
         /\ h.credit_grant \in U16 /\ h.flags \in U32
         /\ h.reserved \in Seq(Nat) /\ Len(h.reserved) = 4
         /\ h.reserved \in [1..4 -> Nat]
<1>1. /\ h.magic \in U32 /\ h.version \in U16 /\ h.msg_type \in U16
      /\ h.msg_id \in U64 /\ h.correlation_id \in U64 /\ h.payload_len \in U32
      /\ h.payload_format \in U8 /\ h.qos \in U8
      /\ h.credit_grant \in U16 /\ h.flags \in U32
      /\ h.reserved \in [1..4 -> U8]
  BY DEF MessageHeader
<1>2. U8 \subseteq Nat
  BY DEF U8
<1>3. h.reserved \in [1..4 -> Nat]
  BY <1>1, <1>2
<1>4. h.reserved \in Seq(Nat) /\ Len(h.reserved) = 4
  <2>1. h.reserved \in Seq(Nat)
    <3>1. 4 \in Nat
      OBVIOUS
    <3>2. [1..4 -> Nat] \in {[1..n -> Nat] : n \in Nat}
      BY <3>1
    <3> QED
      BY <1>3, <3>2, SeqDef, Zenon
  <2>2. DOMAIN h.reserved = 1..Len(h.reserved) /\ Len(h.reserved) \in Nat
    BY <2>1, LenProperties
  <2>3. DOMAIN h.reserved = 1..4
    BY <1>3
  <2>4. Len(h.reserved) = 4
    <3>1. 1..Len(h.reserved) = 1..4
      BY <2>2, <2>3, Zenon
    <3> QED
      BY <2>2, <3>1, IntervalOfFour
  <2> QED
    BY <2>1, <2>4
<1> QED
  BY <1>1, <1>2, <1>3, <1>4

\* What MessageHeader::decode reads in the bytes encode wrote is the header, for
\* every value of each of its eleven fields: no field overlaps another, is cut
\* short or read at a wrong offset.
THEOREM HeaderRoundTrip ==
  ASSUME NEW h \in MessageHeader
  PROVE  Fields(Encoded(h)) = h
<1> DEFINE s1 == Bytes4(h.magic)
           s2 == Bytes2(h.version)
           s3 == Bytes2(h.msg_type)
           s4 == Bytes8(h.msg_id)
           s5 == Bytes8(h.correlation_id)
           s6 == Bytes4(h.payload_len)
           s7 == <<h.payload_format, h.qos>>
           s8 == Bytes2(h.credit_grant)
           s9 == Bytes4(h.flags)
           s10 == h.reserved
           p2 == s1 \o s2
           p3 == p2 \o s3
           p4 == p3 \o s4
           p5 == p4 \o s5
           p6 == p5 \o s6
           p7 == p6 \o s7
           p8 == p7 \o s8
           p9 == p8 \o s9
           e == p9 \o s10
<1>1. Encoded(h) = e
  BY DEF Encoded
<1>2. /\ h.magic \in Nat /\ h.version \in Nat /\ h.msg_type \in Nat
      /\ h.msg_id \in Nat /\ h.correlation_id \in Nat /\ h.payload_len \in Nat
      /\ h.payload_format \in Nat /\ h.qos \in Nat
      /\ h.credit_grant \in Nat /\ h.flags \in Nat
  <2>1. U16 \subseteq Nat /\ U32 \subseteq Nat /\ U64 \subseteq Nat
    BY Zenon DEF U16, U32, U64
  <2> QED
    BY <2>1, FieldTypes
<1>3. /\ Bytes2(h.version) \in Seq(Nat) /\ Len(Bytes2(h.version)) = 2
      /\ Bytes2(h.msg_type) \in Seq(Nat) /\ Len(Bytes2(h.msg_type)) = 2
      /\ Bytes2(h.credit_grant) \in Seq(Nat) /\ Len(Bytes2(h.credit_grant)) = 2
      /\ s7 \in Seq(Nat) /\ Len(s7) = 2 /\ s7[1] = h.payload_format /\ s7[2] = h.qos
  <2>1. s7 \in Seq(Nat) /\ Len(s7) = 2 /\ s7[1] = h.payload_format /\ s7[2] = h.qos
    BY <1>2
  <2> HIDE DEF s7
  <2> QED
    BY <1>2, <2>1, TwoBytes
<1>4. /\ Bytes4(h.magic) \in Seq(Nat) /\ Len(Bytes4(h.magic)) = 4
      /\ Bytes4(h.payload_len) \in Seq(Nat) /\ Len(Bytes4(h.payload_len)) = 4
      /\ Bytes4(h.flags) \in Seq(Nat) /\ Len(Bytes4(h.flags)) = 4
  BY <1>2, FourBytes
<1>5. /\ Bytes8(h.msg_id) \in Seq(Nat) /\ Len(Bytes8(h.msg_id)) = 8
      /\ Bytes8(h.correlation_id) \in Seq(Nat) /\ Len(Bytes8(h.correlation_id)) = 8
  BY <1>2, EightBytes
<1>6. h.reserved \in Seq(Nat) /\ Len(h.reserved) = 4
  BY FieldTypes
<1>s. /\ s1 \in Seq(Nat) /\ s2 \in Seq(Nat) /\ s3 \in Seq(Nat) /\ s4 \in Seq(Nat)
      /\ s5 \in Seq(Nat) /\ s6 \in Seq(Nat) /\ s7 \in Seq(Nat) /\ s8 \in Seq(Nat)
      /\ s9 \in Seq(Nat) /\ s10 \in Seq(Nat)
  BY <1>3, <1>4, <1>5, <1>6
<1>l. /\ Len(s1) = 4 /\ Len(s2) = 2 /\ Len(s3) = 2 /\ Len(s4) = 8 /\ Len(s5) = 8
      /\ Len(s6) = 4 /\ Len(s7) = 2 /\ Len(s8) = 2 /\ Len(s9) = 4 /\ Len(s10) = 4
  BY <1>3, <1>4, <1>5, <1>6
<1> HIDE DEF s1, s2, s3, s4, s5, s6, s7, s8, s9, s10
\* The bytes up to each field, and their number.
<1>7. /\ p2 \in Seq(Nat) /\ p3 \in Seq(Nat) /\ p4 \in Seq(Nat) /\ p5 \in Seq(Nat)
      /\ p6 \in Seq(Nat) /\ p7 \in Seq(Nat) /\ p8 \in Seq(Nat) /\ p9 \in Seq(Nat)
      /\ e \in Seq(Nat)
  BY <1>s, Extended
<1> HIDE DEF p2, p3, p4, p5, p6, p7, p8, p9, e
<1>8. /\ Len(p2) = Len(s1) + Len(s2) /\ Len(p3) = Len(p2) + Len(s3)
      /\ Len(p4) = Len(p3) + Len(s4) /\ Len(p5) = Len(p4) + Len(s5)
      /\ Len(p6) = Len(p5) + Len(s6) /\ Len(p7) = Len(p6) + Len(s7)
      /\ Len(p8) = Len(p7) + Len(s8) /\ Len(p9) = Len(p8) + Len(s9)
      /\ Len(e) = Len(p9) + Len(s10)
  <2>1. Len(p2) = Len(s1) + Len(s2)
    BY <1>s, <1>7, Extended DEF p2
  <2>2. Len(p3) = Len(p2) + Len(s3)
    BY <1>s, <1>7, Extended DEF p3
  <2>3. Len(p4) = Len(p3) + Len(s4)
    BY <1>s, <1>7, Extended DEF p4
  <2>4. Len(p5) = Len(p4) + Len(s5)
    BY <1>s, <1>7, Extended DEF p5
  <2>5. Len(p6) = Len(p5) + Len(s6)
    BY <1>s, <1>7, Extended DEF p6
  <2>6. Len(p7) = Len(p6) + Len(s7)
    BY <1>s, <1>7, Extended DEF p7
  <2>7. Len(p8) = Len(p7) + Len(s8)
    BY <1>s, <1>7, Extended DEF p8
  <2>8. Len(p9) = Len(p8) + Len(s9)
    BY <1>s, <1>7, Extended DEF p9
  <2>9. Len(e) = Len(p9) + Len(s10)
    BY <1>s, <1>7, Extended DEF e
  <2> QED
    BY <2>1, <2>2, <2>3, <2>4, <2>5, <2>6, <2>7, <2>8, <2>9
<1>9. /\ Len(p2) = 6 /\ Len(p3) = 8 /\ Len(p4) = 16 /\ Len(p5) = 24 /\ Len(p6) = 28
      /\ Len(p7) = 30 /\ Len(p8) = 32 /\ Len(p9) = 36 /\ Len(e) = 40
  BY <1>l, <1>8
<1>10. Begins(e, e)
  BY <1>7 DEF Begins
<1>11. Begins(e, p9) /\ Field(e, 36, s10)
  <2>1. Begins(e, p9) /\ Field(e, Len(p9), s10)
    BY <1>s, <1>7, <1>10, FieldFound DEF e
  <2> QED
    BY <1>l, <1>9, <2>1
<1>12. Begins(e, p8) /\ Field(e, 32, s9)
  <2>1. Begins(e, p8) /\ Field(e, Len(p8), s9)
    BY <1>s, <1>7, <1>11, FieldFound DEF p9
  <2> QED
    BY <1>l, <1>9, <2>1
<1>13. Begins(e, p7) /\ Field(e, 30, s8)
  <2>1. Begins(e, p7) /\ Field(e, Len(p7), s8)
    BY <1>s, <1>7, <1>12, FieldFound DEF p8
  <2> QED
    BY <1>l, <1>9, <2>1
<1>14. Begins(e, p6) /\ Field(e, 28, s7)
  <2>1. Begins(e, p6) /\ Field(e, Len(p6), s7)
    BY <1>s, <1>7, <1>13, FieldFound DEF p7
  <2> QED
    BY <1>l, <1>9, <2>1
<1>15. Begins(e, p5) /\ Field(e, 24, s6)
  <2>1. Begins(e, p5) /\ Field(e, Len(p5), s6)
    BY <1>s, <1>7, <1>14, FieldFound DEF p6
  <2> QED
    BY <1>l, <1>9, <2>1
<1>16. Begins(e, p4) /\ Field(e, 16, s5)
  <2>1. Begins(e, p4) /\ Field(e, Len(p4), s5)
    BY <1>s, <1>7, <1>15, FieldFound DEF p5
  <2> QED
    BY <1>l, <1>9, <2>1
<1>17. Begins(e, p3) /\ Field(e, 8, s4)
  <2>1. Begins(e, p3) /\ Field(e, Len(p3), s4)
    BY <1>s, <1>7, <1>16, FieldFound DEF p4
  <2> QED
    BY <1>l, <1>9, <2>1
<1>18. Begins(e, p2) /\ Field(e, 6, s3)
  <2>1. Begins(e, p2) /\ Field(e, Len(p2), s3)
    BY <1>s, <1>7, <1>17, FieldFound DEF p3
  <2> QED
    BY <1>l, <1>9, <2>1
<1>19. Begins(e, s1) /\ Field(e, 4, s2)
  <2>1. Begins(e, s1) /\ Field(e, Len(s1), s2)
    BY <1>s, <1>7, <1>18, FieldFound DEF p2
  <2> QED
    BY <1>l, <1>9, <2>1
<1>20. Field(e, 0, s1)
  <2>1. \A i \in 1..Len(s1) : e[i] = s1[i]
    BY <1>19 DEF Begins
  <2>2. \A i \in 1..Len(s1) : 0 + i = i
    OBVIOUS
  <2> QED
    BY <2>1, <2>2 DEF Field
<1>28. Int4(e, 0) = h.magic
  BY <1>20, FieldTypes, ReadU32 DEF s1
<1>29. Int2(e, 4) = h.version
  BY <1>19, FieldTypes, ReadU16 DEF s2
<1>30. Int2(e, 6) = h.msg_type
  BY <1>18, FieldTypes, ReadU16 DEF s3
<1>31. Int8(e, 8) = h.msg_id
  BY <1>17, FieldTypes, ReadU64 DEF s4
<1>32. Int8(e, 16) = h.correlation_id
  BY <1>16, FieldTypes, ReadU64 DEF s5
<1>33. Int4(e, 24) = h.payload_len
  BY <1>15, FieldTypes, ReadU32 DEF s6
<1>34. e[29] = h.payload_format /\ e[30] = h.qos
  <2>1. e[28 + 1] = s7[1] /\ e[28 + 2] = s7[2]
    BY <1>l, <1>14 DEF Field
  <2> QED
    BY <1>3, <2>1
<1>35. Int2(e, 30) = h.credit_grant
  BY <1>13, FieldTypes, ReadU16 DEF s8
<1>36. Int4(e, 32) = h.flags
  BY <1>12, FieldTypes, ReadU32 DEF s9
<1>37. SubSeq(e, 37, 40) = h.reserved
  <2> DEFINE r == SubSeq(e, 37, 40)
  <2>1. r \in Seq(Nat) /\ Len(r) = 4 /\ \A i \in 1..4 : r[i] = e[36 + i]
    <3> DEFINE m == 36
               q == SubSeq(e, m + 1, Len(e))
    <3>1. m \in Nat /\ m <= Len(e) /\ Len(e) - m = 4
      BY <1>9
    <3>2. r = q
      BY <1>9
    <3> HIDE DEF m
    <3>3. /\ q \in Seq(Nat) /\ Len(q) = Len(e) - m
          /\ \A i \in 1..(Len(e) - m) : q[i] = e[m + i]
      BY <1>7, <3>1, RestOf
    <3> HIDE DEF q, r
    <3> QED
      BY <3>1, <3>2, <3>3 DEF m
  <2> HIDE DEF r
  <2>2. \A i \in 1..4 : r[i] = h.reserved[i]
    BY <1>6, <1>11, <2>1 DEF Field, s10
  <2> QED
    BY <1>6, <2>1, <2>2, SeqEqual DEF r
<1>38. Fields(e) = [magic |-> h.magic, version |-> h.version,
                    msg_type |-> h.msg_type, msg_id |-> h.msg_id,
                    correlation_id |-> h.correlation_id,
                    payload_len |-> h.payload_len,
                    payload_format |-> h.payload_format, qos |-> h.qos,
                    credit_grant |-> h.credit_grant, flags |-> h.flags,
                    reserved |-> h.reserved]
  BY <1>28, <1>29, <1>30, <1>31, <1>32, <1>33, <1>34, <1>35, <1>36, <1>37, Zenon
  DEF Fields
<1>39. h = [magic |-> h.magic, version |-> h.version,
            msg_type |-> h.msg_type, msg_id |-> h.msg_id,
            correlation_id |-> h.correlation_id,
            payload_len |-> h.payload_len,
            payload_format |-> h.payload_format, qos |-> h.qos,
            credit_grant |-> h.credit_grant, flags |-> h.flags,
            reserved |-> h.reserved]
  BY DEF MessageHeader
<1> QED
  BY <1>1, <1>38, <1>39

-----------------------------------------------------------------------------
(* The messages of a call                                                  *)

\* The messages of a buffer.
Messages(frames) == {frames[i].msg : i \in 1..Len(frames)}

-----------------------------------------------------------------------------
(* The invariant                                                           *)

\* Both ends are open, and every message the client gets brings credits.
FlowTypes ==
  /\ \A e \in Ends : status[e] = "open"
  /\ available \in Nat /\ holding \in BOOLEAN /\ owed \in Nat /\ leaked \in Nat
  /\ heartbeats \in 0..MaxHeartbeats /\ bonus \in 0..MaxBonus
  /\ \A m \in Messages(buffer["client"]) : m.header.credit_grant >= 1

\* What the server has not read is metered, or one of the exempt messages.
ExemptCounted ==
  WindowFits => Len(buffer["server"]) <= Unread(buffer["server"]) + heartbeats

FlowInv ==
  ShmInv /\ FlowTypes /\ WindowRespected /\ ExemptCounted /\ NothingReplaced

ChunkRecord == [id : Nat, last : BOOLEAN]

CallTypes ==
  /\ asked \in 0..Len(CallId)
  /\ chunks \in Seq(ChunkRecord) /\ heard \in Seq(ChunkRecord)
  /\ Len(chunks) <= MaxChunks
  /\ \A k \in 1..Len(chunks) : chunks[k].id = k

\* Requests and answers are those of calls that were made.
CallsKnown ==
  /\ \A m \in Messages(buffer["server"]) :
       IsSkillRequest(m) => \E n \in 1..asked : m = Request(n)
  /\ \A m \in todo : \E n \in 1..asked : m = Request(n)
  /\ \A m \in Messages(buffer["client"]) :
       IsSkillResponse(m) =>
         \E n \in 1..asked : /\ m.header.correlation_id = CallId[n]
                             /\ m.len = PayloadOf(n)

\* Where the messages of a pending call are.
UnderWay(n) ==
  \/ Request(n) \in Messages(buffer["server"])
  \/ Request(n) \in todo
  \/ \E m \in Messages(buffer["client"]) :
       IsSkillResponse(m) /\ m.header.correlation_id = CallId[n]

PendingUnderWay ==
  WindowFits => \A n \in 1..Len(CallId) : CallId[n] \in pending => UnderWay(n)

\* The chunks of a stream that were sent and not read are in a buffer, in order.
InFlight(q, read, sent) ==
  /\ \A m \in Messages(q) : IsStreamData(m) =>
       \E k \in (read + 1)..Len(sent) : m = Chunk(k, sent[k].last)
  /\ \A k \in (read + 1)..Len(sent) : Chunk(k, sent[k].last) \in Messages(q)
  /\ \A i, j \in 1..Len(q) :
       i < j /\ IsStreamData(q[i].msg) /\ IsStreamData(q[j].msg) =>
         q[i].msg.header.msg_id < q[j].msg.header.msg_id

StreamUnderWay ==
  StreamsWhole /\ (WindowFits => InFlight(buffer["server"], Len(heard), chunks))

CallInv ==
  /\ FlowInv
  /\ CallTypes
  /\ CallsKnown
  /\ AnswersMatch
  /\ PendingUnderWay
  /\ StreamUnderWay

-----------------------------------------------------------------------------
(* Sums                                                                    *)

\* A set that has 0 and the successor of each of its numbers has them all.
LEMMA NumbersByInduction ==
  ASSUME NEW S, 0 \in S, \A n \in Nat : n \in S => n + 1 \in S
  PROVE  Nat \subseteq S
<1> DEFINE T == {n \in Nat : n \notin S}
           R == {ss \in Nat \X Nat : ss[1] < ss[2]}
<1> SUFFICES ASSUME T # {} PROVE FALSE
  OBVIOUS
<1>1. IsWellFoundedOn(R, Nat)
  BY NatLessThanWellFounded DEF OpToRel
<1>2. PICK x \in T : \A y \in T : ~ (<<y, x>> \in R)
  <2> HIDE DEF R
  <2> QED
    BY <1>1, WFMin
<1>3. ASSUME NEW y \in Nat, y < x PROVE <<y, x>> \in R
  <2>1. /\ <<y, x>> \in Nat \X Nat
        /\ <<y, x>>[1] = y /\ <<y, x>>[2] = x
    OBVIOUS
  <2> QED
    BY <1>3, <2>1
<1> HIDE DEF R
<1>4. x \in Nat /\ x # 0
  OBVIOUS
<1>5. x - 1 \in Nat /\ x - 1 < x
  BY <1>4
<1>6. x - 1 \notin T
  BY <1>2, <1>3, <1>5
<1> QED
  BY <1>4, <1>5, <1>6

\* The sums of the first n numbers, for each n.
PartialSums(s, w) ==
  /\ s \in [0..Len(w) -> Int]
  /\ s[0] = 0
  /\ \A n \in 1..Len(w) : s[n] = s[n - 1] + w[n]

\* Every list of numbers has its partial sums.
LEMMA SumsExist ==
  ASSUME NEW w \in Seq(Nat)
  PROVE  \E s : PartialSums(s, w)
<1> DEFINE Upto(k) == \E s \in [0..k -> Int] :
                        /\ s[0] = 0
                        /\ \A n \in 1..k : s[n] = s[n - 1] + w[n]
           S == {k \in Nat : k <= Len(w) => Upto(k)}
<1>1. 0 \in S
  <2> DEFINE s == [n \in 0..0 |-> 0]
  <2>1. s \in [0..0 -> Int] /\ s[0] = 0 /\ \A n \in 1..0 : s[n] = s[n - 1] + w[n]
    OBVIOUS
  <2>2. Upto(0)
    BY <2>1
  <2> QED
    BY <2>2
<1>2. ASSUME NEW k \in Nat, k \in S PROVE k + 1 \in S
  <2> SUFFICES ASSUME k + 1 <= Len(w) PROVE Upto(k + 1)
    OBVIOUS
  <2>1. PICK s \in [0..k -> Int] : /\ s[0] = 0
                                   /\ \A n \in 1..k : s[n] = s[n - 1] + w[n]
    <3>1. k <= Len(w)
      OBVIOUS
    <3>2. Upto(k)
      <4> HIDE DEF Upto
      <4> QED
        BY <1>2, <3>1
    <3> QED
      BY <3>2
  <2>2. k + 1 \in 1..Len(w) /\ w[k + 1] \in Nat /\ k \in 0..k
    OBVIOUS
  <2> DEFINE t == [n \in 0..(k + 1) |-> IF n <= k THEN s[n] ELSE s[k] + w[k + 1]]
  <2>3. t \in [0..(k + 1) -> Int]
    <3>1. s[k] + w[k + 1] \in Int
      BY <2>2
    <3>2. \A n \in 0..(k + 1) : n <= k => s[n] \in Int
      OBVIOUS
    <3> QED
      BY <3>1, <3>2
  <2>4. t[0] = 0
    BY <2>1
  <2>5. ASSUME NEW n \in 1..(k + 1) PROVE t[n] = t[n - 1] + w[n]
    <3>1. CASE n \in 1..k
      <4>1. n \in 0..(k + 1) /\ n - 1 \in 0..(k + 1) /\ n <= k /\ n - 1 <= k
        BY <3>1
      <4>2. t[n] = s[n] /\ t[n - 1] = s[n - 1]
        BY <4>1
      <4> QED
        BY <2>1, <3>1, <4>2
    <3>2. CASE n = k + 1
      <4>1. n \in 0..(k + 1) /\ n - 1 \in 0..(k + 1) /\ ~(n <= k) /\ n - 1 = k
        BY <3>2
      <4>2. t[n] = s[k] + w[k + 1] /\ t[n - 1] = s[k]
        BY <4>1
      <4> QED
        BY <3>2, <4>2
    <3> QED
      BY <3>1, <3>2
  <2> HIDE DEF t
  <2> QED
    BY <2>3, <2>4, <2>5
<1>3. Nat \subseteq S
  <2> HIDE DEF S
  <2> QED
    BY <1>1, <1>2, NumbersByInduction
<1>4. Upto(Len(w))
  <2>1. Len(w) \in S /\ Len(w) \in Nat
    <3> HIDE DEF S
    <3> QED
      BY <1>3
  <2>2. Len(w) <= Len(w)
    BY <2>1
  <2> HIDE DEF Upto
  <2> QED
    BY <2>1, <2>2
<1> QED
  BY <1>4 DEF PartialSums

\* The sum is the last partial sum.
LEMMA TotalIsSum ==
  ASSUME NEW w \in Seq(Nat), NEW s, PartialSums(s, w)
  PROVE  Total(w) = s[Len(w)]
<1> DEFINE D == 0..Len(w)
           Sums(f) == f = [n \in D |-> IF n = 0 THEN 0 ELSE f[n - 1] + w[n]]
           sum == CHOOSE f : Sums(f)
<1>1. Total(w) = sum[Len(w)]
  BY DEF Total
<1>2. Len(w) \in Nat /\ s \in [D -> Int] /\ s[0] = 0
      /\ \A n \in 1..Len(w) : s[n] = s[n - 1] + w[n]
  BY DEF PartialSums
<1>3. Sums(s)
  <2>1. \A n \in D : s[n] = IF n = 0 THEN 0 ELSE s[n - 1] + w[n]
    BY <1>2
  <2>2. s = [n \in D |-> s[n]]
    BY <1>2
  <2> QED
    BY <2>1, <2>2
<1>4. Sums(sum)
  <2> HIDE DEF Sums
  <2> QED
    BY <1>3
<1>5. \A n \in D : sum[n] = IF n = 0 THEN 0 ELSE sum[n - 1] + w[n]
  <2> HIDE DEF sum
  <2> QED
    BY <1>4
<1> HIDE DEF sum, Sums
<1> DEFINE S == {k \in Nat : k <= Len(w) => sum[k] = s[k]}
<1>6. 0 \in S
  BY <1>2, <1>5
<1>7. ASSUME NEW k \in Nat, k \in S PROVE k + 1 \in S
  <2> SUFFICES ASSUME k + 1 <= Len(w) PROVE sum[k + 1] = s[k + 1]
    OBVIOUS
  <2>1. k + 1 \in D /\ k + 1 # 0 /\ (k + 1) - 1 = k /\ k + 1 \in 1..Len(w) /\ k <= Len(w)
    BY <1>2
  <2>2. sum[k + 1] = sum[k] + w[k + 1]
    BY <1>5, <2>1
  <2>3. s[k + 1] = s[k] + w[k + 1]
    BY <1>2, <2>1
  <2> QED
    BY <1>7, <2>1, <2>2, <2>3
<1>8. Nat \subseteq S
  <2> HIDE DEF S
  <2> QED
    BY <1>6, <1>7, NumbersByInduction
<1> QED
  BY <1>1, <1>2, <1>8

\* Nothing adds up to 0.
LEMMA TotalOfNone == Total(<<>>) = 0
<1> DEFINE w == <<>>
           s == [n \in 0..0 |-> 0]
<1>1. w \in Seq(Nat) /\ Len(w) = 0
  OBVIOUS
<1>2. PartialSums(s, w)
  <2>1. s \in [0..0 -> Int] /\ s[0] = 0
    OBVIOUS
  <2> HIDE DEF s
  <2> QED
    BY <1>1, <2>1 DEF PartialSums
<1>3. s[0] = 0
  OBVIOUS
<1> HIDE DEF s, w
<1>4. Total(w) = s[Len(w)]
  BY <1>1, <1>2, TotalIsSum
<1> QED
  BY <1>1, <1>3, <1>4 DEF w

\* What a list adds up to is a number.
LEMMA TotalIsInt ==
  ASSUME NEW w \in Seq(Nat)
  PROVE  Total(w) \in Int
<1>1. PICK s : PartialSums(s, w)
  BY SumsExist
<1>2. Total(w) = s[Len(w)]
  BY <1>1, TotalIsSum
<1> QED
  BY <1>1, <1>2 DEF PartialSums

\* The sum grows by the number appended.
LEMMA TotalOfAppend ==
  ASSUME NEW w \in Seq(Nat), NEW x \in Nat
  PROVE  Total(Append(w, x)) = Total(w) + x
<1>1. PICK s : PartialSums(s, w)
  BY SumsExist
<1>i. Len(w) \in Nat /\ Len(w) \in 0..Len(w) /\ \A n \in 0..Len(w) : s[n] \in Int
  <2>1. Len(w) \in Nat /\ Len(w) \in 0..Len(w)
    OBVIOUS
  <2>2. s \in [0..Len(w) -> Int]
    BY <1>1, Zenon DEF PartialSums
  <2> QED
    BY <2>1, <2>2
<1> DEFINE v == Append(w, x)
           t == [n \in 0..(Len(w) + 1) |-> IF n <= Len(w) THEN s[n] ELSE s[Len(w)] + x]
<1>2. /\ Len(w) \in Nat /\ v \in Seq(Nat) /\ Len(v) = Len(w) + 1
      /\ \A n \in 1..Len(w) : v[n] = w[n]
      /\ v[Len(w) + 1] = x
  <2>1. v \in Seq(Nat) /\ Len(v) = Len(w) + 1
    OBVIOUS
  <2>2. \A n \in 1..Len(w) : v[n] = w[n]
    OBVIOUS
  <2>3. v[Len(w) + 1] = x
    OBVIOUS
  <2> QED
    BY <1>i, <2>1, <2>2, <2>3
<1>3. /\ s \in [0..Len(w) -> Int] /\ s[0] = 0
      /\ \A n \in 1..Len(w) : s[n] = s[n - 1] + w[n]
  BY <1>1 DEF PartialSums
<1> HIDE DEF v
<1>4. t \in [0..Len(v) -> Int] /\ t[0] = 0
  <2>1. s[Len(w)] + x \in Int
    BY <1>i
  <2>2. \A n \in 0..(Len(w) + 1) : n <= Len(w) => s[n] \in Int
    BY <1>i
  <2> QED
    BY <1>2, <1>3, <2>1, <2>2
<1>5. ASSUME NEW n \in 1..Len(v) PROVE t[n] = t[n - 1] + v[n]
  <2>1. CASE n \in 1..Len(w)
    <3>1. n \in 0..(Len(w) + 1) /\ n - 1 \in 0..(Len(w) + 1) /\ n <= Len(w) /\ n - 1 <= Len(w)
      BY <1>2, <2>1
    <3>2. t[n] = s[n] /\ t[n - 1] = s[n - 1]
      BY <3>1
    <3> QED
      BY <1>2, <1>3, <2>1, <3>2
  <2>2. CASE n = Len(w) + 1
    <3>1. n \in 0..(Len(w) + 1) /\ n - 1 \in 0..(Len(w) + 1) /\ ~(n <= Len(w)) /\ n - 1 = Len(w)
      BY <1>2, <2>2
    <3>2. t[n] = s[Len(w)] + x /\ t[n - 1] = s[Len(w)]
      BY <1>2, <3>1
    <3> QED
      BY <1>2, <2>2, <3>2
  <2> QED
    BY <1>2, <2>1, <2>2
<1>6. t[Len(v)] = s[Len(w)] + x
  BY <1>2
<1> HIDE DEF t
<1>7. PartialSums(t, v)
  BY <1>4, <1>5 DEF PartialSums
<1>8. Total(v) = t[Len(v)] /\ Total(w) = s[Len(w)]
  BY <1>1, <1>2, <1>7, TotalIsSum
<1> QED
  BY <1>6, <1>8 DEF v

\* It shrinks by the number taken from the front.
LEMMA TotalOfTail ==
  ASSUME NEW w \in Seq(Nat), w # <<>>
  PROVE  Total(w) = w[1] + Total(Tail(w))
<1>1. PICK s : PartialSums(s, w)
  BY SumsExist
<1>i. Len(w) \in Nat /\ Len(w) \in 0..Len(w) /\ \A n \in 0..Len(w) : s[n] \in Int
  <2>1. Len(w) \in Nat
    OBVIOUS
  <2>2. s \in [0..Len(w) -> Int]
    BY <1>1 DEF PartialSums
  <2> QED
    BY <2>1, <2>2
<1> DEFINE v == Tail(w)
           t == [n \in 0..(Len(w) - 1) |-> s[n + 1] - w[1]]
<1>2. /\ Len(w) \in Nat /\ Len(w) >= 1 /\ v \in Seq(Nat) /\ Len(v) = Len(w) - 1
      /\ \A n \in 1..Len(v) : v[n] = w[n + 1]
      /\ w[1] \in Nat
  OBVIOUS
<1>3. /\ s \in [0..Len(w) -> Int] /\ s[0] = 0
      /\ \A n \in 1..Len(w) : s[n] = s[n - 1] + w[n]
  BY <1>1 DEF PartialSums
<1> HIDE DEF v
<1>4. \A n \in 0..(Len(w) - 1) : n + 1 \in 0..Len(w) /\ n + 1 \in 1..Len(w)
  BY <1>2
<1>5. t \in [0..Len(v) -> Int]
  <2>1. \A n \in 0..(Len(w) - 1) : s[n + 1] - w[1] \in Int
    <3>1. w[1] \in Nat
      BY <1>2
    <3> QED
      BY <1>i, <1>4, <3>1
  <2> QED
    BY <1>2, <2>1
<1>6. t[0] = 0
  <2>1. 0 \in 0..(Len(w) - 1) /\ 1 \in 1..Len(w)
    BY <1>2
  <2>2. t[0] = s[1] - w[1] /\ s[1] = s[0] + w[1]
    BY <1>3, <2>1
  <2> QED
    BY <1>2, <1>3, <2>2
<1>7. ASSUME NEW n \in 1..Len(v) PROVE t[n] = t[n - 1] + v[n]
  <2>1. /\ n \in 0..(Len(w) - 1) /\ n - 1 \in 0..(Len(w) - 1)
        /\ n + 1 \in 1..Len(w) /\ (n - 1) + 1 = n /\ (n + 1) - 1 = n /\ n \in 0..Len(w)
    BY <1>2
  <2>2. t[n] = s[n + 1] - w[1] /\ t[n - 1] = s[n] - w[1]
    BY <2>1
  <2>3. s[n + 1] = s[n] + w[n + 1]
    BY <1>3, <2>1
  <2>4. v[n] = w[n + 1] /\ w[n + 1] \in Nat
    BY <1>2, <2>1
  <2>5. s[n] \in Int /\ w[1] \in Nat
    BY <1>2, <1>i, <2>1
  <2> QED
    BY <2>2, <2>3, <2>4, <2>5
<1>8. t[Len(v)] = s[Len(w)] - w[1]
  <2>1. Len(v) \in 0..(Len(w) - 1) /\ Len(v) + 1 = Len(w)
    BY <1>2
  <2> QED
    BY <2>1
<1> HIDE DEF t
<1>9. PartialSums(t, v)
  BY <1>5, <1>6, <1>7 DEF PartialSums
<1>10. Total(v) = t[Len(v)] /\ Total(w) = s[Len(w)] 
  BY <1>1, <1>2, <1>9, TotalIsSum
<1> QED
  BY <1>2, <1>i, <1>8, <1>10 DEF v

\* Numbers that are at least one sum up to as many as they are, and zeros and
\* ones to no more.
LEMMA TotalBounds ==
  ASSUME NEW w \in Seq(Nat)
  PROVE  /\ Total(w) \in Nat
         /\ (\A n \in 1..Len(w) : w[n] >= 1) => Total(w) >= Len(w)
         /\ (\A n \in 1..Len(w) : w[n] <= 1) => Total(w) <= Len(w)
<1>1. PICK s : PartialSums(s, w)
  BY SumsExist
<1>2. Total(w) = s[Len(w)]
  BY <1>1, TotalIsSum
<1>3. /\ Len(w) \in Nat /\ s \in [0..Len(w) -> Int] /\ s[0] = 0
      /\ \A n \in 1..Len(w) : s[n] = s[n - 1] + w[n] /\ w[n] \in Nat
  BY <1>1 DEF PartialSums
<1> DEFINE S == {k \in Nat : k <= Len(w) =>
                   /\ s[k] \in Nat
                   /\ (\A n \in 1..Len(w) : w[n] >= 1) => s[k] >= k
                   /\ (\A n \in 1..Len(w) : w[n] <= 1) => s[k] <= k}
<1>4. 0 \in S
  BY <1>3
<1>5. ASSUME NEW k \in Nat, k \in S PROVE k + 1 \in S
  <2> SUFFICES ASSUME k + 1 <= Len(w)
               PROVE  /\ s[k + 1] \in Nat
                      /\ (\A n \in 1..Len(w) : w[n] >= 1) => s[k + 1] >= k + 1
                      /\ (\A n \in 1..Len(w) : w[n] <= 1) => s[k + 1] <= k + 1
    OBVIOUS
  <2>1. k + 1 \in 1..Len(w) /\ (k + 1) - 1 = k /\ k <= Len(w)
    BY <1>3
  <2>2. s[k + 1] = s[k] + w[k + 1] /\ w[k + 1] \in Nat
    BY <1>3, <2>1
  <2>3. /\ s[k] \in Nat
        /\ (\A n \in 1..Len(w) : w[n] >= 1) => s[k] >= k
        /\ (\A n \in 1..Len(w) : w[n] <= 1) => s[k] <= k
    BY <1>5, <2>1
  <2> QED
    BY <2>1, <2>2, <2>3
<1>6. Nat \subseteq S
  <2> HIDE DEF S
  <2> QED
    BY <1>4, <1>5, NumbersByInduction
<1>7. Len(w) \in S
  BY <1>3, <1>6
<1> QED
  BY <1>2, <1>3, <1>7

-----------------------------------------------------------------------------
(* Sums over a buffer                                                      *)

\* What the messages of a buffer weigh, by a weight g of each message.
Weights(frames, g) == [i \in 1..Len(frames) |-> g[frames[i].msg]]
Weight(frames, g) == Total(Weights(frames, g))

\* A function from 1..n to numbers is a list of them.
LEMMA ListOfNumbers ==
  ASSUME NEW n \in Nat, NEW f \in [1..n -> Nat]
  PROVE  f \in Seq(Nat)
<1>1. [1..n -> Nat] \in {[1..k -> Nat] : k \in Nat}
  OBVIOUS
<1> QED
  BY <1>1, SeqDef, Zenon

\* The weights of a buffer are those of its messages, in order.
LEMMA WeightsType ==
  ASSUME NEW g \in [Message -> Nat], NEW q \in Seq(Frame)
  PROVE  /\ Weights(q, g) \in Seq(Nat)
         /\ Len(Weights(q, g)) = Len(q)
         /\ \A i \in 1..Len(q) : Weights(q, g)[i] = g[q[i].msg]
<1>1. \A i \in 1..Len(q) : q[i] \in Frame
  OBVIOUS
<1>2. \A i \in 1..Len(q) : g[q[i].msg] \in Nat
  BY <1>1 DEF Frame
<1>3. Len(q) \in Nat
  OBVIOUS
<1>4. Weights(q, g) \in [1..Len(q) -> Nat]
  BY <1>2 DEF Weights
<1>5. Weights(q, g) \in Seq(Nat)
  BY <1>3, <1>4, ListOfNumbers
<1>6. Len(Weights(q, g)) = Len(q)
  BY <1>3 DEF Weights
<1> QED
  BY <1>5, <1>6 DEF Weights

\* A message appended adds its weight.
LEMMA WeightOfAppend ==
  ASSUME NEW g \in [Message -> Nat], NEW q \in Seq(Frame), NEW f \in Frame
  PROVE  Weight(Append(q, f), g) = Weight(q, g) + g[f.msg]
<1> DEFINE w == Weights(q, g)
           v == Weights(Append(q, f), g)
           x == g[f.msg]
<1>1. /\ w \in Seq(Nat) /\ Len(w) = Len(q) /\ \A i \in 1..Len(q) : w[i] = g[q[i].msg]
  BY WeightsType
<1>2. /\ Append(q, f) \in Seq(Frame) /\ Len(Append(q, f)) = Len(q) + 1
      /\ \A i \in 1..Len(q) : Append(q, f)[i] = q[i]
      /\ Append(q, f)[Len(q) + 1] = f
      /\ Len(q) \in Nat
  BY AppendProperties
<1>3. /\ v \in Seq(Nat) /\ Len(v) = Len(Append(q, f))
      /\ \A i \in 1..Len(Append(q, f)) : v[i] = g[Append(q, f)[i].msg]
  BY <1>2, WeightsType
<1>4. x \in Nat
  BY DEF Frame
<1> DEFINE u == Append(w, x)
<1>5. /\ u \in Seq(Nat) /\ Len(u) = Len(w) + 1
      /\ \A i \in 1..Len(w) : u[i] = w[i]
      /\ u[Len(w) + 1] = x
  BY <1>1, <1>4, AppendProperties
<1> HIDE DEF u, v, w
<1>6. \A i \in 1..Len(v) : v[i] = u[i]
  <2> SUFFICES ASSUME NEW i \in 1..Len(v) PROVE v[i] = u[i]
    OBVIOUS
  <2>1. i \in 1..Len(q) \/ i = Len(q) + 1
    BY <1>2, <1>3
  <2>2. CASE i \in 1..Len(q)
    <3>1. v[i] = g[Append(q, f)[i].msg] /\ Append(q, f)[i] = q[i]
      BY <1>2, <1>3, <2>2
    <3>2. u[i] = w[i] /\ w[i] = g[q[i].msg]
      BY <1>1, <1>5, <2>2
    <3> QED
      BY <3>1, <3>2
  <2>3. CASE i = Len(q) + 1
    <3>1. v[i] = g[Append(q, f)[i].msg] /\ Append(q, f)[i] = f
      BY <1>2, <1>3, <2>3
    <3>2. u[i] = x
      BY <1>1, <1>5, <2>3
    <3> QED
      BY <3>1, <3>2
  <2> QED
    BY <2>1, <2>2, <2>3
<1>7. Len(v) = Len(u)
  BY <1>1, <1>2, <1>3, <1>5
<1>8. v = u
  BY <1>3, <1>5, <1>6, <1>7, SeqEqual
<1>9. Total(u) = Total(w) + x
  BY <1>1, <1>4, TotalOfAppend DEF u
<1> QED
  BY <1>8, <1>9 DEF Weight, v, w

\* The message taken from the front takes its weight away.
LEMMA WeightOfTail ==
  ASSUME NEW g \in [Message -> Nat], NEW q \in Seq(Frame), q # <<>>
  PROVE  Weight(q, g) = g[Head(q).msg] + Weight(Tail(q), g)
<1> DEFINE w == Weights(q, g)
           v == Weights(Tail(q), g)
           u == Tail(w)
<1>1. /\ w \in Seq(Nat) /\ Len(w) = Len(q) /\ \A i \in 1..Len(q) : w[i] = g[q[i].msg]
  BY WeightsType
<1>2. /\ Len(q) \in Nat /\ Len(q) >= 1 /\ Tail(q) \in Seq(Frame)
      /\ Len(Tail(q)) = Len(q) - 1 /\ Head(q) = q[1]
      /\ \A i \in 1..Len(Tail(q)) : Tail(q)[i] = q[i + 1]
  OBVIOUS
<1>3. /\ v \in Seq(Nat) /\ Len(v) = Len(Tail(q))
      /\ \A i \in 1..Len(Tail(q)) : v[i] = g[Tail(q)[i].msg]
  BY <1>2, WeightsType
<1>4. w # <<>>
  BY <1>1, <1>2
<1>5. /\ u \in Seq(Nat) /\ Len(u) = Len(w) - 1
      /\ \A i \in 1..Len(u) : u[i] = w[i + 1]
  BY <1>1, <1>4
<1> HIDE DEF u, v, w
<1>6. Len(v) = Len(u)
  BY <1>1, <1>2, <1>3, <1>5
<1>7. ASSUME NEW i \in 1..Len(v) PROVE v[i] = u[i]
  <2>1. i \in 1..Len(Tail(q)) /\ i \in 1..Len(u) /\ i + 1 \in 1..Len(q)
    BY <1>2, <1>3, <1>6
  <2>2. v[i] = g[Tail(q)[i].msg] /\ Tail(q)[i] = q[i + 1]
    BY <1>2, <1>3, <2>1
  <2>3. u[i] = w[i + 1] /\ w[i + 1] = g[q[i + 1].msg]
    BY <1>1, <1>5, <2>1
  <2> QED
    BY <2>2, <2>3
<1>8. v = u
  BY <1>3, <1>5, <1>6, <1>7, SeqEqual
<1>9. Total(w) = w[1] + Total(u)
  BY <1>1, <1>4, TotalOfTail DEF u
<1>10. w[1] = g[Head(q).msg]
  <2>1. 1 \in 1..Len(q)
    BY <1>2
  <2> QED
    BY <1>1, <1>2, <2>1
<1> QED
  BY <1>8, <1>9, <1>10 DEF Weight, v, w

\* A buffer weighs a natural number.
LEMMA WeightIsNat ==
  ASSUME NEW g \in [Message -> Nat], NEW q \in Seq(Frame)
  PROVE  Weight(q, g) \in Nat
  BY WeightsType, TotalBounds DEF Weight

\* A message pushed into a full buffer may take another's weight away.
LEMMA WeightOfOverflow ==
  ASSUME NEW g \in [Message -> Nat], NEW q \in Seq(Frame), NEW f \in Frame
  PROVE  Weight(Overflowing(q, f), g) <= Weight(q, g) + g[f.msg]
<1>1. g[f.msg] \in Nat /\ Weight(q, g) \in Nat
  BY WeightIsNat DEF Frame
<1>2. CASE Len(q) < BufferSize
  BY <1>1, <1>2, WeightOfAppend DEF Overflowing
<1>3. CASE ~(Len(q) < BufferSize)
  <2>1. Len(q) > 0 /\ q # <<>>
    BY <1>3, ShmAssumption
  <2>2. Tail(q) \in Seq(Frame) /\ Head(q) \in Frame
    BY <2>1
  <2>3. Weight(q, g) = g[Head(q).msg] + Weight(Tail(q), g)
    BY <2>1, WeightOfTail
  <2>4. Weight(Append(Tail(q), f), g) = Weight(Tail(q), g) + g[f.msg]
    BY <2>2, WeightOfAppend
  <2>5. g[Head(q).msg] \in Nat /\ Weight(Tail(q), g) \in Nat
    BY <2>2, WeightIsNat DEF Frame
  <2> QED
    BY <1>1, <1>3, <2>3, <2>4, <2>5 DEF Overflowing
<1> QED
  BY <1>2, <1>3

-----------------------------------------------------------------------------
(* The messages of a buffer                                                *)

\* What a buffer holds are messages.
LEMMA MessagesKnown ==
  ASSUME NEW q \in Seq(Frame)
  PROVE  Messages(q) \subseteq Message
<1>1. \A i \in 1..Len(q) : q[i] \in Frame
  OBVIOUS
<1> QED
  BY <1>1 DEF Messages, Frame

\* A frame appended adds its message.
LEMMA MessagesOfAppend ==
  ASSUME NEW q \in Seq(Frame), NEW f \in Frame
  PROVE  Messages(Append(q, f)) = Messages(q) \cup {f.msg}
<1> DEFINE r == Append(q, f)
<1>1. /\ Len(q) \in Nat /\ Len(r) = Len(q) + 1
      /\ \A i \in 1..Len(q) : r[i] = q[i]
      /\ r[Len(q) + 1] = f
  BY AppendProperties
<1> HIDE DEF r
<1>2. \A i \in 1..Len(r) : i \in 1..Len(q) \/ i = Len(q) + 1
  BY <1>1
<1>3. (\A i \in 1..Len(q) : i \in 1..Len(r)) /\ Len(q) + 1 \in 1..Len(r)
  BY <1>1
<1>4. Messages(r) \subseteq Messages(q) \cup {f.msg}
  BY <1>1, <1>2 DEF Messages
<1>5. Messages(q) \cup {f.msg} \subseteq Messages(r)
  BY <1>1, <1>3 DEF Messages
<1> QED
  BY <1>4, <1>5 DEF r

\* A frame taken takes its message, and no other.
LEMMA MessagesOfTail ==
  ASSUME NEW q \in Seq(Frame), q # <<>>
  PROVE  /\ Messages(q) = {Head(q).msg} \cup Messages(Tail(q))
         /\ Head(q).msg \in Message
<1> DEFINE r == Tail(q)
<1>1. /\ Len(q) \in Nat /\ Len(q) >= 1 /\ Len(r) = Len(q) - 1 /\ Head(q) = q[1]
      /\ \A i \in 1..Len(r) : r[i] = q[i + 1]
      /\ q[1] \in Frame
  OBVIOUS
<1> HIDE DEF r
<1>2. \A i \in 1..Len(q) : i = 1 \/ (i - 1 \in 1..Len(r) /\ (i - 1) + 1 = i)
  BY <1>1
<1>3. (\A i \in 1..Len(r) : i + 1 \in 1..Len(q)) /\ 1 \in 1..Len(q)
  BY <1>1
<1>4. Messages(q) \subseteq {q[1].msg} \cup Messages(r)
  <2> SUFFICES ASSUME NEW i \in 1..Len(q)
               PROVE  q[i].msg = q[1].msg \/ q[i].msg \in Messages(r)
    BY DEF Messages
  <2>1. CASE i = 1
    BY <2>1
  <2>2. CASE i - 1 \in 1..Len(r) /\ (i - 1) + 1 = i
    <3>1. r[i - 1] = q[i]
      BY <1>1, <2>2
    <3> QED
      BY <2>2, <3>1 DEF Messages
  <2> QED
    BY <1>2, <2>1, <2>2
<1>5. {q[1].msg} \cup Messages(r) \subseteq Messages(q)
  BY <1>1, <1>3 DEF Messages
<1> QED
  BY <1>1, <1>4, <1>5 DEF r, Frame

\* A frame published adds no message but its own.
LEMMA MessagesOfOverflow ==
  ASSUME NEW q \in Seq(Frame), NEW f \in Frame
  PROVE  Messages(Overflowing(q, f)) \subseteq Messages(q) \cup {f.msg}
<1>1. CASE Len(q) < BufferSize
  BY <1>1, MessagesOfAppend DEF Overflowing
<1>2. CASE ~(Len(q) < BufferSize)
  <2>1. q # <<>> /\ Tail(q) \in Seq(Frame)
    BY <1>2, ShmAssumption
  <2>2. Messages(Tail(q)) \subseteq Messages(q)
    BY <2>1, MessagesOfTail
  <2>3. Messages(Append(Tail(q), f)) = Messages(Tail(q)) \cup {f.msg}
    BY <2>1, MessagesOfAppend
  <2> QED
    BY <1>2, <2>2, <2>3 DEF Overflowing
<1> QED
  BY <1>1, <1>2

-----------------------------------------------------------------------------
(* The weights that count: a message's credits, and whether it is metered  *)

CreditOf == [m \in Message |-> m.header.credit_grant]
MeterOf == [m \in Message |-> IF Metered(m) THEN 1 ELSE 0]

\* Credits and metering weigh every message.
LEMMA WeightTypes ==
  /\ CreditOf \in [Message -> Nat]
  /\ MeterOf \in [Message -> Nat]
<1>1. \A m \in Message : m.header.credit_grant \in U16
  BY CreditAssumption DEF MessageHeader
<1>2. U16 \subseteq Nat
  BY Zenon DEF U16
<1>3. CreditOf \in [Message -> Nat]
  BY <1>1, <1>2 DEF CreditOf
<1>4. MeterOf \in [Message -> Nat]
  <2>1. \A m \in Message : (IF Metered(m) THEN 1 ELSE 0) \in Nat
    OBVIOUS
  <2> QED
    BY <2>1 DEF MeterOf
<1> QED
  BY <1>3, <1>4

\* Granted and Unread are what a buffer weighs by the one and by the other.
LEMMA SumsAreWeights ==
  ASSUME NEW q \in Seq(Frame)
  PROVE  Granted(q) = Weight(q, CreditOf) /\ Unread(q) = Weight(q, MeterOf)
<1>1. \A i \in 1..Len(q) : q[i].msg \in Message
  BY MessagesKnown DEF Messages
<1>2. Credits(q) = Weights(q, CreditOf)
  BY <1>1 DEF Credits, Weights, CreditOf
<1>3. Meter(q) = Weights(q, MeterOf)
  BY <1>1 DEF Meter, Weights, MeterOf
<1> QED
  BY <1>2, <1>3 DEF Granted, Unread, Weight

\* What a frame pushed into a buffer does to the sums, and what a frame taken
\* from it does.
LEMMA SumsAfterPush ==
  ASSUME NEW q \in Seq(Frame), NEW f \in Frame
  PROVE  /\ Granted(Overflowing(q, f)) <= Granted(q) + CreditOf[f.msg]
         /\ Unread(Overflowing(q, f)) <= Unread(q) + MeterOf[f.msg]
         /\ Len(q) < BufferSize =>
              /\ Granted(Overflowing(q, f)) = Granted(q) + CreditOf[f.msg]
              /\ Unread(Overflowing(q, f)) = Unread(q) + MeterOf[f.msg]
<1> DEFINE r == Overflowing(q, f)
<1>1. r \in Seq(Frame)
  <2>1. Append(q, f) \in Seq(Frame)
    OBVIOUS
  <2>2. CASE ~(Len(q) < BufferSize)
    <3>1. q # <<>>
      BY <2>2, ShmAssumption
    <3>2. Tail(q) \in Seq(Frame)
      BY <3>1
    <3>3. Append(Tail(q), f) \in Seq(Frame)
      BY <3>2
    <3> QED
      BY <2>2, <3>3 DEF Overflowing
  <2> QED
    BY <2>1, <2>2 DEF Overflowing
<1>2. /\ Weight(r, CreditOf) <= Weight(q, CreditOf) + CreditOf[f.msg]
      /\ Weight(r, MeterOf) <= Weight(q, MeterOf) + MeterOf[f.msg]
  BY WeightTypes, WeightOfOverflow
<1>3. ASSUME Len(q) < BufferSize
      PROVE  /\ Weight(r, CreditOf) = Weight(q, CreditOf) + CreditOf[f.msg]
             /\ Weight(r, MeterOf) = Weight(q, MeterOf) + MeterOf[f.msg]
  BY <1>3, WeightTypes, WeightOfAppend DEF Overflowing
<1>4. Granted(r) = Weight(r, CreditOf) /\ Unread(r) = Weight(r, MeterOf)
  BY <1>1, SumsAreWeights
<1>5. Granted(q) = Weight(q, CreditOf) /\ Unread(q) = Weight(q, MeterOf)
  BY SumsAreWeights
<1> HIDE DEF r
<1> QED
  BY <1>2, <1>3, <1>4, <1>5 DEF r

\* A frame taken takes its credits and its place among the unread.
LEMMA SumsAfterTake ==
  ASSUME NEW q \in Seq(Frame), q # <<>>
  PROVE  /\ Granted(q) = CreditOf[Head(q).msg] + Granted(Tail(q))
         /\ Unread(q) = MeterOf[Head(q).msg] + Unread(Tail(q))
<1>1. Tail(q) \in Seq(Frame)
  OBVIOUS
<1>2. /\ Weight(q, CreditOf) = CreditOf[Head(q).msg] + Weight(Tail(q), CreditOf)
      /\ Weight(q, MeterOf) = MeterOf[Head(q).msg] + Weight(Tail(q), MeterOf)
  BY WeightTypes, WeightOfTail
<1> QED
  BY <1>1, <1>2, SumsAreWeights

\* Both are natural numbers.
LEMMA SumsAreNat ==
  ASSUME NEW q \in Seq(Frame)
  PROVE  Granted(q) \in Nat /\ Unread(q) \in Nat
  BY SumsAreWeights, WeightTypes, WeightIsNat

\* Messages that bring a credit each bring as many credits as they are.
LEMMA CreditEach ==
  ASSUME NEW q \in Seq(Frame), \A m \in Messages(q) : m.header.credit_grant >= 1
  PROVE  Len(q) <= Granted(q)
<1> DEFINE w == Weights(q, CreditOf)
<1>1. /\ w \in Seq(Nat) /\ Len(w) = Len(q)
      /\ \A i \in 1..Len(q) : w[i] = CreditOf[q[i].msg]
  BY WeightTypes, WeightsType
<1>2. \A i \in 1..Len(q) : q[i].msg \in Messages(q) /\ q[i].msg \in Message
  BY MessagesKnown DEF Messages
<1>3. \A i \in 1..Len(q) : w[i] >= 1
  <2> HIDE DEF w
  <2> QED
    BY <1>1, <1>2 DEF CreditOf
<1> HIDE DEF w
<1>4. Total(w) >= Len(w) /\ Total(w) \in Nat
  BY <1>1, <1>3, TotalBounds
<1> QED
  BY <1>1, <1>4, SumsAreWeights DEF Weight, w

-----------------------------------------------------------------------------
(* The messages of calls and streams                                       *)

\* A message arrives with the header and the payload it was sent with.
LEMMA TransmittedAsSent ==
  ASSUME NEW m \in Message
  PROVE  /\ Transmitted[m].header = m.header
         /\ Transmitted[m].len = m.len
         /\ Transmitted[m] = [header |-> m.header, len |-> m.len]
<1>1. m.header \in MessageHeader
  BY CreditAssumption
<1>2. Fields(Encoded(m.header)) = m.header
  BY <1>1, HeaderRoundTrip
<1>3. Transmitted[m] = [header |-> Fields(Encoded(m.header)), len |-> m.len]
  BY DEF Transmitted
<1> QED
  BY <1>2, <1>3

\* A message by the fields that vary.
MessageOf(type, id, cor, format, qos, credits, flags, len) ==
  [header |-> [magic |-> MAGIC, version |-> VERSION, msg_type |-> type,
               msg_id |-> id, correlation_id |-> cor, payload_len |-> len,
               payload_format |-> format, qos |-> qos, credit_grant |-> credits,
               flags |-> flags, reserved |-> <<0, 0, 0, 0>>],
   len |-> len]

\* The fields of a message are what it is made of.
LEMMA MessageFields ==
  ASSUME NEW type, NEW id, NEW cor, NEW format, NEW qos, NEW credits, NEW flags, NEW len
  PROVE  LET m == MessageOf(type, id, cor, format, qos, credits, flags, len)
         IN  /\ m.header.msg_type = type /\ m.header.msg_id = id
             /\ m.header.correlation_id = cor /\ m.header.credit_grant = credits
             /\ m.header.flags = flags /\ m.len = len
             /\ m = [header |-> m.header, len |-> m.len]
  BY Zenon DEF MessageOf

\* Message::new leaves correlation_id, credits and flags at 0.
LEMMA NewFields ==
  ASSUME NEW type, NEW id, NEW format, NEW qos, NEW len
  PROVE  NewMessage(type, id, format, qos, len)
           = MessageOf(type, id, 0, format, qos, 0, 0, len)
  BY Zenon DEF NewMessage, MessageOf

\* set_credit_grant changes the credits and their flag, and nothing else.
LEMMA CreditSet ==
  ASSUME NEW type, NEW id, NEW cor, NEW format, NEW qos, NEW credits, NEW flags, NEW len,
         NEW c
  PROVE  SetCreditGrant(MessageOf(type, id, cor, format, qos, credits, flags, len), c)
           = MessageOf(type, id, cor, format, qos, c,
                       IF c > 0 THEN With(flags, FLAG_HAS_CREDIT_GRANT)
                                ELSE Without(flags, FLAG_HAS_CREDIT_GRANT), len)
<1> DEFINE m == MessageOf(type, id, cor, format, qos, credits, flags, len)
           n == [m EXCEPT !.header.credit_grant = c]
           f == IF c > 0 THEN With(flags, FLAG_HAS_CREDIT_GRANT)
                         ELSE Without(flags, FLAG_HAS_CREDIT_GRANT)
<1>1. n = MessageOf(type, id, cor, format, qos, c, flags, len)
  BY DEF MessageOf
<1>a. m.header.flags = flags
  BY MessageFields
<1>2. SetCreditGrant(m, c) = [n EXCEPT !.header.flags = f]
  <2> HIDE DEF m
  <2>1. SetCreditGrant(m, c) = [m EXCEPT !.header.credit_grant = c, !.header.flags = f]
    BY <1>a DEF SetCreditGrant
  <2> HIDE DEF f
  <2> QED
    BY <2>1
<1>3. ASSUME NEW g
      PROVE  [MessageOf(type, id, cor, format, qos, c, flags, len) EXCEPT !.header.flags = g]
               = MessageOf(type, id, cor, format, qos, c, g, len)
  BY DEF MessageOf
<1> HIDE DEF n, f
<1> QED
  BY <1>1, <1>2, <1>3 DEF f

\* set_correlation_id changes the correlation id, and nothing else.
LEMMA CorrelationSet ==
  ASSUME NEW type, NEW id, NEW cor, NEW format, NEW qos, NEW credits, NEW flags, NEW len,
         NEW c
  PROVE  SetCorrelationId(MessageOf(type, id, cor, format, qos, credits, flags, len), c)
           = MessageOf(type, id, c, format, qos, credits, flags, len)
  BY DEF SetCorrelationId, MessageOf

\* set_end_of_stream changes its flag, and nothing else.
LEMMA EndSet ==
  ASSUME NEW type, NEW id, NEW cor, NEW format, NEW qos, NEW credits, NEW flags, NEW len
  PROVE  SetEndOfStream(MessageOf(type, id, cor, format, qos, credits, flags, len))
           = MessageOf(type, id, cor, format, qos, credits,
                       With(flags, FLAG_END_OF_STREAM), len)
  BY DEF SetEndOfStream, MessageOf
\* What the n-th request carries.
LEMMA RequestFields ==
  ASSUME NEW n
  PROVE  /\ Request(n).header.msg_type = SKILL_REQUEST
         /\ Request(n).header.msg_id = CallId[n]
         /\ Request(n).len = PayloadOf(n)
         /\ Request(n) = [header |-> Request(n).header, len |-> Request(n).len]
<1>1. SkillRequest(CallId[n], 1, 0, PayloadOf(n))
        = MessageOf(SKILL_REQUEST, CallId[n], 0, 1, 0, 0, 0, PayloadOf(n))
  BY NewFields DEF SkillRequest
<1>2. PICK flags : Request(n) = MessageOf(SKILL_REQUEST, CallId[n], 0, 1, 0, 0,
                                          flags, PayloadOf(n))
  BY <1>1, CreditSet DEF Request
<1> QED
  BY <1>2, MessageFields

\* A heartbeat is known by its type.
LEMMA HeartbeatFields == Heartbeat.header.msg_type = HEARTBEAT
  BY NewFields, MessageFields DEF Heartbeat

\* What a topic message that grants credits carries.
LEMMA NoticeFields ==
  ASSUME NEW credits
  PROVE  /\ Notice(credits).header.msg_type = TOPIC_PUBLISH
         /\ Notice(credits).header.credit_grant = credits
<1>1. TopicPublish(200, 2, 1, 0) = MessageOf(TOPIC_PUBLISH, 200, 0, 2, 1, 0, 0, 0)
  BY NewFields DEF TopicPublish
<1>2. PICK flags : Notice(credits)
                     = MessageOf(TOPIC_PUBLISH, 200, 0, 2, 1, credits, flags, 0)
  BY <1>1, CreditSet DEF Notice
<1> QED
  BY <1>2, MessageFields

\* A response has its request's id and length, whatever credits it brings.
LEMMA ResponseFields ==
  ASSUME NEW request, NEW credits
  PROVE  /\ Response(request, credits).header.msg_type = SKILL_RESPONSE
         /\ Response(request, credits).header.correlation_id = request.header.msg_id
         /\ Response(request, credits).len = request.len
         /\ Response(request, credits).header.credit_grant = credits
<1>1. SkillResponse(request, 100, 1, 0, request.len)
        = MessageOf(SKILL_RESPONSE, 100, request.header.msg_id, 1, 0, 0, 0, request.len)
  BY NewFields, CorrelationSet DEF SkillResponse
<1>2. PICK flags : Response(request, credits)
                     = MessageOf(SKILL_RESPONSE, 100, request.header.msg_id, 1, 0,
                                 credits, flags, request.len)
  BY <1>1, CreditSet DEF Response
<1> QED
  BY <1>2, MessageFields

\* The end-of-stream mark survives the credits that are set after it.
LEMMA FlagsApart ==
  /\ With(0, FLAG_END_OF_STREAM) = 8
  /\ Without(8, FLAG_HAS_CREDIT_GRANT) = 8 /\ Without(0, FLAG_HAS_CREDIT_GRANT) = 0
  /\ Has(8, FLAG_END_OF_STREAM) = TRUE /\ Has(0, FLAG_END_OF_STREAM) = FALSE
<1>1. FLAG_END_OF_STREAM = 8 /\ FLAG_HAS_CREDIT_GRANT = 16
  BY DEF FLAG_END_OF_STREAM, FLAG_HAS_CREDIT_GRANT
<1>2. 0 \div 8 = 0 /\ 8 \div 8 = 1 /\ 8 \div 16 = 0 /\ 0 \div 16 = 0
  OBVIOUS
<1>3. 0 % 2 = 0 /\ 1 % 2 = 1
  OBVIOUS
<1>4. Has(8, 8) = TRUE /\ Has(0, 8) = FALSE /\ Has(8, 16) = FALSE /\ Has(0, 16) = FALSE
  BY <1>2, <1>3 DEF Has
<1> QED
  BY <1>1, <1>4 DEF With, Without

\* A chunk has its number and its end mark, beside the credits' flag.
LEMMA ChunkFields ==
  ASSUME NEW n, NEW last \in BOOLEAN
  PROVE  /\ Chunk(n, last).header.msg_type = STREAM_DATA
         /\ Chunk(n, last).header.msg_id = n
         /\ IsEndOfStream(Chunk(n, last)) = last
<1> DEFINE marked == IF last THEN 8 ELSE 0
<1>1. StreamChunk(n, 0, 0, MaxPayload, last)
        = MessageOf(STREAM_DATA, n, 0, 0, 0, 0, marked, MaxPayload)
  <2>1. NewMessage(STREAM_DATA, n, 0, 0, MaxPayload)
          = MessageOf(STREAM_DATA, n, 0, 0, 0, 0, 0, MaxPayload)
    BY NewFields
  <2>2. SetEndOfStream(MessageOf(STREAM_DATA, n, 0, 0, 0, 0, 0, MaxPayload))
          = MessageOf(STREAM_DATA, n, 0, 0, 0, 0, 8, MaxPayload)
    BY EndSet, FlagsApart
  <2> QED
    BY <2>1, <2>2 DEF StreamChunk
<1> HIDE DEF marked
<1>2. Without(marked, FLAG_HAS_CREDIT_GRANT) = marked
  BY FlagsApart DEF marked
<1>3. Chunk(n, last) = MessageOf(STREAM_DATA, n, 0, 0, 0, 0, marked, MaxPayload)
  <2>1. ~(0 > 0)
    OBVIOUS
  <2>2. SetCreditGrant(MessageOf(STREAM_DATA, n, 0, 0, 0, 0, marked, MaxPayload), 0)
          = MessageOf(STREAM_DATA, n, 0, 0, 0, 0,
                      IF 0 > 0 THEN With(marked, FLAG_HAS_CREDIT_GRANT)
                               ELSE Without(marked, FLAG_HAS_CREDIT_GRANT), MaxPayload)
    BY CreditSet
  <2> QED
    BY <1>1, <1>2, <2>1, <2>2, Zenon DEF Chunk
<1>4. Chunk(n, last).header.flags = marked
  BY <1>3, MessageFields
<1>5. Has(marked, FLAG_END_OF_STREAM) = last
  BY FlagsApart DEF marked
<1>6. IsEndOfStream(Chunk(n, last)) = last
  BY <1>4, <1>5 DEF IsEndOfStream
<1>7. Chunk(n, last).header.msg_type = STREAM_DATA /\ Chunk(n, last).header.msg_id = n
  BY <1>3, MessageFields
<1> QED
  BY <1>6, <1>7

\* The types of the messages are apart.
LEMMA TypesApart ==
  /\ DATA = 1 /\ CONTROL = 2 /\ HEARTBEAT = 4 /\ SKILL_REQUEST = 16
  /\ SKILL_RESPONSE = 17 /\ STREAM_DATA = 32 /\ TOPIC_PUBLISH = 48
  BY DEF DATA, CONTROL, HEARTBEAT, SKILL_REQUEST, SKILL_RESPONSE, STREAM_DATA,
         TOPIC_PUBLISH

\* The payload of every call fits a frame.
LEMMA PayloadFits ==
  ASSUME NEW n \in Nat \ {0}
  PROVE  PayloadOf(n) \in 0..MaxPayload
<1>1. PICK w \in Nat \ {0} : w = MaxPayload + 1
  BY ShmAssumption
<1>2. PICK k \in Nat : k = n - 1
  OBVIOUS
<1>3. k % w \in 0..(w - 1)
  BY <1>1, <1>2, SMT
<1>4. PayloadOf(n) = k % w /\ w - 1 = MaxPayload
  BY <1>1, <1>2, ShmAssumption DEF PayloadOf
<1> QED
  BY <1>3, <1>4

\* The messages that are sent are messages.
LEMMA SentAreMessages ==
  /\ \A n \in 1..Len(CallId) : Request(n) \in Message
  /\ \A n \in 1..MaxChunks, last \in BOOLEAN : Chunk(n, last) \in Message
  /\ \A n \in 1..Len(CallId), c \in 1..MaxCredit : Response(Request(n), c) \in Message
  /\ \A c \in 1..MaxCredit : Notice(c) \in Message
  /\ Heartbeat \in Message
<1>m. /\ {Request(n) : n \in 1..Len(CallId)} \subseteq Message
      /\ {Chunk(n, last) : n \in 1..MaxChunks, last \in BOOLEAN} \subseteq Message
      /\ {Response(SkillRequest(CallId[n], 1, 0, len), c) :
            n \in 1..Len(CallId), len \in 0..MaxPayload, c \in 1..MaxCredit} \subseteq Message
      /\ {Notice(c) : c \in 1..MaxCredit} \subseteq Message
      /\ Heartbeat \in Message
  <2> DEFINE R == {Request(n) : n \in 1..Len(CallId)}
             C == {Chunk(n, last) : n \in 1..MaxChunks, last \in BOOLEAN}
             A == {Response(SkillRequest(CallId[n], 1, 0, len), c) :
                     n \in 1..Len(CallId), len \in 0..MaxPayload, c \in 1..MaxCredit}
             G == {Notice(c) : c \in 1..MaxCredit}
  <2>1. ASSUME NEW x, x \in R \/ x \in C \/ x \in A \/ x \in G \/ x = Heartbeat
        PROVE  x \in CallMessage
    <3> HIDE DEF R, C, A, G
    <3> QED
      BY <2>1 DEF CallMessage, R, C, A, G
  <2> HIDE DEF R, C, A, G
  <2>2. /\ R \subseteq Message /\ C \subseteq Message /\ A \subseteq Message
        /\ G \subseteq Message /\ Heartbeat \in Message
    BY <2>1, MessageAssumption
  <2> QED
    BY <2>2 DEF R, C, A, G
<1>1. ASSUME NEW n \in 1..Len(CallId), NEW c \in 1..MaxCredit
      PROVE  Response(Request(n), c) \in Message
  <2> DEFINE r == SkillRequest(CallId[n], 1, 0, PayloadOf(n))
  <2>1. r.header.msg_id = CallId[n] /\ r.len = PayloadOf(n)
    BY NewFields, MessageFields DEF SkillRequest
  <2>2. Request(n).header.msg_id = CallId[n] /\ Request(n).len = PayloadOf(n)
    BY RequestFields
  <2>3. Response(Request(n), c) = Response(r, c)
    <3> HIDE DEF r
    <3> QED
      BY <2>1, <2>2 DEF Response, SkillResponse
  <2>4. PayloadOf(n) \in 0..MaxPayload
    BY PayloadFits
  <2>5. Response(r, c) \in {Response(SkillRequest(CallId[k], 1, 0, len), d) :
                              k \in 1..Len(CallId), len \in 0..MaxPayload, d \in 1..MaxCredit}
    BY <2>4
  <2> HIDE DEF r
  <2> QED
    BY <1>m, <2>3, <2>5
<1>2. \A n \in 1..Len(CallId) : Request(n) \in Message
  BY <1>m
<1>3. ASSUME NEW n \in 1..MaxChunks, NEW last \in BOOLEAN
      PROVE  Chunk(n, last) \in Message
  <2>1. Chunk(n, last) \in {Chunk(k, l) : k \in 1..MaxChunks, l \in BOOLEAN}
    OBVIOUS
  <2> QED
    BY <1>m, <2>1
<1>4. \A c \in 1..MaxCredit : Notice(c) \in Message
  BY <1>m
<1>5. Heartbeat \in Message
  BY <1>m
<1> QED
  BY <1>1, <1>2, <1>3, <1>4, <1>5

-----------------------------------------------------------------------------
(* The connection's part of a step                                         *)

\* There are two ends.
LEMMA TwoEnds ==
  /\ "client" \in Ends /\ "server" \in Ends /\ "client" # "server"
  /\ Peer("client") = "server" /\ Peer("server") = "client"
  /\ \A e \in Ends : e = "client" \/ e = "server"
  BY DEF Ends, Peer

\* Types of the buffers, and the sums over them.
LEMMA FlowFacts ==
  ASSUME FlowInv
  PROVE  /\ \A e \in Ends : /\ buffer[e] \in Seq(Frame) /\ Len(buffer[e]) \in Nat
                            /\ Granted(buffer[e]) \in Nat /\ Unread(buffer[e]) \in Nat
                            /\ published[e] \in Nat /\ Len(got[e]) \in Nat
         /\ available \in Nat /\ Holding \in 0..1 /\ owed \in Nat /\ leaked \in Nat
         /\ heartbeats \in Nat /\ heartbeats <= MaxHeartbeats
         /\ bonus \in Nat /\ bonus <= MaxBonus
         /\ MaxBonus \in Nat /\ MaxHeartbeats \in Nat /\ InitialCredits \in Nat
         /\ BufferSize \in Nat
         /\ Len(buffer["client"]) <= Granted(buffer["client"])
         /\ available + Holding + Unread(buffer["server"]) + owed
              + Granted(buffer["client"]) + leaked <= InitialCredits + bonus
<1>1. ASSUME NEW e \in Ends
      PROVE  /\ buffer[e] \in Seq(Frame) /\ Len(buffer[e]) \in Nat
             /\ published[e] \in Nat /\ Len(got[e]) \in Nat
  <2>1. /\ buffer[e] \in Seq(Frame) /\ Len(buffer[e]) \in Nat
        /\ published[e] \in Nat /\ got[e] \in Seq(Nat \ {0})
    BY EndTypes DEF FlowInv, ShmInv
  <2> QED
    BY <2>1
<1>2. \A e \in Ends : Granted(buffer[e]) \in Nat /\ Unread(buffer[e]) \in Nat
  BY <1>1, SumsAreNat
<1>3. /\ available \in Nat /\ Holding \in 0..1 /\ owed \in Nat /\ leaked \in Nat
      /\ heartbeats \in Nat /\ heartbeats <= MaxHeartbeats
      /\ bonus \in Nat /\ bonus <= MaxBonus
      /\ MaxBonus \in Nat /\ MaxHeartbeats \in Nat /\ InitialCredits \in Nat
      /\ BufferSize \in Nat
  BY CreditAssumption, ShmAssumption DEF FlowInv, FlowTypes, Holding
<1>4. Len(buffer["client"]) <= Granted(buffer["client"])
  BY <1>1, TwoEnds, CreditEach DEF FlowInv, FlowTypes
<1>5. WindowRespected
  BY DEF FlowInv
<1> QED
  BY <1>1, <1>2, <1>3, <1>4, <1>5 DEF WindowRespected

\* The numbers the window is about.
LEMMA FlowNumbers ==
  ASSUME FlowInv
  PROVE  /\ Unread(buffer["server"]) \in Nat /\ Granted(buffer["client"]) \in Nat
         /\ Len(buffer["server"]) \in Nat /\ Len(buffer["client"]) \in Nat
         /\ available \in Nat /\ Holding \in 0..1 /\ owed \in Nat /\ leaked \in Nat
         /\ heartbeats \in Nat /\ bonus \in Nat /\ InitialCredits \in Nat
         /\ available + Holding + Unread(buffer["server"]) + owed
              + Granted(buffer["client"]) + leaked <= InitialCredits + bonus
         /\ WindowFits => Len(buffer["server"]) <= Unread(buffer["server"]) + heartbeats
<1>1. ExemptCounted
  BY DEF FlowInv
<1> QED
  BY <1>1, FlowFacts, TwoEnds DEF ExemptCounted

\* A send pushes one frame to the peer.
LEMMA SendStep ==
  ASSUME FlowInv, NEW e \in Ends, NEW m \in Message, Send(e, m)
  PROVE  /\ ShmInv' /\ status' = status /\ got' = got
         /\ buffer'[e] = buffer[e] /\ published'[e] = published[e]
         /\ published'[Peer(e)] = published[Peer(e)] + 1
         /\ \E f \in Frame : /\ f.msg = m
                             /\ f.id = published[Peer(e)] + 1
                             /\ buffer'[Peer(e)] = Overflowing(buffer[Peer(e)], f)
<1>1. ShmInv'
  <2>1. [ShmNext]_shmVars
    BY DEF ShmNext, EndNext
  <2> QED
    BY <2>1, StepShm DEF FlowInv
<1>2. Attached(Peer(e)) /\ Peer(e) \in Ends /\ Peer(e) # e
  BY TwoEnds DEF FlowInv, FlowTypes, Attached
<1>3. /\ published' = [published EXCEPT ![Peer(e)] = @ + 1]
      /\ buffer' = [buffer EXCEPT ![Peer(e)] =
           Overflowing(@, [id |-> published[Peer(e)] + 1, msg |-> m])]
      /\ status' = status /\ got' = got
  BY <1>2 DEF Send, Publish
<1>4. published \in [Ends -> Nat] /\ buffer \in [Ends -> Seq(Frame)]
  BY DEF FlowInv, ShmInv, ShmTypeOK
<1> DEFINE f == [id |-> published[Peer(e)] + 1, msg |-> m]
<1>5. f \in Frame /\ f.msg = m /\ f.id = published[Peer(e)] + 1
  BY <1>2, <1>4 DEF Frame
<1>6. /\ buffer'[e] = buffer[e] /\ published'[e] = published[e]
      /\ published'[Peer(e)] = published[Peer(e)] + 1
      /\ buffer'[Peer(e)] = Overflowing(buffer[Peer(e)], f)
  BY <1>2, <1>3, <1>4
<1> HIDE DEF f
<1> QED
  BY <1>1, <1>3, <1>5, <1>6

\* A receive takes the oldest frame.
LEMMA TakeStep ==
  ASSUME FlowInv, NEW e \in Ends, Receive(e)
  PROVE  /\ ShmInv' /\ status' = status /\ published' = published
         /\ buffer[e] # <<>> /\ Head(buffer[e]) \in Frame
         /\ Head(buffer[e]).msg \in Message
         /\ buffer'[e] = Tail(buffer[e]) /\ Len(buffer'[e]) = Len(buffer[e]) - 1
         /\ Len(got'[e]) = Len(got[e]) + 1
         /\ buffer'[Peer(e)] = buffer[Peer(e)] /\ got'[Peer(e)] = got[Peer(e)]
<1>1. ShmInv'
  <2>1. [ShmNext]_shmVars
    BY DEF ShmNext, EndNext
  <2> QED
    BY <2>1, StepShm DEF FlowInv
<1>2. /\ buffer[e] # <<>>
      /\ buffer' = [buffer EXCEPT ![e] = Tail(buffer[e])]
      /\ got' = [got EXCEPT ![e] = Append(got[e], Head(buffer[e]).id)]
      /\ status' = status /\ published' = published
  BY DEF Receive
<1>3. /\ got \in [Ends -> Seq(Nat \ {0})] /\ buffer \in [Ends -> Seq(Frame)]
      /\ Peer(e) \in Ends /\ Peer(e) # e
  BY PeerIsOther DEF FlowInv, ShmInv, ShmTypeOK
<1>4. buffer[e] \in Seq(Frame) /\ got[e] \in Seq(Nat \ {0})
  BY <1>3
<1>5. /\ buffer'[e] = Tail(buffer[e]) /\ got'[e] = Append(got[e], Head(buffer[e]).id)
      /\ buffer'[Peer(e)] = buffer[Peer(e)] /\ got'[Peer(e)] = got[Peer(e)]
  BY <1>2, <1>3
<1>6. Head(buffer[e]) \in Frame /\ Len(Tail(buffer[e])) = Len(buffer[e]) - 1
  BY <1>2, <1>4
<1>7. Head(buffer[e]).msg \in Message /\ Head(buffer[e]).id \in Nat \ {0}
  BY <1>6 DEF Frame
<1>8. Len(got'[e]) = Len(got[e]) + 1
  BY <1>4, <1>5, <1>7
<1> QED
  BY <1>1, <1>2, <1>5, <1>6, <1>7, <1>8

-----------------------------------------------------------------------------
(* Flow control                                                            *)

\* A message is pushed to an end, which has room for it if the window fits.
Pushed(e, m) ==
  \E f \in Frame :
    /\ f.msg = m
    /\ buffer'[e] = Overflowing(buffer[e], f)
    /\ WindowFits => Len(buffer[e]) < BufferSize

Taken(e) == buffer[e] # <<>> /\ buffer'[e] = Tail(buffer[e])

\* The invariant of flow control holds at the start.
LEMMA StartFlow == CreditInit => FlowInv
<1> SUFFICES ASSUME CreditInit PROVE FlowInv
  OBVIOUS
<1>1. ASSUME NEW e \in Ends
      PROVE  /\ status[e] = "open" /\ buffer[e] = <<>>
             /\ published[e] = 0 /\ got[e] = <<>>
  BY DEF CreditInit
<1>2. /\ BufferSize \in Nat /\ Len(<<>>) = 0 /\ <<>> \in Seq(Frame)
      /\ <<>> \in Seq(Nat \ {0})
  BY ShmAssumption
<1>3. ShmTypeOK
  BY <1>1, <1>2 DEF CreditInit, ShmTypeOK, Result
<1>4. ASSUME NEW e \in Ends PROVE EndInv(e)
  <2>1. Len(buffer[e]) = 0 /\ Len(got[e]) = 0 /\ published[e] = 0
    BY <1>1, <1>2
  <2>2. Consecutive(e) /\ ReadEarlier(e)
    BY <2>1 DEF Consecutive, Gapless, ReadEarlier
  <2>3. Accounted(e) /\ Unopened(e)
    BY <1>1, <2>1 DEF Accounted, Unopened
  <2> QED
    BY <2>2, <2>3 DEF EndInv
<1>5. Unread(<<>>) = 0 /\ Granted(<<>>) = 0 /\ Messages(<<>>) = {}
  <2>1. Meter(<<>>) = <<>> /\ Credits(<<>>) = <<>>
    BY DEF Meter, Credits
  <2>2. Messages(<<>>) = {}
    BY DEF Messages
  <2> QED
    BY <2>1, <2>2, TotalOfNone DEF Unread, Granted
<1>6. buffer["client"] = <<>> /\ buffer["server"] = <<>>
  BY <1>1, TwoEnds
<1>7. FlowTypes
  <2>1. /\ available \in Nat /\ holding = FALSE /\ owed = 0 /\ leaked = 0
        /\ heartbeats = 0 /\ bonus = 0
    BY CreditAssumption DEF CreditInit
  <2>2. 0 \in 0..MaxHeartbeats /\ 0 \in 0..MaxBonus
    BY CreditAssumption
  <2>3. \A m \in Messages(buffer["client"]) : m.header.credit_grant >= 1
    BY <1>5, <1>6
  <2> QED
    BY <1>1, <2>1, <2>2, <2>3 DEF FlowTypes
<1>8. WindowRespected
  BY <1>5, <1>6, CreditAssumption DEF CreditInit, WindowRespected, Holding
<1>9. ExemptCounted
  BY <1>2, <1>5, <1>6 DEF CreditInit, ExemptCounted
<1>10. NothingReplaced
  <2> SUFFICES ASSUME NEW e \in Ends
               PROVE  published[e] = Len(got[e]) + Len(buffer[e])
    BY DEF NothingReplaced
  <2>1. Len(got[e]) = 0 /\ Len(buffer[e]) = 0 /\ published[e] = 0
    BY <1>1, <1>2
  <2>2. Len(got[e]) + Len(buffer[e]) = 0
    BY <2>1
  <2> QED
    BY <2>1, <2>2
<1> QED
  BY <1>3, <1>4, <1>7, <1>8, <1>9, <1>10 DEF FlowInv, ShmInv

\* A step that leaves the connection alone.
LEMMA QuietFlow ==
  ASSUME FlowInv, UNCHANGED shmVars
  PROVE  /\ ShmInv' /\ NothingReplaced'
         /\ status' = status /\ buffer' = buffer
<1>1. ShmInv'
  BY StepShm DEF FlowInv
<1>2. status' = status /\ buffer' = buffer /\ published' = published /\ got' = got
  BY DEF shmVars
<1>3. NothingReplaced'
  BY <1>2 DEF FlowInv, NothingReplaced
<1> QED
  BY <1>1, <1>2, <1>3

\* Acquire keeps it: a credit goes from available to the caller's hand.
LEMMA AcquireFlow ==
  ASSUME FlowInv, Acquire
  PROVE  FlowInv' /\ buffer' = buffer
<1>1. /\ ShmInv' /\ NothingReplaced' /\ status' = status /\ buffer' = buffer
  BY QuietFlow DEF Acquire
<1>2. /\ available > 0 /\ available' = available - 1 /\ holding' = TRUE /\ holding = FALSE
      /\ UNCHANGED <<owed, heartbeats, bonus, leaked>>
  BY DEF Acquire, Decremented, FlowInv, FlowTypes
<1>3. FlowTypes'
  BY <1>1, <1>2 DEF FlowInv, FlowTypes
<1>4. Holding = 0 /\ Holding' = 1
  BY <1>2 DEF Holding
<1>5. WindowRespected'
  BY <1>1, <1>2, <1>4, FlowNumbers DEF WindowRespected
<1>6. ExemptCounted'
  BY <1>1, <1>2 DEF FlowInv, ExemptCounted
<1> QED
  BY <1>1, <1>3, <1>5, <1>6 DEF FlowInv

\* A send that fails keeps it: the credit held leaks.
LEMMA FailedSendFlow ==
  ASSUME FlowInv, NEW m, SendMeteredFails(m)
  PROVE  FlowInv' /\ buffer' = buffer
<1>1. /\ status' = status /\ buffer' = buffer /\ published' = published /\ got' = got
  BY DEF SendMeteredFails, SendRefused, SendFails
<1>2. ShmInv'
  <2>1. asleep' = asleep /\ missed' = missed
    BY DEF SendMeteredFails, SendRefused, SendFails
  <2>2. ShmTypeOK
    BY DEF FlowInv, ShmInv
  <2>3. result' \in [Ends -> Result]
    <3>1. \E r \in Result : result' = [result EXCEPT !["client"] = r]
      BY DEF SendMeteredFails, SendRefused, SendFails, Result
    <3> QED
      BY <2>2, <3>1 DEF ShmTypeOK
  <2>4. ShmTypeOK'
    BY <1>1, <2>1, <2>2, <2>3 DEF ShmTypeOK
  <2>5. \A e \in Ends : EndInv(e)'
    BY <1>1 DEF FlowInv, ShmInv, EndInv, Consecutive, ReadEarlier, Accounted,
                Unopened, Attached
  <2> QED
    BY <2>4, <2>5 DEF ShmInv
<1>3. /\ holding = TRUE /\ holding' = FALSE /\ leaked' = leaked + 1
      /\ UNCHANGED <<available, owed, heartbeats, bonus>>
  BY DEF SendMeteredFails, FlowInv, FlowTypes
<1>4. FlowTypes'
  <2>1. leaked' \in Nat
    BY <1>3, FlowNumbers
  <2> QED
    BY <1>1, <1>3, <2>1 DEF FlowInv, FlowTypes
<1>5. Holding = 1 /\ Holding' = 0
  BY <1>3 DEF Holding
<1>6. WindowRespected'
  <2> SUFFICES available + 0 + Unread(buffer["server"]) + owed
                 + Granted(buffer["client"]) + (leaked + 1) <= InitialCredits + bonus
    BY <1>1, <1>3, <1>5 DEF WindowRespected
  <2>1. available + 1 + Unread(buffer["server"]) + owed
          + Granted(buffer["client"]) + leaked <= InitialCredits + bonus
    BY <1>5, FlowNumbers
  <2>2. /\ Unread(buffer["server"]) \in Nat /\ Granted(buffer["client"]) \in Nat
        /\ available \in Nat /\ owed \in Nat /\ leaked \in Nat
        /\ bonus \in Nat /\ InitialCredits \in Nat
    BY FlowNumbers
  <2> QED
    BY <2>1, <2>2
<1>7. ExemptCounted' /\ NothingReplaced'
  BY <1>1, <1>3 DEF FlowInv, ExemptCounted, NothingReplaced
<1> QED
  BY <1>1, <1>2, <1>4, <1>6, <1>7 DEF FlowInv

\* What a push does to the sums of the buffer, with or without room for it.
LEMMA PushFlow ==
  ASSUME FlowInv, NEW e \in Ends, NEW m \in Message, Send(e, m),
         WindowFits => Len(buffer[Peer(e)]) < BufferSize
  PROVE  /\ ShmInv' /\ NothingReplaced' /\ status' = status
         /\ Pushed(Peer(e), m) /\ buffer'[e] = buffer[e]
         /\ Granted(buffer'[Peer(e)]) \in Nat /\ Unread(buffer'[Peer(e)]) \in Nat
         /\ Granted(buffer'[Peer(e)]) <= Granted(buffer[Peer(e)]) + CreditOf[m]
         /\ Unread(buffer'[Peer(e)]) <= Unread(buffer[Peer(e)]) + MeterOf[m]
         /\ WindowFits =>
              /\ Len(buffer'[Peer(e)]) = Len(buffer[Peer(e)]) + 1
              /\ Unread(buffer'[Peer(e)]) = Unread(buffer[Peer(e)]) + MeterOf[m]
         /\ Messages(buffer'[Peer(e)]) \subseteq Messages(buffer[Peer(e)]) \cup {m}
<1> DEFINE p == Peer(e)
           q == buffer[p]
<1>1. /\ ShmInv' /\ status' = status /\ got' = got
      /\ buffer'[e] = buffer[e] /\ published'[e] = published[e]
      /\ published'[p] = published[p] + 1
  BY SendStep
<1>2. PICK f \in Frame : f.msg = m /\ buffer'[p] = Overflowing(q, f)
  BY SendStep
<1>3. p \in Ends /\ \A d \in Ends : d = e \/ d = p
  BY TwoEnds
<1>4. q \in Seq(Frame) /\ Len(q) \in Nat
  BY <1>3, FlowFacts
<1>5. buffer'[p] \in Seq(Frame)
  BY <1>1, <1>3 DEF ShmInv, ShmTypeOK
<1>6. Pushed(p, m)
  BY <1>2 DEF Pushed
<1>7. Granted(buffer'[p]) \in Nat /\ Unread(buffer'[p]) \in Nat
  BY <1>5, SumsAreNat
<1>8. /\ Granted(buffer'[p]) <= Granted(q) + CreditOf[m]
      /\ Unread(buffer'[p]) <= Unread(q) + MeterOf[m]
      /\ Len(q) < BufferSize => Unread(buffer'[p]) = Unread(q) + MeterOf[m]
  BY <1>2, <1>4, SumsAfterPush
<1>9. Len(q) < BufferSize => Len(buffer'[p]) = Len(q) + 1
  BY <1>2, <1>4 DEF Overflowing
<1>10. Messages(buffer'[p]) \subseteq Messages(q) \cup {m}
  BY <1>2, <1>4, MessagesOfOverflow
<1>11. NothingReplaced'
  <2> SUFFICES ASSUME WindowFits, NEW d \in Ends
               PROVE  published'[d] = Len(got'[d]) + Len(buffer'[d])
    BY DEF NothingReplaced
  <2>1. /\ published[d] = Len(got[d]) + Len(buffer[d])
        /\ published[d] \in Nat /\ Len(got[d]) \in Nat /\ Len(buffer[d]) \in Nat
    BY FlowFacts DEF FlowInv, NothingReplaced
  <2>2. CASE d = e
    BY <1>1, <2>1, <2>2
  <2>3. CASE d = p
    <3>1. Len(buffer'[d]) = Len(buffer[d]) + 1
      BY <1>9, <2>3
    <3>2. published'[d] = published[d] + 1 /\ Len(got'[d]) = Len(got[d])
      BY <1>1, <2>3
    <3> HIDE DEF p, q
    <3>3. PICK a : a = Len(got[d])
      OBVIOUS
    <3>4. PICK b : b = Len(buffer[d])
      OBVIOUS
    <3>5. a \in Nat /\ b \in Nat /\ published[d] = a + b
      BY <2>1, <3>3, <3>4
    <3>6. /\ Len(got'[d]) = a /\ Len(buffer'[d]) = b + 1
          /\ published'[d] = (a + b) + 1
      BY <3>1, <3>2, <3>3, <3>4, <3>5
    <3> QED
      BY <3>5, <3>6
  <2> QED
    BY <1>3, <2>2, <2>3
<1> QED
  BY <1>1, <1>6, <1>7, <1>8, <1>9, <1>10, <1>11

\* There is room for what may be sent.
LEMMA ServerHasRoom ==
  ASSUME FlowInv, WindowFits, holding \/ heartbeats < MaxHeartbeats
  PROVE  Len(buffer["server"]) < BufferSize
<1>1. Len(buffer["server"]) <= Unread(buffer["server"]) + heartbeats
  BY DEF FlowInv, ExemptCounted
<1>2. Unread(buffer["server"]) + Holding <= InitialCredits + bonus
  <2>1. /\ Unread(buffer["server"]) \in Nat /\ Granted(buffer["client"]) \in Nat
        /\ available \in Nat /\ Holding \in Nat /\ owed \in Nat /\ leaked \in Nat
        /\ bonus \in Nat /\ InitialCredits \in Nat
        /\ available + Holding + Unread(buffer["server"]) + owed
             + Granted(buffer["client"]) + leaked <= InitialCredits + bonus
    BY FlowNumbers
  <2> QED
    BY <2>1
<1>3. InitialCredits + MaxBonus + MaxHeartbeats <= BufferSize
  BY DEF WindowFits
<1>4. holding => Holding = 1
  BY DEF Holding
<1>5. /\ Len(buffer["server"]) \in Nat /\ Unread(buffer["server"]) \in Nat
      /\ Holding \in 0..1 /\ heartbeats \in Nat /\ heartbeats <= MaxHeartbeats
      /\ bonus \in Nat /\ bonus <= MaxBonus /\ MaxBonus \in Nat
      /\ MaxHeartbeats \in Nat /\ InitialCredits \in Nat /\ BufferSize \in Nat
  BY FlowFacts, TwoEnds
<1> QED
  BY <1>1, <1>2, <1>3, <1>4, <1>5

\* A metered send keeps it: the credit held becomes an unread message.
LEMMA MeteredFlow ==
  ASSUME FlowInv, NEW m \in Message, SendMetered(m)
  PROVE  FlowInv' /\ Pushed("server", m) /\ buffer'["client"] = buffer["client"]
<1>1. /\ holding = TRUE /\ holding' = FALSE /\ Metered(m) /\ Send("client", m)
      /\ UNCHANGED <<available, owed, heartbeats, bonus, leaked>>
  BY DEF SendMetered, FlowInv, FlowTypes
<1>2. WindowFits => Len(buffer["server"]) < BufferSize
  BY <1>1, ServerHasRoom
<1>3. /\ ShmInv' /\ NothingReplaced' /\ status' = status
      /\ Pushed("server", m) /\ buffer'["client"] = buffer["client"]
      /\ Unread(buffer'["server"]) \in Nat
      /\ Unread(buffer'["server"]) <= Unread(buffer["server"]) + MeterOf[m]
      /\ WindowFits =>
           /\ Len(buffer'["server"]) = Len(buffer["server"]) + 1
           /\ Unread(buffer'["server"]) = Unread(buffer["server"]) + MeterOf[m]
  BY <1>1, <1>2, PushFlow, TwoEnds
<1>4. MeterOf[m] = 1
  BY <1>1 DEF MeterOf
<1>5. FlowTypes'
  BY <1>1, <1>3 DEF FlowInv, FlowTypes
<1>6. Holding = 1 /\ Holding' = 0
  BY <1>1 DEF Holding
<1>7. WindowRespected'
  <2> SUFFICES available' + Holding' + Unread(buffer'["server"]) + owed'
                 + Granted(buffer'["client"]) + leaked' <= InitialCredits + bonus'
    BY DEF WindowRespected
  <2>0. /\ Unread(buffer["server"]) \in Nat /\ Granted(buffer["client"]) \in Nat
        /\ available \in Nat /\ Holding \in Nat /\ owed \in Nat /\ leaked \in Nat
        /\ bonus \in Nat /\ InitialCredits \in Nat
        /\ available + Holding + Unread(buffer["server"]) + owed
             + Granted(buffer["client"]) + leaked <= InitialCredits + bonus
    BY FlowNumbers
  <2>1. /\ available' = available /\ owed' = owed /\ leaked' = leaked
        /\ bonus' = bonus /\ Granted(buffer'["client"]) = Granted(buffer["client"])
    BY <1>1, <1>3
  <2>2. /\ Unread(buffer'["server"]) \in Nat
        /\ Unread(buffer'["server"]) <= Unread(buffer["server"]) + 1
    BY <1>3, <1>4
  <2> QED
    BY <1>6, <2>0, <2>1, <2>2
<1>8. ExemptCounted'
  <2> SUFFICES ASSUME WindowFits
               PROVE  Len(buffer'["server"]) <= Unread(buffer'["server"]) + heartbeats'
    BY DEF ExemptCounted
  <2>1. /\ Len(buffer'["server"]) = Len(buffer["server"]) + 1
        /\ Unread(buffer'["server"]) = Unread(buffer["server"]) + 1
        /\ heartbeats' = heartbeats
    BY <1>1, <1>3, <1>4
  <2>2. /\ Len(buffer["server"]) <= Unread(buffer["server"]) + heartbeats
        /\ Len(buffer["server"]) \in Nat /\ Unread(buffer["server"]) \in Nat
        /\ heartbeats \in Nat
    BY FlowNumbers
  <2> QED
    BY <2>1, <2>2
<1> QED
  BY <1>3, <1>5, <1>7, <1>8 DEF FlowInv

\* A heartbeat keeps it: one of the exempt messages is spent.
LEMMA HeartbeatFlow ==
  ASSUME FlowInv, SendHeartbeat
  PROVE  FlowInv' /\ Pushed("server", Heartbeat) /\ buffer'["client"] = buffer["client"]
<1>1. /\ heartbeats < MaxHeartbeats /\ heartbeats' = heartbeats + 1
      /\ Send("client", Heartbeat) /\ Heartbeat \in Message
      /\ UNCHANGED <<available, holding, owed, bonus, leaked>>
  BY SentAreMessages DEF SendHeartbeat
<1>2. WindowFits => Len(buffer["server"]) < BufferSize
  BY <1>1, ServerHasRoom
<1>3. /\ ShmInv' /\ NothingReplaced' /\ status' = status
      /\ Pushed("server", Heartbeat) /\ buffer'["client"] = buffer["client"]
      /\ Unread(buffer'["server"]) \in Nat
      /\ Unread(buffer'["server"]) <= Unread(buffer["server"]) + MeterOf[Heartbeat]
      /\ WindowFits =>
           /\ Len(buffer'["server"]) = Len(buffer["server"]) + 1
           /\ Unread(buffer'["server"]) = Unread(buffer["server"]) + MeterOf[Heartbeat]
  BY <1>1, <1>2, PushFlow, TwoEnds
<1>4. MeterOf[Heartbeat] = 0
  BY <1>1, HeartbeatFields DEF MeterOf, Metered
<1>5. FlowTypes'
  BY <1>1, <1>3, FlowFacts DEF FlowInv, FlowTypes
<1>6. Holding' = Holding
  BY <1>1 DEF Holding
<1>7. WindowRespected'
  <2> SUFFICES available' + Holding' + Unread(buffer'["server"]) + owed'
                 + Granted(buffer'["client"]) + leaked' <= InitialCredits + bonus'
    BY DEF WindowRespected
  <2>0. /\ Unread(buffer["server"]) \in Nat /\ Granted(buffer["client"]) \in Nat
        /\ available \in Nat /\ Holding \in Nat /\ owed \in Nat /\ leaked \in Nat
        /\ bonus \in Nat /\ InitialCredits \in Nat
        /\ available + Holding + Unread(buffer["server"]) + owed
             + Granted(buffer["client"]) + leaked <= InitialCredits + bonus
    BY FlowNumbers
  <2>1. Unread(buffer'["server"]) <= Unread(buffer["server"])
    BY <1>3, <1>4, FlowNumbers
  <2>2. Granted(buffer'["client"]) = Granted(buffer["client"])
    BY <1>3
  <2>3. /\ available' = available /\ Holding' = Holding /\ owed' = owed
        /\ leaked' = leaked /\ bonus' = bonus /\ Unread(buffer'["server"]) \in Nat
    BY <1>1, <1>3, <1>6
  <2> QED
    BY <2>0, <2>1, <2>2, <2>3
<1>8. ExemptCounted'
  <2> SUFFICES ASSUME WindowFits
               PROVE  Len(buffer'["server"]) <= Unread(buffer'["server"]) + heartbeats'
    BY DEF ExemptCounted
  <2>1. /\ Len(buffer'["server"]) = Len(buffer["server"]) + 1
        /\ Unread(buffer'["server"]) = Unread(buffer["server"])
        /\ heartbeats' = heartbeats + 1
    BY <1>1, <1>3, <1>4, FlowNumbers
  <2> QED
    BY <2>1, FlowNumbers
<1> QED
  BY <1>3, <1>5, <1>7, <1>8 DEF FlowInv

\* A grant keeps it: what is owed, or a bonus, becomes credits under way.
LEMMA GrantFlow ==
  ASSUME FlowInv, NEW m \in Message, NEW due, Grant(m, due)
  PROVE  FlowInv' /\ Pushed("client", m) /\ buffer'["server"] = buffer["server"]
<1> DEFINE credits == m.header.credit_grant
<1>1. /\ credits > 0 /\ due \in 0..owed /\ credits - due \in 0..(MaxBonus - bonus)
      /\ Send("server", m)
      /\ owed' = owed - due /\ bonus' = bonus + credits - due
      /\ UNCHANGED <<available, holding, heartbeats, leaked>>
  BY DEF Grant
<1>2. CreditOf[m] = credits /\ credits \in Nat
  BY WeightTypes DEF CreditOf
<1> HIDE DEF credits
<1>3. /\ due \in Nat /\ due <= owed /\ owed \in Nat /\ bonus \in Nat /\ MaxBonus \in Nat
      /\ credits - due >= 0 /\ credits - due <= MaxBonus - bonus
  BY <1>1, <1>2, FlowFacts
<1>4. WindowFits => Len(buffer["client"]) < BufferSize
  <2>1. /\ Len(buffer["client"]) <= Granted(buffer["client"])
        /\ bonus <= MaxBonus
    BY FlowFacts
  <2>n. /\ Unread(buffer["server"]) \in Nat /\ Granted(buffer["client"]) \in Nat
        /\ available \in Nat /\ Holding \in Nat /\ owed \in Nat /\ leaked \in Nat
        /\ bonus \in Nat /\ InitialCredits \in Nat
        /\ available + Holding + Unread(buffer["server"]) + owed
             + Granted(buffer["client"]) + leaked <= InitialCredits + bonus
    BY FlowNumbers
  <2>m. owed + Granted(buffer["client"]) <= InitialCredits + bonus
    BY <2>n
  <2>2. WindowFits => InitialCredits + MaxBonus + MaxHeartbeats <= BufferSize
    BY DEF WindowFits
  <2>3. /\ Len(buffer["client"]) \in Nat /\ Granted(buffer["client"]) \in Nat
        /\ InitialCredits \in Nat /\ MaxHeartbeats \in Nat /\ BufferSize \in Nat
    BY FlowFacts, TwoEnds
  <2>4. credits > 0 /\ credits \in Nat
    BY <1>1, <1>2
  <2> QED
    BY <1>3, <2>1, <2>n, <2>m, <2>2, <2>3, <2>4
<1>5. /\ ShmInv' /\ NothingReplaced' /\ status' = status
      /\ Pushed("client", m) /\ buffer'["server"] = buffer["server"]
      /\ Granted(buffer'["client"]) \in Nat
      /\ Granted(buffer'["client"]) <= Granted(buffer["client"]) + CreditOf[m]
      /\ Messages(buffer'["client"]) \subseteq Messages(buffer["client"]) \cup {m}
  BY <1>1, <1>4, PushFlow, TwoEnds
<1>6. m.header.credit_grant >= 1
  BY <1>1, <1>2 DEF credits
<1>7. owed' \in Nat /\ bonus' \in 0..MaxBonus
  BY <1>1, <1>2, <1>3
<1>8. FlowTypes'
  BY <1>1, <1>5, <1>6, <1>7 DEF FlowInv, FlowTypes
<1>9. Holding' = Holding
  BY <1>1 DEF Holding
<1>10. WindowRespected'
  <2> SUFFICES available' + Holding' + Unread(buffer'["server"]) + owed'
                 + Granted(buffer'["client"]) + leaked' <= InitialCredits + bonus'
    BY DEF WindowRespected
  <2>0. /\ Unread(buffer["server"]) \in Nat /\ Granted(buffer["client"]) \in Nat
        /\ available \in Nat /\ Holding \in Nat /\ owed \in Nat /\ leaked \in Nat
        /\ bonus \in Nat /\ InitialCredits \in Nat
        /\ available + Holding + Unread(buffer["server"]) + owed
             + Granted(buffer["client"]) + leaked <= InitialCredits + bonus
    BY FlowNumbers
  <2>1. /\ available' = available /\ Holding' = Holding /\ leaked' = leaked
        /\ Unread(buffer'["server"]) = Unread(buffer["server"])
    BY <1>1, <1>5, <1>9
  <2>2. /\ Granted(buffer'["client"]) \in Nat
        /\ Granted(buffer'["client"]) <= Granted(buffer["client"]) + credits
    BY <1>2, <1>5
  <2>3. owed' = owed - due /\ bonus' = bonus + credits - due
    BY <1>1
  <2> QED
    BY <1>2, <1>3, <2>0, <2>1, <2>2, <2>3
<1>11. ExemptCounted'
  BY <1>1, <1>5 DEF FlowInv, ExemptCounted
<1> QED
  BY <1>5, <1>8, <1>10, <1>11 DEF FlowInv

\* What is read is not replaced.
LEMMA TakeFlow ==
  ASSUME FlowInv, NEW e \in Ends, Receive(e)
  PROVE  /\ ShmInv' /\ NothingReplaced' /\ status' = status
         /\ Taken(e) /\ Head(buffer[e]).msg \in Message
         /\ buffer'[Peer(e)] = buffer[Peer(e)]
         /\ Len(buffer'[e]) = Len(buffer[e]) - 1
         /\ Granted(buffer'[e]) \in Nat /\ Unread(buffer'[e]) \in Nat
         /\ Granted(buffer[e]) = CreditOf[Head(buffer[e]).msg] + Granted(buffer'[e])
         /\ Unread(buffer[e]) = MeterOf[Head(buffer[e]).msg] + Unread(buffer'[e])
         /\ Messages(buffer'[e]) \subseteq Messages(buffer[e])
<1>1. /\ ShmInv' /\ status' = status /\ published' = published
      /\ buffer[e] # <<>> /\ Head(buffer[e]).msg \in Message
      /\ buffer'[e] = Tail(buffer[e]) /\ Len(buffer'[e]) = Len(buffer[e]) - 1
      /\ Len(got'[e]) = Len(got[e]) + 1
      /\ buffer'[Peer(e)] = buffer[Peer(e)] /\ got'[Peer(e)] = got[Peer(e)]
  BY TakeStep
<1>2. buffer[e] \in Seq(Frame) /\ Tail(buffer[e]) \in Seq(Frame)
  BY <1>1, FlowFacts
<1>3. /\ Granted(buffer[e]) = CreditOf[Head(buffer[e]).msg] + Granted(buffer'[e])
      /\ Unread(buffer[e]) = MeterOf[Head(buffer[e]).msg] + Unread(buffer'[e])
      /\ Granted(buffer'[e]) \in Nat /\ Unread(buffer'[e]) \in Nat
  BY <1>1, <1>2, SumsAfterTake, SumsAreNat
<1>4. Messages(buffer'[e]) \subseteq Messages(buffer[e])
  BY <1>1, <1>2, MessagesOfTail
<1>5. NothingReplaced'
  <2> SUFFICES ASSUME WindowFits, NEW d \in Ends
               PROVE  published'[d] = Len(got'[d]) + Len(buffer'[d])
    BY DEF NothingReplaced
  <2>1. /\ published[d] = Len(got[d]) + Len(buffer[d])
        /\ published[d] \in Nat /\ Len(got[d]) \in Nat /\ Len(buffer[d]) \in Nat
    BY FlowFacts DEF FlowInv, NothingReplaced
  <2>2. published'[d] = published[d]
    BY <1>1
  <2>3. CASE d = e
    <3>1. Len(buffer'[d]) = Len(buffer[d]) - 1 /\ Len(got'[d]) = Len(got[d]) + 1
      BY <1>1, <2>3
    <3>3. PICK a : a = Len(got[d])
      OBVIOUS
    <3>4. PICK b : b = Len(buffer[d])
      OBVIOUS
    <3>5. a \in Nat /\ b \in Nat /\ published[d] = a + b
      BY <2>1, <3>3, <3>4
    <3>6. /\ Len(got'[d]) = a + 1 /\ Len(buffer'[d]) = b - 1
          /\ published'[d] = a + b
      BY <2>2, <3>1, <3>3, <3>4, <3>5
    <3> QED
      BY <3>5, <3>6
  <2>4. CASE d = Peer(e)
    BY <1>1, <2>1, <2>2, <2>4
  <2> QED
    BY <2>3, <2>4, TwoEnds
<1> QED
  BY <1>1, <1>3, <1>4, <1>5 DEF Taken

\* A read at the server keeps it: an unread message becomes a credit owed.
LEMMA ServerTakesFlow ==
  ASSUME FlowInv, ServerTakes
  PROVE  FlowInv' /\ Taken("server") /\ buffer'["client"] = buffer["client"]
<1> DEFINE m == Head(buffer["server"]).msg
<1>1. /\ Receive("server")
      /\ owed' = owed + IF Metered(Arrival("server")) THEN 1 ELSE 0
      /\ UNCHANGED <<available, holding, heartbeats, bonus, leaked>>
  BY DEF ServerTakes
<1>2. /\ ShmInv' /\ NothingReplaced' /\ status' = status
      /\ Taken("server") /\ m \in Message /\ buffer'["client"] = buffer["client"]
      /\ Len(buffer'["server"]) = Len(buffer["server"]) - 1
      /\ Unread(buffer'["server"]) \in Nat
      /\ Unread(buffer["server"]) = MeterOf[m] + Unread(buffer'["server"])
  BY <1>1, TakeFlow, TwoEnds
<1>3. Arrival("server").header = m.header
  BY <1>2, TransmittedAsSent DEF Arrival
<1> HIDE DEF m
<1>4. MeterOf[m] \in 0..1 /\ owed' = owed + MeterOf[m]
  BY <1>1, <1>2, <1>3 DEF MeterOf, Metered
<1>5. FlowTypes'
  BY <1>1, <1>2, <1>4, FlowFacts DEF FlowInv, FlowTypes
<1>6. Holding' = Holding
  BY <1>1 DEF Holding
<1>7. WindowRespected'
  <2> SUFFICES available' + Holding' + Unread(buffer'["server"]) + owed'
                 + Granted(buffer'["client"]) + leaked' <= InitialCredits + bonus'
    BY DEF WindowRespected
  <2>0. /\ Unread(buffer["server"]) \in Nat /\ Granted(buffer["client"]) \in Nat
        /\ available \in Nat /\ Holding \in Nat /\ owed \in Nat /\ leaked \in Nat
        /\ bonus \in Nat /\ InitialCredits \in Nat
        /\ available + Holding + Unread(buffer["server"]) + owed
             + Granted(buffer["client"]) + leaked <= InitialCredits + bonus
    BY FlowNumbers
  <2>1. /\ available' = available /\ Holding' = Holding /\ leaked' = leaked
        /\ bonus' = bonus /\ Granted(buffer'["client"]) = Granted(buffer["client"])
    BY <1>1, <1>2, <1>6
  <2>2. /\ Unread(buffer'["server"]) \in Nat /\ MeterOf[m] \in Int
        /\ Unread(buffer["server"]) = MeterOf[m] + Unread(buffer'["server"])
        /\ owed' = owed + MeterOf[m]
    BY <1>2, <1>4
  <2> QED
    BY <2>0, <2>1, <2>2
<1>8. ExemptCounted'
  <2> SUFFICES ASSUME WindowFits
               PROVE  Len(buffer'["server"]) <= Unread(buffer'["server"]) + heartbeats'
    BY DEF ExemptCounted
  <2>1. /\ Len(buffer["server"]) <= Unread(buffer["server"]) + heartbeats
        /\ Len(buffer["server"]) \in Nat /\ Unread(buffer["server"]) \in Nat
        /\ heartbeats \in Nat
    BY FlowNumbers
  <2>2. /\ Len(buffer'["server"]) = Len(buffer["server"]) - 1
        /\ Unread(buffer'["server"]) \in Nat
        /\ MeterOf[m] \in Int /\ MeterOf[m] <= 1
        /\ Unread(buffer["server"]) = MeterOf[m] + Unread(buffer'["server"])
        /\ heartbeats' = heartbeats
    BY <1>1, <1>2, <1>4
  <2> QED
    BY <2>1, <2>2
<1> QED
  BY <1>2, <1>5, <1>7, <1>8 DEF FlowInv

\* A read at the client keeps it: credits under way become available, as far as
\* the counter holds them.
LEMMA ClientTakesFlow ==
  ASSUME FlowInv, ClientTakes
  PROVE  FlowInv' /\ Taken("client") /\ buffer'["server"] = buffer["server"]
<1> DEFINE m == Head(buffer["client"]).msg
<1>1. /\ Receive("client")
      /\ available' = Replenished(available, Arrival("client").header.credit_grant)
      /\ UNCHANGED <<holding, owed, heartbeats, bonus, leaked>>
  BY DEF ClientTakes
<1>2. /\ ShmInv' /\ NothingReplaced' /\ status' = status
      /\ Taken("client") /\ m \in Message /\ buffer'["server"] = buffer["server"]
      /\ Granted(buffer'["client"]) \in Nat
      /\ Granted(buffer["client"]) = CreditOf[m] + Granted(buffer'["client"])
      /\ Messages(buffer'["client"]) \subseteq Messages(buffer["client"])
  BY <1>1, TakeFlow, TwoEnds
<1>3. Arrival("client").header = m.header
  BY <1>2, TransmittedAsSent DEF Arrival
<1> HIDE DEF m
<1>4. CreditOf[m] \in Nat /\ available' = Replenished(available, CreditOf[m])
  BY <1>1, <1>2, <1>3, WeightTypes DEF CreditOf
<1>5. available' \in Nat /\ available' <= available + CreditOf[m]
  BY <1>4, FlowFacts, CreditAssumption DEF Replenished
<1>6. FlowTypes'
  BY <1>1, <1>2, <1>5 DEF FlowInv, FlowTypes
<1>7. Holding' = Holding
  BY <1>1 DEF Holding
<1>8. WindowRespected'
  <2> SUFFICES available' + Holding' + Unread(buffer'["server"]) + owed'
                 + Granted(buffer'["client"]) + leaked' <= InitialCredits + bonus'
    BY DEF WindowRespected
  <2>0. /\ Unread(buffer["server"]) \in Nat /\ Granted(buffer["client"]) \in Nat
        /\ available \in Nat /\ Holding \in Nat /\ owed \in Nat /\ leaked \in Nat
        /\ bonus \in Nat /\ InitialCredits \in Nat
        /\ available + Holding + Unread(buffer["server"]) + owed
             + Granted(buffer["client"]) + leaked <= InitialCredits + bonus
    BY FlowNumbers
  <2>1. /\ Holding' = Holding /\ leaked' = leaked /\ owed' = owed
        /\ bonus' = bonus /\ Unread(buffer'["server"]) = Unread(buffer["server"])
    BY <1>1, <1>2, <1>7
  <2>2. /\ Granted(buffer'["client"]) \in Nat /\ CreditOf[m] \in Int
        /\ Granted(buffer["client"]) = CreditOf[m] + Granted(buffer'["client"])
        /\ available' \in Nat /\ available' <= available + CreditOf[m]
    BY <1>2, <1>4, <1>5
  <2> QED
    BY <2>0, <2>1, <2>2
<1>9. ExemptCounted'
  BY <1>1, <1>2 DEF FlowInv, ExemptCounted
<1> QED
  BY <1>2, <1>6, <1>8, <1>9 DEF FlowInv

-----------------------------------------------------------------------------
(* Streams                                                                 *)

\* Another message behind the chunks changes nothing.
LEMMA OtherSent ==
  ASSUME NEW q \in Seq(Frame), NEW f \in Frame, ~IsStreamData(f.msg),
         NEW read \in Nat, NEW sent \in Seq(ChunkRecord), InFlight(q, read, sent)
  PROVE  InFlight(Append(q, f), read, sent)
<1> DEFINE r == Append(q, f)
<1>1. /\ Len(q) \in Nat /\ Len(r) = Len(q) + 1
      /\ \A i \in 1..Len(q) : r[i] = q[i]
      /\ r[Len(q) + 1] = f
  BY AppendProperties
<1>2. Messages(r) = Messages(q) \cup {f.msg}
  BY MessagesOfAppend
<1> HIDE DEF r
<1>3. \A i \in 1..Len(r) : i \in 1..Len(q) \/ r[i] = f
  BY <1>1
<1>4. \A i, j \in 1..Len(r) :
        i < j /\ IsStreamData(r[i].msg) /\ IsStreamData(r[j].msg) =>
          r[i].msg.header.msg_id < r[j].msg.header.msg_id
  BY <1>1, <1>3 DEF InFlight
<1> QED
  BY <1>2, <1>4 DEF InFlight, r

\* Another message in front of them is read.
LEMMA OtherRead ==
  ASSUME NEW q \in Seq(Frame), q # <<>>, ~IsStreamData(Head(q).msg),
         NEW read \in Nat, NEW sent \in Seq(ChunkRecord), InFlight(q, read, sent)
  PROVE  InFlight(Tail(q), read, sent)
<1> DEFINE r == Tail(q)
<1>1. /\ Len(q) \in Nat /\ Len(r) = Len(q) - 1
      /\ \A i \in 1..Len(r) : i + 1 \in 1..Len(q) /\ r[i] = q[i + 1]
  OBVIOUS
<1>2. Messages(q) = {Head(q).msg} \cup Messages(r)
  BY MessagesOfTail
<1> HIDE DEF r
<1>3. \A i, j \in 1..Len(r) :
        i < j /\ IsStreamData(r[i].msg) /\ IsStreamData(r[j].msg) =>
          r[i].msg.header.msg_id < r[j].msg.header.msg_id
  <2> SUFFICES ASSUME NEW i \in 1..Len(r), NEW j \in 1..Len(r), i < j,
                      IsStreamData(r[i].msg), IsStreamData(r[j].msg)
               PROVE  r[i].msg.header.msg_id < r[j].msg.header.msg_id
    OBVIOUS
  <2>1. i + 1 < j + 1
    BY <1>1
  <2> QED
    BY <1>1, <2>1 DEF InFlight
<1>4. \A k \in (read + 1)..Len(sent) : Chunk(k, sent[k].last) # Head(q).msg
  <2> SUFFICES ASSUME NEW k \in (read + 1)..Len(sent)
               PROVE  Chunk(k, sent[k].last) # Head(q).msg
    OBVIOUS
  <2>1. k \in 1..Len(sent)
    OBVIOUS
  <2>2. sent[k] \in ChunkRecord
    BY <2>1
  <2>3. sent[k].last \in BOOLEAN
    BY <2>2 DEF ChunkRecord
  <2> QED
    BY <2>3, ChunkFields DEF IsStreamData
<1>5. \A m \in Messages(r) : m \in Messages(q)
  BY <1>2
<1>6. \A k \in (read + 1)..Len(sent) : Chunk(k, sent[k].last) \in Messages(r)
  BY <1>2, <1>4 DEF InFlight
<1> QED
  BY <1>3, <1>5, <1>6 DEF InFlight, r

\* The next chunk is sent behind them.
LEMMA ChunkSent ==
  ASSUME NEW q \in Seq(Frame), NEW f \in Frame, NEW last \in BOOLEAN,
         NEW read \in Nat, NEW sent \in Seq(ChunkRecord), read <= Len(sent),
         f.msg = Chunk(Len(sent) + 1, last), InFlight(q, read, sent)
  PROVE  InFlight(Append(q, f), read,
                  Append(sent, [id |-> Len(sent) + 1, last |-> last]))
<1> DEFINE r == Append(q, f)
           new == [id |-> Len(sent) + 1, last |-> last]
           s == Append(sent, new)
<1>1. /\ Len(q) \in Nat /\ Len(r) = Len(q) + 1
      /\ \A i \in 1..Len(q) : r[i] = q[i]
      /\ r[Len(q) + 1] = f
  BY AppendProperties
<1>2. Messages(r) = Messages(q) \cup {f.msg}
  BY MessagesOfAppend
<1>3. Len(sent) \in Nat /\ Len(sent) + 1 \in Nat
  OBVIOUS
<1>4. new \in ChunkRecord /\ new.last = last
  BY <1>3 DEF ChunkRecord
<1> HIDE DEF r, new
<1>5. /\ s \in Seq(ChunkRecord) /\ Len(s) = Len(sent) + 1
      /\ \A k \in 1..Len(sent) : s[k] = sent[k]
      /\ s[Len(sent) + 1] = new
  BY <1>4, AppendProperties
<1> HIDE DEF s
<1>6. \A k \in (read + 1)..Len(s) :
        \/ k \in (read + 1)..Len(sent) /\ s[k] = sent[k]
        \/ k = Len(sent) + 1 /\ s[k] = new
  BY <1>3, <1>5
<1>7. Len(s) \in (read + 1)..Len(s) /\ \A k \in (read + 1)..Len(sent) : k \in (read + 1)..Len(s)
  BY <1>3, <1>5
<1>8. f.msg = Chunk(Len(s), s[Len(s)].last)
  BY <1>4, <1>5
<1>9. \A m \in Messages(r) : IsStreamData(m) =>
        \E k \in (read + 1)..Len(s) : m = Chunk(k, s[k].last)
  <2> SUFFICES ASSUME NEW m \in Messages(r), IsStreamData(m)
               PROVE  \E k \in (read + 1)..Len(s) : m = Chunk(k, s[k].last)
    OBVIOUS
  <2>1. CASE m = f.msg
    BY <1>7, <1>8, <2>1
  <2>2. CASE m \in Messages(q)
    <3>1. PICK k \in (read + 1)..Len(sent) : m = Chunk(k, sent[k].last)
      BY <2>2 DEF InFlight
    <3>2. k \in (read + 1)..Len(s) /\ s[k] = sent[k]
      BY <1>3, <1>5, <1>7
    <3> QED
      BY <3>1, <3>2
  <2> QED
    BY <1>2, <2>1, <2>2
<1>10. \A k \in (read + 1)..Len(s) : Chunk(k, s[k].last) \in Messages(r)
  <2> SUFFICES ASSUME NEW k \in (read + 1)..Len(s)
               PROVE  Chunk(k, s[k].last) \in Messages(r)
    OBVIOUS
  <2>1. CASE k \in (read + 1)..Len(sent) /\ s[k] = sent[k]
    BY <1>2, <2>1 DEF InFlight
  <2>2. CASE k = Len(sent) + 1 /\ s[k] = new
    BY <1>2, <1>4, <2>2
  <2> QED
    BY <1>6, <2>1, <2>2
<1>11. \A i \in 1..Len(q) : IsStreamData(q[i].msg) =>
         q[i].msg.header.msg_id \in Nat /\ q[i].msg.header.msg_id <= Len(sent)
  <2> SUFFICES ASSUME NEW i \in 1..Len(q), IsStreamData(q[i].msg)
               PROVE  q[i].msg.header.msg_id \in Nat /\ q[i].msg.header.msg_id <= Len(sent)
    OBVIOUS
  <2>1. PICK k \in (read + 1)..Len(sent) : q[i].msg = Chunk(k, sent[k].last)
    BY DEF InFlight, Messages
  <2>2. k \in 1..Len(sent)
    BY <1>3
  <2>3. sent[k] \in ChunkRecord
    BY <2>2
  <2>4. Chunk(k, sent[k].last).header.msg_id = k
    BY <2>3, ChunkFields DEF ChunkRecord
  <2> QED
    BY <1>3, <2>1, <2>2, <2>4
<1>12. f.msg.header.msg_id = Len(sent) + 1
  BY ChunkFields
<1>13. \A i, j \in 1..Len(r) :
         i < j /\ IsStreamData(r[i].msg) /\ IsStreamData(r[j].msg) =>
           r[i].msg.header.msg_id < r[j].msg.header.msg_id
  <2> SUFFICES ASSUME NEW i \in 1..Len(r), NEW j \in 1..Len(r), i < j,
                      IsStreamData(r[i].msg), IsStreamData(r[j].msg)
               PROVE  r[i].msg.header.msg_id < r[j].msg.header.msg_id
    OBVIOUS
  <2>1. i \in 1..Len(q) /\ r[i] = q[i]
    BY <1>1
  <2>2. CASE j \in 1..Len(q)
    BY <1>1, <2>1, <2>2 DEF InFlight
  <2>3. CASE j = Len(q) + 1
    <3>1. r[j] = f
      BY <1>1, <2>3
    <3>2. q[i].msg.header.msg_id \in Nat /\ q[i].msg.header.msg_id <= Len(sent)
      BY <1>11, <2>1
    <3>3. r[i].msg.header.msg_id \in Nat /\ r[i].msg.header.msg_id <= Len(sent)
      BY <2>1, <3>2
    <3>4. r[j].msg.header.msg_id = Len(sent) + 1
      BY <1>3, <1>12, <3>1
    <3>5. Len(sent) \in Nat
      OBVIOUS
    <3> HIDE DEF r
    <3> QED
      BY <3>3, <3>4, <3>5
  <2>4. j \in 1..Len(q) \/ j = Len(q) + 1
    <3>1. Len(q) \in Nat /\ Len(r) = Len(q) + 1
      BY <1>1
    <3> HIDE DEF r
    <3> QED
      BY <3>1
  <2> QED
    BY <2>2, <2>3, <2>4
<1>14. InFlight(r, read, s)
  BY <1>9, <1>10, <1>13 DEF InFlight
<1> QED
  BY <1>14 DEF r, s, new

\* The chunk in front of the buffer is the next one, and it is read.
LEMMA ChunkRead ==
  ASSUME NEW q \in Seq(Frame), q # <<>>, IsStreamData(Head(q).msg),
         NEW read \in Nat, NEW sent \in Seq(ChunkRecord), InFlight(q, read, sent)
  PROVE  /\ read + 1 <= Len(sent)
         /\ Head(q).msg = Chunk(read + 1, sent[read + 1].last)
         /\ InFlight(Tail(q), read + 1, sent)
<1> DEFINE r == Tail(q)
<1>1. /\ Len(q) \in Nat /\ Len(q) >= 1 /\ Len(r) = Len(q) - 1 /\ Head(q) = q[1]
      /\ \A i \in 1..Len(r) : i + 1 \in 1..Len(q) /\ r[i] = q[i + 1]
  OBVIOUS
<1>2. Messages(q) = {Head(q).msg} \cup Messages(r)
  BY MessagesOfTail
<1> HIDE DEF r
<1>3. Len(sent) \in Nat
  OBVIOUS
<1>4. \A k \in (read + 1)..Len(sent) :
        LET m == Chunk(k, sent[k].last)
        IN  IsStreamData(m) /\ m.header.msg_id = k
  <2> SUFFICES ASSUME NEW k \in (read + 1)..Len(sent)
               PROVE  LET m == Chunk(k, sent[k].last)
                      IN  IsStreamData(m) /\ m.header.msg_id = k
    OBVIOUS
  <2>1. k \in 1..Len(sent)
    BY <1>3
  <2>2. sent[k] \in ChunkRecord
    BY <2>1
  <2>3. sent[k].last \in BOOLEAN
    BY <2>2 DEF ChunkRecord
  <2> QED
    BY <2>3, ChunkFields DEF IsStreamData
<1>5. 1 \in 1..Len(q) /\ Head(q).msg \in Messages(q)
  BY <1>1, <1>2
<1>6. PICK k \in (read + 1)..Len(sent) : Head(q).msg = Chunk(k, sent[k].last)
  BY <1>5 DEF InFlight
<1>7. read + 1 \in (read + 1)..Len(sent) /\ read + 1 <= Len(sent)
  BY <1>3, <1>6
<1>8. Head(q).msg = Chunk(read + 1, sent[read + 1].last)
  <2>1. Chunk(read + 1, sent[read + 1].last) \in Messages(q)
    BY <1>7 DEF InFlight
  <2>2. PICK j \in 1..Len(q) : q[j].msg = Chunk(read + 1, sent[read + 1].last)
    BY <2>1 DEF Messages
  <2>3. CASE j = 1
    BY <1>1, <2>2, <2>3
  <2>4. CASE j # 1
    <3>1. 1 < j
      BY <1>1, <2>4
    <3>2. IsStreamData(q[j].msg) /\ q[j].msg.header.msg_id = read + 1
      BY <1>4, <1>7, <2>2
    <3>3. q[1].msg.header.msg_id = k
      BY <1>1, <1>4, <1>6
    <3>4. k < read + 1
      BY <1>1, <1>5, <3>1, <3>2, <3>3 DEF InFlight
    <3> QED
      BY <1>6, <3>4
  <2> QED
    BY <2>3, <2>4
<1>9. Head(q).msg.header.msg_id = read + 1
  BY <1>4, <1>7, <1>8
<1>10. \A m \in Messages(r) : IsStreamData(m) =>
         \E n \in ((read + 1) + 1)..Len(sent) : m = Chunk(n, sent[n].last)
  <2> SUFFICES ASSUME NEW i \in 1..Len(r), IsStreamData(r[i].msg)
               PROVE  \E n \in ((read + 1) + 1)..Len(sent) :
                        r[i].msg = Chunk(n, sent[n].last)
    BY DEF Messages
  <2>1. i + 1 \in 1..Len(q) /\ r[i] = q[i + 1] /\ 1 < i + 1
    BY <1>1
  <2>2. r[i].msg \in Messages(q)
    BY <2>1 DEF Messages
  <2>3. PICK n \in (read + 1)..Len(sent) : r[i].msg = Chunk(n, sent[n].last)
    BY <2>2 DEF InFlight
  <2>4. r[i].msg.header.msg_id = n
    BY <1>4, <2>3
  <2>5. q[1].msg.header.msg_id < q[i + 1].msg.header.msg_id
    BY <1>1, <1>5, <2>1 DEF InFlight
  <2>6. read + 1 < n
    BY <1>1, <1>9, <2>1, <2>4, <2>5
  <2>7. n \in ((read + 1) + 1)..Len(sent)
    BY <1>3, <2>6
  <2> QED
    BY <2>3, <2>7
<1>11. \A n \in ((read + 1) + 1)..Len(sent) : Chunk(n, sent[n].last) \in Messages(r)
  <2> SUFFICES ASSUME NEW n \in ((read + 1) + 1)..Len(sent)
               PROVE  Chunk(n, sent[n].last) \in Messages(r)
    OBVIOUS
  <2>1. n \in (read + 1)..Len(sent) /\ n # read + 1
    BY <1>3
  <2>2. Chunk(n, sent[n].last).header.msg_id = n
    BY <1>4, <2>1
  <2>3. Chunk(n, sent[n].last) \in Messages(q)
    BY <2>1 DEF InFlight
  <2> QED
    BY <1>2, <1>9, <2>1, <2>2, <2>3
<1>12. \A i, j \in 1..Len(r) :
         i < j /\ IsStreamData(r[i].msg) /\ IsStreamData(r[j].msg) =>
           r[i].msg.header.msg_id < r[j].msg.header.msg_id
  <2> SUFFICES ASSUME NEW i \in 1..Len(r), NEW j \in 1..Len(r), i < j,
                      IsStreamData(r[i].msg), IsStreamData(r[j].msg)
               PROVE  r[i].msg.header.msg_id < r[j].msg.header.msg_id
    OBVIOUS
  <2>1. i + 1 < j + 1
    BY <1>1
  <2> QED
    BY <1>1, <2>1 DEF InFlight
<1>13. InFlight(r, read + 1, sent)
  BY <1>10, <1>11, <1>12 DEF InFlight
<1> QED
  BY <1>7, <1>8, <1>13 DEF r

-----------------------------------------------------------------------------
(* Calls                                                                   *)

\* What a publication changes in the messages of a buffer: if the window fits,
\* it adds its own and costs none.
LEMMA PushedFacts ==
  ASSUME FlowInv, NEW e \in Ends, NEW m \in Message, Pushed(e, m)
  PROVE  /\ Messages(buffer'[e]) \subseteq Messages(buffer[e]) \cup {m}
         /\ WindowFits =>
              /\ Messages(buffer'[e]) = Messages(buffer[e]) \cup {m}
              /\ \E f \in Frame : f.msg = m /\ buffer'[e] = Append(buffer[e], f)
<1>1. PICK f \in Frame : /\ f.msg = m
                         /\ buffer'[e] = Overflowing(buffer[e], f)
                         /\ WindowFits => Len(buffer[e]) < BufferSize
  BY DEF Pushed
<1>2. buffer[e] \in Seq(Frame)
  BY FlowFacts
<1>3. Messages(buffer'[e]) \subseteq Messages(buffer[e]) \cup {m}
  BY <1>1, <1>2, MessagesOfOverflow
<1>4. WindowFits => buffer'[e] = Append(buffer[e], f)
  BY <1>1 DEF Overflowing
<1>5. WindowFits => Messages(buffer'[e]) = Messages(buffer[e]) \cup {m}
  BY <1>1, <1>2, <1>4, MessagesOfAppend
<1> QED
  BY <1>1, <1>3, <1>4, <1>5

\* What a read changes in them, and what it returns: the frame's header as its
\* 40 bytes carry it.
LEMMA TakenFacts ==
  ASSUME FlowInv, NEW e \in Ends, Taken(e)
  PROVE  /\ buffer[e] \in Seq(Frame) /\ buffer[e] # <<>>
         /\ buffer'[e] = Tail(buffer[e])
         /\ Head(buffer[e]).msg \in Message
         /\ Messages(buffer[e]) = {Head(buffer[e]).msg} \cup Messages(buffer'[e])
         /\ Arrival(e) = [header |-> Head(buffer[e]).msg.header,
                          len |-> Head(buffer[e]).msg.len]
         /\ Arrival(e).header = Head(buffer[e]).msg.header
         /\ Arrival(e).len = Head(buffer[e]).msg.len
<1>1. buffer[e] \in Seq(Frame) /\ buffer[e] # <<>> /\ buffer'[e] = Tail(buffer[e])
  BY FlowFacts DEF Taken
<1>2. /\ Messages(buffer[e]) = {Head(buffer[e]).msg} \cup Messages(Tail(buffer[e]))
      /\ Head(buffer[e]).msg \in Message
  BY <1>1, MessagesOfTail
<1> QED
  BY <1>1, <1>2, TransmittedAsSent DEF Arrival

\* What the invariant says beyond flow control.
LEMMA CallFacts ==
  ASSUME CallInv
  PROVE  /\ FlowInv /\ CallTypes /\ CallsKnown /\ AnswersMatch
         /\ PendingUnderWay /\ StreamUnderWay
         /\ asked \in Nat /\ asked <= Len(CallId) /\ Len(CallId) \in Nat
         /\ Len(chunks) \in Nat /\ Len(heard) \in Nat
<1>1. /\ asked \in 0..Len(CallId) /\ chunks \in Seq(ChunkRecord)
      /\ heard \in Seq(ChunkRecord)
  BY DEF CallInv, CallTypes
<1>2. Len(CallId) \in Nat
  BY CallAssumption
<1> QED
  BY <1>1, <1>2 DEF CallInv

\* The invariant of the calls holds at the start.
LEMMA StartCalls == CallInit => CallInv
<1> SUFFICES ASSUME CallInit PROVE CallInv
  OBVIOUS
<1>1. FlowInv
  BY StartFlow DEF CallInit
<1>2. /\ buffer["client"] = <<>> /\ buffer["server"] = <<>>
      /\ asked = 0 /\ pending = {} /\ answers = {} /\ todo = {}
      /\ chunks = <<>> /\ heard = <<>>
  BY TwoEnds DEF CallInit, CreditInit
<1>3. Messages(<<>>) = {} /\ Len(<<>>) = 0 /\ <<>> \in Seq(ChunkRecord)
  BY DEF Messages
<1>4. CallTypes
  BY <1>2, <1>3, CallAssumption DEF CallTypes
<1>5. CallsKnown /\ AnswersMatch /\ PendingUnderWay
  BY <1>2, <1>3 DEF CallsKnown, AnswersMatch, PendingUnderWay
<1>6. StreamUnderWay
  BY <1>2, <1>3 DEF StreamUnderWay, StreamsWhole, InFlight
<1> QED
  BY <1>1, <1>4, <1>5, <1>6 DEF CallInv

\* A step that sends and reads nothing: a credit is acquired, a send fails, or
\* a call is given up.
LEMMA NothingMoves ==
  ASSUME CallInv, FlowInv', buffer' = buffer,
         asked' \in {asked, asked + 1}, asked' <= Len(CallId), pending' \subseteq pending,
         UNCHANGED <<answers, todo, chunks, heard>>
  PROVE  CallInv'
<1>1. asked \in Nat /\ Len(CallId) \in Nat
  BY CallFacts
<1>2. asked' \in 0..Len(CallId) /\ \A n \in 1..asked : n \in 1..asked'
  BY <1>1
<1>3. CallTypes'
  BY <1>2 DEF CallInv, CallTypes
<1>4. CallsKnown' /\ AnswersMatch'
  BY <1>2 DEF CallInv, CallsKnown, AnswersMatch
<1>5. PendingUnderWay'
  BY DEF CallInv, PendingUnderWay, UnderWay
<1>6. StreamUnderWay'
  BY DEF CallInv, StreamUnderWay, StreamsWhole
<1> QED
  BY <1>3, <1>4, <1>5, <1>6 DEF CallInv

\* Flow control is kept where its variables are.
LEMMA FlowStutters ==
  ASSUME FlowInv, UNCHANGED creditVars
  PROVE  FlowInv' /\ buffer' = buffer
<1>1. /\ ShmInv' /\ NothingReplaced' /\ status' = status /\ buffer' = buffer
      /\ UNCHANGED <<available, holding, owed, heartbeats, bonus, leaked>>
  BY QuietFlow DEF creditVars, flowVars
<1> QED
  BY <1>1 DEF FlowInv, FlowTypes, WindowRespected, Holding, ExemptCounted

\* A step of the client that sends a message other than a request or a chunk.
LEMMA HeartbeatCalls ==
  ASSUME CallInv, SendsHeartbeat
  PROVE  CallInv'
<1>1. /\ FlowInv' /\ Pushed("server", Heartbeat)
      /\ buffer'["client"] = buffer["client"]
      /\ UNCHANGED callVars /\ Heartbeat \in Message
  BY CallFacts, HeartbeatFlow, SentAreMessages DEF SendsHeartbeat
<1>2. /\ Messages(buffer'["server"]) \subseteq Messages(buffer["server"]) \cup {Heartbeat}
      /\ WindowFits =>
           /\ Messages(buffer'["server"]) = Messages(buffer["server"]) \cup {Heartbeat}
           /\ \E f \in Frame : /\ f.msg = Heartbeat
                               /\ buffer'["server"] = Append(buffer["server"], f)
  BY <1>1, CallFacts, TwoEnds, PushedFacts
<1>3. ~IsSkillRequest(Heartbeat) /\ ~IsStreamData(Heartbeat)
  BY HeartbeatFields, TypesApart DEF IsSkillRequest, IsStreamData
<1>4. CallTypes' /\ AnswersMatch'
  BY <1>1 DEF callVars, CallInv, CallTypes, AnswersMatch
<1>5. CallsKnown'
  BY <1>1, <1>2, <1>3 DEF callVars, CallInv, CallsKnown
<1>6. PendingUnderWay'
  BY <1>1, <1>2 DEF callVars, CallInv, PendingUnderWay, UnderWay
<1>7. StreamUnderWay'
  <2>1. StreamsWhole'
    BY <1>1 DEF callVars, CallInv, StreamUnderWay, StreamsWhole
  <2>2. ASSUME WindowFits PROVE InFlight(buffer'["server"], Len(heard), chunks)
    <3>1. PICK f \in Frame : /\ f.msg = Heartbeat
                             /\ buffer'["server"] = Append(buffer["server"], f)
      BY <1>2, <2>2
    <3>2. InFlight(buffer["server"], Len(heard), chunks)
      BY <2>2 DEF CallInv, StreamUnderWay
    <3>3. /\ buffer["server"] \in Seq(Frame) /\ chunks \in Seq(ChunkRecord)
          /\ Len(heard) \in Nat
      BY CallFacts, FlowFacts, TwoEnds DEF CallTypes
    <3> QED
      BY <1>3, <3>1, <3>2, <3>3, OtherSent
  <2> QED
    BY <1>1, <2>1, <2>2 DEF callVars, StreamUnderWay
<1> QED
  BY <1>1, <1>4, <1>5, <1>6, <1>7 DEF CallInv

\* Making a call keeps it.
LEMMA AskCalls ==
  ASSUME CallInv, Ask
  PROVE  CallInv'
<1> DEFINE a == asked + 1
<1>1. /\ asked < Len(CallId) /\ SendMetered(Request(a)) /\ asked' = a
      /\ pending' = pending \cup {CallId[a]}
      /\ UNCHANGED <<answers, todo, chunks, heard>>
  BY DEF Ask
<1>2. a \in 1..Len(CallId) /\ a \in 1..a /\ \A n \in 1..asked : n \in 1..a
  BY <1>1, CallFacts
<1>3. Request(a) \in Message
  BY <1>2, SentAreMessages
<1>4. /\ ~IsStreamData(Request(a)) /\ a \in 0..Len(CallId)
  BY <1>2, RequestFields, TypesApart DEF IsStreamData
<1> HIDE DEF a
<1>5. /\ FlowInv' /\ Pushed("server", Request(a))
      /\ buffer'["client"] = buffer["client"]
  BY <1>1, <1>3, CallFacts, MeteredFlow
<1>6. /\ Messages(buffer'["server"]) \subseteq Messages(buffer["server"]) \cup {Request(a)}
      /\ WindowFits =>
           /\ Messages(buffer'["server"]) = Messages(buffer["server"]) \cup {Request(a)}
           /\ \E f \in Frame : /\ f.msg = Request(a)
                               /\ buffer'["server"] = Append(buffer["server"], f)
  BY <1>3, <1>5, CallFacts, TwoEnds, PushedFacts
<1>7. CallTypes'
  BY <1>1, <1>4 DEF CallInv, CallTypes
<1>8. CallsKnown'
  <2>1. \A m \in Messages(buffer'["server"]) :
          IsSkillRequest(m) => \E n \in 1..a : m = Request(n)
    BY <1>2, <1>6 DEF CallInv, CallsKnown
  <2>2. \A m \in todo' : \E n \in 1..a : m = Request(n)
    BY <1>1, <1>2 DEF CallInv, CallsKnown
  <2>3. \A m \in Messages(buffer'["client"]) : IsSkillResponse(m) =>
          \E n \in 1..a : m.header.correlation_id = CallId[n] /\ m.len = PayloadOf(n)
    BY <1>2, <1>5 DEF CallInv, CallsKnown
  <2> QED
    BY <1>1, <2>1, <2>2, <2>3 DEF CallsKnown
<1>9. AnswersMatch'
  BY <1>1, <1>2 DEF CallInv, AnswersMatch
<1>10. PendingUnderWay'
  <2> SUFFICES ASSUME WindowFits, NEW n \in 1..Len(CallId), CallId[n] \in pending'
               PROVE  UnderWay(n)'
    BY DEF PendingUnderWay
  <2>1. CASE CallId[n] \in pending
    <3>1. UnderWay(n)
      BY <2>1 DEF CallInv, PendingUnderWay
    <3> QED
      BY <1>1, <1>5, <1>6, <3>1 DEF UnderWay
  <2>2. CASE CallId[n] = CallId[a]
    <3>1. n = a
      BY <1>2, <2>2, CallAssumption
    <3>2. Request(n) \in Messages(buffer'["server"])
      BY <1>6, <3>1
    <3> QED
      BY <3>2 DEF UnderWay
  <2> QED
    BY <1>1, <2>1, <2>2
<1>11. StreamUnderWay'
  <2>1. StreamsWhole'
    BY <1>1 DEF CallInv, StreamUnderWay, StreamsWhole
  <2>2. ASSUME WindowFits PROVE InFlight(buffer'["server"], Len(heard), chunks)
    <3>1. PICK f \in Frame : /\ f.msg = Request(a)
                             /\ buffer'["server"] = Append(buffer["server"], f)
      BY <1>6, <2>2
    <3>2. InFlight(buffer["server"], Len(heard), chunks)
      BY <2>2 DEF CallInv, StreamUnderWay
    <3>3. /\ buffer["server"] \in Seq(Frame) /\ chunks \in Seq(ChunkRecord)
          /\ Len(heard) \in Nat
      BY CallFacts, FlowFacts, TwoEnds DEF CallTypes
    <3> QED
      BY <1>4, <3>1, <3>2, <3>3, OtherSent
  <2> QED
    BY <1>1, <2>1, <2>2 DEF StreamUnderWay
<1> QED
  BY <1>5, <1>7, <1>8, <1>9, <1>10, <1>11 DEF CallInv

\* Sending a chunk keeps it.
LEMMA StreamCalls ==
  ASSUME CallInv, NEW last \in BOOLEAN, Stream(last)
  PROVE  CallInv'
<1> DEFINE k == Len(chunks) + 1
           new == [id |-> k, last |-> last]
<1>1. /\ Len(chunks) < MaxChunks /\ SendMetered(Chunk(k, last))
      /\ chunks' = Append(chunks, new)
      /\ UNCHANGED <<asked, pending, answers, todo, heard>>
  BY DEF Stream
<1>2. k \in 1..MaxChunks /\ k \in Nat /\ k <= MaxChunks
  BY <1>1, CallFacts, CallAssumption
<1>3. Chunk(k, last) \in Message
  BY <1>2, SentAreMessages
<1>4. ~IsSkillRequest(Chunk(k, last))
  BY ChunkFields, TypesApart DEF IsSkillRequest
<1>5. /\ FlowInv' /\ Pushed("server", Chunk(k, last))
      /\ buffer'["client"] = buffer["client"]
  BY <1>1, <1>3, CallFacts, MeteredFlow
<1>6. /\ Messages(buffer'["server"]) \subseteq Messages(buffer["server"]) \cup {Chunk(k, last)}
      /\ WindowFits =>
           /\ Messages(buffer'["server"]) = Messages(buffer["server"]) \cup {Chunk(k, last)}
           /\ \E f \in Frame : /\ f.msg = Chunk(k, last)
                               /\ buffer'["server"] = Append(buffer["server"], f)
  BY <1>3, <1>5, CallFacts, TwoEnds, PushedFacts
<1>7. new \in ChunkRecord /\ new.id = k
  BY <1>2 DEF ChunkRecord
<1>8. chunks \in Seq(ChunkRecord) /\ Len(chunks) \in Nat
  BY CallFacts DEF CallTypes
<1>9. /\ chunks' \in Seq(ChunkRecord) /\ Len(chunks') = k
      /\ \A i \in 1..Len(chunks) : chunks'[i] = chunks[i]
      /\ chunks'[k] = new
  <2> HIDE DEF new
  <2> QED
    BY <1>1, <1>7, <1>8, AppendProperties
<1>10. CallTypes'
  <2>1. \A i \in 1..Len(chunks') : i \in 1..Len(chunks) \/ i = k
    BY <1>8, <1>9
  <2>2. \A i \in 1..Len(chunks') : chunks'[i].id = i
    BY <1>7, <1>9, <2>1 DEF CallInv, CallTypes
  <2> QED
    BY <1>1, <1>2, <1>9, <2>2 DEF CallInv, CallTypes
<1>11. CallsKnown' /\ AnswersMatch'
  BY <1>1, <1>4, <1>5, <1>6 DEF CallInv, CallsKnown, AnswersMatch
<1>12. PendingUnderWay'
  BY <1>1, <1>5, <1>6 DEF CallInv, PendingUnderWay, UnderWay
<1>13. ASSUME WindowFits
       PROVE  /\ Len(heard) <= Len(chunks)
              /\ \A i \in 1..Len(heard) : heard[i] = chunks[i]
              /\ InFlight(buffer["server"], Len(heard), chunks)
  BY <1>13 DEF CallInv, StreamUnderWay, StreamsWhole
<1>14. StreamsWhole'
  <2> SUFFICES ASSUME WindowFits
               PROVE  /\ Len(heard) <= Len(chunks')
                      /\ \A i \in 1..Len(heard) : heard[i] = chunks'[i]
    BY <1>1 DEF StreamsWhole
  <2>1. Len(heard) \in Nat
    BY CallFacts
  <2>2. \A i \in 1..Len(heard) : i \in 1..Len(chunks)
    BY <1>8, <1>13, <2>1
  <2> QED
    BY <1>8, <1>9, <1>13, <2>1, <2>2
<1>15. ASSUME WindowFits PROVE InFlight(buffer'["server"], Len(heard), chunks')
  <2>1. PICK f \in Frame : /\ f.msg = Chunk(k, last)
                           /\ buffer'["server"] = Append(buffer["server"], f)
    BY <1>6, <1>15
  <2>2. buffer["server"] \in Seq(Frame) /\ Len(heard) \in Nat
    BY CallFacts, FlowFacts, TwoEnds
  <2>3. InFlight(Append(buffer["server"], f), Len(heard), Append(chunks, new))
    BY <1>8, <1>13, <1>15, <2>1, <2>2, ChunkSent
  <2> QED
    BY <1>1, <2>1, <2>3
<1>16. StreamUnderWay'
  BY <1>1, <1>14, <1>15 DEF StreamUnderWay
<1> QED
  BY <1>5, <1>10, <1>11, <1>12, <1>16 DEF CallInv

\* Reading an answer or a notice keeps it.
LEMMA ClientReadsCalls ==
  ASSUME CallInv, ClientReads
  PROVE  CallInv'
<1> DEFINE m == Arrival("client")
           h == Head(buffer["client"]).msg
           id == m.header.correlation_id
           answer == [id |-> id, len |-> m.len]
<1>1. /\ ClientTakes
      /\ IF IsSkillResponse(m) /\ id \in pending
           THEN pending' = pending \ {id} /\ answers' = answers \cup {answer}
           ELSE pending' = pending /\ answers' = answers
      /\ UNCHANGED <<asked, todo, chunks, heard>>
  BY DEF ClientReads
<1>2. /\ FlowInv' /\ Taken("client") /\ buffer'["server"] = buffer["server"]
  BY <1>1, CallFacts, ClientTakesFlow
<1>3. /\ m.header = h.header /\ m.len = h.len
      /\ Messages(buffer["client"]) = {h} \cup Messages(buffer'["client"])
  BY <1>2, CallFacts, TwoEnds, TakenFacts
<1> HIDE DEF m, h
<1>4. IsSkillResponse(m) <=> IsSkillResponse(h)
  BY <1>3 DEF IsSkillResponse
<1>5. CallTypes'
  BY <1>1 DEF CallInv, CallTypes
<1>6. CallsKnown'
  BY <1>1, <1>2, <1>3 DEF CallInv, CallsKnown
<1>7. AnswersMatch'
  <2> SUFFICES ASSUME NEW a \in answers'
               PROVE  \E n \in 1..asked : a.id = CallId[n] /\ a.len = PayloadOf(n)
    BY <1>1 DEF AnswersMatch
  <2>1. CASE a \in answers
    BY <2>1 DEF CallInv, AnswersMatch
  <2>2. CASE a = answer /\ IsSkillResponse(m)
    <3>1. \E n \in 1..asked : h.header.correlation_id = CallId[n] /\ h.len = PayloadOf(n)
      BY <1>3, <1>4, <2>2 DEF CallInv, CallsKnown
    <3>2. a.id = h.header.correlation_id /\ a.len = h.len
      BY <1>3, <2>2
    <3> QED
      BY <3>1, <3>2
  <2> QED
    BY <1>1, <2>1, <2>2
<1>8. PendingUnderWay'
  <2> SUFFICES ASSUME WindowFits, NEW n \in 1..Len(CallId), CallId[n] \in pending'
               PROVE  UnderWay(n)'
    BY DEF PendingUnderWay
  <2>1. CallId[n] \in pending
    BY <1>1
  <2>2. UnderWay(n)
    BY <2>1 DEF CallInv, PendingUnderWay
  <2>3. ASSUME IsSkillResponse(h), h.header.correlation_id = CallId[n] PROVE FALSE
    <3>1. IsSkillResponse(m) /\ id = CallId[n]
      BY <1>3, <1>4, <2>3
    <3>2. pending' = pending \ {CallId[n]}
      BY <1>1, <2>1, <3>1
    <3> QED
      BY <3>2
  <2> QED
    BY <1>1, <1>2, <1>3, <2>2, <2>3 DEF UnderWay
<1>9. StreamUnderWay'
  BY <1>1, <1>2 DEF CallInv, StreamUnderWay, StreamsWhole
<1> QED
  BY <1>2, <1>5, <1>6, <1>7, <1>8, <1>9 DEF CallInv

\* Reading a request, a chunk or a heartbeat keeps it.
LEMMA ServerReadsCalls ==
  ASSUME CallInv, ServerReads
  PROVE  CallInv'
<1> DEFINE m == Arrival("server")
           h == Head(buffer["server"]).msg
           new == [id |-> m.header.msg_id, last |-> IsEndOfStream(m)]
<1>1. /\ ServerTakes
      /\ todo' = IF IsSkillRequest(m) THEN todo \cup {m} ELSE todo
      /\ heard' = IF IsStreamData(m) THEN Append(heard, new) ELSE heard
      /\ UNCHANGED <<asked, pending, answers, chunks>>
  BY DEF ServerReads
<1>2. FlowInv' /\ Taken("server") /\ buffer'["client"] = buffer["client"]
  BY <1>1, CallFacts, ServerTakesFlow
<1>3. /\ buffer["server"] \in Seq(Frame) /\ buffer["server"] # <<>>
      /\ buffer'["server"] = Tail(buffer["server"])
      /\ m = [header |-> h.header, len |-> h.len]
      /\ m.header = h.header /\ h \in Message
      /\ Messages(buffer["server"]) = {h} \cup Messages(buffer'["server"])
  BY <1>2, CallFacts, TwoEnds, TakenFacts
<1>4. chunks \in Seq(ChunkRecord) /\ heard \in Seq(ChunkRecord) /\ Len(heard) \in Nat
  BY CallFacts DEF CallTypes
<1>r. new.id = m.header.msg_id /\ new.last = IsEndOfStream(m)
  OBVIOUS
<1>n. new \in ChunkRecord
  <2>1. h.header.msg_id \in U64
    BY <1>3, CreditAssumption DEF MessageHeader
  <2>2. m.header.msg_id \in Nat
    BY <1>3, <2>1, Zenon DEF U64
  <2>3. IsEndOfStream(m) \in BOOLEAN
    BY DEF IsEndOfStream, Has
  <2> QED
    BY <2>2, <2>3 DEF ChunkRecord
<1>p. ASSUME WindowFits
      PROVE  /\ Len(heard) <= Len(chunks)
             /\ \A i \in 1..Len(heard) : heard[i] = chunks[i]
             /\ InFlight(buffer["server"], Len(heard), chunks)
  BY <1>p DEF CallInv, StreamUnderWay, StreamsWhole
<1> DEFINE q == buffer["server"]
<1>h. h = Head(q).msg
  OBVIOUS
<1>q. q \in Seq(Frame) /\ q # <<>> /\ buffer'["server"] = Tail(q)
  BY <1>3
<1>i. WindowFits => InFlight(q, Len(heard), chunks)
  BY <1>p
<1> HIDE DEF m, h, new, q
<1>5. /\ IsSkillRequest(m) <=> IsSkillRequest(h)
      /\ IsStreamData(m) <=> IsStreamData(h)
      /\ IsEndOfStream(m) = IsEndOfStream(h)
  BY <1>3 DEF IsSkillRequest, IsStreamData, IsEndOfStream
<1>6. CallTypes'
  <2>1. heard' \in Seq(ChunkRecord)
    BY <1>1, <1>4, <1>n
  <2> QED
    BY <1>1, <2>1 DEF CallInv, CallTypes
<1>7. ASSUME IsSkillRequest(m)
      PROVE  m = h /\ \E n \in 1..asked : h = Request(n)
  <2>1. PICK n \in 1..asked : h = Request(n)
    BY <1>3, <1>5, <1>7 DEF CallInv, CallsKnown
  <2>2. h = [header |-> h.header, len |-> h.len]
    BY <2>1, RequestFields
  <2> QED
    BY <1>3, <2>1, <2>2
<1>8. CallsKnown'
  <2>1. \A x \in todo' : \E n \in 1..asked : x = Request(n)
    BY <1>1, <1>7 DEF CallInv, CallsKnown
  <2> QED
    BY <1>1, <1>2, <1>3, <2>1 DEF CallInv, CallsKnown
<1>9. AnswersMatch'
  BY <1>1 DEF CallInv, AnswersMatch
<1>10. PendingUnderWay'
  <2> SUFFICES ASSUME WindowFits, NEW n \in 1..Len(CallId), CallId[n] \in pending'
               PROVE  UnderWay(n)'
    BY DEF PendingUnderWay
  <2>1. UnderWay(n)
    BY <1>1 DEF CallInv, PendingUnderWay
  <2>2. ASSUME h = Request(n) PROVE Request(n) \in todo'
    <3>1. IsSkillRequest(h)
      BY <2>2, RequestFields DEF IsSkillRequest
    <3>2. IsSkillRequest(m) /\ m = Request(n)
      BY <1>5, <1>7, <2>2, <3>1
    <3> QED
      BY <1>1, <3>2
  <2> QED
    BY <1>1, <1>2, <1>3, <2>1, <2>2 DEF UnderWay
<1>11. ASSUME WindowFits, ~IsStreamData(h)
       PROVE  InFlight(Tail(q), Len(heard), chunks)
  BY <1>4, <1>h, <1>i, <1>q, <1>11, OtherRead
<1>12. ASSUME WindowFits, IsStreamData(h)
       PROVE  /\ Len(heard) + 1 <= Len(chunks)
              /\ new = chunks[Len(heard) + 1]
              /\ InFlight(Tail(q), Len(heard) + 1, chunks)
  <2> DEFINE k == Len(heard) + 1
  <2>1. /\ k <= Len(chunks) /\ h = Chunk(k, chunks[k].last)
        /\ InFlight(Tail(q), k, chunks)
    BY <1>4, <1>h, <1>i, <1>q, <1>12, ChunkRead
  <2>2. k \in 1..Len(chunks)
    BY <1>4, <2>1
  <2> HIDE DEF k
  <2>3. chunks[k] \in ChunkRecord /\ chunks[k].id = k
    BY <1>4, <2>2 DEF CallInv, CallTypes
  <2>4. new.id = k /\ new.last = chunks[k].last
    <3>1. chunks[k].last \in BOOLEAN
      BY <2>3 DEF ChunkRecord
    <3>2. h.header.msg_id = k /\ IsEndOfStream(h) = chunks[k].last
      BY <2>1, <3>1, ChunkFields
    <3> QED
      BY <1>3, <1>5, <1>r, <3>2
  <2>5. new = chunks[k]
    BY <1>n, <2>3, <2>4 DEF ChunkRecord
  <2> QED
    BY <2>1, <2>5 DEF k
<1>13. StreamUnderWay'
  <2>1. CASE IsStreamData(m)
    <3>1. /\ heard' \in Seq(ChunkRecord) /\ Len(heard') = Len(heard) + 1
          /\ \A i \in 1..Len(heard) : heard'[i] = heard[i]
          /\ heard'[Len(heard) + 1] = new
      BY <1>1, <1>4, <1>n, <2>1, AppendProperties
    <3>2. \A i \in 1..Len(heard') : i \in 1..Len(heard) \/ i = Len(heard) + 1
      BY <1>4, <3>1
    <3>3. StreamsWhole'
      <4> SUFFICES ASSUME WindowFits
                   PROVE  /\ Len(heard') <= Len(chunks)
                          /\ \A i \in 1..Len(heard') : heard'[i] = chunks[i]
        BY <1>1 DEF StreamsWhole
      <4> QED
        BY <1>5, <1>12, <1>p, <2>1, <3>1, <3>2
    <3>4. WindowFits => InFlight(buffer'["server"], Len(heard'), chunks)
      BY <1>5, <1>12, <1>q, <2>1, <3>1
    <3> QED
      BY <1>1, <3>3, <3>4 DEF StreamUnderWay
  <2>2. CASE ~IsStreamData(m)
    <3>1. heard' = heard
      BY <1>1, <2>2
    <3>2. StreamsWhole'
      BY <1>1, <3>1 DEF CallInv, StreamUnderWay, StreamsWhole
    <3>3. WindowFits => InFlight(buffer'["server"], Len(heard'), chunks)
      BY <1>5, <1>11, <1>q, <2>2, <3>1
    <3> QED
      BY <1>1, <3>2, <3>3 DEF StreamUnderWay
  <2> QED
    BY <2>1, <2>2
<1> QED
  BY <1>2, <1>6, <1>8, <1>9, <1>10, <1>13 DEF CallInv

\* Answering a request keeps it.
LEMMA AnswerCalls ==
  ASSUME CallInv, NEW request \in todo, NEW credits \in 1..MaxCredit,
         Answer(request, credits)
  PROVE  CallInv'
<1> DEFINE r == Response(request, credits)
<1>1. /\ Grant(r, 1) /\ todo' = todo \ {request}
      /\ UNCHANGED <<asked, pending, answers, chunks, heard>>
  BY DEF Answer
<1>2. PICK n \in 1..asked : request = Request(n)
  BY DEF CallInv, CallsKnown
<1>3. n \in 1..Len(CallId)
  BY CallFacts
<1>4. r \in Message
  BY <1>2, <1>3, SentAreMessages
<1>5. /\ IsSkillResponse(r)
      /\ r.header.correlation_id = CallId[n] /\ r.len = PayloadOf(n)
  BY <1>2, RequestFields, ResponseFields DEF IsSkillResponse
<1> HIDE DEF r
<1>6. FlowInv' /\ Pushed("client", r) /\ buffer'["server"] = buffer["server"]
  BY <1>1, <1>4, CallFacts, GrantFlow
<1>7. /\ Messages(buffer'["client"]) \subseteq Messages(buffer["client"]) \cup {r}
      /\ WindowFits => Messages(buffer'["client"]) = Messages(buffer["client"]) \cup {r}
  BY <1>4, <1>6, CallFacts, TwoEnds, PushedFacts
<1>8. CallTypes' /\ AnswersMatch'
  BY <1>1 DEF CallInv, CallTypes, AnswersMatch
<1>9. CallsKnown'
  <2>1. \A m \in Messages(buffer'["client"]) : IsSkillResponse(m) =>
          \E k \in 1..asked : m.header.correlation_id = CallId[k] /\ m.len = PayloadOf(k)
    BY <1>5, <1>7 DEF CallInv, CallsKnown
  <2> QED
    BY <1>1, <1>6, <2>1 DEF CallInv, CallsKnown
<1>10. PendingUnderWay'
  <2> SUFFICES ASSUME WindowFits, NEW k \in 1..Len(CallId), CallId[k] \in pending'
               PROVE  UnderWay(k)'
    BY DEF PendingUnderWay
  <2>1. UnderWay(k)
    BY <1>1 DEF CallInv, PendingUnderWay
  <2>2. CASE Request(k) = request
    <3>1. CallId[k] = CallId[n]
      BY <1>2, <2>2, RequestFields
    <3>2. r \in Messages(buffer'["client"]) /\ r.header.correlation_id = CallId[k]
      BY <1>5, <1>7, <3>1
    <3> QED
      BY <1>5, <3>2 DEF UnderWay
  <2>3. CASE Request(k) # request
    BY <1>1, <1>6, <1>7, <2>1, <2>3 DEF UnderWay
  <2> QED
    BY <2>2, <2>3
<1>11. StreamUnderWay'
  BY <1>1, <1>6 DEF CallInv, StreamUnderWay, StreamsWhole
<1> QED
  BY <1>6, <1>8, <1>9, <1>10, <1>11 DEF CallInv

\* Granting credits in a topic message keeps it.
LEMMA NotifyCalls ==
  ASSUME CallInv, NEW credits \in 1..MaxCredit, NEW due, Notify(credits, due)
  PROVE  CallInv'
<1> DEFINE m == Notice(credits)
<1>1. Grant(m, due) /\ UNCHANGED callVars /\ m \in Message
  BY SentAreMessages DEF Notify
<1>2. ~IsSkillResponse(m)
  BY NoticeFields, TypesApart DEF IsSkillResponse
<1> HIDE DEF m
<1>3. FlowInv' /\ Pushed("client", m) /\ buffer'["server"] = buffer["server"]
  BY <1>1, CallFacts, GrantFlow
<1>4. /\ Messages(buffer'["client"]) \subseteq Messages(buffer["client"]) \cup {m}
      /\ WindowFits => Messages(buffer'["client"]) = Messages(buffer["client"]) \cup {m}
  BY <1>1, <1>3, CallFacts, TwoEnds, PushedFacts
<1>5. CallTypes' /\ AnswersMatch'
  BY <1>1 DEF callVars, CallInv, CallTypes, AnswersMatch
<1>6. CallsKnown'
  BY <1>1, <1>2, <1>3, <1>4 DEF callVars, CallInv, CallsKnown
<1>7. PendingUnderWay'
  BY <1>1, <1>3, <1>4 DEF callVars, CallInv, PendingUnderWay, UnderWay
<1>8. StreamUnderWay'
  BY <1>1, <1>3 DEF callVars, CallInv, StreamUnderWay, StreamsWhole
<1> QED
  BY <1>3, <1>5, <1>6, <1>7, <1>8 DEF CallInv

\* Every step keeps it.
LEMMA StepCalls == CallInv /\ [CallNext]_allVars => CallInv'
<1> SUFFICES ASSUME CallInv, [CallNext]_allVars PROVE CallInv'
  OBVIOUS
<1>a. asked \in Nat /\ asked <= Len(CallId) /\ Len(CallId) \in Nat /\ FlowInv
  BY CallFacts
<1>1. CASE Acquires
  <2>1. FlowInv' /\ buffer' = buffer
    BY <1>a, <1>1, AcquireFlow DEF Acquires
  <2> QED
    BY <1>a, <1>1, <2>1, NothingMoves DEF Acquires, callVars
<1>2. CASE Ask
  BY <1>2, AskCalls
<1>3. CASE AskFails
  <2>1. /\ asked < Len(CallId) /\ SendMeteredFails(Request(asked + 1))
        /\ asked' = asked + 1
        /\ UNCHANGED <<pending, answers, todo, chunks, heard>>
    BY <1>3 DEF AskFails
  <2>2. FlowInv' /\ buffer' = buffer
    BY <1>a, <2>1, FailedSendFlow
  <2> QED
    BY <1>a, <2>1, <2>2, NothingMoves
<1>4. CASE SendTooLong
  <2>1. FlowInv' /\ buffer' = buffer
    BY <1>a, <1>4, FailedSendFlow DEF SendTooLong
  <2> QED
    BY <1>a, <1>4, <2>1, NothingMoves DEF SendTooLong, callVars
<1>5. CASE SendsHeartbeat
  BY <1>5, HeartbeatCalls
<1>6. ASSUME NEW last \in BOOLEAN, Stream(last) PROVE CallInv'
  BY <1>6, StreamCalls
<1>7. ASSUME NEW n \in 1..Len(CallId), GiveUp(CallId[n]) PROVE CallInv'
  <2>1. /\ pending' = pending \ {CallId[n]}
        /\ UNCHANGED <<creditVars, asked, answers, todo, chunks, heard>>
    BY <1>7 DEF GiveUp
  <2>2. FlowInv' /\ buffer' = buffer
    BY <1>a, <2>1, FlowStutters
  <2> QED
    BY <1>a, <2>1, <2>2, NothingMoves
<1>8. CASE ClientReads
  BY <1>8, ClientReadsCalls
<1>9. CASE ServerReads
  BY <1>9, ServerReadsCalls
<1>10. ASSUME NEW request \in todo, NEW c \in 1..MaxCredit, Answer(request, c)
       PROVE  CallInv'
  BY <1>10, AnswerCalls
<1>11. ASSUME NEW c \in 1..MaxCredit, NEW due \in 0..MaxCredit, Notify(c, due)
       PROVE  CallInv'
  BY <1>11, NotifyCalls
<1>12. CASE UNCHANGED allVars
  <2>1. FlowInv' /\ buffer' = buffer
    BY <1>a, <1>12, FlowStutters DEF allVars
  <2> QED
    BY <1>a, <1>12, <2>1, NothingMoves DEF allVars, callVars
<1> QED
  BY <1>1, <1>2, <1>3, <1>4, <1>5, <1>6, <1>7, <1>8, <1>9, <1>10, <1>11, <1>12
  DEF CallNext

\* What the calls do to the connection is what an end may do.
LEMMA CallShmStep ==
  ASSUME CallInv, [CallNext]_allVars
  PROVE  [ShmNext]_shmVars
<1>e. "server" \in Ends /\ "client" \in Ends
  BY DEF Ends
<1>a. asked \in Nat /\ asked <= Len(CallId) /\ Len(CallId) \in Nat
      /\ Len(chunks) \in Nat /\ CallsKnown
  BY CallFacts
<1>1. CASE UNCHANGED shmVars
  BY <1>1
<1>2. ASSUME NEW e \in Ends, NEW m \in Message, Send(e, m) \/ SendRefused(e, m)
      PROVE  ShmNext
  BY <1>2 DEF ShmNext, EndNext
<1>3. ASSUME NEW e \in Ends, SendFails(e) \/ Receive(e)
      PROVE  ShmNext
  BY <1>3 DEF ShmNext, EndNext
<1>4. ASSUME NEW m \in Message, SendMeteredFails(m) PROVE ShmNext
  BY <1>e, <1>2, <1>3, <1>4 DEF SendMeteredFails
<1>5. CASE Ask \/ AskFails
  <2>1. asked < Len(CallId)
    BY <1>5 DEF Ask, AskFails
  <2>2. asked + 1 \in 1..Len(CallId)
    BY <1>a, <2>1
  <2>3. Request(asked + 1) \in Message
    BY <2>2, SentAreMessages
  <2> QED
    BY <1>e, <1>2, <1>4, <1>5, <2>3 DEF Ask, AskFails, SendMetered
<1>6. CASE SendTooLong
  <2>1. TooLong \in CallMessage
    BY DEF CallMessage
  <2>2. TooLong \in Message
    BY <2>1, MessageAssumption
  <2> QED
    BY <1>4, <1>6, <2>2 DEF SendTooLong
<1>7. CASE SendsHeartbeat
  <2>1. Heartbeat \in Message
    BY SentAreMessages
  <2> QED
    BY <1>e, <1>2, <1>7, <2>1 DEF SendsHeartbeat, SendHeartbeat
<1>8. ASSUME NEW last \in BOOLEAN, Stream(last) PROVE ShmNext
  <2>1. Len(chunks) < MaxChunks
    BY <1>8 DEF Stream
  <2>2. Len(chunks) + 1 \in 1..MaxChunks
    BY <1>a, <2>1, CallAssumption
  <2>3. Chunk(Len(chunks) + 1, last) \in Message
    BY <2>2, SentAreMessages
  <2> QED
    BY <1>e, <1>2, <1>8, <2>3 DEF Stream, SendMetered
<1>9. CASE ClientReads \/ ServerReads
  BY <1>e, <1>3, <1>9 DEF ClientReads, ServerReads, ClientTakes, ServerTakes
<1>10. ASSUME NEW request \in todo, NEW c \in 1..MaxCredit, Answer(request, c)
       PROVE  ShmNext
  <2>1. PICK n \in 1..asked : request = Request(n)
    BY <1>a DEF CallsKnown
  <2>2. n \in 1..Len(CallId)
    BY <1>a
  <2>3. Response(request, c) \in Message
    BY <2>1, <2>2, SentAreMessages
  <2> QED
    BY <1>e, <1>2, <1>10, <2>3 DEF Answer, Grant
<1>11. ASSUME NEW c \in 1..MaxCredit, NEW due \in 0..MaxCredit, Notify(c, due)
       PROVE  ShmNext
  <2>1. Notice(c) \in Message
    BY SentAreMessages
  <2> QED
    BY <1>e, <1>2, <1>11, <2>1 DEF Notify, Grant
<1>12. CASE \/ Acquires \/ UNCHANGED allVars
            \/ \E n \in 1..Len(CallId) : GiveUp(CallId[n])
  <2>1. UNCHANGED shmVars
    BY <1>12 DEF Acquires, Acquire, GiveUp, allVars, creditVars
  <2> QED
    BY <1>1, <2>1
<1> QED
  BY <1>5, <1>6, <1>7, <1>8, <1>9, <1>10, <1>11, <1>12 DEF CallNext

-----------------------------------------------------------------------------
(* Theorems                                                                *)

\* The inductive invariant, for any window, buffer size, calls and messages.
THEOREM CallInvariant == CallSpec => []CallInv
  BY StartCalls, StepCalls, PTL DEF CallSpec

\* Whatever is sent, read, granted and lost, the credits about never exceed the
\* window the server gave (CreditController::acquire and replenish).
THEOREM CreditsBounded == CallSpec => []WindowRespected
<1>1. CallInv => WindowRespected
  BY DEF CallInv, FlowInv
<1> QED
  BY <1>1, CallInvariant, PTL

\* A window that fits the subscriber's buffer with the exempt messages keeps
\* the overwriting channel from losing a frame in either direction.
THEOREM WindowPreventsLoss == CallSpec => []NothingReplaced
<1>1. CallInv => NothingReplaced
  BY DEF CallInv, FlowInv
<1> QED
  BY <1>1, CallInvariant, PTL

\* An answer is handed to the call whose request it answers, whatever order
\* they come in and whichever calls were given up (skill_response's
\* correlation_id).
THEOREM AnswersReachTheirCalls == CallSpec => []AnswersMatch
<1>1. CallInv => AnswersMatch
  BY DEF CallInv
<1> QED
  BY <1>1, CallInvariant, PTL

\* If the window fits, a call that waits has its request or its answer under
\* way, or its request with the server.
THEOREM NoCallLost == CallSpec => []PendingAccounted
<1>1. CallInv => PendingAccounted
  BY DEF CallInv, PendingUnderWay, UnderWay, PendingAccounted, Messages
<1> QED
  BY <1>1, CallInvariant, PTL

\* If the window fits, what the server has read of a stream is what the client
\* sent first of it, each chunk with its end-of-stream mark (stream_chunk).
THEOREM StreamArrivesWhole == CallSpec => []StreamsWhole
<1>1. CallInv => StreamsWhole
  BY DEF CallInv, StreamUnderWay
<1> QED
  BY <1>1, CallInvariant, PTL

\* Calls, streams and credits leave the two directions of the connection what
\* they are: logs whose reader skips the oldest unread frame exactly when
\* BufferSize are unread.
THEOREM CallsKeepLogs == CallSpec => ImplementsLog
<1>1. CallInit => ToServer!LogInit /\ ToClient!LogInit
  BY DEF CallInit, CreditInit, ToServer!LogInit, ToClient!LogInit, Ends
<1>2. CallInv /\ [CallNext]_allVars
        => /\ [ToServer!LogNext]_(ToServer!logVars)
           /\ [ToClient!LogNext]_(ToClient!logVars)
  BY CallShmStep, ServerLogStep, ClientLogStep DEF CallInv, FlowInv, ShmInv
<1> QED
  BY <1>1, <1>2, CallInvariant, PTL
  DEF CallSpec, ImplementsLog, ToServerImplementsLog, ToClientImplementsLog,
      ToServer!LogSpec, ToClient!LogSpec
=============================================================================
