---------------------------- MODULE LogonProofs -----------------------------
(***************************************************************************)
(* What a logon rests on.                                                  *)
(*                                                                         *)
(* The formats, for every byte of every field and any width of a component *)
(* that the one-byte lengths allow, and not only for the samples of the    *)
(* run: both sides read the same header, the PC verifies the bytes that    *)
(* the phone has signed, the two forms of a signature hold the same two    *)
(* numbers, and every form of a public key gives the same blob.            *)
(*                                                                         *)
(* The LSA package, for any devices, keys, signatures and submit buffers:  *)
(* a logon succeeds only on values the record really had during the call,  *)
(* and no block of the LSA heap is lost, whichever allocation fails.       *)
(***************************************************************************)
EXTENDS LsaPackage, MCFormats, SequenceTheorems, WellFoundedInduction, TLAPS

-----------------------------------------------------------------------------
(* The layouts of the frame header and the signed message.                 *)

Octet == 0..255

\* Every header and every message whose fields have the widths of the formats.
AnyHeader ==
    [type : [1..2 -> Octet], id : [1..4 -> Octet], length : [1..4 -> Octet],
     seq : [1..8 -> Octet]]

AnyMessage ==
    [version : [1..2 -> Octet], server : [1..16 -> Octet], device : [1..16 -> Octet],
     operation : [1..2 -> Octet], request : [1..4 -> Octet], session : [1..8 -> Octet],
     nonce : [1..32 -> Octet], timestamp : [1..8 -> Octet]]

\* A field of n bytes is a sequence of length n.
LEMMA Sized ==
    ASSUME NEW n \in Nat, NEW s \in [1..n -> Octet] PROVE s \in Seq(Octet) /\ Len(s) = n
OBVIOUS

\* The byte swaps between host and network order undo each other.
LEMMA SwappedTwice ==
    ASSUME NEW s \in Seq(Octet)
    PROVE  HostToNetwork(InMemory(s)) = s /\ InMemory(NetworkToHost(s)) = s
<1> DEFINE n == Len(s)
           r == [i \in 1..n |-> s[(n - i) + 1]]
<1>1. n \in Nat /\ s = [i \in 1..n |-> s[i]]
  OBVIOUS
<1>2. Seqs!Reverse(s) = r
  BY DEF Seqs!Reverse
<1>3. Len(r) = n
  BY <1>1
<1>4. Seqs!Reverse(r) = [i \in 1..n |-> r[(n - i) + 1]]
  BY <1>3 DEF Seqs!Reverse
<1>5. \A i \in 1..n : r[(n - i) + 1] = s[i]
  BY <1>1
<1>6. Seqs!Reverse(Seqs!Reverse(s)) = s
  BY <1>1, <1>2, <1>4, <1>5
<1> QED
  BY <1>6 DEF InMemory, HostToNetwork, NetworkToHost

\* The phone's conversion of a number keeps its width.
LEMMA ToIntTyped ==
    ASSUME NEW n \in [1..8 -> Octet] PROVE toInt(n) \in [1..8 -> Octet]
<1>1. Len(n) = 8
  OBVIOUS
<1>2. [i \in 1..8 |-> IF i = 1 THEN 127 ELSE 255] \in [1..8 -> Octet]
  BY DEF Octet
<1> QED
  BY <1>1, <1>2 DEF toInt

\* The bytes f lie at an offset of b; and b has n bytes and all of the fields, pairs
\* of an offset and bytes.
HasField(b, offset, f) == offset + Len(f) <= Len(b) /\ At(b, offset, Len(f)) = f

Layout(b, n, fields) ==
    /\ b \in Seq(Octet)
    /\ Len(b) = n
    /\ fields \subseteq Nat \X Seq(Octet)
    /\ \A x \in fields : HasField(b, x[1], x[2])

\* What is written first is at offset 0.
LEMMA FirstField == ASSUME NEW s \in Seq(Octet) PROVE Layout(s, Len(s), {<<0, s>>})
BY DEF Layout, HasField, At

\* A field stays where it is when more is written behind it.
LEMMA FieldKept ==
    ASSUME NEW s \in Seq(Octet), NEW t \in Seq(Octet), NEW i \in Nat, NEW f \in Seq(Octet),
           HasField(s, i, f)
    PROVE  HasField(s \o t, i, f)
<1>1. i + Len(f) <= Len(s) /\ At(s, i, Len(f)) = f
  BY DEF HasField
<1>2. At(s \o t, i, Len(f)) = At(s, i, Len(f))
  BY <1>1 DEF At
<1>3. Len(s \o t) = Len(s) + Len(t)
  OBVIOUS
<1> QED
  BY <1>1, <1>2, <1>3 DEF HasField

\* What is written next is behind all that was written before.
LEMMA NextField ==
    ASSUME NEW s, NEW n \in Nat, NEW fields, Layout(s, n, fields),
           NEW t \in Seq(Octet), NEW m \in Nat, m = n + Len(t)
    PROVE  Layout(s \o t, m, fields \cup {<<n, t>>})
<1>1. s \o t \in Seq(Octet) /\ Len(s \o t) = m
  BY DEF Layout
<1>2. HasField(s \o t, n, t)
  <2>1. At(s \o t, n, Len(t)) = t
    BY DEF At, Layout
  <2> QED
    BY <1>1, <2>1 DEF HasField
<1>3. ASSUME NEW x \in fields PROVE HasField(s \o t, x[1], x[2])
  BY FieldKept DEF Layout
<1> QED
  BY <1>1, <1>2, <1>3 DEF Layout

-----------------------------------------------------------------------------
\* The header that either side writes, from its fields.
FrameBytes(type, id, length, seq) ==
    PROTOCOL_MAGIC \o <<1, 0>> \o type \o <<0, 0>> \o id \o length \o seq

\* Where the fields of a header are.
LEMMA FrameLayout ==
    ASSUME NEW type \in [1..2 -> Octet], NEW id \in [1..4 -> Octet],
           NEW length \in [1..4 -> Octet], NEW seq \in [1..8 -> Octet],
           NEW b, b = FrameBytes(type, id, length, seq)
    PROVE  /\ b \in Seq(Octet) /\ Len(b) = 24
           /\ At(b, 0, 2) = PROTOCOL_MAGIC
           /\ b[3] = 1
           /\ At(b, 4, 2) = type
           /\ At(b, 8, 4) = id
           /\ At(b, 12, 4) = length
           /\ At(b, 16, 8) = seq
<1>1. /\ type \in Seq(Octet) /\ Len(type) = 2 /\ id \in Seq(Octet) /\ Len(id) = 4
      /\ length \in Seq(Octet) /\ Len(length) = 4 /\ seq \in Seq(Octet) /\ Len(seq) = 8
  BY Sized
<1>2. PICK magic, version, reserved :
         magic = PROTOCOL_MAGIC /\ version = <<1, 0>> /\ reserved = <<0, 0>>
  OBVIOUS
<1>3. /\ magic \in Seq(Octet) /\ Len(magic) = 2
      /\ version \in Seq(Octet) /\ Len(version) = 2 /\ version[1] = 1
      /\ reserved \in Seq(Octet) /\ Len(reserved) = 2
  <2>1. {0, 1, 77, 85} \subseteq Octet
    BY DEF Octet
  <2> QED
    BY <1>2, <2>1 DEF PROTOCOL_MAGIC
<1>4. /\ {2, 4, 6, 8, 12, 16, 24} \subseteq Nat
      /\ 4 = 2 + Len(version) /\ 6 = 4 + Len(type) /\ 8 = 6 + Len(reserved)
      /\ 12 = 8 + Len(id) /\ 16 = 12 + Len(length) /\ 24 = 16 + Len(seq)
  BY <1>1, <1>3
<1> DEFINE b1 == magic \o version
           b2 == b1 \o type
           b3 == b2 \o reserved
           b4 == b3 \o id
           b5 == b4 \o length
           f1 == {<<0, magic>>} \cup {<<2, version>>}
           f2 == f1 \cup {<<4, type>>}
           f3 == f2 \cup {<<6, reserved>>}
           f4 == f3 \cup {<<8, id>>}
           f5 == f4 \cup {<<12, length>>}
<1>5. Layout(magic, 2, {<<0, magic>>})
  BY <1>3, FirstField
<1>6. Layout(b1, 4, f1)
  BY <1>3, <1>4, <1>5, NextField
<1> HIDE DEF b1, f1
<1>7. Layout(b2, 6, f2)
  BY <1>1, <1>4, <1>6, NextField
<1> HIDE DEF b2, f2
<1>8. Layout(b3, 8, f3)
  BY <1>3, <1>4, <1>7, NextField
<1> HIDE DEF b3, f3
<1>9. Layout(b4, 12, f4)
  BY <1>1, <1>4, <1>8, NextField
<1> HIDE DEF b4, f4
<1>10. Layout(b5, 16, f5)
  BY <1>1, <1>4, <1>9, NextField
<1> HIDE DEF b5, f5
<1>11. Layout(b5 \o seq, 24, f5 \cup {<<16, seq>>})
  BY <1>1, <1>4, <1>10, NextField
<1>12. b = b5 \o seq
  BY <1>2 DEF FrameBytes, b1, b2, b3, b4, b5
<1>13. /\ b \in Seq(Octet) /\ Len(b) = 24
       /\ HasField(b, 0, magic) /\ HasField(b, 2, version) /\ HasField(b, 4, type)
       /\ HasField(b, 8, id) /\ HasField(b, 12, length) /\ HasField(b, 16, seq)
  BY <1>11, <1>12 DEF Layout, f1, f2, f3, f4, f5
<1>14. b[3] = 1
  <2>1. SubSeq(b, 3, 4) = version
    BY <1>3, <1>13 DEF HasField, At
  <2>2. SubSeq(b, 3, 4)[1] = b[3]
    BY <1>13
  <2> QED
    BY <1>3, <2>1, <2>2
<1> QED
  BY <1>1, <1>2, <1>3, <1>13, <1>14 DEF HasField

\* What the PC writes is what the phone writes, but for the phone's limit.
LEMMA FrameWritten ==
    ASSUME NEW h \in AnyHeader
    PROVE  /\ SerializeFrameHeader(h) = FrameBytes(h.type, h.id, h.length, h.seq)
           /\ sendFrameHeader(h) = FrameBytes(h.type, h.id, h.length, toInt(h.seq))
<1>1. /\ h.type \in Seq(Octet) /\ h.id \in Seq(Octet)
      /\ h.length \in Seq(Octet) /\ h.seq \in Seq(Octet)
  <2>1. /\ h.type \in [1..2 -> Octet] /\ h.id \in [1..4 -> Octet]
        /\ h.length \in [1..4 -> Octet] /\ h.seq \in [1..8 -> Octet]
    BY DEF AnyHeader
  <2> QED
    BY <2>1, Sized
<1>2. PROTOCOL_MAGIC \in Seq(Octet) /\ <<0, 0>> \in Seq(Octet)
  BY DEF PROTOCOL_MAGIC, Octet
<1>3. /\ HostToNetwork(InMemory(PROTOCOL_MAGIC)) = PROTOCOL_MAGIC
      /\ HostToNetwork(InMemory(<<0, 0>>)) = <<0, 0>>
      /\ HostToNetwork(InMemory(h.type)) = h.type
      /\ HostToNetwork(InMemory(h.id)) = h.id
      /\ HostToNetwork(InMemory(h.length)) = h.length
      /\ HostToNetwork(InMemory(h.seq)) = h.seq
  BY <1>1, <1>2, SwappedTwice
<1>4. SerializeFrameHeader(h) = FrameBytes(h.type, h.id, h.length, h.seq)
  BY <1>3, Zenon DEF SerializeFrameHeader, FrameBytes
<1> QED
  BY <1>4 DEF sendFrameHeader, FrameBytes

\* What each side reads of every header, not only of the samples: all of it, but for the
\* sign that the phone gives to sequence numbers from 2^63.
THEOREM HeaderMeansTheSame == \A h \in AnyHeader : SameHeader(h)
<1> SUFFICES ASSUME NEW h \in AnyHeader PROVE SameHeader(h)
  OBVIOUS
<1> DEFINE wire == SerializeFrameHeader(h)
           sent == sendFrameHeader(h)
           seq  == toInt(h.seq)
<1>1. /\ h.type \in [1..2 -> Octet] /\ h.id \in [1..4 -> Octet]
      /\ h.length \in [1..4 -> Octet] /\ h.seq \in [1..8 -> Octet]
      /\ seq \in [1..8 -> Octet]
  BY ToIntTyped DEF AnyHeader
<1>2. /\ At(wire, 0, 2) = PROTOCOL_MAGIC /\ wire[3] = 1 /\ At(wire, 4, 2) = h.type
      /\ At(wire, 8, 4) = h.id /\ At(wire, 12, 4) = h.length /\ At(wire, 16, 8) = h.seq
  BY <1>1, FrameWritten, FrameLayout
<1>3. /\ Len(sent) = 24
      /\ At(sent, 0, 2) = PROTOCOL_MAGIC /\ sent[3] = 1 /\ At(sent, 4, 2) = h.type
      /\ At(sent, 8, 4) = h.id /\ At(sent, 12, 4) = h.length /\ At(sent, 16, 8) = seq
  BY <1>1, FrameWritten, FrameLayout
<1> HIDE DEF wire, sent, seq
<1>4. /\ parseFrameHeader(wire).value
            = [type |-> h.type, id |-> h.id, length |-> h.length, seq |-> fromInt(h.seq)]
      /\ parseFrameHeader(wire).valid <=> ~TooLong(h.length)
  BY <1>2 DEF parseFrameHeader
<1>a. \A n : [h EXCEPT !.seq = n]
               = [type |-> h.type, id |-> h.id, length |-> h.length, seq |-> n]
  BY DEF AnyHeader
<1>b. fromInt(h.seq) = [sign |-> "+", bytes |-> h.seq] <=> h.seq[1] < 128
  <2>1. h.seq[1] \in 0..255
    BY <1>1 DEF Octet
  <2> QED
    BY <2>1 DEF fromInt
<1>c. parseFrameHeader(wire).value = [h EXCEPT !.seq = [sign |-> "+", bytes |-> @]]
        <=> h.seq[1] < 128
  <2> DEFINE n == [sign |-> "+", bytes |-> h.seq]
  <2>1. [h EXCEPT !.seq = n]
          = [type |-> h.type, id |-> h.id, length |-> h.length, seq |-> n]
    BY <1>a
  <2>2. n = fromInt(h.seq) <=> h.seq[1] < 128
    BY <1>b
  <2> HIDE DEF n
  <2>3. parseFrameHeader(wire).value = [h EXCEPT !.seq = n] <=> h.seq[1] < 128
    BY <1>4, <2>1, <2>2
  <2> QED
    BY <2>3 DEF n
<1>d. /\ \A field \in {"type", "id", "length"} : parseFrameHeader(wire).value[field] = h[field]
      /\ parseFrameHeader(wire).value.seq.bytes = h.seq
  BY <1>4 DEF fromInt
<1>5. /\ InMemory(NetworkToHost(PROTOCOL_MAGIC)) = PROTOCOL_MAGIC
      /\ InMemory(NetworkToHost(h.type)) = h.type /\ InMemory(NetworkToHost(h.id)) = h.id
      /\ InMemory(NetworkToHost(h.length)) = h.length /\ InMemory(NetworkToHost(seq)) = seq
  <2>1. PROTOCOL_MAGIC \in Seq(Octet)
    BY DEF PROTOCOL_MAGIC, Octet
  <2> QED
    BY <1>1, <2>1, Sized, SwappedTwice
<1>6. /\ DeserializeFrameHeader(sent).value
            = [type |-> h.type, id |-> h.id, length |-> h.length, seq |-> seq]
      /\ DeserializeFrameHeader(sent).valid <=> ~TooLong(h.length) /\ IsValidMessageType(h.type)
  BY <1>3, <1>5 DEF DeserializeFrameHeader
<1>7. [h EXCEPT !.seq = toInt(@)]
        = [type |-> h.type, id |-> h.id, length |-> h.length, seq |-> seq]
  BY DEF AnyHeader, seq
<1> QED
  BY <1>4, <1>c, <1>d, <1>6, <1>7 DEF SameHeader, wire, sent

-----------------------------------------------------------------------------
\* The bytes of a signed message, from its fields.
MessageBytes(m) ==
    m.version \o m.server \o m.device \o m.operation \o m.request
    \o m.session \o m.nonce \o m.timestamp

\* Where the fields of a signed message are.
LEMMA MessageLayout ==
    ASSUME NEW m \in AnyMessage, NEW b, b = MessageBytes(m)
    PROVE  /\ b \in Seq(Octet) /\ Len(b) = 88
           /\ At(b, 0, 2) = m.version /\ At(b, 2, 16) = m.server /\ At(b, 18, 16) = m.device
           /\ At(b, 34, 2) = m.operation /\ At(b, 36, 4) = m.request
           /\ At(b, 40, 8) = m.session /\ At(b, 48, 32) = m.nonce
           /\ At(b, 80, 8) = m.timestamp
<1> DEFINE b1 == m.version \o m.server
           b2 == b1 \o m.device
           b3 == b2 \o m.operation
           b4 == b3 \o m.request
           b5 == b4 \o m.session
           b6 == b5 \o m.nonce
           f1 == {<<0, m.version>>} \cup {<<2, m.server>>}
           f2 == f1 \cup {<<18, m.device>>}
           f3 == f2 \cup {<<34, m.operation>>}
           f4 == f3 \cup {<<36, m.request>>}
           f5 == f4 \cup {<<40, m.session>>}
           f6 == f5 \cup {<<48, m.nonce>>}
           b7 == b6 \o m.timestamp
           f7 == f6 \cup {<<80, m.timestamp>>}
<1>1. m.version \in Seq(Octet) /\ Len(m.version) = 2
  <2>1. m.version \in [1..2 -> Octet] /\ 2 \in Nat
    BY DEF AnyMessage
  <2> QED
    BY <2>1, Sized
<1>2. m.server \in Seq(Octet) /\ Len(m.server) = 16
  <2>1. m.server \in [1..16 -> Octet] /\ 16 \in Nat
    BY DEF AnyMessage
  <2> QED
    BY <2>1, Sized
<1>3. m.device \in Seq(Octet) /\ Len(m.device) = 16
  <2>1. m.device \in [1..16 -> Octet] /\ 16 \in Nat
    BY DEF AnyMessage
  <2> QED
    BY <2>1, Sized
<1>4. m.operation \in Seq(Octet) /\ Len(m.operation) = 2
  <2>1. m.operation \in [1..2 -> Octet] /\ 2 \in Nat
    BY DEF AnyMessage
  <2> QED
    BY <2>1, Sized
<1>5. m.request \in Seq(Octet) /\ Len(m.request) = 4
  <2>1. m.request \in [1..4 -> Octet] /\ 4 \in Nat
    BY DEF AnyMessage
  <2> QED
    BY <2>1, Sized
<1>6. m.session \in Seq(Octet) /\ Len(m.session) = 8
  <2>1. m.session \in [1..8 -> Octet] /\ 8 \in Nat
    BY DEF AnyMessage
  <2> QED
    BY <2>1, Sized
<1>7. m.nonce \in Seq(Octet) /\ Len(m.nonce) = 32
  <2>1. m.nonce \in [1..32 -> Octet] /\ 32 \in Nat
    BY DEF AnyMessage
  <2> QED
    BY <2>1, Sized
<1>8. m.timestamp \in Seq(Octet) /\ Len(m.timestamp) = 8
  <2>1. m.timestamp \in [1..8 -> Octet] /\ 8 \in Nat
    BY DEF AnyMessage
  <2> QED
    BY <2>1, Sized
<1>9. Layout(m.version, 2, {<<0, m.version>>})
  BY <1>1, FirstField
<1>10. Layout(b1, 18, f1)
  <2>1. m.server \in Seq(Octet) /\ 2 \in Nat /\ 18 \in Nat /\ 18 = 2 + Len(m.server)
    BY <1>2
  <2> QED
    BY <1>9, <2>1, NextField
<1> HIDE DEF b1, f1
<1>11. Layout(b2, 34, f2)
  <2>1. m.device \in Seq(Octet) /\ 18 \in Nat /\ 34 \in Nat /\ 34 = 18 + Len(m.device)
    BY <1>3
  <2> QED
    BY <1>10, <2>1, NextField
<1> HIDE DEF b2, f2
<1>12. Layout(b3, 36, f3)
  <2>1. m.operation \in Seq(Octet) /\ 34 \in Nat /\ 36 \in Nat /\ 36 = 34 + Len(m.operation)
    BY <1>4
  <2> QED
    BY <1>11, <2>1, NextField
<1> HIDE DEF b3, f3
<1>13. Layout(b4, 40, f4)
  <2>1. m.request \in Seq(Octet) /\ 36 \in Nat /\ 40 \in Nat /\ 40 = 36 + Len(m.request)
    BY <1>5
  <2> QED
    BY <1>12, <2>1, NextField
<1> HIDE DEF b4, f4
<1>14. Layout(b5, 48, f5)
  <2>1. m.session \in Seq(Octet) /\ 40 \in Nat /\ 48 \in Nat /\ 48 = 40 + Len(m.session)
    BY <1>6
  <2> QED
    BY <1>13, <2>1, NextField
<1> HIDE DEF b5, f5
<1>15. Layout(b6, 80, f6)
  <2>1. m.nonce \in Seq(Octet) /\ 48 \in Nat /\ 80 \in Nat /\ 80 = 48 + Len(m.nonce)
    BY <1>7
  <2> QED
    BY <1>14, <2>1, NextField
<1> HIDE DEF b6, f6
<1>16. Layout(b7, 88, f7)
  <2>1. m.timestamp \in Seq(Octet) /\ 80 \in Nat /\ 88 \in Nat /\ 88 = 80 + Len(m.timestamp)
    BY <1>8
  <2> QED
    BY <1>15, <2>1, NextField
<1>17. b = b7
  BY DEF MessageBytes, b1, b2, b3, b4, b5, b6
<1> HIDE DEF b7, f7
<1>18. Layout(b, 88, f7)
  BY <1>16, <1>17
<1>19. /\ HasField(b, 0, m.version) /\ HasField(b, 2, m.server) /\ HasField(b, 18, m.device)
       /\ HasField(b, 34, m.operation)
  BY <1>18 DEF Layout, f1, f2, f3, f4, f5, f6, f7
<1>20. /\ HasField(b, 36, m.request) /\ HasField(b, 40, m.session)
       /\ HasField(b, 48, m.nonce) /\ HasField(b, 80, m.timestamp)
  BY <1>18 DEF Layout, f1, f2, f3, f4, f5, f6, f7
<1>21. b \in Seq(Octet) /\ Len(b) = 88
  BY <1>18 DEF Layout
<1> QED
  BY <1>1, <1>2, <1>3, <1>4, <1>5, <1>6, <1>7, <1>8, <1>19, <1>20, <1>21 DEF HasField

\* The PC reads the fields of a message as they were written and writes them back to
\* the same bytes.
LEMMA MessageRead ==
    ASSUME NEW m \in AnyMessage, NEW b, b = MessageBytes(m)
    PROVE  /\ DeserializeSignedMessage(b).value = m
           /\ DeserializeSignedMessage(b).valid <=>
                 m.version = <<1, 0>> /\ IsValidMessageType(m.operation)
           /\ SerializeSignedMessage(m) = b
<1>1. /\ m.version \in [1..2 -> Octet] /\ m.operation \in [1..2 -> Octet]
      /\ m.request \in [1..4 -> Octet] /\ m.session \in [1..8 -> Octet]
      /\ m.timestamp \in [1..8 -> Octet]
  BY DEF AnyMessage
<1>2. /\ m.version \in Seq(Octet) /\ m.operation \in Seq(Octet) /\ m.request \in Seq(Octet)
      /\ m.session \in Seq(Octet) /\ m.timestamp \in Seq(Octet)
  BY <1>1, Sized
<1>3. /\ InMemory(NetworkToHost(m.version)) = m.version
      /\ InMemory(NetworkToHost(m.operation)) = m.operation
      /\ InMemory(NetworkToHost(m.request)) = m.request
      /\ InMemory(NetworkToHost(m.session)) = m.session
      /\ InMemory(NetworkToHost(m.timestamp)) = m.timestamp
  BY <1>2, SwappedTwice
<1>4. /\ HostToNetwork(InMemory(m.version)) = m.version
      /\ HostToNetwork(InMemory(m.operation)) = m.operation
      /\ HostToNetwork(InMemory(m.request)) = m.request
      /\ HostToNetwork(InMemory(m.session)) = m.session
      /\ HostToNetwork(InMemory(m.timestamp)) = m.timestamp
  BY <1>2, SwappedTwice
<1>5. SerializeSignedMessage(m) = b
  BY <1>4, Zenon DEF SerializeSignedMessage, MessageBytes
<1>6. /\ Len(b) = 88
      /\ At(b, 0, 2) = m.version /\ At(b, 2, 16) = m.server /\ At(b, 18, 16) = m.device
      /\ At(b, 34, 2) = m.operation /\ At(b, 36, 4) = m.request
      /\ At(b, 40, 8) = m.session /\ At(b, 48, 32) = m.nonce
      /\ At(b, 80, 8) = m.timestamp
  BY MessageLayout
<1>7. m = [version |-> m.version, server |-> m.server, device |-> m.device,
           operation |-> m.operation, request |-> m.request, session |-> m.session,
           nonce |-> m.nonce, timestamp |-> m.timestamp]
  BY DEF AnyMessage
<1>8. DeserializeSignedMessage(b).value = m
  BY <1>3, <1>6, <1>7 DEF DeserializeSignedMessage
<1>9. DeserializeSignedMessage(b).valid <=>
        m.version = <<1, 0>> /\ IsValidMessageType(m.operation)
  BY <1>3, <1>6 DEF DeserializeSignedMessage
<1> QED
  BY <1>5, <1>8, <1>9

\* For every message, not only those of the samples, the PC verifies the bytes that
\* the phone has signed.
THEOREM MessageMeansTheSame == \A m \in AnyMessage : SameMessage(m)
<1> SUFFICES ASSUME NEW m \in AnyMessage PROVE SameMessage(m)
  OBVIOUS
<1> DEFINE sent == [m EXCEPT !.session = toInt(@), !.timestamp = toInt(@)]
<1>1. toInt(m.session) \in [1..8 -> Octet] /\ toInt(m.timestamp) \in [1..8 -> Octet]
  BY ToIntTyped DEF AnyMessage
<1>2. sent \in AnyMessage
  BY <1>1 DEF AnyMessage
<1>3. /\ sent.version = m.version /\ sent.server = m.server /\ sent.device = m.device
      /\ sent.operation = m.operation /\ sent.request = m.request
      /\ sent.session = toInt(m.session) /\ sent.nonce = m.nonce
      /\ sent.timestamp = toInt(m.timestamp)
  BY DEF AnyMessage
<1> HIDE DEF sent
<1>4. toCanonicalBytes(m) = MessageBytes(sent)
  BY <1>3, Zenon DEF toCanonicalBytes, MessageBytes
<1>5. LET parsed == DeserializeSignedMessage(toCanonicalBytes(m))
      IN  /\ parsed.value = sent
          /\ parsed.valid <=> sent.version = <<1, 0>> /\ IsValidMessageType(sent.operation)
          /\ SerializeSignedMessage(sent) = toCanonicalBytes(m)
  BY <1>2, <1>4, MessageRead
<1> QED
  BY <1>3, <1>5 DEF SameMessage, sent

-----------------------------------------------------------------------------
(* The forms of a public key.                                              *)

\* Every pair of coordinates.
AnyPoint == [1..SignatureLen -> Octet]

\* So many bytes that every length in a SubjectPublicKeyInfo is below 128.
LEMMA SignatureLenTyped == SignatureLen \in 4..102
BY LengthAssumption DEF SignatureLen

\* Where the bytes of two sequences are when one follows the other: st has n bytes,
\* the first k of them from s and the rest from t.
Joins(st, s, t, k, n) ==
    /\ st \in Seq(Octet)
    /\ Len(st) = n
    /\ \A i \in 1..k : st[i] = s[i]
    /\ \A i \in 1..Len(t) : st[k + i] = t[i]

\* This is what concatenation does.
LEMMA JoinedBytes ==
    ASSUME NEW s \in Seq(Octet), NEW t \in Seq(Octet),
           NEW k, k = Len(s), NEW n, n = k + Len(t)
    PROVE  Joins(s \o t, s, t, k, n)
BY DEF Joins

\* A length below 128 is a single byte.
LEMMA ShortLength ==
    ASSUME NEW der, NEW at \in Nat, der[at] \in 0..127
    PROVE  DerLength(der, at) = [len |-> der[at], next |-> at + 1]
<1>1. der[at] < 128
  OBVIOUS
<1> QED
  BY <1>1 DEF DerLength

\* The first 27 bytes of the phone's SubjectPublicKeyInfo, which hold everything but
\* the coordinates.
SpkiFrame(der) ==
    /\ der[1] = 48 /\ der[2] = 25 + SignatureLen /\ der[3] = 48 /\ der[4] = 19
    /\ der[24] = 3 /\ der[25] = SignatureLen + 2 /\ der[26] = 0 /\ der[27] = 4

\* The coordinates are what follows, if it is all there.
LEMMA SpkiParsed ==
    ASSUME NEW der \in Seq(Octet), SpkiFrame(der), Len(der) >= 27
    PROVE  ParseSpkiDer(der) = IF Len(der) >= 30 /\ Len(der) >= SignatureLen + 27
                               THEN SubSeq(der, 28, 27 + SignatureLen) ELSE Malformed
<1>1. DerLength(der, 2) = [len |-> 25 + SignatureLen, next |-> 3]
  <2>1. der[2] = 25 + SignatureLen /\ der[2] \in 0..127 /\ 2 \in Nat /\ 2 + 1 = 3
    BY SignatureLenTyped DEF SpkiFrame
  <2> QED
    BY <2>1, ShortLength
<1>2. DerLength(der, 4) = [len |-> 19, next |-> 5]
  BY ShortLength DEF SpkiFrame
<1>3. DerLength(der, 25) = [len |-> SignatureLen + 2, next |-> 26]
  <2>1. der[25] = SignatureLen + 2 /\ der[25] \in 0..127 /\ 25 \in Nat /\ 25 + 1 = 26
    BY SignatureLenTyped DEF SpkiFrame
  <2> QED
    BY <2>1, ShortLength
<1> DEFINE root  == DerLength(der, 2).next
           alg   == DerLength(der, root + 1)
           bits  == alg.next + alg.len
           field == DerLength(der, bits + 1)
           point == field.next
<1>4. root = 3
  BY <1>1
<1>5. alg = [len |-> 19, next |-> 5]
  BY <1>2, <1>4
<1> HIDE DEF root
<1>6. bits = 24
  BY <1>5
<1> HIDE DEF alg
<1>7. field = [len |-> SignatureLen + 2, next |-> 26]
  BY <1>3, <1>6
<1> HIDE DEF bits
<1>8. point = 26 /\ field.len = SignatureLen + 2
  BY <1>7
<1> HIDE DEF field, point
<1>9. ParseSpkiDer(der) =
        IF \/ Len(der) < 30 \/ der[1] # 48 \/ root + 1 > Len(der) \/ der[root] # 48
           \/ bits + 1 > Len(der) \/ der[bits] # 3 \/ point - 1 + field.len > Len(der)
           \/ field.len < SignatureLen + 2 \/ der[point] # 0 \/ der[point + 1] # 4
        THEN Malformed ELSE SubSeq(der, point + 2, point + 1 + SignatureLen)
  BY DEF ParseSpkiDer, root, alg, bits, field, point
<1> QED
  BY <1>4, <1>6, <1>8, <1>9, SignatureLenTyped DEF SpkiFrame

\* What SpkiKey puts together.
LEMMA SpkiBytes ==
    ASSUME NEW p \in AnyPoint
    PROVE  /\ SpkiKey(p) \in Seq(Octet)
           /\ Len(SpkiKey(p)) = SignatureLen + 27
           /\ SpkiFrame(SpkiKey(p))
           /\ \A i \in 1..SignatureLen : SpkiKey(p)[27 + i] = p[i]
<1>0. p \in Seq(Octet) /\ Len(p) = SignatureLen /\ SignatureLen \in 4..102
  BY Sized, SignatureLenTyped DEF AnyPoint
<1>1. PICK head, algorithm, tail :
        /\ head = <<48, 25 + SignatureLen, 48, 19>>
        /\ algorithm = [i \in 1..19 |-> 1]
        /\ tail = <<3, SignatureLen + 2, 0, 4>>
  OBVIOUS
<1>2. /\ head \in Seq(Octet) /\ Len(head) = 4 /\ algorithm \in Seq(Octet) /\ Len(algorithm) = 19
      /\ tail \in Seq(Octet) /\ Len(tail) = 4
  <2>1. {0, 1, 3, 4, 19, 48, 25 + SignatureLen, SignatureLen + 2} \subseteq Octet
    BY <1>0 DEF Octet
  <2>2. head \in Seq(Octet) /\ Len(head) = 4
    BY <1>1, <2>1
  <2>3. algorithm \in Seq(Octet) /\ Len(algorithm) = 19
    BY <1>1, <2>1
  <2>4. tail \in Seq(Octet) /\ Len(tail) = 4
    BY <1>1, <2>1
  <2> QED
    BY <2>2, <2>3, <2>4
<1>3. /\ head[1] = 48 /\ head[2] = 25 + SignatureLen /\ head[3] = 48 /\ head[4] = 19
      /\ tail[1] = 3 /\ tail[2] = SignatureLen + 2 /\ tail[3] = 0 /\ tail[4] = 4
  BY <1>1
<1>4. /\ 4 = Len(head) /\ 23 = 4 + Len(algorithm) /\ 27 = 23 + Len(tail)
      /\ SignatureLen + 27 = 27 + Len(p)
  BY <1>0, <1>2
<1>5. PICK a : a = head \o algorithm
  OBVIOUS
<1>6. Joins(a, head, algorithm, 4, 23)
  BY <1>2, <1>4, <1>5, JoinedBytes
<1>7. PICK b : b = a \o tail
  OBVIOUS
<1>8. Joins(b, a, tail, 23, 27)
  <2>1. a \in Seq(Octet) /\ 23 = Len(a)
    BY <1>6 DEF Joins
  <2> QED
    BY <1>2, <1>4, <1>7, <2>1, JoinedBytes
<1>9. SpkiFrame(b)
  <2>1. b[23 + 1] = 3 /\ b[23 + 2] = SignatureLen + 2 /\ b[23 + 3] = 0 /\ b[23 + 4] = 4
    BY <1>2, <1>3, <1>8 DEF Joins
  <2>2. b[1] = a[1] /\ b[2] = a[2] /\ b[3] = a[3] /\ b[4] = a[4]
    BY <1>8 DEF Joins
  <2>3. a[1] = head[1] /\ a[2] = head[2] /\ a[3] = head[3] /\ a[4] = head[4]
    BY <1>6 DEF Joins
  <2> QED
    BY <1>3, <2>1, <2>2, <2>3 DEF SpkiFrame
<1>10. PICK key : key = b \o p
  OBVIOUS
<1>11. Joins(key, b, p, 27, SignatureLen + 27)
  <2>1. b \in Seq(Octet) /\ 27 = Len(b)
    BY <1>8 DEF Joins
  <2> QED
    BY <1>0, <1>4, <1>10, <2>1, JoinedBytes
<1>12. SpkiFrame(key)
  <2>1. /\ key[1] = b[1] /\ key[2] = b[2] /\ key[3] = b[3] /\ key[4] = b[4]
        /\ key[24] = b[24] /\ key[25] = b[25] /\ key[26] = b[26] /\ key[27] = b[27]
    BY <1>11 DEF Joins
  <2> QED
    BY <1>9, <2>1 DEF SpkiFrame
<1>13. SpkiKey(p) = key
  BY <1>1, <1>5, <1>7, <1>10 DEF SpkiKey
<1> QED
  BY <1>0, <1>11, <1>12, <1>13 DEF Joins

\* A cut key whose first byte is that of no SubjectPublicKeyInfo.
LEMMA CutPlain ==
    ASSUME NEW key \in Seq(Octet), NEW n \in 0..(Len(key) - 1), key[1] # 48,
           n = SignatureLen + 1 => key[1] # 4, n # SignatureLen + 8
    PROVE  CutKey(key, n)
<1>1. PICK cut : cut = SubSeq(key, 1, n)
  OBVIOUS
<1>2. cut \in Seq(Octet) /\ Len(cut) = n /\ (n > 0 => cut[1] = key[1])
  BY <1>1
<1>3. SignatureLen \in 4..102
  BY SignatureLenTyped
<1>4. CASE n = 0
  BY <1>1, <1>2, <1>3, <1>4 DEF CutKey, NormalizePublicKeyToEccBlob
<1>5. CASE n = SignatureLen
  <2>1. cut # <<>> /\ Len(cut) # SignatureLen + 8 /\ Len(cut) = SignatureLen
    BY <1>2, <1>3, <1>5
  <2>2. NormalizePublicKeyToEccBlob(cut) = BlobHeader \o cut
    BY <2>1, Zenon DEF NormalizePublicKeyToEccBlob
  <2> QED
    BY <1>1, <1>5, <2>2 DEF CutKey
<1>6. CASE n # 0 /\ n # SignatureLen
  <2>1. /\ cut # <<>> /\ Len(cut) # SignatureLen + 8 /\ Len(cut) # SignatureLen
        /\ ~(Len(cut) = SignatureLen + 1 /\ cut[1] = 4) /\ cut[1] # 48
    BY <1>2, <1>3, <1>6
  <2>2. NormalizePublicKeyToEccBlob(cut) = Malformed
    BY <2>1, Zenon DEF NormalizePublicKeyToEccBlob
  <2> QED
    BY <1>1, <1>6, <2>2 DEF CutKey
<1> QED
  BY <1>4, <1>5, <1>6

\* Every point is registered as the same blob in each of the four forms, and a cut
\* form is refused unless it is as long as bare coordinates.
THEOREM KeyMeansTheSame == \A p \in AnyPoint : SameBlob(p)
<1> SUFFICES ASSUME NEW p \in AnyPoint PROVE SameBlob(p)
  OBVIOUS
<1>1. p \in Seq(Octet) /\ Len(p) = SignatureLen /\ SignatureLen \in 4..102
  BY Sized, SignatureLenTyped DEF AnyPoint
<1>2. BlobHeader \in Seq(Octet) /\ Len(BlobHeader) = 8 /\ BlobHeader[1] = 69
  BY LengthAssumption DEF BlobHeader, Octet
<1>3. NormalizePublicKeyToEccBlob(BlobHeader \o p) = BlobHeader \o p
  <2>1. PICK key : key = BlobHeader \o p
    OBVIOUS
  <2>2. Len(key) = SignatureLen + 8 /\ SubSeq(key, 1, 8) = BlobHeader
    <3>1. 8 = Len(BlobHeader) /\ SignatureLen + 8 = 8 + Len(p)
      BY <1>1, <1>2
    <3>2. Joins(key, BlobHeader, p, 8, SignatureLen + 8)
      BY <1>1, <1>2, <2>1, <3>1, JoinedBytes
    <3> QED
      BY <1>1, <1>2, <3>2 DEF Joins
  <2>3. key # <<>>
    BY <1>1, <2>2
  <2> QED
    BY <2>1, <2>2, <2>3, Zenon DEF NormalizePublicKeyToEccBlob
<1>4. NormalizePublicKeyToEccBlob(p) = BlobHeader \o p
  <2>1. p # <<>> /\ Len(p) # SignatureLen + 8 /\ Len(p) = SignatureLen
    BY <1>1
  <2> QED
    BY <2>1, Zenon DEF NormalizePublicKeyToEccBlob
<1>5. NormalizePublicKeyToEccBlob(<<4>> \o p) = BlobHeader \o p
  <2>1. PICK key : key = <<4>> \o p
    OBVIOUS
  <2>2. /\ key \in Seq(Octet) /\ key # <<>> /\ Len(key) = SignatureLen + 1
        /\ key[1] = 4 /\ Tail(key) = p
    BY <1>1, <2>1 DEF Octet
  <2> QED
    BY <1>1, <2>1, <2>2 DEF NormalizePublicKeyToEccBlob, RawPoint
<1>6. PICK spki : spki = SpkiKey(p)
  OBVIOUS
<1>7. /\ spki \in Seq(Octet) /\ Len(spki) = SignatureLen + 27 /\ SpkiFrame(spki)
      /\ \A i \in 1..SignatureLen : spki[27 + i] = p[i]
  BY <1>6, SpkiBytes
<1>8. NormalizePublicKeyToEccBlob(spki) = BlobHeader \o p
  <2>1. SubSeq(spki, 28, 27 + SignatureLen) = p
    BY <1>1, <1>7
  <2>2. ParseSpkiDer(spki) = p /\ p # Malformed
    BY <1>1, <1>7, <2>1, SpkiParsed DEF Malformed
  <2>3. spki # <<>> /\ spki[1] = 48
    BY <1>1, <1>7 DEF SpkiFrame
  <2> QED
    BY <1>1, <1>7, <2>2, <2>3 DEF NormalizePublicKeyToEccBlob
<1>9. ASSUME NEW n \in 0..(Len(spki) - 1) PROVE CutKey(spki, n)
  <2>1. PICK cut : cut = SubSeq(spki, 1, n)
    OBVIOUS
  <2>2. /\ cut \in Seq(Octet) /\ Len(cut) = n /\ \A i \in 1..n : cut[i] = spki[i]
    BY <1>1, <1>7, <1>9, <2>1
  <2>3. CASE n = 0
    <3>1. cut = <<>> /\ n # SignatureLen
      BY <1>1, <2>2, <2>3
    <3> QED
      BY <2>1, <3>1 DEF CutKey, NormalizePublicKeyToEccBlob
  <2>4. CASE n = SignatureLen
    <3>1. cut # <<>> /\ Len(cut) # SignatureLen + 8 /\ Len(cut) = SignatureLen
      BY <1>1, <2>2, <2>4
    <3>2. NormalizePublicKeyToEccBlob(cut) = BlobHeader \o cut
      BY <3>1, Zenon DEF NormalizePublicKeyToEccBlob
    <3> QED
      BY <2>1, <2>4, <3>2 DEF CutKey
  <2>5. CASE n > 0 /\ n # SignatureLen
    <3>1. cut # <<>> /\ cut[1] = 48
      BY <1>7, <2>2, <2>5 DEF SpkiFrame
    <3>2. SubSeq(cut, 1, 8) = BlobHeader => cut[1] = 69 \/ n < 8
      BY <1>2, <2>2
    <3>3. ParseSpkiDer(cut) = Malformed
      <4>1. CASE n < 30
        BY <2>2, <4>1 DEF ParseSpkiDer
      <4>2. CASE n >= 30
        <5>1. SpkiFrame(cut)
          BY <1>7, <2>2, <4>2 DEF SpkiFrame
        <5> QED
          BY <1>1, <1>7, <1>9, <2>2, <4>2, <5>1, SpkiParsed
      <4> QED
        BY <1>9, <1>1, <1>7, <4>1, <4>2
    <3>4. NormalizePublicKeyToEccBlob(cut) = Malformed
      BY <1>1, <1>9, <2>2, <2>5, <3>1, <3>2, <3>3 DEF NormalizePublicKeyToEccBlob
    <3> QED
      BY <2>1, <2>5, <3>4 DEF CutKey
  <2> QED
    BY <1>1, <1>7, <1>9, <2>3, <2>4, <2>5
<1>10. \A n \in 0..(Len(BlobHeader \o p) - 1) : CutKey(BlobHeader \o p, n)
  <2>1. PICK key : key = BlobHeader \o p
    OBVIOUS
  <2>2. key \in Seq(Octet) /\ Len(key) = SignatureLen + 8 /\ key[1] = 69
    <3>1. 8 = Len(BlobHeader) /\ SignatureLen + 8 = 8 + Len(p)
      BY <1>1, <1>2
    <3>2. Joins(key, BlobHeader, p, 8, SignatureLen + 8)
      BY <1>1, <1>2, <2>1, <3>1, JoinedBytes
    <3> QED
      BY <1>1, <1>2, <3>2 DEF Joins
  <2>3. ASSUME NEW n \in 0..(Len(key) - 1) PROVE CutKey(key, n)
    <3>1. key[1] # 48 /\ (n = SignatureLen + 1 => key[1] # 4) /\ n # SignatureLen + 8
      BY <1>1, <2>2, <2>3
    <3> QED
      BY <2>2, <3>1, CutPlain
  <2> QED
    BY <2>1, <2>3
<1>11. \A n \in 0..(Len(<<4>> \o p) - 1) : CutKey(<<4>> \o p, n)
  <2>1. PICK key : key = <<4>> \o p
    OBVIOUS
  <2>2. key \in Seq(Octet) /\ Len(key) = SignatureLen + 1 /\ key[1] = 4
    BY <1>1, <2>1 DEF Octet
  <2>3. ASSUME NEW n \in 0..(Len(key) - 1) PROVE CutKey(key, n)
    <3>1. key[1] # 48 /\ (n = SignatureLen + 1 => key[1] # 4) /\ n # SignatureLen + 8
      BY <1>1, <2>2, <2>3
    <3> QED
      BY <2>2, <3>1, CutPlain
  <2> QED
    BY <2>1, <2>3
<1>12. p[1] # 48 => \A n \in 0..(Len(p) - 1) : CutKey(p, n)
  BY <1>1, CutPlain
<1>13. /\ \A key \in KeyForms(p) : NormalizePublicKeyToEccBlob(key) = BlobHeader \o p
       /\ \A key \in KeyForms(p) :
             key # p \/ p[1] # 48 => \A n \in 0..(Len(key) - 1) : CutKey(key, n)
  BY <1>3, <1>4, <1>5, <1>6, <1>8, <1>9, <1>10, <1>11, <1>12, Zenon DEF KeyForms
<1> QED
  BY <1>13 DEF SameBlob

-----------------------------------------------------------------------------
(* The two numbers of a signature.                                         *)

\* Numbers with any leading zeros, as long as one-byte lengths allow for two of them.
AnyNumber == UNION {[1..n -> Octet] : n \in 1..61}

\* They are sequences of one byte or more.
LEMMA NumberSized ==
    ASSUME NEW s \in AnyNumber PROVE s \in Seq(Octet) /\ Len(s) >= 1 /\ Len(s) <= 61
<1>1. PICK n \in 1..61 : s \in [1..n -> Octet]
  BY DEF AnyNumber
<1>2. n \in Nat /\ n >= 1 /\ n <= 61
  OBVIOUS
<1> QED
  BY <1>1, <1>2, Sized

\* Every number has a first significant byte.
LEMMA FirstSignificantExists ==
    ASSUME NEW s \in Seq(Octet), Len(s) > 0
    PROVE  /\ FirstSignificant(s) \in 1..Len(s)
           /\ \A j \in 1..(FirstSignificant(s) - 1) : s[j] = 0
           /\ s[FirstSignificant(s)] # 0 \/ FirstSignificant(s) = Len(s)
<1> DEFINE N == {i \in 1..Len(s) : s[i] # 0 \/ i = Len(s)}
<1>1. N \subseteq Nat /\ N # {}
  <2>1. Len(s) \in N
    OBVIOUS
  <2> QED
    BY <2>1
<1>2. PICK m \in N : \A k \in N : <<k, m>> \notin OpToRel(<, Nat)
  <2> HIDE DEF N
  <2> QED
    BY <1>1, WFMin, NatLessThanWellFounded, Zenon
<1>3. \A k \in N : ~(k < m)
  <2>1. \A k \in N : <<k, m>> \in Nat \X Nat
    BY <1>1
  <2> HIDE DEF N
  <2> QED
    BY <1>2, <2>1, Zenon DEF OpToRel
<1>4. \A j \in 1..(m - 1) : s[j] = 0
  <2> SUFFICES ASSUME NEW j \in 1..(m - 1), s[j] # 0 PROVE FALSE
    OBVIOUS
  <2>1. j \in N /\ j < m
    OBVIOUS
  <2> QED
    BY <1>3, <2>1
<1>5. \E i \in 1..Len(s) : (\A j \in 1..(i - 1) : s[j] = 0) /\ (s[i] # 0 \/ i = Len(s))
  BY <1>4
<1> QED
  BY <1>5 DEF FirstSignificant

\* A number fits into a component when all that a component has no room for is zero.
LEMMA FitsMeans ==
    ASSUME NEW s \in Seq(Octet), Len(s) > 0
    PROVE  Fits(s) <=> \A i \in 1..(Len(s) - ComponentLen) : s[i] = 0
<1>1. PICK f \in 1..Len(s) :
        /\ f = FirstSignificant(s)
        /\ \A j \in 1..(f - 1) : s[j] = 0
        /\ s[f] # 0 \/ f = Len(s)
  BY FirstSignificantExists
<1>2. Fits(s) <=> f > Len(s) - ComponentLen
  BY <1>1, LengthAssumption DEF Fits
<1>3. ASSUME f > Len(s) - ComponentLen PROVE \A i \in 1..(Len(s) - ComponentLen) : s[i] = 0
  BY <1>1, <1>3, LengthAssumption
<1>4. ASSUME f <= Len(s) - ComponentLen PROVE \E i \in 1..(Len(s) - ComponentLen) : s[i] # 0
  BY <1>1, <1>4, LengthAssumption
<1> QED
  BY <1>2, <1>3, <1>4, LengthAssumption

\* The same number in fixed width.
LEMMA FixedTyped ==
    ASSUME NEW s \in Seq(Octet)
    PROVE  /\ Fixed(s) \in Seq(Octet)
           /\ Len(Fixed(s)) = ComponentLen
           /\ \A i \in 1..ComponentLen : Fixed(s)[i] =
                 IF i + Len(s) > ComponentLen THEN s[i + Len(s) - ComponentLen] ELSE 0
<1>0. ComponentLen \in Nat
  BY LengthAssumption
<1>1. ASSUME NEW i \in 1..ComponentLen, i + Len(s) > ComponentLen
      PROVE  s[i + Len(s) - ComponentLen] \in Octet
  <2>1. i + Len(s) - ComponentLen \in 1..Len(s)
    BY <1>0, <1>1
  <2> QED
    BY <2>1, ElementOfSeq
<1>2. Fixed(s) = [i \in 1..ComponentLen |-> Fixed(s)[i]]
  BY DEF Fixed
<1>3. \A i \in 1..ComponentLen : Fixed(s)[i] =
         IF i + Len(s) > ComponentLen THEN s[i + Len(s) - ComponentLen] ELSE 0
  BY DEF Fixed
<1>4. ASSUME NEW i \in 1..ComponentLen PROVE Fixed(s)[i] \in Octet
  <2>1. CASE i + Len(s) > ComponentLen
    BY <1>1, <1>3, <2>1, Zenon
  <2>2. CASE ~(i + Len(s) > ComponentLen)
    <3>1. 0 \in Octet
      BY DEF Octet
    <3> QED
      BY <1>3, <2>2, <3>1, Zenon
  <2> QED
    BY <2>1, <2>2
<1>5. Fixed(s) \in [1..ComponentLen -> Octet]
  BY <1>2, <1>4
<1> QED
  BY <1>0, <1>3, <1>5, Sized

\* normalizeTo32Bytes gives the number in fixed width if it fits.
LEMMA Normalized ==
    ASSUME NEW s \in Seq(Octet), Len(s) > 0
    PROVE  normalizeTo32Bytes(s) = IF Fits(s) THEN Fixed(s) ELSE Malformed
<1>0. ComponentLen \in 2..51
  BY LengthAssumption
<1>1. CASE Len(s) <= ComponentLen
  <2>1. Fits(s)
    BY <1>0, <1>1, FitsMeans
  <2> DEFINE z == [i \in 1..(ComponentLen - Len(s)) |-> 0]
  <2>2. z \in Seq(Octet) /\ Len(z) = ComponentLen - Len(s)
    BY <1>0, <1>1 DEF Octet
  <2>3. z \o s \in Seq(Octet) /\ Len(z \o s) = ComponentLen
    BY <1>0, <1>1, <2>2
  <2>4. \A i \in 1..ComponentLen : (z \o s)[i] = Fixed(s)[i]
    <3> SUFFICES ASSUME NEW i \in 1..ComponentLen PROVE (z \o s)[i] = Fixed(s)[i]
      OBVIOUS
    <3> DEFINE k == ComponentLen - Len(s)
    <3>1. Joins(z \o s, z, s, k, ComponentLen) /\ \A l \in 1..k : z[l] = 0
      <4>1. \A l \in 1..k : z[l] = 0
        OBVIOUS
      <4> HIDE DEF z
      <4>2. k = Len(z) /\ ComponentLen = k + Len(s)
        BY <1>0, <1>1, <2>2
      <4> QED
        BY <2>2, <4>1, <4>2, JoinedBytes
    <3>2. PICK t : t = z \o s
      OBVIOUS
    <3>3. Joins(t, z, s, k, ComponentLen)
      BY <3>1, <3>2
    <3> HIDE DEF z
    <3>4. CASE i + Len(s) > ComponentLen
      <4>0. i - k \in 1..Len(s)
        BY <1>0, <1>1, <3>4
      <4>1. PICK j \in 1..Len(s) : j = i - k
        BY <4>0
      <4>2. k + j = i /\ j = i + Len(s) - ComponentLen
        BY <1>0, <1>1, <4>1
      <4>3. t[k + j] = s[j]
        BY <3>3, <4>1 DEF Joins
      <4> QED
        BY <3>2, <3>4, <4>2, <4>3, FixedTyped
    <3>5. CASE ~(i + Len(s) > ComponentLen)
      <4>1. i \in 1..k
        BY <1>0, <1>1, <3>5
      <4>2. t[i] = 0
        BY <3>1, <3>3, <4>1 DEF Joins
      <4> QED
        BY <3>2, <3>5, <4>2, FixedTyped
    <3> QED
      BY <3>4, <3>5
  <2>5. z \o s = Fixed(s)
    <3> HIDE DEF z
    <3>1. PICK t : t = z \o s
      OBVIOUS
    <3>2. t \in Seq(Octet) /\ Len(t) = Len(Fixed(s)) /\ \A i \in 1..Len(t) : t[i] = Fixed(s)[i]
      BY <2>3, <2>4, <3>1, FixedTyped
    <3> QED
      BY <3>1, <3>2, FixedTyped, SeqEqual
  <2> QED
    BY <1>1, <2>1, <2>5 DEF normalizeTo32Bytes
<1>2. CASE Len(s) > ComponentLen /\ Fits(s)
  <2>1. \A i \in 1..(Len(s) - ComponentLen) : s[i] = 0
    BY <1>2, FitsMeans
  <2> DEFINE t == SubSeq(s, Len(s) - ComponentLen + 1, Len(s))
  <2>2. t \in Seq(Octet) /\ Len(t) = ComponentLen
    BY <1>0, <1>2
  <2>3. \A i \in 1..ComponentLen : t[i] = Fixed(s)[i]
    BY <1>0, <1>2, FixedTyped
  <2>4. t = Fixed(s)
    BY <2>2, <2>3, FixedTyped, SeqEqual
  <2> QED
    BY <1>0, <1>2, <2>1, <2>4 DEF normalizeTo32Bytes, From
<1>3. CASE Len(s) > ComponentLen /\ ~Fits(s)
  <2>1. ~ \A i \in 1..(Len(s) - ComponentLen) : s[i] = 0
    BY <1>3, FitsMeans
  <2> QED
    BY <1>0, <1>3, <2>1 DEF normalizeTo32Bytes
<1> QED
  BY <1>0, <1>1, <1>2, <1>3

\* Fixed width keeps a number that fits zero or nonzero.
LEMMA FixedNonZero ==
    ASSUME NEW s \in Seq(Octet), Len(s) > 0, Fits(s)
    PROVE  NonZero(Fixed(s)) <=> NonZero(s)
<1>0. ComponentLen \in 2..51
  BY LengthAssumption
<1>1. \A i \in 1..(Len(s) - ComponentLen) : s[i] = 0
  BY FitsMeans
<1>2. ASSUME NEW i \in 1..Len(s), s[i] # 0 PROVE \E j \in 1..ComponentLen : Fixed(s)[j] # 0
  <2>1. i + ComponentLen - Len(s) \in 1..ComponentLen
    BY <1>0, <1>1, <1>2
  <2>2. PICK j \in 1..ComponentLen : j = i + ComponentLen - Len(s)
    BY <2>1
  <2>3. j + Len(s) > ComponentLen /\ j + Len(s) - ComponentLen = i
    BY <1>0, <2>2
  <2>4. Fixed(s)[j] = s[i]
    BY <2>3, FixedTyped
  <2> QED
    BY <1>2, <2>4
<1>3. ASSUME NEW j \in 1..ComponentLen, Fixed(s)[j] # 0 PROVE \E i \in 1..Len(s) : s[i] # 0
  <2>1. j + Len(s) > ComponentLen /\ s[j + Len(s) - ComponentLen] # 0
    BY <1>3, FixedTyped
  <2>2. j + Len(s) - ComponentLen \in 1..Len(s)
    BY <1>0, <2>1
  <2> QED
    BY <2>1, <2>2
<1>4. Len(Fixed(s)) = ComponentLen
  BY FixedTyped
<1> QED
  BY <1>2, <1>3, <1>4 DEF NonZero

\* The INTEGER of n bytes x lies at a position of b.
IntegerAt(b, at, n, x) ==
    b[at] = 2 /\ b[at + 1] = n /\ \A i \in 1..n : b[at + 1 + i] = x[i]

\* The lengths that parseDerInteger accepts.
LEMMA ShortInteger ==
    ASSUME NEW n \in Nat, n >= 1, n <= 127 PROVE n \in 1..127
OBVIOUS

\* parseDerInteger gives those bytes and the position behind them.
LEMMA IntegerParsed ==
    ASSUME NEW der \in Seq(Octet), NEW at \in Nat, at > 0, NEW x \in Seq(Octet),
           NEW n \in Nat, n >= 1, n <= 127, n = Len(x), IntegerAt(der, at, n, x),
           at + 1 + n <= Len(der)
    PROVE  parseDerInteger(der, at) = [data |-> x, next |-> at + 2 + n]
<1>1. PICK t : t = SubSeq(der, at + 2, at + 1 + n)
  OBVIOUS
<1>2. t \in Seq(Octet) /\ Len(t) = n /\ \A i \in 1..n : t[i] = der[at + 1 + i]
  BY <1>1
<1>3. t = x
  BY <1>2, SeqEqual DEF IntegerAt
<1>4. ~(at + 1 > Len(der)) /\ der[at] = 2 /\ der[at + 1] = n /\ ~(at + 1 + n > Len(der))
  BY DEF IntegerAt
<1>5. n \in 1..127
  BY ShortInteger
<1> QED
  BY <1>1, <1>3, <1>4, <1>5, Zenon DEF parseDerInteger

\* der is the DER signature of r and s behind a prefix of p bytes.
Encodes(der, p, r, s) ==
    /\ Len(der) = p + 4 + Len(r) + Len(s)
    /\ der[1] = 48
    /\ \/ p = 2 /\ der[2] = 4 + Len(r) + Len(s)
       \/ p = 3 /\ der[2] = 129 /\ der[3] = 4 + Len(r) + Len(s)
    /\ IntegerAt(der, p + 1, Len(r), r)
    /\ IntegerAt(der, p + 3 + Len(r), Len(s), s)

\* What derToP1363 makes of the DER signature of two numbers.
LEMMA Converted ==
    ASSUME NEW r \in AnyNumber, NEW s \in AnyNumber, NEW p \in 2..3,
           NEW der \in Seq(Octet), Encodes(der, p, r, s)
    PROVE  derToP1363(der) = IF Fits(r) /\ Fits(s) /\ Len(der) <= SignatureLen + 10
                             THEN Fixed(r) \o Fixed(s) ELSE Malformed
<1>1. /\ r \in Seq(Octet) /\ Len(r) >= 1 /\ Len(r) <= 61
      /\ s \in Seq(Octet) /\ Len(s) >= 1 /\ Len(s) <= 61
      /\ ComponentLen \in 2..51 /\ SignatureLen \in Nat
  BY NumberSized, LengthAssumption DEF SignatureLen
<1>2. PICK n \in Nat : n = 4 + Len(r) + Len(s)
  BY <1>1
<1>3. /\ n <= 126 /\ p + n = Len(der) /\ der[1] = 48
      /\ p = 2 => der[2] = n
      /\ p = 3 => der[2] = 129 /\ der[3] = n
  BY <1>1, <1>2 DEF Encodes
<1>4. PICK first : first = parseDerInteger(der, p + 1)
  OBVIOUS
<1>5. first.data = r /\ first.next = p + 3 + Len(r)
  <2>1. PICK at : at = p + 1
    OBVIOUS
  <2>2. /\ at \in Nat /\ at > 0 /\ Len(r) \in Nat /\ Len(r) >= 1 /\ Len(r) <= 127
        /\ at + 1 + Len(r) <= Len(der)
    BY <1>1, <1>2, <1>3, <2>1
  <2>3. IntegerAt(der, at, Len(r), r)
    BY <2>1 DEF Encodes
  <2>4. parseDerInteger(der, at) = [data |-> r, next |-> at + 2 + Len(r)]
    BY <1>1, <2>2, <2>3, IntegerParsed
  <2>5. first.data = r /\ first.next = at + 2 + Len(r)
    BY <1>4, <2>1, <2>4
  <2> QED
    BY <1>1, <2>1, <2>5
<1>6. PICK second : second = parseDerInteger(der, first.next)
  OBVIOUS
<1>7. second.data = s /\ second.next = Len(der) + 1
  <2>1. PICK at : at = p + 3 + Len(r)
    OBVIOUS
  <2>2. /\ at \in Nat /\ at > 0 /\ Len(s) \in Nat /\ Len(s) >= 1 /\ Len(s) <= 127
        /\ at + 1 + Len(s) <= Len(der)
    BY <1>1, <1>2, <1>3, <2>1
  <2>3. at + 2 + Len(s) = Len(der) + 1
    BY <1>1, <1>2, <1>3, <2>1
  <2>4. IntegerAt(der, at, Len(s), s)
    BY <2>1 DEF Encodes
  <2>5. parseDerInteger(der, at) = [data |-> s, next |-> at + 2 + Len(s)]
    BY <1>1, <2>2, <2>4, IntegerParsed
  <2>6. second.data = s /\ second.next = at + 2 + Len(s)
    BY <1>5, <1>6, <2>1, <2>5
  <2> QED
    BY <2>3, <2>6
<1>8. /\ Fits(r) => normalizeTo32Bytes(r) = Fixed(r)
      /\ ~Fits(r) => normalizeTo32Bytes(r) = Malformed
      /\ Fits(s) => normalizeTo32Bytes(s) = Fixed(s)
      /\ ~Fits(s) => normalizeTo32Bytes(s) = Malformed
  <2>1. Len(r) > 0 /\ Len(s) > 0
    BY <1>1
  <2> QED
    BY <1>1, <2>1, Normalized
<1>9. Fixed(r) # Malformed /\ Fixed(s) # Malformed /\ r # Malformed /\ s # Malformed
  <2>1. Len(Fixed(r)) = ComponentLen /\ Len(Fixed(s)) = ComponentLen
    BY <1>1, FixedTyped
  <2>2. Len(Malformed) = 0
    BY DEF Malformed
  <2> QED
    BY <1>1, <2>1, <2>2
<1>10. Len(der) \in 8..(SignatureLen + 10) <=> Len(der) <= SignatureLen + 10
  <2>1. Len(der) \in Nat /\ Len(der) >= 8
    BY <1>1, <1>2, <1>3
  <2> QED
    BY <1>1, <2>1
<1>11. derToP1363(der) =
         IF \/ Len(der) \notin 8..(SignatureLen + 10)
            \/ normalizeTo32Bytes(r) = Malformed
            \/ normalizeTo32Bytes(s) = Malformed
         THEN Malformed ELSE normalizeTo32Bytes(r) \o normalizeTo32Bytes(s)
  <2>1. derToP1363(der) =
          IF \/ Len(der) \notin 8..(SignatureLen + 10) \/ der[1] # 48 \/ p + n # Len(der)
             \/ first.data = Malformed \/ second.data = Malformed
             \/ second.next # Len(der) + 1
             \/ normalizeTo32Bytes(first.data) = Malformed
             \/ normalizeTo32Bytes(second.data) = Malformed
          THEN Malformed
          ELSE normalizeTo32Bytes(first.data) \o normalizeTo32Bytes(second.data)
    <3>1. CASE p = 2
      BY <1>3, <1>4, <1>6, <3>1, SMT DEF derToP1363
    <3>2. CASE p = 3
      BY <1>3, <1>4, <1>6, <3>2, SMT DEF derToP1363
    <3>3. p = 2 \/ p = 3
      OBVIOUS
    <3> QED
      BY <3>1, <3>2, <3>3, Zenon
  <2> QED
    BY <1>3, <1>5, <1>7, <1>9, <2>1, Zenon
<1>12. CASE Fits(r) /\ Fits(s) /\ Len(der) <= SignatureLen + 10
  BY <1>8, <1>9, <1>10, <1>11, <1>12, Zenon
<1>13. CASE ~(Fits(r) /\ Fits(s) /\ Len(der) <= SignatureLen + 10)
  BY <1>8, <1>10, <1>11, <1>13, Zenon
<1> QED
  BY <1>12, <1>13, Zenon

\* A prefix of one length and a rest of another are refused.
LEMMA WrongLength ==
    ASSUME NEW der \in Seq(Octet),
           Len(der) < 8 \/ (~(der[2] >= 128) /\ 2 + der[2] # Len(der))
    PROVE  derToP1363(der) = Malformed
<1>1. CASE Len(der) < 8
  BY <1>1 DEF derToP1363
<1>2. CASE ~(der[2] >= 128) /\ 2 + der[2] # Len(der)
  <2>1. 3 - 1 + der[2] # Len(der)
    BY <1>2
  <2> QED
    BY <1>2, <2>1 DEF derToP1363
<1> QED
  BY <1>1, <1>2

\* An INTEGER stays one behind a prefix.
LEMMA IntegerMoved ==
    ASSUME NEW b, NEW a, NEW c, NEW k \in Nat, NEW n \in Nat, Joins(b, a, c, k, n),
           NEW at \in Nat, at > 0, NEW x, NEW m \in Nat,
           IntegerAt(c, at, m, x), at + 1 + m <= Len(c), Len(c) \in Nat
    PROVE  IntegerAt(b, k + at, m, x)
<1>1. b[k + at] = c[at] /\ b[k + (at + 1)] = c[at + 1]
  BY DEF Joins
<1>2. ASSUME NEW i \in 1..m PROVE b[k + (at + 1 + i)] = c[at + 1 + i]
  BY DEF Joins
<1>3. k + (at + 1) = k + at + 1 /\ \A i \in 1..m : k + (at + 1 + i) = k + at + 1 + i
  OBVIOUS
<1> QED
  BY <1>1, <1>2, <1>3 DEF IntegerAt

\* And before more bytes.
LEMMA IntegerKept ==
    ASSUME NEW b, NEW a, NEW c, NEW k \in Nat, NEW n \in Nat, Joins(b, a, c, k, n),
           NEW at \in Nat, at > 0, NEW x, NEW m \in Nat,
           IntegerAt(a, at, m, x), at + 1 + m <= k
    PROVE  IntegerAt(b, at, m, x)
<1>1. b[at] = a[at] /\ b[at + 1] = a[at + 1]
  BY DEF Joins
<1>2. ASSUME NEW i \in 1..m PROVE b[at + 1 + i] = a[at + 1 + i]
  BY DEF Joins
<1> QED
  BY <1>1, <1>2 DEF IntegerAt

\* The lengths of a number.
LEMMA ShortNumber ==
    ASSUME NEW n \in Nat, n >= 1, n <= 61 PROVE n \in 1..61
OBVIOUS

\* What fits into a byte.
LEMMA SmallOctet ==
    ASSUME NEW n \in Nat, n <= 255 PROVE n \in Octet
BY DEF Octet

\* Concatenation is associative, and lengths add up.
LEMMA Associative ==
    ASSUME NEW s \in Seq(Octet), NEW t \in Seq(Octet), NEW u \in Seq(Octet)
    PROVE  (s \o t) \o u = s \o (t \o u) /\ Len((s \o t) \o u) = Len(s) + Len(t) + Len(u)
<1>1. (s \o t) \o u = s \o (t \o u)
  BY ConcatAssociative
<1>2. Len((s \o t) \o u) = Len(s) + Len(t) + Len(u)
  OBVIOUS
<1> QED
  BY <1>1, <1>2, Zenon

\* The tag and the length of an INTEGER are two bytes.
LEMMA TagTyped ==
    ASSUME NEW x \in Seq(Octet), Len(x) <= 61
    PROVE  /\ <<2, Len(x)>> \in Seq(Octet) /\ Len(<<2, Len(x)>>) = 2
           /\ <<2, Len(x)>>[1] = 2 /\ <<2, Len(x)>>[2] = Len(x)
<1>1. PICK n \in Nat : n = Len(x)
  OBVIOUS
<1>2. n <= 255 /\ 2 \in Nat /\ 2 <= 255
  BY <1>1
<1>3. n \in Octet /\ 2 \in Octet
  BY <1>2, SmallOctet, Zenon
<1>4. <<2, n>> \in Seq(Octet) /\ Len(<<2, n>>) = 2 /\ <<2, n>>[1] = 2 /\ <<2, n>>[2] = n
  BY <1>3
<1> QED
  BY <1>1, <1>4, Zenon

\* An INTEGER is its tag, its length and its bytes.
LEMMA IntegerWritten ==
    ASSUME NEW x \in AnyNumber, NEW b, b = <<2, Len(x)>> \o x
    PROVE  b \in Seq(Octet) /\ Len(b) = 2 + Len(x) /\ IntegerAt(b, 1, Len(x), x)
<1>1. x \in Seq(Octet) /\ Len(x) >= 1 /\ Len(x) <= 61
  BY NumberSized
<1>2. PICK tag : tag = <<2, Len(x)>>
  OBVIOUS
<1>3. tag \in Seq(Octet) /\ 2 = Len(tag) /\ tag[1] = 2 /\ tag[2] = Len(x)
  BY <1>1, <1>2, TagTyped
<1>4. Joins(b, tag, x, 2, 2 + Len(x))
  BY <1>1, <1>2, <1>3, JoinedBytes
<1>5. b[1] = 2 /\ b[2] = Len(x) /\ \A i \in 1..Len(x) : b[2 + i] = x[i]
  BY <1>3, <1>4 DEF Joins
<1>6. 1 + 1 = 2
  OBVIOUS
<1> QED
  BY <1>4, <1>5, <1>6 DEF Joins, IntegerAt

\* DerSignature encodes its two numbers.
LEMMA SignatureEncoded ==
    ASSUME NEW r \in AnyNumber, NEW s \in AnyNumber, NEW long \in BOOLEAN,
           NEW der, der = DerSignature(r, s, long)
    PROVE  der \in Seq(Octet) /\ \E p \in 2..3 : Encodes(der, p, r, s) /\ (~long => p = 2)
<1>1. /\ r \in Seq(Octet) /\ Len(r) >= 1 /\ Len(r) <= 61
      /\ s \in Seq(Octet) /\ Len(s) >= 1 /\ Len(s) <= 61
  BY NumberSized
<1>2. PICK x, y : x = <<2, Len(r)>> \o r /\ y = <<2, Len(s)>> \o s
  OBVIOUS
<1>3. /\ x \in Seq(Octet) /\ Len(x) = 2 + Len(r) /\ IntegerAt(x, 1, Len(r), r)
      /\ y \in Seq(Octet) /\ Len(y) = 2 + Len(s) /\ IntegerAt(y, 1, Len(s), s)
  BY <1>2, IntegerWritten
<1>4. PICK body : body = x \o y
  OBVIOUS
<1>5. PICK n \in Nat : n = 4 + Len(r) + Len(s)
  BY <1>1
<1>6. Joins(body, x, y, 2 + Len(r), n)
  <2>1. 2 + Len(r) = Len(x) /\ n = 2 + Len(r) + Len(y)
    BY <1>1, <1>3, <1>5
  <2> QED
    BY <1>3, <1>4, <2>1, JoinedBytes
<1>7. body \in Seq(Octet) /\ Len(body) = n
  BY <1>6 DEF Joins
<1>8. IntegerAt(body, 1, Len(r), r) /\ IntegerAt(body, 3 + Len(r), Len(s), s)
  <2>1. /\ 2 + Len(r) \in Nat /\ Len(r) \in Nat /\ Len(s) \in Nat /\ Len(y) \in Nat
        /\ 1 \in Nat /\ 1 > 0 /\ 1 + 1 + Len(r) <= 2 + Len(r) /\ 1 + 1 + Len(s) <= Len(y)
        /\ 2 + Len(r) + 1 = 3 + Len(r)
    BY <1>1, <1>3
  <2>2. IntegerAt(body, 1, Len(r), r)
    BY <1>3, <1>6, <2>1, IntegerKept
  <2>3. IntegerAt(body, 2 + Len(r) + 1, Len(s), s)
    BY <1>3, <1>6, <2>1, IntegerMoved
  <2> QED
    BY <2>1, <2>2, <2>3
<1>9. PICK head : head = <<48>> \o (IF long THEN <<129, n>> ELSE <<n>>)
  OBVIOUS
<1>10. PICK p \in 2..3 : p = IF long THEN 3 ELSE 2
  OBVIOUS
<1>11. /\ head \in Seq(Octet) /\ p = Len(head) /\ head[1] = 48
       /\ p = 2 => head[2] = n
       /\ p = 3 => head[2] = 129 /\ head[3] = n
  <2>1. n <= 126
    BY <1>1, <1>5
  <2>2. CASE long
    BY <1>9, <1>10, <2>1, <2>2 DEF Octet
  <2>3. CASE ~long
    BY <1>9, <1>10, <2>1, <2>3 DEF Octet
  <2> QED
    BY <2>2, <2>3
<1>12. der = head \o body
  <2>1. body = <<2, Len(r)>> \o r \o <<2, Len(s)>> \o s
    <3>1. PICK tag : tag = <<2, Len(s)>>
      OBVIOUS
    <3>2. x \in Seq(Octet) /\ tag \in Seq(Octet) /\ s \in Seq(Octet)
      BY <1>1, <1>3, <3>1, TagTyped
    <3>3. (x \o tag) \o s = x \o (tag \o s)
      BY <3>2, Associative, ZenonT(60)
    <3> QED
      BY <1>2, <1>4, <3>1, <3>3, Zenon
  <2> QED
    BY <1>7, <1>9, <2>1, Zenon DEF DerSignature
<1>13. Joins(der, head, body, p, p + n)
  <2>1. head \in Seq(Octet) /\ p = Len(head) /\ p + n = p + Len(body)
    BY <1>7, <1>11
  <2> QED
    BY <1>7, <1>12, <2>1, JoinedBytes, Zenon
<1>14. der \in Seq(Octet) /\ Len(der) = p + n /\ der[1] = head[1] /\ der[2] = head[2]
       /\ (p = 3 => der[3] = head[3])
  BY <1>13 DEF Joins
<1>15. IntegerAt(der, p + 1, Len(r), r) /\ IntegerAt(der, p + (3 + Len(r)), Len(s), s)
  <2>1. /\ Len(r) \in Nat /\ Len(s) \in Nat /\ Len(body) \in Nat /\ p \in Nat /\ p + n \in Nat
        /\ 1 \in Nat /\ 1 > 0 /\ 3 + Len(r) \in Nat /\ 3 + Len(r) > 0
        /\ 1 + 1 + Len(r) <= Len(body) /\ 3 + Len(r) + 1 + Len(s) <= Len(body)
    BY <1>1, <1>5, <1>7
  <2>2. IntegerAt(der, p + 1, Len(r), r)
    BY <1>8, <1>13, <2>1, IntegerMoved
  <2>3. IntegerAt(der, p + (3 + Len(r)), Len(s), s)
    BY <1>8, <1>13, <2>1, IntegerMoved
  <2> QED
    BY <2>2, <2>3
<1>16. Encodes(der, p, r, s)
  <2>1. p + (3 + Len(r)) = p + 3 + Len(r) /\ p + n = p + 4 + Len(r) + Len(s)
    BY <1>1, <1>5
  <2>2. p = 2 \/ p = 3
    OBVIOUS
  <2> QED
    BY <1>5, <1>11, <1>14, <1>15, <2>1, <2>2 DEF Encodes
<1> QED
  BY <1>10, <1>14, <1>16

\* The numbers of every DER signature are kept.
THEOREM ToFixedWidth ==
    \A r, s \in AnyNumber, long \in BOOLEAN : NumbersKept(r, s, DerSignature(r, s, long))
<1> SUFFICES ASSUME NEW r \in AnyNumber, NEW s \in AnyNumber, NEW long \in BOOLEAN
             PROVE  NumbersKept(r, s, DerSignature(r, s, long))
  OBVIOUS
<1>1. PICK der : der = DerSignature(r, s, long)
  OBVIOUS
<1>2. PICK p \in 2..3 : der \in Seq(Octet) /\ Encodes(der, p, r, s)
  BY <1>1, SignatureEncoded
<1>3. PICK sig : sig = derToP1363(der)
  OBVIOUS
<1>4. sig = IF Fits(r) /\ Fits(s) /\ Len(der) <= SignatureLen + 10
            THEN Fixed(r) \o Fixed(s) ELSE Malformed
  BY <1>2, <1>3, Converted
<1>5. ASSUME sig # Malformed
      PROVE  ValidateAndAdaptSignature(sig) = sig <=> NonZero(r) /\ NonZero(s)
  <2>1. Fits(r) /\ Fits(s) /\ sig = Fixed(r) \o Fixed(s)
    BY <1>4, <1>5, Zenon
  <2>2. /\ r \in Seq(Octet) /\ Len(r) > 0 /\ s \in Seq(Octet) /\ Len(s) > 0
    BY NumberSized
  <2>3. PICK a, b : a = Fixed(r) /\ b = Fixed(s)
    OBVIOUS
  <2>4. /\ a \in Seq(Octet) /\ Len(a) = ComponentLen /\ b \in Seq(Octet)
        /\ Len(b) = ComponentLen /\ ComponentLen \in 2..51
    BY <2>2, <2>3, FixedTyped, LengthAssumption
  <2>5. (NonZero(a) <=> NonZero(r)) /\ (NonZero(b) <=> NonZero(s))
    BY <2>1, <2>2, <2>3, FixedNonZero
  <2>6. /\ Len(sig) = SignatureLen /\ SubSeq(sig, 1, ComponentLen) = a
        /\ From(sig, ComponentLen + 1) = b
    BY <2>1, <2>3, <2>4 DEF SignatureLen, From
  <2> QED
    BY <1>5, <2>5, <2>6, Zenon DEF ValidateAndAdaptSignature
<1> QED
  BY <1>1, <1>3, <1>4, <1>5 DEF NumbersKept

\* A sequence of so many bytes is a number.
LEMMA IsNumber ==
    ASSUME NEW x \in Seq(Octet), Len(x) >= 1, Len(x) <= 61 PROVE x \in AnyNumber
<1>1. PICK n \in Nat : n = Len(x)
  OBVIOUS
<1>2. n >= 1 /\ n <= 61
  BY <1>1
<1>3. n \in 1..61
  BY <1>2, ShortNumber
<1>4. x \in [1..n -> Octet]
  BY <1>1
<1> QED
  BY <1>3, <1>4 DEF AnyNumber

\* The n bytes of a number x, put to the right, are those of a component.
RightAligned(x, n, c) ==
    /\ \A i \in 1..ComponentLen : i + n > ComponentLen => x[i + n - ComponentLen] = c[i]
    /\ \A i \in 1..ComponentLen : ~(i + n > ComponentLen) => c[i] = 0

\* Then the component is the number in fixed width.
LEMMA SameNumber ==
    ASSUME NEW c \in Seq(Octet), Len(c) = ComponentLen, NEW x \in Seq(Octet),
           NEW n \in Nat, Len(x) = n, RightAligned(x, n, c)
    PROVE  Fixed(x) = c
<1>1. \A i \in 1..ComponentLen : Fixed(x)[i] =
        IF i + n > ComponentLen THEN x[i + n - ComponentLen] ELSE 0
  BY FixedTyped
<1>2. \A i \in 1..ComponentLen : Fixed(x)[i] = c[i]
  BY <1>1, Zenon DEF RightAligned
<1>3. Fixed(x) \in Seq(Octet) /\ Len(Fixed(x)) = ComponentLen
  BY FixedTyped
<1> QED
  BY <1>2, <1>3, SeqEqual

\* encodeIntegerToDer writes a number that means the component.
LEMMA ComponentEncoded ==
    ASSUME NEW c \in Seq(Octet), Len(c) = ComponentLen
    PROVE  \E x \in AnyNumber :
             /\ encodeIntegerToDer(c) = <<2, Len(x)>> \o x
             /\ Len(x) <= ComponentLen + 1
             /\ Fits(x)
             /\ Fixed(x) = c
<1>1. ComponentLen \in 2..51
  BY LengthAssumption
<1>2. PICK f \in 1..ComponentLen :
        f = FirstSignificant(c) /\ \A j \in 1..(f - 1) : c[j] = 0
  BY <1>1, FirstSignificantExists
<1>3. PICK t : t = SubSeq(c, f, ComponentLen)
  OBVIOUS
<1>4. PICK n \in Nat : n = ComponentLen - f + 1 /\ n >= 1 /\ n <= ComponentLen
  BY <1>1
<1>5. t \in Seq(Octet) /\ Len(t) = n /\ \A i \in 1..n : t[i] = c[f - 1 + i]
  BY <1>1, <1>3, <1>4
<1>6. encodeIntegerToDer(c) = IF t[1] >= 128 THEN <<2, n + 1, 0>> \o t ELSE <<2, n>> \o t
  BY <1>2, <1>3, <1>5 DEF encodeIntegerToDer, From
<1>7. CASE ~(t[1] >= 128)
  <2>1. t \in AnyNumber
    BY <1>1, <1>4, <1>5, IsNumber
  <2>2. encodeIntegerToDer(c) = <<2, Len(t)>> \o t
    BY <1>5, <1>6, <1>7, Zenon
  <2>3. ASSUME NEW i \in 1..ComponentLen, i + n > ComponentLen
        PROVE  t[i + n - ComponentLen] = c[i]
    <3>1. i + n - ComponentLen \in 1..n /\ f - 1 + (i + n - ComponentLen) = i
      BY <1>1, <1>4, <2>3
    <3> QED
      BY <1>5, <3>1
  <2>4. ASSUME NEW i \in 1..ComponentLen, ~(i + n > ComponentLen) PROVE c[i] = 0
    <3>1. i \in 1..(f - 1)
      BY <1>1, <1>4, <2>4
    <3> QED
      BY <1>2, <3>1
  <2>5. Fixed(t) = c
    <3>1. RightAligned(t, n, c)
      BY <2>3, <2>4, Zenon DEF RightAligned
    <3> QED
      BY <1>5, <3>1, SameNumber
  <2>6. Fits(t)
    <3>1. Len(t) > 0 /\ \A i \in 1..(Len(t) - ComponentLen) : t[i] = 0
      BY <1>1, <1>4, <1>5
    <3> QED
      BY <1>5, <3>1, FitsMeans
  <2>7. Len(t) <= ComponentLen + 1
    BY <1>1, <1>4, <1>5
  <2> QED
    BY <2>1, <2>2, <2>5, <2>6, <2>7
<1>8. CASE t[1] >= 128
  <2>1. PICK x : x = <<0>> \o t
    OBVIOUS
  <2>2. Joins(x, <<0>>, t, 1, n + 1)
    <3>1. <<0>> \in Seq(Octet) /\ 1 = Len(<<0>>) /\ n + 1 = 1 + Len(t)
      BY <1>5 DEF Octet
    <3> QED
      BY <1>5, <2>1, <3>1, JoinedBytes
  <2>3. x \in Seq(Octet) /\ Len(x) = n + 1 /\ x[1] = 0 /\ \A i \in 1..n : x[1 + i] = t[i]
    BY <1>5, <2>2 DEF Joins
  <2>4. x \in AnyNumber
    BY <1>1, <1>4, <2>3, IsNumber
  <2>5. encodeIntegerToDer(c) = <<2, Len(x)>> \o x
    <3>1. <<2, Len(x)>> \in Seq(Octet)
      BY <1>1, <1>4, <2>3, TagTyped
    <3>2. <<2, n + 1, 0>> = <<2, Len(x)>> \o <<0>> /\ <<0>> \in Seq(Octet)
      BY <2>3 DEF Octet
    <3>3. (<<2, Len(x)>> \o <<0>>) \o t = <<2, Len(x)>> \o (<<0>> \o t)
      BY <1>5, <3>1, <3>2, Associative, ZenonT(60)
    <3> QED
      BY <1>6, <1>8, <2>1, <3>2, <3>3, Zenon
  <2>6. ASSUME NEW i \in 1..ComponentLen, i + (n + 1) > ComponentLen
        PROVE  x[i + (n + 1) - ComponentLen] = c[i]
    <3>1. CASE i = f - 1
      <4>1. i + (n + 1) - ComponentLen = 1 /\ i \in 1..(f - 1)
        BY <1>1, <1>4, <3>1
      <4> QED
        BY <1>2, <2>3, <4>1
    <3>2. CASE i # f - 1
      <4>1. PICK j \in 1..n : j = i - f + 1
        BY <1>1, <1>4, <2>6, <3>2
      <4>2. i + (n + 1) - ComponentLen = 1 + j /\ f - 1 + j = i
        BY <1>1, <1>4, <4>1
      <4>3. x[1 + j] = t[j] /\ t[j] = c[f - 1 + j]
        BY <1>5, <2>3
      <4> QED
        BY <4>2, <4>3
    <3> QED
      BY <3>1, <3>2
  <2>7. ASSUME NEW i \in 1..ComponentLen, ~(i + (n + 1) > ComponentLen) PROVE c[i] = 0
    <3>1. i \in 1..(f - 1)
      BY <1>1, <1>4, <2>7
    <3> QED
      BY <1>2, <3>1
  <2>8. Fixed(x) = c
    <3>1. PICK m \in Nat : m = n + 1
      OBVIOUS
    <3>2. Len(x) = m /\ RightAligned(x, m, c)
      BY <2>3, <2>6, <2>7, <3>1, Zenon DEF RightAligned
    <3> QED
      BY <2>3, <3>2, SameNumber
  <2>9. Fits(x)
    <3>1. Len(x) > 0 /\ \A i \in 1..(Len(x) - ComponentLen) : x[i] = 0
      BY <1>1, <1>4, <2>3
    <3> QED
      BY <2>3, <3>1, FitsMeans
  <2>10. Len(x) <= ComponentLen + 1
    BY <1>1, <1>4, <2>3
  <2> QED
    BY <2>4, <2>5, <2>8, <2>9, <2>10
<1> QED
  BY <1>7, <1>8

\* Every signature in fixed width comes back from DER, and only from all of it.
THEOREM ThereAndBack == \A p \in AnyPoint : RoundTrips(p)
<1> SUFFICES ASSUME NEW p \in AnyPoint PROVE RoundTrips(p)
  OBVIOUS
<1>1. /\ p \in Seq(Octet) /\ Len(p) = SignatureLen /\ SignatureLen \in 4..102
      /\ ComponentLen \in 2..51 /\ SignatureLen = ComponentLen + ComponentLen
  BY Sized, SignatureLenTyped, LengthAssumption DEF AnyPoint, SignatureLen
<1>2. PICK c, e : c = SubSeq(p, 1, ComponentLen) /\ e = From(p, ComponentLen + 1)
  OBVIOUS
<1>3. /\ c \in Seq(Octet) /\ Len(c) = ComponentLen /\ e \in Seq(Octet)
      /\ Len(e) = ComponentLen /\ c \o e = p
  BY <1>1, <1>2 DEF From
<1>4. PICK x \in AnyNumber :
        /\ encodeIntegerToDer(c) = <<2, Len(x)>> \o x
        /\ Len(x) <= ComponentLen + 1 /\ Fits(x) /\ Fixed(x) = c
  BY <1>3, ComponentEncoded
<1>5. PICK y \in AnyNumber :
        /\ encodeIntegerToDer(e) = <<2, Len(y)>> \o y
        /\ Len(y) <= ComponentLen + 1 /\ Fits(y) /\ Fixed(y) = e
  BY <1>3, ComponentEncoded
<1>6. /\ x \in Seq(Octet) /\ Len(x) >= 1 /\ Len(x) <= 61
      /\ y \in Seq(Octet) /\ Len(y) >= 1 /\ Len(y) <= 61
  BY NumberSized
<1>7. PICK der : der = p1363ToDer(p)
  OBVIOUS
<1>8. der = DerSignature(x, y, FALSE)
  <2>1. PICK a, tag : a = <<2, Len(x)>> \o x /\ tag = <<2, Len(y)>>
    OBVIOUS
  <2>2. a \in Seq(Octet) /\ Len(a) = 2 + Len(x) /\ tag \in Seq(Octet) /\ Len(tag) = 2
    BY <1>6, <2>1, IntegerWritten, TagTyped
  <2>3. PICK body : body = (a \o tag) \o y
    OBVIOUS
  <2>4. body = a \o (tag \o y) /\ Len(body) = Len(a) + Len(tag) + Len(y)
    <3>1. a \in Seq(Octet) /\ tag \in Seq(Octet) /\ y \in Seq(Octet)
      BY <1>6, <2>2
    <3> QED
      BY <2>3, <3>1, Associative, ZenonT(60)
  <2>5. Len(body) < 128
    BY <1>1, <1>4, <1>5, <1>6, <2>2, <2>4
  <2>6. p1363ToDer(p) = <<48>> \o <<Len(body)>> \o body
    BY <1>1, <1>2, <1>4, <1>5, <2>1, <2>4, <2>5 DEF p1363ToDer
  <2>7. DerSignature(x, y, FALSE) = <<48>> \o <<Len(body)>> \o body
    BY <2>1, <2>3 DEF DerSignature
  <2> QED
    BY <1>7, <2>6, <2>7, Zenon
<1>9. der \in Seq(Octet) /\ Encodes(der, 2, x, y)
  BY <1>8, SignatureEncoded
<1>10. PICK n \in Nat : n = 4 + Len(x) + Len(y) /\ n < 128 /\ n <= SignatureLen + 6
  BY <1>1, <1>4, <1>5, <1>6
<1>11. der[2] = n /\ Len(der) = 2 + n
  BY <1>6, <1>9, <1>10 DEF Encodes
<1>12. derToP1363(der) = p
  <2>1. 2 \in 2..3 /\ Len(der) <= SignatureLen + 10
    BY <1>1, <1>10, <1>11
  <2>2. derToP1363(der) = Fixed(x) \o Fixed(y)
    BY <1>4, <1>5, <1>9, <2>1, Converted
  <2> QED
    BY <1>3, <1>4, <1>5, <2>2, Zenon
<1>13. ASSUME NEW k \in 0..(Len(der) - 1) PROVE derToP1363(SubSeq(der, 1, k)) = Malformed
  <2>1. PICK cut : cut = SubSeq(der, 1, k)
    OBVIOUS
  <2>2. cut \in Seq(Octet) /\ Len(cut) = k /\ (k >= 2 => cut[2] = der[2])
    BY <1>9, <1>10, <1>11, <2>1
  <2>3. Len(cut) < 8 \/ (~(cut[2] >= 128) /\ 2 + cut[2] # Len(cut))
    BY <1>10, <1>11, <2>2
  <2> QED
    BY <2>1, <2>2, <2>3, WrongLength
<1>14. ASSUME NEW b \in SampleByte PROVE derToP1363(Append(der, b)) = Malformed
  <2>1. b \in Octet
    BY SampleAssumption DEF Octet
  <2>2. PICK more : more = Append(der, b)
    OBVIOUS
  <2>3. more \in Seq(Octet) /\ Len(more) = Len(der) + 1 /\ more[2] = der[2]
    BY <1>9, <1>10, <1>11, <2>1, <2>2
  <2>4. ~(more[2] >= 128) /\ 2 + more[2] # Len(more)
    BY <1>10, <1>11, <2>3
  <2> QED
    BY <2>2, <2>3, <2>4, WrongLength
<1> QED
  BY <1>7, <1>12, <1>13, <1>14 DEF RoundTrips

-----------------------------------------------------------------------------
(* The run's properties, for every set of sample bytes.                    *)

\* The samples are values of the formats.
LEMMA SamplesTyped ==
    /\ Number \subseteq AnyNumber
    /\ Point \subseteq AnyPoint
    /\ FrameHeader \subseteq AnyHeader
    /\ SignedMessage \subseteq AnyMessage
<1>1. SampleByte \subseteq Octet /\ Pattern \subseteq Octet
  BY SampleAssumption DEF Octet
<1>2. ASSUME NEW x \in Number PROVE x \in AnyNumber
  <2>1. PICK n \in 1..(ComponentLen + 2) : x \in [1..n -> SampleByte]
    BY DEF Number, Bytes
  <2>2. n \in 1..61
    BY LengthAssumption
  <2>3. x \in [1..n -> Octet]
    BY <1>1, <2>1
  <2> QED
    BY <2>2, <2>3 DEF AnyNumber
<1>3. ASSUME NEW x \in Point PROVE x \in AnyPoint
  <2>1. x \in [1..SignatureLen -> SampleByte]
    BY DEF Point, Bytes
  <2> QED
    BY <1>1, <2>1 DEF AnyPoint
<1>4. ASSUME NEW n \in Nat, NEW f \in Field(n) PROVE f \in [1..n -> Octet]
  <2>1. PICK a \in Pattern, b \in Pattern :
          f = [i \in 1..n |-> IF i = n THEN b ELSE IF i = 1 THEN a ELSE 7]
    BY DEF Field
  <2>2. a \in Octet /\ b \in Octet /\ 7 \in Octet
    BY <1>1, SampleAssumption DEF Octet
  <2> QED
    BY <2>1, <2>2
<1>5. ASSUME NEW a \in Octet, NEW b \in Octet PROVE <<a, b>> \in [1..2 -> Octet]
  OBVIOUS
<1>6. ASSUME NEW h \in FrameHeader PROVE h \in AnyHeader
  <2>1. {4, 8} \subseteq Nat
    OBVIOUS
  <2>2. h.id \in [1..4 -> Octet] /\ h.seq \in [1..8 -> Octet]
    BY <1>4, <2>1 DEF FrameHeader
  <2>3. h.type \in [1..2 -> Octet]
    <3>1. h.type \in MessageType \cup {<<0, 0>>}
      BY DEF FrameHeader
    <3>2. {0, 1, 2, 16, 17, 18, 19, 32, 33, 34, 35, 36, 48, 49, 64, 65, 80, 81, 224, 225, 255}
            \subseteq Octet
      BY DEF Octet
    <3>3. PICK b \in Octet : h.type = <<0, b>>
      BY <3>1, <3>2 DEF MessageType
    <3> QED
      BY <1>5, <3>2, <3>3
  <2>4. h.length \in [1..4 -> Octet]
    <3>1. h.length \in {<<0, 0, 0, 0>>, <<0, 0, 16, 0>>, <<0, 0, 16, 1>>, <<0, 1, 0, 0>>}
      BY DEF FrameHeader
    <3>2. {0, 1, 16} \subseteq Octet
      BY DEF Octet
    <3>3. ASSUME NEW a \in Octet, NEW b \in Octet, NEW c \in Octet
          PROVE  <<0, a, b, c>> \in [1..4 -> Octet]
      BY <3>2
    <3> QED
      BY <3>1, <3>2, <3>3
  <2>5. h = [type |-> h.type, id |-> h.id, length |-> h.length, seq |-> h.seq]
    BY DEF FrameHeader
  <2> QED
    BY <2>2, <2>3, <2>4, <2>5 DEF AnyHeader
<1>7. ASSUME NEW m \in SignedMessage PROVE m \in AnyMessage
  <2>1. {4, 8, 16, 32} \subseteq Nat
    OBVIOUS
  <2>2. /\ m.server \in [1..16 -> Octet] /\ m.device \in [1..16 -> Octet]
        /\ m.request \in [1..4 -> Octet] /\ m.session \in [1..8 -> Octet]
        /\ m.nonce \in [1..32 -> Octet] /\ m.timestamp \in [1..8 -> Octet]
    BY <1>4, <2>1 DEF SignedMessage
  <2>3. m.version \in [1..2 -> Octet] /\ m.operation \in [1..2 -> Octet]
    <3>1. /\ m.version \in {<<1, 0>>, <<0, 1>>}
          /\ m.operation \in {<<0, 34>>, <<0, 0>>, <<34, 0>>}
      BY DEF SignedMessage
    <3>2. {0, 1, 34} \subseteq Octet
      BY DEF Octet
    <3> QED
      BY <1>5, <3>1, <3>2
  <2>4. m = [version |-> m.version, server |-> m.server, device |-> m.device,
             operation |-> m.operation, request |-> m.request, session |-> m.session,
             nonce |-> m.nonce, timestamp |-> m.timestamp]
    BY DEF SignedMessage
  <2> QED
    BY <2>2, <2>3, <2>4 DEF AnyMessage
<1> QED
  BY <1>2, <1>3, <1>6, <1>7

\* What a behaviour may have picked.
Sampled ==
    \/ sample = Nothing
    \/ \E r, s \in AnyNumber, long \in BOOLEAN :
          sample = [kind |-> "DER", r |-> r, s |-> s, der |-> DerSignature(r, s, long)]
    \/ \E p \in AnyPoint : sample = [kind |-> "POINT", bytes |-> p]
    \/ \E h \in AnyHeader : sample = [kind |-> "HEADER", header |-> h]
    \/ \E m \in AnyMessage : sample = [kind |-> "MESSAGE", message |-> m]

\* It is nothing or a value of a format.
LEMMA SampledAlways == FormatSpec => []Sampled
<1>1. sample = Nothing => Sampled
  BY DEF Sampled
<1>2. Sampled /\ [Pick]_sample => Sampled'
  <2> SUFFICES ASSUME Sampled, [Pick]_sample PROVE Sampled'
    OBVIOUS
  <2>1. CASE Pick
    BY <2>1, SamplesTyped, Zenon DEF Pick, Sampled
  <2>2. CASE UNCHANGED sample
    BY <2>2, Zenon DEF Sampled
  <2> QED
    BY <2>1, <2>2
<1> QED
  BY <1>1, <1>2, PTL DEF FormatSpec

\* A header that either side sends is read by the other as it was meant exactly when its
\* sequence number is below 2^63, and refused by both for the same lengths.
THEOREM HeadersAlwaysAgree == FormatSpec => []HeadersAgree
<1>1. Sampled => HeadersAgree
  <2> SUFFICES ASSUME Sampled, sample.kind = "HEADER" PROVE SameHeader(sample.header)
    BY DEF HeadersAgree
  <2>1. PICK h \in AnyHeader : sample = [kind |-> "HEADER", header |-> h]
    BY DEF Sampled, Nothing
  <2> QED
    BY <2>1, HeaderMeansTheSame
<1> QED
  BY <1>1, SampledAlways, PTL

\* The bytes the phone signs are the bytes the PC verifies, whatever the message.
THEOREM SignedBytesAlwaysAgree == FormatSpec => []SignedBytesAgree
<1>1. Sampled => SignedBytesAgree
  <2> SUFFICES ASSUME Sampled, sample.kind = "MESSAGE" PROVE SameMessage(sample.message)
    BY DEF SignedBytesAgree
  <2>1. PICK m \in AnyMessage : sample = [kind |-> "MESSAGE", message |-> m]
    BY DEF Sampled, Nothing
  <2> QED
    BY <2>1, MessageMeansTheSame
<1> QED
  BY <1>1, SampledAlways, PTL

\* Every form in which a phone may register a key gives the same blob, and a cut one
\* none unless it is as long as bare coordinates.
THEOREM KeyFormsAlwaysAgree == FormatSpec => []KeyFormsAgree
<1>1. Sampled => KeyFormsAgree
  <2> SUFFICES ASSUME Sampled, sample.kind = "POINT" PROVE SameBlob(sample.bytes)
    BY DEF KeyFormsAgree
  <2>1. PICK p \in AnyPoint : sample = [kind |-> "POINT", bytes |-> p]
    BY DEF Sampled, Nothing
  <2> QED
    BY <2>1, KeyMeansTheSame
<1> QED
  BY <1>1, SampledAlways, PTL

\* Converting a signature keeps its two numbers in either direction, for all of them.
THEOREM ValueAlwaysKept == FormatSpec => []ConversionKeepsValue
<1>1. Sampled => ConversionKeepsValue
  <2> SUFFICES ASSUME Sampled PROVE ConversionKeepsValue
    OBVIOUS
  <2>1. ASSUME sample.kind = "DER" PROVE NumbersKept(sample.r, sample.s, sample.der)
    <3>1. PICK r \in AnyNumber, s \in AnyNumber, long \in BOOLEAN :
            sample = [kind |-> "DER", r |-> r, s |-> s, der |-> DerSignature(r, s, long)]
      BY <2>1 DEF Sampled, Nothing
    <3> QED
      BY <3>1, ToFixedWidth
  <2>2. ASSUME sample.kind = "POINT" PROVE RoundTrips(sample.bytes)
    <3>1. PICK p \in AnyPoint : sample = [kind |-> "POINT", bytes |-> p]
      BY <2>2 DEF Sampled, Nothing
    <3> QED
      BY <3>1, ThereAndBack
  <2> QED
    BY <2>1, <2>2 DEF ConversionKeepsValue
<1> QED
  BY <1>1, SampledAlways, PTL

-----------------------------------------------------------------------------
(* The LSA package.                                                        *)

\* The registry operations that are called here return a registry.
LEMMA RegistryTyped ==
    ASSUME NEW reg \in [Device -> DeviceRecord], NEW d \in Device, NEW k \in Key
    PROVE  /\ WriteDeviceStatus(reg, d) \in [Device -> DeviceRecord]
           /\ WriteDeviceKey(reg, d, k) \in [Device -> DeviceRecord]
           /\ SetDeviceStatus(reg, d, "REVOKED") \in [Device -> DeviceRecord]
           /\ DeleteDeviceRecord(reg, d) \in [Device -> DeviceRecord]
<1> USE DEF DeviceRecord, Key, NoRecord
<1>1. WriteDeviceStatus(reg, d) \in [Device -> DeviceRecord]
  BY DEF WriteDeviceStatus
<1>2. WriteDeviceKey(reg, d, k) \in [Device -> DeviceRecord]
  BY DEF WriteDeviceKey
<1>3. SetDeviceStatus(reg, d, "REVOKED") \in [Device -> DeviceRecord]
  BY DEF SetDeviceStatus
<1>4. DeleteDeviceRecord(reg, d) \in [Device -> DeviceRecord]
  BY DEF DeleteDeviceRecord
<1> QED
  BY <1>1, <1>2, <1>3, <1>4

\* A call that is under way.
Running == [at     : {"STATUS", "KEY", "DECIDE", "NAME", "AUTHORITY", "UNDO"},
            buffer : SubmitBuffer,
            handle : BOOLEAN,
            status : {"ACTIVE", "REVOKED"},
            key    : Key]

\* What is under way has a buffer, a handle and what was read so far.
LEMMA RunningCall == ASSUME TypeOK, call.at # "IDLE" PROVE call \in Running
BY DEF TypeOK, Call, Running, IdleCall

\* A call under way may go on to any of its places.
LEMMA CallMoves ==
    ASSUME TypeOK, call.at # "IDLE", NEW p \in {"NAME", "AUTHORITY", "UNDO"},
           call' = [call EXCEPT !.at = p]
    PROVE  /\ call' \in Call /\ call'.at = p /\ call'.buffer = call.buffer
           /\ call'.handle = call.handle /\ call'.status = call.status /\ call'.key = call.key
<1>1. call \in Running
  BY RunningCall
<1>2. call' \in Running
  BY <1>1 DEF Running
<1> QED
  BY <1>1, <1>2 DEF Running, Call

\* The checks return statuses that LSASS knows, SUCCESS among them.
LEMMA StatusTyped ==
    /\ \A b \in SubmitBuffer : CheckBuffer(b) \in Status
    /\ CheckRecord \in Status
BY DEF CheckBuffer, CheckRecord, Status

\* The initial state is well typed.
LEMMA TypeInit == Init => TypeOK
<1> SUFFICES ASSUME Init PROVE TypeOK
  OBVIOUS
<1>1. registry \in [Device -> DeviceRecord]
  BY DEF Init, NoRecord, DeviceRecord, Key
<1>2. call \in Call
  BY DEF Init, Call
<1>3. result \in Status /\ out \in [name : Block \cup {Null}, authority : Block \cup {Null}]
  BY DEF Init, Status, NoOutputs
<1> QED
  BY <1>1, <1>2, <1>3 DEF Init, TypeOK

\* A step of the service keeps the store and the span well typed.
LEMMA StoreTyped ==
    ASSUME TypeOK, registry' \in [Device -> DeviceRecord],
           repairing' \subseteq Device \X Key, call' \in Call, Observe
    PROVE  TypeOK'
<1>1. span' \subseteq DeviceRecord
  <2>1. CASE call.at = "IDLE"
    BY <2>1 DEF Observe, TypeOK
  <2>2. CASE call.at # "IDLE"
    <3>1. call.buffer.device \in Device
      BY <2>2, RunningCall DEF Running, SubmitBuffer
    <3> QED
      BY <2>2, <3>1 DEF Observe, TypeOK
  <2> QED
    BY <2>1, <2>2
<1> QED
  BY <1>1 DEF Observe, TypeOK, heapVars

\* Every step keeps the state well typed.
LEMMA TypeStep == TypeOK /\ [Next]_vars => TypeOK'
<1> SUFFICES ASSUME TypeOK, [Next]_vars PROVE TypeOK'
  OBVIOUS
<1> USE SubmittedAssumption DEF storeVars, callVars, heapVars
<1>0. IdleCall \in Call
  BY DEF Call
<1>1. ASSUME NEW d \in Device, NEW k \in Key, PairBegin(d, k) PROVE TypeOK'
  <2>1. registry' \in [Device -> DeviceRecord]
    BY <1>1, RegistryTyped DEF PairBegin, TypeOK
  <2> QED
    BY <1>1, <2>1, StoreTyped DEF PairBegin, TypeOK
<1>2. ASSUME NEW d \in Device, NEW k \in Key, PairEnd(d, k) PROVE TypeOK'
  <2>1. registry' \in [Device -> DeviceRecord]
    BY <1>2, RegistryTyped DEF PairEnd, TypeOK
  <2> QED
    BY <1>2, <2>1, StoreTyped DEF PairEnd, TypeOK
<1>3. ASSUME NEW d \in Device, Revoke(d) PROVE TypeOK'
  <2>1. registry' \in [Device -> DeviceRecord]
    BY <1>3, RegistryTyped DEF Revoke, TypeOK, Key
  <2> QED
    BY <1>3, <2>1, StoreTyped DEF Revoke, TypeOK
<1>4. ASSUME NEW d \in Device, Unpair(d) PROVE TypeOK'
  <2>1. registry' \in [Device -> DeviceRecord]
    BY <1>4, RegistryTyped DEF Unpair, TypeOK, Key
  <2>2. call' \in Call
    <3>1. CASE call.at = "IDLE"
      BY <1>4, <3>1 DEF Unpair, TypeOK
    <3>2. CASE call.at # "IDLE"
      <4>1. call \in Running
        BY <3>2, RunningCall
      <4>2. [call EXCEPT !.handle = FALSE] \in Running
        BY <4>1 DEF Running
      <4> QED
        BY <1>4, <4>2 DEF Unpair, TypeOK, Call, Running
    <3> QED
      BY <3>1, <3>2
  <2> QED
    BY <1>4, <2>1, <2>2, StoreTyped DEF Unpair, TypeOK
<1>5. CASE Initialize
  BY <1>5 DEF Initialize, TypeOK
<1>6. ASSUME NEW b \in Submitted, LogonUserEx2(b) PROVE TypeOK'
  <2>1. b \in SubmitBuffer /\ b.device \in Device
    BY DEF SubmitBuffer
  <2>2. ASSUME NEW s \in Status, Refuse(s), span' = {} PROVE TypeOK'
    BY <1>0, <1>6, <2>2 DEF LogonUserEx2, Refuse, TypeOK, NoOutputs
  <2>3. CASE /\ call' = [at |-> "STATUS", buffer |-> b, handle |-> TRUE,
                         status |-> "REVOKED", key |-> NoKey]
             /\ result' = "LOGON_FAILURE"
             /\ span' = {registry[b.device]}
    <3>1. call' \in Call
      BY <2>1, <2>3 DEF Call, Key
    <3> QED
      BY <1>6, <2>1, <2>3, <3>1 DEF LogonUserEx2, TypeOK, Status, NoOutputs
  <2>4. CheckBuffer(b) \in Status /\ "NO_SUCH_USER" \in Status
    BY <2>1, StatusTyped DEF Status
  <2> QED
    BY <1>6, <2>2, <2>3, <2>4 DEF LogonUserEx2
<1>7. CASE ReadPairStatus
  <2>1. call \in Running /\ call.buffer.device \in Device
    BY <1>7, RunningCall DEF ReadPairStatus, Running, SubmitBuffer
  <2>2. registry[call.buffer.device].status \in {"ACTIVE", "REVOKED"}
    BY <2>1 DEF TypeOK, DeviceRecord
  <2>3. call' \in Running
    BY <1>7, <2>1, <2>2 DEF ReadPairStatus, Running
  <2> QED
    BY <1>7, <2>3 DEF ReadPairStatus, TypeOK, Call, Running
<1>8. CASE ReadPublicKey
  <2>1. call \in Running /\ call.buffer.device \in Device
    BY <1>8, RunningCall DEF ReadPublicKey, Running, SubmitBuffer
  <2>2. registry[call.buffer.device].key \in Key /\ NoKey \in Key
    BY <2>1 DEF TypeOK, DeviceRecord, Key
  <2>3. call' \in Running
    BY <1>8, <2>1, <2>2 DEF ReadPublicKey, Running
  <2> QED
    BY <1>8, <2>3 DEF ReadPublicKey, TypeOK, Call, Running
<1>9. CASE Decide
  <2>1. CASE Refuse(CheckRecord)
    BY <1>0, <1>9, <2>1, StatusTyped DEF Decide, Refuse, TypeOK
  <2>2. CASE call' = [call EXCEPT !.at = "NAME"] /\ UNCHANGED result
    BY <1>9, <2>2, CallMoves DEF Decide, TypeOK
  <2> QED
    BY <1>9, <2>1, <2>2 DEF Decide
<1>10. ASSUME NEW b \in Block \cup {Null}, AllocateName(b) PROVE TypeOK'
  <2>1. heap' \subseteq Block /\ out' \in [name : Block \cup {Null}, authority : Block \cup {Null}]
    BY <1>10 DEF AllocateName, Allocated, TypeOK
  <2>2. call' \in Call /\ result' \in Status
    BY <1>0, <1>10, CallMoves DEF AllocateName, Refuse, TypeOK, Status
  <2> QED
    BY <1>10, <2>1, <2>2 DEF AllocateName, TypeOK
<1>11. ASSUME NEW b \in Block \cup {Null}, AllocateAuthority(b) PROVE TypeOK'
  <2>1. heap' \subseteq Block /\ out' \in [name : Block \cup {Null}, authority : Block \cup {Null}]
    BY <1>11 DEF AllocateAuthority, Allocated, TypeOK
  <2>2. call' \in Call /\ result' \in Status
    BY <1>0, <1>11, CallMoves DEF AllocateAuthority, TypeOK, Status
  <2>3. owned' \subseteq Block
    BY <1>11, <2>1 DEF AllocateAuthority, Pointed, TypeOK
  <2> QED
    BY <1>11, <2>1, <2>2, <2>3 DEF AllocateAuthority, TypeOK
<1>12. CASE FreeName
  BY <1>0, <1>12 DEF FreeName, Refuse, TypeOK, Status
<1>13. ASSUME NEW b \in Block, LsassFrees(b) PROVE TypeOK'
  BY <1>13 DEF LsassFrees, TypeOK
<1>14. CASE UNCHANGED vars
  BY <1>14 DEF vars, TypeOK
<1> QED
  BY <1>1, <1>2, <1>3, <1>4, <1>5, <1>6, <1>7, <1>8, <1>9, <1>10, <1>11, <1>12, <1>13, <1>14
     DEF Next, StoreStep

\* The package's calls keep their shape and return only statuses LSASS knows.
THEOREM TypeCorrect == Spec => []TypeOK
BY TypeInit, TypeStep, PTL DEF Spec

-----------------------------------------------------------------------------
(* The heap.  Up to the first allocation the outputs name nothing; between *)
(* the two, and until the first string is freed, they name the first.      *)

OutputsInv ==
    /\ OutputsAreHeap
    /\ call.at # "IDLE" => result # "SUCCESS" /\ out.authority = Null
    /\ call.at \in {"STATUS", "KEY", "DECIDE", "NAME"} => out.name = Null
    /\ call.at \in {"AUTHORITY", "UNDO"} => out.name # Null

\* Every step of the package and of LSASS keeps the heap accounted for.
LEMMA OutputsStep == TypeOK /\ OutputsInv /\ [Next]_vars => OutputsInv'
<1> SUFFICES ASSUME TypeOK, OutputsInv, [Next]_vars PROVE OutputsInv'
  OBVIOUS
<1> USE SubmittedAssumption, HeapAssumption DEF storeVars, callVars, heapVars
<1>0. ASSUME UNCHANGED <<result, out, heap, owned>>, call'.at = call.at PROVE OutputsInv'
  BY <1>0 DEF OutputsInv, OutputsAreHeap, Pointed
<1>1. CASE StoreStep
  <2>1. UNCHANGED <<result, out, heap, owned>>
    BY <1>1 DEF StoreStep, PairBegin, PairEnd, Revoke, Unpair, Observe
  <2>2. call'.at = call.at
    <3>1. call' = call \/ (call.at # "IDLE" /\ call' = [call EXCEPT !.handle = FALSE])
      BY <1>1 DEF StoreStep, PairBegin, PairEnd, Revoke, Unpair
    <3> QED
      BY <3>1, RunningCall DEF Running
  <2> QED
    BY <1>0, <2>1, <2>2
<1>2. CASE Initialize \/ UNCHANGED vars
  BY <1>0, <1>2 DEF Initialize, vars
<1>3. ASSUME NEW b \in Submitted, LogonUserEx2(b) PROVE OutputsInv'
  <2>1. call.at = "IDLE" /\ out' = NoOutputs /\ UNCHANGED <<heap, owned>>
    BY <1>3 DEF LogonUserEx2, IdleCall
  <2>2. result' # "SUCCESS" /\ call'.at \in {"IDLE", "STATUS"}
    BY <1>3 DEF LogonUserEx2, Refuse, IdleCall
  <2>3. heap = owned
    BY <2>1 DEF OutputsInv, OutputsAreHeap, Pointed, NoOutputs
  <2> QED
    BY <2>1, <2>2, <2>3 DEF OutputsInv, OutputsAreHeap, Pointed, NoOutputs
<1>4. CASE ReadPairStatus \/ ReadPublicKey
  <2>1. call \in Running
    BY <1>4, RunningCall DEF ReadPairStatus, ReadPublicKey
  <2>2. call.at \in {"STATUS", "KEY"} /\ call'.at \in {"KEY", "DECIDE"}
    BY <1>4, <2>1 DEF ReadPairStatus, ReadPublicKey, Running
  <2>3. UNCHANGED <<result, out, heap, owned>>
    BY <1>4 DEF ReadPairStatus, ReadPublicKey
  <2> QED
    BY <2>2, <2>3 DEF OutputsInv, OutputsAreHeap, Pointed
<1>5. CASE Decide
  <2>1. call.at = "DECIDE" /\ UNCHANGED <<out, heap, owned>>
    BY <1>5 DEF Decide
  <2>2. out = NoOutputs /\ result # "SUCCESS"
    BY <2>1 DEF OutputsInv, TypeOK, NoOutputs
  <2>3. call'.at \in {"IDLE", "NAME"} /\ result' # "SUCCESS"
    BY <1>5, <2>1, <2>2, CallMoves DEF Decide, Refuse, IdleCall
  <2> QED
    BY <2>1, <2>2, <2>3 DEF OutputsInv, OutputsAreHeap, Pointed, NoOutputs
<1>6. ASSUME NEW b \in Block \cup {Null}, AllocateName(b) PROVE OutputsInv'
  <2>1. call.at = "NAME" /\ out.name = Null /\ out.authority = Null /\ result # "SUCCESS"
    BY <1>6 DEF AllocateName, OutputsInv
  <2>2. heap = owned /\ heap' = heap \cup ({b} \ {Null}) /\ b \notin heap /\ owned' = owned
    BY <1>6, <2>1 DEF AllocateName, Allocated, OutputsInv, OutputsAreHeap, Pointed, TypeOK
  <2>3. out' = [name |-> b, authority |-> Null]
    BY <1>6, <2>1 DEF AllocateName, TypeOK
  <2>4. Pointed' = {b} \ {Null}
    BY <2>3 DEF Pointed
  <2>5. CASE b = Null
    <3>1. call'.at = "IDLE" /\ result' # "SUCCESS"
      BY <1>6, <2>5 DEF AllocateName, Refuse, IdleCall
    <3>2. heap' = owned' /\ Pointed' = {} /\ out' = NoOutputs
      BY <2>2, <2>3, <2>4, <2>5 DEF NoOutputs
    <3> QED
      BY <3>1, <3>2 DEF OutputsInv, OutputsAreHeap
  <2>6. CASE b # Null
    <3>1. call'.at = "AUTHORITY" /\ result' = result
      BY <1>6, <2>1, <2>6, CallMoves DEF AllocateName
    <3> QED
      BY <2>1, <2>2, <2>3, <2>4, <2>6, <3>1 DEF OutputsInv, OutputsAreHeap
  <2> QED
    BY <2>5, <2>6
<1>7. ASSUME NEW b \in Block \cup {Null}, AllocateAuthority(b) PROVE OutputsInv'
  <2>1. /\ call.at = "AUTHORITY" /\ out.name # Null /\ out.authority = Null
        /\ result # "SUCCESS"
    BY <1>7 DEF AllocateAuthority, OutputsInv
  <2>2. heap = owned \cup {out.name} /\ out.name \notin owned
    BY <2>1 DEF OutputsInv, OutputsAreHeap, Pointed
  <2>3. heap' = heap \cup ({b} \ {Null}) /\ b \notin heap
    BY <1>7 DEF AllocateAuthority, Allocated, TypeOK
  <2>4. out' = [name |-> out.name, authority |-> b]
    BY <1>7 DEF AllocateAuthority, TypeOK
  <2>5. Pointed' = {out.name} \cup ({b} \ {Null})
    BY <2>1, <2>4 DEF Pointed
  <2>6. CASE b = Null
    <3>1. call'.at = "UNDO" /\ result' = result /\ owned' = owned
      BY <1>7, <2>1, <2>6, CallMoves DEF AllocateAuthority
    <3> QED
      BY <2>1, <2>2, <2>3, <2>4, <2>5, <2>6, <3>1 DEF OutputsInv, OutputsAreHeap
  <2>7. CASE b # Null
    <3>1. call'.at = "IDLE" /\ result' = "SUCCESS" /\ owned' = owned \cup Pointed'
      BY <1>7, <2>7 DEF AllocateAuthority, IdleCall
    <3> QED
      BY <2>2, <2>3, <2>5, <2>7, <3>1 DEF OutputsInv, OutputsAreHeap
  <2> QED
    BY <2>6, <2>7
<1>8. CASE FreeName
  <2>1. call.at = "UNDO" /\ out.name # Null /\ out.authority = Null /\ result # "SUCCESS"
    BY <1>8 DEF FreeName, OutputsInv
  <2>2. heap = owned \cup {out.name} /\ out.name \notin owned
    BY <2>1 DEF OutputsInv, OutputsAreHeap, Pointed
  <2>3. heap' = owned /\ owned' = owned
    BY <1>8, <2>2 DEF FreeName
  <2>4. out' = NoOutputs
    BY <1>8, <2>1 DEF FreeName, NoOutputs, TypeOK
  <2>5. call'.at = "IDLE" /\ result' # "SUCCESS"
    BY <1>8 DEF FreeName, Refuse, IdleCall
  <2> QED
    BY <2>3, <2>4, <2>5 DEF OutputsInv, OutputsAreHeap, Pointed, NoOutputs
<1>9. ASSUME NEW b \in Block, LsassFrees(b) PROVE OutputsInv'
  <2>1. b \in owned /\ heap' = heap \ {b} /\ owned' = owned \ {b}
        /\ UNCHANGED <<call, result, out>>
    BY <1>9 DEF LsassFrees
  <2>2. Pointed' = Pointed
    BY <2>1 DEF Pointed
  <2> QED
    BY <2>1, <2>2 DEF OutputsInv, OutputsAreHeap
<1> QED
  BY <1>1, <1>2, <1>3, <1>4, <1>5, <1>6, <1>7, <1>8, <1>9 DEF Next

\* Whichever allocation fails and whenever LSASS frees what it was given, no block
\* of the heap is lost and no output names one that was freed.
THEOREM OutputsOwned == Spec => []OutputsAreHeap
<1>1. Init => OutputsInv
  BY DEF Init, OutputsInv, OutputsAreHeap, Pointed, NoOutputs, IdleCall
<1>2. OutputsInv => OutputsAreHeap
  BY DEF OutputsInv
<1> QED
  BY <1>1, <1>2, TypeCorrect, OutputsStep, PTL DEF Spec

-----------------------------------------------------------------------------
(* Why a success rests on the truth.  As long as the handle is good the    *)
(* record is the one that was opened, and every value it takes is in the   *)
(* span of the call; once the record is deleted nothing more is read.  So  *)
(* what was read, each value for itself, was the record's at some moment.  *)

SpanInv ==
    call.at # "IDLE" =>
        /\ call.handle => /\ registry[call.buffer.device] \in span
                          /\ registry[call.buffer.device].exists
        /\ call.at # "STATUS" /\ call.status = "ACTIVE" =>
              \E r \in span : r.exists /\ r.status = "ACTIVE"
        /\ call.at \notin {"STATUS", "KEY"} /\ call.key # NoKey =>
              \E r \in span : r.exists /\ r.key = call.key
        /\ call.at \notin {"STATUS", "KEY", "DECIDE"} =>
              call.status = "ACTIVE" /\ call.key # NoKey /\ call.key = call.buffer.signer

\* A step of the service extends the span and deletes no record with a good handle.
LEMMA StoreKeepsSpan ==
    ASSUME TypeOK, SpanInv, Observe,
           call.at # "IDLE" =>
              /\ call'.at = call.at /\ call'.buffer = call.buffer
              /\ call'.status = call.status /\ call'.key = call.key
              /\ call'.handle =>
                    /\ call.handle
                    /\ registry[call.buffer.device].exists => registry'[call.buffer.device].exists,
           call.at = "IDLE" => call' = call
    PROVE  SpanInv'
<1>1. CASE call.at = "IDLE"
  BY <1>1 DEF SpanInv
<1>2. CASE call.at # "IDLE"
  <2>1. span' = span \cup {registry'[call.buffer.device]}
    BY <1>2 DEF Observe
  <2>2. call'.handle => /\ registry'[call'.buffer.device] \in span'
                        /\ registry'[call'.buffer.device].exists
    BY <1>2, <2>1 DEF SpanInv
  <2>3. call'.at # "STATUS" /\ call'.status = "ACTIVE" =>
           \E r \in span' : r.exists /\ r.status = "ACTIVE"
    BY <1>2, <2>1 DEF SpanInv
  <2>4. call'.at \notin {"STATUS", "KEY"} /\ call'.key # NoKey =>
           \E r \in span' : r.exists /\ r.key = call'.key
    BY <1>2, <2>1 DEF SpanInv
  <2>5. call'.at \notin {"STATUS", "KEY", "DECIDE"} =>
           call'.status = "ACTIVE" /\ call'.key # NoKey /\ call'.key = call'.buffer.signer
    BY <1>2 DEF SpanInv
  <2> QED
    BY <1>2, <2>2, <2>3, <2>4, <2>5 DEF SpanInv
<1> QED
  BY <1>1, <1>2

\* No write and no revocation removes a record.
LEMMA ExistsKept ==
    ASSUME NEW reg \in [Device -> DeviceRecord], NEW d \in Device, NEW k \in Key,
           NEW e \in Device, reg[e].exists
    PROVE  /\ WriteDeviceStatus(reg, d)[e].exists
           /\ WriteDeviceKey(reg, d, k)[e].exists
           /\ SetDeviceStatus(reg, d, "REVOKED")[e].exists
<1>1. WriteDeviceStatus(reg, d)[e].exists
  BY DEF WriteDeviceStatus
<1>2. WriteDeviceKey(reg, d, k)[e].exists
  BY DEF WriteDeviceKey
<1>3. SetDeviceStatus(reg, d, "REVOKED")[e].exists
  BY DEF SetDeviceStatus, DeviceRecord
<1> QED
  BY <1>1, <1>2, <1>3

\* Every step keeps what was read within what was there.
LEMMA SpanStep == TypeOK /\ SpanInv /\ [Next]_vars => SpanInv'
<1> SUFFICES ASSUME TypeOK, SpanInv, [Next]_vars PROVE SpanInv'
  OBVIOUS
<1> USE SubmittedAssumption DEF storeVars, callVars, heapVars
<1>0. call.at # "IDLE" => call \in Running /\ call.buffer.device \in Device
  BY RunningCall DEF Running, SubmitBuffer
<1>1. ASSUME NEW d \in Device, NEW k \in Key, PairBegin(d, k) PROVE SpanInv'
  BY <1>0, <1>1, ExistsKept, StoreKeepsSpan DEF PairBegin, TypeOK
<1>2. ASSUME NEW d \in Device, NEW k \in Key, PairEnd(d, k) PROVE SpanInv'
  BY <1>0, <1>2, ExistsKept, StoreKeepsSpan DEF PairEnd, TypeOK
<1>3. ASSUME NEW d \in Device, Revoke(d) PROVE SpanInv'
  <2>1. NoKey \in Key
    BY DEF Key
  <2> QED
    BY <1>0, <1>3, <2>1, ExistsKept, StoreKeepsSpan DEF Revoke, TypeOK
<1>4. ASSUME NEW d \in Device, Unpair(d) PROVE SpanInv'
  <2>1. CASE call.at # "IDLE" /\ call.buffer.device = d
    <3>1. call' = [call EXCEPT !.handle = FALSE]
      BY <1>4, <2>1 DEF Unpair
    <3>2. /\ call'.at = call.at /\ call'.buffer = call.buffer /\ call'.status = call.status
          /\ call'.key = call.key /\ call'.handle = FALSE
      BY <1>0, <2>1, <3>1 DEF Running
    <3> QED
      BY <1>4, <2>1, <3>2, StoreKeepsSpan DEF Unpair
  <2>2. CASE call.at # "IDLE" /\ call.buffer.device # d
    <3>1. call' = call /\ registry'[call.buffer.device] = registry[call.buffer.device]
      BY <1>0, <1>4, <2>2 DEF Unpair, DeleteDeviceRecord, TypeOK
    <3> QED
      BY <1>4, <2>2, <3>1, StoreKeepsSpan DEF Unpair
  <2>3. CASE call.at = "IDLE"
    BY <1>4, <2>3, StoreKeepsSpan DEF Unpair
  <2> QED
    BY <2>1, <2>2, <2>3
<1>5. CASE Initialize \/ UNCHANGED vars
  BY <1>5 DEF Initialize, vars, SpanInv
<1>6. ASSUME NEW b \in Submitted, LogonUserEx2(b) PROVE SpanInv'
  <2>1. CASE call' = IdleCall
    BY <2>1 DEF IdleCall, SpanInv
  <2>2. CASE /\ registry[b.device].exists
             /\ call' = [at |-> "STATUS", buffer |-> b, handle |-> TRUE,
                         status |-> "REVOKED", key |-> NoKey]
             /\ span' = {registry[b.device]}
    BY <1>6, <2>2 DEF LogonUserEx2, SpanInv
  <2> QED
    BY <1>6, <2>1, <2>2 DEF LogonUserEx2, Refuse
<1>7. CASE ReadPairStatus
  <2>1. /\ call'.at = "KEY" /\ call'.buffer = call.buffer /\ call'.handle = call.handle
        /\ call'.status = IF call.handle THEN registry[call.buffer.device].status ELSE "REVOKED"
    BY <1>0, <1>7 DEF ReadPairStatus, Running
  <2>2. call'.status = "ACTIVE" => \E r \in span : r.exists /\ r.status = "ACTIVE"
    BY <1>7, <2>1 DEF ReadPairStatus, SpanInv
  <2> QED
    BY <1>7, <2>1, <2>2 DEF ReadPairStatus, SpanInv
<1>8. CASE ReadPublicKey
  <2>1. /\ call'.at = "DECIDE" /\ call'.buffer = call.buffer /\ call'.handle = call.handle
        /\ call'.status = call.status
        /\ call'.key = IF call.handle THEN registry[call.buffer.device].key ELSE NoKey
    BY <1>0, <1>8 DEF ReadPublicKey, Running
  <2>2. call'.key # NoKey => \E r \in span : r.exists /\ r.key = call'.key
    BY <1>8, <2>1 DEF ReadPublicKey, SpanInv
  <2> QED
    BY <1>8, <2>1, <2>2 DEF ReadPublicKey, SpanInv
<1>9. CASE call' = IdleCall
  BY <1>9 DEF IdleCall, SpanInv
<1>10. CASE Decide
  <2>1. CASE CheckRecord # "SUCCESS"
    BY <1>9, <1>10, <2>1 DEF Decide, Refuse
  <2>2. CASE CheckRecord = "SUCCESS"
    <3>1. call.status = "ACTIVE" /\ call.key # NoKey /\ call.key = call.buffer.signer
      BY <2>2 DEF CheckRecord, VerifyCanonicalSignedMessage
    <3>2. /\ call.at = "DECIDE" /\ call'.at = "NAME" /\ call'.buffer = call.buffer
          /\ call'.handle = call.handle /\ call'.status = call.status /\ call'.key = call.key
      BY <1>10, <2>2, CallMoves DEF Decide
    <3> QED
      BY <1>10, <3>1, <3>2 DEF Decide, SpanInv
  <2> QED
    BY <2>1, <2>2
<1>11. ASSUME NEW p \in {"AUTHORITY", "UNDO"}, call.at \in {"NAME", "AUTHORITY"},
              call' = [call EXCEPT !.at = p], UNCHANGED <<registry, span>>
       PROVE  SpanInv'
  <2>1. /\ call'.at = p /\ call'.buffer = call.buffer
        /\ call'.handle = call.handle /\ call'.status = call.status /\ call'.key = call.key
    BY <1>11, CallMoves
  <2> QED
    BY <1>11, <2>1 DEF SpanInv
<1>12. ASSUME NEW b \in Block \cup {Null}, AllocateName(b) \/ AllocateAuthority(b)
       PROVE  SpanInv'
  BY <1>9, <1>11, <1>12 DEF AllocateName, AllocateAuthority, Refuse
<1>13. CASE FreeName
  BY <1>9, <1>13 DEF FreeName, Refuse
<1>14. ASSUME NEW b \in Block, LsassFrees(b) PROVE SpanInv'
  BY <1>14 DEF LsassFrees, SpanInv
<1> QED
  BY <1>1, <1>2, <1>3, <1>4, <1>5, <1>6, <1>7, <1>8, <1>10, <1>12, <1>13, <1>14
     DEF Next, StoreStep

\* A logon that succeeds found values that the device's record had during the
\* call, although it takes no lock against the service that writes them.
THEOREM LogonTrue == Spec => LogonWasTrue
<1> DEFINE True == result' = "SUCCESS" /\ result # "SUCCESS" =>
                       /\ \E r \in span : r.exists /\ r.status = "ACTIVE"
                       /\ \E r \in span : r.exists /\ r.key = call.buffer.signer
<1>1. Init => SpanInv
  BY DEF Init, SpanInv, IdleCall
<1>2. TypeOK /\ SpanInv /\ [Next]_vars => [True]_vars
  <2> SUFFICES ASSUME TypeOK, SpanInv, Next, result' = "SUCCESS", result # "SUCCESS"
               PROVE  /\ \E r \in span : r.exists /\ r.status = "ACTIVE"
                      /\ \E r \in span : r.exists /\ r.key = call.buffer.signer
    OBVIOUS
  <2>1. \E b \in Block \cup {Null} : AllocateAuthority(b)
    <3>1. ASSUME NEW b \in Submitted, LogonUserEx2(b) PROVE FALSE
      BY <3>1 DEF LogonUserEx2, Refuse
    <3>2. ~Decide /\ ~FreeName
      BY DEF Decide, FreeName, Refuse
    <3>3. ASSUME NEW b \in Block \cup {Null}, AllocateName(b) PROVE FALSE
      BY <3>3 DEF AllocateName, Refuse
    <3>4. CASE \/ StoreStep \/ Initialize \/ ReadPairStatus \/ ReadPublicKey
               \/ \E b \in Block : LsassFrees(b)
      BY <3>4
         DEF StoreStep, PairBegin, PairEnd, Revoke, Unpair, Observe, Initialize,
             ReadPairStatus, ReadPublicKey, LsassFrees, callVars
    <3> QED
      BY <3>1, <3>2, <3>3, <3>4 DEF Next
  <2>2. call.at = "AUTHORITY"
    BY <2>1 DEF AllocateAuthority
  <2> QED
    BY <2>2 DEF SpanInv
<1> QED
  BY <1>1, <1>2, TypeCorrect, SpanStep, PTL DEF Spec, LogonWasTrue

=============================================================================
