----------------------------- MODULE MCFormats ------------------------------
(***************************************************************************)
(* SignatureCodec and WireFormat against reference definitions of the      *)
(* formats, on every sample of a bounded set.  A behaviour picks one       *)
(* sample; the properties are about what the code makes of it.             *)
(***************************************************************************)
EXTENDS SignatureCodec, WireFormat

CONSTANTS
    SampleByte,   \* bound: the bytes that signatures and points are made of
    Pattern       \* bound: the bytes at the ends of header and message fields

ASSUME SampleAssumption == SampleByte \cup Pattern \subseteq 0..255

\* COMPONENT_LEN is 32; the lengths in these formats are single bytes below 128 for
\* components of up to 51 bytes.
ASSUME LengthAssumption == ComponentLen \in 2..51

VARIABLE sample

-----------------------------------------------------------------------------
(* What the formats say.                                                   *)

\* The same number in exactly ComponentLen bytes, if it has no more.
Fixed(number) ==
    [i \in 1..ComponentLen |->
        IF i + Len(number) > ComponentLen THEN number[i + Len(number) - ComponentLen] ELSE 0]

Fits(number) == Len(number) - FirstSignificant(number) < ComponentLen

\* A SEQUENCE of two INTEGERs, with its length in one byte or in two.
DerSignature(r, s, long) ==
    LET body == <<2, Len(r)>> \o r \o <<2, Len(s)>> \o s
    IN  <<48>> \o (IF long THEN <<129, Len(body)>> ELSE <<Len(body)>>) \o body

\* The algorithm identifier of an EC key takes 19 bytes.
SpkiKey(point) ==
    <<48, 25 + SignatureLen, 48, 19>> \o [i \in 1..19 |-> 1]
    \o <<3, SignatureLen + 2, 0, 4>> \o point

-----------------------------------------------------------------------------
(* The samples.                                                            *)

Bytes(lengths) == UNION {[1..n -> SampleByte] : n \in lengths}

Number == Bytes(1..(ComponentLen + 2))

Point == Bytes({SignatureLen})

\* A field of n bytes: its first and its last byte vary.
Field(n) == {[i \in 1..n |-> IF i = n THEN b ELSE IF i = 1 THEN a ELSE 7] : a, b \in Pattern}

\* Lengths around MAX_PAYLOAD_SIZE; an opcode that is not in the list.
FrameHeader ==
    [type : MessageType \cup {<<0, 0>>}, id : Field(4),
     length : {<<0, 0, 0, 0>>, <<0, 0, 16, 0>>, <<0, 0, 16, 1>>, <<0, 1, 0, 0>>},
     seq : Field(8)]

\* Identities and nonces are byte arrays: they vary at both ends, too.
SignedMessage ==
    [version : {<<1, 0>>, <<0, 1>>}, server : Field(16), device : Field(16),
     operation : {<<0, 34>>, <<0, 0>>, <<34, 0>>}, request : Field(4), session : Field(8),
     nonce : Field(32), timestamp : Field(8)]

Nothing == [kind |-> "NOTHING"]

Pick ==
    /\ sample = Nothing
    /\ \/ \E r, s \in Number, long \in BOOLEAN :
             sample' = [kind |-> "DER", r |-> r, s |-> s, der |-> DerSignature(r, s, long)]
       \/ \E p \in Point : sample' = [kind |-> "POINT", bytes |-> p]
       \/ \E h \in FrameHeader : sample' = [kind |-> "HEADER", header |-> h]
       \/ \E m \in SignedMessage : sample' = [kind |-> "MESSAGE", message |-> m]

FormatSpec == sample = Nothing /\ [][Pick]_sample

-----------------------------------------------------------------------------
\* derToP1363 gives the two numbers of the DER signature in fixed width, for
\* surplus and for missing leading zeros, and refuses it exactly when a number is
\* too long or the whole is.  The PC accepts the result unless a number is zero.
NumbersKept(r, s, der) ==
    LET sig == derToP1363(der)
    IN  /\ sig = IF Fits(r) /\ Fits(s) /\ Len(der) <= SignatureLen + 10
                 THEN Fixed(r) \o Fixed(s) ELSE Malformed
        /\ sig # Malformed =>
              (ValidateAndAdaptSignature(sig) = sig <=> NonZero(r) /\ NonZero(s))

\* p1363ToDer and derToP1363 are inverse, and no signature that was cut short or
\* has a byte too many is converted.
RoundTrips(p) ==
    LET der == p1363ToDer(p)
    IN  /\ derToP1363(der) = p
        /\ \A n \in 0..(Len(der) - 1) : derToP1363(SubSeq(der, 1, n)) = Malformed
        /\ \A b \in SampleByte : derToP1363(Append(der, b)) = Malformed

\* A signature means the same two numbers on both sides of the conversion, in either
\* direction, at every boundary of length, sign byte and leading zeros.
ConversionKeepsValue ==
    /\ sample.kind = "DER" => NumbersKept(sample.r, sample.s, sample.der)
    /\ sample.kind = "POINT" => RoundTrips(sample.bytes)

\* The forms in which a phone may register a key.
KeyForms(point) == {BlobHeader \o point, point, <<4>> \o point, SpkiKey(point)}

\* What becomes of a key of which only the first n bytes arrived.
CutKey(key, n) ==
    LET cut == SubSeq(key, 1, n)
    IN  NormalizePublicKeyToEccBlob(cut) = IF n = SignatureLen THEN BlobHeader \o cut
                                           ELSE Malformed

\* Bare coordinates that begin with the tag of a SEQUENCE are left out of the cuts:
\* what is left of them is read as a SubjectPublicKeyInfo with lengths of any kind.
SameBlob(point) ==
    /\ \A key \in KeyForms(point) : NormalizePublicKeyToEccBlob(key) = BlobHeader \o point
    /\ \A key \in KeyForms(point) :
          key # point \/ point[1] # 48 => \A n \in 0..(Len(key) - 1) : CutKey(key, n)

\* Every form in which a phone may register its key is normalised to the same blob.
\* One that was cut short is refused unless exactly the length of bare coordinates is
\* left of it: those bytes, be they the start of a blob, of an uncompressed point or
\* of a SubjectPublicKeyInfo, are registered as the coordinates of another key.
KeyFormsAgree == sample.kind = "POINT" => SameBlob(sample.bytes)

\* What each side reads of a header that the other sends, and when it refuses it.
SameHeader(h) ==
    LET toPhone == parseFrameHeader(SerializeFrameHeader(h))
        toPc    == DeserializeFrameHeader(sendFrameHeader(h))
        meant   == [h EXCEPT !.seq = [sign |-> "+", bytes |-> @]]
    IN  /\ toPhone.value = meant <=> h.seq[1] < 128
        /\ \A field \in {"type", "id", "length"} : toPhone.value[field] = h[field]
        /\ toPhone.value.seq.bytes = h.seq
        /\ toPc.value = [h EXCEPT !.seq = toInt(@)]
        /\ toPhone.valid <=> ~TooLong(h.length)
        /\ toPc.valid <=> toPhone.valid /\ IsValidMessageType(h.type)

\* A header that either side sends is read by the other as it was meant exactly when
\* its sequence number is below 2^63: from there on the phone reads the PC's as a
\* negative number, and sends 2^63 - 1 for its own.  The other fields always arrive.
\* Both refuse the same lengths; the PC alone refuses unknown opcodes.
HeadersAgree == sample.kind = "HEADER" => SameHeader(sample.header)

\* What the PC reads of a message that the phone has signed, and the bytes for which
\* it verifies the signature.
SameMessage(m) ==
    LET bytes  == toCanonicalBytes(m)
        parsed == DeserializeSignedMessage(bytes)
    IN  /\ SerializeSignedMessage(parsed.value) = bytes
        /\ parsed.value = [m EXCEPT !.session = toInt(@), !.timestamp = toInt(@)]
        /\ parsed.valid <=> m.version = <<1, 0>> /\ IsValidMessageType(m.operation)

\* The bytes the phone signs are, field for field, the bytes the PC verifies: it
\* parses the message and serializes it again for VerifySignature.  Only session
\* ids and times from 2^63 are changed by the phone, and then by both sides alike.
SignedBytesAgree == sample.kind = "MESSAGE" => SameMessage(sample.message)
=============================================================================
