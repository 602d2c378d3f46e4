--------------------------- MODULE SignatureCodec ---------------------------
(***************************************************************************)
(* The byte formats a signature and a public key pass through between the  *)
(* phone's keystore and the PC's CNG: DerToP1363Converter.kt on the phone, *)
(* ValidateAndAdaptSignature, NormalizePublicKeyToEccBlob and ParseSpkiDer *)
(* of windows/crypto/CryptoManager.cpp on the PC.                          *)
(*                                                                         *)
(* Bytes keep their width; the 32 bytes of a component become the constant *)
(* ComponentLen, and every size the code derives from 32 moves with it.  A *)
(* sequence stands for a byte array, from position 1; an exception or a    *)
(* false result is the value Malformed.                                    *)
(***************************************************************************)
EXTENDS Naturals, Sequences

CONSTANT ComponentLen   \* COMPONENT_LEN, P256_COORDINATE_SIZE: 32

ASSUME CodecAssumption == ComponentLen \in Nat \ {0}

Malformed == <<>>

SignatureLen == 2 * ComponentLen

\* The position of the first byte that is not zero, or the last position.
FirstSignificant(bytes) ==
    CHOOSE i \in 1..Len(bytes) :
        /\ \A j \in 1..(i - 1) : bytes[j] = 0
        /\ bytes[i] # 0 \/ i = Len(bytes)

From(bytes, i) == SubSeq(bytes, i, Len(bytes))

-----------------------------------------------------------------------------
(* DerToP1363Converter.kt.                                                 *)

\* The INTEGER at position at: its bytes and the position behind it.
parseDerInteger(der, at) ==
    LET len == der[at + 1]
    IN  IF \/ at + 1 > Len(der)
           \/ der[at] # 2
           \/ len \notin 1..127
           \/ at + 1 + len > Len(der)
        THEN [data |-> Malformed, next |-> Len(der) + 1]
        ELSE [data |-> SubSeq(der, at + 2, at + 1 + len), next |-> at + 2 + len]

\* Mutant: every leading zero is stripped, and nothing is padded.
normalizeNoPadding(raw) ==
    LET src == From(raw, FirstSignificant(raw))
    IN  IF Len(src) > ComponentLen THEN Malformed ELSE src

\* Zeros are stripped from what is longer than a component and put before what is
\* shorter.
normalizeTo32Bytes(raw) ==
    LET surplus == Len(raw) - ComponentLen
    IN  IF Len(raw) <= ComponentLen
        THEN [i \in 1..(ComponentLen - Len(raw)) |-> 0] \o raw
        ELSE IF \A i \in 1..surplus : raw[i] = 0 THEN From(raw, surplus + 1)
        ELSE Malformed

derToP1363(der) ==
    LET long   == der[2] >= 128
        seqLen == IF long THEN der[3] ELSE der[2]
        body   == IF long THEN 4 ELSE 3
        r      == parseDerInteger(der, body)
        s      == parseDerInteger(der, r.next)
        rBytes == normalizeTo32Bytes(r.data)
        sBytes == normalizeTo32Bytes(s.data)
    IN  IF \/ Len(der) \notin 8..(SignatureLen + 10)
           \/ der[1] # 48
           \/ long /\ der[2] # 129
           \/ body - 1 + seqLen # Len(der)
           \/ r.data = Malformed
           \/ s.data = Malformed
           \/ s.next # Len(der) + 1
           \/ rBytes = Malformed
           \/ sBytes = Malformed
        THEN Malformed
        ELSE rBytes \o sBytes

encodeIntegerToDer(component) ==
    LET trimmed == From(component, FirstSignificant(component))
    IN  IF trimmed[1] >= 128
        THEN <<2, Len(trimmed) + 1, 0>> \o trimmed
        ELSE <<2, Len(trimmed)>> \o trimmed

p1363ToDer(p1363) ==
    LET body == encodeIntegerToDer(SubSeq(p1363, 1, ComponentLen))
                \o encodeIntegerToDer(From(p1363, ComponentLen + 1))
    IN  IF Len(p1363) # SignatureLen THEN Malformed
        ELSE <<48>> \o (IF Len(body) < 128 THEN <<Len(body)>> ELSE <<129, Len(body)>>) \o body

-----------------------------------------------------------------------------
(* CryptoManager.cpp.                                                      *)

NonZero(bytes) == \E i \in 1..Len(bytes) : bytes[i] # 0

ValidateAndAdaptSignature(sig) ==
    IF /\ Len(sig) = SignatureLen
       /\ NonZero(SubSeq(sig, 1, ComponentLen))
       /\ NonZero(From(sig, ComponentLen + 1))
    THEN sig ELSE Malformed

\* The length field at position at: its value and the position behind it.
\* Lengths of many bytes, where the code's size_t wraps, are outside the inputs
\* that are checked. Where the code reads one byte behind the end of a truncated
\* field it refuses the key afterwards, whatever the byte.
DerLength(der, at) ==
    LET n == der[at] - 128
        value[i \in 0..n] == IF i = 0 THEN 0 ELSE value[i - 1] * 256 + der[at + i]
    IN  IF der[at] < 128 THEN [len |-> der[at], next |-> at + 1]
        ELSE IF at + n > Len(der) THEN [len |-> 0, next |-> Len(der) + 1]
        ELSE [len |-> value[n], next |-> at + 1 + n]

\* The coordinates X and Y of a SubjectPublicKeyInfo; the algorithm is skipped.
ParseSpkiDer(der) ==
    LET root  == DerLength(der, 2).next
        alg   == DerLength(der, root + 1)
        bits  == alg.next + alg.len
        field == DerLength(der, bits + 1)
        point == field.next
    IN  IF \/ Len(der) < 30
           \/ der[1] # 48
           \/ root + 1 > Len(der)
           \/ der[root] # 48
           \/ bits + 1 > Len(der)
           \/ der[bits] # 3
           \/ point - 1 + field.len > Len(der)
           \/ field.len < SignatureLen + 2
           \/ der[point] # 0
           \/ der[point + 1] # 4
        THEN Malformed
        ELSE SubSeq(der, point + 2, point + 1 + SignatureLen)

\* BCRYPT_ECDSA_PUBLIC_P256_MAGIC and cbKey, least significant byte first.
BlobHeader == <<69, 67, 83, 49, ComponentLen, 0, 0, 0>>

\* Mutant: the format byte of an uncompressed point is taken for a coordinate.
RawPointShifted(key) == SubSeq(key, 1, SignatureLen)

RawPoint(key) == Tail(key)

\* A key blob, X || Y, an uncompressed point, or a SubjectPublicKeyInfo.
NormalizePublicKeyToEccBlob(key) ==
    IF key = <<>> THEN Malformed
    ELSE IF Len(key) = SignatureLen + 8 /\ SubSeq(key, 1, 8) = BlobHeader THEN key
    ELSE IF Len(key) = SignatureLen THEN BlobHeader \o key
    ELSE IF Len(key) = SignatureLen + 1 /\ key[1] = 4 THEN BlobHeader \o RawPoint(key)
    ELSE IF key[1] = 48 /\ ParseSpkiDer(key) # Malformed THEN BlobHeader \o ParseSpkiDer(key)
    ELSE Malformed

=============================================================================
