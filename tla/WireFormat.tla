----------------------------- MODULE WireFormat -----------------------------
(***************************************************************************)
(* The two byte layouts that C++ and Dart have to agree on: the 24-byte    *)
(* frame header (shared/protocol/ProtocolTypes.h, and sendFrame and        *)
(* _onDataReceived of wifi_transport.dart) and the 88-byte signed message  *)
(* (shared/protocol/SignedMessage.h and canonical_signed_message.dart).    *)
(*                                                                         *)
(* A number is the sequence of its bytes, most significant first, so that  *)
(* its width is kept.  The C++ side copies packed structs whose fields are *)
(* in the memory order of the PC, least significant byte first; the Dart   *)
(* side writes and reads at offsets.                                       *)
(***************************************************************************)
EXTENDS Naturals, Sequences

Seqs == INSTANCE SequencesExt

\* A number as the PC holds it in memory, and HostToNetworkNN, which swaps bytes.
InMemory(n) == Seqs!Reverse(n)

HostToNetwork(mem) == Seqs!Reverse(mem)

NetworkToHost(mem) == HostToNetwork(mem)

\* BigInt.toInt of Dart: the largest signed value for what does not fit.
toInt(n) == IF n[1] >= 128 THEN [i \in 1..Len(n) |-> IF i = 1 THEN 127 ELSE 255] ELSE n

\* BigInt.from of the int that getUint64 makes of eight bytes: Dart's int is signed, so
\* from 2^63 it is the negative number that has these bytes in two's complement.
fromInt(n) == [sign |-> IF n[1] >= 128 THEN "-" ELSE "+", bytes |-> n]

\* n bytes from the offset (counted from 0).
At(bytes, offset, n) == SubSeq(bytes, offset + 1, offset + n)

-----------------------------------------------------------------------------
PROTOCOL_MAGIC == <<77, 85>>

MessageType ==
    {<<0, 1>>, <<0, 2>>, <<0, 16>>, <<0, 17>>, <<0, 18>>, <<0, 19>>, <<0, 32>>, <<0, 33>>,
     <<0, 34>>, <<0, 35>>, <<0, 36>>, <<0, 48>>, <<0, 49>>, <<0, 64>>, <<0, 65>>, <<0, 80>>,
     <<0, 81>>, <<0, 224>>, <<0, 225>>, <<0, 255>>}

IsValidMessageType(opcode) == opcode \in MessageType

\* PayloadLength > MAX_PAYLOAD_SIZE.
TooLong(length) ==
    \/ length[1] # 0 \/ length[2] # 0
    \/ length[3] * 256 + length[4] > 4096

SerializeFrameHeader(h) ==
    HostToNetwork(InMemory(PROTOCOL_MAGIC)) \o <<1, 0>>
    \o HostToNetwork(InMemory(h.type)) \o HostToNetwork(InMemory(<<0, 0>>))
    \o HostToNetwork(InMemory(h.id)) \o HostToNetwork(InMemory(h.length))
    \o HostToNetwork(InMemory(h.seq))

\* Reserved and MinorVersion are read and not looked at.
DeserializeFrameHeader(data) ==
    LET number(offset, n) == InMemory(NetworkToHost(At(data, offset, n)))
        h == [type |-> number(4, 2), id |-> number(8, 4), length |-> number(12, 4),
              seq |-> number(16, 8)]
    IN  [value |-> h,
         valid |-> /\ Len(data) >= 24
                   /\ number(0, 2) = PROTOCOL_MAGIC
                   /\ data[3] = 1
                   /\ ~TooLong(h.length)
                   /\ IsValidMessageType(h.type)]

\* sendFrame of the phone.
sendFrameHeader(h) ==
    PROTOCOL_MAGIC \o <<1, 0>> \o h.type \o <<0, 0>> \o h.id \o h.length \o toInt(h.seq)

\* Mutant: the reserved bytes are taken for the start of the message id.
parseFrameHeaderShifted(data) ==
    [value |-> [type |-> At(data, 4, 2), id |-> At(data, 6, 4), length |-> At(data, 12, 4),
                seq |-> fromInt(At(data, 16, 8))],
     valid |-> At(data, 0, 2) = PROTOCOL_MAGIC /\ data[3] = 1 /\ ~TooLong(At(data, 12, 4))]

\* The header in _onDataReceived of the phone, which knows no list of opcodes.
parseFrameHeader(data) ==
    [value |-> [type |-> At(data, 4, 2), id |-> At(data, 8, 4), length |-> At(data, 12, 4),
                seq |-> fromInt(At(data, 16, 8))],
     valid |-> At(data, 0, 2) = PROTOCOL_MAGIC /\ data[3] = 1 /\ ~TooLong(At(data, 12, 4))]

-----------------------------------------------------------------------------
SerializeSignedMessage(m) ==
    HostToNetwork(InMemory(m.version)) \o m.server \o m.device
    \o HostToNetwork(InMemory(m.operation)) \o HostToNetwork(InMemory(m.request))
    \o HostToNetwork(InMemory(m.session)) \o m.nonce \o HostToNetwork(InMemory(m.timestamp))

DeserializeSignedMessage(data) ==
    LET number(offset, n) == InMemory(NetworkToHost(At(data, offset, n)))
        m == [version |-> number(0, 2), server |-> At(data, 2, 16), device |-> At(data, 18, 16),
              operation |-> number(34, 2), request |-> number(36, 4), session |-> number(40, 8),
              nonce |-> At(data, 48, 32), timestamp |-> number(80, 8)]
    IN  [value |-> m,
         valid |-> /\ Len(data) = 88
                   /\ m.version = <<1, 0>>
                   /\ IsValidMessageType(m.operation)]

\* Mutant: the two identities are exchanged.
toCanonicalBytesSwapped(m) ==
    m.version \o m.device \o m.server \o m.operation \o m.request
    \o toInt(m.session) \o m.nonce \o toInt(m.timestamp)

toCanonicalBytes(m) ==
    m.version \o m.server \o m.device \o m.operation \o m.request
    \o toInt(m.session) \o m.nonce \o toInt(m.timestamp)

=============================================================================
