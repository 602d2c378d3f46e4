--------------------------- MODULE DeviceRegistry ---------------------------
(***************************************************************************)
(* The device store of windows/pairing/DeviceRegistry.cpp: one registry    *)
(* subkey per device id.  The operators take the store as an argument and  *)
(* return the new store, so that every component that opens the registry   *)
(* (AuthenticationManager, PairingManager, the service's lock path) shares *)
(* the same definitions and keeps the store as a variable of its own.      *)
(*                                                                         *)
(* Abstractions: a device name is left out; the account SID is the one of  *)
(* the service process (ResolveCurrentAccountSid), the same in every       *)
(* record; LastSeen is kept as "moved since the pairing" (seen).           *)
(***************************************************************************)
EXTENDS FiniteSets

CONSTANTS
    Device,      \* device identifiers (16-byte UUIDs, compared as strings)
    PublicKey,   \* the ECDSA keys phones may register
    NoKey        \* an empty PublicKey value

ASSUME KeyAssumption == NoKey \notin PublicKey

Key == PublicKey \cup {NoKey}

DeviceRecord == [exists : BOOLEAN,
                 status : {"ACTIVE", "REVOKED"},
                 key    : Key,
                 seen   : BOOLEAN]

\* No subkey.  The status is what ReadDeviceRecord falls back to when the
\* PairStatus value is missing.
NoRecord == [exists |-> FALSE, status |-> "REVOKED", key |-> NoKey, seen |-> FALSE]

\* WriteDeviceRecord creates the subkey and then sets its values one by one.
\* First half: the subkey and PairStatus.  The other values keep what an
\* earlier pairing of the same device left there.
WriteDeviceStatus(reg, d) ==
    [reg EXCEPT ![d] = [exists |-> TRUE, status |-> "ACTIVE",
                        key |-> reg[d].key, seen |-> reg[d].seen]]

\* Mutant: the second half restores the record and its status.
WriteDeviceKeyAgain(reg, d, k) ==
    [reg EXCEPT ![d] = [exists |-> TRUE, status |-> "ACTIVE",
                        key |-> IF k = NoKey THEN reg[d].key ELSE k,
                        seen |-> FALSE]]

\* Second half: PublicKey, only when the new record has one, and LastSeen.
\* Nothing is written through the handle of a subkey deleted in between, and
\* the failed calls are not noticed.
WriteDeviceKey(reg, d, k) ==
    IF reg[d].exists
    THEN [reg EXCEPT ![d] = [exists |-> TRUE, status |-> reg[d].status,
                             key |-> IF k = NoKey THEN reg[d].key ELSE k,
                             seen |-> FALSE]]
    ELSE reg

\* Both halves with nothing in between.
WriteDeviceRecord(reg, d, k) == WriteDeviceKey(WriteDeviceStatus(reg, d), d, k)

SetDeviceStatus(reg, d, s) ==
    [reg EXCEPT ![d] = IF reg[d].exists THEN [reg[d] EXCEPT !.status = s] ELSE reg[d]]

UpdateLastSeen(reg, d) ==
    [reg EXCEPT ![d] = IF reg[d].exists THEN [reg[d] EXCEPT !.seen = TRUE] ELSE reg[d]]

DeleteDeviceRecord(reg, d) == [reg EXCEPT ![d] = NoRecord]

IsDeviceActive(reg, d) == reg[d].exists /\ reg[d].status = "ACTIVE"

CountActiveDevicesForAccount(reg) == Cardinality({d \in Device : IsDeviceActive(reg, d)})
=============================================================================
