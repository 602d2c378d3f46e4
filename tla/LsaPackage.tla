----------------------------- MODULE LsaPackage -----------------------------
(***************************************************************************)
(* The authentication package that LSASS loads,                            *)
(* windows/lsa_authentication_package/LsaPackage.cpp: Initialize and       *)
(* LogonUserEx2.                                                           *)
(*                                                                         *)
(* LogonUserEx2 runs in another process than the pairing code and takes no *)
(* lock that it would share with it.  ReadDeviceRecord opens the subkey of *)
(* the device and reads its values one after the other, while the service  *)
(* may write or delete the record; opening the subkey, reading PairStatus, *)
(* reading PublicKey, the decision and each use of the LSA heap are the    *)
(* steps of a call here.  One call runs at a time: it keeps no state       *)
(* between calls.  LSASS owns the strings of a call that succeeded and     *)
(* frees them when it likes.                                               *)
(*                                                                         *)
(* A submit buffer is what the checks tell apart: which of its parts are   *)
(* not as they should be, the device it names, the key that signed its     *)
(* message and the bytes of the signature.  All output pointers are taken  *)
(* to be given, as LSASS does.                                             *)
(***************************************************************************)
EXTENDS DeviceRegistry, SignatureCodec

CONSTANTS
    Signature,   \* the bytes in a buffer's Signature field
    Block,       \* the blocks of the LSA heap
    Null,        \* a null pointer
    Submitted    \* bound: the buffers that are submitted

VARIABLES
    registry,    \* the device store
    repairing,   \* a WriteDeviceRecord between its halves: the device and key, or {}
    loaded,      \* m_isInitialized: LSASS calls the package only after Initialize
    call,        \* the LogonUserEx2 call
    result,      \* *subStatus: what the last call returned
    out,         \* *accountName and *authenticatingAuthority
    heap,        \* the blocks that are allocated
    owned,       \* the blocks that LSASS got from calls and has not freed
    span         \* history: the records the device of the call had during it

storeVars == <<registry, repairing>>
heapVars  == <<out, heap, owned>>
callVars  == <<call, result, heapVars, span>>
vars      == <<storeVars, loaded, callVars>>

-----------------------------------------------------------------------------
\* NULL: no buffer.  SHORT: fewer than 180 bytes.  HEADER: Magic or Version.
\* RESERVED: Reserved is not 0.  CANONICAL: DeserializeSignedMessage fails.
\* VERSION: ProtocolVersion is not 0x0100.  DEVICE: the message names another
\* device than the buffer.  OPERATION: the message is no AUTH_RESPONSE.
Defect == {"NULL", "SHORT", "HEADER", "RESERVED", "CANONICAL", "VERSION", "DEVICE", "OPERATION"}

SubmitBuffer == [defects : SUBSET Defect, device : Device, signer : Key,
                 signature : Signature]

ASSUME SubmittedAssumption == Submitted \subseteq SubmitBuffer

ASSUME HeapAssumption == Null \notin Block

NoOutputs == [name |-> Null, authority |-> Null]

\* The blocks that the output pointers name.
Pointed == {out.name, out.authority} \ {Null}

Status == {"SUCCESS", "INVALID_PARAMETER", "BUFFER_TOO_SMALL", "LOGON_FAILURE",
           "NO_SUCH_USER", "ACCOUNT_RESTRICTION", "INSUFFICIENT_RESOURCES"}

\* handle: FALSE once the opened subkey has been deleted.
IdleCall == [at |-> "IDLE"]

Call == {IdleCall} \cup
        [at     : {"STATUS", "KEY", "DECIDE", "NAME", "AUTHORITY", "UNDO"},
         buffer : SubmitBuffer,
         handle : BOOLEAN,
         status : {"ACTIVE", "REVOKED"},
         key    : Key]

\* The checks made before the registry is opened, in their order.
CheckBuffer(b) ==
    IF "NULL" \in b.defects THEN "INVALID_PARAMETER"
    ELSE IF "SHORT" \in b.defects THEN "BUFFER_TOO_SMALL"
    ELSE IF b.defects \cap {"HEADER", "RESERVED", "CANONICAL", "VERSION"} # {}
         THEN "INVALID_PARAMETER"
    ELSE IF b.defects \cap {"DEVICE", "OPERATION"} # {} THEN "LOGON_FAILURE"
    ELSE "SUCCESS"

-----------------------------------------------------------------------------
\* LsaApInitializePackage; the allocation of the package name may fail.
Initialize ==
    /\ ~loaded
    /\ loaded' \in BOOLEAN
    /\ UNCHANGED <<storeVars, callVars>>

\* The call returns with a failure; its outputs stay as they are.
Refuse(s) ==
    /\ call' = IdleCall
    /\ result' = s

\* Entry of LogonUserEx2 up to the opening of the device's subkey.  The outputs are
\* cleared.
LogonUserEx2(b) ==
    /\ loaded
    /\ call = IdleCall
    /\ out' = NoOutputs
    /\ IF CheckBuffer(b) # "SUCCESS" THEN Refuse(CheckBuffer(b)) /\ span' = {}
       ELSE IF ~registry[b.device].exists THEN Refuse("NO_SUCH_USER") /\ span' = {}
       ELSE /\ call' = [at |-> "STATUS", buffer |-> b, handle |-> TRUE,
                        status |-> "REVOKED", key |-> NoKey]
            /\ result' = "LOGON_FAILURE"
            /\ span' = {registry[b.device]}
    /\ UNCHANGED <<storeVars, loaded, heap, owned>>

\* A value that cannot be read leaves the status at REVOKED and the key empty.
ReadPairStatus ==
    /\ call.at = "STATUS"
    /\ call' = [call EXCEPT !.at = "KEY",
                            !.status = IF call.handle THEN registry[call.buffer.device].status
                                       ELSE "REVOKED"]
    /\ UNCHANGED <<storeVars, loaded, result, heapVars, span>>

ReadPublicKey ==
    /\ call.at = "KEY"
    /\ call' = [call EXCEPT !.at = "DECIDE",
                            !.key = IF call.handle THEN registry[call.buffer.device].key
                                    ELSE NoKey]
    /\ UNCHANGED <<storeVars, loaded, result, heapVars, span>>

\* The signature has the right form, and CNG finds it made with the key.
VerifyCanonicalSignedMessage(key, b) ==
    /\ ValidateAndAdaptSignature(b.signature) # Malformed
    /\ key = b.signer

\* Mutant: the check of the pair status is missing.
CheckRecordNoStatus ==
    IF call.key = NoKey \/ ~VerifyCanonicalSignedMessage(call.key, call.buffer) THEN "LOGON_FAILURE" ELSE "SUCCESS"

\* The status, the key and the signature.
CheckRecord ==
    IF call.status # "ACTIVE" THEN "ACCOUNT_RESTRICTION"
    ELSE IF call.key = NoKey \/ ~VerifyCanonicalSignedMessage(call.key, call.buffer) THEN "LOGON_FAILURE"
    ELSE "SUCCESS"

\* The decision.  The account name is looked up by the record's SID, with the device
\* name to fall back on; whatever it is, the call goes on.
Decide ==
    /\ call.at = "DECIDE"
    /\ IF CheckRecord # "SUCCESS" THEN Refuse(CheckRecord)
       ELSE call' = [call EXCEPT !.at = "NAME"] /\ UNCHANGED result
    /\ UNCHANGED <<storeVars, loaded, heapVars, span>>

\* CreateUnicodeStringOnLsaHeap returns b: a block that was free, or null.
Allocated(b) ==
    /\ b \in (Block \ heap) \cup {Null}
    /\ heap' = heap \cup ({b} \ {Null})

AllocateName(b) ==
    /\ call.at = "NAME"
    /\ Allocated(b)
    /\ out' = [out EXCEPT !.name = b]
    /\ IF b = Null THEN Refuse("INSUFFICIENT_RESOURCES")
       ELSE call' = [call EXCEPT !.at = "AUTHORITY"] /\ UNCHANGED result
    /\ UNCHANGED <<storeVars, loaded, owned, span>>

\* With both strings the call succeeds, and they are LSASS's.
AllocateAuthority(b) ==
    /\ call.at = "AUTHORITY"
    /\ Allocated(b)
    /\ out' = [out EXCEPT !.authority = b]
    /\ IF b = Null THEN call' = [call EXCEPT !.at = "UNDO"] /\ UNCHANGED <<result, owned>>
       ELSE /\ call' = IdleCall
            /\ result' = "SUCCESS"
            /\ owned' = owned \cup Pointed'
    /\ UNCHANGED <<storeVars, loaded, span>>

\* Mutant: the pointer is cleared and its block is not freed.
FreeNameCleared ==
    /\ call.at = "UNDO"
    /\ out' = [out EXCEPT !.name = Null]
    /\ Refuse("INSUFFICIENT_RESOURCES")
    /\ UNCHANGED <<storeVars, loaded, heap, owned, span>>

\* The authority could not be allocated: the name is freed and its pointer cleared.
FreeName ==
    /\ call.at = "UNDO"
    /\ heap' = heap \ {out.name}
    /\ out' = [out EXCEPT !.name = Null]
    /\ Refuse("INSUFFICIENT_RESOURCES")
    /\ UNCHANGED <<storeVars, loaded, owned, span>>

\* LSASS frees a string it was given.
LsassFrees(b) ==
    /\ b \in owned
    /\ heap' = heap \ {b}
    /\ owned' = owned \ {b}
    /\ UNCHANGED <<storeVars, loaded, call, result, out, span>>

-----------------------------------------------------------------------------
(* The service's side of the store: PairingManager's WriteDeviceRecord and  *)
(* DeleteDeviceRecord, and SetDeviceStatus.                                 *)

\* Adds what the store holds after the step to the span of a running call.
Observe ==
    /\ span' = IF call.at = "IDLE" THEN span ELSE span \cup {registry'[call.buffer.device]}
    /\ UNCHANGED <<loaded, result, heapVars>>

PairBegin(d, k) ==
    /\ repairing = {}
    /\ registry' = WriteDeviceStatus(registry, d)
    /\ repairing' = {<<d, k>>}
    /\ Observe
    /\ UNCHANGED call

PairEnd(d, k) ==
    /\ <<d, k>> \in repairing
    /\ registry' = WriteDeviceKey(registry, d, k)
    /\ repairing' = {}
    /\ Observe
    /\ UNCHANGED call

Revoke(d) ==
    /\ registry' = SetDeviceStatus(registry, d, "REVOKED")
    /\ Observe
    /\ UNCHANGED <<repairing, call>>

\* HandleUnpairRequest takes no lock: also between the halves of a write.
Unpair(d) ==
    /\ registry' = DeleteDeviceRecord(registry, d)
    /\ call' = IF call.at # "IDLE" /\ call.buffer.device = d
               THEN [call EXCEPT !.handle = FALSE] ELSE call
    /\ Observe
    /\ UNCHANGED repairing

-----------------------------------------------------------------------------
Init ==
    /\ registry = [d \in Device |-> NoRecord]
    /\ repairing = {}
    /\ loaded = FALSE
    /\ call = IdleCall
    /\ result = "LOGON_FAILURE"
    /\ out = NoOutputs
    /\ heap = {}
    /\ owned = {}
    /\ span = {}

StoreStep ==
    \E d \in Device :
        \/ \E k \in Key : PairBegin(d, k) \/ PairEnd(d, k)
        \/ Revoke(d)
        \/ Unpair(d)

Next ==
    \/ StoreStep
    \/ Initialize
    \/ \E b \in Submitted : LogonUserEx2(b)
    \/ ReadPairStatus
    \/ ReadPublicKey
    \/ Decide
    \/ \E b \in Block \cup {Null} : AllocateName(b) \/ AllocateAuthority(b)
    \/ FreeName
    \/ \E b \in Block : LsassFrees(b)

Spec == Init /\ [][Next]_vars

-----------------------------------------------------------------------------
\* The shape of the state.
TypeOK ==
    /\ registry \in [Device -> DeviceRecord]
    /\ repairing \subseteq Device \X Key
    /\ loaded \in BOOLEAN
    /\ call \in Call
    /\ result \in Status
    /\ out \in [name : Block \cup {Null}, authority : Block \cup {Null}]
    /\ heap \subseteq Block
    /\ owned \subseteq Block
    /\ span \subseteq DeviceRecord

\* A logon that succeeds had the device ACTIVE at some moment of the call, and its
\* record held the key of the signature at some moment of the call, although the
\* values are read one by one while the service writes or deletes the record.
LogonWasTrue ==
    [][result' = "SUCCESS" /\ result # "SUCCESS" =>
          /\ \E r \in span : r.exists /\ r.status = "ACTIVE"
          /\ \E r \in span : r.exists /\ r.key = call.buffer.signer]_vars

\* No block is lost or used after it was freed: what is allocated is what LSASS owns
\* and, in a call that has not succeeded, what the outputs name, which is not
\* LSASS's too.  A call that has failed, also one that failed half way through its
\* allocations, names nothing.
OutputsAreHeap ==
    /\ result = "SUCCESS" => heap = owned
    /\ result # "SUCCESS" => heap = owned \cup Pointed /\ owned \cap Pointed = {}
    /\ result # "SUCCESS" /\ call.at = "IDLE" => out = NoOutputs
=============================================================================
