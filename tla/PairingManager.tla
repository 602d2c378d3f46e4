--------------------------- MODULE PairingManager ---------------------------
(***************************************************************************)
(* The pairing of a phone, windows/pairing/PairingManager.cpp.             *)
(*                                                                         *)
(* A phone connected as some client asks to be paired (PAIR_REQUEST); the  *)
(* PC shows a six-digit PIN; the phone sends the PIN its user typed        *)
(* (PAIR_CONFIRM) and, if it is right, the device record is stored.  Those *)
(* handlers and the cancel and expire calls run with m_cs held.            *)
(* HandleUnpairRequest and whoever revokes a device work on the registry   *)
(* without m_cs, also between the two halves of a WriteDeviceRecord.       *)
(*                                                                         *)
(* A PIN is known by its number in the order of generation.  What a client *)
(* typed is either the PIN of its session or not; a PAIR_CONFIRM may be    *)
(* duplicated or arrive for a session that is gone.  The clock may be set  *)
(* back and the service may restart at any moment.                         *)
(*                                                                         *)
(* A PAIR_CONFIRM without a session in WAITING_FOR_SAS changes nothing and *)
(* is left out, as are the display and result callbacks, which run after   *)
(* m_cs is released and are given copies.  The account SID resolves, and a *)
(* device id is a UUID (any other 36 characters become the nil UUID).      *)
(***************************************************************************)
EXTENDS DeviceRegistry, Integers

CONSTANTS
    Client,            \* NetworkEngine client identifiers
    SasMaxAttempts,    \* SAS_MAX_ATTEMPTS
    SasExpiry,         \* SAS_EXPIRY_SECONDS
    MaxPairAttempts,   \* the 5 of IsRateLimited
    RateWindow,        \* the 60 seconds of IsRateLimited
    MaxDevices,        \* kMaxDevicesPerAccount
    Spelling,          \* how phones spell their id: TRUE as DeviceIdToString does
    MaxTime,           \* bound: the clock stays in 0..MaxTime
    MaxPins,           \* bound: number of PINs generated
    MaxFailures        \* bound: failed attempts counted per device

ASSUME PairingAssumption ==
    /\ Device # {}
    /\ SasMaxAttempts \in Nat \ {0}
    /\ SasExpiry \in Nat
    /\ MaxPairAttempts \in Nat \ {0}
    /\ RateWindow \in Nat
    /\ MaxDevices \in Nat \ {0}
    /\ Spelling \subseteq BOOLEAN
    /\ MaxTime \in Nat
    /\ MaxPins \in Nat
    /\ MaxFailures \in Nat

VARIABLES
    now,         \* the system time (GetSystemTimeAsFileTime)
    registry,    \* the device records
    sessions,    \* m_sessions
    rateLimit,   \* m_rateLimitMap
    writer,      \* the client whose WriteDeviceRecord is half done (m_cs held)
    generated,   \* history: PINs generated so far
    compared,    \* history: how often each PIN was compared with a typed one
    redeemed     \* history: how often each PIN paired a device

vars == <<now, registry, sessions, rateLimit, writer, generated, compared, redeemed>>

historyVars == <<generated, compared, redeemed>>

-----------------------------------------------------------------------------
Time == 0..MaxTime

Pin == 1..MaxPins

NoPin == 0

\* UNPAIRED stands for no entry in m_sessions.  The other members of
\* PairingState are set only just before the entry is erased, or never.
PairingSession == [state    : {"UNPAIRED", "WAITING_FOR_SAS", "SAS_VERIFIED", "FAILED"},
                   device   : Device,
                   key      : Key,         \* clientPublicKey, may be empty
                   sasPin   : Pin \cup {NoPin},
                   attempts : Nat,         \* sasAttempts
                   at       : Time]        \* sasGeneratedAt

NoSession == [state |-> "UNPAIRED", device |-> CHOOSE d \in Device : TRUE, key |-> NoKey,
              sasPin |-> NoPin, attempts |-> 0, at |-> 0]

\* A count of 0 stands for no entry in m_rateLimitMap.
NoAttempts == [count |-> 0, windowStart |-> 0]

NoWriter == [op |-> "NONE"]

Writing == [op : {"WRITE"}, client : Client]

-----------------------------------------------------------------------------
\* The difference of the two file times is unsigned: a window that starts in
\* the future is over.
IsRateLimited(d) ==
    /\ rateLimit[d].windowStart <= now
    /\ now - rateLimit[d].windowStart <= RateWindow
    /\ rateLimit[d].count >= MaxPairAttempts

\* The window starts with the first failure and is not started again.
RecordFailedAttempt(l) ==
    [count       |-> l.count + 1,
     windowStart |-> IF l.count = 0 THEN now ELSE l.windowStart]

SasPinExpired(s) == now < s.at \/ now - s.at > SasExpiry

ClearSession(c) == [sessions EXCEPT ![c] = NoSession]

\* m_cs can be taken.
Unlocked == writer = NoWriter

-----------------------------------------------------------------------------
(* HandlePairRequest: any session of the client is given up first.         *)

\* The payload does not parse, or no PIN can be generated.
InvalidPairRequest(c) ==
    /\ Unlocked
    /\ sessions' = ClearSession(c)
    /\ UNCHANGED <<now, registry, rateLimit, writer, historyVars>>

\* Mutant: no account limit.
RefusedNoLimit(d, exact) == (exact /\ IsRateLimited(d)) \/ IsDeviceActive(registry, d)

\* The rate limit is looked up under the id as the phone spelled it and recorded
\* under the spelling of DeviceIdToString (lower case); registry keys ignore case.
Refused(d, exact) ==
    \/ exact /\ IsRateLimited(d)
    \/ IsDeviceActive(registry, d)
    \/ CountActiveDevicesForAccount(registry) >= MaxDevices

RefusePairRequest(c, d, exact) ==
    /\ Unlocked
    /\ Refused(d, exact)
    /\ sessions' = ClearSession(c)
    /\ UNCHANGED <<now, registry, rateLimit, writer, historyVars>>

OpenSession(c, d, k, exact) ==
    /\ Unlocked
    /\ ~Refused(d, exact)
    /\ generated < MaxPins
    /\ generated' = generated + 1
    /\ sessions' = [sessions EXCEPT ![c] =
           [state |-> "WAITING_FOR_SAS", device |-> d, key |-> k,
            sasPin |-> generated + 1, attempts |-> 0, at |-> now]]
    /\ UNCHANGED <<now, registry, rateLimit, writer, compared, redeemed>>

-----------------------------------------------------------------------------
(* HandlePairConfirm.                                                      *)

Waiting(c) == sessions[c].state = "WAITING_FOR_SAS"

\* Bound: the failures counted for a device stay finite.
CountFailure(d) ==
    /\ rateLimit[d].count < MaxFailures
    /\ rateLimit' = [rateLimit EXCEPT ![d] = RecordFailedAttempt(@)]

CountAttempt(s) == [s EXCEPT !.attempts = @ + 1]

\* The payload does not parse: the last attempt fails the session but the
\* entry, with its PIN, stays.
AfterInvalidConfirm(s) ==
    IF s.attempts + 1 >= SasMaxAttempts
    THEN [CountAttempt(s) EXCEPT !.state = "FAILED"]
    ELSE CountAttempt(s)

InvalidConfirm(c) ==
    /\ Unlocked
    /\ Waiting(c)
    /\ CountFailure(sessions[c].device)
    /\ sessions' = [sessions EXCEPT ![c] = AfterInvalidConfirm(@)]
    /\ UNCHANGED <<now, registry, writer, generated, compared, redeemed>>

\* ValidateSasPin says no before it compares: too many attempts or too late, or
\* the typed text is not six digits.
RefusedPin(c) == sessions[c].attempts >= SasMaxAttempts \/ SasPinExpired(sessions[c])

\* Mutant: a wrong PIN is not counted.
AfterWrongPinUncounted(s) == IF SasPinExpired(s) THEN NoSession ELSE s

\* What a confirmation without the right PIN leaves of the session.
AfterWrongPin(s) ==
    IF SasPinExpired(s) \/ s.attempts + 1 >= SasMaxAttempts
    THEN NoSession
    ELSE CountAttempt(s)

UncomparedConfirm(c) ==
    /\ Unlocked
    /\ Waiting(c)
    /\ CountFailure(sessions[c].device)
    /\ sessions' = [sessions EXCEPT ![c] = AfterWrongPin(@)]
    /\ UNCHANGED <<now, registry, writer, generated, compared, redeemed>>

WrongConfirm(c) ==
    /\ Unlocked
    /\ Waiting(c)
    /\ ~RefusedPin(c)
    /\ CountFailure(sessions[c].device)
    /\ sessions' = [sessions EXCEPT ![c] = AfterWrongPin(@)]
    /\ compared' = [compared EXCEPT ![sessions[c].sasPin] = @ + 1]
    /\ UNCHANGED <<now, registry, writer, generated, redeemed>>

\* Mutant: the session goes on waiting for a PIN.
VerifiedDropped(c) == sessions

Verified(c) == [sessions EXCEPT ![c].state = "SAS_VERIFIED"]

\* The right PIN in time: the first half of WriteDeviceRecord.  Neither the
\* account limit nor the status of the device is looked at again.
RightConfirm(c) ==
    /\ Unlocked
    /\ Waiting(c)
    /\ ~RefusedPin(c)
    /\ sessions' = Verified(c)
    /\ registry' = WriteDeviceStatus(registry, sessions[c].device)
    /\ writer' = [op |-> "WRITE", client |-> c]
    /\ compared' = [compared EXCEPT ![sessions[c].sasPin] = @ + 1]
    /\ redeemed' = [redeemed EXCEPT ![sessions[c].sasPin] = @ + 1]
    /\ UNCHANGED <<now, rateLimit, generated>>

\* The second half, PAIR_COMPLETE, and m_cs is released.
CompletePairing ==
    /\ ~Unlocked
    /\ LET s == sessions[writer.client] IN
        /\ registry' = WriteDeviceKey(registry, s.device, s.key)
        /\ rateLimit' = [rateLimit EXCEPT ![s.device] = NoAttempts]
    /\ sessions' = ClearSession(writer.client)
    /\ writer' = NoWriter
    /\ UNCHANGED <<now, generated, compared, redeemed>>

\* The right PIN, but the registry key cannot be created: INTERNAL_ERROR.  The
\* failed attempts are forgotten all the same.
FailWrite(c) ==
    /\ Unlocked
    /\ Waiting(c)
    /\ ~RefusedPin(c)
    /\ rateLimit' = [rateLimit EXCEPT ![sessions[c].device] = NoAttempts]
    /\ compared' = [compared EXCEPT ![sessions[c].sasPin] = @ + 1]
    /\ sessions' = ClearSession(c)
    /\ UNCHANGED <<now, registry, writer, generated, redeemed>>

-----------------------------------------------------------------------------
(* The other calls, and what goes on around them.                          *)

CancelPairingSession(c) ==
    /\ Unlocked
    /\ sessions' = ClearSession(c)
    /\ UNCHANGED <<now, registry, rateLimit, writer, historyVars>>

ExpireStaleSessions ==
    /\ Unlocked
    /\ sessions' = [c \in Client |->
           IF sessions[c].state # "UNPAIRED" /\ SasPinExpired(sessions[c])
           THEN NoSession ELSE sessions[c]]
    /\ UNCHANGED <<now, registry, rateLimit, writer, historyVars>>

HandleUnpairRequest(d) ==
    /\ registry' = DeleteDeviceRecord(registry, d)
    /\ UNCHANGED <<now, sessions, rateLimit, writer, historyVars>>

\* An administrator sets PairStatus.
Revoke(d) ==
    /\ registry' = SetDeviceStatus(registry, d, "REVOKED")
    /\ UNCHANGED <<now, sessions, rateLimit, writer, historyVars>>

\* The process ends, perhaps in the middle of a write, and starts again.
Restart ==
    /\ sessions' = [c \in Client |-> NoSession]
    /\ rateLimit' = [d \in Device |-> NoAttempts]
    /\ writer' = NoWriter
    /\ UNCHANGED <<now, registry, generated, compared, redeemed>>

SetClock(t) ==
    /\ t # now
    /\ now' = t
    /\ UNCHANGED <<registry, sessions, rateLimit, writer, generated, compared, redeemed>>

-----------------------------------------------------------------------------
Init ==
    /\ now = 0
    /\ registry = [d \in Device |-> NoRecord]
    /\ sessions = [c \in Client |-> NoSession]
    /\ rateLimit = [d \in Device |-> NoAttempts]
    /\ writer = NoWriter
    /\ generated = 0
    /\ compared = [p \in Pin |-> 0]
    /\ redeemed = [p \in Pin |-> 0]

HandlePairRequest(c) ==
    \/ InvalidPairRequest(c)
    \/ \E d \in Device, exact \in Spelling : RefusePairRequest(c, d, exact)
    \/ \E d \in Device, k \in Key, exact \in Spelling : OpenSession(c, d, k, exact)

HandlePairConfirm(c) ==
    \/ InvalidConfirm(c)
    \/ UncomparedConfirm(c)
    \/ WrongConfirm(c)
    \/ RightConfirm(c)
    \/ FailWrite(c)

Next ==
    \/ \E c \in Client : HandlePairRequest(c) \/ HandlePairConfirm(c) \/ CancelPairingSession(c)
    \/ CompletePairing
    \/ ExpireStaleSessions
    \/ \E d \in Device : HandleUnpairRequest(d) \/ Revoke(d)
    \/ Restart
    \/ \E t \in Time : SetClock(t)

Spec == Init /\ [][Next]_vars

-----------------------------------------------------------------------------
\* The shape of the state.
TypeOK ==
    /\ now \in Time
    /\ registry \in [Device -> DeviceRecord]
    /\ sessions \in [Client -> PairingSession]
    /\ rateLimit \in [Device -> [count : Nat, windowStart : Time]]
    /\ writer \in Writing \cup {NoWriter}
    /\ generated \in 0..MaxPins
    /\ compared \in [Pin -> Nat]
    /\ redeemed \in [Pin -> Nat]

\* A PIN is compared with what a user typed at most SAS_MAX_ATTEMPTS times,
\* however PAIR_CONFIRM frames are repeated, mixed with malformed ones and
\* interleaved with requests, cancellations and expiry.
GuessBudget == \A p \in Pin : compared[p] <= SasMaxAttempts

\* A device becomes ACTIVE only by the redemption of the PIN of a session opened
\* for that device; in particular the second half of a record write does not undo
\* an unpairing or a revocation that came between the halves.
ActiveOnlyByPin ==
    [][\A d \in Device :
          IsDeviceActive(registry', d) /\ ~IsDeviceActive(registry, d) =>
              \E c \in Client :
                  /\ sessions[c].device = d
                  /\ sessions[c].sasPin # NoPin
                  /\ redeemed'[sessions[c].sasPin] = redeemed[sessions[c].sasPin] + 1]_vars

Pending == {c \in Client : Waiting(c)}

\* What the documents promise: no more than kMaxDevicesPerAccount devices are active
\* for the account.  It does not hold: the count is read when a session is opened and
\* the record is written when its PIN is confirmed, and nothing is read again then,
\* so sessions that were open together pass the limit together.
AccountLimit == CountActiveDevicesForAccount(registry) <= MaxDevices

\* How far the account limit is passed: by no more than the sessions that were open
\* together.  Active devices and open sessions never exceed MaxDevices - 1 plus one
\* session per client.
AccountLimitSlack ==
    CountActiveDevicesForAccount(registry) + Cardinality(Pending)
        <= MaxDevices - 1 + Cardinality(Client)

\* Towards its clients a PIN is a one-shot challenge: generated once, open in at
\* most one session per client, and redeemed at most once or given up for good.
OneShot == INSTANCE OneShotChallenge WITH
    Device  <- Client,
    Nonce   <- Pin,
    NoNonce <- NoPin,
    open    <- [c \in Client |-> IF Waiting(c) THEN sessions[c].sasPin ELSE NoPin],
    used    <- 1..generated,
    grants  <- redeemed

PinIsOneShot == OneShot!Spec

=============================================================================
