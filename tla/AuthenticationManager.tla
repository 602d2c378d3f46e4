----------------------- MODULE AuthenticationManager -----------------------
(***************************************************************************)
(* The challenge-response authentication of                                *)
(* windows/authentication/AuthenticationManager.cpp.                       *)
(*                                                                         *)
(* A phone asks for a challenge (AUTH_REQUEST), signs it and sends the     *)
(* signature back (AUTH_RESPONSE).  Both handlers run with m_mutex held    *)
(* and read the clock and the device record once, near their start.  The   *)
(* registry is not under m_mutex: a pairing or an administrator may change *)
(* it while a handler works on the record it has read.  Each handler is    *)
(* therefore two steps, Begin... (clock, rate limit, record) and the rest. *)
(*                                                                         *)
(* The wall clock may be set back, the service may restart at any moment,  *)
(* and the network may delay, duplicate and reorder AUTH_RESPONSE frames:  *)
(* any challenge ever sent can be answered at any time, any number of      *)
(* times, with the signature of any key, and a message may name one device *)
(* with the session id and the nonce of challenges sent to others.         *)
(*                                                                         *)
(* Payloads that do not parse return INVALID_PAYLOAD before anything is    *)
(* read or written and are left out.                                       *)
(***************************************************************************)
EXTENDS DeviceRegistry, Integers

CONSTANTS
    Nonce,              \* the 256-bit random values
    NoNonce,            \* "no challenge"
    ChallengeTTL,       \* CHALLENGE_TTL_SECONDS
    MaxFailedAttempts,  \* MAX_FAILED_ATTEMPTS
    LockoutDuration,    \* LOCKOUT_DURATION_SEC
    MaxTime,            \* bound: the clock stays in 0..MaxTime
    MaxSession,         \* bound: m_sessionCounter stays in 1..MaxSession
    MaxChanges          \* bound: pairings, revocations and unpairings

ASSUME AuthAssumption ==
    /\ NoNonce \notin Nonce
    /\ ChallengeTTL \in Nat
    /\ MaxFailedAttempts \in Nat \ {0}
    /\ LockoutDuration \in Nat \ {0}
    /\ MaxTime \in Nat
    /\ MaxSession \in Nat \ {0}
    /\ MaxChanges \in Nat

VARIABLES
    now,               \* the wall clock (system_clock)
    registry,          \* the device records
    writer,            \* a WriteDeviceRecord between its two halves
    changes,           \* pairings, revocations and unpairings so far
    sessionCounter,    \* m_sessionCounter
    activeChallenges,  \* m_activeChallenges
    rateLimits,        \* m_rateLimits
    handler,           \* the handler that holds m_mutex
    issued,            \* history: the AUTH_CHALLENGE frames sent
    accepted           \* history: how often each nonce got AUTH_SUCCESS

vars == <<now, registry, writer, changes, sessionCounter, activeChallenges, rateLimits,
          handler, issued, accepted>>

registryVars == <<registry, writer, changes>>
historyVars  == <<issued, accepted>>

-----------------------------------------------------------------------------
Time == 0..MaxTime

\* A missing map entry reads like a consumed challenge: both are answered
\* with REPLAY_DETECTED and count as a failure.
NoChallenge == [sessionId |-> 0, nonce |-> NoNonce, createdAt |-> 0, isConsumed |-> TRUE]

ActiveChallenge == [sessionId  : 0..MaxSession,
                    nonce      : Nonce \cup {NoNonce},
                    createdAt  : Time,
                    isConsumed : BOOLEAN]

DeviceRateLimit == [failedCount : Nat, lockoutUntil : Nat]

\* operator[] value-initialises a missing entry.
NoLimit == [failedCount |-> 0, lockoutUntil |-> 0]

ChallengeFrame == [device : Device, sessionId : 1..MaxSession, nonce : Nonce]

\* The fields of a SignedMessage that the handlers read, and the key its
\* signature verifies under.
SignedMessage == [device    : Device,
                  sessionId : 0..MaxSession,
                  nonce     : Nonce \cup {NoNonce},
                  key       : Key]

\* An AUTH_REQUEST carries the device id only.
AuthRequest(d) == [device |-> d, sessionId |-> 0, nonce |-> NoNonce, key |-> NoKey]

\* HandleAuthResponse takes whatever parses: any device id, with the session id
\* and the nonce of any challenges sent so far, of the same one (as an honest
\* phone copies them) or not, signed with any key.
AuthResponses ==
    [device    : Device,
     sessionId : {f.sessionId : f \in issued},
     nonce     : {f.nonce : f \in issued},
     key       : PublicKey]

Idle == [op |-> "NONE"]

Handling == [op     : {"AUTH_REQUEST", "AUTH_RESPONSE"},
             msg    : SignedMessage,
             at     : Time,           \* nowMs
             key    : Key]            \* what ReadDeviceRecord found: the key of
                                      \* a usable record, else NoKey

NoWriter == [op |-> "NONE"]

Writing == [op : {"WRITE"}, device : Device, key : Key]

-----------------------------------------------------------------------------
\* Mutant: looks at the count instead, and misses the last failure.
IsRateLimitedByCount(d, t) == rateLimits[d].failedCount > MaxFailedAttempts

\* IsRateLimited: the test, and the entry it leaves behind when it is false
\* (a lockout that is over is wiped together with its count).
IsRateLimited(d, t) == t < rateLimits[d].lockoutUntil

AfterLockout(l, t) == IF l.lockoutUntil # 0 /\ t >= l.lockoutUntil THEN NoLimit ELSE l

\* Mutant: one failure too many before the lockout.
RecordFailureLate(l, t) ==
    [failedCount  |-> l.failedCount + 1,
     lockoutUntil |-> IF l.failedCount + 1 > MaxFailedAttempts
                      THEN t + LockoutDuration
                      ELSE l.lockoutUntil]

RecordFailure(l, t) ==
    [failedCount  |-> l.failedCount + 1,
     lockoutUntil |-> IF l.failedCount + 1 >= MaxFailedAttempts
                      THEN t + LockoutDuration
                      ELSE l.lockoutUntil]

\* The record as the handlers use it: UNKNOWN_DEVICE, DEVICE_REVOKED and
\* MISSING_PUBLIC_KEY all come out as NoKey.
TrustedKey(r) == IF r.exists /\ r.status = "ACTIVE" THEN r.key ELSE NoKey

IsFresh(c, t) == t >= c.createdAt /\ t - c.createdAt <= ChallengeTTL

\* Mutant: relies on the session id alone.
MatchesSession(c, m) == m.sessionId = c.sessionId

Matches(c, m) == m.sessionId = c.sessionId /\ m.nonce = c.nonce

-----------------------------------------------------------------------------
(* The two handlers.                                                       *)

\* Both handlers: m_mutex is taken, the clock is read; a device that is locked
\* out is turned away with nothing else changed.
RefuseRateLimited(m) ==
    /\ handler = Idle
    /\ IsRateLimited(m.device, now)
    /\ UNCHANGED vars

\* Both handlers: not locked out, the device record is read.
Begin(op, m) ==
    /\ handler = Idle
    /\ ~IsRateLimited(m.device, now)
    /\ rateLimits' = [rateLimits EXCEPT ![m.device] = AfterLockout(@, now)]
    /\ handler' = [op |-> op, msg |-> m, at |-> now, key |-> TrustedKey(registry[m.device])]
    /\ UNCHANGED <<now, registryVars, sessionCounter, activeChallenges, historyVars>>

\* HandleAuthRequest: an unknown, revoked or keyless device.  Not a failure.
RejectRequest ==
    /\ handler # Idle
    /\ handler.op = "AUTH_REQUEST"
    /\ handler.key = NoKey
    /\ handler' = Idle
    /\ UNCHANGED <<now, registryVars, sessionCounter, activeChallenges, rateLimits, historyVars>>

\* HandleAuthRequest: a fresh challenge replaces the device's earlier one.
IssueChallenge(n) ==
    /\ handler # Idle
    /\ handler.op = "AUTH_REQUEST"
    /\ handler.key # NoKey
    /\ sessionCounter < MaxSession
    /\ \A f \in issued : f.nonce # n
    /\ sessionCounter' = sessionCounter + 1
    /\ LET d == handler.msg.device IN
        /\ activeChallenges' = [activeChallenges EXCEPT ![d] =
               [sessionId |-> sessionCounter, nonce |-> n,
                createdAt |-> handler.at, isConsumed |-> FALSE]]
        /\ issued' = issued \cup {[device |-> d, sessionId |-> sessionCounter, nonce |-> n]}
    /\ handler' = Idle
    /\ UNCHANGED <<now, registryVars, rateLimits, accepted>>

\* HandleAuthRequest: BCryptGenRandom fails after the session id was taken.
FailChallenge ==
    /\ handler # Idle
    /\ handler.op = "AUTH_REQUEST"
    /\ handler.key # NoKey
    /\ sessionCounter < MaxSession
    /\ sessionCounter' = sessionCounter + 1
    /\ handler' = Idle
    /\ UNCHANGED <<now, registryVars, activeChallenges, rateLimits, historyVars>>

\* The challenge the response under way is measured against.
Current == activeChallenges[handler.msg.device]

\* Mutant: forgets to consume.
ConsumeNothing(d) == UNCHANGED activeChallenges

Consume(d) == activeChallenges' = [activeChallenges EXCEPT ![d].isConsumed = TRUE]

\* What every failing exit of HandleAuthResponse has in common.
FailResponse ==
    /\ rateLimits' = [rateLimits EXCEPT ![handler.msg.device] = RecordFailure(@, handler.at)]
    /\ handler' = Idle
    /\ UNCHANGED <<now, registryVars, sessionCounter, historyVars>>

InResponse == handler # Idle /\ handler.op = "AUTH_RESPONSE"

InTrustedResponse == InResponse /\ handler.key # NoKey

RejectRecord ==
    /\ InResponse
    /\ handler.key = NoKey
    /\ FailResponse
    /\ UNCHANGED activeChallenges

RejectReplay ==
    /\ InTrustedResponse
    /\ Current.isConsumed
    /\ FailResponse
    /\ UNCHANGED activeChallenges

RejectExpired ==
    /\ InTrustedResponse
    /\ ~Current.isConsumed
    /\ ~IsFresh(Current, handler.at)
    /\ Consume(handler.msg.device)
    /\ FailResponse

RejectMismatch ==
    /\ InTrustedResponse
    /\ ~Current.isConsumed
    /\ IsFresh(Current, handler.at)
    /\ ~Matches(Current, handler.msg)
    /\ Consume(handler.msg.device)
    /\ FailResponse

\* The challenge is consumed before the signature is verified.
RejectSignature ==
    /\ InTrustedResponse
    /\ ~Current.isConsumed
    /\ IsFresh(Current, handler.at)
    /\ Matches(Current, handler.msg)
    /\ handler.msg.key # handler.key
    /\ Consume(handler.msg.device)
    /\ FailResponse

Accept ==
    /\ InTrustedResponse
    /\ ~Current.isConsumed
    /\ IsFresh(Current, handler.at)
    /\ Matches(Current, handler.msg)
    /\ handler.msg.key = handler.key
    /\ Consume(handler.msg.device)
    /\ rateLimits' = [rateLimits EXCEPT ![handler.msg.device] = NoLimit]
    /\ registry' = UpdateLastSeen(registry, handler.msg.device)
    /\ accepted' = [accepted EXCEPT ![handler.msg.nonce] = @ + 1]
    /\ handler' = Idle
    /\ UNCHANGED <<now, writer, changes, sessionCounter, issued>>

-----------------------------------------------------------------------------
(* What goes on around the handlers.                                       *)

CountChange ==
    /\ changes < MaxChanges
    /\ changes' = changes + 1

\* A pairing stores the record (PairingManager calls WriteDeviceRecord).
PairBegin(d, k) ==
    /\ writer = NoWriter
    /\ CountChange
    /\ registry' = WriteDeviceStatus(registry, d)
    /\ writer' = [op |-> "WRITE", device |-> d, key |-> k]
    /\ UNCHANGED <<now, sessionCounter, activeChallenges, rateLimits, handler, historyVars>>

PairEnd ==
    /\ writer # NoWriter
    /\ registry' = WriteDeviceKey(registry, writer.device, writer.key)
    /\ writer' = NoWriter
    /\ UNCHANGED <<now, changes, sessionCounter, activeChallenges, rateLimits, handler,
                   historyVars>>

Revoke(d) ==
    /\ CountChange
    /\ registry' = SetDeviceStatus(registry, d, "REVOKED")
    /\ UNCHANGED <<now, writer, sessionCounter, activeChallenges, rateLimits, handler,
                   historyVars>>

Unpair(d) ==
    /\ CountChange
    /\ registry' = DeleteDeviceRecord(registry, d)
    /\ UNCHANGED <<now, writer, sessionCounter, activeChallenges, rateLimits, handler,
                   historyVars>>

\* The process ends and starts again: only the registry survives, and a
\* half-done WriteDeviceRecord stays half done.
Restart ==
    /\ sessionCounter' = 1
    /\ activeChallenges' = [d \in Device |-> NoChallenge]
    /\ rateLimits' = [d \in Device |-> NoLimit]
    /\ handler' = Idle
    /\ writer' = NoWriter
    /\ UNCHANGED <<now, registry, changes, historyVars>>

\* system_clock is not monotonic.
SetClock(t) ==
    /\ now' = t
    /\ UNCHANGED <<registryVars, sessionCounter, activeChallenges, rateLimits, handler,
                   historyVars>>

-----------------------------------------------------------------------------
Init ==
    /\ now = 0
    /\ registry = [d \in Device |-> NoRecord]
    /\ writer = NoWriter
    /\ changes = 0
    /\ sessionCounter = 1
    /\ activeChallenges = [d \in Device |-> NoChallenge]
    /\ rateLimits = [d \in Device |-> NoLimit]
    /\ handler = Idle
    /\ issued = {}
    /\ accepted = [n \in Nonce |-> 0]

HandleAuthRequest ==
    \/ \E d \in Device : RefuseRateLimited(AuthRequest(d)) \/ Begin("AUTH_REQUEST", AuthRequest(d))
    \/ RejectRequest
    \/ \E n \in Nonce : IssueChallenge(n)
    \/ FailChallenge

HandleAuthResponse ==
    \/ \E m \in AuthResponses : RefuseRateLimited(m) \/ Begin("AUTH_RESPONSE", m)
    \/ RejectRecord
    \/ RejectReplay
    \/ RejectExpired
    \/ RejectMismatch
    \/ RejectSignature
    \/ Accept

RegistryStep ==
    \/ \E d \in Device, k \in Key : PairBegin(d, k)
    \/ PairEnd
    \/ \E d \in Device : Revoke(d) \/ Unpair(d)

Next ==
    \/ HandleAuthRequest
    \/ HandleAuthResponse
    \/ RegistryStep
    \/ Restart
    \/ \E t \in Time : SetClock(t)

Spec == Init /\ [][Next]_vars

-----------------------------------------------------------------------------
\* The shape of the state.
TypeOK ==
    /\ now \in Time
    /\ registry \in [Device -> DeviceRecord]
    /\ writer \in Writing \cup {NoWriter}
    /\ changes \in 0..MaxChanges
    /\ sessionCounter \in 1..MaxSession
    /\ activeChallenges \in [Device -> ActiveChallenge]
    /\ rateLimits \in [Device -> DeviceRateLimit]
    /\ handler \in Handling \cup {Idle}
    /\ issued \subseteq ChallengeFrame
    /\ accepted \in [Nonce -> Nat]

\* A challenge earns at most one AUTH_SUCCESS, however often and however late
\* its response is delivered, also across restarts of the service, where
\* m_sessionCounter starts over and session ids repeat.
OneSuccessPerNonce == \A n \in Nonce : accepted[n] <= 1

\* The failure count and the lockout agree: the count never passes
\* MAX_FAILED_ATTEMPTS, a lockout stands exactly when it is reached, and a
\* handler that got past IsRateLimited works for a device without a lockout.
LockoutMatchesCount ==
    /\ \A d \in Device :
        /\ rateLimits[d].failedCount <= MaxFailedAttempts
        /\ rateLimits[d].failedCount = MaxFailedAttempts <=> rateLimits[d].lockoutUntil # 0
    /\ handler # Idle => rateLimits[handler.msg.device].lockoutUntil = 0

\* While a device is locked out nothing is done for it: no challenge is issued
\* or consumed and the lockout is neither lifted nor prolonged, whatever frames
\* arrive.  Only the loss of the maps in a restart ends it early.
LockedOutUntouched ==
    [][\A d \in Device :
          now < rateLimits[d].lockoutUntil /\ ~Restart =>
              /\ rateLimits'[d] = rateLimits[d]
              /\ activeChallenges'[d] = activeChallenges[d]]_vars

\* Only the newest challenge of a device can succeed, and only for the device it
\* was issued to: every success step accepts a nonce that is at that moment the
\* unconsumed challenge of the device named in its AUTH_CHALLENGE frame.
OnlyNewestChallenge ==
    [][\A f \in issued :
          accepted'[f.nonce] # accepted[f.nonce] =>
              /\ activeChallenges[f.device].nonce = f.nonce
              /\ ~activeChallenges[f.device].isConsumed
              /\ activeChallenges'[f.device].isConsumed]_vars

\* The service promises what OneShotChallenge says.
OneShot == INSTANCE OneShotChallenge WITH
    open   <- [d \in Device |-> IF activeChallenges[d].isConsumed
                                THEN NoNonce ELSE activeChallenges[d].nonce],
    used   <- {f.nonce : f \in issued},
    grants <- accepted

ImplementsOneShot == OneShot!Spec
=============================================================================
