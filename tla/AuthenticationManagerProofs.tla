-------------------- MODULE AuthenticationManagerProofs --------------------
(***************************************************************************)
(* For every set of devices, keys and nonces and every value of the time   *)
(* and session bounds: the state is well typed, the failure count agrees   *)
(* with the lockout, a challenge succeeds at most once, and the service    *)
(* implements OneShotChallenge.                                            *)
(***************************************************************************)
EXTENDS AuthenticationManager, TLAPS

\* The registry operations that are called here return a registry.
LEMMA RegistryTyped ==
    ASSUME NEW reg \in [Device -> DeviceRecord], NEW d \in Device, NEW k \in Key
    PROVE  /\ WriteDeviceStatus(reg, d) \in [Device -> DeviceRecord]
           /\ WriteDeviceKey(reg, d, k) \in [Device -> DeviceRecord]
           /\ SetDeviceStatus(reg, d, "REVOKED") \in [Device -> DeviceRecord]
           /\ UpdateLastSeen(reg, d) \in [Device -> DeviceRecord]
           /\ DeleteDeviceRecord(reg, d) \in [Device -> DeviceRecord]
<1> USE DEF DeviceRecord, Key, NoRecord
<1>1. WriteDeviceStatus(reg, d) \in [Device -> DeviceRecord]
  BY DEF WriteDeviceStatus
<1>2. WriteDeviceKey(reg, d, k) \in [Device -> DeviceRecord]
  BY DEF WriteDeviceKey
<1>3. SetDeviceStatus(reg, d, "REVOKED") \in [Device -> DeviceRecord]
  BY DEF SetDeviceStatus
<1>4. UpdateLastSeen(reg, d) \in [Device -> DeviceRecord]
  BY DEF UpdateLastSeen
<1>5. DeleteDeviceRecord(reg, d) \in [Device -> DeviceRecord]
  BY DEF DeleteDeviceRecord
<1> QED
  BY <1>1, <1>2, <1>3, <1>4, <1>5

\* The failure bookkeeping stays within its type.
LEMMA RateLimitTyped ==
    ASSUME NEW l \in DeviceRateLimit, NEW t \in Time
    PROVE  /\ AfterLockout(l, t) \in DeviceRateLimit
           /\ RecordFailure(l, t) \in DeviceRateLimit
BY AuthAssumption DEF AfterLockout, RecordFailure, DeviceRateLimit, NoLimit, Time

\* The messages the handlers take are well typed.
LEMMA MessagesTyped ==
    ASSUME TypeOK
    PROVE  /\ \A d \in Device : AuthRequest(d) \in SignedMessage
           /\ AuthResponses \subseteq SignedMessage
BY AuthAssumption DEF TypeOK, AuthRequest, AuthResponses, SignedMessage, ChallengeFrame, Key

\* Consuming a challenge keeps the challenge map well typed.
LEMMA ConsumeTyped ==
    ASSUME activeChallenges \in [Device -> ActiveChallenge], NEW d \in Device, Consume(d)
    PROVE  activeChallenges' \in [Device -> ActiveChallenge]
BY DEF Consume, ActiveChallenge

\* The initial state is well typed.
LEMMA TypeInit == Init => TypeOK
BY AuthAssumption
   DEF Init, TypeOK, Time, DeviceRecord, NoRecord, Key, ActiveChallenge, NoChallenge,
       DeviceRateLimit, NoLimit

\* Every step keeps the state well typed.
LEMMA TypeStep == TypeOK /\ [Next]_vars => TypeOK'
<1> SUFFICES ASSUME TypeOK, [Next]_vars PROVE TypeOK'
  OBVIOUS
<1> USE AuthAssumption DEF TypeOK, historyVars, registryVars
<1>1. ASSUME NEW m \in SignedMessage, RefuseRateLimited(m) PROVE TypeOK'
  BY <1>1 DEF RefuseRateLimited, vars
<1>2. ASSUME NEW m \in SignedMessage, NEW op \in {"AUTH_REQUEST", "AUTH_RESPONSE"}, Begin(op, m)
      PROVE  TypeOK'
  <2>1. m.device \in Device
    BY DEF SignedMessage
  <2>2. AfterLockout(rateLimits[m.device], now) \in DeviceRateLimit
    BY <2>1, RateLimitTyped
  <2>3. TrustedKey(registry[m.device]) \in Key
    BY <2>1 DEF TrustedKey, DeviceRecord, Key
  <2>4. handler' \in Handling
    BY <1>2, <2>3 DEF Begin, Handling
  <2>5. rateLimits' \in [Device -> DeviceRateLimit]
    BY <1>2, <2>1, <2>2 DEF Begin
  <2> QED
    BY <1>2, <2>4, <2>5 DEF Begin
<1>3. CASE RejectRequest
  BY <1>3 DEF RejectRequest
<1>4. ASSUME NEW n \in Nonce, IssueChallenge(n) PROVE TypeOK'
  <2>1. handler \in Handling /\ handler.msg \in SignedMessage /\ handler.at \in Time
    BY <1>4 DEF IssueChallenge, Handling, Idle
  <2>2. handler.msg.device \in Device
    BY <2>1 DEF SignedMessage
  <2>3. sessionCounter' \in 1..MaxSession
    BY <1>4 DEF IssueChallenge
  <2>4. activeChallenges' \in [Device -> ActiveChallenge]
    BY <1>4, <2>1, <2>2 DEF IssueChallenge, ActiveChallenge
  <2>5. issued' \subseteq ChallengeFrame
    BY <1>4, <2>2 DEF IssueChallenge, ChallengeFrame
  <2> QED
    BY <1>4, <2>3, <2>4, <2>5 DEF IssueChallenge
<1>5. CASE FailChallenge
  BY <1>5 DEF FailChallenge
<1>6. ASSUME InResponse
      PROVE  /\ handler \in Handling /\ handler.msg \in SignedMessage /\ handler.at \in Time
             /\ handler.msg.device \in Device
             /\ RecordFailure(rateLimits[handler.msg.device], handler.at) \in DeviceRateLimit
  <2>1. handler \in Handling
    BY <1>6 DEF InResponse
  <2>2. handler.msg \in SignedMessage /\ handler.at \in Time
    BY <2>1 DEF Handling
  <2>3. handler.msg.device \in Device
    BY <2>2 DEF SignedMessage
  <2> QED
    BY <2>1, <2>2, <2>3, RateLimitTyped
<1>7. ASSUME InResponse, FailResponse,
             \/ UNCHANGED activeChallenges
             \/ Consume(handler.msg.device)
      PROVE  TypeOK'
  <2>1. rateLimits' \in [Device -> DeviceRateLimit]
    BY <1>6, <1>7 DEF FailResponse
  <2>2. activeChallenges' \in [Device -> ActiveChallenge]
    <3>1. CASE UNCHANGED activeChallenges
      BY <3>1
    <3>2. CASE Consume(handler.msg.device)
      BY <1>6, <1>7, <3>2, ConsumeTyped
    <3> QED
      BY <1>7, <3>1, <3>2
  <2> QED
    BY <1>7, <2>1, <2>2 DEF FailResponse
<1>8. CASE RejectRecord
  BY <1>7, <1>8 DEF RejectRecord
<1>9. CASE RejectReplay
  BY <1>7, <1>9 DEF RejectReplay, InTrustedResponse
<1>10. CASE RejectExpired
  BY <1>7, <1>10 DEF RejectExpired, InTrustedResponse
<1>11. CASE RejectMismatch
  BY <1>7, <1>11 DEF RejectMismatch, InTrustedResponse
<1>12. CASE RejectSignature
  BY <1>7, <1>12 DEF RejectSignature, InTrustedResponse
<1>13. CASE Accept
  <2>1. handler.msg.device \in Device
    BY <1>6, <1>13 DEF Accept, InTrustedResponse
  <2>2. registry' \in [Device -> DeviceRecord]
    BY <1>13, <2>1, RegistryTyped DEF Accept, Key
  <2>3. rateLimits' \in [Device -> DeviceRateLimit]
    BY <1>13, <2>1 DEF Accept, NoLimit, DeviceRateLimit
  <2>4. activeChallenges' \in [Device -> ActiveChallenge]
    BY <1>13, <2>1, ConsumeTyped DEF Accept
  <2>5. accepted' \in [Nonce -> Nat]
    <3>1. CASE handler.msg.nonce \in Nonce
      BY <1>13, <3>1 DEF Accept
    <3>2. CASE handler.msg.nonce \notin Nonce
      BY <1>13, <3>2 DEF Accept
    <3> QED
      BY <3>1, <3>2
  <2> QED
    BY <1>13, <2>2, <2>3, <2>4, <2>5 DEF Accept
<1>14. ASSUME NEW d \in Device, NEW k \in Key, PairBegin(d, k) PROVE TypeOK'
  BY <1>14, RegistryTyped DEF PairBegin, CountChange, Writing
<1>15. CASE PairEnd
  <2>1. writer.device \in Device /\ writer.key \in Key
    BY <1>15 DEF PairEnd, Writing
  <2>2. registry' \in [Device -> DeviceRecord]
    BY <1>15, <2>1, RegistryTyped DEF PairEnd
  <2> QED
    BY <1>15, <2>2 DEF PairEnd
<1>16. ASSUME NEW d \in Device, Revoke(d) \/ Unpair(d) PROVE TypeOK'
  <2>1. NoKey \in Key
    BY DEF Key
  <2>2. registry' \in [Device -> DeviceRecord]
    BY <1>16, <2>1, RegistryTyped DEF Revoke, Unpair
  <2> QED
    BY <1>16, <2>2 DEF Revoke, Unpair, CountChange
<1>17. CASE Restart
  BY <1>17 DEF Restart, ActiveChallenge, NoChallenge, DeviceRateLimit, NoLimit, Time
<1>18. ASSUME NEW t \in Time, SetClock(t) PROVE TypeOK'
  BY <1>18 DEF SetClock
<1>19. CASE UNCHANGED vars
  BY <1>19 DEF vars
<1>20. CASE HandleAuthRequest
  BY <1>20, <1>1, <1>2, <1>3, <1>4, <1>5, MessagesTyped DEF HandleAuthRequest
<1>21. CASE HandleAuthResponse
  BY <1>21, <1>1, <1>2, <1>8, <1>9, <1>10, <1>11, <1>12, <1>13, MessagesTyped
     DEF HandleAuthResponse
<1>22. CASE RegistryStep
  BY <1>22, <1>14, <1>15, <1>16 DEF RegistryStep
<1> QED
  BY <1>17, <1>18, <1>19, <1>20, <1>21, <1>22 DEF Next

\* Every reachable state is well typed.
THEOREM TypeCorrect == Spec => []TypeOK
BY TypeInit, TypeStep, PTL DEF Spec

-----------------------------------------------------------------------------
(***************************************************************************)
(* The lockout.  LockoutMatchesCount is inductive once the state is typed: *)
(* the last conjunct (a handler never works for a locked out device) is    *)
(* what keeps RecordFailure from counting past the limit.                  *)
(***************************************************************************)

\* One more failure of a device that is not locked out keeps count and
\* lockout in agreement.
LEMMA FailureKeepsAgreement ==
    ASSUME NEW l \in DeviceRateLimit, NEW t \in Time,
           l.failedCount <= MaxFailedAttempts,
           l.failedCount = MaxFailedAttempts <=> l.lockoutUntil # 0,
           l.lockoutUntil = 0
    PROVE  /\ RecordFailure(l, t).failedCount <= MaxFailedAttempts
           /\ RecordFailure(l, t).failedCount = MaxFailedAttempts
                 <=> RecordFailure(l, t).lockoutUntil # 0
BY AuthAssumption DEF RecordFailure, DeviceRateLimit, Time

\* Initially nobody has failed and nobody is locked out.
LEMMA LockoutInit == Init => LockoutMatchesCount
BY AuthAssumption DEF Init, LockoutMatchesCount, NoLimit

\* Every step keeps the count and the lockout in agreement.
LEMMA LockoutStep == TypeOK /\ LockoutMatchesCount /\ [Next]_vars => LockoutMatchesCount'
<1> SUFFICES ASSUME TypeOK, LockoutMatchesCount, [Next]_vars
             PROVE  LockoutMatchesCount'
  OBVIOUS
<1> USE AuthAssumption DEF historyVars, registryVars
<1>1. ASSUME UNCHANGED rateLimits, handler' \in {handler, Idle}
      PROVE  LockoutMatchesCount'
  BY <1>1 DEF LockoutMatchesCount
<1>2. ASSUME NEW m \in SignedMessage, NEW op \in {"AUTH_REQUEST", "AUTH_RESPONSE"}, Begin(op, m)
      PROVE  LockoutMatchesCount'
  <2>1. m.device \in Device /\ now \in Time
    BY DEF SignedMessage, TypeOK
  <2>2. rateLimits \in [Device -> DeviceRateLimit]
    BY DEF TypeOK
  <2>3. rateLimits' = [rateLimits EXCEPT ![m.device] = AfterLockout(rateLimits[m.device], now)]
    BY <1>2 DEF Begin
  <2>4. /\ AfterLockout(rateLimits[m.device], now).lockoutUntil = 0
        /\ AfterLockout(rateLimits[m.device], now).failedCount # MaxFailedAttempts
        /\ AfterLockout(rateLimits[m.device], now).failedCount <= MaxFailedAttempts
    BY <1>2, <2>1, <2>2
       DEF Begin, IsRateLimited, AfterLockout, NoLimit, DeviceRateLimit, LockoutMatchesCount, Time
  <2>5. handler'.msg.device = m.device
    BY <1>2 DEF Begin
  <2> QED
    BY <2>1, <2>2, <2>3, <2>4, <2>5 DEF LockoutMatchesCount
<1>3. ASSUME InResponse, FailResponse PROVE LockoutMatchesCount'
  <2>1. handler \in Handling
    BY <1>3 DEF InResponse, TypeOK
  <2>2. handler.msg.device \in Device /\ handler.at \in Time
    BY <2>1 DEF Handling, SignedMessage
  <2>3. rateLimits \in [Device -> DeviceRateLimit]
    BY DEF TypeOK
  <2>4. rateLimits[handler.msg.device].lockoutUntil = 0
    BY <1>3 DEF LockoutMatchesCount, InResponse
  <2> DEFINE l == RecordFailure(rateLimits[handler.msg.device], handler.at)
  <2>5. /\ l.failedCount <= MaxFailedAttempts
        /\ l.failedCount = MaxFailedAttempts <=> l.lockoutUntil # 0
    BY <2>2, <2>3, <2>4, FailureKeepsAgreement DEF LockoutMatchesCount
  <2>6. rateLimits' = [rateLimits EXCEPT ![handler.msg.device] = l] /\ handler' = Idle
    BY <1>3 DEF FailResponse
  <2> HIDE DEF l
  <2> QED
    BY <2>2, <2>3, <2>5, <2>6 DEF LockoutMatchesCount
<1>4. CASE Accept
  <2>1. rateLimits' = [rateLimits EXCEPT ![handler.msg.device] = NoLimit] /\ handler' = Idle
    BY <1>4 DEF Accept
  <2>2. rateLimits \in [Device -> DeviceRateLimit]
    BY DEF TypeOK
  <2> QED
    BY <2>1, <2>2 DEF LockoutMatchesCount, NoLimit
<1>5. CASE Restart
  BY <1>5 DEF Restart, LockoutMatchesCount, NoLimit
<1>6. CASE HandleAuthRequest
  <2>1. CASE \E d \in Device : RefuseRateLimited(AuthRequest(d))
    BY <2>1, <1>1 DEF RefuseRateLimited, vars
  <2>2. CASE \E d \in Device : Begin("AUTH_REQUEST", AuthRequest(d))
    BY <2>2, <1>2, MessagesTyped
  <2>3. CASE RejectRequest
    BY <2>3, <1>1 DEF RejectRequest
  <2>4. CASE \E n \in Nonce : IssueChallenge(n)
    BY <2>4, <1>1 DEF IssueChallenge
  <2>5. CASE FailChallenge
    BY <2>5, <1>1 DEF FailChallenge
  <2> QED
    BY <1>6, <2>1, <2>2, <2>3, <2>4, <2>5 DEF HandleAuthRequest
<1>7. CASE HandleAuthResponse
  <2>1. CASE \E m \in AuthResponses : RefuseRateLimited(m)
    BY <2>1, <1>1 DEF RefuseRateLimited, vars
  <2>2. CASE \E m \in AuthResponses : Begin("AUTH_RESPONSE", m)
    BY <2>2, <1>2, MessagesTyped
  <2>3. CASE RejectRecord \/ RejectReplay \/ RejectExpired \/ RejectMismatch \/ RejectSignature
    BY <2>3, <1>3 DEF RejectRecord, RejectReplay, RejectExpired, RejectMismatch,
                      RejectSignature, InTrustedResponse
  <2> QED
    BY <1>4, <1>7, <2>1, <2>2, <2>3 DEF HandleAuthResponse
<1>8. CASE RegistryStep
  BY <1>8, <1>1 DEF RegistryStep, PairBegin, PairEnd, Revoke, Unpair
<1>9. CASE \E t \in Time : SetClock(t)
  BY <1>9, <1>1 DEF SetClock
<1>10. CASE UNCHANGED vars
  BY <1>10, <1>1 DEF vars
<1> QED
  BY <1>5, <1>6, <1>7, <1>8, <1>9, <1>10 DEF Next

\* In every reachable state a device is locked out exactly when it has used up
\* its attempts, and no handler works for a locked out device.
THEOREM LockoutCorrect == Spec => []LockoutMatchesCount
BY TypeCorrect, LockoutInit, LockoutStep, PTL DEF Spec

-----------------------------------------------------------------------------
(***************************************************************************)
(* One success per nonce.  By itself the bound is not inductive: Accept    *)
(* needs to know that an unconsumed challenge was never accepted before,   *)
(* and that no other device holds the same nonce.  ChallengeInv adds both, *)
(* with the history of issued frames as the link.                          *)
(***************************************************************************)
IssuedOnce == \A f, g \in issued : f.nonce = g.nonce => f = g

\* A challenge that can still be answered is one that was sent to its device.
OpenIsIssued ==
    \A d \in Device : ~activeChallenges[d].isConsumed =>
        \E f \in issued : f.device = d /\ f.nonce = activeChallenges[d].nonce

UnissuedNotAccepted ==
    \A n \in Nonce : accepted[n] # 0 => \E f \in issued : f.nonce = n

OpenNotAccepted ==
    \A d \in Device : ~activeChallenges[d].isConsumed => accepted[activeChallenges[d].nonce] = 0

ChallengeInv ==
    /\ IssuedOnce
    /\ OpenIsIssued
    /\ UnissuedNotAccepted
    /\ OpenNotAccepted
    /\ OneSuccessPerNonce

\* Initially no challenge exists.
LEMMA ChallengeInit == Init => ChallengeInv
BY DEF Init, ChallengeInv, IssuedOnce, OpenIsIssued, UnissuedNotAccepted, OpenNotAccepted,
       OneSuccessPerNonce, NoChallenge

\* A step that at most consumes challenges and leaves the history alone keeps
\* ChallengeInv.
LEMMA ClosingKeepsInv ==
    ASSUME TypeOK, ChallengeInv, UNCHANGED <<issued, accepted>>,
           \A d \in Device : \/ activeChallenges'[d].isConsumed
                             \/ activeChallenges'[d] = activeChallenges[d]
    PROVE  ChallengeInv'
BY DEF TypeOK, ActiveChallenge, ChallengeInv, IssuedOnce, OpenIsIssued, UnissuedNotAccepted,
       OpenNotAccepted, OneSuccessPerNonce

\* Consuming the challenge of one device closes it and leaves the others alone.
LEMMA ConsumeCloses ==
    ASSUME TypeOK, NEW e \in Device, Consume(e)
    PROVE  \A d \in Device : \/ activeChallenges'[d].isConsumed
                             \/ activeChallenges'[d] = activeChallenges[d]
BY DEF TypeOK, ActiveChallenge, Consume

\* Every step keeps ChallengeInv.
LEMMA ChallengeStep == TypeOK /\ ChallengeInv /\ [Next]_vars => ChallengeInv'
<1> SUFFICES ASSUME TypeOK, ChallengeInv, [Next]_vars
             PROVE  ChallengeInv'
  OBVIOUS
<1> USE DEF historyVars, registryVars
<1>1. ASSUME UNCHANGED <<issued, accepted, activeChallenges>> PROVE ChallengeInv'
  BY <1>1, ClosingKeepsInv
<1>2. ASSUME NEW n \in Nonce, IssueChallenge(n) PROVE ChallengeInv'
  <2> DEFINE dev == handler.msg.device
             frame == [device |-> dev, sessionId |-> sessionCounter, nonce |-> n]
  <2>1. dev \in Device
    BY <1>2 DEF IssueChallenge, TypeOK, Handling, SignedMessage
  <2>2. /\ issued' = issued \cup {frame}
        /\ accepted' = accepted
        /\ \A f \in issued : f.nonce # n
    BY <1>2 DEF IssueChallenge
  <2>3. /\ activeChallenges'[dev].nonce = n
        /\ \A d \in Device \ {dev} : activeChallenges'[d] = activeChallenges[d]
    BY <1>2, <2>1 DEF IssueChallenge, TypeOK
  <2>4. frame.device = dev /\ frame.nonce = n
    OBVIOUS
  <2>5. accepted[n] = 0
    BY <2>2 DEF ChallengeInv, UnissuedNotAccepted
  <2> HIDE DEF dev, frame
  <2>6. IssuedOnce'
    BY <2>2, <2>4 DEF ChallengeInv, IssuedOnce
  <2>7. OpenIsIssued'
    BY <2>1, <2>2, <2>3, <2>4 DEF ChallengeInv, OpenIsIssued
  <2>8. UnissuedNotAccepted'
    BY <2>2 DEF ChallengeInv, UnissuedNotAccepted
  <2>9. OpenNotAccepted'
    BY <2>1, <2>2, <2>3, <2>5 DEF ChallengeInv, OpenNotAccepted
  <2>10. OneSuccessPerNonce'
    BY <2>2 DEF ChallengeInv, OneSuccessPerNonce
  <2> QED
    BY <2>6, <2>7, <2>8, <2>9, <2>10 DEF ChallengeInv
<1>3. ASSUME InResponse, FailResponse,
             UNCHANGED activeChallenges \/ Consume(handler.msg.device)
      PROVE  ChallengeInv'
  <2>1. handler.msg.device \in Device
    BY <1>3 DEF InResponse, TypeOK, Handling, SignedMessage
  <2> QED
    BY <1>3, <2>1, ConsumeCloses, ClosingKeepsInv DEF FailResponse
<1>4. CASE Accept
  <2> DEFINE dev == handler.msg.device
             n == handler.msg.nonce
  <2>1. dev \in Device
    BY <1>4 DEF Accept, InTrustedResponse, InResponse, TypeOK, Handling, SignedMessage
  <2>2. /\ n = activeChallenges[dev].nonce
        /\ ~activeChallenges[dev].isConsumed
        /\ issued' = issued
        /\ accepted' = [accepted EXCEPT ![n] = accepted[n] + 1]
    BY <1>4 DEF Accept, Matches, Current
  <2>3. /\ activeChallenges'[dev].isConsumed
        /\ \A d \in Device \ {dev} : activeChallenges'[d] = activeChallenges[d]
    BY <1>4, <2>1 DEF Accept, Consume, TypeOK, ActiveChallenge
  <2> HIDE DEF dev, n
  <2>4. PICK f \in issued : f.device = dev /\ f.nonce = n
    BY <2>1, <2>2 DEF ChallengeInv, OpenIsIssued
  <2>5. n \in Nonce
    BY <2>4 DEF TypeOK, ChallengeFrame
  <2>6. accepted[n] = 0 /\ accepted \in [Nonce -> Nat]
    BY <2>1, <2>2 DEF ChallengeInv, OpenNotAccepted, TypeOK
  <2>7. accepted'[n] = 1 /\ \A i \in Nonce \ {n} : accepted'[i] = accepted[i]
    BY <2>2, <2>5, <2>6
  <2>8. \A d \in Device \ {dev} : ~activeChallenges[d].isConsumed =>
            activeChallenges[d].nonce # n /\ activeChallenges[d].nonce \in Nonce
    <3>1. SUFFICES ASSUME NEW d \in Device \ {dev}, ~activeChallenges[d].isConsumed
                   PROVE  activeChallenges[d].nonce # n /\ activeChallenges[d].nonce \in Nonce
      OBVIOUS
    <3>2. PICK g \in issued : g.device = d /\ g.nonce = activeChallenges[d].nonce
      BY <3>1 DEF ChallengeInv, OpenIsIssued
    <3> QED
      BY <2>4, <3>1, <3>2 DEF ChallengeInv, IssuedOnce, TypeOK, ChallengeFrame
  <2>9. IssuedOnce'
    BY <2>2 DEF ChallengeInv, IssuedOnce
  <2>10. OpenIsIssued'
    BY <2>1, <2>2, <2>3 DEF ChallengeInv, OpenIsIssued
  <2>11. UnissuedNotAccepted'
    BY <2>2, <2>4, <2>7 DEF ChallengeInv, UnissuedNotAccepted
  <2>12. OpenNotAccepted'
    BY <2>1, <2>3, <2>7, <2>8 DEF ChallengeInv, OpenNotAccepted
  <2>13. OneSuccessPerNonce'
    BY <2>7 DEF ChallengeInv, OneSuccessPerNonce
  <2> QED
    BY <2>9, <2>10, <2>11, <2>12, <2>13 DEF ChallengeInv
<1>5. CASE Restart
  BY <1>5, ClosingKeepsInv DEF Restart, NoChallenge
<1>6. CASE HandleAuthRequest
  BY <1>6, <1>1, <1>2
     DEF HandleAuthRequest, RefuseRateLimited, Begin, RejectRequest, FailChallenge, vars
<1>7. CASE HandleAuthResponse
  <2>1. CASE \E m \in AuthResponses : RefuseRateLimited(m) \/ Begin("AUTH_RESPONSE", m)
    BY <2>1, <1>1 DEF RefuseRateLimited, Begin, vars
  <2>2. CASE RejectRecord \/ RejectReplay \/ RejectExpired \/ RejectMismatch \/ RejectSignature
    BY <2>2, <1>3 DEF RejectRecord, RejectReplay, RejectExpired, RejectMismatch,
                      RejectSignature, InTrustedResponse
  <2> QED
    BY <1>4, <1>7, <2>1, <2>2 DEF HandleAuthResponse
<1>8. CASE RegistryStep
  BY <1>8, <1>1 DEF RegistryStep, PairBegin, PairEnd, Revoke, Unpair
<1>9. CASE \E t \in Time : SetClock(t)
  BY <1>9, <1>1 DEF SetClock
<1>10. CASE UNCHANGED vars
  BY <1>10, <1>1 DEF vars
<1> QED
  BY <1>5, <1>6, <1>7, <1>8, <1>9, <1>10 DEF Next

\* ChallengeInv holds in every reachable state.
THEOREM ChallengesCorrect == Spec => []ChallengeInv
BY TypeCorrect, ChallengeInit, ChallengeStep, PTL DEF Spec

\* A challenge earns at most one AUTH_SUCCESS, whatever is duplicated, delayed or
\* reordered, however often the service restarts and the clock is set.
THEOREM AtMostOneSuccess == Spec => []OneSuccessPerNonce
<1>1. ChallengeInv => OneSuccessPerNonce
  BY DEF ChallengeInv
<1> QED
  BY <1>1, ChallengesCorrect, PTL

-----------------------------------------------------------------------------
(***************************************************************************)
(* The service implements OneShotChallenge: issuing a challenge is Issue,  *)
(* a success is Grant, a failed response or a restart is GiveUp, and all   *)
(* other steps change nothing the abstract specification sees.             *)
(***************************************************************************)
OpenNonces == [d \in Device |-> IF activeChallenges[d].isConsumed
                                THEN NoNonce ELSE activeChallenges[d].nonce]

UsedNonces == {f.nonce : f \in issued}

\* Closing the challenges of some devices is GiveUp, or nothing at all.
LEMMA ClosingIsGiveUp ==
    ASSUME TypeOK, UNCHANGED <<issued, accepted>>,
           \A d \in Device : \/ activeChallenges'[d].isConsumed
                             \/ activeChallenges'[d] = activeChallenges[d]
    PROVE  OneShot!Next
<1> DEFINE D == {d \in Device : activeChallenges'[d].isConsumed}
<1>1. PICK S \in SUBSET Device : S = D
  OBVIOUS
<1>2. OneShot!GiveUp(S)
  BY <1>1 DEF OneShot!GiveUp
<1> QED
  BY <1>2 DEF OneShot!Next

\* The initial states map to the abstract initial state.
LEMMA OneShotInit == Init => OneShot!Init
BY DEF Init, OneShot!Init, NoChallenge

\* Every step maps to an abstract step or a stutter.
LEMMA OneShotStep == TypeOK /\ ChallengeInv /\ [Next]_vars => [OneShot!Next]_(OneShot!vars)
<1> SUFFICES ASSUME TypeOK, ChallengeInv, [Next]_vars
             PROVE  [OneShot!Next]_(OneShot!vars)
  OBVIOUS
<1> USE DEF historyVars, registryVars
<1>1. ASSUME UNCHANGED <<issued, accepted, activeChallenges>> PROVE OneShot!Next
  BY <1>1, ClosingIsGiveUp
<1>2. ASSUME NEW n \in Nonce, IssueChallenge(n) PROVE OneShot!Next
  <2> DEFINE dev == handler.msg.device
             frame == [device |-> dev, sessionId |-> sessionCounter, nonce |-> n]
  <2>1. dev \in Device
    BY <1>2 DEF IssueChallenge, TypeOK, Handling, SignedMessage
  <2>2. /\ issued' = issued \cup {frame}
        /\ accepted' = accepted
        /\ \A f \in issued : f.nonce # n
    BY <1>2 DEF IssueChallenge
  <2>3. /\ activeChallenges'[dev].nonce = n
        /\ ~activeChallenges'[dev].isConsumed
        /\ \A d \in Device \ {dev} : activeChallenges'[d] = activeChallenges[d]
    BY <1>2, <2>1 DEF IssueChallenge, TypeOK
  <2>4. frame.nonce = n
    OBVIOUS
  <2> HIDE DEF dev, frame
  <2>5. n \notin UsedNonces
    BY <2>2 DEF UsedNonces
  <2>6. UsedNonces' = UsedNonces \cup {n}
    BY <2>2, <2>4 DEF UsedNonces
  <2>7. OpenNonces' = [OpenNonces EXCEPT ![dev] = n]
    BY <2>1, <2>3 DEF OpenNonces
  <2>8. PICK d \in Device : d = dev
    BY <2>1
  <2>9. OneShot!Issue(d, n)
    BY <2>2, <2>5, <2>6, <2>7, <2>8 DEF OneShot!Issue, OpenNonces, UsedNonces
  <2> QED
    BY <2>9 DEF OneShot!Next
<1>3. ASSUME InResponse, FailResponse,
             UNCHANGED activeChallenges \/ Consume(handler.msg.device)
      PROVE  OneShot!Next
  <2>1. handler.msg.device \in Device
    BY <1>3 DEF InResponse, TypeOK, Handling, SignedMessage
  <2> QED
    BY <1>3, <2>1, ConsumeCloses, ClosingIsGiveUp DEF FailResponse
<1>4. CASE Accept
  <2> DEFINE dev == handler.msg.device
             n == handler.msg.nonce
  <2>1. dev \in Device
    BY <1>4 DEF Accept, InTrustedResponse, InResponse, TypeOK, Handling, SignedMessage
  <2>2. /\ n = activeChallenges[dev].nonce
        /\ ~activeChallenges[dev].isConsumed
        /\ issued' = issued
        /\ accepted' = [accepted EXCEPT ![n] = accepted[n] + 1]
    BY <1>4 DEF Accept, Matches, Current
  <2>3. /\ activeChallenges'[dev].isConsumed
        /\ \A d \in Device \ {dev} : activeChallenges'[d] = activeChallenges[d]
    BY <1>4, <2>1 DEF Accept, Consume, TypeOK, ActiveChallenge
  <2> HIDE DEF dev, n
  <2>4. PICK f \in issued : f.device = dev /\ f.nonce = n
    BY <2>1, <2>2 DEF ChallengeInv, OpenIsIssued
  <2>5. n # NoNonce
    BY <2>4, AuthAssumption DEF TypeOK, ChallengeFrame
  <2>6. OpenNonces[dev] = n
    BY <2>1, <2>2 DEF OpenNonces
  <2>7. OpenNonces' = [OpenNonces EXCEPT ![dev] = NoNonce]
    BY <2>1, <2>3 DEF OpenNonces
  <2>8. PICK d \in Device : d = dev
    BY <2>1
  <2>9. OneShot!Grant(d)
    BY <2>2, <2>5, <2>6, <2>7, <2>8 DEF OneShot!Grant, OpenNonces, UsedNonces
  <2> QED
    BY <2>9 DEF OneShot!Next
<1>5. CASE Restart
  BY <1>5, ClosingIsGiveUp DEF Restart, NoChallenge
<1>6. CASE HandleAuthRequest
  BY <1>6, <1>1, <1>2
     DEF HandleAuthRequest, RefuseRateLimited, Begin, RejectRequest, FailChallenge, vars
<1>7. CASE HandleAuthResponse
  <2>1. CASE \E m \in AuthResponses : RefuseRateLimited(m) \/ Begin("AUTH_RESPONSE", m)
    BY <2>1, <1>1 DEF RefuseRateLimited, Begin, vars
  <2>2. CASE RejectRecord \/ RejectReplay \/ RejectExpired \/ RejectMismatch \/ RejectSignature
    BY <2>2, <1>3 DEF RejectRecord, RejectReplay, RejectExpired, RejectMismatch,
                      RejectSignature, InTrustedResponse
  <2> QED
    BY <1>4, <1>7, <2>1, <2>2 DEF HandleAuthResponse
<1>8. CASE RegistryStep
  BY <1>8, <1>1 DEF RegistryStep, PairBegin, PairEnd, Revoke, Unpair
<1>9. CASE \E t \in Time : SetClock(t)
  BY <1>9, <1>1 DEF SetClock
<1>10. CASE UNCHANGED vars
  BY <1>10, <1>1 DEF vars
<1> QED
  BY <1>5, <1>6, <1>7, <1>8, <1>9, <1>10 DEF Next

\* The authentication service implements the abstract one-shot challenge.
THEOREM Refinement == Spec => ImplementsOneShot
<1>1. Spec => OneShot!Init /\ [][OneShot!Next]_(OneShot!vars)
  BY OneShotInit, OneShotStep, TypeCorrect, ChallengesCorrect, PTL DEF Spec
<1> QED
  BY <1>1 DEF ImplementsOneShot, OneShot!Spec

-----------------------------------------------------------------------------
\* No step but a restart touches the challenge or the lockout of a device that
\* is locked out: a handler only ever works for a device without a lockout.
LEMMA LockedOutStep ==
    ASSUME TypeOK, LockoutMatchesCount, [Next]_vars, ~Restart,
           NEW d \in Device, now < rateLimits[d].lockoutUntil
    PROVE  rateLimits'[d] = rateLimits[d] /\ activeChallenges'[d] = activeChallenges[d]
<1> DEFINE Goal == rateLimits'[d] = rateLimits[d] /\ activeChallenges'[d] = activeChallenges[d]
<1> USE DEF historyVars, registryVars
<1>1. /\ rateLimits \in [Device -> DeviceRateLimit]
      /\ activeChallenges \in [Device -> ActiveChallenge]
      /\ now \in Nat
      /\ rateLimits[d].lockoutUntil # 0
  BY AuthAssumption DEF TypeOK, DeviceRateLimit, Time
<1>2. handler # Idle => handler.msg.device # d
  BY <1>1 DEF LockoutMatchesCount
<1>3. ASSUME UNCHANGED <<rateLimits, activeChallenges>> PROVE Goal
  BY <1>3
<1>4. ASSUME NEW m, NEW op, Begin(op, m) PROVE Goal
  <2>1. m.device # d
    BY <1>4 DEF Begin, IsRateLimited
  <2> QED
    BY <1>1, <1>4, <2>1 DEF Begin
<1>5. ASSUME NEW n \in Nonce, IssueChallenge(n) PROVE Goal
  BY <1>1, <1>2, <1>5 DEF IssueChallenge
<1>6. ASSUME InResponse, FailResponse,
             UNCHANGED activeChallenges \/ Consume(handler.msg.device)
      PROVE  Goal
  BY <1>1, <1>2, <1>6 DEF InResponse, FailResponse, Consume
<1>7. CASE Accept
  BY <1>1, <1>2, <1>7 DEF Accept, InTrustedResponse, InResponse, Consume
<1>8. CASE HandleAuthRequest
  BY <1>3, <1>4, <1>5, <1>8
     DEF HandleAuthRequest, RefuseRateLimited, RejectRequest, FailChallenge, vars
<1>9. CASE HandleAuthResponse
  <2>1. CASE \E m \in AuthResponses : RefuseRateLimited(m) \/ Begin("AUTH_RESPONSE", m)
    BY <2>1, <1>3, <1>4 DEF RefuseRateLimited, vars
  <2>2. CASE RejectRecord \/ RejectReplay \/ RejectExpired \/ RejectMismatch \/ RejectSignature
    BY <2>2, <1>6 DEF RejectRecord, RejectReplay, RejectExpired, RejectMismatch,
                      RejectSignature, InTrustedResponse
  <2> QED
    BY <1>7, <1>9, <2>1, <2>2 DEF HandleAuthResponse
<1>10. CASE RegistryStep
  BY <1>3, <1>10 DEF RegistryStep, PairBegin, PairEnd, Revoke, Unpair
<1>11. CASE \E t \in Time : SetClock(t)
  BY <1>3, <1>11 DEF SetClock
<1>12. CASE UNCHANGED vars
  BY <1>3, <1>12 DEF vars
<1> QED
  BY <1>8, <1>9, <1>10, <1>11, <1>12 DEF Next

\* While a device is locked out, frames neither issue or consume a challenge
\* for it nor lift or prolong its lockout.
THEOREM LockoutHolds == Spec => LockedOutUntouched
<1>1. TypeOK /\ LockoutMatchesCount /\ [Next]_vars =>
          [\A d \in Device :
              now < rateLimits[d].lockoutUntil /\ ~Restart =>
                  /\ rateLimits'[d] = rateLimits[d]
                  /\ activeChallenges'[d] = activeChallenges[d]]_vars
  BY LockedOutStep
<1> QED
  BY <1>1, TypeCorrect, LockoutCorrect, PTL DEF Spec, LockedOutUntouched

-----------------------------------------------------------------------------
\* Only the newest challenge of a device can succeed, and only for that device,
\* however many devices share the session counter.
THEOREM NewestOnly == Spec => OnlyNewestChallenge
<1> USE DEF historyVars, registryVars
<1>1. ASSUME TypeOK, ChallengeInv, [Next]_vars, NEW f \in issued,
             accepted'[f.nonce] # accepted[f.nonce]
      PROVE  /\ activeChallenges[f.device].nonce = f.nonce
             /\ ~activeChallenges[f.device].isConsumed
             /\ activeChallenges'[f.device].isConsumed
  <2>1. Accept
    <3>1. HandleAuthRequest => accepted' = accepted
      BY DEF HandleAuthRequest, RefuseRateLimited, Begin, RejectRequest, IssueChallenge,
             FailChallenge, vars
    <3>2. HandleAuthResponse => Accept \/ accepted' = accepted
      BY DEF HandleAuthResponse, RefuseRateLimited, Begin, RejectRecord, RejectReplay,
             RejectExpired, RejectMismatch, RejectSignature, FailResponse, vars
    <3>3. RegistryStep => accepted' = accepted
      BY DEF RegistryStep, PairBegin, PairEnd, Revoke, Unpair
    <3>4. Restart \/ (\E t \in Time : SetClock(t)) \/ UNCHANGED vars => accepted' = accepted
      BY DEF Restart, SetClock, vars
    <3> QED
      BY <1>1, <3>1, <3>2, <3>3, <3>4 DEF Next
  <2> DEFINE dev == handler.msg.device
             n == handler.msg.nonce
  <2>2. dev \in Device
    BY <1>1, <2>1 DEF Accept, InTrustedResponse, InResponse, TypeOK, Handling, SignedMessage
  <2>3. /\ n = activeChallenges[dev].nonce
        /\ ~activeChallenges[dev].isConsumed
        /\ accepted' = [accepted EXCEPT ![n] = accepted[n] + 1]
    BY <2>1 DEF Accept, Matches, Current
  <2>4. activeChallenges'[dev].isConsumed
    BY <1>1, <2>1, <2>2 DEF Accept, Consume, TypeOK, ActiveChallenge
  <2> HIDE DEF dev, n
  <2>5. f.nonce = n
    BY <1>1, <2>3 DEF TypeOK, ChallengeFrame
  <2>6. PICK g \in issued : g.device = dev /\ g.nonce = n
    BY <1>1, <2>2, <2>3 DEF ChallengeInv, OpenIsIssued
  <2>7. f = g
    BY <1>1, <2>5, <2>6 DEF ChallengeInv, IssuedOnce
  <2> QED
    BY <2>3, <2>4, <2>5, <2>6, <2>7
<1>2. TypeOK /\ ChallengeInv /\ [Next]_vars
        => [\A f \in issued :
               accepted'[f.nonce] # accepted[f.nonce] =>
                   /\ activeChallenges[f.device].nonce = f.nonce
                   /\ ~activeChallenges[f.device].isConsumed
                   /\ activeChallenges'[f.device].isConsumed]_vars
  BY <1>1
<1> QED
  BY <1>2, TypeCorrect, ChallengesCorrect, PTL DEF Spec, OnlyNewestChallenge
=============================================================================
