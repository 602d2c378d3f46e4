------------------------ MODULE PairingManagerProofs ------------------------
(***************************************************************************)
(* For every set of clients, devices and keys and every value of the       *)
(* limits: the state is well typed, a PIN is compared at most              *)
(* SAS_MAX_ATTEMPTS times, PINs are one-shot challenges, a device becomes  *)
(* ACTIVE only by its PIN, and the account limit is passed by no more than *)
(* the sessions that were open together.                                   *)
(***************************************************************************)
EXTENDS PairingManager, FiniteSetTheorems, TLAPS

\* The registry operations that are called here return a registry.
LEMMA RegistryTyped ==
    ASSUME NEW reg \in [Device -> DeviceRecord], NEW d \in Device, NEW k \in Key
    PROVE  /\ WriteDeviceStatus(reg, d) \in [Device -> DeviceRecord]
           /\ WriteDeviceKey(reg, d, k) \in [Device -> DeviceRecord]
           /\ SetDeviceStatus(reg, d, "REVOKED") \in [Device -> DeviceRecord]
           /\ DeleteDeviceRecord(reg, d) \in [Device -> DeviceRecord]
<1> USE DEF DeviceRecord, Key, NoRecord
<1>1. WriteDeviceStatus(reg, d) \in [Device -> DeviceRecord]
  BY DEF WriteDeviceStatus
<1>2. WriteDeviceKey(reg, d, k) \in [Device -> DeviceRecord]
  BY DEF WriteDeviceKey
<1>3. SetDeviceStatus(reg, d, "REVOKED") \in [Device -> DeviceRecord]
  BY DEF SetDeviceStatus
<1>4. DeleteDeviceRecord(reg, d) \in [Device -> DeviceRecord]
  BY DEF DeleteDeviceRecord
<1> QED
  BY <1>1, <1>2, <1>3, <1>4

\* Only the first half of WriteDeviceRecord makes a device ACTIVE, and only the
\* device it is called for.
LEMMA NewlyActive ==
    ASSUME NEW reg \in [Device -> DeviceRecord], NEW d \in Device, NEW k \in Key,
           NEW e \in Device
    PROVE  /\ IsDeviceActive(WriteDeviceStatus(reg, d), e) => e = d \/ IsDeviceActive(reg, e)
           /\ IsDeviceActive(WriteDeviceKey(reg, d, k), e) => IsDeviceActive(reg, e)
           /\ IsDeviceActive(SetDeviceStatus(reg, d, "REVOKED"), e) => IsDeviceActive(reg, e)
           /\ IsDeviceActive(DeleteDeviceRecord(reg, d), e) => IsDeviceActive(reg, e)
<1> USE DEF IsDeviceActive, DeviceRecord, NoRecord
<1>1. IsDeviceActive(WriteDeviceStatus(reg, d), e) => e = d \/ IsDeviceActive(reg, e)
  BY DEF WriteDeviceStatus
<1>2. IsDeviceActive(WriteDeviceKey(reg, d, k), e) => IsDeviceActive(reg, e)
  BY DEF WriteDeviceKey
<1>3. IsDeviceActive(SetDeviceStatus(reg, d, "REVOKED"), e) => IsDeviceActive(reg, e)
  BY DEF SetDeviceStatus
<1>4. IsDeviceActive(DeleteDeviceRecord(reg, d), e) => IsDeviceActive(reg, e)
  BY DEF DeleteDeviceRecord
<1> QED
  BY <1>1, <1>2, <1>3, <1>4

\* The two ways a session is left by a failed confirmation are sessions.
LEMMA SessionTyped ==
    /\ NoSession \in PairingSession
    /\ \A s \in PairingSession : AfterWrongPin(s) \in PairingSession
    /\ \A s \in PairingSession : AfterInvalidConfirm(s) \in PairingSession
<1>1. NoSession \in PairingSession
  BY PairingAssumption DEF NoSession, PairingSession, Pin, NoPin, Time, Key
<1>2. ASSUME NEW s \in PairingSession PROVE CountAttempt(s) \in PairingSession
  BY DEF CountAttempt, PairingSession
<1>3. ASSUME NEW s \in PairingSession PROVE AfterWrongPin(s) \in PairingSession
  BY <1>1, <1>2 DEF AfterWrongPin
<1>4. ASSUME NEW s \in PairingSession PROVE AfterInvalidConfirm(s) \in PairingSession
  <2>1. ASSUME NEW r \in PairingSession PROVE [r EXCEPT !.state = "FAILED"] \in PairingSession
    BY DEF PairingSession
  <2> QED
    BY <1>2, <2>1 DEF AfterInvalidConfirm
<1> QED
  BY <1>1, <1>3, <1>4

\* Counting an event keeps a counter well typed, also where the counter is not
\* defined for the event.
LEMMA CountTyped ==
    ASSUME NEW S, NEW f \in [S -> Nat], NEW x
    PROVE  [f EXCEPT ![x] = @ + 1] \in [S -> Nat]
<1>1. CASE x \in S
  BY <1>1
<1>2. CASE x \notin S
  BY <1>2
<1> QED
  BY <1>1, <1>2

\* Recording a failure keeps the rate limit map well typed.
LEMMA CountFailureTyped ==
    ASSUME TypeOK, NEW d \in Device, CountFailure(d)
    PROVE  rateLimit' \in [Device -> [count : Nat, windowStart : Time]]
<1>1. RecordFailedAttempt(rateLimit[d]) \in [count : Nat, windowStart : Time]
  BY DEF TypeOK, RecordFailedAttempt
<1> QED
  BY <1>1 DEF TypeOK, CountFailure

\* The initial state is well typed.
LEMMA TypeInit == Init => TypeOK
BY SessionTyped, PairingAssumption
   DEF Init, TypeOK, Time, DeviceRecord, NoRecord, Key, NoAttempts, Pin

\* Every step keeps the state well typed.
LEMMA TypeStep == TypeOK /\ [Next]_vars => TypeOK'
<1> SUFFICES ASSUME TypeOK, [Next]_vars PROVE TypeOK'
  OBVIOUS
<1> USE PairingAssumption DEF TypeOK, historyVars
<1>0. ASSUME NEW c \in Client
      PROVE  /\ sessions[c] \in PairingSession
             /\ sessions[c].device \in Device
             /\ sessions[c].key \in Key
             /\ ClearSession(c) \in [Client -> PairingSession]
             /\ [sessions EXCEPT ![c] = AfterWrongPin(@)] \in [Client -> PairingSession]
  <2>1. sessions[c] \in PairingSession
    OBVIOUS
  <2>2. AfterWrongPin(sessions[c]) \in PairingSession
    BY <2>1, SessionTyped
  <2> QED
    BY <2>1, <2>2, SessionTyped DEF ClearSession, PairingSession
<1>1. ASSUME NEW c \in Client, InvalidPairRequest(c) \/ CancelPairingSession(c) PROVE TypeOK'
  BY <1>0, <1>1 DEF InvalidPairRequest, CancelPairingSession
<1>2. ASSUME NEW c \in Client, NEW d \in Device, NEW exact, RefusePairRequest(c, d, exact)
      PROVE  TypeOK'
  BY <1>0, <1>2 DEF RefusePairRequest
<1>3. ASSUME NEW c \in Client, NEW d \in Device, NEW k \in Key, NEW exact,
             OpenSession(c, d, k, exact)
      PROVE  TypeOK'
  <2>1. [state |-> "WAITING_FOR_SAS", device |-> d, key |-> k, sasPin |-> generated + 1,
         attempts |-> 0, at |-> now] \in PairingSession
    BY <1>3 DEF OpenSession, PairingSession, Pin
  <2> QED
    BY <1>3, <2>1 DEF OpenSession
<1>4. ASSUME NEW c \in Client, InvalidConfirm(c) PROVE TypeOK'
  <2>1. sessions' \in [Client -> PairingSession]
    BY <1>0, <1>4, SessionTyped DEF InvalidConfirm
  <2> QED
    BY <1>0, <1>4, <2>1, CountFailureTyped DEF InvalidConfirm
<1>5. ASSUME NEW c \in Client, UncomparedConfirm(c) PROVE TypeOK'
  BY <1>0, <1>5, CountFailureTyped DEF UncomparedConfirm
<1>6. ASSUME NEW c \in Client, WrongConfirm(c) PROVE TypeOK'
  <2>1. compared' \in [Pin -> Nat]
    BY <1>6, CountTyped DEF WrongConfirm
  <2> QED
    BY <1>0, <1>6, <2>1, CountFailureTyped DEF WrongConfirm
<1>7. ASSUME NEW c \in Client, RightConfirm(c) PROVE TypeOK'
  <2>1. registry' \in [Device -> DeviceRecord]
    BY <1>0, <1>7, RegistryTyped DEF RightConfirm
  <2>4. compared' \in [Pin -> Nat] /\ redeemed' \in [Pin -> Nat]
    BY <1>7, CountTyped DEF RightConfirm
  <2>2. sessions' \in [Client -> PairingSession]
    BY <1>7 DEF RightConfirm, Verified, PairingSession
  <2>3. writer' \in Writing
    BY <1>7 DEF RightConfirm, Writing
  <2> QED
    BY <1>7, <2>1, <2>2, <2>3, <2>4 DEF RightConfirm
<1>8. CASE CompletePairing
  <2>1. PICK c \in Client : c = writer.client
    BY <1>8 DEF CompletePairing, Unlocked, Writing
  <2>2. registry' \in [Device -> DeviceRecord]
    BY <1>0, <1>8, <2>1, RegistryTyped DEF CompletePairing
  <2>3. NoAttempts \in [count : Nat, windowStart : Time]
    BY DEF NoAttempts, Time
  <2>4. rateLimit' \in [Device -> [count : Nat, windowStart : Time]]
    BY <1>8, <2>3 DEF CompletePairing
  <2>5. sessions' \in [Client -> PairingSession]
    BY <1>0, <1>8, <2>1 DEF CompletePairing
  <2> QED
    BY <1>8, <2>2, <2>4, <2>5 DEF CompletePairing
<1>9. ASSUME NEW c \in Client, FailWrite(c) PROVE TypeOK'
  <2>1. NoAttempts \in [count : Nat, windowStart : Time]
    BY DEF NoAttempts, Time
  <2>2. compared' \in [Pin -> Nat]
    BY <1>9, CountTyped DEF FailWrite
  <2> QED
    BY <1>0, <1>9, <2>1, <2>2 DEF FailWrite
<1>10. CASE ExpireStaleSessions
  BY <1>10, SessionTyped DEF ExpireStaleSessions
<1>11. ASSUME NEW d \in Device, HandleUnpairRequest(d) \/ Revoke(d) PROVE TypeOK'
  <2>1. registry' \in [Device -> DeviceRecord]
    <3>1. NoKey \in Key
      BY DEF Key
    <3> QED
      BY <1>11, <3>1, RegistryTyped DEF HandleUnpairRequest, Revoke
  <2> QED
    BY <1>11, <2>1 DEF HandleUnpairRequest, Revoke
<1>12. CASE Restart
  BY <1>12, SessionTyped DEF Restart, NoAttempts, Time
<1>13. ASSUME NEW t \in Time, SetClock(t) PROVE TypeOK'
  BY <1>13 DEF SetClock
<1>14. CASE UNCHANGED vars
  BY <1>14 DEF vars
<1> QED
  BY <1>1, <1>2, <1>3, <1>4, <1>5, <1>6, <1>7, <1>8, <1>9, <1>10, <1>11, <1>12, <1>13, <1>14
     DEF Next, HandlePairRequest, HandlePairConfirm

\* The state of the pairing manager keeps its shape.
THEOREM TypeCorrect == Spec => []TypeOK
BY TypeInit, TypeStep, PTL DEF Spec

-----------------------------------------------------------------------------
\* A session entry holds a PIN that was generated, and no two hold the same.
PinsHeld ==
    /\ \A c \in Client : sessions[c].state # "UNPAIRED" => sessions[c].sasPin \in 1..generated
    /\ \A b, c \in Client :
          /\ sessions[b].state # "UNPAIRED"
          /\ sessions[c].state # "UNPAIRED"
          /\ sessions[b].sasPin = sessions[c].sasPin
          => b = c

\* A PIN not yet generated has no history.
FuturePins == \A p \in Pin : p > generated => compared[p] = 0

\* A waiting session has attempts left, and counted every comparison.
AttemptsLeft ==
    \A c \in Client : Waiting(c) => /\ sessions[c].attempts < SasMaxAttempts
                                   /\ compared[sessions[c].sasPin] <= sessions[c].attempts

PinInv == PinsHeld /\ FuturePins /\ AttemptsLeft /\ GuessBudget

\* Initially no PIN was generated and no session is open.
LEMMA PinInit == Init => PinInv
BY PairingAssumption
   DEF Init, PinInv, PinsHeld, FuturePins, AttemptsLeft, GuessBudget, Waiting, NoSession

\* What closing sessions, and nothing else that matters, does to the invariant:
\* every entry stays as it was or is erased.
LEMMA CloseStep ==
    ASSUME TypeOK, PinInv, UNCHANGED <<generated, compared>>,
           \A c \in Client : sessions'[c] = sessions[c] \/ sessions'[c] = NoSession
    PROVE  PinInv'
<1>1. \A c \in Client : sessions'[c].state # "UNPAIRED" => sessions'[c] = sessions[c]
  <2>1. NoSession.state = "UNPAIRED"
    BY DEF NoSession
  <2> QED
    BY <2>1
<1>2. PinsHeld'
  BY <1>1 DEF PinInv, PinsHeld
<1>3. FuturePins'
  BY DEF PinInv, FuturePins
<1>4. AttemptsLeft'
  BY <1>1 DEF PinInv, AttemptsLeft, Waiting
<1>5. GuessBudget'
  BY DEF PinInv, GuessBudget
<1> QED
  BY <1>2, <1>3, <1>4, <1>5 DEF PinInv

\* What one confirmation does: the session of one client is erased or keeps its
\* PIN, waits only with one more attempt counted, and its PIN may be compared.
LEMMA ConfirmStep ==
    ASSUME TypeOK, PinInv, NEW c \in Client, Waiting(c), UNCHANGED generated,
           NEW s \in PairingSession, sessions' = [sessions EXCEPT ![c] = s],
           s.state # "UNPAIRED" => s.sasPin = sessions[c].sasPin,
           s.state = "WAITING_FOR_SAS" =>
               s.attempts = sessions[c].attempts + 1 /\ s.attempts < SasMaxAttempts,
           \/ UNCHANGED compared
           \/ compared' = [compared EXCEPT ![sessions[c].sasPin] = @ + 1]
    PROVE  PinInv'
<1> USE PairingAssumption
<1>1. PICK p \in Pin : p = sessions[c].sasPin
  BY DEF PinInv, PinsHeld, Waiting, TypeOK, Pin
<1>2. /\ \A q \in Pin : compared'[q] = compared[q] \/ (q = p /\ compared'[q] = compared[q] + 1)
      /\ compared[p] < SasMaxAttempts /\ compared[p] <= sessions[c].attempts
      /\ p <= generated
      /\ sessions[c].attempts \in Nat
  BY <1>1 DEF PinInv, PinsHeld, AttemptsLeft, TypeOK, Waiting, PairingSession
<1>3. /\ \A b \in Client : b # c => sessions'[b] = sessions[b]
      /\ sessions'[c] = s
  BY DEF TypeOK
<1>4. PinsHeld'
  BY <1>3 DEF PinInv, PinsHeld, Waiting
<1>5. FuturePins'
  BY <1>2 DEF PinInv, FuturePins, TypeOK, Pin
<1>6. AttemptsLeft'
  <2> SUFFICES ASSUME NEW b \in Client, Waiting(b)'
               PROVE  /\ sessions'[b].attempts < SasMaxAttempts
                      /\ compared'[sessions'[b].sasPin] <= sessions'[b].attempts
    BY DEF AttemptsLeft
  <2>1. CASE b = c
    BY <1>1, <1>2, <1>3, <2>1 DEF TypeOK, Waiting
  <2>2. CASE b # c
    <3>1. sessions'[b] = sessions[b] /\ Waiting(b)
      BY <1>3, <2>2 DEF Waiting
    <3>2. PICK q \in Pin : q = sessions[b].sasPin
      <4>1. sessions[b].sasPin \in 1..generated
        BY <3>1 DEF PinInv, PinsHeld, Waiting
      <4> QED
        BY <4>1 DEF TypeOK, Pin
    <3>3. q # p
      BY <1>1, <2>2, <3>1, <3>2 DEF PinInv, PinsHeld, Waiting
    <3> QED
      BY <1>2, <3>1, <3>2, <3>3 DEF PinInv, AttemptsLeft
  <2> QED
    BY <2>1, <2>2
<1>7. GuessBudget'
  BY <1>2 DEF PinInv, GuessBudget, TypeOK
<1> QED
  BY <1>4, <1>5, <1>6, <1>7 DEF PinInv

\* Every step keeps the PIN invariant.
LEMMA PinStep == TypeOK /\ PinInv /\ [Next]_vars => PinInv'
<1> SUFFICES ASSUME TypeOK, PinInv, [Next]_vars PROVE PinInv'
  OBVIOUS
<1> USE PairingAssumption DEF historyVars
<1>1. ASSUME NEW c \in Client, InvalidPairRequest(c) \/ CancelPairingSession(c) PROVE PinInv'
  BY <1>1, CloseStep DEF TypeOK, InvalidPairRequest, CancelPairingSession, ClearSession
<1>2. ASSUME NEW c \in Client, NEW d \in Device, NEW exact, RefusePairRequest(c, d, exact)
      PROVE  PinInv'
  BY <1>2, CloseStep DEF TypeOK, RefusePairRequest, ClearSession
<1>3. ASSUME NEW c \in Client, NEW d \in Device, NEW k \in Key, NEW exact,
             OpenSession(c, d, k, exact)
      PROVE  PinInv'
  <2>1. /\ \A b \in Client : b # c => sessions'[b] = sessions[b]
        /\ sessions'[c].sasPin = generated + 1
        /\ sessions'[c].attempts = 0
        /\ generated' = generated + 1
        /\ generated + 1 \in Pin
        /\ generated \in Nat
        /\ compared' = compared
    BY <1>3 DEF TypeOK, OpenSession, Pin
  <2>2. PinsHeld'
    BY <2>1 DEF PinInv, PinsHeld
  <2>3. FuturePins'
    BY <2>1 DEF PinInv, FuturePins, Pin
  <2>4. AttemptsLeft'
    BY <2>1 DEF PinInv, AttemptsLeft, FuturePins, Waiting
  <2>5. GuessBudget'
    BY <2>1 DEF PinInv, GuessBudget
  <2> QED
    BY <2>2, <2>3, <2>4, <2>5 DEF PinInv
<1>4. ASSUME NEW c \in Client, InvalidConfirm(c) PROVE PinInv'
  <2>1. AfterInvalidConfirm(sessions[c]) \in PairingSession
    BY SessionTyped DEF TypeOK
  <2>2. /\ AfterInvalidConfirm(sessions[c]).sasPin = sessions[c].sasPin
        /\ AfterInvalidConfirm(sessions[c]).attempts = sessions[c].attempts + 1
        /\ AfterInvalidConfirm(sessions[c]).state = "WAITING_FOR_SAS" =>
              sessions[c].attempts + 1 < SasMaxAttempts
    <3>1. sessions[c] \in PairingSession
      BY DEF TypeOK
    <3> QED
      BY <3>1 DEF AfterInvalidConfirm, CountAttempt, PairingSession
  <2> QED
    BY <1>4, <2>1, <2>2, ConfirmStep DEF InvalidConfirm
<1>5. ASSUME NEW c \in Client
      PROVE  LET s == AfterWrongPin(sessions[c]) IN
               /\ s \in PairingSession
               /\ s.state # "UNPAIRED" => s.sasPin = sessions[c].sasPin
               /\ s.state = "WAITING_FOR_SAS" =>
                     s.attempts = sessions[c].attempts + 1 /\ s.attempts < SasMaxAttempts
  <2>1. AfterWrongPin(sessions[c]) \in PairingSession
    BY SessionTyped DEF TypeOK
  <2> QED
    BY <2>1 DEF AfterWrongPin, CountAttempt, TypeOK, PairingSession, NoSession
<1>6. ASSUME NEW c \in Client, UncomparedConfirm(c) PROVE PinInv'
  BY <1>5, <1>6, ConfirmStep DEF UncomparedConfirm
<1>7. ASSUME NEW c \in Client, WrongConfirm(c) PROVE PinInv'
  BY <1>5, <1>7, ConfirmStep DEF WrongConfirm
<1>8. ASSUME NEW c \in Client, RightConfirm(c) PROVE PinInv'
  <2> DEFINE s == [sessions[c] EXCEPT !.state = "SAS_VERIFIED"]
  <2>1. s \in PairingSession /\ s.sasPin = sessions[c].sasPin /\ s.state = "SAS_VERIFIED"
    BY ZenonT(60) DEF TypeOK, PairingSession
  <2>2. sessions' = [sessions EXCEPT ![c] = s]
    BY <1>8 DEF RightConfirm, Verified
  <2> HIDE DEF s
  <2> QED
    BY <1>8, <2>1, <2>2, ConfirmStep DEF RightConfirm
<1>9. CASE CompletePairing
  BY <1>9, CloseStep DEF TypeOK, CompletePairing, ClearSession
<1>10. ASSUME NEW c \in Client, FailWrite(c) PROVE PinInv'
  <2>1. NoSession \in PairingSession /\ NoSession.state = "UNPAIRED"
    BY SessionTyped DEF NoSession
  <2> QED
    BY <1>10, <2>1, ConfirmStep DEF FailWrite, ClearSession
<1>11. CASE ExpireStaleSessions
  BY <1>11, CloseStep DEF ExpireStaleSessions
<1>12. ASSUME NEW d \in Device, HandleUnpairRequest(d) \/ Revoke(d) PROVE PinInv'
  BY <1>12, CloseStep DEF HandleUnpairRequest, Revoke
<1>13. CASE Restart
  BY <1>13, CloseStep DEF Restart
<1>14. ASSUME NEW t \in Time, SetClock(t) PROVE PinInv'
  BY <1>14, CloseStep DEF SetClock
<1>15. CASE UNCHANGED vars
  BY <1>15, CloseStep DEF vars
<1> QED
  BY <1>1, <1>2, <1>3, <1>4, <1>6, <1>7, <1>8, <1>9, <1>10, <1>11, <1>12, <1>13, <1>14, <1>15
     DEF Next, HandlePairRequest, HandlePairConfirm

\* The PIN invariant holds in every reachable state.
THEOREM PinsCorrect == Spec => []PinInv
BY TypeCorrect, PinInit, PinStep, PTL DEF Spec

\* No PIN is ever compared with more than SAS_MAX_ATTEMPTS typed texts
\* (HandlePairConfirm, ValidateSasPin).
THEOREM GuessesBounded == Spec => []GuessBudget
<1>1. PinInv => GuessBudget
  BY DEF PinInv
<1> QED
  BY <1>1, PinsCorrect, PTL

-----------------------------------------------------------------------------
(* All steps but OpenSession and RightConfirm are quiet: they generate and *)
(* redeem no PIN, open no session and make no device ACTIVE.               *)

Quiet ==
    /\ UNCHANGED <<generated, redeemed>>
    /\ \A c \in Client : Waiting(c)' => Waiting(c) /\ sessions'[c].sasPin = sessions[c].sasPin
    /\ \A d \in Device : IsDeviceActive(registry', d) => IsDeviceActive(registry, d)

\* A step that erases entries and leaves the registry alone is quiet.
LEMMA ClosingIsQuiet ==
    ASSUME UNCHANGED <<generated, redeemed, registry>>,
           \A c \in Client : sessions'[c] = sessions[c] \/ sessions'[c] = NoSession
    PROVE  Quiet
<1>1. NoSession.state = "UNPAIRED"
  BY DEF NoSession
<1>2. \A c \in Client : Waiting(c)' => Waiting(c) /\ sessions'[c].sasPin = sessions[c].sasPin
  BY <1>1 DEF Waiting
<1> QED
  BY <1>2 DEF Quiet

\* A step of HandlePairConfirm that fails for client c is quiet.
LEMMA FailedConfirmIsQuiet ==
    ASSUME TypeOK, NEW c \in Client, Waiting(c), UNCHANGED <<generated, redeemed, registry>>,
           NEW s, sessions' = [sessions EXCEPT ![c] = s],
           s.state # "UNPAIRED" => s.sasPin = sessions[c].sasPin
    PROVE  Quiet
<1>1. \A b \in Client : Waiting(b)' => Waiting(b) /\ sessions'[b].sasPin = sessions[b].sasPin
  <2> SUFFICES ASSUME NEW b \in Client, Waiting(b)'
               PROVE  Waiting(b) /\ sessions'[b].sasPin = sessions[b].sasPin
    OBVIOUS
  <2>1. CASE b = c
    BY <2>1 DEF Waiting, TypeOK
  <2>2. CASE b # c
    BY <2>2 DEF Waiting, TypeOK
  <2> QED
    BY <2>1, <2>2
<1> QED
  BY <1>1 DEF Quiet

\* The three kinds of step.
LEMMA StepKinds ==
    ASSUME TypeOK, [Next]_vars
    PROVE  \/ Quiet
           \/ \E c \in Client, d \in Device, k \in Key, exact \in Spelling :
                 OpenSession(c, d, k, exact)
           \/ \E c \in Client : RightConfirm(c)
<1> USE PairingAssumption DEF historyVars
<1>1. ASSUME NEW c \in Client, InvalidPairRequest(c) \/ CancelPairingSession(c) PROVE Quiet
  BY <1>1, ClosingIsQuiet DEF TypeOK, InvalidPairRequest, CancelPairingSession, ClearSession
<1>2. ASSUME NEW c \in Client, NEW d \in Device, NEW exact, RefusePairRequest(c, d, exact)
      PROVE  Quiet
  BY <1>2, ClosingIsQuiet DEF TypeOK, RefusePairRequest, ClearSession
<1>3. ASSUME NEW c \in Client, InvalidConfirm(c) PROVE Quiet
  <2>1. AfterInvalidConfirm(sessions[c]).sasPin = sessions[c].sasPin
    BY DEF AfterInvalidConfirm, CountAttempt, TypeOK, PairingSession
  <2> QED
    BY <1>3, <2>1, FailedConfirmIsQuiet DEF InvalidConfirm
<1>4. ASSUME NEW c \in Client, UncomparedConfirm(c) \/ WrongConfirm(c) PROVE Quiet
  <2>1. AfterWrongPin(sessions[c]).state # "UNPAIRED" =>
            AfterWrongPin(sessions[c]).sasPin = sessions[c].sasPin
    BY DEF AfterWrongPin, CountAttempt, TypeOK, PairingSession, NoSession
  <2> QED
    BY <1>4, <2>1, FailedConfirmIsQuiet DEF UncomparedConfirm, WrongConfirm
<1>5. ASSUME NEW c \in Client, FailWrite(c) PROVE Quiet
  BY <1>5, ClosingIsQuiet DEF TypeOK, FailWrite, ClearSession
<1>6. CASE CompletePairing
  <2>1. PICK c \in Client : c = writer.client
    BY <1>6 DEF CompletePairing, Unlocked, TypeOK, Writing
  <2>2. PICK d \in Device, k \in Key : d = sessions[c].device /\ k = sessions[c].key
    BY DEF TypeOK, PairingSession
  <2>3. \A e \in Device : IsDeviceActive(registry', e) => IsDeviceActive(registry, e)
    BY <1>6, <2>1, <2>2, NewlyActive DEF CompletePairing, TypeOK
  <2>4. sessions' = [sessions EXCEPT ![c] = NoSession] /\ UNCHANGED <<generated, redeemed>>
    BY <1>6, <2>1 DEF CompletePairing, ClearSession
  <2>5. NoSession.state = "UNPAIRED"
    BY DEF NoSession
  <2>6. \A b \in Client : Waiting(b)' => Waiting(b) /\ sessions'[b].sasPin = sessions[b].sasPin
    BY <2>4, <2>5 DEF Waiting, TypeOK
  <2> QED
    BY <2>3, <2>4, <2>6 DEF Quiet
<1>7. CASE ExpireStaleSessions
  BY <1>7, ClosingIsQuiet DEF ExpireStaleSessions
<1>8. ASSUME NEW d \in Device, HandleUnpairRequest(d) \/ Revoke(d) PROVE Quiet
  <2>1. NoKey \in Key
    BY DEF Key
  <2>2. \A e \in Device : IsDeviceActive(registry', e) => IsDeviceActive(registry, e)
    BY <1>8, <2>1, NewlyActive DEF HandleUnpairRequest, Revoke, TypeOK
  <2> QED
    BY <1>8, <2>2 DEF HandleUnpairRequest, Revoke, Quiet, Waiting
<1>9. CASE Restart
  BY <1>9, ClosingIsQuiet DEF Restart
<1>10. ASSUME NEW t \in Time, SetClock(t) PROVE Quiet
  BY <1>10, ClosingIsQuiet DEF SetClock
<1>11. CASE UNCHANGED vars
  BY <1>11, ClosingIsQuiet DEF vars
<1> QED
  BY <1>1, <1>2, <1>3, <1>4, <1>5, <1>6, <1>7, <1>8, <1>9, <1>10, <1>11
     DEF Next, HandlePairRequest, HandlePairConfirm

-----------------------------------------------------------------------------
(* PINs are one-shot challenges: OpenSession is Issue, RightConfirm is     *)
(* Grant, and a quiet step gives up the PINs that are no longer waited for.*)

OpenPins == [c \in Client |-> IF Waiting(c) THEN sessions[c].sasPin ELSE NoPin]

\* The initial states map to the abstract initial state.
LEMMA OneShotInit == Init => OneShot!Init
BY DEF Init, OneShot!Init, NoSession, Waiting, NoPin

\* Every step maps to an abstract step.
LEMMA OneShotStep == TypeOK /\ PinInv /\ [Next]_vars => [OneShot!Next]_(OneShot!vars)
<1> SUFFICES ASSUME TypeOK, PinInv, [Next]_vars PROVE OneShot!Next
  OBVIOUS
<1> USE PairingAssumption
<1>1. CASE Quiet
  <2> DEFINE C == {c \in Client : ~Waiting(c)'}
  <2>1. PICK S \in SUBSET Client : S = C
    OBVIOUS
  <2>2. OneShot!GiveUp(S)
    BY <1>1, <2>1 DEF Quiet, OneShot!GiveUp
  <2> QED
    BY <2>2 DEF OneShot!Next
<1>2. ASSUME NEW c \in Client, NEW d \in Device, NEW k \in Key, NEW exact,
             OpenSession(c, d, k, exact)
      PROVE  OneShot!Next
  <2>1. PICK p \in Pin : p = generated + 1
    BY <1>2 DEF OpenSession, TypeOK, Pin
  <2>2. /\ Waiting(c)' /\ sessions'[c].sasPin = p
        /\ \A b \in Client \ {c} : sessions'[b] = sessions[b]
        /\ generated' = p /\ redeemed' = redeemed
    BY <1>2, <2>1 DEF OpenSession, TypeOK, Waiting
  <2>3. p \notin 1..generated /\ 1..p = (1..generated) \cup {p}
    <3>1. generated \in Nat /\ p = generated + 1
      BY <2>1 DEF TypeOK
    <3>2. \A x : x \in 1..p <=> x \in 1..generated \/ x = p
      BY <3>1
    <3> QED
      BY <3>1, <3>2
  <2>4. OpenPins' = [OpenPins EXCEPT ![c] = p]
    BY <2>2 DEF OpenPins, Waiting
  <2>5. OneShot!Issue(c, p)
    BY <2>2, <2>3, <2>4 DEF OneShot!Issue, OpenPins
  <2> QED
    BY <2>5 DEF OneShot!Next
<1>3. ASSUME NEW c \in Client, RightConfirm(c) PROVE OneShot!Next
  <2>1. PICK p \in Pin : p = sessions[c].sasPin
    BY <1>3 DEF RightConfirm, Waiting, PinInv, PinsHeld, TypeOK, Pin
  <2>2. p # NoPin
    BY DEF Pin, NoPin
  <2>3. /\ Waiting(c) /\ ~Waiting(c)'
        /\ \A b \in Client \ {c} : sessions'[b] = sessions[b]
        /\ generated' = generated
        /\ redeemed' = [redeemed EXCEPT ![p] = redeemed[p] + 1]
    BY <1>3, <2>1 DEF RightConfirm, Verified, TypeOK, Waiting, PairingSession
  <2>4. OpenPins[c] = p
    BY <2>1, <2>3 DEF OpenPins
  <2>5. OpenPins' = [OpenPins EXCEPT ![c] = NoPin]
    BY <2>3 DEF OpenPins, Waiting
  <2>6. OneShot!Grant(c)
    BY <2>2, <2>3, <2>4, <2>5 DEF OneShot!Grant, OpenPins
  <2> QED
    BY <2>6 DEF OneShot!Next
<1> QED
  BY <1>1, <1>2, <1>3, StepKinds

\* The pairing manager implements the abstract one-shot challenge: a PIN pairs at
\* most one device, once, and only in the session it was generated for.
THEOREM PinRefinement == Spec => PinIsOneShot
<1>1. Spec => OneShot!Init /\ [][OneShot!Next]_(OneShot!vars)
  BY OneShotInit, OneShotStep, TypeCorrect, PinsCorrect, PTL DEF Spec
<1> QED
  BY <1>1 DEF PinIsOneShot, OneShot!Spec

-----------------------------------------------------------------------------
\* A device becomes ACTIVE only in a step that redeems the PIN of its session.
LEMMA ActiveStep ==
    ASSUME TypeOK, PinInv, [Next]_vars, NEW d \in Device,
           IsDeviceActive(registry', d), ~IsDeviceActive(registry, d)
    PROVE  \E c \in Client :
               /\ sessions[c].device = d
               /\ sessions[c].sasPin # NoPin
               /\ redeemed'[sessions[c].sasPin] = redeemed[sessions[c].sasPin] + 1
<1>1. PICK c \in Client : RightConfirm(c)
  BY StepKinds DEF Quiet, OpenSession
<1>2. PICK e \in Device : e = sessions[c].device
  BY DEF TypeOK, PairingSession
<1>3. NoKey \in Key
  BY DEF Key
<1>4. d = e
  BY <1>1, <1>2, <1>3, NewlyActive DEF RightConfirm, TypeOK
<1>5. PICK p \in Pin : p = sessions[c].sasPin
  BY <1>1, PairingAssumption DEF RightConfirm, Waiting, PinInv, PinsHeld, TypeOK, Pin
<1>6. p # NoPin
  BY DEF Pin, NoPin
<1>7. redeemed'[p] = redeemed[p] + 1
  BY <1>1, <1>5 DEF RightConfirm, TypeOK
<1> QED
  BY <1>2, <1>4, <1>5, <1>6, <1>7

\* Neither the other handlers nor the second half of a record write make a
\* device ACTIVE, whatever unpairs or revokes it meanwhile.
THEOREM ActiveByPin == Spec => ActiveOnlyByPin
<1>1. TypeOK /\ PinInv /\ [Next]_vars =>
          [\A d \in Device :
              IsDeviceActive(registry', d) /\ ~IsDeviceActive(registry, d) =>
                  \E c \in Client :
                      /\ sessions[c].device = d
                      /\ sessions[c].sasPin # NoPin
                      /\ redeemed'[sessions[c].sasPin] = redeemed[sessions[c].sasPin] + 1]_vars
  BY ActiveStep
<1> QED
  BY <1>1, TypeCorrect, PinsCorrect, PTL DEF Spec, ActiveOnlyByPin

-----------------------------------------------------------------------------
ActiveDevices == {d \in Device : IsDeviceActive(registry, d)}

\* Both sets that AccountLimitSlack counts are finite.
LEMMA SetsFinite ==
    ASSUME IsFiniteSet(Device), IsFiniteSet(Client)
    PROVE  /\ IsFiniteSet(ActiveDevices) /\ Cardinality(ActiveDevices) \in Nat
           /\ IsFiniteSet(Pending) /\ Cardinality(Pending) \in Nat
           /\ Cardinality(Pending) <= Cardinality(Client)
           /\ Cardinality(Client) \in Nat
<1>1. ActiveDevices \in SUBSET Device /\ Pending \in SUBSET Client
  BY DEF ActiveDevices, Pending
<1> QED
  BY <1>1, FS_Subset, FS_CardinalityType

\* The same holds after a step.
LEMMA SetsFiniteNext ==
    ASSUME IsFiniteSet(Device), IsFiniteSet(Client)
    PROVE  /\ IsFiniteSet(ActiveDevices') /\ Cardinality(ActiveDevices') \in Nat
           /\ IsFiniteSet(Pending') /\ Cardinality(Pending') \in Nat
           /\ Cardinality(Pending') <= Cardinality(Client)
<1>1. ActiveDevices' \in SUBSET Device /\ Pending' \in SUBSET Client
  BY DEF ActiveDevices, Pending
<1> QED
  BY <1>1, FS_Subset, FS_CardinalityType

\* Initially nothing is active or pending.
LEMMA SlackInit ==
    ASSUME IsFiniteSet(Device), IsFiniteSet(Client), Init
    PROVE  AccountLimitSlack
<1>1. ActiveDevices = {} /\ Pending = {}
  BY DEF Init, ActiveDevices, IsDeviceActive, NoRecord, Pending, Waiting, NoSession
<1> QED
  BY <1>1, FS_EmptySet, SetsFinite, PairingAssumption
     DEF AccountLimitSlack, CountActiveDevicesForAccount, ActiveDevices

\* Every step keeps the bound.
LEMMA SlackStep ==
    ASSUME IsFiniteSet(Device), IsFiniteSet(Client), TypeOK, AccountLimitSlack, [Next]_vars
    PROVE  AccountLimitSlack'
<1> SUFFICES Cardinality(ActiveDevices') + Cardinality(Pending')
                 <= MaxDevices - 1 + Cardinality(Client)
  BY DEF AccountLimitSlack, CountActiveDevicesForAccount, ActiveDevices
<1>0. Cardinality(ActiveDevices) + Cardinality(Pending) <= MaxDevices - 1 + Cardinality(Client)
  BY DEF AccountLimitSlack, CountActiveDevicesForAccount, ActiveDevices
<1> USE SetsFinite, SetsFiniteNext, PairingAssumption
<1>1. CASE Quiet
  <2>1. ActiveDevices' \in SUBSET ActiveDevices /\ Pending' \in SUBSET Pending
    BY <1>1 DEF Quiet, ActiveDevices, Pending
  <2>2. /\ Cardinality(ActiveDevices') <= Cardinality(ActiveDevices)
        /\ Cardinality(Pending') <= Cardinality(Pending)
    BY <2>1, FS_Subset
  <2> QED
    BY <1>0, <2>2
<1>2. ASSUME NEW c \in Client, NEW d \in Device, NEW k \in Key, NEW exact,
             OpenSession(c, d, k, exact)
      PROVE  Cardinality(ActiveDevices') + Cardinality(Pending')
                 <= MaxDevices - 1 + Cardinality(Client)
  <2>1. ActiveDevices' = ActiveDevices
    BY <1>2 DEF OpenSession, ActiveDevices
  <2>2. ~(Cardinality(ActiveDevices) >= MaxDevices)
    BY <1>2 DEF OpenSession, Refused, CountActiveDevicesForAccount, ActiveDevices
  <2> QED
    BY <2>1, <2>2
<1>3. ASSUME NEW c \in Client, RightConfirm(c)
      PROVE  Cardinality(ActiveDevices') + Cardinality(Pending')
                 <= MaxDevices - 1 + Cardinality(Client)
  <2>1. PICK d \in Device : d = sessions[c].device
    BY DEF TypeOK, PairingSession
  <2>2. ActiveDevices' \in SUBSET (ActiveDevices \cup {d})
    <3>1. NoKey \in Key
      BY DEF Key
    <3> QED
      BY <1>3, <2>1, <3>1, NewlyActive DEF RightConfirm, ActiveDevices, TypeOK
  <2>3. Cardinality(ActiveDevices') <= Cardinality(ActiveDevices) + 1
    <3>1. /\ IsFiniteSet(ActiveDevices \cup {d})
          /\ Cardinality(ActiveDevices \cup {d}) \in Nat
          /\ Cardinality(ActiveDevices \cup {d}) <= Cardinality(ActiveDevices) + 1
      BY FS_AddElement, FS_CardinalityType
    <3>2. Cardinality(ActiveDevices') <= Cardinality(ActiveDevices \cup {d})
      BY <2>2, <3>1, FS_Subset
    <3> QED
      BY <3>1, <3>2
  <2>4. c \in Pending /\ Pending' = Pending \ {c}
    BY <1>3 DEF RightConfirm, Verified, Pending, Waiting, TypeOK, PairingSession
  <2>5. Cardinality(Pending') = Cardinality(Pending) - 1
    BY <2>4, FS_RemoveElement
  <2> QED
    BY <1>0, <2>3, <2>5
<1> QED
  BY <1>1, <1>2, <1>3, StepKinds

\* With finitely many clients and devices the account limit is passed by no more
\* than the sessions that were open together (HandlePairRequest tests the limit,
\* HandlePairConfirm writes the record).
THEOREM AccountLimitBounded ==
    ASSUME IsFiniteSet(Device), IsFiniteSet(Client)
    PROVE  Spec => []AccountLimitSlack
<1>1. Init => AccountLimitSlack
  BY SlackInit
<1>2. TypeOK /\ AccountLimitSlack /\ [Next]_vars => AccountLimitSlack'
  BY SlackStep
<1> QED
  BY <1>1, <1>2, TypeCorrect, PTL DEF Spec
=============================================================================
