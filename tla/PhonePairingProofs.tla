------------------------- MODULE PhonePairingProofs -------------------------
(***************************************************************************)
(* For any number of overlapping calls and of sockets, and any limit of    *)
(* the reconnect delay: what the phone's transport shows is backed by a    *)
(* socket, timers or an attempt, and nothing acts after dispose.           *)
(***************************************************************************)
EXTENDS PhonePairing, TLAPS

\* The part of the type invariant about the connection.
NetOK ==
    /\ net \in NetworkConnectionState
    /\ socket \in Socket \cup {NoSocket}
    /\ live \in SUBSET Socket
    /\ closing \in SUBSET Socket
    /\ heartbeat \in BOOLEAN
    /\ inactivity \in BOOLEAN
    /\ reconnect \in BOOLEAN
    /\ delay \in 1..MaxDelay
    /\ auto \in BOOLEAN
    /\ malformed \in BOOLEAN

\* The part about the pairing.
PairingOK ==
    /\ pairing \in PairingState
    /\ device \in BOOLEAN
    /\ record \in BOOLEAN
    /\ sasTimer \in BOOLEAN

\* The rest.
LoopOK ==
    /\ loop \in BOOLEAN
    /\ call \in [Call -> CallState]
    /\ disposed \in BOOLEAN
    /\ reachable \in BOOLEAN

\* The three parts are the type invariant.
LEMMA TypeParts == (NetOK /\ PairingOK /\ LoopOK <=> TypeOK) /\ (NetOK' /\ PairingOK' /\ LoopOK' <=> TypeOK')
BY DEF NetOK, PairingOK, LoopOK, TypeOK

\* Destroying the current socket keeps the sets of sockets well typed.
LEMMA DestroyTyped ==
    ASSUME NetOK, NEW gone \in SUBSET Socket, Destroy(gone)
    PROVE  socket' = NoSocket /\ live' \in SUBSET Socket /\ closing' \in SUBSET Socket
BY DEF NetOK, Destroy

\* disconnect keeps the connection's state well typed.
LEMMA DisconnectTyped == ASSUME NetOK, Disconnect, malformed' \in BOOLEAN PROVE NetOK'
BY DestroyTyped DEF Disconnect, StopTimers, NetOK, NetworkConnectionState

\* The loss of a connection keeps the connection's state well typed.
LEMMA LossTyped ==
    ASSUME NetOK, NEW state \in {"disconnected", "errorState"}, NEW gone \in SUBSET Socket,
           HandleLoss(state, gone)
    PROVE  NetOK'
<1>1. socket' = NoSocket /\ live' \in SUBSET Socket /\ closing' \in SUBSET Socket
  BY DestroyTyped DEF HandleLoss
<1>2. net' \in NetworkConnectionState
  BY DEF HandleLoss, NetOK, NetworkConnectionState
<1> QED
  BY <1>1, <1>2 DEF HandleLoss, NetOK

\* The next delay is within its limits.
LEMMA DelayTyped == ASSUME NetOK PROVE NextDelay \in 1..MaxDelay /\ 1 \in 1..MaxDelay
BY PhoneAssumption DEF NetOK, NextDelay

\* A new connection keeps the connection's state well typed.
LEMMA SessionTyped ==
    ASSUME NetOK, NEW s \in Socket, BeginSession(s) \/ AbandonSession(s)
    PROVE  NetOK'
<1>1. delay' \in 1..MaxDelay
  BY DelayTyped DEF BeginSession, AbandonSession
<1>2. CASE BeginSession(s)
  BY <1>1, <1>2 DEF BeginSession, NetOK, NetworkConnectionState
<1>3. CASE AbandonSession(s)
  BY <1>1, <1>3 DEF AbandonSession, StopTimers, NetOK, NetworkConnectionState
<1> QED
  BY <1>2, <1>3

\* The initial state is well typed.
LEMMA TypeInit == Init => TypeOK
<1> SUFFICES ASSUME Init PROVE TypeOK
  OBVIOUS
<1>1. delay \in 1..MaxDelay
  BY PhoneAssumption DEF Init
<1>2. call \in [Call -> CallState]
  BY DEF Init, CallState
<1> QED
  BY <1>1, <1>2 DEF Init, TypeOK, NetworkConnectionState, PairingState

\* Every step keeps the state well typed.
LEMMA TypeStep == TypeOK /\ [Next]_vars => TypeOK'
<1> SUFFICES ASSUME TypeOK, [Next]_vars PROVE TypeOK'
  OBVIOUS
<1> USE DEF socketVars, timerVars, netVars, pairingVars
<1>0. NetOK /\ PairingOK /\ LoopOK
  BY TypeParts
<1>n. ASSUME UNCHANGED netVars PROVE NetOK'
  BY <1>0, <1>n DEF NetOK
<1>p. ASSUME UNCHANGED pairingVars PROVE PairingOK'
  BY <1>0, <1>p DEF PairingOK
<1>l. ASSUME UNCHANGED <<loop, call, disposed, reachable>> PROVE LoopOK'
  BY <1>0, <1>l DEF LoopOK
<1>c. ASSUME NEW c \in Call, NEW x \in CallState, call' = [call EXCEPT ![c] = x],
             UNCHANGED <<loop, disposed, reachable>>
      PROVE  LoopOK'
  BY <1>0, <1>c DEF LoopOK
<1>f. ASSUME loop' \in BOOLEAN, UNCHANGED <<call, disposed, reachable>> PROVE LoopOK'
  BY <1>0, <1>f DEF LoopOK
<1>b. ASSUME NEW c \in Call, NEW why \in {"START", "UNPAIR", "TIMER"}, BeginConnect(c, why),
             UNCHANGED <<socketVars, heartbeat, inactivity, malformed, loop, disposed, reachable>>,
             reconnect' \in BOOLEAN, delay' \in 1..MaxDelay
      PROVE  NetOK' /\ LoopOK'
  <2>1. NetOK'
    BY <1>0, <1>b DEF BeginConnect, NetOK, NetworkConnectionState
  <2>2. LoopOK'
    BY <1>b, <1>c DEF BeginConnect, CallState
  <2> QED
    BY <2>1, <2>2
<1>1. ASSUME NEW s \in Socket, OnDone(s) \/ OnError(s) PROVE TypeOK'
  <2>1. NetOK'
    BY <1>0, <1>1, LossTyped DEF OnDone, OnError
  <2> QED
    BY <1>1, <1>p, <1>l, <2>1, TypeParts DEF OnDone, OnError
<1>2. ASSUME NEW s \in Socket, OnDataReceived(s) PROVE TypeOK'
  <2>1. NetOK' /\ loop' \in BOOLEAN
    <3>1. CASE malformed
      BY <1>0, <1>2, <3>1, DisconnectTyped DEF OnDataReceived, NetOK, LoopOK
    <3>2. CASE ~malformed
      BY <1>0, <1>2, <3>2 DEF OnDataReceived, NetOK
    <3> QED
      BY <3>1, <3>2
  <2> QED
    BY <1>2, <1>p, <1>f, <2>1, TypeParts DEF OnDataReceived
<1>3. CASE RefuseHeader
  <2>1. NetOK'
    BY <1>0, <1>3, DisconnectTyped DEF RefuseHeader
  <2> QED
    BY <1>3, <1>p, <1>f, <2>1, TypeParts DEF RefuseHeader
<1>4. CASE EndLoop
  BY <1>4, <1>n, <1>p, <1>f, TypeParts DEF EndLoop
<1>5. CASE InactivityTimeout
  <2>1. NetOK'
    <3>1. CASE isConnected
      BY <1>0, <1>5, <3>1, LossTyped DEF InactivityTimeout
    <3>2. CASE ~isConnected
      BY <1>0, <1>5, <3>2 DEF InactivityTimeout, NetOK
    <3> QED
      BY <3>1, <3>2
  <2> QED
    BY <1>5, <1>p, <1>l, <2>1, TypeParts DEF InactivityTimeout
<1>6. CASE ReconnectTimeout
  <2>1. delay' \in 1..MaxDelay
    BY <1>0, <1>6, DelayTyped DEF ReconnectTimeout
  <2>2. NetOK' /\ LoopOK'
    <3>1. CASE Refused
      BY <1>0, <1>6, <1>l, <2>1, <3>1 DEF ReconnectTimeout, NetOK
    <3>2. CASE ~Refused
      BY <1>6, <1>b, <2>1, <3>2 DEF ReconnectTimeout
    <3> QED
      BY <3>1, <3>2
  <2> QED
    BY <1>6, <1>p, <2>2, TypeParts DEF ReconnectTimeout
<1>7. ASSUME NEW c \in Call, StartPairing(c) PROVE TypeOK'
  <2>1. PairingOK'
    BY <1>0, <1>7 DEF StartPairing, PairingOK, PairingState
  <2>2. NetOK' /\ LoopOK'
    <3>1. CASE Refused
      BY <1>7, <1>n, <1>l, <3>1 DEF StartPairing
    <3>2. CASE ~Refused
      BY <1>0, <1>7, <1>b, <3>2 DEF StartPairing, NetOK
    <3> QED
      BY <3>1, <3>2
  <2> QED
    BY <2>1, <2>2, TypeParts
<1>8. ASSUME NEW c \in Call, UnpairDevice(c) PROVE TypeOK'
  <2>1. PairingOK'
    BY <1>0, <1>8 DEF UnpairDevice, PairingOK, PairingState
  <2>2. NetOK' /\ LoopOK'
    <3>1. CASE Refused
      BY <1>8, <1>n, <1>l, <3>1 DEF UnpairDevice
    <3>2. CASE ~Refused
      BY <1>0, <1>8, <1>b, <3>2 DEF UnpairDevice, NetOK
    <3> QED
      BY <3>1, <3>2
  <2> QED
    BY <2>1, <2>2, TypeParts
<1>9. ASSUME NEW c \in Call, NEW s \in Socket, NEW sent \in BOOLEAN, ConnectSucceeds(c, s, sent)
      PROVE  TypeOK'
  <2>1. NetOK'
    BY <1>0, <1>9, SessionTyped DEF ConnectSucceeds
  <2>2. CASE call' = [call EXCEPT ![c] = "NONE"] /\ UNCHANGED pairingVars
    BY <1>9, <1>c, <1>p, <2>1, <2>2, TypeParts DEF ConnectSucceeds, CallState
  <2>3. CASE ContinuePairing(c, sent)
    <3>1. PairingOK'
      BY <1>0, <2>3 DEF ContinuePairing, PairingOK, PairingState
    <3> QED
      BY <1>9, <1>c, <2>1, <2>3, <3>1, TypeParts DEF ConnectSucceeds, ContinuePairing, CallState
  <2>4. CASE ContinueUnpairing(c)
    BY <1>9, <1>c, <1>p, <2>1, <2>4, TypeParts DEF ConnectSucceeds, ContinueUnpairing, CallState
  <2> QED
    BY <1>9, <2>2, <2>3, <2>4 DEF ConnectSucceeds
<1>10. ASSUME NEW c \in Call, ConnectFails(c) PROVE TypeOK'
  <2>1. NetOK'
    BY <1>0, <1>10, LossTyped DEF ConnectFails
  <2>2. PairingOK'
    BY <1>0, <1>10 DEF ConnectFails, PairingOK, PairingState
  <2> QED
    BY <1>10, <1>c, <2>1, <2>2, TypeParts DEF ConnectFails, CallState
<1>11. ASSUME NEW c \in Call, EndUnpairing(c) PROVE TypeOK'
  <2>1. NetOK'
    BY <1>0, <1>11, DisconnectTyped DEF EndUnpairing, NetOK
  <2>2. PairingOK'
    BY <1>0, <1>11 DEF EndUnpairing, PairingOK, PairingState
  <2> QED
    BY <1>11, <1>c, <2>1, <2>2, TypeParts DEF EndUnpairing, CallState
<1>12. CASE SubmitSasPin
  <2>1. PairingOK'
    BY <1>0, <1>12 DEF SubmitSasPin, PairingOK, PairingState
  <2> QED
    BY <1>12, <1>n, <1>l, <2>1, TypeParts DEF SubmitSasPin
<1>13. ASSUME CancelPairing PROVE NetOK' /\ PairingOK'
  <2>1. NetOK'
    BY <1>0, <1>13, DisconnectTyped DEF CancelPairing, NetOK
  <2>2. PairingOK'
    BY <1>0, <1>13 DEF CancelPairing, PairingOK, PairingState
  <2> QED
    BY <2>1, <2>2
<1>14. CASE UserCancels
  BY <1>14, <1>13, <1>l, TypeParts DEF UserCancels
<1>15. CASE SasTimeout
  <2>1. NetOK' /\ PairingOK'
    <3>1. CASE CancelPairing
      BY <1>13, <3>1
    <3>2. CASE sasTimer' = FALSE /\ UNCHANGED <<netVars, pairing, device, record>>
      BY <1>0, <1>n, <3>2 DEF PairingOK
    <3> QED
      BY <1>15, <3>1, <3>2 DEF SasTimeout
  <2> QED
    BY <1>15, <1>l, <2>1, TypeParts DEF SasTimeout
<1>16. CASE OnPairResponse \/ OnPairComplete \/ OnUnpairResponse
  <2>1. PairingOK' /\ loop' \in BOOLEAN
    BY <1>0, <1>16
       DEF OnPairResponse, OnPairComplete, OnUnpairResponse, PairingOK, PairingState
  <2> QED
    BY <1>16, <1>n, <1>f, <2>1, TypeParts DEF OnPairResponse, OnPairComplete, OnUnpairResponse
<1>17. CASE OnProtoError
  <2>1. PairingOK' /\ loop' \in BOOLEAN
    BY <1>0, <1>17 DEF OnProtoError, PairingOK, PairingState
  <2>2. NetOK'
    <3>1. CASE disposed
      BY <1>17, <1>n, <3>1 DEF OnProtoError
    <3>2. CASE ~disposed
      BY <1>0, <1>17, <3>2, DisconnectTyped DEF OnProtoError, NetOK
    <3> QED
      BY <3>1, <3>2
  <2> QED
    BY <1>17, <1>f, <2>1, <2>2, TypeParts DEF OnProtoError
<1>18. CASE Dispose
  <2>1. NetOK'
    BY <1>0, <1>18, DisconnectTyped DEF Dispose, NetOK
  <2>2. PairingOK' /\ LoopOK'
    BY <1>0, <1>18 DEF Dispose, PairingOK, LoopOK
  <2> QED
    BY <2>1, <2>2, TypeParts
<1>19. CASE NetworkChanges
  <2>1. LoopOK'
    BY <1>0, <1>19 DEF NetworkChanges, LoopOK
  <2> QED
    BY <1>19, <1>n, <1>p, <2>1, TypeParts DEF NetworkChanges
<1>20. CASE UNCHANGED vars
  BY <1>20, <1>n, <1>p, <1>l, TypeParts DEF vars
<1> QED
  BY <1>1, <1>2, <1>3, <1>4, <1>5, <1>6, <1>7, <1>8, <1>9, <1>10, <1>11, <1>12, <1>14, <1>15,
     <1>16, <1>17, <1>18, <1>19, <1>20
     DEF Next, User, SocketEvent, OnFrameReceived, ConnectEnds

\* The phone's state keeps its shape; in particular the delay stays within limits.
THEOREM TypeCorrect == Spec => []TypeOK
BY TypeInit, TypeStep, PTL DEF Spec

-----------------------------------------------------------------------------
(* What is shown is there.  A session begins with its socket and timers in *)
(* one event, and whatever takes the socket leaves activeSession in the    *)
(* same event.  A handshake begins with its attempt, and the end of any    *)
(* attempt leaves tlsHandshake, also that of another attempt.              *)

\* The end of a connection leaves nothing to back.
LEMMA LossBacks ==
    ASSUME NEW state \in {"disconnected", "errorState"}, NEW gone \in SUBSET Socket,
           Disconnect \/ HandleLoss(state, gone)
    PROVE  StateIsBacked'
<1>1. net' \in {"disconnected", "errorState", "reconnecting"} /\ socket' = NoSocket
  BY DEF Disconnect, HandleLoss, Destroy
<1> QED
  BY <1>1 DEF StateIsBacked, SessionWatched, HandshakeIsAwaited, isConnected

\* Every step keeps the shown state backed.
LEMMA BackedStep == TypeOK /\ StateIsBacked /\ [Next]_vars => StateIsBacked'
<1> SUFFICES ASSUME TypeOK, StateIsBacked, [Next]_vars PROVE StateIsBacked'
  OBVIOUS
<1> USE PhoneAssumption DEF socketVars, timerVars, netVars, pairingVars
<1>d. "disconnected" \in {"disconnected", "errorState"}
      /\ "errorState" \in {"disconnected", "errorState"} /\ {} \in SUBSET Socket
  OBVIOUS
<1>u. ASSUME UNCHANGED <<net, socketVars, heartbeat, call>>, inactivity' \/ inactivity' = inactivity
      PROVE  StateIsBacked'
  BY <1>u DEF StateIsBacked, SessionWatched, HandshakeIsAwaited, isConnected, Awaiting
<1>b. ASSUME NEW c \in Call, NEW why \in {"START", "UNPAIR", "TIMER"}, BeginConnect(c, why),
             ~Refused, UNCHANGED socketVars
      PROVE  StateIsBacked'
  <2>1. net' = "tlsHandshake" /\ call'[c] = why /\ socket' = NoSocket
    BY <1>b DEF BeginConnect, TypeOK, Refused, StateIsBacked, SessionWatched
  <2> QED
    BY <2>1 DEF StateIsBacked, SessionWatched, HandshakeIsAwaited, isConnected, Awaiting
<1>1. ASSUME NEW s \in Socket, OnDone(s) \/ OnError(s) PROVE StateIsBacked'
  BY <1>1, <1>d, LossBacks DEF OnDone, OnError
<1>2. ASSUME NEW s \in Socket, OnDataReceived(s) PROVE StateIsBacked'
  BY <1>2, <1>d, <1>u, LossBacks DEF OnDataReceived
<1>3. CASE RefuseHeader \/ UserCancels \/ Dispose \/ \E c \in Call : EndUnpairing(c)
  BY <1>3, <1>d, LossBacks DEF RefuseHeader, UserCancels, CancelPairing, Dispose, EndUnpairing
<1>4. CASE \/ EndLoop \/ SubmitSasPin \/ OnPairResponse \/ OnPairComplete \/ OnUnpairResponse
           \/ NetworkChanges \/ UNCHANGED vars
  BY <1>4, <1>u
     DEF EndLoop, SubmitSasPin, OnPairResponse, OnPairComplete, OnUnpairResponse,
         NetworkChanges, vars
<1>5. CASE OnProtoError
  BY <1>5, <1>d, <1>u, LossBacks DEF OnProtoError
<1>6. CASE SasTimeout
  BY <1>6, <1>d, <1>u, LossBacks DEF SasTimeout, CancelPairing
<1>7. CASE InactivityTimeout
  <2>1. CASE isConnected
    BY <1>7, <1>d, <2>1, LossBacks DEF InactivityTimeout
  <2>2. CASE ~isConnected
    <3>1. UNCHANGED <<net, socket, call>>
      BY <1>7, <2>2 DEF InactivityTimeout
    <3> QED
      BY <2>2, <3>1 DEF StateIsBacked, SessionWatched, HandshakeIsAwaited, isConnected, Awaiting
  <2> QED
    BY <2>1, <2>2
<1>8. CASE ReconnectTimeout
  <2>1. CASE Refused
    BY <1>8, <1>u, <2>1 DEF ReconnectTimeout
  <2>2. CASE ~Refused
    BY <1>8, <1>b, <2>2 DEF ReconnectTimeout
  <2> QED
    BY <2>1, <2>2
<1>9. ASSUME NEW c \in Call, StartPairing(c) \/ UnpairDevice(c) PROVE StateIsBacked'
  <2>1. CASE Refused
    BY <1>9, <1>u, <2>1 DEF StartPairing, UnpairDevice
  <2>2. CASE ~Refused
    BY <1>9, <1>b, <2>2 DEF StartPairing, UnpairDevice
  <2> QED
    BY <2>1, <2>2
<1>10. ASSUME NEW c \in Call, NEW s \in Socket, NEW sent \in BOOLEAN, ConnectSucceeds(c, s, sent)
       PROVE  StateIsBacked'
  <2>1. s # NoSocket
    OBVIOUS
  <2>2. CASE BeginSession(s)
    BY <2>1, <2>2
       DEF BeginSession, StateIsBacked, SessionWatched, HandshakeIsAwaited, isConnected
  <2>3. CASE AbandonSession(s)
    BY <2>3 DEF AbandonSession, StateIsBacked, SessionWatched, HandshakeIsAwaited, isConnected
  <2> QED
    BY <1>10, <2>2, <2>3 DEF ConnectSucceeds
<1>11. ASSUME NEW c \in Call, ConnectFails(c) PROVE StateIsBacked'
  BY <1>11, <1>d, LossBacks DEF ConnectFails
<1> QED
  BY <1>1, <1>2, <1>3, <1>4, <1>5, <1>6, <1>7, <1>8, <1>9, <1>10, <1>11
     DEF Next, User, SocketEvent, OnFrameReceived, ConnectEnds

\* However attempts overlap and late events of old sockets come in, a session has
\* its socket and its timers and a handshake has its attempt.
THEOREM StateBacked == Spec => []StateIsBacked
<1>1. Init => StateIsBacked
  BY PhoneAssumption DEF Init, StateIsBacked, SessionWatched, HandshakeIsAwaited, isConnected
<1> QED
  BY <1>1, TypeCorrect, BackedStep, PTL DEF Spec

-----------------------------------------------------------------------------
(* Why dispose is final.  It clears _shouldAutoReconnect, which only a new *)
(* connect sets again, and after dispose only the reconnect timer could    *)
(* call connect; no timer is set without the flag.  An attempt that is     *)
(* still awaited fails at the closed stream.                               *)

QuietInv == DisposedIsQuiet /\ (disposed => ~auto)

\* Every step keeps a disposed service quiet.
LEMMA QuietStep == QuietInv /\ [Next]_vars => QuietInv'
<1> SUFFICES ASSUME QuietInv, [Next]_vars PROVE QuietInv'
  OBVIOUS
<1>u. UNCHANGED vars => QuietInv'
  BY DEF vars, netVars, socketVars, timerVars, pairingVars, QuietInv, DisposedIsQuiet,
         isConnected
<1>d. ~disposed' => QuietInv'
  BY DEF QuietInv, DisposedIsQuiet
<1> SUFFICES ASSUME Next, disposed' PROVE QuietInv'
  BY <1>u, <1>d
<1> USE DEF socketVars, timerVars, netVars, pairingVars
<1>0. disposed => /\ net # "activeSession" /\ socket = NoSocket /\ ~heartbeat /\ ~reconnect
                  /\ ~sasTimer /\ ~auto
  BY DEF QuietInv, DisposedIsQuiet, isConnected
<1>1. ASSUME net' # "activeSession", socket' = NoSocket, ~heartbeat', ~reconnect', ~sasTimer',
             ~auto'
      PROVE  QuietInv'
  BY <1>1 DEF QuietInv, DisposedIsQuiet, isConnected
<1>2. CASE Dispose
  BY <1>1, <1>2 DEF Dispose, Disconnect, StopTimers, Destroy
<1>3. CASE ~Dispose
  <2>1. disposed
    BY <1>3
       DEF Next, User, SocketEvent, OnFrameReceived, ConnectEnds, OnDone, OnError,
           OnDataReceived, RefuseHeader, EndLoop, InactivityTimeout, ReconnectTimeout,
           StartPairing, UnpairDevice, ConnectSucceeds, ConnectFails, EndUnpairing,
           SubmitSasPin, UserCancels, SasTimeout, OnPairResponse, OnPairComplete,
           OnProtoError, OnUnpairResponse, NetworkChanges
  <2>2. ASSUME UNCHANGED <<net, socket, heartbeat, reconnect, auto>>, ~sasTimer' PROVE QuietInv'
    BY <1>0, <1>1, <2>1, <2>2
  <2>3. ASSUME NEW state \in {"disconnected", "errorState"}, NEW gone \in SUBSET Socket,
               Disconnect \/ HandleLoss(state, gone), ~sasTimer'
        PROVE  QuietInv'
    BY <1>0, <1>1, <2>1, <2>3 DEF Disconnect, HandleLoss, StopTimers, Destroy
  <2>4. ASSUME NEW s \in Socket, SocketEvent(s) PROVE QuietInv'
    <3>1. ~sasTimer'
      BY <1>0, <2>1, <2>4 DEF SocketEvent, OnDone, OnError, OnDataReceived
    <3>2. CASE OnDone(s) \/ OnError(s)
      BY <2>3, <3>1, <3>2 DEF OnDone, OnError
    <3>3. CASE OnDataReceived(s)
      BY <2>2, <2>3, <3>1, <3>3 DEF OnDataReceived
    <3> QED
      BY <2>4, <3>2, <3>3 DEF SocketEvent
  <2>5. CASE RefuseHeader \/ \E c \in Call : EndUnpairing(c)
    BY <1>0, <2>1, <2>3, <2>5 DEF RefuseHeader, EndUnpairing
  <2>6. CASE \/ EndLoop \/ OnFrameReceived \/ NetworkChanges
    BY <1>0, <2>1, <2>2, <2>6
       DEF EndLoop, OnFrameReceived, OnPairResponse, OnPairComplete, OnProtoError,
           OnUnpairResponse, NetworkChanges
  <2>7. CASE InactivityTimeout
    BY <1>0, <2>1, <2>2, <2>7 DEF InactivityTimeout, isConnected
  <2>8. CASE ReconnectTimeout \/ SasTimeout \/ User
    BY <1>0, <1>3, <2>1, <2>8
       DEF ReconnectTimeout, SasTimeout, User, StartPairing, UnpairDevice, SubmitSasPin,
           UserCancels
  <2>9. ASSUME NEW c \in Call, ConnectEnds(c) PROVE QuietInv'
    <3>1. ASSUME NEW s \in Socket, NEW sent \in BOOLEAN, ConnectSucceeds(c, s, sent)
          PROVE  QuietInv'
      <4>1. AbandonSession(s) /\ UNCHANGED pairingVars
        BY <1>0, <2>1, <3>1 DEF ConnectSucceeds, Throws
      <4> QED
        BY <1>0, <1>1, <2>1, <4>1 DEF AbandonSession, StopTimers
    <3>2. CASE ConnectFails(c)
      <4>1. ~sasTimer'
        BY <1>0, <2>1, <3>2 DEF ConnectFails
      <4> QED
        BY <2>3, <3>2, <4>1 DEF ConnectFails
    <3> QED
      BY <2>9, <3>1, <3>2 DEF ConnectEnds
  <2> QED
    BY <2>4, <2>5, <2>6, <2>7, <2>8, <2>9 DEF Next
<1> QED
  BY <1>2, <1>3

\* After dispose there is no session again and no timer that acts, whatever was
\* awaited across it.
THEOREM DisposeFinal == Spec => []DisposedIsQuiet
<1>1. Init => QuietInv
  BY DEF Init, QuietInv, DisposedIsQuiet
<1>2. QuietInv => DisposedIsQuiet
  BY DEF QuietInv
<1> QED
  BY <1>1, <1>2, QuietStep, PTL DEF Spec
=============================================================================
