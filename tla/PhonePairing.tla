---------------------------- MODULE PhonePairing ----------------------------
(***************************************************************************)
(* The phone's side of a connection: WiFiTransport                         *)
(* (flutter_app/lib/network/wifi_transport.dart) and the PairingService    *)
(* that drives it (flutter_app/lib/services/pairing_service.dart).         *)
(*                                                                         *)
(* Dart runs one event at a time.  A step is an event with all the         *)
(* microtasks it completes; an await of a connection or of a delay ends a  *)
(* step, and whatever happens before the awaited event finds the state as  *)
(* the code left it at the await.  The loop of _onDataReceived is taken    *)
(* frame by frame; no other event is handled before it ends.               *)
(*                                                                         *)
(* Left out: the contents of frames and their counters (WireFormat has the *)
(* header), the heartbeat's PING, which changes nothing here, and the      *)
(* state tcpConnecting, which connect leaves at once.                      *)
(***************************************************************************)
EXTENDS Naturals

CONSTANTS
    Call,      \* bound: calls of startPairing and unpairDevice under way at one time
    Socket,    \* bound: sockets with events to deliver at one time
    NoSocket,  \* a null _socket
    MaxDelay   \* the longest reconnect delay, 16 in the code

VARIABLES
    net,          \* WiFiTransport._state
    socket,       \* WiFiTransport._socket
    live,         \* the sockets the transport listens to
    closing,      \* the destroyed sockets that have not reported their end yet
    heartbeat,    \* _heartbeatTimer is running
    inactivity,   \* _inactivityTimer is running
    reconnect,    \* _reconnectTimer is running
    delay,        \* _reconnectDelaySeconds
    auto,         \* _shouldAutoReconnect
    malformed,    \* _incomingBuffer begins with a header that is refused
    loop,         \* an event is in the loop of _onDataReceived
    call,         \* what each call of the service waits for
    pairing,      \* PairingService._state
    device,       \* _currentDeviceId is set
    record,       \* _pairedRecord is set
    sasTimer,     \* _sasTimer is running
    disposed,     \* dispose was called: both state streams are closed
    reachable     \* the PC can be reached

socketVars  == <<socket, live, closing>>
timerVars   == <<heartbeat, inactivity, reconnect>>
netVars     == <<net, socketVars, timerVars, delay, auto, malformed>>
pairingVars == <<pairing, device, record, sasTimer>>

vars == <<netVars, loop, call, pairingVars, disposed, reachable>>

-----------------------------------------------------------------------------
ASSUME PhoneAssumption ==
    /\ NoSocket \notin Socket
    /\ MaxDelay \in Nat \ {0}

NetworkConnectionState ==
    {"disconnected", "tlsHandshake", "activeSession", "reconnecting", "errorState"}

PairingState ==
    {"unpaired", "pairingRequested", "waitingForSas", "sasEntered",
     "pairingConfirmed", "paired", "failed", "cancelled"}

isConnected == net = "activeSession"

isTransitioning == net \in {"tlsHandshake", "reconnecting"}

\* NONE: no call.  START, UNPAIR, TIMER: a connection is awaited, for startPairing,
\* unpairDevice or the reconnect timer.  DELAY: unpairDevice's 300 ms.
CallState == {"NONE", "START", "UNPAIR", "TIMER", "DELAY"}

Awaiting(c) == call[c] \in {"START", "UNPAIR", "TIMER"}

\* The next event is taken when the previous one is done with.
EventLoop == ~loop

\* _setState throws when it has a new state for a closed stream; the state is
\* assigned by then.
Throws(newState) == disposed /\ net # newState

-----------------------------------------------------------------------------
(* WiFiTransport.                                                          *)

\* Every timer of the transport is cancelled.
StopTimers ==
    /\ heartbeat' = FALSE
    /\ inactivity' = FALSE
    /\ reconnect' = FALSE

\* The current socket is destroyed; the events of the sockets in gone are over.
Destroy(gone) ==
    /\ socket' = NoSocket
    /\ live' = live \ (gone \cup {socket})
    /\ closing' = (closing \cup ({socket} \ {NoSocket})) \ gone

\* disconnect.  An awaited connection is not cancelled.
Disconnect ==
    /\ auto' = FALSE
    /\ StopTimers
    /\ Destroy({})
    /\ net' = "disconnected"
    /\ UNCHANGED delay

\* _handleDisconnect and _handleConnectionError, with _scheduleReconnect.
HandleLoss(state, gone) ==
    /\ heartbeat' = FALSE
    /\ inactivity' = FALSE
    /\ Destroy(gone)
    /\ net' = IF auto THEN "reconnecting" ELSE state
    /\ reconnect' = auto
    /\ UNCHANGED <<delay, auto, malformed>>

\* connect up to the await.
BeginConnect(c, why) ==
    /\ call[c] = "NONE"
    /\ call' = [call EXCEPT ![c] = why]
    /\ auto' = TRUE
    /\ net' = "tlsHandshake"

\* connect refuses.
Refused == isConnected \/ isTransitioning

\* Mutant: the watch for silence begins with the first data.
BeginSessionUnwatched(s) ==
    /\ socket' = s
    /\ live' = live \cup {s}
    /\ malformed' = FALSE
    /\ delay' = 1
    /\ net' = "activeSession"
    /\ heartbeat' = TRUE
    /\ UNCHANGED <<closing, inactivity, reconnect, auto>>

\* connect after the await.  An earlier socket is replaced and still listened to.
BeginSession(s) ==
    /\ socket' = s
    /\ live' = live \cup {s}
    /\ malformed' = FALSE
    /\ delay' = 1
    /\ net' = "activeSession"
    /\ heartbeat' = TRUE
    /\ inactivity' = TRUE
    /\ UNCHANGED <<closing, reconnect, auto>>

\* The same after dispose: the new state cannot be told to anyone, the exception
\* ends in the handler of failed connections, and the handler's own as well.
AbandonSession(s) ==
    /\ StopTimers
    /\ socket' = NoSocket
    /\ closing' = closing \cup {s}
    /\ malformed' = FALSE
    /\ delay' = 1
    /\ net' = "errorState"
    /\ UNCHANGED <<live, auto>>

\* A socket the transport listens to, or has destroyed, ends.
OnDone(s) ==
    /\ EventLoop
    /\ s \in live \cup closing
    /\ HandleLoss("disconnected", {s})
    /\ UNCHANGED <<loop, call, pairingVars, disposed, reachable>>

OnError(s) ==
    /\ EventLoop
    /\ s \in live
    /\ HandleLoss("errorState", {s})
    /\ UNCHANGED <<loop, call, pairingVars, disposed, reachable>>

\* _onDataReceived.  The data is added to the buffer: a refused header in front of
\* it is refused again.
OnDataReceived(s) ==
    /\ EventLoop
    /\ reachable
    /\ s \in live
    /\ IF malformed
       THEN Disconnect /\ UNCHANGED <<loop, malformed>>
       ELSE /\ inactivity' = TRUE
            /\ loop' = TRUE
            /\ UNCHANGED <<net, socketVars, heartbeat, reconnect, delay, auto, malformed>>
    /\ UNCHANGED <<call, pairingVars, disposed, reachable>>

\* The header in front of the buffer is refused; it stays there.
RefuseHeader ==
    /\ loop
    /\ loop' = FALSE
    /\ malformed' = TRUE
    /\ Disconnect
    /\ UNCHANGED <<call, pairingVars, disposed, reachable>>

\* No whole frame is left in the buffer.
EndLoop ==
    /\ loop
    /\ loop' = FALSE
    /\ UNCHANGED <<netVars, call, pairingVars, disposed, reachable>>

\* Mutant: a session that was silent is given another chance, again and again.
InactivityTimeoutRearmed ==
    /\ EventLoop
    /\ inactivity
    /\ inactivity' = isConnected
    /\ UNCHANGED <<net, socketVars, heartbeat, reconnect, delay, auto, malformed, loop, call,
                   pairingVars, disposed, reachable>>

InactivityTimeout ==
    /\ EventLoop
    /\ inactivity
    /\ IF isConnected
       THEN HandleLoss("disconnected", {})
       ELSE /\ inactivity' = FALSE
            /\ UNCHANGED <<net, socketVars, heartbeat, reconnect, delay, auto, malformed>>
    /\ UNCHANGED <<loop, call, pairingVars, disposed, reachable>>

NextDelay == IF 2 * delay > MaxDelay THEN MaxDelay ELSE 2 * delay

\* The callback of _scheduleReconnect's timer.
ReconnectTimeout ==
    /\ EventLoop
    /\ reconnect
    /\ reconnect' = FALSE
    /\ delay' = NextDelay
    /\ IF Refused
       THEN UNCHANGED <<net, auto, call>>
       ELSE \E c \in Call : BeginConnect(c, "TIMER")
    /\ UNCHANGED <<socketVars, heartbeat, inactivity, malformed, loop, pairingVars, disposed, reachable>>

-----------------------------------------------------------------------------
(* PairingService.                                                         *)

\* startPairing up to the await.  When connect refuses, pairing has failed and the
\* earlier connection and SAS timer stay as they are.
StartPairing(c) ==
    /\ EventLoop
    /\ ~disposed
    /\ call[c] = "NONE"
    /\ device' = TRUE
    /\ IF Refused
       THEN /\ pairing' = "failed"
            /\ UNCHANGED <<net, auto, call>>
       ELSE /\ pairing' = "pairingRequested"
            /\ BeginConnect(c, "START")
    /\ UNCHANGED <<socketVars, timerVars, delay, malformed, loop, record, sasTimer, disposed, reachable>>

\* unpairDevice up to the await.  When connect refuses, the PC is not told.
UnpairDevice(c) ==
    /\ EventLoop
    /\ ~disposed
    /\ call[c] = "NONE"
    /\ record
    /\ IF Refused
       THEN /\ record' = FALSE
            /\ pairing' = "unpaired"
            /\ UNCHANGED <<net, auto, call>>
       ELSE /\ BeginConnect(c, "UNPAIR")
            /\ UNCHANGED <<record, pairing>>
    /\ UNCHANGED <<socketVars, timerVars, delay, malformed, loop, device, sasTimer, disposed, reachable>>

\* startPairing after the await; sendFrame fails when the request is too long or
\* the socket does not take it.
ContinuePairing(c, sent) ==
    /\ call' = [call EXCEPT ![c] = "NONE"]
    /\ pairing' = IF sent THEN "waitingForSas" ELSE "failed"
    /\ sasTimer' = (sent \/ sasTimer)
    /\ UNCHANGED <<device, record>>

\* unpairDevice after the await.  The record it dereferences may be gone by now;
\* the exception ends the call and leaves the connection.
ContinueUnpairing(c) ==
    /\ call' = [call EXCEPT ![c] = IF record THEN "DELAY" ELSE "NONE"]
    /\ UNCHANGED pairingVars

\* The awaited connection is there.
ConnectSucceeds(c, s, sent) ==
    /\ EventLoop
    /\ Awaiting(c)
    /\ reachable
    /\ s \notin live \cup closing
    /\ IF Throws("activeSession")
       THEN AbandonSession(s)
       ELSE BeginSession(s)
    /\ IF Throws("activeSession") \/ call[c] = "TIMER"
       THEN call' = [call EXCEPT ![c] = "NONE"] /\ UNCHANGED pairingVars
       ELSE IF call[c] = "START" THEN ContinuePairing(c, sent) ELSE ContinueUnpairing(c)
    /\ UNCHANGED <<loop, disposed, reachable>>

\* The attempt failed or its ten seconds are over.
ConnectFails(c) ==
    /\ EventLoop
    /\ Awaiting(c)
    /\ HandleLoss("errorState", {})
    /\ call' = [call EXCEPT ![c] = "NONE"]
    /\ IF Throws("errorState") \/ call[c] = "TIMER"
       THEN UNCHANGED pairingVars
       ELSE /\ pairing' = IF call[c] = "START" THEN "failed" ELSE "unpaired"
            /\ record' = (record /\ call[c] = "START")
            /\ UNCHANGED <<device, sasTimer>>
    /\ UNCHANGED <<loop, disposed, reachable>>

\* unpairDevice after its delay.
EndUnpairing(c) ==
    /\ EventLoop
    /\ call[c] = "DELAY"
    /\ call' = [call EXCEPT ![c] = "NONE"]
    /\ Disconnect
    /\ record' = FALSE
    /\ pairing' = "unpaired"
    /\ UNCHANGED <<malformed, loop, device, sasTimer, disposed, reachable>>

\* A PIN of another length, or at another time, is refused.
SubmitSasPin ==
    /\ EventLoop
    /\ ~disposed
    /\ pairing = "waitingForSas"
    /\ device
    /\ pairing' = "sasEntered"
    /\ UNCHANGED <<netVars, loop, call, device, record, sasTimer, disposed, reachable>>

CancelPairing ==
    /\ sasTimer' = FALSE
    /\ Disconnect
    /\ pairing' = "cancelled"
    /\ UNCHANGED <<malformed, device, record>>

UserCancels ==
    /\ EventLoop
    /\ ~disposed
    /\ CancelPairing
    /\ UNCHANGED <<loop, call, disposed, reachable>>

SasTimeout ==
    /\ EventLoop
    /\ sasTimer
    /\ IF pairing \in {"waitingForSas", "sasEntered"}
       THEN CancelPairing
       ELSE sasTimer' = FALSE /\ UNCHANGED <<netVars, pairing, device, record>>
    /\ UNCHANGED <<loop, call, disposed, reachable>>

\* Mutant: an exchange that looks still open loses its timer.
OnPairResponseUntimed ==
    /\ loop
    /\ pairing' = "waitingForSas"
    /\ sasTimer' = FALSE
    /\ loop' = ~disposed
    /\ UNCHANGED <<netVars, call, device, record, disposed, reachable>>

\* _onFrameReceived: one frame of the loop.  After dispose the first _setState
\* throws, which ends the loop and what follows it.
OnPairResponse ==
    /\ loop
    /\ pairing' = "waitingForSas"
    /\ loop' = ~disposed
    /\ UNCHANGED <<netVars, call, device, record, sasTimer, disposed, reachable>>

OnPairComplete ==
    /\ loop
    /\ sasTimer' = FALSE
    /\ pairing' = IF disposed THEN "pairingConfirmed" ELSE "paired"
    /\ record' = (record \/ ~disposed)
    /\ loop' = ~disposed
    /\ UNCHANGED <<netVars, call, device, disposed, reachable>>

OnProtoError ==
    /\ loop
    /\ sasTimer' = FALSE
    /\ pairing' = "failed"
    /\ loop' = ~disposed
    /\ IF disposed THEN UNCHANGED <<net, socketVars, timerVars, delay, auto>> ELSE Disconnect
    /\ UNCHANGED <<malformed, call, device, record, disposed, reachable>>

OnUnpairResponse ==
    /\ loop
    /\ record' = FALSE
    /\ pairing' = "unpaired"
    /\ loop' = ~disposed
    /\ UNCHANGED <<netVars, call, device, sasTimer, disposed, reachable>>

\* Mutant: the service closes its stream and forgets the transport.
DisposeStreamOnly ==
    /\ EventLoop
    /\ ~disposed
    /\ disposed' = TRUE
    /\ sasTimer' = FALSE
    /\ UNCHANGED <<netVars, loop, call, pairing, device, record, reachable>>

Dispose ==
    /\ EventLoop
    /\ ~disposed
    /\ disposed' = TRUE
    /\ sasTimer' = FALSE
    /\ Disconnect
    /\ UNCHANGED <<malformed, loop, call, pairing, device, record, reachable>>

-----------------------------------------------------------------------------
\* The network, or the PC, goes away without a word, or comes back.
NetworkChanges ==
    /\ EventLoop
    /\ reachable' = ~reachable
    /\ UNCHANGED <<netVars, loop, call, pairingVars, disposed>>

Init ==
    /\ net = "disconnected"
    /\ socket = NoSocket
    /\ live = {}
    /\ closing = {}
    /\ heartbeat = FALSE
    /\ inactivity = FALSE
    /\ reconnect = FALSE
    /\ delay = 1
    /\ auto = TRUE
    /\ malformed = FALSE
    /\ loop = FALSE
    /\ call = [c \in Call |-> "NONE"]
    /\ pairing = "unpaired"
    /\ device = FALSE
    /\ record = FALSE
    /\ sasTimer = FALSE
    /\ disposed = FALSE
    /\ reachable = TRUE

SocketEvent(s) == OnDone(s) \/ OnError(s) \/ OnDataReceived(s)

OnFrameReceived == OnPairResponse \/ OnPairComplete \/ OnProtoError \/ OnUnpairResponse

ConnectEnds(c) ==
    \/ \E s \in Socket, sent \in BOOLEAN : ConnectSucceeds(c, s, sent)
    \/ ConnectFails(c)

User ==
    \/ \E c \in Call : StartPairing(c) \/ UnpairDevice(c)
    \/ SubmitSasPin
    \/ UserCancels
    \/ Dispose

Next ==
    \/ User
    \/ \E s \in Socket : SocketEvent(s)
    \/ RefuseHeader
    \/ EndLoop
    \/ OnFrameReceived
    \/ InactivityTimeout
    \/ ReconnectTimeout
    \/ SasTimeout
    \/ \E c \in Call : ConnectEnds(c) \/ EndUnpairing(c)
    \/ NetworkChanges

Spec == Init /\ [][Next]_vars

\* A buffer holds finitely many frames; connect has a time limit; a timer that is
\* set goes off, between whatever other events there are, unless it is set again.
FairSpec ==
    /\ Spec
    /\ WF_vars(EndLoop)
    /\ WF_vars(InactivityTimeout)
    /\ SF_vars(ReconnectTimeout)
    /\ SF_vars(SasTimeout)
    /\ \A c \in Call : SF_vars(ConnectEnds(c))

-----------------------------------------------------------------------------
\* The shape of the state.
TypeOK ==
    /\ net \in NetworkConnectionState
    /\ socket \in Socket \cup {NoSocket}
    /\ live \in SUBSET Socket
    /\ closing \in SUBSET Socket
    /\ heartbeat \in BOOLEAN
    /\ inactivity \in BOOLEAN
    /\ reconnect \in BOOLEAN
    /\ delay \in 1..MaxDelay
    /\ auto \in BOOLEAN
    /\ malformed \in BOOLEAN
    /\ loop \in BOOLEAN
    /\ call \in [Call -> CallState]
    /\ pairing \in PairingState
    /\ device \in BOOLEAN
    /\ record \in BOOLEAN
    /\ sasTimer \in BOOLEAN
    /\ disposed \in BOOLEAN
    /\ reachable \in BOOLEAN

\* A session is announced exactly while there is a socket that is listened to, and
\* it is watched for silence: overlapping attempts, late ends of destroyed sockets
\* and errors of forgotten ones never leave a session without its timers.
SessionWatched ==
    /\ isConnected <=> socket # NoSocket
    /\ isConnected => socket \in live /\ heartbeat /\ inactivity

\* The transport shows a handshake, and refuses every connect, only as long as some
\* attempt is really awaited and will change the state again.
HandshakeIsAwaited == net = "tlsHandshake" => \E c \in Call : Awaiting(c)

\* What the transport shows is what there is: its state is backed by a socket, by
\* timers or by an attempt, whatever overlaps.
StateIsBacked == SessionWatched /\ HandshakeIsAwaited

\* dispose is final: an attempt awaited across it, or a forgotten socket, brings
\* back neither a session nor a timer that acts.
DisposedIsQuiet ==
    disposed => ~isConnected /\ socket = NoSocket /\ ~heartbeat /\ ~reconnect /\ ~sasTimer

\* When the PC vanishes without closing the connection, the session ends.
SilentPeerDropped == ~reachable ~> reachable \/ ~isConnected

\* A pairing that is under way ends, unless the service is disposed of: the request
\* is answered, fails, or is cut off by the SAS timer, whatever the connection, the
\* PC and further calls do in the meantime.
PairingEnds ==
    /\ pairing = "pairingRequested"
          ~> pairing # "pairingRequested" \/ disposed
    /\ (sasTimer /\ pairing \in {"waitingForSas", "sasEntered"})
          ~> pairing \notin {"waitingForSas", "sasEntered"} \/ disposed

\* After a loss the transport tries to connect again: it leaves reconnecting.
ReconnectTries == net = "reconnecting" ~> net # "reconnecting"
=============================================================================
