----------------------------- MODULE Discovery -----------------------------
(***************************************************************************)
(* How a phone finds the PC: MdnsResponder of                              *)
(* windows/network/MdnsResponder.cpp, which answers queries on a UDP port, *)
(* and MdnsDiscovery of flutter_app/lib/network/mdns_discovery.dart, which *)
(* broadcasts them, once after its bind and once again 1.5 seconds later.  *)
(* A query may come at any time, from any phone; answers are lost, delayed *)
(* and repeated.                                                           *)
(* The responder has a listener thread of its own; the phone takes one     *)
(* event at a time and awaits its socket.  ServiceLifecycle starts and     *)
(* stops the responder.                                                    *)
(*                                                                         *)
(* Left out: the host name, the port and the service type in an answer,    *)
(* which never change, queries and answers that are refused, and the list  *)
(* of PCs that the phone shows, which neither side acts on.                *)
(***************************************************************************)
EXTENDS Naturals

CONSTANTS
    NoState,       \* no answer under way
    MaxSearches,   \* bound: searches whose timers are pending at one time
    MaxLost        \* bound: sockets of the phone that nothing refers to any more

ASSUME DiscoveryAssumption == MaxSearches \in Nat /\ MaxLost \in Nat

PcState == {"OFFLINE", "ONLINE", "LOCKED"}

VARIABLES
    responder,     \* m_mdnsResponder of the service: null or set
    mdnsRunning,   \* m_isRunning
    udpSocket,     \* m_udpSocket is open
    published,     \* m_state
    listener,      \* where the listener thread is, and the state it read
    answer,        \* the state in a DISCOVERY_RESPONSE datagram under way
    isSearching,   \* _isSearching of the phone
    searchSocket,  \* _socket of the phone is set, to an open socket
    lostSockets,   \* sockets of the phone that are open and not in _socket
    overtaken,     \* history: a search began before another's socket had come and gone
    binding,       \* binds the phone awaits
    stopTimers     \* searches whose timers are pending

responderVars == <<responder, mdnsRunning, udpSocket, published>>
finderVars    == <<isSearching, searchSocket, lostSockets, overtaken, binding, stopTimers>>

-----------------------------------------------------------------------------
(* MdnsResponder.                                                          *)

NoListener == [at |-> "NONE", state |-> NoState]

\* A listener that outlives its object reads freed memory next, and the model does
\* not follow it.
ListenerAt(p) == listener.at = p /\ responder = "SET"

ListenerGoes(p) == listener' = [at |-> p, state |-> NoState]

\* Start: there may be no socket or the port may be taken; or CreateThread fails
\* and the socket stays bound.
StartResponder(bound, created) ==
    /\ responder' = "SET"
    /\ published' = "ONLINE"
    /\ mdnsRunning' = bound
    /\ udpSocket' = bound
    /\ IF bound /\ created THEN ListenerGoes("TEST") ELSE UNCHANGED listener

TestListening ==
    /\ ListenerAt("TEST")
    /\ ListenerGoes(IF mdnsRunning THEN "RECV" ELSE "NONE")
    /\ UNCHANGED <<responderVars, answer, finderVars>>

\* A valid query arrives, from this phone or from another host; m_state is read.
ReceiveQuery ==
    /\ ListenerAt("RECV")
    /\ udpSocket
    /\ listener' = [at |-> "SEND", state |-> published]
    /\ UNCHANGED <<responderVars, answer, finderVars>>

\* Two seconds are over, or the socket is closed.
ReceiveNothing ==
    /\ ListenerAt("RECV")
    /\ ListenerGoes("TEST")
    /\ UNCHANGED <<responderVars, answer, finderVars>>

\* sendto fails when Stop has closed the socket.
SendAnswer ==
    /\ ListenerAt("SEND")
    /\ answer' = IF udpSocket THEN listener.state ELSE answer
    /\ ListenerGoes("TEST")
    /\ UNCHANGED <<responderVars, finderVars>>

ListenerStep == TestListening \/ ReceiveQuery \/ ReceiveNothing \/ SendAnswer

\* Stop up to the wait for the listener, and the deletion after it.
CloseResponder ==
    /\ mdnsRunning' = FALSE
    /\ udpSocket' = FALSE
    /\ UNCHANGED <<responder, published, listener>>

DeleteResponder ==
    /\ responder' = "NULL"
    /\ UNCHANGED <<mdnsRunning, udpSocket, published, listener>>

-----------------------------------------------------------------------------
(* MdnsDiscovery.                                                          *)

\* _socket is closed; a socket that is no longer in it stays open.
StopDiscovery ==
    /\ isSearching' = FALSE
    /\ searchSocket' = FALSE
    /\ UNCHANGED <<lostSockets, overtaken>>

StartDiscovery ==
    /\ ~isSearching
    /\ binding + stopTimers < MaxSearches
    /\ isSearching' = TRUE
    /\ binding' = binding + 1
    /\ overtaken' = (binding > 0 \/ searchSocket \/ (overtaken /\ lostSockets > 0))
    /\ UNCHANGED <<searchSocket, lostSockets, stopTimers, responderVars, listener, answer>>

\* _socket is assigned without a look at what it held.
SetSocket ==
    /\ searchSocket => lostSockets < MaxLost
    /\ searchSocket' = TRUE
    /\ lostSockets' = IF searchSocket THEN lostSockets + 1 ELSE lostSockets

\* Mutant: a search that was stopped during the await sets no timers.
BindReturnsUntimed ==
    /\ binding > 0
    /\ binding' = binding - 1
    /\ SetSocket
    /\ stopTimers' = IF isSearching THEN stopTimers + 1 ELSE stopTimers
    /\ UNCHANGED <<isSearching, overtaken, responderVars, listener, answer>>

\* Mutant: the timers of a search are set twice.
BindReturnsTwice ==
    /\ binding > 0
    /\ binding' = binding - 1
    /\ SetSocket
    /\ stopTimers' = stopTimers + 2
    /\ UNCHANGED <<isSearching, overtaken, responderVars, listener, answer>>

\* The search goes on even when it was stopped during the await; the socket of
\* another search that did the same is replaced and never closed.
BindReturns ==
    /\ binding > 0
    /\ binding' = binding - 1
    /\ SetSocket
    /\ stopTimers' = stopTimers + 1
    /\ UNCHANGED <<isSearching, overtaken, responderVars, listener, answer>>

BindFails ==
    /\ binding > 0
    /\ binding' = binding - 1
    /\ StopDiscovery
    /\ UNCHANGED <<stopTimers, responderVars, listener, answer>>

\* The timer is that of some search: a later one is ended with it.
SearchTimeout ==
    /\ stopTimers > 0
    /\ stopTimers' = stopTimers - 1
    /\ StopDiscovery
    /\ UNCHANGED <<binding, responderVars, listener, answer>>

\* stopDiscovery by the app, also in dispose.
UserStopsSearch ==
    /\ isSearching \/ searchSocket
    /\ StopDiscovery
    /\ UNCHANGED <<binding, stopTimers, responderVars, listener, answer>>

\* _handleDatagram; a datagram that arrives again changes nothing.
ShowAnswer ==
    /\ searchSocket
    /\ answer # NoState
    /\ answer' = NoState
    /\ UNCHANGED <<isSearching, searchSocket, lostSockets, overtaken, binding, stopTimers,
                   responderVars, listener>>

FinderStep ==
    \/ StartDiscovery \/ BindReturns \/ BindFails
    \/ SearchTimeout \/ UserStopsSearch \/ ShowAnswer

-----------------------------------------------------------------------------
\* A search ends, and the socket in _socket is closed.  Every socket is given back, also
\* that of a search the app stopped during its await, as long as no search begins
\* before an earlier one's socket has come and gone; then one may stay open for good.
SearchEnds ==
    isSearching \/ searchSocket \/ lostSockets > 0
        ~> ~isSearching /\ ~searchSocket /\ (lostSockets = 0 \/ overtaken)
=============================================================================
