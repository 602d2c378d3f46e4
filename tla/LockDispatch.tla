---------------------------- MODULE LockDispatch ----------------------------
(***************************************************************************)
(* The remote lock: HandleNetworkFrame and HandleIpcMessage of             *)
(* windows/service/MobileUnlockService.cpp, the named pipe of              *)
(* windows/ipc/SecureIPC.cpp and the loop of                               *)
(* windows/user_session_agent/UserSessionAgent.cpp.                        *)
(*                                                                         *)
(* Every network client has a worker thread of its own that runs           *)
(* HandleNetworkFrame.  A LOCK_REQUEST is noted in one slot, two separate  *)
(* atomics (m_pendingLockClientId, m_pendingLockMessageId), and sent down  *)
(* the pipe.  The agent calls LockWorkStation and answers; the thread of   *)
(* the pipe server empties the slot and forwards the answer to the client  *)
(* found there.  Every access to an atomic is a step.                      *)
(*                                                                         *)
(* The server keeps one instance of the pipe at a time, and whoever opens  *)
(* it first is its client: the agent, or the logon tile, which connects    *)
(* to the same name, sends a probe that is no frame, waits for an answer   *)
(* and closes (FetchAuthState of                                           *)
(* windows/credential_provider/MobileUnlockCredential.cpp).  The service   *)
(* does not tell them apart: IsConnected is true for either.               *)
(*                                                                         *)
(* The agent may crash and be started again, and the service may restart;  *)
(* the pipe does not outlive either, but the agent never notices that its  *)
(* handle is dead.  Left out: PING, and STATUS_RESPONSE, which the service *)
(* ignores; the loss of a reply in NetworkEngine::SendFrame.               *)
(***************************************************************************)
EXTENDS Integers, Sequences, FiniteSets

CONSTANTS
    Client,       \* NetworkEngine client identifiers (from 1)
    NoClient,     \* 0
    MessageId,    \* the message ids a phone uses
    NoMessage,    \* the initial 0 of m_pendingLockMessageId
    MaxRequests,  \* bound: lock requests of all phones
    MaxCrashes,   \* bound: crashes of the agent
    MaxRestarts   \* bound: restarts of the service

ASSUME LockAssumption ==
    /\ NoClient \notin Client
    /\ NoMessage \notin MessageId
    /\ MaxRequests \in Nat
    /\ MaxCrashes \in Nat
    /\ MaxRestarts \in Nat

VARIABLES
    worker,       \* per client: where its thread is in HandleNetworkFrame
    slotClient,   \* m_pendingLockClientId
    slotMessage,  \* m_pendingLockMessageId
    server,       \* the pipe server: waiting for a client or connected to one
    peer,         \* who holds the client end of the pipe's instance
    toClient,     \* pipe, service to client: ids of LOCK_REQUEST frames
    toService,    \* pipe, client to service: LOCK_RESPONSE frames and probes
    ipc,          \* the pipe server's thread in HandleIpcMessage
    agent,        \* the agent process
    handle,       \* the agent's m_hPipe: if set, it is dead unless peer is the agent
    tile,         \* the status thread of the logon tile in FetchAuthState
    pcState,      \* m_currentState
    crashes,      \* crashes of the agent so far
    restarts,     \* restarts of the service so far
    asked,        \* history: the lock requests received
    passed,       \* history: the lock requests that passed both tests
    got,          \* history: how many LOCK_RESPONSE frames each client was sent
    calls,        \* history: LockWorkStation calls per message id
    lockCalls,    \* history: LockWorkStation calls that succeeded
    successes     \* history: SUCCESS replies sent

pipeVars    == <<server, peer, toClient, toService>>
agentVars   == <<agent, handle>>
slotVars    == <<slotClient, slotMessage>>
askVars     == <<asked, passed>>
replyVars   == <<got, successes>>
lockVars    == <<calls, lockCalls>>
faults      == <<crashes, restarts>>

serviceVars == <<worker, slotVars, ipc, pcState, askVars, replyVars>>

vars == <<serviceVars, pipeVars, agentVars, tile, lockVars, faults>>

-----------------------------------------------------------------------------
Request == [client : Client, id : MessageId]

Status == {"SUCCESS", "FAILURE"}

LockResponse == [id : MessageId, status : Status]

\* The tile's JSON text: DeserializeFrameHeader does not find the magic in it.
Probe == [id |-> NoMessage, status |-> "PROBE"]

IsLockResponse(f) == f # Probe

IdleWorker == [at |-> "IDLE", id |-> NoMessage]

\* Where a thread is: before the test of IsConnected, before each of the two
\* stores, before SendMessageToClient.
Worker == {IdleWorker} \cup
          [at : {"CONNECTED", "CLIENT", "MESSAGE", "SEND"}, id : MessageId]

IdleIpc == [at |-> "IDLE", client |-> NoClient, id |-> NoMessage, status |-> "FAILURE"]

Ipc == {IdleIpc} \cup
       [at     : {"LOAD", "REPLY"},
        client : Client \cup {NoClient},
        id     : MessageId \cup {NoMessage},
        status : Status]

IdleAgent == [at |-> "LOOP", id |-> NoMessage, status |-> "FAILURE"]

NoAgent == [at |-> "DOWN", id |-> NoMessage, status |-> "FAILURE"]

Agent == {IdleAgent, NoAgent} \cup [at : {"RESPOND"}, id : MessageId, status : Status]

\* Mutant: reports SUCCESS whatever the agent said.
SendReplySuccess(c, i, status) ==
    /\ got' = [got EXCEPT ![c] = @ + 1]
    /\ successes' = successes + 1

\* m_networkEngine->SendFrame of a LOCK_RESPONSE.
SendReply(c, i, status) ==
    /\ got' = [got EXCEPT ![c] = @ + 1]
    /\ successes' = IF status = "SUCCESS" THEN successes + 1 ELSE successes

-----------------------------------------------------------------------------
(* HandleNetworkFrame, LOCK_REQUEST, on the thread of client c.            *)

AskFor(c, i) ==
    /\ worker[c].at = "IDLE"
    /\ Cardinality(asked) < MaxRequests
    /\ [client |-> c, id |-> i] \notin asked
    /\ asked' = asked \cup {[client |-> c, id |-> i]}

\* A device id was found in the payload and the device is not ACTIVE.
RefuseUnauthorized(c, i) ==
    /\ AskFor(c, i)
    /\ SendReply(c, i, "FAILURE")
    /\ UNCHANGED <<worker, slotVars, ipc, pcState, passed, pipeVars, agentVars, tile, lockVars,
                   faults>>

\* The device is ACTIVE, or the payload names none.
AdmitRequest(c, i) ==
    /\ AskFor(c, i)
    /\ worker' = [worker EXCEPT ![c] = [at |-> "CONNECTED", id |-> i]]
    /\ UNCHANGED <<slotVars, ipc, pcState, passed, replyVars, pipeVars, agentVars, tile, lockVars,
                   faults>>

\* Mutant: the return after AGENT_UNAVAILABLE is missing.
RefuseNoAgentGoesOn(c) ==
    /\ worker[c].at = "CONNECTED"
    /\ server # "SERVING"
    /\ SendReply(c, worker[c].id, "FAILURE")
    /\ worker' = [worker EXCEPT ![c].at = "CLIENT"]
    /\ UNCHANGED <<slotVars, ipc, pcState, askVars, pipeVars, agentVars, tile, lockVars, faults>>

RefuseNoAgent(c) ==
    /\ worker[c].at = "CONNECTED"
    /\ server # "SERVING"
    /\ SendReply(c, worker[c].id, "FAILURE")
    /\ worker' = [worker EXCEPT ![c] = IdleWorker]
    /\ UNCHANGED <<slotVars, ipc, pcState, askVars, pipeVars, agentVars, tile, lockVars, faults>>

\* IsConnected: some client has the pipe, which need not be the agent.
FindAgent(c) ==
    /\ worker[c].at = "CONNECTED"
    /\ server = "SERVING"
    /\ worker' = [worker EXCEPT ![c].at = "CLIENT"]
    /\ passed' = passed \cup {[client |-> c, id |-> worker[c].id]}
    /\ UNCHANGED <<slotVars, ipc, pcState, asked, replyVars, pipeVars, agentVars, tile, lockVars,
                   faults>>

StoreClient(c) ==
    /\ worker[c].at = "CLIENT"
    /\ slotClient' = c
    /\ worker' = [worker EXCEPT ![c].at = "MESSAGE"]
    /\ UNCHANGED <<slotMessage, ipc, pcState, askVars, replyVars, pipeVars, agentVars, tile,
                   lockVars, faults>>

StoreMessage(c) ==
    /\ worker[c].at = "MESSAGE"
    /\ slotMessage' = worker[c].id
    /\ worker' = [worker EXCEPT ![c].at = "SEND"]
    /\ UNCHANGED <<slotClient, ipc, pcState, askVars, replyVars, pipeVars, agentVars, tile,
                   lockVars, faults>>

\* SendMessageToClient, to whoever has the pipe; a false result is not looked at.
Dispatch(c) ==
    /\ worker[c].at = "SEND"
    /\ toClient' = IF server = "SERVING" /\ peer # "GONE"
                   THEN Append(toClient, worker[c].id) ELSE toClient
    /\ worker' = [worker EXCEPT ![c] = IdleWorker]
    /\ UNCHANGED <<slotVars, ipc, pcState, askVars, replyVars, server, peer, toService, agentVars,
                   tile, lockVars, faults>>

-----------------------------------------------------------------------------
(* NamedPipeServer::ServerWorkerThread, with HandleIpcMessage.             *)

\* ConnectNamedPipe returns: a client has opened this instance of the pipe, and
\* may have closed it again since.
Accept ==
    /\ server = "LISTENING"
    /\ peer # "NONE"
    /\ server' = "SERVING"
    /\ UNCHANGED <<serviceVars, peer, toClient, toService, agentVars, tile, lockVars, faults>>

\* ConnectNamedPipe fails because the client is gone already, or PeekNamedPipe does
\* because it is gone and all it wrote has been read.  A new instance is made.
DropPipe ==
    /\ ipc = IdleIpc
    /\ peer = "GONE"
    /\ server = "SERVING" => toService = <<>>
    /\ server' = "LISTENING"
    /\ peer' = "NONE"
    /\ toClient' = <<>>
    /\ toService' = <<>>
    /\ UNCHANGED <<serviceVars, agentVars, tile, lockVars, faults>>

\* The probe's header is malformed: it is logged and forgotten, and not answered.
IgnoreProbe ==
    /\ server = "SERVING"
    /\ ipc = IdleIpc
    /\ toService # <<>>
    /\ ~IsLockResponse(Head(toService))
    /\ toService' = Tail(toService)
    /\ UNCHANGED <<serviceVars, server, peer, toClient, agentVars, tile, lockVars, faults>>

\* Mutant: reads the client and leaves it in the slot.
LoadClient == UNCHANGED slotClient

\* The exchange that empties the slot.
ExchangeClient == slotClient' = NoClient

\* A LOCK_RESPONSE is read and the slot's client is exchanged for 0.
TakeClient ==
    /\ server = "SERVING"
    /\ ipc = IdleIpc
    /\ toService # <<>>
    /\ IsLockResponse(Head(toService))
    /\ toService' = Tail(toService)
    /\ ipc' = [at |-> "LOAD", client |-> slotClient, id |-> NoMessage,
               status |-> Head(toService).status]
    /\ ExchangeClient
    /\ UNCHANGED <<worker, slotMessage, pcState, askVars, replyVars, server, peer, toClient,
                   agentVars, tile, lockVars, faults>>

LoadMessage ==
    /\ ipc.at = "LOAD"
    /\ ipc' = [ipc EXCEPT !.at = "REPLY", !.id = slotMessage]
    /\ UNCHANGED <<worker, slotVars, pcState, askVars, replyVars, pipeVars, agentVars, tile,
                   lockVars, faults>>

\* The answer goes to the slot's client, if there was one; in either case, and
\* whatever the status, the state is LOCKED and LOCK_EXECUTED is logged.
Forward ==
    /\ ipc.at = "REPLY"
    /\ IF ipc.client # NoClient
       THEN SendReply(ipc.client, ipc.id, ipc.status)
       ELSE UNCHANGED replyVars
    /\ pcState' = "LOCKED"
    /\ ipc' = IdleIpc
    /\ UNCHANGED <<worker, slotVars, askVars, pipeVars, agentVars, tile, lockVars, faults>>

-----------------------------------------------------------------------------
(* The client end of the pipe: NamedPipeClient.                            *)

\* CreateFile succeeds: an instance is there that nobody has opened yet.
OpenPipe(who) ==
    /\ server = "LISTENING"
    /\ peer = "NONE"
    /\ peer' = who
    /\ UNCHANGED <<server, toClient, toService>>

\* CloseHandle; what the client has not read is lost, what it wrote is not.
ClosePipe ==
    /\ peer' = "GONE"
    /\ toClient' = <<>>
    /\ UNCHANGED <<server, toService>>

(* UserSessionAgent::Run.                                                  *)

\* Connect returns at once when m_hPipe is set, dead or not.
AgentConnect ==
    /\ agent.at = "LOOP"
    /\ handle = "INVALID"
    /\ OpenPipe("AGENT")
    /\ handle' = "SET"
    /\ UNCHANGED <<serviceVars, agent, tile, lockVars, faults>>

LockStatus(ok) == IF ok THEN "SUCCESS" ELSE "FAILURE"

\* ProcessLockCommand; ok is the result of LockWorkStation.
AgentLock(ok) ==
    /\ agent.at = "LOOP"
    /\ peer = "AGENT"
    /\ toClient # <<>>
    /\ toClient' = Tail(toClient)
    /\ agent' = [at |-> "RESPOND", id |-> Head(toClient), status |-> LockStatus(ok)]
    /\ calls' = [calls EXCEPT ![Head(toClient)] = @ + 1]
    /\ lockCalls' = IF ok THEN lockCalls + 1 ELSE lockCalls
    /\ UNCHANGED <<serviceVars, server, peer, toService, handle, tile, faults>>

\* SendMessageToServer; a false result is not looked at.
AgentRespond ==
    /\ agent.at = "RESPOND"
    /\ toService' = IF peer = "AGENT"
                    THEN Append(toService, [id |-> agent.id, status |-> agent.status])
                    ELSE toService
    /\ agent' = IdleAgent
    /\ UNCHANGED <<serviceVars, server, peer, toClient, handle, tile, lockVars, faults>>

AgentCrash ==
    /\ agent.at # "DOWN"
    /\ crashes < MaxCrashes
    /\ crashes' = crashes + 1
    /\ agent' = NoAgent
    /\ handle' = "INVALID"
    /\ IF peer = "AGENT" THEN ClosePipe ELSE UNCHANGED pipeVars
    /\ UNCHANGED <<serviceVars, tile, lockVars, restarts>>

\* The user logs on again, or starts the agent.
AgentStart ==
    /\ agent.at = "DOWN"
    /\ agent' = IdleAgent
    /\ UNCHANGED <<serviceVars, pipeVars, handle, tile, lockVars, faults>>

(* FetchAuthState on the tile's status thread.                             *)

TileConnect ==
    /\ tile = "IDLE"
    /\ OpenPipe("TILE")
    /\ tile' = "PROBE"
    /\ UNCHANGED <<serviceVars, agentVars, lockVars, faults>>

TileProbe ==
    /\ tile = "PROBE"
    /\ toService' = Append(toService, Probe)
    /\ tile' = "READ"
    /\ UNCHANGED <<serviceVars, server, peer, toClient, agentVars, lockVars, faults>>

\* ReadMessageFromServer returns, with a LOCK_REQUEST that is then taken for a
\* malformed answer, or after its timeout; the client object closes the pipe.
TileLeave ==
    /\ tile = "READ"
    /\ ClosePipe
    /\ tile' = "IDLE"
    /\ UNCHANGED <<serviceVars, agentVars, lockVars, faults>>

-----------------------------------------------------------------------------
\* The service process ends, with its threads, atomics and the pipe, and starts
\* again; the agent is left with a dead handle, the tile fails and closes.
ServiceRestart ==
    /\ restarts < MaxRestarts
    /\ restarts' = restarts + 1
    /\ worker' = [c \in Client |-> IdleWorker]
    /\ slotClient' = NoClient
    /\ slotMessage' = NoMessage
    /\ server' = "LISTENING"
    /\ peer' = "NONE"
    /\ toClient' = <<>>
    /\ toService' = <<>>
    /\ ipc' = IdleIpc
    /\ tile' = "IDLE"
    /\ pcState' = "ONLINE"
    /\ UNCHANGED <<agentVars, crashes, askVars, replyVars, lockVars>>

-----------------------------------------------------------------------------
Init ==
    /\ worker = [c \in Client |-> IdleWorker]
    /\ slotClient = NoClient
    /\ slotMessage = NoMessage
    /\ server = "LISTENING"
    /\ peer = "NONE"
    /\ toClient = <<>>
    /\ toService = <<>>
    /\ ipc = IdleIpc
    /\ agent = IdleAgent
    /\ handle = "INVALID"
    /\ tile = "IDLE"
    /\ pcState = "ONLINE"
    /\ crashes = 0
    /\ restarts = 0
    /\ asked = {}
    /\ passed = {}
    /\ got = [c \in Client |-> 0]
    /\ calls = [i \in MessageId |-> 0]
    /\ lockCalls = 0
    /\ successes = 0

Receive(c) == \E i \in MessageId : RefuseUnauthorized(c, i) \/ AdmitRequest(c, i)

WorkerStep(c) ==
    \/ RefuseNoAgent(c)
    \/ FindAgent(c)
    \/ StoreClient(c)
    \/ StoreMessage(c)
    \/ Dispatch(c)

ServerStep ==
    \/ Accept
    \/ DropPipe
    \/ IgnoreProbe
    \/ TakeClient
    \/ LoadMessage
    \/ Forward

AgentStep ==
    \/ AgentConnect
    \/ \E ok \in BOOLEAN : AgentLock(ok)
    \/ AgentRespond

TileStep == TileProbe \/ TileLeave

Next ==
    \/ \E c \in Client : Receive(c) \/ WorkerStep(c)
    \/ ServerStep
    \/ AgentStep
    \/ TileConnect
    \/ TileStep
    \/ AgentCrash
    \/ AgentStart
    \/ ServiceRestart

Spec == Init /\ [][Next]_vars

\* Every thread of the service, the agent's loop and a tile that has connected keep
\* running.  Nobody is obliged to send a request, to show the tile or to start the
\* agent again.
Fairness ==
    /\ \A c \in Client : WF_vars(WorkerStep(c))
    /\ WF_vars(ServerStep)
    /\ WF_vars(AgentStep)
    /\ WF_vars(TileStep)

FairSpec == Spec /\ Fairness

-----------------------------------------------------------------------------
\* The shape of the state.
TypeOK ==
    /\ worker \in [Client -> Worker]
    /\ slotClient \in Client \cup {NoClient}
    /\ slotMessage \in MessageId \cup {NoMessage}
    /\ server \in {"LISTENING", "SERVING"}
    /\ peer \in {"NONE", "AGENT", "TILE", "GONE"}
    /\ toClient \in Seq(MessageId)
    /\ toService \in Seq(LockResponse \cup {Probe})
    /\ ipc \in Ipc
    /\ agent \in Agent
    /\ handle \in {"INVALID", "SET"}
    /\ tile \in {"IDLE", "PROBE", "READ"}
    /\ pcState \in {"ONLINE", "LOCKED"}
    /\ crashes \in 0..MaxCrashes
    /\ restarts \in 0..MaxRestarts
    /\ asked \subseteq Request
    /\ passed \subseteq Request
    /\ got \in [Client -> Nat]
    /\ calls \in [MessageId -> Nat]
    /\ lockCalls \in Nat
    /\ successes \in Nat

\* No client is sent more LOCK_RESPONSE frames than it sent requests, however
\* the threads that fill the slot and the thread that empties it interleave, and
\* whatever late answers an earlier agent or request left in the pipe.
NoUnaskedReply == \A c \in Client : got[c] <= Cardinality({r \in asked : r.client = c})

\* A SUCCESS that a client is told is backed by a LockWorkStation call of its
\* own that succeeded: one call is never reported to two clients.
SuccessIsBacked == successes <= lockCalls

\* LockWorkStation is called at most once for each request that the service has
\* passed on, and never for one it has refused: no crash, restart or change of the
\* pipe's client makes a request act twice or act after its sender was told FAILURE.
LocksWerePassed ==
    \A i \in MessageId : calls[i] <= Cardinality({r \in passed : r.id = i})

\* A request that has reached the agent does not stay in the slot: the client noted
\* there is answered, or the agent has gone.  A request that was written to the
\* tile, or whose agent has gone, may stay there for ever.
DeliveredIsAnswered ==
    toClient # <<>> /\ peer = "AGENT" ~> slotClient = NoClient \/ peer # "AGENT"

=============================================================================
