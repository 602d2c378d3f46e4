--------------------------- MODULE NetworkEngine ---------------------------
(***************************************************************************)
(* The TCP server of windows/network/NetworkEngine.cpp: the accept thread, *)
(* one detached worker thread per client, the maintenance thread and the   *)
(* thread that calls Stop.                                                 *)
(*                                                                         *)
(* m_clientsLock and m_rateLimitLock protect the two maps, and a critical  *)
(* section is one step.  The fields of a ClientSession are protected by    *)
(* nothing: a worker reads and writes Socket outside the lock, and each    *)
(* such access is a step.  A SOCKET is a number the operating system hands *)
(* out again once it is closed; handle says which connection each number   *)
(* stands for.                                                             *)
(*                                                                         *)
(* Time is the true time `clock'; the code sees it through GetTickCount,   *)
(* which wraps, and subtracts DWORDs.  The bytes of a frame, TLS records   *)
(* and the callback are left out: a pass over received bytes ends with a   *)
(* malformed header or without one.  SendFrame, BroadcastFrame and         *)
(* GetActiveClientCount change no state of the engine and are left out.    *)
(* An engine is started once (the service makes a new one for each start), *)
(* and its destruction is not modelled.                                    *)
(***************************************************************************)
EXTENDS Integers, Sequences

CONSTANTS
    Client,        \* client ids, one per connection that is let in
    Ip,            \* remote addresses
    Handle,        \* the SOCKET values of the operating system
    INVALID,       \* INVALID_SOCKET
    Nobody,        \* no connection, no client, no time
    TickWrap,      \* 2^32: GetTickCount is a DWORD
    StaleMs,       \* 30000
    WindowMs,      \* 60000
    BlockMs,       \* 900000
    MaxAttempts,   \* 5
    StartTime,     \* the times at which the engine may be started
    MaxClock       \* bound on the clock

ASSUME NetworkAssumption ==
    /\ INVALID \notin Handle
    /\ Nobody \notin Client \cup Nat
    /\ TickWrap \in Nat \ {0}
    /\ StaleMs \in Nat
    /\ WindowMs \in Nat
    /\ BlockMs \in Nat
    /\ MaxAttempts \in Nat \ {0}
    /\ StartTime \subseteq Nat
    /\ MaxClock \in Nat

VARIABLES
    clock,         \* true time
    m_isRunning,
    listening,     \* m_listenSocket is open
    m_clients,     \* the client ids in the table
    Socket,        \* ClientSession::Socket
    State,         \* ClientSession::State
    LastActive,    \* ClientSession::LastActiveTimestampMs
    m_rateLimits,  \* per address: the entry, or Nobody
    handle,        \* per SOCKET value: the connection it stands for
    acceptor,      \* the accept thread: where it is, its client and socket
    worker,        \* per client: where its thread is
    local,         \* per client: the SOCKET its thread has read for recv or closesocket
    cleaner,       \* the maintenance thread: where it is, its now and staleSockets
    stopper,       \* where Stop is
    dropped,       \* history: clients dropped for a malformed header
    admitted,      \* history: per address, when it was let in
    offence        \* history: per address, when it last exceeded the limit

tableVars   == <<m_clients, Socket, State, LastActive>>
rateVars    == <<m_rateLimits, admitted, offence>>
controlVars == <<m_isRunning, listening, stopper>>

vars == <<clock, controlVars, tableVars, rateVars, handle, acceptor, worker, local,
          cleaner, dropped>>

-----------------------------------------------------------------------------
Tick == 0 .. TickWrap - 1

GetTickCount == clock % TickWrap

\* The difference of two DWORDs.
Elapsed(later, earlier) == (later - earlier) % TickWrap

Entry == [FirstAttemptMs : Tick, AttemptCount : 1 .. MaxAttempts + 1, BlockedUntilMs : Tick]

ASSUME EntryAssumption == Nobody \notin Entry

\* RECONNECTING and ERROR_STATE are never assigned.
ConnectionState == {"DISCONNECTED", "TCP_CONNECTING", "TLS_HANDSHAKE", "ACTIVE_SESSION"}

IdleAcceptor(at) == [at |-> at, client |-> Nobody, ip |-> Nobody, socket |-> INVALID]

Acceptor == {IdleAcceptor("NEW"), IdleAcceptor("ACCEPT"), IdleAcceptor("DONE")} \cup
            [at : {"LIMIT", "INSERT", "SPAWN"}, client : Client, ip : Ip, socket : Handle]

Worker == {"NONE", "NO_THREAD", "LOOKUP", "LOOP", "RECV", "FRAMES", "EXIT",
           "CLOSE", "CLOSED", "ERASE", "DONE"}

IdleCleaner(at) == [at |-> at, now |-> 0, stale |-> {}]

Cleaner == [at : {"NEW", "SLEEP", "LOCK", "CLOSE", "DONE"}, now : Tick,
            stale : SUBSET Handle]

Stopper == {"NEW", "LISTEN", "CLIENTS", "WAIT", "DONE"}

\* A thread's pass through `while (m_isRunning)'.
Again(at) == IF m_isRunning THEN at ELSE "DONE"

\* closesocket: whatever connection the number stands for is closed.
Closed(h) == [handle EXCEPT ![h] = Nobody]

Init ==
    /\ clock \in StartTime
    /\ m_isRunning = FALSE
    /\ listening = FALSE
    /\ m_clients = {}
    /\ Socket = [c \in Client |-> INVALID]
    /\ State = [c \in Client |-> "DISCONNECTED"]
    /\ LastActive = [c \in Client |-> 0]
    /\ m_rateLimits = [i \in Ip |-> Nobody]
    /\ handle = [h \in Handle |-> Nobody]
    /\ acceptor = IdleAcceptor("NEW")
    /\ worker = [c \in Client |-> "NONE"]
    /\ local = [c \in Client |-> INVALID]
    /\ cleaner = IdleCleaner("NEW")
    /\ stopper = "NEW"
    /\ dropped = {}
    /\ admitted = [i \in Ip |-> <<>>]
    /\ offence = [i \in Ip |-> Nobody]

TickClock ==
    /\ clock < MaxClock
    /\ clock' = clock + 1
    /\ UNCHANGED <<controlVars, tableVars, rateVars, handle, acceptor, worker, local,
                   cleaner, dropped>>

(***************************************************************************)
(* Start.  socket, bind or listen may fail, which leaves the engine as it  *)
(* was; CreateThread may fail for either thread, which leaves it running.  *)
(***************************************************************************)
Start ==
    /\ ~m_isRunning
    /\ stopper = "NEW"
    /\ m_isRunning' = TRUE
    /\ listening' = TRUE
    /\ acceptor' \in {IdleAcceptor("ACCEPT"), IdleAcceptor("DONE")}
    /\ cleaner' \in {IdleCleaner("SLEEP"), IdleCleaner("DONE")}
    /\ UNCHANGED <<clock, stopper, tableVars, rateVars, handle, worker, local, dropped>>

(***************************************************************************)
(* The accept thread.                                                      *)
(***************************************************************************)
\* accept returns a connection, also while Stop is between its first two
\* steps.  c is the next value of m_nextClientId; a connection that is then
\* refused does not use it up.
Accept(c, i, h) ==
    /\ acceptor.at = "ACCEPT"
    /\ listening
    /\ worker[c] = "NONE"
    /\ handle[h] = Nobody
    /\ handle' = [handle EXCEPT ![h] = c]
    /\ acceptor' = [at |-> "LIMIT", client |-> c, ip |-> i, socket |-> h]
    /\ UNCHANGED <<clock, controlVars, tableVars, rateVars, worker, local, cleaner, dropped>>

\* accept fails once the listening socket is closed.
AcceptFails ==
    /\ acceptor.at = "ACCEPT"
    /\ ~listening
    /\ acceptor' = IdleAcceptor(Again("ACCEPT"))
    /\ UNCHANGED <<clock, controlVars, tableVars, rateVars, handle, worker, local, cleaner,
                   dropped>>

(***************************************************************************)
(* CheckRateLimit, a fixed window per address, with the accept loop's      *)
(* answer to it: a refused connection is closed.                           *)
(***************************************************************************)
Blocked(e) == e.BlockedUntilMs > GetTickCount

\* Mutant: a window ends with its last millisecond.
WindowOverEarly(e) == Elapsed(GetTickCount, e.FirstAttemptMs) >= WindowMs

WindowOver(e) == Elapsed(GetTickCount, e.FirstAttemptMs) > WindowMs

Exceeded(e) == e.AttemptCount + 1 > MaxAttempts

NewWindow == [FirstAttemptMs |-> GetTickCount, AttemptCount |-> 1, BlockedUntilMs |-> 0]

Counted(e) == [e EXCEPT !.AttemptCount = @ + 1]

\* Mutant: the attempt is refused, but no block begins.
BlockedEntryUnblocked(e) == [e EXCEPT !.AttemptCount = MaxAttempts + 1]

\* The count goes on growing in the code; one above the limit says as much.
BlockedEntry(e) == [e EXCEPT !.AttemptCount = MaxAttempts + 1,
                             !.BlockedUntilMs = (GetTickCount + BlockMs) % TickWrap]

LetIn(e) ==
    /\ m_rateLimits' = [m_rateLimits EXCEPT ![acceptor.ip] = e]
    /\ admitted' = [admitted EXCEPT ![acceptor.ip] = Append(@, clock)]
    /\ acceptor' = [acceptor EXCEPT !.at = "INSERT"]
    /\ UNCHANGED <<offence, handle>>

Refuse(e, when) ==
    /\ m_rateLimits' = [m_rateLimits EXCEPT ![acceptor.ip] = e]
    /\ offence' = [offence EXCEPT ![acceptor.ip] = when]
    /\ acceptor' = IdleAcceptor(Again("ACCEPT"))
    /\ handle' = Closed(acceptor.socket)
    /\ UNCHANGED admitted

CheckRateLimit ==
    /\ acceptor.at = "LIMIT"
    /\ LET e == m_rateLimits[acceptor.ip]
       IN  \/ /\ e = Nobody
              /\ LetIn(NewWindow)
           \/ /\ e # Nobody
              /\ Blocked(e)
              /\ Refuse(e, offence[acceptor.ip])
           \/ /\ e # Nobody
              /\ ~Blocked(e)
              /\ WindowOver(e)
              /\ LetIn(NewWindow)
           \/ /\ e # Nobody
              /\ ~Blocked(e)
              /\ ~WindowOver(e)
              /\ IF Exceeded(e) THEN Refuse(BlockedEntry(e), clock) ELSE LetIn(Counted(e))
    /\ UNCHANGED <<clock, controlVars, tableVars, worker, local, cleaner, dropped>>

\* The session is made and put into the table.
AcceptInsert ==
    /\ acceptor.at = "INSERT"
    /\ LET c == acceptor.client
       IN  /\ m_clients' = m_clients \cup {c}
           /\ Socket' = [Socket EXCEPT ![c] = acceptor.socket]
           /\ State' = [State EXCEPT ![c] = "TCP_CONNECTING"]
           /\ LastActive' = [LastActive EXCEPT ![c] = GetTickCount]
    /\ acceptor' = [acceptor EXCEPT !.at = "SPAWN"]
    /\ UNCHANGED <<clock, controlVars, rateVars, handle, worker, local, cleaner, dropped>>

\* CreateThread.  If it fails the socket is closed, but the session keeps its
\* number and stays in the table.
AcceptSpawn(created) ==
    /\ acceptor.at = "SPAWN"
    /\ worker' = [worker EXCEPT ![acceptor.client] = IF created THEN "LOOKUP" ELSE "NO_THREAD"]
    /\ handle' = IF created THEN handle ELSE Closed(acceptor.socket)
    /\ acceptor' = IdleAcceptor(Again("ACCEPT"))
    /\ UNCHANGED <<clock, controlVars, tableVars, rateVars, local, cleaner, dropped>>

-----------------------------------------------------------------------------
(***************************************************************************)
(* ClientWorkerLoop.                                                       *)
(***************************************************************************)
Go(c, at) == worker' = [worker EXCEPT ![c] = at]

\* A thread that no longer finds its session just ends.
WorkerLookup(c) ==
    /\ worker[c] = "LOOKUP"
    /\ IF c \in m_clients
          THEN Go(c, "LOOP") /\ State' = [State EXCEPT ![c] = "TCP_CONNECTING"]
          ELSE Go(c, "DONE") /\ UNCHANGED State
    /\ UNCHANGED <<clock, controlVars, m_clients, Socket, LastActive, rateVars, handle,
                   acceptor, local, cleaner, dropped>>

\* Mutant: only the socket is tested.
WorkerLoopBySocket(c) ==
    /\ worker[c] = "LOOP"
    /\ IF Socket[c] # INVALID
          THEN Go(c, "RECV") /\ local' = [local EXCEPT ![c] = Socket[c]]
          ELSE Go(c, "EXIT") /\ UNCHANGED local
    /\ UNCHANGED <<clock, controlVars, tableVars, rateVars, handle, acceptor, cleaner, dropped>>

WorkerLoop(c) ==
    /\ worker[c] = "LOOP"
    /\ IF m_isRunning /\ Socket[c] # INVALID
          THEN Go(c, "RECV") /\ local' = [local EXCEPT ![c] = Socket[c]]
          ELSE Go(c, "EXIT") /\ UNCHANGED local
    /\ UNCHANGED <<clock, controlVars, tableVars, rateVars, handle, acceptor, cleaner, dropped>>

\* recv gives up after SO_RCVTIMEO (5 s).
RecvTimeout(c) ==
    /\ worker[c] = "RECV"
    /\ Go(c, IF Elapsed(GetTickCount, LastActive[c]) > StaleMs THEN "EXIT" ELSE "LOOP")
    /\ local' = [local EXCEPT ![c] = INVALID]
    /\ UNCHANGED <<clock, controlVars, tableVars, rateVars, handle, acceptor, cleaner, dropped>>

\* The peer closed, the connection broke, or the socket was closed here.
RecvError(c) ==
    /\ worker[c] = "RECV"
    /\ Go(c, "EXIT")
    /\ local' = [local EXCEPT ![c] = INVALID]
    /\ UNCHANGED <<clock, controlVars, tableVars, rateVars, handle, acceptor, cleaner, dropped>>

\* Bytes arrive; the first byte of a new connection says what it speaks, and
\* bytes that say neither are ignored.  AcceptHandshake, which succeeds, needs
\* more bytes or fails, touches no shared state and is part of the step.
RecvData(c, first, handshake) ==
    /\ worker[c] = "RECV"
    /\ handle[local[c]] # Nobody
    /\ LastActive' = [LastActive EXCEPT ![c] = GetTickCount]
    /\ LET state == IF State[c] = "TCP_CONNECTING" THEN first ELSE State[c]
       IN  \/ /\ state = "TCP_CONNECTING"
              /\ Go(c, "LOOP")
              /\ UNCHANGED State
           \/ /\ state = "TLS_HANDSHAKE"
              /\ Go(c, IF handshake = "FAILED" THEN "EXIT" ELSE "LOOP")
              /\ State' = [State EXCEPT ![c] = IF handshake = "SUCCESS"
                                                 THEN "ACTIVE_SESSION" ELSE state]
           \/ /\ state = "ACTIVE_SESSION"
              /\ Go(c, "FRAMES")
              /\ State' = [State EXCEPT ![c] = state]
    /\ local' = [local EXCEPT ![c] = INVALID]
    /\ UNCHANGED <<clock, controlVars, m_clients, Socket, rateVars, handle, acceptor, cleaner,
                   dropped>>

\* Every whole frame in the buffer has been handed to the callback.
FramesDone(c) ==
    /\ worker[c] = "FRAMES"
    /\ Go(c, IF Socket[c] = INVALID THEN "EXIT" ELSE "LOOP")
    /\ UNCHANGED <<clock, controlVars, tableVars, rateVars, handle, acceptor, local, cleaner,
                   dropped>>

\* A malformed or oversized header: the number is forgotten, not closed.
FrameMalformed(c) ==
    /\ worker[c] = "FRAMES"
    /\ Socket' = [Socket EXCEPT ![c] = INVALID]
    /\ dropped' = dropped \cup {c}
    /\ Go(c, "EXIT")
    /\ UNCHANGED <<clock, controlVars, m_clients, State, LastActive, rateVars, handle, acceptor,
                   local, cleaner>>

\* Mutant: a thread whose socket was taken away leaves its entry to others.
WorkerExitUnerased(c) ==
    /\ worker[c] = "EXIT"
    /\ State' = [State EXCEPT ![c] = "DISCONNECTED"]
    /\ local' = [local EXCEPT ![c] = Socket[c]]
    /\ Go(c, IF Socket[c] = INVALID THEN "DONE" ELSE "CLOSE")
    /\ UNCHANGED <<clock, controlVars, m_clients, Socket, LastActive, rateVars, handle,
                   acceptor, cleaner, dropped>>

\* The test of line 342 and the read of line 343.
WorkerExit(c) ==
    /\ worker[c] = "EXIT"
    /\ State' = [State EXCEPT ![c] = "DISCONNECTED"]
    /\ local' = [local EXCEPT ![c] = Socket[c]]
    /\ Go(c, IF Socket[c] = INVALID THEN "ERASE" ELSE "CLOSE")
    /\ UNCHANGED <<clock, controlVars, m_clients, Socket, LastActive, rateVars, handle,
                   acceptor, cleaner, dropped>>

WorkerClose(c) ==
    /\ worker[c] = "CLOSE"
    /\ handle' = Closed(local[c])
    /\ Go(c, "CLOSED")
    /\ local' = [local EXCEPT ![c] = INVALID]
    /\ UNCHANGED <<clock, controlVars, tableVars, rateVars, acceptor, cleaner, dropped>>

WorkerForget(c) ==
    /\ worker[c] = "CLOSED"
    /\ Socket' = [Socket EXCEPT ![c] = INVALID]
    /\ Go(c, "ERASE")
    /\ UNCHANGED <<clock, controlVars, m_clients, State, LastActive, rateVars, handle, acceptor,
                   local, cleaner, dropped>>

\* With the thread goes the last reference to the session.
WorkerErase(c) ==
    /\ worker[c] = "ERASE"
    /\ m_clients' = m_clients \ {c}
    /\ LastActive' = [LastActive EXCEPT ![c] = 0]
    /\ Go(c, "DONE")
    /\ UNCHANGED <<clock, controlVars, Socket, State, rateVars, handle, acceptor, local,
                   cleaner, dropped>>

-----------------------------------------------------------------------------
(***************************************************************************)
(* The maintenance thread.  Its test of m_isRunning comes before the       *)
(* Sleep, and CleanupStaleSessions reads the time before it takes the lock.*)
(***************************************************************************)
CleanerWakes ==
    /\ cleaner.at = "SLEEP"
    /\ cleaner' = [at |-> "LOCK", now |-> GetTickCount, stale |-> {}]
    /\ UNCHANGED <<clock, controlVars, tableVars, rateVars, handle, acceptor, worker, local,
                   dropped>>

StaleClients == {c \in m_clients : Elapsed(cleaner.now, LastActive[c]) > StaleMs}

\* Mutant: the sockets of the erased sessions are left to their threads.
CleanerSweepsOpen ==
    /\ cleaner.at = "LOCK"
    /\ cleaner' = [at |-> "CLOSE", now |-> 0, stale |-> {}]
    /\ Socket' = [c \in Client |-> IF c \in StaleClients THEN INVALID ELSE Socket[c]]
    /\ m_clients' = m_clients \ StaleClients
    /\ UNCHANGED <<clock, controlVars, State, LastActive, rateVars, handle, acceptor, worker,
                   local, dropped>>

CleanerSweeps ==
    /\ cleaner.at = "LOCK"
    /\ cleaner' = [at |-> "CLOSE", now |-> 0,
                   stale |-> {Socket[c] : c \in StaleClients} \ {INVALID}]
    /\ Socket' = [c \in Client |-> IF c \in StaleClients THEN INVALID ELSE Socket[c]]
    /\ m_clients' = m_clients \ StaleClients
    /\ UNCHANGED <<clock, controlVars, State, LastActive, rateVars, handle, acceptor, worker,
                   local, dropped>>

CleanerCloses(h) ==
    /\ cleaner.at = "CLOSE"
    /\ h \in cleaner.stale
    /\ handle' = Closed(h)
    /\ cleaner' = [cleaner EXCEPT !.stale = @ \ {h}]
    /\ UNCHANGED <<clock, controlVars, tableVars, rateVars, acceptor, worker, local, dropped>>

CleanerLoops ==
    /\ cleaner.at = "CLOSE"
    /\ cleaner.stale = {}
    /\ cleaner' = IdleCleaner(Again("SLEEP"))
    /\ UNCHANGED <<clock, controlVars, tableVars, rateVars, handle, acceptor, worker, local,
                   dropped>>

-----------------------------------------------------------------------------
(***************************************************************************)
(* Stop.  Its two waits end after one second whether or not the threads    *)
(* have ended, so they hold nothing up.                                    *)
(***************************************************************************)
StopBegins ==
    /\ m_isRunning
    /\ stopper = "NEW"
    /\ m_isRunning' = FALSE
    /\ stopper' = "LISTEN"
    /\ UNCHANGED <<clock, listening, tableVars, rateVars, handle, acceptor, worker, local,
                   cleaner, dropped>>

StopListening ==
    /\ stopper = "LISTEN"
    /\ listening' = FALSE
    /\ stopper' = "CLIENTS"
    /\ UNCHANGED <<clock, m_isRunning, tableVars, rateVars, handle, acceptor, worker, local,
                   cleaner, dropped>>

Open == {c \in m_clients : Socket[c] # INVALID}

StopClients ==
    /\ stopper = "CLIENTS"
    /\ handle' = [h \in Handle |-> IF \E c \in Open : Socket[c] = h THEN Nobody ELSE handle[h]]
    /\ Socket' = [c \in Client |-> IF c \in Open THEN INVALID ELSE Socket[c]]
    /\ State' = [c \in Client |-> IF c \in Open THEN "DISCONNECTED" ELSE State[c]]
    /\ m_clients' = {}
    /\ stopper' = "WAIT"
    /\ UNCHANGED <<clock, m_isRunning, listening, LastActive, rateVars, acceptor, worker, local,
                   cleaner, dropped>>

StopReturns ==
    /\ stopper = "WAIT"
    /\ stopper' = "DONE"
    /\ UNCHANGED <<clock, m_isRunning, listening, tableVars, rateVars, handle, acceptor, worker,
                   local, cleaner, dropped>>

-----------------------------------------------------------------------------
Acceptance ==
    \/ \E c \in Client, i \in Ip, h \in Handle : Accept(c, i, h)
    \/ AcceptFails
    \/ CheckRateLimit
    \/ AcceptInsert
    \/ \E created \in BOOLEAN : AcceptSpawn(created)

\* recv always returns, if only by its timeout.
Recv(c) ==
    \/ RecvTimeout(c)
    \/ RecvError(c)
    \/ \E first \in {"TCP_CONNECTING", "TLS_HANDSHAKE", "ACTIVE_SESSION"},
          handshake \in {"SUCCESS", "MORE", "FAILED"} : RecvData(c, first, handshake)

Service(c) ==
    \/ WorkerLookup(c)
    \/ WorkerLoop(c)
    \/ Recv(c)
    \/ FramesDone(c)
    \/ FrameMalformed(c)
    \/ WorkerExit(c)
    \/ WorkerClose(c)
    \/ WorkerForget(c)
    \/ WorkerErase(c)

Maintenance ==
    \/ CleanerWakes
    \/ CleanerSweeps
    \/ \E h \in Handle : CleanerCloses(h)
    \/ CleanerLoops

Stop ==
    \/ StopBegins
    \/ StopListening
    \/ StopClients
    \/ StopReturns

Next ==
    \/ TickClock
    \/ Start
    \/ Acceptance
    \/ \E c \in Client : Service(c)
    \/ Maintenance
    \/ Stop

Spec == Init /\ [][Next]_vars

\* Every thread that can run runs; nobody has to start the engine, to call
\* Stop, or to connect.
Fairness ==
    /\ WF_vars(AcceptFails \/ CheckRateLimit \/ AcceptInsert \/
               \E created \in BOOLEAN : AcceptSpawn(created))
    /\ \A c \in Client : WF_vars(Service(c))
    /\ WF_vars(Maintenance)
    /\ WF_vars(StopListening \/ StopClients \/ StopReturns)

FairSpec == Spec /\ Fairness

-----------------------------------------------------------------------------
(***************************************************************************)
(* Properties.                                                             *)
(***************************************************************************)
\* Every field of NetworkEngine and of its sessions, and every thread, has a
\* value the code can give it.
TypeOK ==
    /\ clock \in Nat
    /\ m_isRunning \in BOOLEAN
    /\ listening \in BOOLEAN
    /\ m_clients \in SUBSET Client
    /\ Socket \in [Client -> Handle \cup {INVALID}]
    /\ State \in [Client -> ConnectionState]
    /\ LastActive \in [Client -> Tick]
    /\ m_rateLimits \in [Ip -> Entry \cup {Nobody}]
    /\ handle \in [Handle -> Client \cup {Nobody}]
    /\ acceptor \in Acceptor
    /\ worker \in [Client -> Worker]
    /\ local \in [Client -> Handle \cup {INVALID}]
    /\ cleaner \in Cleaner
    /\ stopper \in Stopper
    /\ dropped \in SUBSET Client
    /\ admitted \in [Ip -> Seq(Nat)]
    /\ offence \in [Ip -> Nat \cup {Nobody}]

\* The table never outlives its threads: a client in m_clients has a worker
\* that will still erase it, is being set up by the accept thread, or is one
\* for which CreateThread failed, whatever the sweep and Stop do meanwhile.
EntryHasThread ==
    \A c \in m_clients :
        \/ worker[c] \notin {"NONE", "DONE"}
        \/ acceptor.at = "SPAWN" /\ acceptor.client = c

\* Once a worker has ended, its connection is closed or on the sweep's list
\* of sockets to close, unless the client was dropped for a malformed header:
\* the worker, the sweep, the accept thread and Stop leave no socket to each
\* other.
ClosedWhenDone ==
    \A c \in Client \ dropped :
        worker[c] \in {"DONE", "NO_THREAD"} =>
            \A h \in Handle : handle[h] = c => h \in cleaner.stale

\* The fixed window lets an address in at most 2 * MaxAttempts - 1 times in
\* any WindowMs, wherever that stretch of time begins and also when the tick
\* counter wraps.  It is not a limit of MaxAttempts: a stretch that begins in
\* one window and ends in the next can hold nearly two windows' worth.
WindowSlack ==
    \A i \in Ip : \A n \in DOMAIN admitted[i] :
        n >= 2 * MaxAttempts =>
            admitted[i][n] - admitted[i][n - 2 * MaxAttempts + 1] > WindowMs

\* An address that exceeded the limit is not let in for BlockMs, unless the
\* tick counter wraps in that time.
BlockHolds ==
    [][\A i \in Ip :
         admitted'[i] # admitted[i] /\ offence[i] # Nobody =>
             \/ clock >= offence[i] + BlockMs
             \/ (offence[i] % TickWrap) + BlockMs >= TickWrap]_vars

\* After Stop has begun every thread of the engine ends: the accept thread,
\* the maintenance thread and the worker of every client.
Quiesces ==
    stopper # "NEW" ~>
        /\ acceptor.at = "DONE"
        /\ cleaner.at = "DONE"
        /\ \A c \in Client : worker[c] \in {"NONE", "NO_THREAD", "DONE"}
=============================================================================
