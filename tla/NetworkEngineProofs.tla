------------------------ MODULE NetworkEngineProofs ------------------------
(***************************************************************************)
(* For every set of clients, addresses and SOCKET values, every limit and  *)
(* every clock: the state is well typed, the table does not outlive its    *)
(* threads, and no socket is left open by a thread that has ended.         *)
(***************************************************************************)
EXTENDS NetworkEngine, TLAPS

\* GetTickCount and the sums and differences of ticks are DWORDs.
LEMMA TickRange == \A n \in Int : n % TickWrap \in Tick
BY NetworkAssumption DEF Tick

\* The tick counter is a DWORD.
LEMMA TickNow == TypeOK => GetTickCount \in Tick
<1> SUFFICES ASSUME TypeOK PROVE GetTickCount \in Tick
  OBVIOUS
<1>1. clock \in Int
  BY DEF TypeOK
<1> QED
  BY <1>1, TickRange DEF GetTickCount

\* What the accept thread holds while it sets a connection up.
LEMMA AcceptorHolds ==
    ASSUME TypeOK, acceptor.at \in {"LIMIT", "INSERT", "SPAWN"}
    PROVE  /\ acceptor \in [at : {"LIMIT", "INSERT", "SPAWN"}, client : Client, ip : Ip,
                            socket : Handle]
           /\ acceptor.client \in Client /\ acceptor.ip \in Ip /\ acceptor.socket \in Handle
<1>1. acceptor \in [at : {"LIMIT", "INSERT", "SPAWN"}, client : Client, ip : Ip, socket : Handle]
  BY DEF TypeOK, Acceptor, IdleAcceptor
<1> QED
  BY <1>1

\* An attempt that does not exceed the limit is counted in an entry.
LEMMA EntryCounted == ASSUME NEW e \in Entry, ~Exceeded(e) PROVE Counted(e) \in Entry
<1>1. e.AttemptCount \in 1 .. MaxAttempts + 1 /\ ~(e.AttemptCount + 1 > MaxAttempts)
  BY DEF Entry, Exceeded
<1>2. e.AttemptCount + 1 \in 1 .. MaxAttempts + 1
  BY <1>1, NetworkAssumption
<1> QED
  BY <1>2 DEF Counted, Entry

\* An entry whose block begins.
LEMMA EntryBlocked ==
    ASSUME TypeOK, NEW e \in Entry
    PROVE  /\ BlockedEntry(e) \in Entry
           /\ BlockedEntry(e).BlockedUntilMs = (GetTickCount + BlockMs) % TickWrap
<1>1. (GetTickCount + BlockMs) % TickWrap \in Tick
  BY TickNow, TickRange, NetworkAssumption DEF Tick
<1>2. MaxAttempts + 1 \in 1 .. MaxAttempts + 1
  BY NetworkAssumption
<1> QED
  BY <1>1, <1>2 DEF BlockedEntry, Entry

\* The initial state is well typed.
LEMMA TypeInit == Init => TypeOK
<1> SUFFICES ASSUME Init PROVE TypeOK
  OBVIOUS
<1>1. clock \in Nat /\ 0 \in Tick
  BY NetworkAssumption DEF Init, Tick
<1>2. acceptor \in Acceptor /\ cleaner \in Cleaner
  BY <1>1 DEF Init, Acceptor, Cleaner, IdleCleaner
<1>3. admitted \in [Ip -> Seq(Nat)]
  BY DEF Init
<1> QED
  BY <1>1, <1>2, <1>3 DEF Init, TypeOK, ConnectionState, Worker, Stopper

\* CheckRateLimit keeps the state well typed.
LEMMA TypeRate == TypeOK /\ CheckRateLimit => TypeOK'
<1> SUFFICES ASSUME TypeOK, CheckRateLimit PROVE TypeOK'
  OBVIOUS
<1> USE NetworkAssumption DEF controlVars, tableVars
<1> DEFINE i == acceptor.ip
           e == m_rateLimits[i]
<1>1. i \in Ip /\ acceptor.socket \in Handle /\ acceptor.client \in Client
      /\ acceptor \in [at : {"LIMIT", "INSERT", "SPAWN"}, client : Client, ip : Ip, socket : Handle]
  BY AcceptorHolds DEF CheckRateLimit
<1>2. e \in Entry \cup {Nobody} /\ clock \in Nat /\ GetTickCount \in Tick
  BY <1>1, TickNow DEF TypeOK
<1>3. NewWindow \in Entry
  BY <1>2 DEF NewWindow, Entry, Tick
<1>4. ASSUME e \in Entry PROVE BlockedEntry(e) \in Entry
  BY <1>4, EntryBlocked
<1>5. ASSUME e \in Entry, ~Exceeded(e) PROVE Counted(e) \in Entry
  BY <1>5, EntryCounted
<1>6. ASSUME NEW x \in Entry, LetIn(x) PROVE TypeOK'
  <2>1. [acceptor EXCEPT !.at = "INSERT"] \in Acceptor
    BY <1>1 DEF Acceptor
  <2>2. admitted' \in [Ip -> Seq(Nat)]
    BY <1>1, <1>2, <1>6 DEF LetIn, TypeOK
  <2> QED
    BY <1>1, <1>6, <2>1, <2>2 DEF LetIn, TypeOK, CheckRateLimit
<1>7. ASSUME NEW x \in Entry, NEW when \in Nat \cup {Nobody}, Refuse(x, when) PROVE TypeOK'
  <2>1. acceptor' \in Acceptor
    BY <1>7 DEF Refuse, Acceptor, Again, IdleAcceptor
  <2>2. handle' \in [Handle -> Client \cup {Nobody}]
    BY <1>1, <1>7 DEF Refuse, Closed, TypeOK
  <2> QED
    BY <1>1, <1>7, <2>1, <2>2 DEF Refuse, TypeOK, CheckRateLimit
<1>8. offence[i] \in Nat \cup {Nobody}
  BY <1>1 DEF TypeOK
<1> QED
  BY <1>2, <1>3, <1>4, <1>5, <1>6, <1>7, <1>8 DEF CheckRateLimit

\* Every step of the accept thread keeps the state well typed.
LEMMA TypeAccept == TypeOK /\ Acceptance => TypeOK'
<1> SUFFICES ASSUME TypeOK, Acceptance PROVE TypeOK'
  OBVIOUS
<1> USE NetworkAssumption DEF controlVars, tableVars, rateVars
<1>1. ASSUME NEW c \in Client, NEW i \in Ip, NEW h \in Handle, Accept(c, i, h) PROVE TypeOK'
  BY <1>1 DEF Accept, TypeOK, Acceptor
<1>2. IdleAcceptor(Again("ACCEPT")) \in Acceptor
  BY DEF Acceptor, IdleAcceptor, Again
<1>3. CASE AcceptFails
  BY <1>2, <1>3 DEF AcceptFails, TypeOK
<1>4. CASE AcceptInsert
  <2>1. [acceptor EXCEPT !.at = "SPAWN"] \in Acceptor
    BY <1>4, AcceptorHolds DEF AcceptInsert, Acceptor
  <2>2. GetTickCount \in Tick
    BY TickNow
  <2> QED
    BY <1>4, <2>1, <2>2, AcceptorHolds DEF AcceptInsert, TypeOK, ConnectionState
<1>5. ASSUME NEW created \in BOOLEAN, AcceptSpawn(created) PROVE TypeOK'
  <2>1. handle' \in [Handle -> Client \cup {Nobody}]
    BY <1>5, AcceptorHolds DEF AcceptSpawn, Closed, TypeOK
  <2>2. worker' \in [Client -> Worker]
    BY <1>5, AcceptorHolds DEF AcceptSpawn, TypeOK, Worker
  <2> QED
    BY <1>2, <1>5, <2>1, <2>2 DEF AcceptSpawn, TypeOK
<1> QED
  BY <1>1, <1>3, <1>4, <1>5, TypeRate DEF Acceptance

\* Every step of a worker keeps the state well typed.
LEMMA TypeService == ASSUME TypeOK, NEW c \in Client, Service(c) PROVE TypeOK'
<1> USE NetworkAssumption DEF controlVars, tableVars, rateVars, Go
<1>1. GetTickCount \in Tick
  BY TickNow
<1>2. \A at \in Worker : [worker EXCEPT ![c] = at] \in [Client -> Worker]
  BY DEF TypeOK
<1>3. \A x \in ConnectionState : [State EXCEPT ![c] = x] \in [Client -> ConnectionState]
  BY DEF TypeOK
<1>4. \A x \in Handle \cup {INVALID} : /\ [local EXCEPT ![c] = x] \in [Client -> Handle \cup {INVALID}]
                                      /\ [Socket EXCEPT ![c] = x] \in [Client -> Handle \cup {INVALID}]
  BY DEF TypeOK
<1>5. CASE WorkerLookup(c)
  <2>1. worker' \in [Client -> Worker]
    BY <1>2, <1>5 DEF WorkerLookup, Worker
  <2>2. State' \in [Client -> ConnectionState]
    BY <1>5 DEF WorkerLookup, TypeOK, ConnectionState
  <2> QED
    BY <1>5, <2>1, <2>2 DEF WorkerLookup, TypeOK
<1>6. CASE WorkerLoop(c)
  <2>1. worker' \in [Client -> Worker]
    BY <1>2, <1>6 DEF WorkerLoop, Worker
  <2>2. local' \in [Client -> Handle \cup {INVALID}]
    BY <1>6 DEF WorkerLoop, TypeOK
  <2> QED
    BY <1>6, <2>1, <2>2 DEF WorkerLoop, TypeOK
<1>7. CASE RecvTimeout(c) \/ RecvError(c)
  <2>1. worker' \in [Client -> Worker]
    BY <1>2, <1>7 DEF RecvTimeout, RecvError, Worker
  <2>2. local' \in [Client -> Handle \cup {INVALID}]
    BY <1>7 DEF RecvTimeout, RecvError, TypeOK
  <2> QED
    BY <1>7, <2>1, <2>2 DEF RecvTimeout, RecvError, TypeOK
<1>8. ASSUME NEW first \in {"TCP_CONNECTING", "TLS_HANDSHAKE", "ACTIVE_SESSION"},
             NEW handshake \in {"SUCCESS", "MORE", "FAILED"}, RecvData(c, first, handshake)
      PROVE  TypeOK'
  <2>1. worker' \in [Client -> Worker]
    BY <1>2, <1>8 DEF RecvData, Worker
  <2>2. State' \in [Client -> ConnectionState]
    BY <1>3, <1>8 DEF RecvData, ConnectionState, TypeOK
  <2>3. LastActive' \in [Client -> Tick]
    BY <1>1, <1>8 DEF RecvData, TypeOK
  <2> QED
    BY <1>4, <1>8, <2>1, <2>2, <2>3 DEF RecvData, TypeOK
<1>9. CASE FramesDone(c) \/ FrameMalformed(c)
  <2>1. worker' \in [Client -> Worker] /\ Socket' \in [Client -> Handle \cup {INVALID}]
    BY <1>2, <1>4, <1>9, ZenonT(60) DEF FramesDone, FrameMalformed, TypeOK, Worker
  <2> QED
    BY <1>9, <2>1 DEF FramesDone, FrameMalformed, TypeOK
<1>10. CASE WorkerExit(c)
  BY <1>2, <1>3, <1>4, <1>10 DEF WorkerExit, TypeOK, Worker, ConnectionState
<1>11. CASE WorkerClose(c)
  BY <1>2, <1>4, <1>11 DEF WorkerClose, Closed, TypeOK, Worker
<1>12. CASE WorkerForget(c)
  BY <1>2, <1>4, <1>12 DEF WorkerForget, TypeOK, Worker
<1>13. CASE WorkerErase(c)
  BY <1>2, <1>13 DEF WorkerErase, TypeOK, Worker, Tick
<1> QED
  BY <1>5, <1>6, <1>7, <1>8, <1>9, <1>10, <1>11, <1>12, <1>13 DEF Service, Recv

\* Every step of the maintenance thread keeps the state well typed.
LEMMA TypeMaintenance == TypeOK /\ Maintenance => TypeOK'
<1> SUFFICES ASSUME TypeOK, Maintenance PROVE TypeOK'
  OBVIOUS
<1> USE NetworkAssumption DEF controlVars, tableVars, rateVars
<1>1. CASE CleanerWakes
  BY <1>1, TickNow DEF CleanerWakes, TypeOK, Cleaner
<1>2. CASE CleanerSweeps
  <2>1. {Socket[c] : c \in StaleClients} \ {INVALID} \in SUBSET Handle
    BY DEF StaleClients, TypeOK
  <2>2. cleaner' \in Cleaner
    BY <1>2, <2>1 DEF CleanerSweeps, Cleaner, Tick
  <2> QED
    BY <1>2, <2>2 DEF CleanerSweeps, TypeOK
<1>3. ASSUME NEW h \in Handle, CleanerCloses(h) PROVE TypeOK'
  BY <1>3 DEF CleanerCloses, Closed, TypeOK, Cleaner
<1>4. CASE CleanerLoops
  BY <1>4 DEF CleanerLoops, IdleCleaner, Again, TypeOK, Cleaner, Tick
<1> QED
  BY <1>1, <1>2, <1>3, <1>4 DEF Maintenance

\* Start, Stop and the clock keep the state well typed.
LEMMA TypeControl == TypeOK /\ (Start \/ Stop \/ TickClock) => TypeOK'
<1> SUFFICES ASSUME TypeOK, Start \/ Stop \/ TickClock PROVE TypeOK'
  OBVIOUS
<1> USE NetworkAssumption DEF controlVars, tableVars, rateVars
<1>1. CASE Start
  BY <1>1 DEF Start, TypeOK, Acceptor, Cleaner, IdleCleaner, Tick
<1>2. CASE TickClock
  BY <1>2 DEF TickClock, TypeOK
<1>3. CASE StopBegins
  BY <1>3 DEF StopBegins, TypeOK, Stopper
<1>4. CASE StopListening
  BY <1>4 DEF StopListening, TypeOK, Stopper
<1>5. CASE StopClients
  <2>1. handle' \in [Handle -> Client \cup {Nobody}]
    BY <1>5 DEF StopClients, TypeOK
  <2>2. Socket' \in [Client -> Handle \cup {INVALID}] /\ State' \in [Client -> ConnectionState]
    BY <1>5 DEF StopClients, TypeOK, ConnectionState
  <2> QED
    BY <1>5, <2>1, <2>2 DEF StopClients, TypeOK, Stopper
<1>6. CASE StopReturns
  BY <1>6 DEF StopReturns, TypeOK, Stopper
<1> QED
  BY <1>1, <1>2, <1>3, <1>4, <1>5, <1>6 DEF Stop

\* Every step keeps the state well typed.
LEMMA TypeStep == TypeOK /\ [Next]_vars => TypeOK'
<1> SUFFICES ASSUME TypeOK, [Next]_vars PROVE TypeOK'
  OBVIOUS
<1>1. CASE UNCHANGED vars
  BY <1>1 DEF vars, controlVars, tableVars, rateVars, TypeOK
<1> QED
  BY <1>1, TypeAccept, TypeService, TypeMaintenance, TypeControl DEF Next

\* The engine's fields and threads always have a value the code can give them.
THEOREM TypeCorrect == Spec => []TypeOK
BY TypeInit, TypeStep, PTL DEF Spec

-----------------------------------------------------------------------------
(***************************************************************************)
(* The inductive invariant.                                                *)
(***************************************************************************)
\* The client the accept thread is working on has no thread yet, and if its
\* session exists its socket is the accept thread's, unless it was taken away.
AcceptorInv ==
    /\ acceptor.at \in {"LIMIT", "INSERT", "SPAWN"} => worker[acceptor.client] = "NONE"
    /\ acceptor.at = "SPAWN" => Socket[acceptor.client] \in {INVALID, acceptor.socket}

\* Whoever erases a session takes its socket; so a session that is not in the
\* table before its worker found it has none.
ErasedInv ==
    \A c \in Client : worker[c] \in {"NONE", "LOOKUP"} /\ c \notin m_clients => Socket[c] = INVALID

\* A worker about to close a socket holds the number its session holds, or the
\* session holds none any more.
CloseInv == \A c \in Client : worker[c] = "CLOSE" => Socket[c] \in {INVALID, local[c]}

\* The maintenance thread has sockets to close only after its sweep.
CleanerInv == cleaner.at # "CLOSE" => cleaner.stale = {}

\* Every open connection has somebody who will close it.
Owned(c, h) ==
    \/ acceptor.at \in {"LIMIT", "INSERT"} /\ acceptor.client = c /\ acceptor.socket = h
    \/ Socket[c] = h /\ worker[c] \notin {"CLOSED", "ERASE", "DONE", "NO_THREAD"}
    \/ h \in cleaner.stale

OwnedInv == \A c \in Client \ dropped, h \in Handle : handle[h] = c => Owned(c, h)

EngineInv ==
    /\ TypeOK
    /\ EntryHasThread
    /\ AcceptorInv
    /\ ErasedInv
    /\ CloseInv
    /\ CleanerInv
    /\ OwnedInv

\* Before Start there are no threads.
StartInv == ~m_isRunning /\ stopper = "NEW" => acceptor.at = "NEW" /\ cleaner.at = "NEW"

\* No step makes a thread before Start.
LEMMA StartStep == StartInv /\ [Next]_vars => StartInv'
<1> SUFFICES ASSUME StartInv, [Next]_vars PROVE StartInv'
  OBVIOUS
<1> USE DEF StartInv, controlVars, tableVars, rateVars
<1>1. CASE UNCHANGED vars
  BY <1>1 DEF vars
<1>2. CASE TickClock \/ Start \/ Stop
  BY <1>2 DEF TickClock, Start, Stop, StopBegins, StopListening, StopClients, StopReturns
<1>3. CASE Acceptance
  BY <1>3 DEF Acceptance, Accept, AcceptFails, CheckRateLimit, AcceptInsert, AcceptSpawn
<1>4. ASSUME NEW c \in Client, Service(c) PROVE StartInv'
  BY <1>4 DEF Service, WorkerLookup, WorkerLoop, Recv, RecvTimeout, RecvError, RecvData, FramesDone,
              FrameMalformed, WorkerExit, WorkerClose, WorkerForget, WorkerErase
<1>5. CASE Maintenance
  BY <1>5 DEF Maintenance, CleanerWakes, CleanerSweeps, CleanerCloses, CleanerLoops
<1> QED
  BY <1>1, <1>2, <1>3, <1>4, <1>5 DEF Next

\* The invariant holds initially: no connection is open.
LEMMA EngineInit == Init => EngineInv /\ StartInv
<1> SUFFICES ASSUME Init PROVE EngineInv /\ StartInv
  OBVIOUS
<1>1. TypeOK
  BY TypeInit
<1>2. EntryHasThread /\ AcceptorInv /\ ErasedInv /\ CloseInv /\ CleanerInv
  BY DEF Init, EntryHasThread, AcceptorInv, ErasedInv, CloseInv, CleanerInv, IdleAcceptor,
         IdleCleaner
<1>3. OwnedInv
  BY NetworkAssumption DEF Init, OwnedInv
<1>4. StartInv
  BY DEF Init, StartInv, IdleAcceptor, IdleCleaner
<1> QED
  BY <1>1, <1>2, <1>3, <1>4 DEF EngineInv

\* The accept thread keeps the invariant.
LEMMA EngineAccept == EngineInv /\ Acceptance => EngineInv'
<1> SUFFICES ASSUME EngineInv, Acceptance PROVE EngineInv'
  OBVIOUS
<1> USE NetworkAssumption DEF controlVars, tableVars, rateVars
<1>0. TypeOK /\ TypeOK'
  BY TypeAccept DEF EngineInv
<1>1. ASSUME NEW c \in Client, NEW i \in Ip, NEW h \in Handle, Accept(c, i, h) PROVE EngineInv'
  <2>1. EntryHasThread' /\ AcceptorInv' /\ ErasedInv' /\ CloseInv' /\ CleanerInv'
    BY <1>1 DEF EngineInv, Accept, EntryHasThread, AcceptorInv, ErasedInv, CloseInv, CleanerInv
  <2>2. OwnedInv'
    BY <1>0, <1>1 DEF EngineInv, Accept, OwnedInv, Owned, TypeOK
  <2> QED
    BY <1>0, <2>1, <2>2 DEF EngineInv
<1>2. CASE AcceptFails
  BY <1>0, <1>2 DEF EngineInv, AcceptFails, EntryHasThread, AcceptorInv, ErasedInv, CloseInv,
                    CleanerInv, OwnedInv, Owned, IdleAcceptor, Again
<1>3. CASE CheckRateLimit
  <2>1. PICK e, when : LetIn(e) \/ Refuse(e, when)
    BY <1>3 DEF CheckRateLimit
  <2>2. /\ UNCHANGED <<m_clients, Socket, worker, local, cleaner, dropped>>
        /\ acceptor.at = "LIMIT"
    BY <1>3 DEF CheckRateLimit
  <2>3. CASE LetIn(e)
    <3>1. acceptor' = [acceptor EXCEPT !.at = "INSERT"] /\ UNCHANGED handle
      BY <2>3 DEF LetIn
    <3>2. acceptor'.at = "INSERT" /\ acceptor'.client = acceptor.client
          /\ acceptor'.socket = acceptor.socket
      BY <1>0, <2>2, <3>1, AcceptorHolds
    <3> QED
      BY <1>0, <2>2, <3>1, <3>2 DEF EngineInv, EntryHasThread, AcceptorInv, ErasedInv, CloseInv,
                                    CleanerInv, OwnedInv, Owned
  <2>4. CASE Refuse(e, when)
    <3>1. acceptor' = IdleAcceptor(Again("ACCEPT")) /\ handle' = Closed(acceptor.socket)
      BY <2>4 DEF Refuse
    <3>2. EntryHasThread' /\ AcceptorInv' /\ ErasedInv' /\ CloseInv' /\ CleanerInv'
      BY <2>2, <3>1 DEF EngineInv, EntryHasThread, AcceptorInv, ErasedInv, CloseInv, CleanerInv,
                        IdleAcceptor, Again
    <3>3. OwnedInv'
      BY <1>0, <2>2, <3>1 DEF EngineInv, OwnedInv, Owned, Closed, TypeOK
    <3> QED
      BY <1>0, <3>2, <3>3 DEF EngineInv
  <2> QED
    BY <2>1, <2>3, <2>4
<1>4. CASE AcceptInsert
  <2> DEFINE c == acceptor.client
  <2>1. c \in Client /\ acceptor.socket \in Handle /\ acceptor.at = "INSERT"
    BY <1>0, <1>4, AcceptorHolds DEF AcceptInsert
  <2>2. worker[c] = "NONE" /\ c \notin m_clients /\ Socket[c] = INVALID
    BY <2>1 DEF EngineInv, EntryHasThread, AcceptorInv, ErasedInv
  <2>3. acceptor'.at = "SPAWN" /\ acceptor'.client = c /\ acceptor'.socket = acceptor.socket
    BY <1>0, <1>4, <2>1, AcceptorHolds DEF AcceptInsert
  <2>4. /\ m_clients' = m_clients \cup {c}
        /\ Socket' = [Socket EXCEPT ![c] = acceptor.socket]
        /\ UNCHANGED <<handle, worker, local, cleaner, dropped>>
    BY <1>4 DEF AcceptInsert
  <2>5. Socket'[c] = acceptor.socket /\ \A d \in Client \ {c} : Socket'[d] = Socket[d]
    BY <1>0, <2>1, <2>4 DEF TypeOK
  <2>6. EntryHasThread' /\ AcceptorInv' /\ ErasedInv' /\ CloseInv' /\ CleanerInv'
    BY <2>1, <2>2, <2>3, <2>4, <2>5
       DEF EngineInv, EntryHasThread, AcceptorInv, ErasedInv, CloseInv, CleanerInv
  <2>7. OwnedInv'
    BY <2>1, <2>2, <2>3, <2>4, <2>5 DEF EngineInv, OwnedInv, Owned
  <2> QED
    BY <1>0, <2>6, <2>7 DEF EngineInv
<1>5. ASSUME NEW created \in BOOLEAN, AcceptSpawn(created) PROVE EngineInv'
  <2> DEFINE c == acceptor.client
  <2>1. c \in Client /\ acceptor.socket \in Handle /\ acceptor.at = "SPAWN"
    BY <1>0, <1>5, AcceptorHolds DEF AcceptSpawn
  <2>2. worker[c] = "NONE" /\ Socket[c] \in {INVALID, acceptor.socket}
    BY <2>1 DEF EngineInv, AcceptorInv
  <2>3. acceptor'.at \in {"ACCEPT", "DONE"}
    BY <1>5 DEF AcceptSpawn, IdleAcceptor, Again
  <2>4. UNCHANGED <<m_clients, Socket, local, cleaner, dropped>>
    BY <1>5 DEF AcceptSpawn
  <2>5. /\ worker'[c] = IF created THEN "LOOKUP" ELSE "NO_THREAD"
        /\ \A d \in Client \ {c} : worker'[d] = worker[d]
        /\ handle' = IF created THEN handle ELSE [handle EXCEPT ![acceptor.socket] = Nobody]
    BY <1>0, <1>5, <2>1 DEF AcceptSpawn, Closed, TypeOK
  <2>6. EntryHasThread' /\ AcceptorInv' /\ ErasedInv' /\ CloseInv' /\ CleanerInv'
    <3>1. EntryHasThread'
      BY <2>1, <2>4, <2>5 DEF EngineInv, EntryHasThread, TypeOK
    <3>2. AcceptorInv' /\ CleanerInv'
      BY <2>3, <2>4 DEF EngineInv, AcceptorInv, CleanerInv
    <3>3. ErasedInv'
      BY <2>1, <2>2, <2>4, <2>5 DEF EngineInv, ErasedInv
    <3>4. CloseInv'
      BY <2>1, <2>4, <2>5 DEF EngineInv, CloseInv
    <3> QED
      BY <3>1, <3>2, <3>3, <3>4
  <2>7. ASSUME NEW d \in Client \ dropped, NEW h \in Handle, handle'[h] = d PROVE Owned(d, h)'
    <3>1. handle[h] = d /\ (created \/ h # acceptor.socket)
      BY <1>0, <2>1, <2>5, <2>7 DEF TypeOK
    <3>2. Owned(d, h)
      BY <3>1 DEF EngineInv, OwnedInv
    <3> QED
      BY <2>1, <2>2, <2>3, <2>4, <2>5, <3>1, <3>2 DEF Owned
  <2> QED
    BY <1>0, <2>4, <2>6, <2>7 DEF EngineInv, OwnedInv
<1> QED
  BY <1>1, <1>2, <1>3, <1>4, <1>5 DEF Acceptance

\* A step of a worker that leaves the table and the sockets alone, and after
\* which it is still to close what its session holds, keeps the invariant.
LEMMA EngineMove ==
    ASSUME EngineInv, TypeOK', NEW c \in Client,
           UNCHANGED <<m_clients, Socket, handle, acceptor, cleaner, dropped>>,
           worker[c] \in {"LOOKUP", "LOOP", "RECV", "FRAMES"},
           worker[c] = "LOOKUP" => c \in m_clients,
           worker'[c] \in {"LOOP", "RECV", "FRAMES", "EXIT"},
           \A d \in Client \ {c} : worker'[d] = worker[d] /\ local'[d] = local[d]
    PROVE  EngineInv'
<1>1. EntryHasThread'
  BY DEF EngineInv, EntryHasThread, TypeOK
<1>2. AcceptorInv' /\ CleanerInv'
  <2>1. acceptor.at \in {"LIMIT", "INSERT", "SPAWN"} => acceptor.client \in Client \ {c}
    BY AcceptorHolds DEF EngineInv, AcceptorInv
  <2> QED
    BY <2>1 DEF EngineInv, AcceptorInv, CleanerInv
<1>3. ErasedInv' /\ CloseInv'
  BY DEF EngineInv, ErasedInv, CloseInv
<1>4. OwnedInv'
  BY DEF EngineInv, OwnedInv, Owned
<1> QED
  BY <1>1, <1>2, <1>3, <1>4 DEF EngineInv

\* A worker keeps the invariant.
LEMMA EngineService == ASSUME EngineInv, NEW c \in Client, Service(c) PROVE EngineInv'
<1> USE NetworkAssumption DEF controlVars, tableVars, rateVars
<1>0. TypeOK /\ TypeOK'
  BY TypeService DEF EngineInv
<1>1. acceptor.at \in {"LIMIT", "INSERT", "SPAWN"} =>
          acceptor.client \in Client /\ worker[acceptor.client] = "NONE"
  BY <1>0, AcceptorHolds DEF EngineInv, AcceptorInv
<1>2. ASSUME NEW at, Go(c, at)
      PROVE  worker'[c] = at /\ \A d \in Client \ {c} : worker'[d] = worker[d]
  BY <1>0, <1>2 DEF Go, TypeOK
<1>3. CASE WorkerLookup(c)
  <2>1. CASE c \in m_clients
    <3>1. worker'[c] = "LOOP" /\ \A d \in Client \ {c} : worker'[d] = worker[d]
      BY <1>2, <1>3, <2>1 DEF WorkerLookup
    <3> QED
      BY <1>0, <1>3, <2>1, <3>1, EngineMove DEF WorkerLookup
  <2>2. CASE c \notin m_clients
    <3>1. worker'[c] = "DONE" /\ \A d \in Client \ {c} : worker'[d] = worker[d]
      BY <1>2, <1>3, <2>2 DEF WorkerLookup
    <3>2. /\ UNCHANGED <<m_clients, Socket, handle, acceptor, local, cleaner, dropped>>
          /\ worker[c] = "LOOKUP"
      BY <1>3 DEF WorkerLookup
    <3>3. Socket[c] = INVALID
      BY <2>2, <3>2 DEF EngineInv, ErasedInv
    <3>4. EntryHasThread' /\ AcceptorInv' /\ CleanerInv'
      BY <1>0, <1>1, <2>2, <3>1, <3>2
         DEF EngineInv, EntryHasThread, AcceptorInv, CleanerInv, TypeOK
    <3>5. ErasedInv' /\ CloseInv'
      BY <3>1, <3>2 DEF EngineInv, ErasedInv, CloseInv
    <3>6. OwnedInv'
      BY <3>1, <3>2, <3>3 DEF EngineInv, OwnedInv, Owned
    <3> QED
      BY <1>0, <3>4, <3>5, <3>6 DEF EngineInv
  <2> QED
    BY <2>1, <2>2
<1>4. CASE WorkerLoop(c)
  <2>1. /\ worker'[c] \in {"RECV", "EXIT"}
        /\ \A d \in Client \ {c} : worker'[d] = worker[d]
    BY <1>2, <1>4 DEF WorkerLoop
  <2>2. \A d \in Client \ {c} : local'[d] = local[d]
    BY <1>0, <1>4 DEF WorkerLoop, TypeOK
  <2> QED
    BY <1>0, <1>4, <2>1, <2>2, EngineMove DEF WorkerLoop
<1>5. CASE Recv(c)
  <2>1. /\ worker'[c] \in {"LOOP", "FRAMES", "EXIT"}
        /\ \A d \in Client \ {c} : worker'[d] = worker[d]
    BY <1>2, <1>5 DEF Recv, RecvTimeout, RecvError, RecvData
  <2>2. /\ local' = [local EXCEPT ![c] = INVALID]
        /\ worker[c] = "RECV"
        /\ UNCHANGED <<m_clients, Socket, handle, acceptor, cleaner, dropped>>
    BY <1>5 DEF Recv, RecvTimeout, RecvError, RecvData
  <2>3. \A d \in Client \ {c} : local'[d] = local[d]
    BY <1>0, <2>2 DEF TypeOK
  <2> QED
    BY <1>0, <2>1, <2>2, <2>3, EngineMove
<1>6. CASE FramesDone(c)
  <2>1. /\ worker'[c] \in {"LOOP", "EXIT"}
        /\ \A d \in Client \ {c} : worker'[d] = worker[d]
    BY <1>2, <1>6 DEF FramesDone
  <2> QED
    BY <1>0, <1>6, <2>1, EngineMove DEF FramesDone
<1>7. CASE FrameMalformed(c)
  <2>1. worker'[c] = "EXIT" /\ \A d \in Client \ {c} : worker'[d] = worker[d]
    BY <1>2, <1>7 DEF FrameMalformed
  <2>2. /\ worker[c] = "FRAMES" /\ dropped' = dropped \cup {c}
        /\ Socket'[c] = INVALID /\ \A d \in Client \ {c} : Socket'[d] = Socket[d]
        /\ UNCHANGED <<m_clients, handle, acceptor, local, cleaner>>
    BY <1>0, <1>7 DEF FrameMalformed, TypeOK
  <2>3. EntryHasThread' /\ AcceptorInv' /\ CleanerInv'
    BY <1>0, <1>1, <2>1, <2>2 DEF EngineInv, EntryHasThread, AcceptorInv, CleanerInv, TypeOK
  <2>4. ErasedInv' /\ CloseInv'
    BY <2>1, <2>2 DEF EngineInv, ErasedInv, CloseInv
  <2>5. OwnedInv'
    BY <2>1, <2>2 DEF EngineInv, OwnedInv, Owned
  <2> QED
    BY <1>0, <2>3, <2>4, <2>5 DEF EngineInv
<1>8. CASE WorkerExit(c)
  <2>1. /\ worker'[c] = IF Socket[c] = INVALID THEN "ERASE" ELSE "CLOSE"
        /\ \A d \in Client \ {c} : worker'[d] = worker[d]
    BY <1>2, <1>8 DEF WorkerExit
  <2>2. /\ worker[c] = "EXIT"
        /\ local'[c] = Socket[c] /\ \A d \in Client \ {c} : local'[d] = local[d]
        /\ UNCHANGED <<m_clients, Socket, handle, acceptor, cleaner, dropped>>
    BY <1>0, <1>8 DEF WorkerExit, TypeOK
  <2>3. EntryHasThread' /\ AcceptorInv' /\ CleanerInv'
    BY <1>0, <1>1, <2>1, <2>2 DEF EngineInv, EntryHasThread, AcceptorInv, CleanerInv, TypeOK
  <2>4. ErasedInv' /\ CloseInv'
    BY <2>1, <2>2 DEF EngineInv, ErasedInv, CloseInv
  <2>5. OwnedInv'
    BY <2>1, <2>2 DEF EngineInv, OwnedInv, Owned
  <2> QED
    BY <1>0, <2>3, <2>4, <2>5 DEF EngineInv
<1>9. CASE WorkerClose(c)
  <2>1. worker'[c] = "CLOSED" /\ \A d \in Client \ {c} : worker'[d] = worker[d]
    BY <1>2, <1>9 DEF WorkerClose
  <2>2. /\ worker[c] = "CLOSE" /\ handle' = Closed(local[c])
        /\ \A d \in Client \ {c} : local'[d] = local[d]
        /\ UNCHANGED <<m_clients, Socket, acceptor, cleaner, dropped>>
    BY <1>0, <1>9 DEF WorkerClose, TypeOK
  <2>3. EntryHasThread' /\ AcceptorInv' /\ CleanerInv'
    BY <1>0, <1>1, <2>1, <2>2 DEF EngineInv, EntryHasThread, AcceptorInv, CleanerInv, TypeOK
  <2>4. ErasedInv' /\ CloseInv'
    BY <2>1, <2>2 DEF EngineInv, ErasedInv, CloseInv
  <2>5. ASSUME NEW d \in Client \ dropped, NEW h \in Handle, handle'[h] = d PROVE Owned(d, h)'
    <3>1. handle[h] = d /\ h # local[c]
      BY <1>0, <2>2, <2>5 DEF Closed, TypeOK
    <3>2. Owned(d, h) /\ Socket[c] # h
      BY <2>2, <3>1 DEF EngineInv, OwnedInv, CloseInv
    <3> QED
      BY <2>1, <2>2, <3>2 DEF Owned
  <2> QED
    BY <1>0, <2>2, <2>3, <2>4, <2>5 DEF EngineInv, OwnedInv
<1>10. CASE WorkerForget(c)
  <2>1. worker'[c] = "ERASE" /\ \A d \in Client \ {c} : worker'[d] = worker[d]
    BY <1>2, <1>10 DEF WorkerForget
  <2>2. /\ worker[c] = "CLOSED"
        /\ Socket'[c] = INVALID /\ \A d \in Client \ {c} : Socket'[d] = Socket[d]
        /\ UNCHANGED <<m_clients, handle, acceptor, local, cleaner, dropped>>
    BY <1>0, <1>10 DEF WorkerForget, TypeOK
  <2>3. EntryHasThread' /\ AcceptorInv' /\ CleanerInv'
    BY <1>0, <1>1, <2>1, <2>2 DEF EngineInv, EntryHasThread, AcceptorInv, CleanerInv, TypeOK
  <2>4. ErasedInv' /\ CloseInv'
    BY <2>1, <2>2 DEF EngineInv, ErasedInv, CloseInv
  <2>5. OwnedInv'
    BY <2>1, <2>2 DEF EngineInv, OwnedInv, Owned
  <2> QED
    BY <1>0, <2>3, <2>4, <2>5 DEF EngineInv
<1>11. CASE WorkerErase(c)
  <2>1. worker'[c] = "DONE" /\ \A d \in Client \ {c} : worker'[d] = worker[d]
    BY <1>2, <1>11 DEF WorkerErase
  <2>2. /\ worker[c] = "ERASE" /\ m_clients' = m_clients \ {c}
        /\ UNCHANGED <<Socket, handle, acceptor, local, cleaner, dropped>>
    BY <1>11 DEF WorkerErase
  <2>3. EntryHasThread' /\ AcceptorInv' /\ CleanerInv'
    BY <1>0, <1>1, <2>1, <2>2 DEF EngineInv, EntryHasThread, AcceptorInv, CleanerInv, TypeOK
  <2>4. ErasedInv' /\ CloseInv'
    BY <2>1, <2>2 DEF EngineInv, ErasedInv, CloseInv
  <2>5. OwnedInv'
    BY <2>1, <2>2 DEF EngineInv, OwnedInv, Owned
  <2> QED
    BY <1>0, <2>3, <2>4, <2>5 DEF EngineInv
<1> QED
  BY <1>3, <1>4, <1>5, <1>6, <1>7, <1>8, <1>9, <1>10, <1>11 DEF Service

\* The maintenance thread keeps the invariant: what it takes out of the table
\* it puts on its list.
LEMMA EngineMaintenance == EngineInv /\ Maintenance => EngineInv'
<1> SUFFICES ASSUME EngineInv, Maintenance PROVE EngineInv'
  OBVIOUS
<1> USE NetworkAssumption DEF controlVars, tableVars, rateVars
<1>0. TypeOK /\ TypeOK'
  BY TypeMaintenance DEF EngineInv
<1>1. CASE CleanerWakes
  BY <1>0, <1>1 DEF EngineInv, CleanerWakes, EntryHasThread, AcceptorInv, ErasedInv, CloseInv,
                    CleanerInv, OwnedInv, Owned
<1>2. CASE CleanerSweeps
  <2>1. /\ Socket' = [c \in Client |-> IF c \in StaleClients THEN INVALID ELSE Socket[c]]
        /\ m_clients' = m_clients \ StaleClients
        /\ cleaner'.at = "CLOSE"
        /\ cleaner'.stale = {Socket[c] : c \in StaleClients} \ {INVALID}
        /\ UNCHANGED <<handle, acceptor, worker, local, dropped>>
        /\ cleaner.stale = {}
    BY <1>2 DEF CleanerSweeps, EngineInv, CleanerInv
  <2>2. \A c \in Client : Socket'[c] = IF c \in StaleClients THEN INVALID ELSE Socket[c]
    BY <2>1
  <2>3. EntryHasThread' /\ ErasedInv' /\ CloseInv' /\ CleanerInv'
    BY <2>1, <2>2 DEF EngineInv, EntryHasThread, ErasedInv, CloseInv, CleanerInv
  <2>4. AcceptorInv'
    BY <1>0, <2>1, <2>2, AcceptorHolds DEF EngineInv, AcceptorInv
  <2>5. OwnedInv'
    BY <2>1, <2>2 DEF EngineInv, OwnedInv, Owned
  <2> QED
    BY <1>0, <2>3, <2>4, <2>5 DEF EngineInv
<1>3. ASSUME NEW h \in Handle, CleanerCloses(h) PROVE EngineInv'
  <2>1. /\ cleaner.at = "CLOSE" /\ cleaner'.at = "CLOSE"
        /\ cleaner'.stale = cleaner.stale \ {h}
        /\ handle' = [handle EXCEPT ![h] = Nobody]
        /\ UNCHANGED <<m_clients, Socket, acceptor, worker, local, dropped>>
    BY <1>0, <1>3 DEF CleanerCloses, Closed, TypeOK, Cleaner
  <2>2. EntryHasThread' /\ AcceptorInv' /\ ErasedInv' /\ CloseInv' /\ CleanerInv'
    BY <2>1 DEF EngineInv, EntryHasThread, AcceptorInv, ErasedInv, CloseInv, CleanerInv
  <2>3. OwnedInv'
    BY <1>0, <2>1 DEF EngineInv, OwnedInv, Owned, TypeOK
  <2> QED
    BY <1>0, <2>2, <2>3 DEF EngineInv
<1>4. CASE CleanerLoops
  BY <1>0, <1>4 DEF EngineInv, CleanerLoops, IdleCleaner, EntryHasThread, AcceptorInv, ErasedInv,
                    CloseInv, CleanerInv, OwnedInv, Owned
<1> QED
  BY <1>1, <1>2, <1>3, <1>4 DEF Maintenance

\* Start, Stop and the clock keep the invariant.
LEMMA EngineControl == EngineInv /\ StartInv /\ (Start \/ Stop \/ TickClock) => EngineInv'
<1> SUFFICES ASSUME EngineInv, StartInv, Start \/ Stop \/ TickClock PROVE EngineInv'
  OBVIOUS
<1> USE NetworkAssumption DEF controlVars, tableVars, rateVars
<1>0. TypeOK /\ TypeOK'
  BY TypeControl DEF EngineInv
<1>1. CASE StopClients
  <2>1. /\ Socket' = [c \in Client |-> IF c \in Open THEN INVALID ELSE Socket[c]]
        /\ handle' = [h \in Handle |-> IF \E c \in Open : Socket[c] = h
                                         THEN Nobody ELSE handle[h]]
        /\ m_clients' = {}
        /\ UNCHANGED <<acceptor, worker, local, cleaner, dropped>>
    BY <1>1 DEF StopClients
  <2>2. \A c \in Client : Socket'[c] = IF c \in m_clients THEN INVALID ELSE Socket[c]
    BY <2>1 DEF Open
  <2>3. EntryHasThread' /\ ErasedInv' /\ CloseInv' /\ CleanerInv'
    BY <2>1, <2>2 DEF EngineInv, EntryHasThread, ErasedInv, CloseInv, CleanerInv
  <2>4. AcceptorInv'
    BY <1>0, <2>1, <2>2, AcceptorHolds DEF EngineInv, AcceptorInv
  <2>5. ASSUME NEW d \in Client \ dropped, NEW h \in Handle, handle'[h] = d PROVE Owned(d, h)'
    <3>1. handle[h] = d /\ ~\E c \in Open : Socket[c] = h
      BY <2>1, <2>5
    <3>2. Owned(d, h)
      BY <3>1 DEF EngineInv, OwnedInv
    <3>3. Socket[d] = h => Socket'[d] = h
      BY <2>1, <3>1
    <3> QED
      BY <2>1, <3>2, <3>3 DEF Owned
  <2> QED
    BY <1>0, <2>1, <2>3, <2>4, <2>5 DEF EngineInv, OwnedInv
<1>2. CASE Start
  <2>1. /\ acceptor'.at \in {"ACCEPT", "DONE"} /\ cleaner'.stale = {}
        /\ UNCHANGED <<m_clients, Socket, handle, worker, local, dropped>>
    BY <1>2 DEF Start, IdleAcceptor, IdleCleaner
  <2>2. acceptor.at = "NEW" /\ cleaner.stale = {}
    BY <1>2 DEF Start, StartInv, EngineInv, CleanerInv
  <2> QED
    BY <1>0, <2>1, <2>2 DEF EngineInv, EntryHasThread, AcceptorInv, ErasedInv, CloseInv,
                            CleanerInv, OwnedInv, Owned
<1>3. CASE TickClock \/ StopBegins \/ StopListening \/ StopReturns
  <2>1. UNCHANGED <<m_clients, Socket, handle, acceptor, worker, local, cleaner, dropped>>
    BY <1>3 DEF TickClock, StopBegins, StopListening, StopReturns
  <2> QED
    BY <1>0, <2>1 DEF EngineInv, EntryHasThread, AcceptorInv, ErasedInv, CloseInv, CleanerInv,
                      OwnedInv, Owned
<1> QED
  BY <1>1, <1>2, <1>3 DEF Stop

\* Every step keeps the invariant.
LEMMA EngineStep == EngineInv /\ StartInv /\ [Next]_vars => EngineInv' /\ StartInv'
<1> SUFFICES ASSUME EngineInv, StartInv, [Next]_vars PROVE EngineInv' /\ StartInv'
  OBVIOUS
<1>0. StartInv'
  BY StartStep
<1>1. CASE UNCHANGED vars
  <2>1. TypeOK'
    BY <1>1, TypeStep DEF EngineInv
  <2> QED
    BY <1>0, <1>1, <2>1 DEF vars, controlVars, tableVars, EngineInv, EntryHasThread, AcceptorInv,
                      ErasedInv, CloseInv, CleanerInv, OwnedInv, Owned
<1> QED
  BY <1>0, <1>1, EngineAccept, EngineService, EngineMaintenance, EngineControl DEF Next

\* A client in the table has a worker that will still erase it, is being set up,
\* or is one for which CreateThread failed: for any number of connections and
\* any order of the worker, the sweep and Stop.
THEOREM TableHasThreads == Spec => []EntryHasThread
<1>1. EngineInv => EntryHasThread
  BY DEF EngineInv
<1> QED
  BY <1>1, EngineInit, EngineStep, PTL DEF Spec

\* No thread ends and leaves the socket of its client open, except that of a
\* client dropped for a malformed header, however SOCKET values are reused.
THEOREM SocketsClosed == Spec => []ClosedWhenDone
<1>1. EngineInv => ClosedWhenDone
  <2> SUFFICES ASSUME EngineInv, NEW c \in Client \ dropped,
                      worker[c] \in {"DONE", "NO_THREAD"}, NEW h \in Handle, handle[h] = c
               PROVE  h \in cleaner.stale
    BY DEF ClosedWhenDone
  <2>1. Owned(c, h)
    BY DEF EngineInv, OwnedInv
  <2> QED
    BY <2>1 DEF Owned, EngineInv, AcceptorInv
<1> QED
  BY <1>1, EngineInit, EngineStep, PTL DEF Spec

-----------------------------------------------------------------------------
(***************************************************************************)
(* The block of CheckRateLimit.                                            *)
(***************************************************************************)
\* A quotient is unique.
LEMMA QuotientUnique ==
    ASSUME NEW W \in Nat \ {0}, NEW q \in Int, NEW p \in Int, NEW r \in 0 .. W - 1,
           NEW s \in 0 .. W - 1, W * q + r = W * p + s
    PROVE  q = p
<1>1. W * (q - p) = s - r
  OBVIOUS
<1>2. ASSUME q - p >= 1 PROVE FALSE
  <2>1. W * (q - p) >= W * 1
    BY <1>2
  <2> QED
    BY <1>1, <2>1
<1>3. ASSUME q - p <= -1 PROVE FALSE
  <2>1. W * (q - p) <= W * (-1)
    BY <1>3
  <2> QED
    BY <1>1, <2>1
<1> QED
  BY <1>2, <1>3

\* A sum that stays below the modulus does not wrap.
LEMMA NoWrap ==
    ASSUME NEW W \in Nat \ {0}, NEW n \in Nat, NEW k \in Nat, (n % W) + k < W
    PROVE  (n + k) % W = (n % W) + k
<1> DEFINE m == n + k
           r == n % W
           s == m % W
<1>1. PICK q \in Int : n = W * q + r
  <2>1. n = W * (n \div W) + (n % W) /\ n \div W \in Int
    OBVIOUS
  <2> QED
    BY <2>1
<1>2. PICK p \in Int : m = W * p + s
  <2>1. m \in Nat
    OBVIOUS
  <2> HIDE DEF m
  <2>2. m = W * (m \div W) + (m % W) /\ m \div W \in Int
    BY <2>1
  <2> QED
    BY <2>2
<1>3. r \in 0 .. W - 1 /\ s \in 0 .. W - 1 /\ r + k \in 0 .. W - 1
  OBVIOUS
<1>4. m = n + k
  OBVIOUS
<1> HIDE DEF m, r, s
<1>5. W * q \in Int /\ W * p \in Int
  OBVIOUS
<1>6. W * q + (r + k) = W * p + s
  BY <1>1, <1>2, <1>3, <1>4, <1>5
<1>7. q = p
  BY <1>3, <1>6, QuotientUnique
<1>8. r + k = s
  BY <1>3, <1>5, <1>6, <1>7
<1> QED
  BY <1>8 DEF m, r, s

\* A DWORD is its own remainder.
LEMMA SmallMod == ASSUME NEW W \in Nat \ {0}, NEW x \in 0 .. W - 1 PROVE x % W = x
OBVIOUS

\* While a block that does not wrap lasts, the entry still holds its end.
BlockInv ==
    \A i \in Ip : offence[i] # Nobody =>
        /\ m_rateLimits[i] # Nobody
        /\ offence[i] <= clock
        /\ clock < offence[i] + BlockMs /\ (offence[i] % TickWrap) + BlockMs < TickWrap =>
               m_rateLimits[i].BlockedUntilMs = (offence[i] % TickWrap) + BlockMs

\* In that time CheckRateLimit finds the address blocked.
LEMMA StillBlocked ==
    ASSUME TypeOK, BlockInv, NEW i \in Ip, offence[i] # Nobody, clock < offence[i] + BlockMs,
           (offence[i] % TickWrap) + BlockMs < TickWrap
    PROVE  Blocked(m_rateLimits[i])
<1> USE NetworkAssumption
<1> DEFINE o == offence[i]
           k == clock - o
<1>1. o \in Nat /\ clock \in Nat /\ o <= clock /\ clock < o + BlockMs
      /\ m_rateLimits[i].BlockedUntilMs = (o % TickWrap) + BlockMs
  BY DEF TypeOK, BlockInv
<1>2. (o % TickWrap) + BlockMs < TickWrap /\ o % TickWrap \in Nat
  BY <1>1
<1>3. k \in Nat /\ k < BlockMs /\ clock = o + k
  BY <1>1
<1> HIDE DEF o, k
<1>4. (o % TickWrap) + k < TickWrap
  BY <1>2, <1>3
<1>5. (o + k) % TickWrap = (o % TickWrap) + k
  BY <1>1, <1>3, <1>4, NoWrap
<1> QED
  BY <1>1, <1>2, <1>3, <1>5 DEF Blocked, GetTickCount

\* A step other than CheckRateLimit leaves the rate limit alone.
LEMMA OtherSteps ==
    [Next]_vars => CheckRateLimit \/ (UNCHANGED rateVars /\ (clock' = clock \/ clock' = clock + 1))
<1> SUFFICES ASSUME [Next]_vars, ~CheckRateLimit
             PROVE  UNCHANGED rateVars /\ (clock' = clock \/ clock' = clock + 1)
  OBVIOUS
<1>1. CASE UNCHANGED vars
  BY <1>1 DEF vars
<1>2. CASE TickClock \/ Start \/ Stop
  BY <1>2 DEF TickClock, Start, Stop, StopBegins, StopListening, StopClients, StopReturns
<1>3. CASE Acceptance
  BY <1>3 DEF Acceptance, Accept, AcceptFails, AcceptInsert, AcceptSpawn
<1>4. ASSUME NEW c \in Client, Service(c)
      PROVE  UNCHANGED rateVars /\ clock' = clock
  BY <1>4 DEF Service, WorkerLookup, WorkerLoop, Recv, RecvTimeout, RecvError, RecvData, FramesDone,
              FrameMalformed, WorkerExit, WorkerClose, WorkerForget, WorkerErase
<1>5. CASE Maintenance
  BY <1>5 DEF Maintenance, CleanerWakes, CleanerSweeps, CleanerCloses, CleanerLoops
<1> QED
  BY <1>1, <1>2, <1>3, <1>4, <1>5 DEF Next

\* An attempt keeps the end of the block, and an address that is let in is no
\* longer blocked.
LEMMA BlockCheck ==
    ASSUME TypeOK, BlockInv, CheckRateLimit
    PROVE  /\ BlockInv'
           /\ \A i \in Ip :
                 admitted'[i] # admitted[i] /\ offence[i] # Nobody =>
                     \/ clock >= offence[i] + BlockMs
                     \/ (offence[i] % TickWrap) + BlockMs >= TickWrap
<1> USE NetworkAssumption, EntryAssumption
<1> DEFINE a == acceptor.ip
           e == m_rateLimits[a]
           Live(i) == clock < offence[i] + BlockMs /\ (offence[i] % TickWrap) + BlockMs < TickWrap
<1>1. a \in Ip /\ clock' = clock /\ clock \in Nat
  BY AcceptorHolds DEF CheckRateLimit, TypeOK
<1>2. ASSUME NEW x, LetIn(x)
      PROVE  /\ m_rateLimits'[a] = x /\ UNCHANGED offence
             /\ \A i \in Ip \ {a} : m_rateLimits'[i] = m_rateLimits[i] /\ admitted'[i] = admitted[i]
  BY <1>1, <1>2 DEF LetIn, TypeOK
<1>3. ASSUME NEW x, NEW when, Refuse(x, when)
      PROVE  /\ m_rateLimits'[a] = x /\ offence'[a] = when /\ UNCHANGED admitted
             /\ \A i \in Ip \ {a} : m_rateLimits'[i] = m_rateLimits[i] /\ offence'[i] = offence[i]
  BY <1>1, <1>3 DEF Refuse, TypeOK
<1>4. NewWindow \in Entry
  BY TickNow DEF NewWindow, Entry, Tick
<1>5. ASSUME e = Nobody, LetIn(NewWindow) PROVE BlockInv' /\ offence[a] = Nobody
  BY <1>1, <1>2, <1>5 DEF BlockInv
<1>6. ASSUME e # Nobody, ~Blocked(e) PROVE offence[a] # Nobody => ~Live(a)
  BY <1>1, <1>6, StillBlocked
<1>7. ASSUME e # Nobody, ~Blocked(e), NEW x, x # Nobody, LetIn(x) PROVE BlockInv'
  BY <1>1, <1>2, <1>6, <1>7 DEF BlockInv
<1>8. ASSUME e # Nobody, Blocked(e), Refuse(e, offence[a]) PROVE BlockInv'
  BY <1>1, <1>3, <1>8 DEF BlockInv
<1>9. ASSUME e # Nobody, Refuse(BlockedEntry(e), clock) PROVE BlockInv'
  <2>1. e \in Entry
    BY <1>1, <1>9 DEF TypeOK
  <2>2. /\ BlockedEntry(e).BlockedUntilMs = ((clock % TickWrap) + BlockMs) % TickWrap
        /\ BlockedEntry(e) # Nobody
    BY <2>1, EntryBlocked DEF GetTickCount
  <2>3. ASSUME (clock % TickWrap) + BlockMs < TickWrap
        PROVE  ((clock % TickWrap) + BlockMs) % TickWrap = (clock % TickWrap) + BlockMs
    <3>1. (clock % TickWrap) + BlockMs \in 0 .. TickWrap - 1
      BY <1>1, <2>3
    <3> QED
      BY <3>1, SmallMod
  <2> QED
    BY <1>1, <1>3, <1>9, <2>2, <2>3 DEF BlockInv
<1>10. ASSUME e # Nobody, ~Exceeded(e) PROVE Counted(e) # Nobody
  <2>1. e \in Entry
    BY <1>1, <1>10 DEF TypeOK
  <2>2. Counted(e) \in Entry
    BY <1>10, <2>1, EntryCounted
  <2> QED
    BY <2>2
<1>11. BlockInv'
  BY <1>4, <1>5, <1>7, <1>8, <1>9, <1>10 DEF CheckRateLimit
<1>12. ASSUME admitted'[a] # admitted[a], offence[a] # Nobody PROVE ~Live(a)
  BY <1>3, <1>5, <1>6, <1>12 DEF CheckRateLimit
<1>13. \A i \in Ip \ {a} : admitted'[i] = admitted[i]
  BY <1>2, <1>3 DEF CheckRateLimit
<1>14. \A i \in Ip : offence[i] # Nobody => offence[i] \in Nat /\ offence[i] % TickWrap \in Nat
  BY DEF TypeOK
<1> QED
  BY <1>1, <1>11, <1>12, <1>13, <1>14

\* Every step keeps the end of the block.
LEMMA BlockStep == TypeOK /\ BlockInv /\ [Next]_vars => BlockInv'
<1> SUFFICES ASSUME TypeOK, BlockInv, [Next]_vars PROVE BlockInv'
  OBVIOUS
<1>1. CASE UNCHANGED rateVars /\ (clock' = clock \/ clock' = clock + 1)
  <2>1. \A i \in Ip : offence[i] # Nobody => offence[i] \in Nat
    BY DEF TypeOK
  <2>2. clock \in Nat /\ clock' \in Nat /\ clock <= clock'
    BY <1>1 DEF TypeOK
  <2> QED
    BY <1>1, <2>1, <2>2, NetworkAssumption DEF rateVars, BlockInv
<1> QED
  BY <1>1, OtherSteps, BlockCheck

\* An address that exceeded the limit is let in again only after BlockMs, or
\* when the tick counter wraps in that time.
THEOREM BlockedAddressWaits == Spec => BlockHolds
<1>1. Init => BlockInv
  BY DEF Init, BlockInv
<1>2. TypeOK /\ BlockInv /\ [Next]_vars =>
          [\A i \in Ip :
              admitted'[i] # admitted[i] /\ offence[i] # Nobody =>
                  \/ clock >= offence[i] + BlockMs
                  \/ (offence[i] % TickWrap) + BlockMs >= TickWrap]_vars
  BY OtherSteps, BlockCheck DEF rateVars
<1> QED
  BY <1>1, <1>2, BlockStep, TypeCorrect, PTL DEF Spec, BlockHolds

-----------------------------------------------------------------------------
(***************************************************************************)
(* The fixed window of CheckRateLimit.                                     *)
(***************************************************************************)
\* The difference of two DWORDs.
LEMMA DwordDifference ==
    ASSUME NEW W \in Nat \ {0}, NEW r \in 0 .. W - 1, NEW s \in 0 .. W - 1
    PROVE  (r - s) % W = IF r >= s THEN r - s ELSE r - s + W
<1>1. CASE r >= s
  <2>1. r - s \in 0 .. W - 1
    BY <1>1
  <2> QED
    BY <1>1, <2>1, SmallMod
<1>2. CASE r < s
  <2>1. \A x \in Int : x < 0 /\ x + W >= 0 => x % W = x + W
    OBVIOUS
  <2>2. r - s \in Int /\ r - s < 0 /\ (r - s) + W >= 0
    BY <1>2
  <2> QED
    BY <1>2, <2>1, <2>2
<1> QED
  BY <1>1, <1>2

\* The tick counter never shows more time than has passed.
LEMMA ElapsedBelow ==
    ASSUME NEW x \in Nat, NEW y \in Nat, y <= x
    PROVE  Elapsed(x % TickWrap, y % TickWrap) <= x - y
<1> DEFINE W == TickWrap
           r == x % W
           s == y % W
           a == x \div W
           b == y \div W
<1>0. W \in Nat \ {0}
  BY NetworkAssumption
<1>1. r \in 0 .. W - 1 /\ a \in Int /\ x = W * a + r
  BY <1>0
<1>2. s \in 0 .. W - 1 /\ b \in Int /\ y = W * b + s
  BY <1>0
<1>3. Elapsed(r, s) = IF r >= s THEN r - s ELSE r - s + W
  BY <1>0, <1>1, <1>2, DwordDifference DEF Elapsed
<1> HIDE DEF W, r, s, a, b
<1>4. W * a \in Int /\ W * b \in Int /\ W * a - W * b = W * (a - b)
  BY <1>0, <1>1, <1>2
<1>5. x - y = W * (a - b) + (r - s)
  BY <1>1, <1>2, <1>4
<1>6. a - b >= 0
  <2> SUFFICES ASSUME a - b <= -1 PROVE FALSE
    BY <1>1, <1>2
  <2>1. W * (a - b) <= W * (-1)
    BY <1>0, <1>1, <1>2
  <2> QED
    BY <1>0, <1>1, <1>2, <1>4, <1>5, <2>1
<1>7. r < s => a - b >= 1
  <2> SUFFICES ASSUME r < s, a - b = 0 PROVE FALSE
    BY <1>1, <1>2, <1>6
  <2>1. W * (a - b) = 0
    BY <1>0
  <2> QED
    BY <1>1, <1>2, <1>5, <2>1
<1>8. CASE r >= s
  <2>1. W * (a - b) >= 0
    BY <1>0, <1>1, <1>2, <1>6
  <2> QED
    BY <1>1, <1>2, <1>3, <1>4, <1>5, <1>8, <2>1 DEF W, r, s
<1>9. CASE r < s
  <2>1. W * (a - b) >= W * 1
    BY <1>0, <1>1, <1>2, <1>7, <1>9
  <2> QED
    BY <1>0, <1>1, <1>2, <1>3, <1>4, <1>5, <1>9, <2>1 DEF W, r, s
<1> QED
  BY <1>1, <1>2, <1>8, <1>9

\* How many of the attempts counted in an entry were let in.
LetInNow(e) == IF e.AttemptCount <= MaxAttempts THEN e.AttemptCount ELSE MaxAttempts

\* t are the times at which an address was let in; the last LetInNow(e) of them
\* make up the current window, which begins more than WindowMs after the
\* beginning of the window before it.
WindowOf(e, t) ==
    LET n == Len(t)
        b == n - LetInNow(e) + 1
    IN  /\ b \in 1 .. n
        /\ \A j \in 1 .. n : t[j] <= clock
        /\ \A j, l \in 1 .. n : j <= l => t[j] <= t[l]
        /\ e.FirstAttemptMs = t[b] % TickWrap
        /\ b - MaxAttempts >= 1 => t[b] - t[b - MaxAttempts] > WindowMs

Slack(t) == \A n \in 1 .. Len(t) :
                n >= 2 * MaxAttempts => t[n] - t[n - 2 * MaxAttempts + 1] > WindowMs

WindowInv ==
    \A i \in Ip :
        /\ m_rateLimits[i] = Nobody => admitted[i] = <<>>
        /\ m_rateLimits[i] # Nobody => WindowOf(m_rateLimits[i], admitted[i])
        /\ Slack(admitted[i])

\* What one more entry does to a sequence of times.
LEMMA Longer ==
    ASSUME NEW t \in Seq(Nat), NEW x \in Nat
    PROVE  /\ Append(t, x) \in Seq(Nat) /\ Len(Append(t, x)) = Len(t) + 1
           /\ Len(t) \in Nat
           /\ Append(t, x)[Len(t) + 1] = x
           /\ \A j \in 1 .. Len(t) : Append(t, x)[j] = t[j] /\ t[j] \in Nat
OBVIOUS

\* A time that is not before the others keeps them in order.
LEMMA LongerSorted ==
    ASSUME NEW t \in Seq(Nat), NEW x \in Nat, \A j \in 1 .. Len(t) : t[j] <= x,
           \A j, l \in 1 .. Len(t) : j <= l => t[j] <= t[l]
    PROVE  /\ \A j \in 1 .. Len(t) + 1 : Append(t, x)[j] <= x
           /\ \A j, l \in 1 .. Len(t) + 1 : j <= l => Append(t, x)[j] <= Append(t, x)[l]
<1> DEFINE u == Append(t, x)
           n == Len(t)
<1>1. n \in Nat /\ u[n + 1] = x /\ \A j \in 1 .. n : u[j] = t[j]
  BY Longer
<1> HIDE DEF u
<1>2. \A j \in 1 .. n + 1 : j \in 1 .. n \/ j = n + 1
  BY <1>1
<1>3. \A j \in 1 .. n + 1 : u[j] <= x
  BY <1>1, <1>2
<1>4. ASSUME NEW j \in 1 .. n + 1, NEW l \in 1 .. n + 1, j <= l PROVE u[j] <= u[l]
  <2>1. CASE l = n + 1
    BY <1>1, <1>3, <2>1
  <2>2. CASE l \in 1 .. n
    <3>1. j \in 1 .. n
      BY <1>1, <1>4, <2>2
    <3> QED
      BY <1>1, <1>4, <2>2, <3>1
  <2> QED
    BY <1>2, <2>1, <2>2
<1> QED
  BY <1>3, <1>4 DEF u

\* The bound on any stretch of WindowMs holds for one more time if it holds for
\* the stretch that ends there.
LEMMA LongerSlack ==
    ASSUME NEW t \in Seq(Nat), NEW x \in Nat, Slack(t),
           Len(t) + 2 - 2 * MaxAttempts >= 1 => x - t[Len(t) + 2 - 2 * MaxAttempts] > WindowMs
    PROVE  Slack(Append(t, x))
<1> USE NetworkAssumption
<1> DEFINE u == Append(t, x)
           n == Len(t)
<1>1. n \in Nat /\ Len(u) = n + 1 /\ u[n + 1] = x /\ \A j \in 1 .. n : u[j] = t[j]
  BY Longer
<1>2. n + 2 - 2 * MaxAttempts >= 1 => x - t[n + 2 - 2 * MaxAttempts] > WindowMs
  OBVIOUS
<1>3. \A m \in 1 .. n : m >= 2 * MaxAttempts => t[m] - t[m - 2 * MaxAttempts + 1] > WindowMs
  BY DEF Slack
<1> HIDE DEF u, n
<1>4. ASSUME NEW m \in 1 .. n + 1, m >= 2 * MaxAttempts
      PROVE  u[m] - u[m - 2 * MaxAttempts + 1] > WindowMs
  <2>1. m - 2 * MaxAttempts + 1 \in 1 .. n
    BY <1>1, <1>4
  <2>2. u[m - 2 * MaxAttempts + 1] = t[m - 2 * MaxAttempts + 1]
    BY <1>1, <2>1
  <2>3. CASE m \in 1 .. n
    BY <1>1, <1>3, <1>4, <2>2, <2>3
  <2>4. CASE m = n + 1
    <3>1. m - 2 * MaxAttempts + 1 = n + 2 - 2 * MaxAttempts /\ n + 2 - 2 * MaxAttempts >= 1
      BY <1>1, <2>1, <2>4
    <3> QED
      BY <1>1, <1>2, <2>2, <2>4, <3>1
  <2> QED
    BY <1>1, <2>3, <2>4
<1> QED
  BY <1>1, <1>4 DEF Slack, u

\* An attempt within the window keeps its beginning.
LEMMA CountedWindow ==
    ASSUME NEW e \in Entry, NEW t \in Seq(Nat), clock \in Nat, WindowOf(e, t), Slack(t),
           ~Exceeded(e)
    PROVE  WindowOf(Counted(e), Append(t, clock)) /\ Slack(Append(t, clock))
<1> USE NetworkAssumption
<1> DEFINE u == Append(t, clock)
           n == Len(t)
           k == e.AttemptCount
           b == n - k + 1
<1>1. k \in 1 .. MaxAttempts - 1 /\ LetInNow(e) = k /\ LetInNow(Counted(e)) = k + 1
      /\ Counted(e).FirstAttemptMs = e.FirstAttemptMs
  BY DEF Exceeded, Entry, LetInNow, Counted
<1>2. /\ n \in Nat /\ Len(u) = n + 1 /\ u[n + 1] = clock
      /\ \A j \in 1 .. n : u[j] = t[j] /\ t[j] \in Nat
  BY Longer
<1>3. /\ b \in 1 .. n
      /\ \A j \in 1 .. n : t[j] <= clock
      /\ \A j, l \in 1 .. n : j <= l => t[j] <= t[l]
      /\ e.FirstAttemptMs = t[b] % TickWrap
      /\ b - MaxAttempts >= 1 => t[b] - t[b - MaxAttempts] > WindowMs
  BY <1>1 DEF WindowOf
<1>9. /\ \A j \in 1 .. n + 1 : u[j] <= clock
      /\ \A j, l \in 1 .. n + 1 : j <= l => u[j] <= u[l]
  BY <1>3, LongerSorted
<1>10. (n + 2 - 2 * MaxAttempts >= 1 => clock - t[n + 2 - 2 * MaxAttempts] > WindowMs) => Slack(u)
  BY LongerSlack
<1> HIDE DEF u, n, k
<1>4. (n + 1) - (k + 1) + 1 = b
  BY <1>1, <1>2
<1>5. /\ b \in 1 .. n + 1
      /\ e.FirstAttemptMs = u[b] % TickWrap
      /\ b - MaxAttempts >= 1 => u[b] - u[b - MaxAttempts] > WindowMs
  <2>1. u[b] = t[b] /\ (b - MaxAttempts >= 1 => u[b - MaxAttempts] = t[b - MaxAttempts])
    BY <1>1, <1>2, <1>3
  <2> QED
    BY <1>2, <1>3, <2>1
<1>6. WindowOf(Counted(e), u)
  BY <1>1, <1>2, <1>4, <1>5, <1>9 DEF WindowOf
<1>7. ASSUME n + 2 - 2 * MaxAttempts >= 1 PROVE clock - t[n + 2 - 2 * MaxAttempts] > WindowMs
  <2>1. /\ n + 2 - 2 * MaxAttempts \in 1 .. n /\ b - MaxAttempts \in 1 .. n
        /\ n + 2 - 2 * MaxAttempts <= b - MaxAttempts
    BY <1>1, <1>2, <1>3, <1>7
  <2> DEFINE j == n + 2 - 2 * MaxAttempts
             l == b - MaxAttempts
  <2>2. l >= 1
    BY <1>1, <1>2, <2>1
  <2> HIDE DEF j, l
  <2>3. t[j] <= t[l]
    BY <1>3, <2>1 DEF j, l
  <2>4. t[b] - t[l] > WindowMs
    BY <1>3, <2>2 DEF l
  <2>5. t[b] <= clock /\ t[j] \in Nat /\ t[b] \in Nat /\ t[l] \in Nat
    BY <1>2, <1>3, <2>1 DEF j, l
  <2>6. clock - t[j] > WindowMs
    BY <2>3, <2>4, <2>5, SMTT(30)
  <2> QED
    BY <2>6 DEF j
<1> QED
  BY <1>6, <1>7, <1>10 DEF u

\* A new window begins more than WindowMs after the old one.
LEMMA NextWindow ==
    ASSUME NEW e \in Entry, NEW t \in Seq(Nat), clock \in Nat, WindowOf(e, t), Slack(t),
           WindowOver(e)
    PROVE  WindowOf(NewWindow, Append(t, clock)) /\ Slack(Append(t, clock))
<1> USE NetworkAssumption
<1> DEFINE u == Append(t, clock)
           n == Len(t)
           k == LetInNow(e)
           b == n - k + 1
<1>1. k \in 1 .. MaxAttempts /\ LetInNow(NewWindow) = 1
      /\ NewWindow.FirstAttemptMs = clock % TickWrap
  BY DEF Entry, LetInNow, NewWindow, GetTickCount
<1>2. /\ n \in Nat /\ Len(u) = n + 1 /\ u[n + 1] = clock
      /\ \A j \in 1 .. n : u[j] = t[j] /\ t[j] \in Nat
  BY Longer
<1>3. /\ b \in 1 .. n
      /\ \A j \in 1 .. n : t[j] <= clock
      /\ \A j, l \in 1 .. n : j <= l => t[j] <= t[l]
      /\ e.FirstAttemptMs = t[b] % TickWrap
  BY DEF WindowOf
<1>6. /\ \A j \in 1 .. n + 1 : u[j] <= clock
      /\ \A j, l \in 1 .. n + 1 : j <= l => u[j] <= u[l]
  BY <1>3, LongerSorted
<1>10. (n + 2 - 2 * MaxAttempts >= 1 => clock - t[n + 2 - 2 * MaxAttempts] > WindowMs) => Slack(u)
  BY LongerSlack
<1> HIDE DEF u, n, k
<1>4. clock - t[b] > WindowMs
  <2>1. t[b] \in Nat /\ t[b] <= clock
    BY <1>2, <1>3
  <2>2. Elapsed(clock % TickWrap, t[b] % TickWrap) <= clock - t[b]
    BY <2>1, ElapsedBelow
  <2>3. Elapsed(clock % TickWrap, t[b] % TickWrap) > WindowMs
    BY <1>3 DEF WindowOver, GetTickCount
  <2>4. Elapsed(clock % TickWrap, t[b] % TickWrap) \in Int
    BY <2>1 DEF Elapsed
  <2> QED
    BY <2>1, <2>2, <2>3, <2>4, SMTT(30)
<1>5. ASSUME NEW j \in 1 .. n, j <= b PROVE clock - t[j] > WindowMs
  <2>1. t[j] <= t[b] /\ t[j] \in Nat /\ t[b] \in Nat
    BY <1>2, <1>3, <1>5
  <2> QED
    BY <1>4, <2>1
<1>7. ASSUME n + 1 - MaxAttempts >= 1 PROVE clock - u[n + 1 - MaxAttempts] > WindowMs
  <2>1. n + 1 - MaxAttempts \in 1 .. n /\ n + 1 - MaxAttempts <= b
    BY <1>1, <1>2, <1>7
  <2> QED
    BY <1>2, <1>5, <2>1
<1>8. WindowOf(NewWindow, u)
  <2>1. n + 1 - 1 + 1 = n + 1 /\ n + 1 \in 1 .. n + 1
    BY <1>2
  <2> QED
    BY <1>1, <1>2, <1>6, <1>7, <2>1 DEF WindowOf
<1>9. ASSUME n + 2 - 2 * MaxAttempts >= 1 PROVE clock - t[n + 2 - 2 * MaxAttempts] > WindowMs
  <2>1. n + 2 - 2 * MaxAttempts \in 1 .. n /\ n + 2 - 2 * MaxAttempts <= b
    BY <1>1, <1>2, <1>9
  <2> QED
    BY <1>5, <2>1
<1> QED
  BY <1>8, <1>9, <1>10 DEF u

\* The first window of an address.
LEMMA FirstWindow ==
    ASSUME clock \in Nat
    PROVE  WindowOf(NewWindow, Append(<<>>, clock)) /\ Slack(Append(<<>>, clock))
<1> USE NetworkAssumption
<1>1. LetInNow(NewWindow) = 1 /\ NewWindow.FirstAttemptMs = clock % TickWrap
  BY DEF LetInNow, NewWindow, GetTickCount
<1>2. Append(<<>>, clock) = <<clock>> /\ Len(<<clock>>) = 1 /\ <<clock>>[1] = clock
  OBVIOUS
<1> QED
  BY <1>1, <1>2 DEF WindowOf, Slack

\* A block does not move the window.
LEMMA BlockedWindow ==
    ASSUME TypeOK, NEW e \in Entry, NEW t \in Seq(Nat), WindowOf(e, t), Exceeded(e)
    PROVE  WindowOf(BlockedEntry(e), t)
<1>1. LetInNow(e) = MaxAttempts /\ LetInNow(BlockedEntry(e)) = MaxAttempts
      /\ BlockedEntry(e).FirstAttemptMs = e.FirstAttemptMs
  BY NetworkAssumption DEF Entry, Exceeded, LetInNow, BlockedEntry
<1> QED
  BY <1>1 DEF WindowOf

\* An attempt keeps the windows of all addresses.
LEMMA WindowCheck == TypeOK /\ WindowInv /\ CheckRateLimit => WindowInv'
<1> SUFFICES ASSUME TypeOK, WindowInv, CheckRateLimit PROVE WindowInv'
  OBVIOUS
<1> USE NetworkAssumption, EntryAssumption
<1> DEFINE a == acceptor.ip
           e == m_rateLimits[a]
           t == admitted[a]
<1>1. a \in Ip /\ clock' = clock /\ clock \in Nat /\ t \in Seq(Nat) /\ (e = Nobody \/ e \in Entry)
  BY AcceptorHolds DEF CheckRateLimit, TypeOK
<1>2. /\ e = Nobody => t = <<>>
      /\ e # Nobody => WindowOf(e, t)
      /\ Slack(t)
  BY <1>1 DEF WindowInv
<1>3. ASSUME NEW x, NEW u, x # Nobody, WindowOf(x, u), Slack(u), m_rateLimits'[a] = x,
             admitted'[a] = u,
             \A i \in Ip \ {a} : m_rateLimits'[i] = m_rateLimits[i] /\ admitted'[i] = admitted[i]
      PROVE  WindowInv'
  BY <1>1, <1>3, ZenonT(60) DEF WindowInv, WindowOf, Slack
<1>4. ASSUME NEW x \in Entry, LetIn(x), WindowOf(x, Append(t, clock)), Slack(Append(t, clock))
      PROVE  WindowInv'
  BY <1>1, <1>3, <1>4 DEF LetIn, TypeOK
<1>5. ASSUME NEW x \in Entry, NEW when, Refuse(x, when), WindowOf(x, t) PROVE WindowInv'
  BY <1>1, <1>2, <1>3, <1>5 DEF Refuse, TypeOK
<1>6. NewWindow \in Entry
  BY TickNow DEF NewWindow, Entry, Tick
<1>7. CASE e = Nobody /\ LetIn(NewWindow)
  BY <1>1, <1>2, <1>4, <1>6, <1>7, FirstWindow
<1>8. CASE e # Nobody /\ Refuse(e, offence[a])
  BY <1>1, <1>2, <1>5, <1>8
<1>9. CASE e # Nobody /\ WindowOver(e) /\ LetIn(NewWindow)
  BY <1>1, <1>2, <1>4, <1>6, <1>9, NextWindow
<1>10. CASE e # Nobody /\ Exceeded(e) /\ Refuse(BlockedEntry(e), clock)
  BY <1>1, <1>2, <1>5, <1>10, BlockedWindow, EntryBlocked
<1>11. CASE e # Nobody /\ ~Exceeded(e) /\ LetIn(Counted(e))
  <2>1. Counted(e) \in Entry
    BY <1>1, <1>11, EntryCounted
  <2> QED
    BY <1>1, <1>2, <1>4, <1>11, <2>1, CountedWindow
<1> QED
  BY <1>7, <1>8, <1>9, <1>10, <1>11 DEF CheckRateLimit

\* Every step keeps the windows.
LEMMA WindowStep == TypeOK /\ WindowInv /\ [Next]_vars => WindowInv'
<1> SUFFICES ASSUME TypeOK, WindowInv, [Next]_vars PROVE WindowInv'
  OBVIOUS
<1>1. CASE UNCHANGED rateVars /\ (clock' = clock \/ clock' = clock + 1)
  <2>1. clock \in Nat /\ clock' \in Nat /\ clock <= clock'
    BY <1>1 DEF TypeOK
  <2>2. ASSUME NEW i \in Ip, WindowOf(m_rateLimits[i], admitted[i])
        PROVE  WindowOf(m_rateLimits[i], admitted[i])'
    <3>1. \A j \in 1 .. Len(admitted[i]) : admitted[i][j] \in Nat
      BY DEF TypeOK
    <3>2. \A j \in 1 .. Len(admitted[i]) : admitted[i][j] <= clock'
      BY <2>1, <2>2, <3>1 DEF WindowOf
    <3> QED
      BY <1>1, <2>2, <3>2 DEF rateVars, WindowOf, LetInNow
  <2> QED
    BY <1>1, <2>2 DEF rateVars, WindowInv, Slack
<1> QED
  BY <1>1, OtherSteps, WindowCheck

\* The fixed window lets an address in at most 2 * MaxAttempts - 1 times in any
\* stretch of WindowMs, for every limit, every window and across the wrap of the
\* tick counter.
THEOREM AdmissionsBounded == Spec => []WindowSlack
<1>1. Init => WindowInv
  <2> SUFFICES ASSUME Init, NEW i \in Ip
               PROVE  m_rateLimits[i] = Nobody /\ admitted[i] = <<>> /\ Slack(admitted[i])
    BY DEF WindowInv
  <2>1. Len(<<>>) = 0
    OBVIOUS
  <2> QED
    BY <2>1 DEF Init, Slack
<1>2. TypeOK /\ WindowInv => WindowSlack
  <2> SUFFICES ASSUME TypeOK, WindowInv, NEW i \in Ip PROVE
               \A n \in DOMAIN admitted[i] :
                   n >= 2 * MaxAttempts =>
                       admitted[i][n] - admitted[i][n - 2 * MaxAttempts + 1] > WindowMs
    BY DEF WindowSlack
  <2>1. DOMAIN admitted[i] = 1 .. Len(admitted[i]) /\ Slack(admitted[i])
    BY DEF TypeOK, WindowInv
  <2> QED
    BY <2>1 DEF Slack
<1> QED
  BY <1>1, <1>2, WindowStep, TypeCorrect, PTL DEF Spec
=============================================================================
