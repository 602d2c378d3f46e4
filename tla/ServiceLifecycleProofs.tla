----------------------- MODULE ServiceLifecycleProofs -----------------------
(***************************************************************************)
(* For any number of pipe handles and overlapping searches: no pipe handle *)
(* is lost between the worker and Stop, a service that reports STOPPED is  *)
(* down, HandleIpcMessage's tests of the shared pointers fail it only      *)
(* during a stop, and the PC announces itself only while it serves.        *)
(***************************************************************************)
EXTENDS ServiceLifecycle, TLAPS

\* The bound on overlapping searches is kept by their binds and timers together.
SearchesCounted == binding + stopTimers <= MaxSearches

TypeInv == TypeOK /\ SearchesCounted

\* The initial state is well typed.
LEMMA TypeInit == Init => TypeInv
<1> SUFFICES ASSUME Init PROVE TypeInv
  OBVIOUS
<1>1. binding \in 0..MaxSearches /\ stopTimers \in 0..MaxSearches /\ SearchesCounted
  BY DiscoveryAssumption DEF Init, SearchesCounted
<1>2. listener \in [at : {"NONE", "TEST", "RECV", "SEND"}, state : PcState \cup {NoState}]
  BY DEF Init, NoListener
<1>3. lostSockets \in 0..MaxLost
  BY DiscoveryAssumption DEF Init
<1> QED
  BY <1>1, <1>2, <1>3
     DEF Init, TypeInv, TypeOK, Step, StartStep, StopStep, LoopPosition, HandlerPosition,
         PcState

\* The start leaves everything well typed.
LEMMA StartTyped == TypeInv /\ Start => TypeInv'
<1> SUFFICES ASSUME TypeOK, SearchesCounted, Start PROVE TypeOK' /\ SearchesCounted'
  BY DEF TypeInv
<1> USE DEF At, Step, StartStep, StopStep, serverVars, ipcVars, pipeVars, discoveryVars,
            responderVars, finderVars, SearchesCounted
<1>1. ASSUME NEW ok \in BOOLEAN, ServiceMain(ok) PROVE TypeOK' /\ SearchesCounted'
  BY <1>1 DEF ServiceMain, TypeOK
<1>2. ASSUME NEW ok \in BOOLEAN, StartIpc(ok) PROVE TypeOK' /\ SearchesCounted'
  BY <1>2 DEF StartIpc, StartServer, LoopPosition, TypeOK
<1>3. ASSUME NEW ok \in BOOLEAN, StartEngine(ok) PROVE TypeOK' /\ SearchesCounted'
  BY <1>3 DEF StartEngine, TypeOK
<1>4. ASSUME NEW bound \in BOOLEAN, NEW created \in BOOLEAN, StartMdns(bound, created)
      PROVE  TypeOK' /\ SearchesCounted'
  <2>1. listener' \in [at : {"NONE", "TEST", "RECV", "SEND"}, state : PcState \cup {NoState}]
    BY <1>4 DEF StartMdns, StartResponder, ListenerGoes, TypeOK
  <2> QED
    BY <1>4, <2>1 DEF StartMdns, StartResponder, PcState, TypeOK
<1>5. CASE StoreOnline
  BY <1>5 DEF StoreOnline, PcState, TypeOK
<1>6. CASE PublishOnline
  BY <1>6 DEF PublishOnline, PcState, TypeOK
<1>7. CASE ReportRunning
  BY <1>7 DEF ReportRunning, TypeOK
<1> QED
  BY <1>1, <1>2, <1>3, <1>4, <1>5, <1>6, <1>7 DEF Start

\* So does the stop.
LEMMA StopTyped == TypeInv /\ (ControlStop \/ Stop) => TypeInv'
<1> SUFFICES ASSUME TypeOK, SearchesCounted, ControlStop \/ Stop
             PROVE  TypeOK' /\ SearchesCounted'
  BY DEF TypeInv
<1> USE DEF At, Step, StartStep, StopStep, serverVars, ipcVars, pipeVars, discoveryVars,
            responderVars, finderVars, SearchesCounted
<1>1. CASE ControlStop
  BY <1>1 DEF ControlStop, TypeOK
<1>2. CASE StopMdns
  <2>1. mdnsRunning' \in BOOLEAN /\ udpSocket' \in BOOLEAN
    BY <1>2 DEF StopMdns, CloseResponder
  <2> QED
    BY <1>2, <2>1 DEF StopMdns, CloseResponder, TypeOK
<1>3. CASE ResetMdns
  BY <1>3 DEF ResetMdns, DeleteResponder, TypeOK
<1>4. CASE StopEngine
  BY <1>4 DEF StopEngine, TypeOK
<1>5. CASE StopIpc
  <2>1. /\ step' \in Step
        /\ ipcServer' \in {"NULL", "SET", "DELETED"}
        /\ ipcRunning' \in BOOLEAN /\ ipcConnected' \in BOOLEAN /\ hWorkerThread' \in BOOLEAN
    BY <1>5 DEF StopIpc, ClearFlags, CloseFound, ForgetFound, CancelIo, WaitForWorker,
                DeleteServer, TypeOK
  <2>2. hPipe' \in Pipe \cup {NoPipe} /\ pipes' \in SUBSET Pipe
    BY <1>5 DEF StopIpc, ClearFlags, CloseFound, ForgetFound, CancelIo, WaitForWorker,
                DeleteServer, TypeOK
  <2>3. worker' \in LoopPosition \cup HandlerPosition
    BY <1>5 DEF StopIpc, ClearFlags, CloseFound, ForgetFound, CancelIo, WaitForWorker,
                DeleteServer, TypeOK, LoopPosition
  <2> QED
    BY <1>5, <2>1, <2>2, <2>3 DEF StopIpc, TypeOK
<1>6. CASE ReportStopped
  <2>1. isRunning' \in BOOLEAN
    BY <1>6 DEF ReportStopped
  <2> QED
    BY <1>6, <2>1 DEF ReportStopped, PcState, TypeOK
<1> QED
  BY <1>1, <1>2, <1>3, <1>4, <1>5, <1>6 DEF Stop

\* So does the worker.
LEMMA WorkerTyped == TypeInv /\ Worker => TypeInv'
<1> SUFFICES ASSUME TypeOK, SearchesCounted, Worker PROVE TypeOK' /\ SearchesCounted'
  BY DEF TypeInv
<1> USE DEF WorkerGoes, LoopPosition, HandlerPosition, serviceVars, ipcVars, pipeVars,
            discoveryVars, responderVars, finderVars, SearchesCounted
<1>1. CASE (WorkerStep \/ ClientStep) /\ UNCHANGED <<serviceVars, discoveryVars>>
  <2>1. /\ worker' \in LoopPosition \cup HandlerPosition
        /\ ipcConnected' \in BOOLEAN
        /\ UNCHANGED <<ipcServer, ipcRunning, hWorkerThread>>
    BY <1>1 DEF WorkerStep, ClientStep, TestRunning, CreatePipe, CreateFails, ConnectPipe,
                ConnectBreaks, Admit, Receive, StopServing, ClientGone, ClosePipe, ForgetPipe,
                TypeOK
  <2>2. hPipe' \in Pipe \cup {NoPipe} /\ pipes' \in SUBSET Pipe
    BY <1>1 DEF WorkerStep, ClientStep, TestRunning, CreatePipe, CreateFails, ConnectPipe,
                ConnectBreaks, Admit, Receive, StopServing, ClientGone, ClosePipe, ForgetPipe,
                TypeOK
  <2> QED
    BY <1>1, <2>1, <2>2 DEF TypeOK
<1>2. CASE TestEngine
  BY <1>2 DEF TestEngine, TypeOK
<1>3. CASE CallEngine
  BY <1>3 DEF CallEngine, TypeOK
<1>4. CASE StoreLocked
  BY <1>4 DEF StoreLocked, PcState, TypeOK
<1>5. CASE TestResponder
  BY <1>5 DEF TestResponder, TypeOK
<1>6. CASE CallResponder
  BY <1>6 DEF CallResponder, PcState, TypeOK
<1> QED
  BY <1>1, <1>2, <1>3, <1>4, <1>5, <1>6 DEF Worker, HandlerStep

\* So do the responder's listener and the phone's search.
LEMMA DiscoveryTyped ==
    TypeInv /\ (ListenerStep \/ FinderStep) /\ UNCHANGED <<serviceVars, serverVars>> => TypeInv'
<1> SUFFICES ASSUME TypeOK, SearchesCounted, ListenerStep \/ FinderStep,
                    UNCHANGED <<serviceVars, serverVars>>
             PROVE  TypeOK' /\ SearchesCounted'
  BY DEF TypeInv
<1> USE DEF serviceVars, serverVars, ipcVars, pipeVars, responderVars, finderVars,
            SearchesCounted
<1>1. CASE ListenerStep
  <2>1. listener' \in [at : {"NONE", "TEST", "RECV", "SEND"}, state : PcState \cup {NoState}]
    BY <1>1 DEF ListenerStep, TestListening, ReceiveQuery, ReceiveNothing, SendAnswer,
                ListenerGoes, TypeOK
  <2>2. answer' \in PcState \cup {NoState} /\ UNCHANGED <<responderVars, finderVars>>
    BY <1>1 DEF ListenerStep, TestListening, ReceiveQuery, ReceiveNothing, SendAnswer, TypeOK
  <2> QED
    BY <2>1, <2>2 DEF TypeOK
<1>2. CASE FinderStep
  <2>1. /\ binding' \in 0..MaxSearches
        /\ stopTimers' \in 0..MaxSearches
        /\ SearchesCounted'
    BY <1>2, DiscoveryAssumption
       DEF FinderStep, StartDiscovery, BindReturns, BindFails, SearchTimeout, UserStopsSearch,
           ShowAnswer, TypeOK
  <2>2. /\ isSearching' \in BOOLEAN /\ searchSocket' \in BOOLEAN
        /\ answer' \in PcState \cup {NoState}
        /\ UNCHANGED <<responderVars, listener>>
    BY <1>2 DEF FinderStep, StartDiscovery, BindReturns, BindFails, SearchTimeout,
                UserStopsSearch, ShowAnswer, StopDiscovery, SetSocket, TypeOK
  <2>3. overtaken' \in BOOLEAN
    BY <1>2 DEF FinderStep, StartDiscovery, BindReturns, BindFails, SearchTimeout,
                UserStopsSearch, ShowAnswer, StopDiscovery, TypeOK
  <2>4. lostSockets' \in 0..MaxLost
    BY <1>2, DiscoveryAssumption
       DEF FinderStep, StartDiscovery, BindReturns, BindFails, SearchTimeout, UserStopsSearch,
           ShowAnswer, StopDiscovery, SetSocket, TypeOK
  <2> QED
    BY <2>1, <2>2, <2>3, <2>4 DEF TypeOK
<1> QED
  BY <1>1, <1>2

\* Every step keeps the state well typed.
LEMMA TypeStep == TypeInv /\ [Next]_vars => TypeInv'
<1> SUFFICES ASSUME TypeInv, [Next]_vars PROVE TypeInv'
  OBVIOUS
<1>1. CASE UNCHANGED vars
  BY <1>1 DEF vars, serviceVars, serverVars, ipcVars, pipeVars, discoveryVars, responderVars,
              finderVars, TypeInv, TypeOK, SearchesCounted
<1> QED
  BY <1>1, StartTyped, StopTyped, WorkerTyped, DiscoveryTyped DEF Next

\* The state of every component keeps its type.
LEMMA TypeInvHolds == Spec => []TypeInv
BY TypeInit, TypeStep, PTL DEF Spec

\* The service, its pipe server, the responder and the phone's search are well typed
\* in every reachable state; the search's counters stay within their bound.
THEOREM TypeCorrect == Spec => []TypeOK
BY TypeInvHolds, PTL DEF TypeInv

-----------------------------------------------------------------------------
(* What is up at which step of the start and the stop.                     *)

\* The steps at which m_networkEngine is started, and those from which the pipe
\* server's flags are cleared.
EngineUp == {"RESPONDER", "ONLINE", "PUBLISH", "RUN", "STEADY", "CLOSE_RESPONDER",
             "DELETE_RESPONDER", "STOP_ENGINE"}

ServerStopping == {"CLOSE_PIPE", "FORGET_PIPE", "CANCEL", "WAIT", "DELETE", "OFFLINE", "DONE"}

\* The parts and the report follow the steps; a stop finds m_isRunning set.
PartsByStep ==
    /\ engine = "RUNNING" <=> step \in EngineUp
    /\ engine = "SET" => step = "FAILED"
    /\ responder = "SET" <=> step \in EngineUp \ {"RESPONDER", "STOP_ENGINE"}
    /\ udpSocket => step \in EngineUp \ {"RESPONDER", "DELETE_RESPONDER", "STOP_ENGINE"}
    /\ reported = "STOPPED" => step \in {"BEGIN", "FAILED", "DONE"}
    /\ step = "STEADY" => isRunning

\* Nothing is up before the start.
LEMMA PartsInit == Init => PartsByStep
BY DEF Init, PartsByStep, EngineUp

\* The worker, the listener and the phone leave the service's steps and parts alone.
LEMMA OthersKeepParts ==
    ASSUME \/ Worker
           \/ ListenerStep /\ UNCHANGED <<serviceVars, serverVars>>
           \/ FinderStep /\ UNCHANGED <<serviceVars, serverVars>>
           \/ UNCHANGED vars
    PROVE  UNCHANGED <<engine, step, responder, udpSocket, reported, isRunning>>
<1> USE DEF vars, serviceVars, discoveryVars, responderVars
<1>1. CASE Worker
  BY <1>1 DEF Worker, HandlerStep, TestEngine, CallEngine, StoreLocked, TestResponder,
              CallResponder
<1>2. CASE ListenerStep /\ UNCHANGED <<serviceVars, serverVars>>
  BY <1>2 DEF ListenerStep, TestListening, ReceiveQuery, ReceiveNothing, SendAnswer
<1>3. CASE FinderStep /\ UNCHANGED <<serviceVars, serverVars>>
  BY <1>3 DEF FinderStep, StartDiscovery, BindReturns, BindFails, SearchTimeout,
              UserStopsSearch, ShowAnswer
<1> QED
  BY <1>1, <1>2, <1>3

\* Every step of the service brings its parts to where the next step expects them.
LEMMA PartsStep == TypeOK /\ PartsByStep /\ [Next]_vars => PartsByStep'
<1> SUFFICES ASSUME TypeOK, PartsByStep, [Next]_vars PROVE PartsByStep'
  OBVIOUS
<1> USE DEF At, EngineUp, discoveryVars, responderVars
<1>1. CASE \/ Worker
           \/ ListenerStep /\ UNCHANGED <<serviceVars, serverVars>>
           \/ FinderStep /\ UNCHANGED <<serviceVars, serverVars>>
           \/ UNCHANGED vars
  BY <1>1, OthersKeepParts DEF PartsByStep
<1>2. CASE Start
  <2>1. ASSUME NEW ok \in BOOLEAN, ServiceMain(ok) \/ StartIpc(ok) \/ StartEngine(ok)
        PROVE  PartsByStep'
    BY <2>1 DEF ServiceMain, StartIpc, StartEngine, PartsByStep
  <2>2. ASSUME NEW bound \in BOOLEAN, NEW created \in BOOLEAN, StartMdns(bound, created)
        PROVE  PartsByStep'
    BY <2>2 DEF StartMdns, StartResponder, PartsByStep
  <2>3. CASE StoreOnline \/ PublishOnline \/ ReportRunning
    BY <2>3 DEF StoreOnline, PublishOnline, ReportRunning, PartsByStep
  <2> QED
    BY <1>2, <2>1, <2>2, <2>3 DEF Start
<1>3. CASE ControlStop
  BY <1>3 DEF ControlStop, PartsByStep
<1>4. CASE StopMdns \/ ResetMdns
  BY <1>4 DEF StopMdns, CloseResponder, ResetMdns, DeleteResponder, PartsByStep, TypeOK
<1>5. CASE StopEngine
  BY <1>5 DEF StopEngine, PartsByStep, TypeOK
<1>6. CASE StopIpc
  BY <1>6 DEF StopIpc, PartsByStep
<1>7. CASE ReportStopped
  BY <1>7 DEF ReportStopped, PartsByStep
<1> QED
  BY <1>1, <1>2, <1>3, <1>4, <1>5, <1>6, <1>7 DEF Next, Stop

\* In every reachable state the parts are where the step says.
LEMMA PartsHold == Spec => []PartsByStep
BY PartsInit, PartsStep, TypeCorrect, PTL DEF Spec

\* The PC announces itself only while its engine serves the announced port: an answer
\* leaves through an open socket of a responder that is there.
THEOREM AnnouncementsServed == Spec => AnnouncedIsServed
<1>1. PartsByStep /\ [Next]_vars => [answer' \in {answer, NoState} \/ engine = "RUNNING"]_vars
  <2> SUFFICES ASSUME PartsByStep, Next, answer' \notin {answer, NoState}
               PROVE  engine = "RUNNING"
    OBVIOUS
  <2> USE DEF discoveryVars
  <2>1. CASE Start \/ ControlStop \/ Stop
    BY <2>1 DEF Start, ServiceMain, StartIpc, StartEngine, StartMdns, StoreOnline,
                PublishOnline, ReportRunning, ControlStop, Stop, StopMdns, ResetMdns,
                StopEngine, StopIpc, ReportStopped
  <2>2. CASE Worker
    BY <2>2 DEF Worker, HandlerStep, TestEngine, CallEngine, StoreLocked, TestResponder,
                CallResponder
  <2>3. CASE ListenerStep
    BY <2>3 DEF ListenerStep, TestListening, ReceiveQuery, ReceiveNothing, SendAnswer,
                ListenerAt, PartsByStep, EngineUp
  <2>4. CASE FinderStep
    BY <2>4 DEF FinderStep, StartDiscovery, BindReturns, BindFails, SearchTimeout,
                UserStopsSearch, ShowAnswer
  <2> QED
    BY <2>1, <2>2, <2>3, <2>4 DEF Next
<1> QED
  BY <1>1, PartsHold, PTL DEF Spec, AnnouncedIsServed

-----------------------------------------------------------------------------
(* The pipe handle, which the worker and Stop both read, close and reset.  *)

\* Where the worker is tells what it still holds.
PipeByWorker ==
    /\ worker \in {"NONE", "TEST", "CREATE"} => pipes = {} /\ hPipe = NoPipe
    /\ worker = "FORGET" => pipes = {}

\* So does the step of the service: there is no worker before the server is started,
\* no second round once its flag is cleared, and no pipe behind the destructor.
ServerByStep ==
    /\ (step \in {"BEGIN", "IPC"} \/ (step = "FAILED" /\ engine = "NULL")) => worker = "NONE"
    /\ step \in ServerStopping => ~ipcRunning
    /\ step = "FORGET_PIPE" => pipes = {} /\ worker # "CREATE"
    /\ step \in {"OFFLINE", "DONE"} => pipes = {} /\ ipcServer = "DELETED"

PipeInv == NoPipeLeaks /\ PipeByWorker /\ ServerByStep

\* Initially there is no worker and no pipe.
LEMMA PipeInit == Init => PipeInv
BY DEF Init, PipeInv, NoPipeLeaks, PipeByWorker, ServerByStep, ServerStopping

\* A step that leaves the server alone and does not bring the service to another
\* phase of its stop.
LEMMA PipeKept ==
    ASSUME PipeInv, UNCHANGED <<worker, hPipe, pipes, ipcRunning, ipcServer, step, engine>>
    PROVE  PipeInv'
BY DEF PipeInv, NoPipeLeaks, PipeByWorker, ServerByStep

\* The start leaves every pipe to the worker.
LEMMA StartKeepsPipe == TypeOK /\ PartsByStep /\ PipeInv /\ Start => PipeInv'
<1> SUFFICES ASSUME TypeOK, PartsByStep, PipeInv, Start PROVE PipeInv'
  OBVIOUS
<1> USE DEF At, PipeInv, NoPipeLeaks, PipeByWorker, ServerByStep, ServerStopping, serverVars,
            ipcVars, pipeVars
<1>1. ASSUME NEW ok \in BOOLEAN, ServiceMain(ok) PROVE PipeInv'
  BY <1>1 DEF ServiceMain
<1>2. ASSUME NEW ok \in BOOLEAN, StartIpc(ok) PROVE PipeInv'
  BY <1>2 DEF StartIpc, StartServer
<1>3. ASSUME NEW ok \in BOOLEAN, StartEngine(ok) PROVE PipeInv'
  BY <1>3 DEF StartEngine
<1>4. ASSUME NEW bound \in BOOLEAN, NEW created \in BOOLEAN, StartMdns(bound, created)
      PROVE  PipeInv'
  BY <1>4 DEF StartMdns
<1>5. CASE StoreOnline \/ PublishOnline \/ ReportRunning
  BY <1>5 DEF StoreOnline, PublishOnline, ReportRunning
<1> QED
  BY <1>1, <1>2, <1>3, <1>4, <1>5 DEF Start

\* Stop closes what it finds in m_hPipe and forgets only what is closed; the worker
\* cannot have opened another pipe in between, since it does not come round again.
LEMMA StopKeepsPipe == TypeOK /\ PartsByStep /\ PipeInv /\ (ControlStop \/ Stop) => PipeInv'
<1> SUFFICES ASSUME TypeOK, PartsByStep, PipeInv, ControlStop \/ Stop PROVE PipeInv'
  OBVIOUS
<1> USE DEF At, PipeInv, NoPipeLeaks, PipeByWorker, ServerByStep, ServerStopping, serverVars,
            ipcVars, pipeVars
<1>1. CASE ControlStop
  BY <1>1 DEF ControlStop, PartsByStep
<1>2. CASE StopMdns \/ ResetMdns \/ StopEngine
  BY <1>2 DEF StopMdns, ResetMdns, StopEngine
<1>3. CASE StopIpc
  <2>1. CASE At("CLEAR", "CLOSE_PIPE") /\ ClearFlags
    BY <2>1 DEF ClearFlags
  <2>2. CASE At("CLOSE_PIPE", IF hPipe # NoPipe THEN "FORGET_PIPE" ELSE "CANCEL") /\ CloseFound
    BY <2>2 DEF CloseFound
  <2>3. CASE At("FORGET_PIPE", "CANCEL") /\ ForgetFound
    BY <2>3 DEF ForgetFound
  <2>4. CASE At("CANCEL", "WAIT") /\ CancelIo
    BY <2>4 DEF CancelIo
  <2>5. CASE At("WAIT", "DELETE") /\ WaitForWorker
    BY <2>5 DEF WaitForWorker
  <2>6. CASE At("DELETE", "OFFLINE") /\ DeleteServer
    BY <2>6 DEF DeleteServer
  <2> QED
    BY <1>3, <2>1, <2>2, <2>3, <2>4, <2>5, <2>6 DEF StopIpc
<1>4. CASE ReportStopped
  BY <1>4 DEF ReportStopped
<1> QED
  BY <1>1, <1>2, <1>3, <1>4 DEF Stop

\* The worker opens a pipe when it has none, and closes it before it forgets it.
LEMMA WorkerKeepsPipe == TypeOK /\ PartsByStep /\ PipeInv /\ Worker => PipeInv'
<1> SUFFICES ASSUME TypeOK, PartsByStep, PipeInv, Worker PROVE PipeInv'
  OBVIOUS
<1> USE DEF WorkerGoes, PipeInv, NoPipeLeaks, PipeByWorker, ServerByStep, ServerStopping,
            serviceVars, ipcVars, pipeVars
<1>1. CASE HandlerStep
  BY <1>1 DEF HandlerStep, TestEngine, CallEngine, StoreLocked, TestResponder, CallResponder,
              Handler
<1>2. CASE WorkerStep /\ UNCHANGED serviceVars
  <2>1. CASE CreatePipe \/ CreateFails
    BY <1>2, <2>1 DEF CreatePipe, CreateFails, WorkerAt
  <2>2. CASE TestRunning \/ Admit \/ StopServing
    BY <1>2, <2>2 DEF TestRunning, Admit, StopServing, WorkerAt
  <2>3. CASE ClosePipe \/ ForgetPipe
    BY <1>2, <2>3 DEF ClosePipe, ForgetPipe, WorkerAt
  <2> QED
    BY <1>2, <2>1, <2>2, <2>3 DEF WorkerStep
<1>3. CASE ClientStep /\ UNCHANGED serviceVars
  BY <1>3 DEF ClientStep, ConnectPipe, ConnectBreaks, Receive, ClientGone, WorkerAt
<1> QED
  BY <1>1, <1>2, <1>3 DEF Worker

\* No step loses a pipe.
LEMMA PipeStep == TypeOK /\ PartsByStep /\ PipeInv /\ [Next]_vars => PipeInv'
<1> SUFFICES ASSUME TypeOK, PartsByStep, PipeInv, [Next]_vars PROVE PipeInv'
  OBVIOUS
<1>1. CASE UNCHANGED vars \/ UNCHANGED <<serviceVars, serverVars>>
  BY <1>1, PipeKept DEF vars, serviceVars, serverVars, ipcVars, pipeVars
<1> QED
  BY <1>1, StartKeepsPipe, StopKeepsPipe, WorkerKeepsPipe DEF Next

\* The pipe's books are right in every reachable state.
LEMMA PipeHolds == Spec => []PipeInv
BY PipeInit, PipeStep, TypeCorrect, PartsHold, PTL DEF Spec

\* No pipe handle is lost, in whatever order the worker and Stop read, close and reset
\* m_hPipe.
THEOREM PipesKept == Spec => []NoPipeLeaks
BY PipeHolds, PTL DEF PipeInv

\* A service that reports STOPPED holds no port, and no pipe unless its start failed
\* half way, although it gives up waiting for its threads.
THEOREM StoppedIsDown == Spec => []StoppedMeansDown
<1>1. TypeOK /\ PartsByStep /\ PipeInv => StoppedMeansDown
  BY DEF TypeOK, PartsByStep, EngineUp, PipeInv, PipeByWorker, ServerByStep, StoppedMeansDown
<1> QED
  BY <1>1, TypeCorrect, PartsHold, PipeHolds, PTL

-----------------------------------------------------------------------------
(* The pointers HandleIpcMessage tests and then uses.                      *)

\* What the handler has tested is still there, unless the service is being stopped.
TestedIsThere ==
    /\ worker = "CALL_ENGINE" => engine # "NULL" \/ step \in StopStep \cup {"DONE"}
    /\ worker = "CALL_RESPONDER" => responder = "SET" \/ step \in StopStep \cup {"DONE"}

CrashInv == TestedIsThere /\ CrashOnlyInStop

\* Initially the handler does not run.
LEMMA CrashInit == Init => CrashInv
BY DEF Init, CrashInv, TestedIsThere, CrashOnlyInStop

\* Before the stop no step takes away what was tested, and after a crash the service
\* takes none.
LEMMA CrashStep == TypeOK /\ PartsByStep /\ CrashInv /\ [Next]_vars => CrashInv'
<1> SUFFICES ASSUME TypeOK, PartsByStep, CrashInv, [Next]_vars PROVE CrashInv'
  OBVIOUS
<1> USE DEF CrashInv, TestedIsThere, CrashOnlyInStop
<1>1. CASE HandlerStep
  <2> USE DEF Handler, WorkerGoes, serviceVars, discoveryVars, responderVars
  <2>1. CASE TestEngine \/ StoreLocked \/ TestResponder
    BY <2>1 DEF TestEngine, StoreLocked, TestResponder
  <2>2. CASE CallEngine
    BY <2>2 DEF CallEngine
  <2>3. CASE CallResponder
    BY <2>3 DEF CallResponder, TypeOK
  <2> QED
    BY <1>1, <2>1, <2>2, <2>3 DEF HandlerStep
<1>2. CASE (WorkerStep \/ ClientStep) /\ UNCHANGED <<serviceVars, discoveryVars>>
  BY <1>2 DEF WorkerStep, ClientStep, TestRunning, CreatePipe, CreateFails, ConnectPipe,
              ConnectBreaks, Admit, Receive, StopServing, ClientGone, ClosePipe, ForgetPipe,
              WorkerGoes, serviceVars, discoveryVars, responderVars
<1>3. CASE Start
  <2>1. worker' \in {worker, "TEST", "NONE"} /\ ~crashed'
    BY <1>3 DEF Start, ServiceMain, StartIpc, StartServer, StartEngine, StartMdns, StoreOnline,
                PublishOnline, ReportRunning, At, serverVars
  <2>2. (engine # "NULL" => engine' # "NULL") /\ (responder = "SET" => responder' = "SET")
    BY <1>3 DEF Start, ServiceMain, StartIpc, StartEngine, StartMdns, StartResponder,
                StoreOnline, PublishOnline, ReportRunning, discoveryVars, responderVars
  <2>3. step \notin StopStep \cup {"DONE"}
    BY <1>3 DEF Start, ServiceMain, StartIpc, StartEngine, StartMdns, StoreOnline,
                PublishOnline, ReportRunning, At, StopStep
  <2> QED
    BY <2>1, <2>2, <2>3
<1>4. CASE ControlStop \/ Stop
  BY <1>4 DEF ControlStop, Stop, StopMdns, ResetMdns, StopEngine, StopIpc, ReportStopped, At,
              StopStep
<1>5. CASE \/ UNCHANGED vars
           \/ (ListenerStep \/ FinderStep) /\ UNCHANGED <<serviceVars, serverVars>>
  <2>1. UNCHANGED <<engine, step, responder>>
    BY <1>5, OthersKeepParts
  <2>2. UNCHANGED <<worker, crashed>>
    BY <1>5 DEF vars, serviceVars, serverVars
  <2> QED
    BY <2>1, <2>2
<1> QED
  BY <1>1, <1>2, <1>3, <1>4, <1>5 DEF Next, Worker

\* HandleIpcMessage calls through a null pointer only once the service is told to
\* stop: until then its tests without a lock are good enough.
THEOREM CrashesOnlyInStop == Spec => []CrashOnlyInStop
<1>1. Spec => []CrashInv
  BY CrashInit, CrashStep, TypeCorrect, PartsHold, PTL DEF Spec
<1> QED
  BY <1>1, PTL DEF CrashInv
=============================================================================
