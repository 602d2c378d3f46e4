-------------------------- MODULE ServiceLifecycle --------------------------
(***************************************************************************)
(* The service's start and stop, windows/service/MobileUnlockService.cpp,  *)
(* with the parts it owns: the pipe server, the network engine and the     *)
(* discovery responder.                                                    *)
(*                                                                         *)
(* ServiceMain starts the parts one after the other on a thread of the     *)
(* service control manager; the stop handler runs on another one, after    *)
(* the service has reported that it runs.  Meanwhile the pipe's worker     *)
(* calls HandleIpcMessage, which tests m_networkEngine and m_mdnsResponder *)
(* and then calls through them without a lock.  The console mode makes the *)
(* same calls on one thread.                                               *)
(*                                                                         *)
(* The engine is only up or down here; NetworkEngine has its threads, and  *)
(* LockDispatch what a lock request and its answer do.                     *)
(***************************************************************************)
EXTENDS NamedPipeServer, Discovery

VARIABLES
    reported,    \* the state last told to the service control manager
    step,        \* where StartServiceComponents or StopServiceComponents is
    isRunning,   \* MobileUnlockService::m_isRunning
    engine,      \* m_networkEngine: null, not started, or running
    pcState,     \* m_currentState
    crashed      \* a thread called through a null pointer

serviceVars   == <<reported, step, isRunning, engine, pcState, crashed>>
serverVars    == <<ipcVars, worker>>
discoveryVars == <<responderVars, listener, answer, finderVars>>

vars == <<serviceVars, serverVars, discoveryVars>>

-----------------------------------------------------------------------------
StartStep == {"IPC", "ENGINE", "RESPONDER", "ONLINE", "PUBLISH", "RUN"}

StopStep == {"CLOSE_RESPONDER", "DELETE_RESPONDER", "STOP_ENGINE", "CLEAR", "CLOSE_PIPE",
             "FORGET_PIPE", "CANCEL", "WAIT", "DELETE", "OFFLINE"}

\* BEGIN: before ServiceMain.  FAILED: a part did not start.  STEADY: started.  DONE:
\* stopped.
Step == {"BEGIN", "FAILED", "STEADY", "DONE"} \cup StartStep \cup StopStep

HandlerPosition == {"TEST_ENGINE", "CALL_ENGINE", "STORE", "TEST_RESPONDER", "CALL_RESPONDER"}

\* The service's thread takes its next step.
At(s, next) ==
    /\ ~crashed
    /\ step = s
    /\ step' = next

-----------------------------------------------------------------------------
(* ServiceMain and StartServiceComponents.                                 *)

\* The control handler is registered, which may fail, and so may LoadConfiguration:
\* either way nothing is started.
ServiceMain(loaded) ==
    /\ At("BEGIN", IF loaded THEN "IPC" ELSE "FAILED")
    /\ reported' = IF loaded THEN "START_PENDING" ELSE "STOPPED"
    /\ UNCHANGED <<isRunning, engine, pcState, crashed, serverVars, discoveryVars>>

StartIpc(created) ==
    /\ At("IPC", IF created THEN "ENGINE" ELSE "FAILED")
    /\ StartServer(created)
    /\ reported' = IF created THEN reported ELSE "STOPPED"
    /\ UNCHANGED <<isRunning, engine, pcState, crashed, discoveryVars>>

\* A failure leaves the engine's object and the pipe server as they are.
StartEngine(started) ==
    /\ At("ENGINE", IF started THEN "RESPONDER" ELSE "FAILED")
    /\ engine' = IF started THEN "RUNNING" ELSE "SET"
    /\ reported' = IF started THEN reported ELSE "STOPPED"
    /\ UNCHANGED <<isRunning, pcState, crashed, serverVars, discoveryVars>>

\* A failure is only logged.
StartMdns(bound, created) ==
    /\ At("RESPONDER", "ONLINE")
    /\ StartResponder(bound, created)
    /\ UNCHANGED <<reported, isRunning, engine, pcState, crashed, serverVars, answer,
                   finderVars>>

\* SetState(ONLINE), in its two stores.
StoreOnline ==
    /\ At("ONLINE", "PUBLISH")
    /\ pcState' = "ONLINE"
    /\ UNCHANGED <<reported, isRunning, engine, crashed, serverVars, discoveryVars>>

PublishOnline ==
    /\ At("PUBLISH", "RUN")
    /\ published' = "ONLINE"
    /\ UNCHANGED <<reported, isRunning, engine, pcState, crashed, serverVars, responder,
                   mdnsRunning, udpSocket, listener, answer, finderVars>>

ReportRunning ==
    /\ At("RUN", "STEADY")
    /\ isRunning' = TRUE
    /\ reported' = "RUNNING"
    /\ UNCHANGED <<engine, pcState, crashed, serverVars, discoveryVars>>

-----------------------------------------------------------------------------
(* ServiceHandlerEx and StopServiceComponents.                             *)

\* Mutant: the engine is stopped first.
ControlStopEngineFirst ==
    /\ At("STEADY", IF isRunning THEN "CLOSE_RESPONDER" ELSE "DONE")
    /\ engine' = "NULL"
    /\ reported' = "STOP_PENDING"
    /\ UNCHANGED <<isRunning, pcState, crashed, serverVars, discoveryVars>>

\* SERVICE_CONTROL_STOP and SHUTDOWN are accepted once RUNNING is reported.
ControlStop ==
    /\ At("STEADY", IF isRunning THEN "CLOSE_RESPONDER" ELSE "DONE")
    /\ reported' = "STOP_PENDING"
    /\ UNCHANGED <<isRunning, engine, pcState, crashed, serverVars, discoveryVars>>

StopMdns ==
    /\ At("CLOSE_RESPONDER", "DELETE_RESPONDER")
    /\ CloseResponder
    /\ UNCHANGED <<reported, isRunning, engine, pcState, crashed, serverVars, answer,
                   finderVars>>

\* After at most a second of waiting for the listener.
ResetMdns ==
    /\ At("DELETE_RESPONDER", "STOP_ENGINE")
    /\ DeleteResponder
    /\ UNCHANGED <<reported, isRunning, engine, pcState, crashed, serverVars, answer,
                   finderVars>>

StopEngine ==
    /\ At("STOP_ENGINE", "CLEAR")
    /\ engine' = "NULL"
    /\ UNCHANGED <<reported, isRunning, pcState, crashed, serverVars, discoveryVars>>

\* Mutant: the pipe is closed and forgotten before the flags are cleared.
StopIpcLate ==
    /\ \/ At("CLEAR", "CLOSE_PIPE") /\ UNCHANGED serverVars
       \/ At("CLOSE_PIPE", IF hPipe # NoPipe THEN "FORGET_PIPE" ELSE "CANCEL") /\ CloseFound
       \/ At("FORGET_PIPE", "CANCEL") /\ ForgetFound
       \/ At("CANCEL", "WAIT") /\ ClearFlags
       \/ At("WAIT", "DELETE") /\ WaitForWorker
       \/ At("DELETE", "OFFLINE") /\ DeleteServer
    /\ UNCHANGED <<reported, isRunning, engine, pcState, crashed, discoveryVars>>

\* NamedPipeServer::Stop and the deletion of the server.
StopIpc ==
    /\ \/ At("CLEAR", "CLOSE_PIPE") /\ ClearFlags
       \/ At("CLOSE_PIPE", IF hPipe # NoPipe THEN "FORGET_PIPE" ELSE "CANCEL") /\ CloseFound
       \/ At("FORGET_PIPE", "CANCEL") /\ ForgetFound
       \/ At("CANCEL", "WAIT") /\ CancelIo
       \/ At("WAIT", "DELETE") /\ WaitForWorker
       \/ At("DELETE", "OFFLINE") /\ DeleteServer
    /\ UNCHANGED <<reported, isRunning, engine, pcState, crashed, discoveryVars>>

\* SetState(OFFLINE) finds no responder.
ReportStopped ==
    /\ At("OFFLINE", "DONE")
    /\ pcState' = "OFFLINE"
    /\ isRunning' = FALSE
    /\ reported' = "STOPPED"
    /\ UNCHANGED <<engine, crashed, serverVars, discoveryVars>>

-----------------------------------------------------------------------------
(* HandleIpcMessage on the pipe's worker, for a LOCK_RESPONSE.             *)

Handler(p) == worker = p /\ ~crashed

\* m_networkEngine is tested, with the pending client, which there may be or not.
TestEngine ==
    /\ Handler("TEST_ENGINE")
    /\ \/ engine # "NULL" /\ WorkerGoes("CALL_ENGINE")
       \/ WorkerGoes("STORE")
    /\ UNCHANGED <<serviceVars, ipcVars, discoveryVars>>

\* The engine may be gone by now.
CallEngine ==
    /\ Handler("CALL_ENGINE")
    /\ WorkerGoes("STORE")
    /\ crashed' = (engine = "NULL")
    /\ UNCHANGED <<reported, step, isRunning, engine, pcState, ipcVars, discoveryVars>>

\* SetState(LOCKED): the store, the test and the call.
StoreLocked ==
    /\ Handler("STORE")
    /\ WorkerGoes("TEST_RESPONDER")
    /\ pcState' = "LOCKED"
    /\ UNCHANGED <<reported, step, isRunning, engine, crashed, ipcVars, discoveryVars>>

\* Mutant: SetState without its test of m_mdnsResponder.
TestResponderNot ==
    /\ Handler("TEST_RESPONDER")
    /\ WorkerGoes("CALL_RESPONDER")
    /\ UNCHANGED <<serviceVars, ipcVars, discoveryVars>>

TestResponder ==
    /\ Handler("TEST_RESPONDER")
    /\ WorkerGoes(IF responder = "SET" THEN "CALL_RESPONDER" ELSE "SERVE")
    /\ UNCHANGED <<serviceVars, ipcVars, discoveryVars>>

CallResponder ==
    /\ Handler("CALL_RESPONDER")
    /\ WorkerGoes("SERVE")
    /\ crashed' = (responder = "NULL")
    /\ published' = IF responder = "SET" THEN "LOCKED" ELSE published
    /\ UNCHANGED <<reported, step, isRunning, engine, pcState, ipcVars, responder, mdnsRunning,
                   udpSocket, listener, answer, finderVars>>

HandlerStep == TestEngine \/ CallEngine \/ StoreLocked \/ TestResponder \/ CallResponder

-----------------------------------------------------------------------------
Init ==
    /\ reported = "STOPPED"
    /\ step = "BEGIN"
    /\ isRunning = FALSE
    /\ engine = "NULL"
    /\ pcState = "OFFLINE"
    /\ crashed = FALSE
    /\ ipcServer = "NULL"
    /\ ipcRunning = FALSE
    /\ ipcConnected = FALSE
    /\ hPipe = NoPipe
    /\ pipes = {}
    /\ hWorkerThread = FALSE
    /\ worker = "NONE"
    /\ responder = "NULL"
    /\ mdnsRunning = FALSE
    /\ udpSocket = FALSE
    /\ published = "OFFLINE"
    /\ listener = NoListener
    /\ answer = NoState
    /\ isSearching = FALSE
    /\ searchSocket = FALSE
    /\ lostSockets = 0
    /\ overtaken = FALSE
    /\ binding = 0
    /\ stopTimers = 0

Start ==
    \/ \E ok \in BOOLEAN : ServiceMain(ok) \/ StartIpc(ok) \/ StartEngine(ok)
    \/ \E bound, created \in BOOLEAN : StartMdns(bound, created)
    \/ StoreOnline
    \/ PublishOnline
    \/ ReportRunning

Stop == StopMdns \/ ResetMdns \/ StopEngine \/ StopIpc \/ ReportStopped

Worker ==
    \/ ~crashed /\ (WorkerStep \/ ClientStep) /\ UNCHANGED <<serviceVars, discoveryVars>>
    \/ HandlerStep

Next ==
    \/ Start
    \/ ControlStop
    \/ Stop
    \/ Worker
    \/ ~crashed /\ ListenerStep /\ UNCHANGED <<serviceVars, serverVars>>
    \/ FinderStep /\ UNCHANGED <<serviceVars, serverVars>>

Spec == Init /\ [][Next]_vars

\* Every wait of the stop procedure has a time limit; the worker takes the steps for
\* which it needs no client; the phone's binds return and its timers go off.
FairSpec ==
    /\ Spec
    /\ WF_vars(Stop)
    /\ WF_vars(~crashed /\ WorkerStep /\ UNCHANGED <<serviceVars, discoveryVars>>)
    /\ WF_vars(HandlerStep)
    /\ WF_vars((BindReturns \/ BindFails) /\ UNCHANGED <<serviceVars, serverVars>>)
    /\ WF_vars(SearchTimeout /\ UNCHANGED <<serviceVars, serverVars>>)

-----------------------------------------------------------------------------
\* The shape of the state.
TypeOK ==
    /\ reported \in {"STOPPED", "START_PENDING", "RUNNING", "STOP_PENDING"}
    /\ step \in Step
    /\ isRunning \in BOOLEAN
    /\ engine \in {"NULL", "SET", "RUNNING"}
    /\ pcState \in PcState
    /\ crashed \in BOOLEAN
    /\ ipcServer \in {"NULL", "SET", "DELETED"}
    /\ ipcRunning \in BOOLEAN
    /\ ipcConnected \in BOOLEAN
    /\ hPipe \in Pipe \cup {NoPipe}
    /\ pipes \in SUBSET Pipe
    /\ hWorkerThread \in BOOLEAN
    /\ worker \in LoopPosition \cup HandlerPosition
    /\ responder \in {"NULL", "SET"}
    /\ mdnsRunning \in BOOLEAN
    /\ udpSocket \in BOOLEAN
    /\ published \in PcState
    /\ listener \in [at : {"NONE", "TEST", "RECV", "SEND"}, state : PcState \cup {NoState}]
    /\ answer \in PcState \cup {NoState}
    /\ isSearching \in BOOLEAN
    /\ searchSocket \in BOOLEAN
    /\ lostSockets \in 0..MaxLost
    /\ overtaken \in BOOLEAN
    /\ binding \in 0..MaxSearches
    /\ stopTimers \in 0..MaxSearches

\* A service that reports STOPPED holds no port and no pipe, although its threads may
\* outlive the waits for them; after a start that failed half way only the pipe
\* server may still be there.  (What a worker does with a server that is deleted
\* under it is not followed.)
StoppedMeansDown ==
    (reported = "STOPPED" /\ ~crashed) =>
        /\ engine # "RUNNING"
        /\ responder = "NULL" /\ ~udpSocket
        /\ pipes # {} => step = "FAILED" /\ engine = "SET"

\* The tests of m_networkEngine and m_mdnsResponder that HandleIpcMessage makes
\* without a lock are good enough until the service is told to stop.
CrashOnlyInStop == crashed => step \in StopStep \cup {"DONE"}

\* The PC announces itself only while its engine serves the announced port, although
\* the listener may outlive the wait for it.
AnnouncedIsServed == [][answer' \in {answer, NoState} \/ engine = "RUNNING"]_vars

\* A stop comes to its end, whatever the worker waits for, unless the worker's calls
\* through the deleted parts end the process first.
StopCompletes == reported = "STOP_PENDING" ~> reported = "STOPPED" \/ crashed
=============================================================================
