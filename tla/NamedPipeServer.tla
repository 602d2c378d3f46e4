-------------------------- MODULE NamedPipeServer --------------------------
(***************************************************************************)
(* The server end of the service's pipe, NamedPipeServer of                *)
(* windows/ipc/SecureIPC.cpp: its worker thread, and Stop on the thread of *)
(* its owner.  m_hPipe is a plain handle that both threads read, close and *)
(* reset; every access is a step.  ServiceLifecycle owns the server and    *)
(* says what its message handler does.                                     *)
(*                                                                         *)
(* Left out: the security descriptor, and the bytes of a message.          *)
(***************************************************************************)
EXTENDS Naturals

CONSTANTS
    Pipe,        \* bound: handles of pipe instances that are open at one time
    NoPipe       \* INVALID_HANDLE_VALUE

ASSUME PipeAssumption == NoPipe \notin Pipe

VARIABLES
    ipcServer,     \* the object: none yet, there, or deleted
    ipcRunning,    \* m_isRunning
    ipcConnected,  \* m_isConnected
    hPipe,         \* m_hPipe
    pipes,         \* the pipe handles that are open
    hWorkerThread, \* m_hWorkerThread is set
    worker         \* where the worker thread is

pipeVars == <<hPipe, pipes>>
ipcVars  == <<ipcServer, ipcRunning, ipcConnected, pipeVars, hWorkerThread>>

-----------------------------------------------------------------------------
\* TEST: before the outer loop's test.  CREATE: before CreateNamedPipe.  CONNECT: in
\* ConnectNamedPipe.  ADMIT: connected, before the test of m_isRunning.  SERVE:
\* before the inner loop's tests.  CLOSE, FORGET: before CloseHandle and the reset.
\* The rest is the message handler.
LoopPosition == {"NONE", "TEST", "CREATE", "CONNECT", "ADMIT", "SERVE", "CLOSE", "FORGET"}

\* The worker touches its object only while that exists: a thread that outlives it
\* reads freed memory next, and the model does not follow it.
WorkerAt(p) == worker = p /\ ipcServer = "SET"

WorkerGoes(p) == worker' = p

\* Start: CreateThread may fail, and m_isRunning stays set.
StartServer(created) ==
    /\ ipcServer' = "SET"
    /\ ipcRunning' = TRUE
    /\ hWorkerThread' = created
    /\ worker' = IF created THEN "TEST" ELSE "NONE"
    /\ UNCHANGED <<ipcConnected, pipeVars>>

-----------------------------------------------------------------------------
(* ServerWorkerThread.                                                     *)

TestRunning ==
    /\ WorkerAt("TEST")
    /\ WorkerGoes(IF ipcRunning THEN "CREATE" ELSE "NONE")
    /\ UNCHANGED ipcVars

CreatePipe ==
    /\ WorkerAt("CREATE")
    /\ \E p \in Pipe :
          /\ p \notin pipes
          /\ pipes' = pipes \cup {p}
          /\ hPipe' = p
    /\ WorkerGoes("CONNECT")
    /\ UNCHANGED <<ipcServer, ipcRunning, ipcConnected, hWorkerThread>>

\* Sleep(100) and the next round.
CreateFails ==
    /\ WorkerAt("CREATE")
    /\ hPipe' = NoPipe
    /\ WorkerGoes("TEST")
    /\ UNCHANGED <<ipcServer, ipcRunning, ipcConnected, pipes, hWorkerThread>>

\* A client opens the pipe.
ConnectPipe ==
    /\ WorkerAt("CONNECT")
    /\ hPipe \in pipes
    /\ WorkerGoes("ADMIT")
    /\ UNCHANGED ipcVars

\* The wait ends without a client: the handle was closed under it, or it failed.
ConnectBreaks ==
    /\ WorkerAt("CONNECT")
    /\ WorkerGoes("CLOSE")
    /\ UNCHANGED ipcVars

Admit ==
    /\ WorkerAt("ADMIT")
    /\ ipcConnected' = ipcRunning
    /\ WorkerGoes(IF ipcRunning THEN "SERVE" ELSE "CLOSE")
    /\ UNCHANGED <<ipcServer, ipcRunning, pipeVars, hWorkerThread>>

\* Both flags are set and the pipe holds a message; one that is not an answer to a
\* lock request is handled without a trace.
Receive ==
    /\ WorkerAt("SERVE")
    /\ ipcRunning
    /\ ipcConnected
    /\ hPipe \in pipes
    /\ WorkerGoes("TEST_ENGINE")
    /\ UNCHANGED ipcVars

\* A flag is cleared, or the handle is closed.
StopServing ==
    /\ WorkerAt("SERVE")
    /\ ~ipcRunning \/ ~ipcConnected \/ hPipe \notin pipes
    /\ WorkerGoes("CLOSE")
    /\ UNCHANGED ipcVars

\* PeekNamedPipe or ReadFile finds the client gone.
ClientGone ==
    /\ WorkerAt("SERVE")
    /\ ipcConnected' = FALSE
    /\ WorkerGoes("CLOSE")
    /\ UNCHANGED <<ipcServer, ipcRunning, pipeVars, hWorkerThread>>

ClosePipe ==
    /\ WorkerAt("CLOSE")
    /\ pipes' = pipes \ {hPipe}
    /\ WorkerGoes("FORGET")
    /\ UNCHANGED <<ipcServer, ipcRunning, ipcConnected, hPipe, hWorkerThread>>

ForgetPipe ==
    /\ WorkerAt("FORGET")
    /\ hPipe' = NoPipe
    /\ ipcConnected' = FALSE
    /\ WorkerGoes("TEST")
    /\ UNCHANGED <<ipcServer, ipcRunning, pipes, hWorkerThread>>

\* What the worker does by itself, and what it needs a client for.
WorkerStep ==
    \/ TestRunning \/ CreatePipe \/ CreateFails \/ Admit
    \/ StopServing \/ ClosePipe \/ ForgetPipe

ClientStep == ConnectPipe \/ ConnectBreaks \/ Receive \/ ClientGone

-----------------------------------------------------------------------------
(* Stop, on the owner's thread.                                            *)

ClearFlags ==
    /\ ipcRunning' = FALSE
    /\ ipcConnected' = FALSE
    /\ UNCHANGED <<ipcServer, pipeVars, hWorkerThread, worker>>

\* The handle found in m_hPipe is closed.
CloseFound ==
    /\ pipes' = pipes \ {hPipe}
    /\ UNCHANGED <<ipcServer, ipcRunning, ipcConnected, hPipe, hWorkerThread, worker>>

ForgetFound ==
    /\ hPipe' = NoPipe
    /\ UNCHANGED <<ipcServer, ipcRunning, ipcConnected, pipes, hWorkerThread, worker>>

\* CancelSynchronousIo reaches a thread that waits for a client, and no other.
CancelIo ==
    /\ worker' = IF worker = "CONNECT" THEN "CLOSE" ELSE worker
    /\ UNCHANGED ipcVars

\* Mutant: WaitForSingleObject(m_hWorkerThread, INFINITE).
WaitForWorkerForever ==
    /\ hWorkerThread => worker = "NONE"
    /\ hWorkerThread' = FALSE
    /\ UNCHANGED <<ipcServer, ipcRunning, ipcConnected, pipeVars, worker>>

\* WaitForSingleObject(m_hWorkerThread, 1000), with the thread ended or not.
WaitForWorker ==
    /\ hWorkerThread' = FALSE
    /\ UNCHANGED <<ipcServer, ipcRunning, ipcConnected, pipeVars, worker>>

\* Mutant: a destructor that leaves it to the first Stop.
DeleteServerOnly ==
    /\ ipcServer' = "DELETED"
    /\ UNCHANGED <<ipcRunning, ipcConnected, pipeVars, hWorkerThread, worker>>

\* The destructor stops once more, without a thread to wait for.
DeleteServer ==
    /\ pipes' = pipes \ {hPipe}
    /\ hPipe' = NoPipe
    /\ ipcConnected' = FALSE
    /\ ipcServer' = "DELETED"
    /\ UNCHANGED <<ipcRunning, hWorkerThread, worker>>

\* No handle is lost: whatever the worker and Stop do to m_hPipe between each
\* other's accesses, an open pipe is the one that m_hPipe names, and none is open
\* when the worker is about to overwrite it with another.
NoPipeLeaks ==
    /\ pipes \subseteq {hPipe}
    /\ worker = "CREATE" => pipes = {}
=============================================================================
