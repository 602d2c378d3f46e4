--------------------------- MODULE CredentialTile ---------------------------
(***************************************************************************)
(* The tile on the logon screen,                                           *)
(* windows/credential_provider/MobileUnlockCredential.cpp, and the         *)
(* provider that owns it, CredentialProvider.cpp.                          *)
(*                                                                         *)
(* LogonUI calls the tile on one thread.  Advise starts a status thread    *)
(* that polls the service and publishes what it fetched; UnAdvise signals  *)
(* it, waits for at most three seconds and goes on.  A fetch alone may     *)
(* take ten (CONNECT_TIMEOUT_MS and READ_TIMEOUT_MS), so a status thread   *)
(* can outlive UnAdvise, run beside the next one and outlive the object.   *)
(* Every section under m_stateLock is a step, and so is every access       *)
(* outside it.                                                             *)
(*                                                                         *)
(* Left out: the stop event, which only shortens a wait; the wording of    *)
(* the status field; the field descriptors; the provider's own events,     *)
(* which it stores and never calls.                                        *)
(***************************************************************************)
EXTENDS Naturals

CONSTANTS
    Thread,      \* bound: the status threads that exist at one time
    NoThread,    \* a null m_hStatusThread
    Buffer,      \* logon buffers with the right size, magic number and version
    Zero,        \* a buffer after SecureZeroMemory
    NoBuffer,    \* no buffer
    MaxRefs      \* bound: references to the tile

VARIABLES
    scenario,    \* CredentialProvider::m_usageScenarioSet
    refs,        \* m_cRef of the tile, 0 when there is none
    provider,    \* m_pCredential of the provider: null, set, or the provider is gone
    ui,          \* LogonUI's thread: idle, or in UnAdvise's wait, or the tile is gone
    advised,     \* m_pCredentialEvents is set
    stop,        \* m_stopThread
    hStatusThread, \* m_hStatusThread
    waiting,     \* UnAdvise's hThread
    released,    \* threads about to call events that were released since their test
    outlived,    \* history: threads that were alive when UnAdvise's wait for them ended
    factory,     \* m_pIpcFactory is set
    thread,      \* where each status thread is, and the token it has fetched
    ready,       \* m_authStateReady
    buffer,      \* m_internalAuthBuffer
    wire         \* the serialized credential on its way to LSASS

comVars    == <<scenario, refs, provider>>
adviseVars == <<advised, stop, hStatusThread, waiting, released, outlived>>
authVars   == <<ready, buffer>>

vars == <<comVars, ui, adviseVars, factory, thread, authVars, wire>>

-----------------------------------------------------------------------------
ASSUME TileAssumption ==
    /\ NoThread \notin Thread
    /\ Zero \notin Buffer
    /\ NoBuffer \notin Buffer \cup {Zero}
    /\ MaxRefs \in Nat \ {0}

NoToken == [at |-> "NONE", token |-> NoBuffer]

\* TEST: before the loop's test of m_stopThread.  FETCH: in FetchAuthState.  GOT:
\* before the test that follows it.  STORE: before the lock.  TELL: before
\* UpdateStatusField's test of m_pCredentialEvents.  CALL: before the call through
\* it.  POLL: in the wait between two polls.  WIPE: out of the loop.
Position == {"NONE", "TEST", "FETCH", "GOT", "STORE", "TELL", "CALL", "POLL", "WIPE"}

Alive(t) == thread[t].at # "NONE"

\* LogonUI may call the tile.
Callable == ui = "IDLE" /\ refs > 0

-----------------------------------------------------------------------------
(* CredentialProvider.                                                     *)

\* The tile is created with the provider's reference; either allocation, that
\* of the tile and that of its IPC factory, may fail.
SetUsageScenario ==
    /\ ui = "IDLE"
    /\ provider # "GONE"
    /\ scenario' = TRUE
    /\ \/ UNCHANGED <<refs, provider, factory>>
       \/ /\ provider = "NULL"
          /\ refs' = 1
          /\ provider' = "SET"
          /\ factory' \in BOOLEAN
    /\ UNCHANGED <<ui, adviseVars, thread, authVars, wire>>

SetUnsupportedScenario ==
    /\ ui = "IDLE"
    /\ provider # "GONE"
    /\ scenario' = FALSE
    /\ UNCHANGED <<refs, provider, ui, adviseVars, factory, thread, authVars, wire>>

\* GetCredentialCount says 1 and GetCredentialAt hands out a reference.
GetCredentialAt ==
    /\ ui = "IDLE"
    /\ scenario
    /\ provider = "SET"
    /\ refs < MaxRefs
    /\ refs' = refs + 1
    /\ UNCHANGED <<scenario, provider, ui, adviseVars, factory, thread, authVars, wire>>

-----------------------------------------------------------------------------
(* MobileUnlockCredential on LogonUI's thread.                             *)

\* The threads between UpdateStatusField's test of m_pCredentialEvents and its call.
Calling == {t \in Thread : thread[t].at = "CALL"}

\* Mutant: the handle is kept.
UnAdviseLockedKeep(next) ==
    /\ stop' = TRUE
    /\ waiting' = hStatusThread
    /\ advised' = FALSE
    /\ released' = released \cup Calling
    /\ ui' = next
    /\ UNCHANGED <<hStatusThread, outlived>>

\* Mutant: the handle is cleared and not waited for.
UnAdviseLockedNoWait(next) ==
    /\ stop' = TRUE
    /\ waiting' = NoThread
    /\ hStatusThread' = NoThread
    /\ advised' = FALSE
    /\ released' = released \cup Calling
    /\ ui' = next
    /\ UNCHANGED outlived

\* The part of UnAdvise under the lock.
UnAdviseLocked(next) ==
    /\ stop' = TRUE
    /\ waiting' = hStatusThread
    /\ hStatusThread' = NoThread
    /\ advised' = FALSE
    /\ released' = released \cup Calling
    /\ ui' = next
    /\ UNCHANGED outlived

MayRelease(byProvider) ==
    /\ refs > 0
    /\ IF byProvider THEN provider = "SET" ELSE provider = "SET" => refs > 1

\* A reference is dropped, by the provider's destructor or by LogonUI, which drops
\* only references that it was given.  The last one runs the destructor, which begins with
\* UnAdvise.
Release(byProvider) ==
    /\ ui = "IDLE"
    /\ MayRelease(byProvider)
    /\ provider' = IF byProvider THEN "GONE" ELSE provider
    /\ refs' = refs - 1
    /\ IF refs = 1
       THEN UnAdviseLocked("DESTROYING")
       ELSE UNCHANGED <<ui, adviseVars>>
    /\ UNCHANGED <<scenario, factory, thread, authVars, wire>>

\* The events are replaced, and those it had are released; a thread is started
\* unless there is a handle of one.  CreateThread may fail.
Advise ==
    /\ Callable
    /\ advised' = TRUE
    /\ released' = released \cup Calling
    /\ IF hStatusThread # NoThread
       THEN UNCHANGED <<stop, hStatusThread, thread>>
       ELSE /\ stop' = FALSE
            /\ \/ UNCHANGED <<hStatusThread, thread>>
               \/ \E t \in Thread :
                     /\ ~Alive(t)
                     /\ hStatusThread' = t
                     /\ thread' = [thread EXCEPT ![t] = [at |-> "TEST", token |-> NoBuffer]]
    /\ UNCHANGED <<comVars, ui, waiting, outlived, factory, authVars, wire>>

UnAdvise ==
    /\ Callable
    /\ UnAdviseLocked("UNADVISING")
    /\ UNCHANGED <<comVars, factory, thread, authVars, wire>>

\* WaitForSingleObject(hThread, 3000) returns, with the thread ended or not; with
\* no handle there is no wait.  After the destructor the object is freed.
UnAdviseReturn ==
    /\ ui \in {"UNADVISING", "DESTROYING"}
    /\ ui' = IF ui = "UNADVISING" THEN "IDLE" ELSE "FREED"
    /\ waiting' = NoThread
    /\ outlived' = outlived \cup {t \in Thread : t = waiting /\ Alive(t)}
    /\ UNCHANGED <<comVars, advised, stop, hStatusThread, released, factory, thread, authVars,
                   wire>>

\* Mutant: the buffer is wiped and stays ready.
ClearInternalAuthStateHalf ==
    /\ buffer' = Zero
    /\ UNCHANGED ready

ClearInternalAuthState ==
    /\ buffer' = Zero
    /\ ready' = FALSE

SetDeselected ==
    /\ Callable
    /\ ClearInternalAuthState
    /\ UNCHANGED <<comVars, ui, adviseVars, factory, thread, wire>>

\* Nothing is submitted when no state is ready or when the memory for it cannot
\* be allocated.  Without an id of the package the credential goes to package 100,
\* which is not this one.  The buffer stays in the tile.
GetSerialization(found) ==
    /\ Callable
    /\ ready
    /\ wire = NoBuffer
    /\ wire' = IF found THEN buffer ELSE NoBuffer
    /\ UNCHANGED <<comVars, ui, adviseVars, factory, thread, authVars>>

-----------------------------------------------------------------------------
(* StatusThreadFunc.  After a free its next access is to memory that is no *)
(* longer the tile's: the model ends there.                                *)

At(t, p) == thread[t].at = p /\ ui # "FREED" /\ ui # "CRASHED"

GoTo(t, p) == thread' = [thread EXCEPT ![t].at = p]

\* Mutant: while (true).
TestStopNever(t) ==
    /\ At(t, "TEST")
    /\ GoTo(t, IF factory THEN "FETCH" ELSE "TELL")
    /\ UNCHANGED <<comVars, ui, adviseVars, factory, authVars, wire>>

TestStop(t) ==
    /\ At(t, "TEST")
    /\ GoTo(t, IF stop THEN "WIPE" ELSE IF factory THEN "FETCH" ELSE "TELL")
    /\ UNCHANGED <<comVars, ui, adviseVars, factory, authVars, wire>>

\* FetchAuthState: no connection, no answer in time, or an answer, whose size,
\* magic number and version are checked; all else gives an invalid token.
FetchAuthState(t) ==
    /\ At(t, "FETCH")
    /\ \E b \in Buffer \cup {NoBuffer} :
          thread' = [thread EXCEPT ![t] = [at |-> "GOT", token |-> b]]
    /\ UNCHANGED <<comVars, ui, adviseVars, factory, authVars, wire>>

\* The test after the fetch.
RetestStop(t) ==
    /\ At(t, "GOT")
    /\ thread' = [thread EXCEPT ![t] = IF stop THEN [at |-> "WIPE", token |-> NoBuffer]
                                               ELSE [@ EXCEPT !.at = "STORE"]]
    /\ UNCHANGED <<comVars, ui, adviseVars, factory, authVars, wire>>

\* A failed fetch withdraws the readiness and leaves the buffer.
Publish(t) ==
    /\ At(t, "STORE")
    /\ ready' = (thread[t].token # NoBuffer)
    /\ buffer' = IF thread[t].token # NoBuffer THEN thread[t].token ELSE buffer
    /\ thread' = [thread EXCEPT ![t] = [at |-> "TELL", token |-> NoBuffer]]
    /\ UNCHANGED <<comVars, ui, adviseVars, factory, wire>>

\* UpdateStatusField, without the lock.
TestEvents(t) ==
    /\ At(t, "TELL")
    /\ GoTo(t, IF advised THEN "CALL" ELSE "POLL")
    /\ UNCHANGED <<comVars, ui, adviseVars, factory, authVars, wire>>

\* The object may have been released since the test, and its pointer cleared or
\* replaced: the call then ends LogonUI, or goes to an object that happens to be
\* there still, or to the new one if the pointer is read again.
CallEvents(t) ==
    /\ At(t, "CALL")
    /\ GoTo(t, "POLL")
    /\ released' = released \ {t}
    /\ ui' \in IF t \in released THEN {ui, "CRASHED"} ELSE {ui}
    /\ UNCHANGED <<comVars, advised, stop, hStatusThread, waiting, outlived, factory, authVars,
                   wire>>

\* The stop event is set or POLL_INTERVAL_MS are over.
Poll(t) ==
    /\ At(t, "POLL")
    /\ GoTo(t, "TEST")
    /\ UNCHANGED <<comVars, ui, adviseVars, factory, authVars, wire>>

\* Mutant: a thread that ends without wiping.
WipeNothing == UNCHANGED authVars

WipeOnExit == ClearInternalAuthState

EndThread(t) ==
    /\ At(t, "WIPE")
    /\ WipeOnExit
    /\ thread' = [thread EXCEPT ![t] = NoToken]
    /\ outlived' = outlived \ {t}
    /\ UNCHANGED <<comVars, ui, advised, stop, hStatusThread, waiting, released, factory, wire>>

-----------------------------------------------------------------------------
\* Winlogon passes the credential on to LSASS (see LsaPackage).
WinlogonTakes ==
    /\ wire # NoBuffer
    /\ wire' = NoBuffer
    /\ UNCHANGED <<comVars, ui, adviseVars, factory, thread, authVars>>

-----------------------------------------------------------------------------
Init ==
    /\ scenario = FALSE
    /\ refs = 0
    /\ provider = "NULL"
    /\ ui = "IDLE"
    /\ advised = FALSE
    /\ stop = FALSE
    /\ hStatusThread = NoThread
    /\ waiting = NoThread
    /\ released = {}
    /\ outlived = {}
    /\ factory = FALSE
    /\ thread = [t \in Thread |-> NoToken]
    /\ ready = FALSE
    /\ buffer = Zero
    /\ wire = NoBuffer

LogonUIStep ==
    \/ SetUsageScenario
    \/ SetUnsupportedScenario
    \/ GetCredentialAt
    \/ \E byProvider \in BOOLEAN : Release(byProvider)
    \/ Advise
    \/ UnAdvise
    \/ UnAdviseReturn
    \/ SetDeselected
    \/ \E found \in BOOLEAN : GetSerialization(found)

ThreadStep(t) ==
    \/ TestStop(t)
    \/ FetchAuthState(t)
    \/ RetestStop(t)
    \/ Publish(t)
    \/ TestEvents(t)
    \/ CallEvents(t)
    \/ Poll(t)
    \/ EndThread(t)

Next ==
    \/ LogonUIStep
    \/ \E t \in Thread : ThreadStep(t)
    \/ WinlogonTakes

Spec == Init /\ [][Next]_vars

\* A status thread keeps running: every wait of its loop has a time limit.
FairSpec == Spec /\ \A t \in Thread : WF_vars(ThreadStep(t))

-----------------------------------------------------------------------------
\* The shape of the state.
TypeOK ==
    /\ scenario \in BOOLEAN
    /\ refs \in 0..MaxRefs
    /\ provider \in {"NULL", "SET", "GONE"}
    /\ ui \in {"IDLE", "UNADVISING", "DESTROYING", "FREED", "CRASHED"}
    /\ advised \in BOOLEAN
    /\ stop \in BOOLEAN
    /\ hStatusThread \in Thread \cup {NoThread}
    /\ waiting \in Thread \cup {NoThread}
    /\ released \in SUBSET Thread
    /\ outlived \in SUBSET Thread
    /\ factory \in BOOLEAN
    /\ thread \in [Thread -> [at : Position, token : Buffer \cup {NoBuffer}]]
    /\ ready \in BOOLEAN
    /\ buffer \in Buffer \cup {Zero}
    /\ wire \in Buffer \cup {Zero, NoBuffer}

\* What the tile hands to Winlogon is always a whole buffer that came through the
\* pipe, never one that is wiped or half replaced, although two status threads,
\* the deselection and GetSerialization race for it.
SubmitsWhole ==
    /\ ready => buffer # Zero
    /\ wire # Zero

\* Authentication data in the tile has a status thread that will still wipe it,
\* whichever of the threads ends first and however often UnAdvise gave up waiting.
BufferHasKeeper == buffer # Zero => \E t \in Thread : Alive(t)

\* m_hStatusThread always belongs to a thread that runs and has not been told to
\* stop: Advise, which trusts the handle, never leaves the tile without polling.
HandleIsLive ==
    hStatusThread # NoThread => /\ ~stop
                                /\ Alive(hStatusThread)
                                /\ thread[hStatusThread].at # "WIPE"

\* A status thread uses memory that is gone only when a wait of UnAdvise gave up on
\* it: the tile is freed under no other thread, and while LogonUI is not inside
\* UnAdvise no other thread calls released events, but for the tile's own thread
\* when a second Advise has replaced them under it.
GoneOnlyForOutlived ==
    /\ ui = "FREED" => \A t \in Thread : Alive(t) => t \in outlived
    /\ ui = "IDLE" => released \subseteq outlived \cup {hStatusThread}

\* Once UnAdvise was called and until the next Advise, every status thread ends
\* and the authentication data is wiped, unless the tile is freed before that or
\* the unlocked call through the events has ended LogonUI.
UnadvisedIsWiped ==
    ~advised ~> \/ advised
                \/ ui \in {"FREED", "CRASHED"}
                \/ buffer = Zero /\ \A t \in Thread : ~Alive(t)
=============================================================================
