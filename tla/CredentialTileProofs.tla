------------------------ MODULE CredentialTileProofs ------------------------
(***************************************************************************)
(* For any number of status threads, buffers and references: the tile      *)
(* submits only whole buffers, its data always has a thread that will wipe *)
(* it, its thread handle is never stale, and nothing a thread uses is gone *)
(* unless UnAdvise gave up waiting for that thread.                        *)
(***************************************************************************)
EXTENDS CredentialTile, TLAPS

\* The references to the tile: none before it is made and the provider's while it
\* has one.
RefsCounted ==
    /\ provider = "NULL" => refs = 0
    /\ provider = "SET" => refs > 0

TypeInv == TypeOK /\ RefsCounted

\* The initial state is well typed.
LEMMA TypeInit == Init => TypeInv
<1> SUFFICES ASSUME Init PROVE TypeOK /\ RefsCounted
  BY DEF TypeInv
<1>1. refs \in 0..MaxRefs /\ RefsCounted
  BY TileAssumption DEF Init, RefsCounted
<1>2. thread \in [Thread -> [at : Position, token : Buffer \cup {NoBuffer}]]
  BY DEF Init, NoToken, Position
<1> QED
  BY <1>1, <1>2 DEF Init, TypeOK

\* A thread that only moves keeps its type.
LEMMA GoToTyped ==
    ASSUME TypeOK, NEW t \in Thread, NEW p \in Position, GoTo(t, p)
    PROVE  thread' \in [Thread -> [at : Position, token : Buffer \cup {NoBuffer}]]
BY DEF TypeOK, GoTo

\* Every step keeps the state well typed.
LEMMA TypeStep == TypeInv /\ [Next]_vars => TypeInv'
<1> SUFFICES ASSUME TypeOK, RefsCounted, [Next]_vars PROVE TypeOK' /\ RefsCounted'
  BY DEF TypeInv
<1> USE TileAssumption DEF comVars, adviseVars, authVars
<1>1. CASE SetUsageScenario \/ SetUnsupportedScenario \/ GetCredentialAt
  <2>1. refs' \in 0..MaxRefs /\ RefsCounted'
    BY <1>1 DEF SetUsageScenario, SetUnsupportedScenario, GetCredentialAt, TypeOK, RefsCounted
  <2>2. /\ scenario' \in BOOLEAN /\ factory' \in BOOLEAN
        /\ provider' \in {"NULL", "SET", "GONE"}
        /\ UNCHANGED <<ui, adviseVars, thread, authVars, wire>>
    BY <1>1 DEF SetUsageScenario, SetUnsupportedScenario, GetCredentialAt, TypeOK
  <2> QED
    BY <2>1, <2>2 DEF TypeOK
<1>2. ASSUME NEW byProvider \in BOOLEAN, Release(byProvider) PROVE TypeOK' /\ RefsCounted'
  <2>1. refs' \in 0..MaxRefs /\ RefsCounted'
    BY <1>2 DEF Release, MayRelease, TypeOK, RefsCounted
  <2>2. /\ provider' \in {"NULL", "SET", "GONE"}
        /\ ui' \in {"IDLE", "UNADVISING", "DESTROYING", "FREED", "CRASHED"}
        /\ advised' \in BOOLEAN /\ stop' \in BOOLEAN
        /\ hStatusThread' \in Thread \cup {NoThread} /\ waiting' \in Thread \cup {NoThread}
        /\ released' \in SUBSET Thread /\ outlived' \in SUBSET Thread
    BY <1>2 DEF Release, UnAdviseLocked, Calling, TypeOK
  <2>3. UNCHANGED <<scenario, factory, thread, authVars, wire>>
    BY <1>2 DEF Release
  <2> QED
    BY <2>1, <2>2, <2>3 DEF TypeOK
<1>3. CASE Advise
  <2>1. ASSUME NEW t \in Thread
        PROVE  [thread EXCEPT ![t] = [at |-> "TEST", token |-> NoBuffer]]
                  \in [Thread -> [at : Position, token : Buffer \cup {NoBuffer}]]
    BY DEF TypeOK, Position
  <2>2. thread' \in [Thread -> [at : Position, token : Buffer \cup {NoBuffer}]]
    BY <1>3, <2>1 DEF Advise, TypeOK
  <2>3. /\ advised' \in BOOLEAN /\ stop' \in BOOLEAN
        /\ hStatusThread' \in Thread \cup {NoThread} /\ released' \in SUBSET Thread
    BY <1>3 DEF Advise, Calling, TypeOK
  <2>4. UNCHANGED <<comVars, ui, waiting, outlived, factory, authVars, wire>>
    BY <1>3 DEF Advise
  <2> QED
    BY <2>2, <2>3, <2>4 DEF TypeOK, RefsCounted
<1>4. CASE UnAdvise \/ UnAdviseReturn
  BY <1>4 DEF UnAdvise, UnAdviseReturn, UnAdviseLocked, Calling, TypeOK, RefsCounted
<1>5. CASE SetDeselected
  BY <1>5, ZenonT(60) DEF SetDeselected, ClearInternalAuthState, TypeOK, RefsCounted
<1>6. ASSUME NEW found \in BOOLEAN, GetSerialization(found) PROVE TypeOK' /\ RefsCounted'
  BY <1>6 DEF GetSerialization, TypeOK, RefsCounted
<1>7. ASSUME NEW t \in Thread, TestStop(t) PROVE TypeOK' /\ RefsCounted'
  <2>1. thread' \in [Thread -> [at : Position, token : Buffer \cup {NoBuffer}]]
    BY <1>7, GoToTyped DEF TestStop, Position
  <2> QED
    BY <1>7, <2>1 DEF TestStop, TypeOK, RefsCounted
<1>8. ASSUME NEW t \in Thread, FetchAuthState(t) PROVE TypeOK' /\ RefsCounted'
  BY <1>8 DEF FetchAuthState, TypeOK, RefsCounted, Position
<1>9. ASSUME NEW t \in Thread, RetestStop(t) PROVE TypeOK' /\ RefsCounted'
  BY <1>9 DEF RetestStop, TypeOK, RefsCounted, Position
<1>10. ASSUME NEW t \in Thread, Publish(t) PROVE TypeOK' /\ RefsCounted'
  BY <1>10 DEF Publish, TypeOK, RefsCounted, Position
<1>11. ASSUME NEW t \in Thread, TestEvents(t) PROVE TypeOK' /\ RefsCounted'
  <2>1. thread' \in [Thread -> [at : Position, token : Buffer \cup {NoBuffer}]]
    BY <1>11, GoToTyped DEF TestEvents, Position
  <2> QED
    BY <1>11, <2>1 DEF TestEvents, TypeOK, RefsCounted
<1>12. ASSUME NEW t \in Thread, CallEvents(t) PROVE TypeOK' /\ RefsCounted'
  <2>1. thread' \in [Thread -> [at : Position, token : Buffer \cup {NoBuffer}]]
    BY <1>12, GoToTyped DEF CallEvents, Position
  <2> QED
    BY <1>12, <2>1 DEF CallEvents, TypeOK, RefsCounted
<1>13. ASSUME NEW t \in Thread, Poll(t) PROVE TypeOK' /\ RefsCounted'
  <2>1. thread' \in [Thread -> [at : Position, token : Buffer \cup {NoBuffer}]]
    BY <1>13, GoToTyped DEF Poll, Position
  <2> QED
    BY <1>13, <2>1 DEF Poll, TypeOK, RefsCounted
<1>14. ASSUME NEW t \in Thread, EndThread(t) PROVE TypeOK' /\ RefsCounted'
  BY <1>14, ZenonT(60)
     DEF EndThread, WipeOnExit, ClearInternalAuthState, NoToken, TypeOK, RefsCounted, Position
<1>15. CASE WinlogonTakes
  BY <1>15 DEF WinlogonTakes, TypeOK, RefsCounted
<1>16. CASE UNCHANGED vars
  BY <1>16 DEF vars, TypeOK, RefsCounted
<1> QED
  BY <1>1, <1>2, <1>3, <1>4, <1>5, <1>6, <1>7, <1>8, <1>9, <1>10, <1>11, <1>12, <1>13, <1>14,
     <1>15, <1>16
     DEF Next, LogonUIStep, ThreadStep

\* The tile keeps its shape, and its references are counted right.
THEOREM TypeCorrect == Spec => []TypeOK
<1>1. TypeInv => TypeOK
  BY DEF TypeInv
<1> QED
  BY <1>1, TypeInit, TypeStep, PTL DEF Spec

-----------------------------------------------------------------------------
(* Whole buffers.  A fetched token is either a buffer or none, so that a   *)
(* thread that publishes one makes the state ready with it, and everything *)
(* that wipes the buffer withdraws the readiness in the same section.      *)

\* Every step keeps the buffer that is ready, or submitted, whole.
LEMMA WholeStep == TypeOK /\ SubmitsWhole /\ [Next]_vars => SubmitsWhole'
<1> SUFFICES ASSUME TypeOK, SubmitsWhole, [Next]_vars PROVE SubmitsWhole'
  OBVIOUS
<1> USE TileAssumption DEF comVars, adviseVars, authVars, SubmitsWhole
<1>1. ASSUME NEW t \in Thread, Publish(t) PROVE SubmitsWhole'
  <2>1. thread[t].token \in Buffer \cup {NoBuffer}
    BY DEF TypeOK
  <2> QED
    BY <1>1, <2>1 DEF Publish
<1>2. ASSUME NEW t \in Thread, EndThread(t) PROVE SubmitsWhole'
  BY <1>2 DEF EndThread, WipeOnExit, ClearInternalAuthState
<1>3. CASE SetDeselected
  BY <1>3 DEF SetDeselected, ClearInternalAuthState
<1>4. ASSUME NEW found \in BOOLEAN, GetSerialization(found) PROVE SubmitsWhole'
  BY <1>4 DEF GetSerialization
<1>5. CASE WinlogonTakes
  BY <1>5 DEF WinlogonTakes
<1>6. ASSUME UNCHANGED <<ready, buffer, wire>> PROVE SubmitsWhole'
  BY <1>6
<1>7. CASE \/ SetUsageScenario \/ SetUnsupportedScenario \/ GetCredentialAt
           \/ \E byProvider \in BOOLEAN : Release(byProvider)
           \/ Advise \/ UnAdvise \/ UnAdviseReturn \/ UNCHANGED vars
  BY <1>6, <1>7
     DEF SetUsageScenario, SetUnsupportedScenario, GetCredentialAt, Release, Advise, UnAdvise,
         UnAdviseReturn, vars
<1>8. ASSUME NEW t \in Thread,
             \/ TestStop(t) \/ FetchAuthState(t) \/ RetestStop(t) \/ TestEvents(t)
             \/ CallEvents(t) \/ Poll(t)
      PROVE  SubmitsWhole'
  BY <1>6, <1>8 DEF TestStop, FetchAuthState, RetestStop, TestEvents, CallEvents, Poll
<1> QED
  BY <1>1, <1>2, <1>3, <1>4, <1>5, <1>7, <1>8 DEF Next, LogonUIStep, ThreadStep

\* What the tile hands to Winlogon is a whole buffer, however status threads,
\* deselection and GetSerialization interleave.
THEOREM WholeSubmitted == Spec => []SubmitsWhole
<1>1. Init => SubmitsWhole
  BY TileAssumption DEF Init, SubmitsWhole
<1> QED
  BY <1>1, TypeCorrect, WholeStep, PTL DEF Spec

-----------------------------------------------------------------------------
(* Threads.  A handle is stored together with a cleared stop flag and is   *)
(* forgotten when the flag is set, so the thread it belongs to has never   *)
(* seen the flag.  A thread that ends wipes the buffer, so data is in the  *)
(* tile only while another thread, or the one that stored it, is there.    *)

ThreadInv == BufferHasKeeper /\ HandleIsLive

\* A thread's step that leaves the thread alive, and everything the invariant is
\* about but this thread's place alone, keeps the invariant.
LEMMA MoveKeeps ==
    ASSUME TypeOK, ThreadInv, NEW t \in Thread, Alive(t), Alive(t)',
           \A u \in Thread \ {t} : thread'[u] = thread[u],
           UNCHANGED <<stop, hStatusThread, buffer>>,
           hStatusThread = t => thread'[t].at # "WIPE"
    PROVE  ThreadInv'
<1>1. \A u \in Thread : Alive(u)' <=> Alive(u)
  BY DEF Alive
<1>2. BufferHasKeeper'
  BY <1>1 DEF ThreadInv, BufferHasKeeper
<1>3. HandleIsLive'
  <2> SUFFICES ASSUME hStatusThread # NoThread
               PROVE  ~stop /\ Alive(hStatusThread)' /\ thread'[hStatusThread].at # "WIPE"
    BY DEF HandleIsLive, Alive
  <2>1. hStatusThread \in Thread /\ ~stop /\ Alive(hStatusThread)
        /\ thread[hStatusThread].at # "WIPE"
    BY DEF TypeOK, ThreadInv, HandleIsLive
  <2>2. Alive(hStatusThread)'
    BY <1>1, <2>1 DEF Alive
  <2>3. thread'[hStatusThread].at # "WIPE"
    BY <2>1
  <2> QED
    BY <2>1, <2>2, <2>3
<1> QED
  BY <1>2, <1>3 DEF ThreadInv

\* Every step keeps the threads, the handle and the data in order.
LEMMA ThreadStepKeeps == TypeOK /\ ThreadInv /\ [Next]_vars => ThreadInv'
<1> SUFFICES ASSUME TypeOK, ThreadInv, [Next]_vars PROVE ThreadInv'
  OBVIOUS
<1> USE TileAssumption DEF comVars, adviseVars, authVars
<1>0. ASSUME UNCHANGED <<stop, hStatusThread, thread>>, buffer' \in {buffer, Zero}
      PROVE  ThreadInv'
  BY <1>0 DEF ThreadInv, BufferHasKeeper, HandleIsLive, Alive
<1>1. CASE \/ SetUsageScenario \/ SetUnsupportedScenario \/ GetCredentialAt \/ UnAdviseReturn
           \/ SetDeselected \/ \E found \in BOOLEAN : GetSerialization(found)
           \/ WinlogonTakes \/ UNCHANGED vars
  BY <1>0, <1>1
     DEF SetUsageScenario, SetUnsupportedScenario, GetCredentialAt, UnAdviseReturn,
         SetDeselected, ClearInternalAuthState, GetSerialization, WinlogonTakes, vars
<1>2. ASSUME NEW next, UnAdviseLocked(next), UNCHANGED <<thread, buffer>> PROVE ThreadInv'
  BY <1>2
     DEF UnAdviseLocked, ThreadInv, BufferHasKeeper, HandleIsLive, Alive
<1>3. ASSUME NEW byProvider \in BOOLEAN, Release(byProvider) PROVE ThreadInv'
  BY <1>0, <1>2, <1>3 DEF Release
<1>4. CASE UnAdvise
  BY <1>2, <1>4 DEF UnAdvise
<1>5. CASE Advise
  <2>1. buffer' = buffer
    BY <1>5 DEF Advise
  <2>2. CASE UNCHANGED <<hStatusThread, thread>> /\ (hStatusThread # NoThread => stop' = stop)
    BY <2>1, <2>2
       DEF ThreadInv, BufferHasKeeper, HandleIsLive, Alive
  <2>3. ASSUME NEW t \in Thread, ~Alive(t), hStatusThread' = t, stop' = FALSE,
               thread' = [thread EXCEPT ![t] = [at |-> "TEST", token |-> NoBuffer]]
        PROVE  ThreadInv'
    <3>1. thread'[t].at = "TEST" /\ \A u \in Thread : Alive(u) => Alive(u)'
      BY <2>3 DEF TypeOK, Alive
    <3> QED
      BY <2>1, <2>3, <3>1
         DEF ThreadInv, BufferHasKeeper, HandleIsLive, Alive
  <2> QED
    BY <1>5, <2>2, <2>3 DEF Advise
<1>6. ASSUME NEW t \in Thread, NEW p \in Position \ {"NONE"}, GoTo(t, p), Alive(t),
             UNCHANGED <<stop, hStatusThread, buffer>>,
             hStatusThread = t => p # "WIPE"
      PROVE  ThreadInv'
  <2>1. thread'[t].at = p /\ \A u \in Thread \ {t} : thread'[u] = thread[u]
    BY <1>6 DEF GoTo, TypeOK
  <2> QED
    BY <1>6, <2>1, MoveKeeps DEF Alive, Position
<1>7. ASSUME NEW t \in Thread, TestStop(t) PROVE ThreadInv'
  <2>1. hStatusThread = t => ~stop
    BY DEF ThreadInv, HandleIsLive
  <2> QED
    BY <1>6, <1>7, <2>1 DEF TestStop, At, Alive, Position
<1>8. ASSUME NEW t \in Thread, FetchAuthState(t) PROVE ThreadInv'
  <2>1. thread'[t].at = "GOT" /\ \A u \in Thread \ {t} : thread'[u] = thread[u]
    BY <1>8 DEF FetchAuthState, TypeOK
  <2> QED
    BY <1>8, <2>1, MoveKeeps DEF FetchAuthState, At, Alive
<1>9. ASSUME NEW t \in Thread, RetestStop(t) PROVE ThreadInv'
  <2>1. hStatusThread = t => ~stop
    BY DEF ThreadInv, HandleIsLive
  <2>2. /\ thread'[t].at = IF stop THEN "WIPE" ELSE "STORE"
        /\ \A u \in Thread \ {t} : thread'[u] = thread[u]
    BY <1>9 DEF RetestStop, TypeOK
  <2> QED
    BY <1>9, <2>1, <2>2, MoveKeeps DEF RetestStop, At, Alive
<1>10. ASSUME NEW t \in Thread, Publish(t) PROVE ThreadInv'
  <2>1. thread'[t].at = "TELL" /\ \A u \in Thread \ {t} : thread'[u] = thread[u]
    BY <1>10 DEF Publish, TypeOK
  <2>2. Alive(t) /\ \A u \in Thread : Alive(u)' <=> Alive(u)
    BY <1>10, <2>1 DEF Publish, At, Alive
  <2>3. BufferHasKeeper'
    BY <2>2 DEF BufferHasKeeper
  <2>4. HandleIsLive'
    BY <1>10, <2>1, <2>2 DEF Publish, ThreadInv, HandleIsLive, TypeOK, Alive
  <2> QED
    BY <2>3, <2>4 DEF ThreadInv
<1>11. ASSUME NEW t \in Thread, TestEvents(t) \/ CallEvents(t) \/ Poll(t) PROVE ThreadInv'
  BY <1>6, <1>11 DEF TestEvents, CallEvents, Poll, At, Alive, Position
<1>12. ASSUME NEW t \in Thread, EndThread(t) PROVE ThreadInv'
  <2>1. buffer' = Zero
    BY <1>12 DEF EndThread, WipeOnExit, ClearInternalAuthState
  <2>2. \A u \in Thread \ {t} : thread'[u] = thread[u]
    BY <1>12 DEF EndThread, TypeOK
  <2>3. thread[t].at = "WIPE" /\ ~Alive(t)' /\ UNCHANGED <<stop, hStatusThread>>
    BY <1>12 DEF EndThread, At, Alive, NoToken, TypeOK
  <2>4. HandleIsLive'
    BY <2>2, <2>3 DEF ThreadInv, HandleIsLive, TypeOK, Alive
  <2> QED
    BY <2>1, <2>4 DEF ThreadInv, BufferHasKeeper
<1> QED
  BY <1>1, <1>3, <1>4, <1>5, <1>7, <1>8, <1>9, <1>10, <1>11, <1>12
     DEF Next, LogonUIStep, ThreadStep

\* Initially there is no thread and nothing to keep.
LEMMA ThreadInit == Init => ThreadInv
BY TileAssumption DEF Init, ThreadInv, BufferHasKeeper, HandleIsLive, Alive, NoToken

\* The threads of every reachable state are in order.
LEMMA ThreadsInOrder == Spec => []ThreadInv
BY ThreadInit, TypeCorrect, ThreadStepKeeps, PTL DEF Spec

\* Authentication data in the tile always has a status thread that will wipe it,
\* however many threads UnAdvise has given up waiting for.
THEOREM DataIsKept == Spec => []BufferHasKeeper
BY ThreadsInOrder, PTL DEF ThreadInv

\* Advise never trusts the handle of a thread that ends or was told to.
THEOREM HandleLive == Spec => []HandleIsLive
BY ThreadsInOrder, PTL DEF ThreadInv

-----------------------------------------------------------------------------
(* Exposure.  A thread that runs is the tile's own, the one UnAdvise waits *)
(* for, or one it gave up on: Advise starts none while there is a handle,  *)
(* and UnAdvise passes the handle on to its wait.  A destructor has no     *)
(* handle left after its wait.                                             *)

KnownThreads == \A t \in Thread : Alive(t) => t \in outlived \cup {hStatusThread, waiting}

ReleasedCalling == released \subseteq Calling

WaitsInUnAdvise ==
    /\ ui \in {"IDLE", "FREED"} => waiting = NoThread
    /\ ui \in {"DESTROYING", "FREED"} => hStatusThread = NoThread

ExposureInv == KnownThreads /\ ReleasedCalling /\ WaitsInUnAdvise

\* A thread that moves, and neither ends nor has called, is as exposed as before.
LEMMA MoveExposes ==
    ASSUME TypeOK, ExposureInv, NEW t \in Thread, Alive(t), thread[t].at # "CALL",
           \A u \in Thread \ {t} : thread'[u] = thread[u],
           UNCHANGED <<ui, hStatusThread, waiting, released, outlived>>
    PROVE  ExposureInv'
<1>1. KnownThreads'
  BY DEF ExposureInv, KnownThreads, Alive
<1>2. ReleasedCalling'
  BY DEF ExposureInv, ReleasedCalling, Calling
<1>3. WaitsInUnAdvise'
  BY DEF ExposureInv, WaitsInUnAdvise
<1> QED
  BY <1>1, <1>2, <1>3 DEF ExposureInv

\* Every step keeps every thread known.
LEMMA ExposureStep == TypeOK /\ ExposureInv /\ [Next]_vars => ExposureInv'
<1> SUFFICES ASSUME TypeOK, ExposureInv, [Next]_vars PROVE ExposureInv'
  OBVIOUS
<1> USE TileAssumption DEF comVars, adviseVars, authVars
<1>0. ASSUME UNCHANGED <<ui, hStatusThread, waiting, released, outlived, thread>>
      PROVE  ExposureInv'
  BY <1>0 DEF ExposureInv, KnownThreads, ReleasedCalling, WaitsInUnAdvise, Calling, Alive
<1>1. CASE \/ SetUsageScenario \/ SetUnsupportedScenario \/ GetCredentialAt
           \/ SetDeselected \/ \E found \in BOOLEAN : GetSerialization(found)
           \/ WinlogonTakes \/ UNCHANGED vars
  BY <1>0, <1>1
     DEF SetUsageScenario, SetUnsupportedScenario, GetCredentialAt, SetDeselected,
         GetSerialization, WinlogonTakes, vars
<1>2. ASSUME ui = "IDLE", NEW next \in {"UNADVISING", "DESTROYING"}, UnAdviseLocked(next),
             UNCHANGED thread
      PROVE  ExposureInv'
  BY <1>2
     DEF UnAdviseLocked, ExposureInv, KnownThreads, ReleasedCalling, WaitsInUnAdvise, Calling,
         Alive
<1>3. ASSUME NEW byProvider \in BOOLEAN, Release(byProvider) PROVE ExposureInv'
  BY <1>0, <1>2, <1>3 DEF Release
<1>4. CASE UnAdvise
  BY <1>2, <1>4 DEF UnAdvise, Callable
<1>5. CASE UnAdviseReturn
  BY <1>5
     DEF UnAdviseReturn, ExposureInv, KnownThreads, ReleasedCalling, WaitsInUnAdvise, Calling,
         Alive
<1>6. CASE Advise
  <2>1. ui = "IDLE" /\ waiting = NoThread /\ UNCHANGED <<ui, waiting, outlived>>
    BY <1>6 DEF Advise, Callable, ExposureInv, WaitsInUnAdvise
  <2>2. released' = released \cup Calling
    BY <1>6 DEF Advise
  <2>3. CASE UNCHANGED <<hStatusThread, thread>>
    BY <2>1, <2>2, <2>3
       DEF ExposureInv, KnownThreads, ReleasedCalling, WaitsInUnAdvise, Calling, Alive
  <2>4. ASSUME NEW t \in Thread, ~Alive(t), hStatusThread = NoThread, hStatusThread' = t,
               thread' = [thread EXCEPT ![t] = [at |-> "TEST", token |-> NoBuffer]]
        PROVE  ExposureInv'
    <3>1. \A u \in Thread \ {t} : thread'[u] = thread[u]
      BY <2>4 DEF TypeOK
    <3>2. t \notin Calling
      BY <2>4 DEF Calling, Alive
    <3> QED
      BY <2>1, <2>2, <2>4, <3>1, <3>2
         DEF ExposureInv, KnownThreads, ReleasedCalling, WaitsInUnAdvise, Calling, Alive
  <2> QED
    BY <1>6, <2>3, <2>4 DEF Advise
<1>7. ASSUME NEW t \in Thread,
             \/ TestStop(t) \/ FetchAuthState(t) \/ RetestStop(t) \/ Publish(t)
             \/ TestEvents(t) \/ Poll(t)
      PROVE  ExposureInv'
  <2>1. Alive(t) /\ thread[t].at # "CALL"
    BY <1>7
       DEF TestStop, FetchAuthState, RetestStop, Publish, TestEvents, Poll, At, Alive
  <2>2. \A u \in Thread \ {t} : thread'[u] = thread[u]
    BY <1>7
       DEF TestStop, FetchAuthState, RetestStop, Publish, TestEvents, Poll, GoTo, TypeOK
  <2>3. UNCHANGED <<ui, hStatusThread, waiting, released, outlived>>
    BY <1>7 DEF TestStop, FetchAuthState, RetestStop, Publish, TestEvents, Poll
  <2> QED
    BY <2>1, <2>2, <2>3, MoveExposes
<1>8. ASSUME NEW t \in Thread, CallEvents(t) PROVE ExposureInv'
  <2>1. \A u \in Thread \ {t} : thread'[u] = thread[u]
    BY <1>8 DEF CallEvents, GoTo, TypeOK
  <2>2. Alive(t) /\ released' = released \ {t} /\ ui' \in {ui, "CRASHED"}
    BY <1>8 DEF CallEvents, At, Alive
  <2>3. UNCHANGED <<hStatusThread, waiting, outlived>>
    BY <1>8 DEF CallEvents
  <2>4. KnownThreads'
    BY <2>1, <2>2, <2>3 DEF ExposureInv, KnownThreads, Alive
  <2>5. ReleasedCalling'
    BY <2>1, <2>2 DEF ExposureInv, ReleasedCalling, Calling
  <2>6. WaitsInUnAdvise'
    BY <2>2, <2>3 DEF ExposureInv, WaitsInUnAdvise
  <2> QED
    BY <2>4, <2>5, <2>6 DEF ExposureInv
<1>9. ASSUME NEW t \in Thread, EndThread(t) PROVE ExposureInv'
  <2>1. \A u \in Thread \ {t} : thread'[u] = thread[u]
    BY <1>9 DEF EndThread, TypeOK
  <2>2. thread[t].at = "WIPE" /\ ~Alive(t)'
    BY <1>9 DEF EndThread, At, Alive, NoToken, TypeOK
  <2>3. UNCHANGED <<ui, hStatusThread, waiting, released>> /\ outlived' = outlived \ {t}
    BY <1>9 DEF EndThread
  <2>4. KnownThreads'
    BY <2>1, <2>2, <2>3 DEF ExposureInv, KnownThreads, Alive
  <2>5. ReleasedCalling'
    BY <2>1, <2>2, <2>3 DEF ExposureInv, ReleasedCalling, Calling
  <2>6. WaitsInUnAdvise'
    BY <2>3 DEF ExposureInv, WaitsInUnAdvise
  <2> QED
    BY <2>4, <2>5, <2>6 DEF ExposureInv
<1> QED
  BY <1>1, <1>3, <1>4, <1>5, <1>6, <1>7, <1>8, <1>9 DEF Next, LogonUIStep, ThreadStep

\* A status thread uses a freed tile or released events only when a wait of
\* UnAdvise gave up on it, whatever the order of Advise, UnAdvise, Release and the
\* threads, but for events that a second Advise replaced under the tile's thread.
THEOREM GoneForOutlived == Spec => []GoneOnlyForOutlived
<1>1. Init => ExposureInv
  BY DEF Init, ExposureInv, KnownThreads, ReleasedCalling, WaitsInUnAdvise, Alive, NoToken
<1>2. TypeOK /\ ExposureInv => GoneOnlyForOutlived
  BY TileAssumption
     DEF TypeOK, ExposureInv, KnownThreads, ReleasedCalling, WaitsInUnAdvise, Calling, Alive,
         GoneOnlyForOutlived
<1> QED
  BY <1>1, <1>2, TypeCorrect, ExposureStep, PTL DEF Spec
=============================================================================
