------------------------- MODULE LockDispatchProofs -------------------------
(***************************************************************************)
(* For every set of clients and message ids and any number of crashes and  *)
(* restarts: the state is well typed, no client is sent more LOCK_RESPONSE *)
(* frames than it sent lock requests, every SUCCESS is backed by a lock of *)
(* its own, and the workstation is locked at most once for each request    *)
(* that was passed on, whoever has the pipe.                               *)
(***************************************************************************)
EXTENDS LockDispatch, FunctionTheorems, FiniteSetTheorems, TLAPS

\* Sending a reply keeps the counts of replies well typed.
LEMMA ReplyTyped ==
    ASSUME TypeOK, NEW c \in Client, NEW i \in MessageId \cup {NoMessage},
           NEW status \in Status, SendReply(c, i, status)
    PROVE  /\ got' \in [Client -> Nat]
           /\ successes' \in Nat
BY DEF TypeOK, SendReply

\* The initial state is well typed.
LEMMA TypeInit == Init => TypeOK
BY LockAssumption
   DEF Init, TypeOK, Worker, IdleWorker, Ipc, IdleIpc, Agent, IdleAgent, Status

\* Every step keeps the state well typed.
LEMMA TypeStep == TypeOK /\ [Next]_vars => TypeOK'
<1> SUFFICES ASSUME TypeOK, [Next]_vars PROVE TypeOK'
  OBVIOUS
<1> USE LockAssumption DEF TypeOK, serviceVars, slotVars, askVars, pipeVars, agentVars, replyVars, lockVars,
                            faults
<1>0. /\ IdleWorker \in Worker /\ IdleIpc \in Ipc /\ IdleAgent \in Agent /\ NoAgent \in Agent
      /\ \A c \in Client : worker[c].at # "IDLE" => worker[c].id \in MessageId
  BY DEF IdleWorker, Worker, IdleIpc, Ipc, Agent
<1>1. ASSUME NEW c \in Client, NEW i \in MessageId, RefuseUnauthorized(c, i) PROVE TypeOK'
  <2>1. [client |-> c, id |-> i] \in Request /\ "FAILURE" \in Status
    BY DEF Request, Status
  <2>2. got' \in [Client -> Nat] /\ successes' \in Nat
    BY <1>1, <2>1, ReplyTyped DEF RefuseUnauthorized
  <2> QED
    BY <1>1, <2>1, <2>2 DEF RefuseUnauthorized, AskFor
<1>2. ASSUME NEW c \in Client, NEW i \in MessageId, AdmitRequest(c, i) PROVE TypeOK'
  BY <1>2 DEF AdmitRequest, AskFor, Request, Worker
<1>3. ASSUME NEW c \in Client, RefuseNoAgent(c) PROVE TypeOK'
  BY <1>0, <1>3, ReplyTyped DEF RefuseNoAgent, Status
<1>4. ASSUME NEW c \in Client, NEW at \in {"CLIENT", "MESSAGE", "SEND"}, worker[c].at # "IDLE"
      PROVE  [worker EXCEPT ![c].at = at] \in [Client -> Worker]
  <2>1. PICK w \in [at : {"CONNECTED", "CLIENT", "MESSAGE", "SEND"}, id : MessageId] :
             w = worker[c]
    BY <1>4 DEF Worker, IdleWorker
  <2>2. [w EXCEPT !.at = at] \in Worker
    BY DEF Worker
  <2>3. [worker EXCEPT ![c].at = at] = [worker EXCEPT ![c] = [w EXCEPT !.at = at]]
    BY <2>1
  <2> QED
    BY <2>2, <2>3
<1>5. ASSUME NEW c \in Client, FindAgent(c) \/ StoreClient(c) \/ StoreMessage(c) PROVE TypeOK'
  <2>1. [client |-> c, id |-> worker[c].id] \in Request
    BY <1>0, <1>5 DEF FindAgent, StoreClient, StoreMessage, Request
  <2> QED
    BY <1>0, <1>4, <1>5, <2>1 DEF FindAgent, StoreClient, StoreMessage
<1>6. ASSUME NEW c \in Client, Dispatch(c) PROVE TypeOK'
  BY <1>0, <1>6 DEF Dispatch
<1>7. CASE Accept
  BY <1>7 DEF Accept
<1>8. CASE DropPipe
  BY <1>8 DEF DropPipe
<1>9. CASE TakeClient
  <2>1. toService \in Seq(LockResponse \cup {Probe}) /\ toService # <<>>
    BY <1>9 DEF TakeClient
  <2>2. /\ Head(toService) \in LockResponse
        /\ Tail(toService) \in Seq(LockResponse \cup {Probe})
    BY <1>9, <2>1 DEF TakeClient, IsLockResponse
  <2>3. ipc' \in Ipc
    BY <1>9, <2>2 DEF TakeClient, Ipc, LockResponse
  <2> QED
    BY <1>9, <2>2, <2>3 DEF TakeClient, ExchangeClient
<1>10. CASE LoadMessage
  <2>1. PICK i \in [at     : {"LOAD", "REPLY"},
                    client : Client \cup {NoClient},
                    id     : MessageId \cup {NoMessage},
                    status : Status] : i = ipc
    BY <1>10 DEF LoadMessage, Ipc, IdleIpc
  <2>2. [i EXCEPT !.at = "REPLY", !.id = slotMessage] \in Ipc
    BY DEF Ipc
  <2> QED
    BY <1>10, <2>1, <2>2 DEF LoadMessage
<1>11. CASE Forward
  <2>1. ipc.client \in Client \cup {NoClient} /\ ipc.id \in MessageId \cup {NoMessage}
        /\ ipc.status \in Status
    BY DEF Ipc, IdleIpc, Status
  <2> QED
    BY <1>0, <1>11, <2>1, ReplyTyped DEF Forward
<1>12. CASE AgentConnect
  BY <1>12 DEF AgentConnect, OpenPipe
<1>13. ASSUME NEW ok \in BOOLEAN, AgentLock(ok) PROVE TypeOK'
  <2>1. toClient \in Seq(MessageId) /\ toClient # <<>>
    BY <1>13 DEF AgentLock
  <2>2. Head(toClient) \in MessageId /\ Tail(toClient) \in Seq(MessageId)
    BY <2>1
  <2>3. agent' \in Agent
    BY <1>13, <2>2 DEF AgentLock, LockStatus, Agent, Status
  <2> QED
    BY <1>13, <2>2, <2>3 DEF AgentLock
<1>14. CASE AgentRespond
  <2>1. agent.id \in MessageId /\ agent.status \in Status
    BY <1>14 DEF AgentRespond, Agent, IdleAgent, NoAgent
  <2>2. [id |-> agent.id, status |-> agent.status] \in LockResponse
    BY <2>1 DEF LockResponse
  <2>3. toService' \in Seq(LockResponse \cup {Probe})
    BY <1>14, <2>2 DEF AgentRespond
  <2> QED
    BY <1>0, <1>14, <2>3 DEF AgentRespond
<1>15. CASE AgentCrash
  <2>1. peer' \in {"NONE", "AGENT", "TILE", "GONE"} /\ toClient' \in Seq(MessageId)
        /\ UNCHANGED <<server, toService>>
    <3>1. CASE peer = "AGENT"
      BY <1>15, <3>1 DEF AgentCrash, ClosePipe
    <3>2. CASE peer # "AGENT"
      BY <1>15, <3>2 DEF AgentCrash
    <3> QED
      BY <3>1, <3>2
  <2> QED
    BY <1>0, <1>15, <2>1 DEF AgentCrash
<1>16. CASE AgentStart
  BY <1>0, <1>16 DEF AgentStart
<1>17. CASE ServiceRestart
  BY <1>0, <1>17 DEF ServiceRestart
<1>18. CASE IgnoreProbe
  <2>1. Tail(toService) \in Seq(LockResponse \cup {Probe})
    BY <1>18 DEF IgnoreProbe
  <2> QED
    BY <1>18, <2>1 DEF IgnoreProbe
<1>19. CASE TileConnect \/ TileStep
  <2>1. Append(toService, Probe) \in Seq(LockResponse \cup {Probe})
    OBVIOUS
  <2>2. CASE TileConnect
    BY <2>2 DEF TileConnect, OpenPipe
  <2>3. CASE TileProbe
    BY <2>1, <2>3 DEF TileProbe
  <2>4. CASE TileLeave
    BY <2>4 DEF TileLeave, ClosePipe
  <2> QED
    BY <1>19, <2>2, <2>3, <2>4 DEF TileStep
<1>20. CASE UNCHANGED vars
  BY <1>20 DEF vars
<1> QED
  BY <1>1, <1>2, <1>3, <1>5, <1>6, <1>7, <1>8, <1>9, <1>10, <1>11, <1>12, <1>13, <1>14, <1>15,
     <1>16, <1>17, <1>18, <1>19, <1>20
     DEF Next, Receive, WorkerStep, ServerStep, AgentStep

\* The lock path keeps its shape.
THEOREM TypeCorrect == Spec => []TypeOK
BY TypeInit, TypeStep, PTL DEF Spec

-----------------------------------------------------------------------------
(* Why no client is answered too often.  A request of c entitles c to one  *)
(* reply, and until it is used the entitlement is in at most one place:    *)
(* with c's thread before it fills the slot, in the slot, or with the      *)
(* thread of the pipe after the exchange.  An overwritten slot loses one.  *)

Requests(c) == Cardinality({r \in asked : r.client = c})

WithWorker(c) == IF worker[c].at \in {"CONNECTED", "CLIENT"} THEN 1 ELSE 0

InSlot(c) == IF slotClient = c THEN 1 ELSE 0

WithPipe(c) == IF ipc.client = c THEN 1 ELSE 0

\* Replies sent and replies a client may still be sent never exceed its requests.
Entitled == \A c \in Client : got[c] + WithWorker(c) + InSlot(c) + WithPipe(c) <= Requests(c)

\* Nobody sends infinitely many requests in a finite behaviour.
FiniteRequests == IsFiniteSet(asked)

ReplyInv == TypeOK /\ FiniteRequests /\ Entitled

\* The requests of one client are finitely many.
LEMMA RequestsNat == ASSUME FiniteRequests, NEW c \in Client PROVE Requests(c) \in Nat
<1>1. {r \in asked : r.client = c} \subseteq asked
  OBVIOUS
<1> QED
  BY <1>1, FS_Subset, FS_CardinalityType DEF FiniteRequests, Requests

\* A new request adds one to its client's requests and none to another's.
LEMMA RequestsGrow ==
    ASSUME FiniteRequests, NEW c \in Client, NEW i \in MessageId,
           [client |-> c, id |-> i] \notin asked,
           asked' = asked \cup {[client |-> c, id |-> i]}
    PROVE  /\ FiniteRequests'
           /\ Requests(c)' = Requests(c) + 1
           /\ \A d \in Client \ {c} : Requests(d)' = Requests(d)
<1> DEFINE r == [client |-> c, id |-> i]
<1>1. FiniteRequests'
  BY FS_AddElement DEF FiniteRequests
<1>2. IsFiniteSet({s \in asked : s.client = c})
  <2>1. {s \in asked : s.client = c} \subseteq asked
    OBVIOUS
  <2> QED
    BY <2>1, FS_Subset DEF FiniteRequests
<1>3. {s \in asked' : s.client = c} = {s \in asked : s.client = c} \cup {r}
  OBVIOUS
<1>4. Requests(c)' = Requests(c) + 1
  BY <1>2, <1>3, FS_AddElement DEF Requests
<1>5. ASSUME NEW d \in Client \ {c} PROVE Requests(d)' = Requests(d)
  <2>1. {s \in asked' : s.client = d} = {s \in asked : s.client = d}
    OBVIOUS
  <2> QED
    BY <2>1 DEF Requests
<1> QED
  BY <1>1, <1>4, <1>5

\* Initially nothing was asked and nothing is owed.
LEMMA ReplyInit == Init => ReplyInv
<1> SUFFICES ASSUME Init PROVE FiniteRequests /\ Entitled
  BY TypeInit DEF ReplyInv
<1>1. FiniteRequests
  BY FS_EmptySet DEF Init, FiniteRequests
<1>2. ASSUME NEW c \in Client PROVE Requests(c) = 0
  <2>1. {r \in asked : r.client = c} = {}
    BY DEF Init
  <2> QED
    BY <2>1, FS_EmptySet DEF Requests
<1>3. ASSUME NEW c \in Client
      PROVE  got[c] = 0 /\ WithWorker(c) = 0 /\ InSlot(c) = 0 /\ WithPipe(c) = 0
  BY <1>3, LockAssumption DEF Init, WithWorker, InSlot, WithPipe, IdleWorker, IdleIpc
<1> QED
  BY <1>1, <1>2, <1>3 DEF Entitled

\* No step gives a client more replies than it has requests.
LEMMA ReplyStep == ReplyInv /\ [Next]_vars => ReplyInv'
<1> SUFFICES ASSUME ReplyInv, [Next]_vars PROVE FiniteRequests' /\ Entitled'
  BY TypeStep DEF ReplyInv
<1> USE LockAssumption DEF serviceVars, slotVars, askVars, pipeVars, agentVars, replyVars, lockVars, faults
<1>0. TypeOK /\ TypeOK' /\ FiniteRequests /\ Entitled
  BY TypeStep DEF ReplyInv
<1>n. \A c \in Client : Requests(c) \in Nat /\ got[c] \in Nat
  BY <1>0, RequestsNat DEF TypeOK
<1>k. ASSUME asked' = asked,
             \A c \in Client : got'[c] + WithWorker(c)' + InSlot(c)' + WithPipe(c)'
                                 <= got[c] + WithWorker(c) + InSlot(c) + WithPipe(c)
      PROVE  FiniteRequests' /\ Entitled'
  <2>1. FiniteRequests' /\ \A c \in Client : Requests(c)' = Requests(c)
    BY <1>0, <1>k DEF FiniteRequests, Requests
  <2>2. \A c \in Client : /\ got'[c] \in Nat
                          /\ WithWorker(c) \in Nat /\ InSlot(c) \in Nat /\ WithPipe(c) \in Nat
                          /\ WithWorker(c)' \in Nat /\ InSlot(c)' \in Nat /\ WithPipe(c)' \in Nat
    BY <1>0 DEF TypeOK, WithWorker, InSlot, WithPipe
  <2> QED
    BY <1>0, <1>n, <1>k, <2>1, <2>2 DEF Entitled
<1>1. ASSUME NEW c \in Client, NEW i \in MessageId, RefuseUnauthorized(c, i)
      PROVE  FiniteRequests' /\ Entitled'
  <2>1. /\ FiniteRequests'
        /\ Requests(c)' = Requests(c) + 1
        /\ \A d \in Client \ {c} : Requests(d)' = Requests(d)
    BY <1>0, <1>1, RequestsGrow DEF RefuseUnauthorized, AskFor
  <2>2. /\ got'[c] = got[c] + 1
        /\ \A d \in Client \ {c} : got'[d] = got[d]
        /\ \A d \in Client : /\ WithWorker(d)' = WithWorker(d)
                             /\ InSlot(d)' = InSlot(d)
                             /\ WithPipe(d)' = WithPipe(d)
    BY <1>0, <1>1 DEF RefuseUnauthorized, SendReply, TypeOK, WithWorker, InSlot, WithPipe
  <2>3. \A d \in Client : WithWorker(d) \in Nat /\ InSlot(d) \in Nat /\ WithPipe(d) \in Nat
    BY DEF WithWorker, InSlot, WithPipe
  <2> QED
    BY <1>0, <1>n, <2>1, <2>2, <2>3 DEF Entitled
<1>2. ASSUME NEW c \in Client, NEW i \in MessageId, AdmitRequest(c, i)
      PROVE  FiniteRequests' /\ Entitled'
  <2>1. /\ FiniteRequests'
        /\ Requests(c)' = Requests(c) + 1
        /\ \A d \in Client \ {c} : Requests(d)' = Requests(d)
    BY <1>0, <1>2, RequestsGrow DEF AdmitRequest, AskFor
  <2>2. /\ WithWorker(c)' = 1 /\ WithWorker(c) = 0
        /\ \A d \in Client \ {c} : WithWorker(d)' = WithWorker(d)
        /\ \A d \in Client : /\ got'[d] = got[d]
                             /\ InSlot(d)' = InSlot(d)
                             /\ WithPipe(d)' = WithPipe(d)
    BY <1>0, <1>2 DEF AdmitRequest, AskFor, TypeOK, WithWorker, InSlot, WithPipe
  <2>3. \A d \in Client : WithWorker(d) \in Nat /\ InSlot(d) \in Nat /\ WithPipe(d) \in Nat
    BY DEF WithWorker, InSlot, WithPipe
  <2> QED
    BY <1>0, <1>n, <2>1, <2>2, <2>3 DEF Entitled
<1>3. ASSUME NEW c \in Client, RefuseNoAgent(c) PROVE FiniteRequests' /\ Entitled'
  BY <1>0, <1>n, <1>3, <1>k
     DEF RefuseNoAgent, SendReply, TypeOK, WithWorker, InSlot, WithPipe, IdleWorker
<1>4. ASSUME NEW c \in Client, FindAgent(c) PROVE FiniteRequests' /\ Entitled'
  BY <1>0, <1>n, <1>4, <1>k DEF FindAgent, TypeOK, WithWorker, InSlot, WithPipe
<1>5. ASSUME NEW c \in Client, StoreClient(c) PROVE FiniteRequests' /\ Entitled'
  BY <1>0, <1>n, <1>5, <1>k, SMTT(30) DEF StoreClient, TypeOK, WithWorker, InSlot, WithPipe
<1>6. ASSUME NEW c \in Client, StoreMessage(c) \/ Dispatch(c) PROVE FiniteRequests' /\ Entitled'
  <2>1. CASE StoreMessage(c)
    BY <1>0, <1>n, <2>1, <1>k, SMTT(30) DEF StoreMessage, TypeOK, WithWorker, InSlot, WithPipe
  <2>2. CASE Dispatch(c)
    BY <1>0, <1>n, <2>2, <1>k DEF Dispatch, IdleWorker, TypeOK, WithWorker, InSlot, WithPipe
  <2> QED
    BY <1>6, <2>1, <2>2
<1>7. CASE TakeClient
  BY <1>0, <1>n, <1>7, <1>k
     DEF TakeClient, ExchangeClient, IdleIpc, TypeOK, WithWorker, InSlot, WithPipe
<1>8. CASE LoadMessage
  <2>1. ipc'.client = ipc.client
    BY <1>0, <1>8 DEF LoadMessage, TypeOK, Ipc, IdleIpc
  <2> QED
    BY <1>0, <1>n, <1>8, <1>k, <2>1 DEF LoadMessage, WithWorker, InSlot, WithPipe
<1>9. CASE Forward
  <2>1. ipc.client \in Client \cup {NoClient}
    BY <1>0 DEF TypeOK, Ipc, IdleIpc
  <2> QED
    BY <1>0, <1>n, <1>9, <1>k, <2>1
       DEF Forward, SendReply, IdleIpc, TypeOK, WithWorker, InSlot, WithPipe
<1>10. CASE ServiceRestart
  BY <1>0, <1>n, <1>10, <1>k
     DEF ServiceRestart, IdleWorker, IdleIpc, TypeOK, WithWorker, InSlot, WithPipe
<1>11. CASE \/ Accept \/ DropPipe \/ IgnoreProbe \/ AgentStep \/ TileConnect \/ TileStep
            \/ AgentCrash \/ AgentStart \/ UNCHANGED vars
  <2>1. UNCHANGED <<worker, slotClient, ipc, asked, got>>
    BY <1>11
       DEF Accept, DropPipe, IgnoreProbe, AgentStep, AgentConnect, AgentLock, AgentRespond,
           TileConnect, TileStep, TileProbe, TileLeave, AgentCrash, AgentStart, vars
  <2> QED
    BY <1>n, <1>k, <2>1 DEF WithWorker, InSlot, WithPipe
<1> QED
  BY <1>1, <1>2, <1>3, <1>4, <1>5, <1>6, <1>7, <1>8, <1>9, <1>10, <1>11
     DEF Next, Receive, WorkerStep, ServerStep

\* The entitlements of all clients are accounted for in every reachable state.
THEOREM RepliesCounted == Spec => []ReplyInv
BY ReplyInit, ReplyStep, PTL DEF Spec

\* However the threads that share the slot interleave, and whatever crashes, no
\* client is sent more LOCK_RESPONSE frames than it sent requests.
THEOREM NoExtraReply == Spec => []NoUnaskedReply
<1>1. ReplyInv => NoUnaskedReply
  <2> SUFFICES ASSUME ReplyInv, NEW c \in Client PROVE got[c] <= Requests(c)
    BY DEF NoUnaskedReply, Requests
  <2>1. /\ got[c] \in Nat /\ Requests(c) \in Nat
        /\ WithWorker(c) \in Nat /\ InSlot(c) \in Nat /\ WithPipe(c) \in Nat
        /\ got[c] + WithWorker(c) + InSlot(c) + WithPipe(c) <= Requests(c)
    BY RequestsNat DEF ReplyInv, TypeOK, WithWorker, InSlot, WithPipe, Entitled
  <2> QED
    BY <2>1
<1> QED
  BY <1>1, RepliesCounted, PTL

-----------------------------------------------------------------------------
(* The messages of the pipe are counted by their positions.                *)

Positions(q, S) == {k \in 1..Len(q) : q[k] \in S}

\* The positions of a pipe are finitely many.
LEMMA PositionsNat ==
    ASSUME NEW T, NEW S, NEW q \in Seq(T)
    PROVE  IsFiniteSet(Positions(q, S)) /\ Cardinality(Positions(q, S)) \in Nat
<1>1. IsFiniteSet(1..Len(q))
  BY FS_Interval
<1>2. Positions(q, S) \in SUBSET (1..Len(q))
  BY DEF Positions
<1> QED
  BY <1>1, <1>2, FS_Subset, FS_CardinalityType

\* An empty pipe holds nothing.
LEMMA PositionsEmpty == ASSUME NEW S PROVE Cardinality(Positions(<<>>, S)) = 0
<1>1. Positions(<<>>, S) = {}
  BY DEF Positions
<1> QED
  BY <1>1, FS_EmptySet

\* A message that is sent counts for what it is.
LEMMA PositionsAppend ==
    ASSUME NEW T, NEW S, NEW q \in Seq(T), NEW m \in T
    PROVE  Cardinality(Positions(Append(q, m), S))
              <= Cardinality(Positions(q, S)) + (IF m \in S THEN 1 ELSE 0)
<1> DEFINE r == Append(q, m)
           n == Len(q) + 1
<1>1. Len(r) = n /\ r[n] = m /\ \A k \in 1..Len(q) : r[k] = q[k]
  OBVIOUS
<1>2. CASE m \in S
  <2>1. Positions(r, S) = Positions(q, S) \cup {n}
    BY <1>1, <1>2 DEF Positions
  <2>2. Cardinality(Positions(q, S) \cup {n}) <= Cardinality(Positions(q, S)) + 1
    <3>1. IsFiniteSet(Positions(q, S)) /\ Cardinality(Positions(q, S)) \in Nat
      BY PositionsNat
    <3>2. \/ Cardinality(Positions(q, S) \cup {n}) = Cardinality(Positions(q, S))
          \/ Cardinality(Positions(q, S) \cup {n}) = Cardinality(Positions(q, S)) + 1
      BY <3>1, FS_AddElement
    <3> QED
      BY <3>1, <3>2
  <2> QED
    BY <1>2, <2>1, <2>2
<1>3. CASE m \notin S
  <2>1. Positions(r, S) = Positions(q, S)
    BY <1>1, <1>3 DEF Positions
  <2>2. Cardinality(Positions(q, S)) \in Nat
    BY PositionsNat
  <2> QED
    BY <1>3, <2>1, <2>2
<1> QED
  BY <1>2, <1>3

\* A message that is read no longer counts in the pipe.
LEMMA PositionsTail ==
    ASSUME NEW T, NEW S, NEW q \in Seq(T), q # <<>>
    PROVE  Cardinality(Positions(Tail(q), S)) + (IF Head(q) \in S THEN 1 ELSE 0)
              <= Cardinality(Positions(q, S))
<1> DEFINE P == Positions(Tail(q), S)
           Q == Positions(q, S) \ {1}
           shift == [k \in P |-> k + 1]
<1>0. /\ Tail(q) \in Seq(T) /\ Len(Tail(q)) = Len(q) - 1 /\ Len(q) \in Nat \ {0}
      /\ Head(q) = q[1] /\ \A k \in 1..Len(Tail(q)) : Tail(q)[k] = q[k + 1]
  OBVIOUS
<1>1. shift \in [P -> Q]
  BY <1>0 DEF Positions
<1>2. \A a, b \in P : shift[a] = shift[b] => a = b
  BY DEF Positions
<1>3. shift \in Injection(P, Q)
  BY <1>1, <1>2, Fun_IsInj
<1>4. /\ IsFiniteSet(Positions(q, S)) /\ Cardinality(Positions(q, S)) \in Nat
      /\ Cardinality(P) \in Nat
  BY <1>0, PositionsNat
<1>5. /\ IsFiniteSet(Q)
      /\ Cardinality(Q) = IF 1 \in Positions(q, S) THEN Cardinality(Positions(q, S)) - 1
                          ELSE Cardinality(Positions(q, S))
  BY <1>4, FS_RemoveElement
<1>6. Cardinality(P) <= Cardinality(Q)
  BY <1>3, <1>5, FS_Injection
<1>7. 1 \in Positions(q, S) <=> Head(q) \in S
  BY <1>0 DEF Positions
<1> QED
  BY <1>4, <1>5, <1>6, <1>7

-----------------------------------------------------------------------------
(* Why a SUCCESS is backed.  A LockWorkStation call that succeeded is in   *)
(* at most one place until it is reported: with the agent, in the pipe or  *)
(* with the thread of the pipe server.  A crash or a restart only loses    *)
(* some.                                                                   *)

Success == {m \in LockResponse : m.status = "SUCCESS"}

InPipe == Cardinality(Positions(toService, Success))

WithAgent == IF agent.at = "RESPOND" /\ agent.status = "SUCCESS" THEN 1 ELSE 0

WithServer == IF ipc.at # "IDLE" /\ ipc.status = "SUCCESS" THEN 1 ELSE 0

\* Every successful lock was reported at most once, or can still be.
Backed == successes + WithServer + InPipe + WithAgent <= lockCalls

\* The counts are natural numbers, and an empty pipe holds nothing.
LEMMA BackedNat ==
    ASSUME TypeOK, TypeOK'
    PROVE  /\ WithServer \in Nat /\ InPipe \in Nat /\ WithAgent \in Nat
           /\ WithServer' \in Nat /\ InPipe' \in Nat /\ WithAgent' \in Nat
           /\ successes \in Nat /\ successes' \in Nat
           /\ lockCalls \in Nat /\ lockCalls' \in Nat
           /\ toService' = <<>> => InPipe' = 0
<1>1. /\ toService \in Seq(LockResponse \cup {Probe})
      /\ toService' \in Seq(LockResponse \cup {Probe})
  BY DEF TypeOK
<1>2. InPipe \in Nat /\ InPipe' \in Nat
  BY <1>1, PositionsNat DEF InPipe
<1>3. toService' = <<>> => InPipe' = 0
  BY PositionsEmpty DEF InPipe
<1> QED
  BY <1>2, <1>3 DEF WithServer, WithAgent, TypeOK

\* Every step keeps every reported SUCCESS backed.
LEMMA BackedStep == TypeOK /\ Backed /\ [Next]_vars => Backed'
<1> SUFFICES ASSUME TypeOK, Backed, [Next]_vars PROVE Backed'
  OBVIOUS
<1> USE DEF serviceVars, slotVars, askVars, pipeVars, agentVars, replyVars, lockVars, faults
<1>0. TypeOK'
  BY TypeStep
<1>n. /\ WithServer \in Nat /\ InPipe \in Nat /\ WithAgent \in Nat
      /\ WithServer' \in Nat /\ InPipe' \in Nat /\ WithAgent' \in Nat
      /\ successes \in Nat /\ successes' \in Nat
      /\ lockCalls \in Nat /\ lockCalls' \in Nat
      /\ toService' = <<>> => InPipe' = 0
  BY <1>0, BackedNat
<1>k. ASSUME successes' = successes, lockCalls' = lockCalls, InPipe' <= InPipe,
             WithServer' <= WithServer, WithAgent' <= WithAgent
      PROVE  Backed'
  BY <1>n, <1>k DEF Backed, InPipe, WithServer, WithAgent
<1>u. ASSUME UNCHANGED <<successes, lockCalls, toService, ipc, agent>> PROVE Backed'
  BY <1>n, <1>k, <1>u DEF InPipe, WithServer, WithAgent
<1>1. ASSUME NEW c \in Client, Receive(c) PROVE Backed'
  BY <1>1, <1>u DEF Receive, RefuseUnauthorized, AdmitRequest, AskFor, SendReply
<1>2. ASSUME NEW c \in Client, WorkerStep(c) PROVE Backed'
  BY <1>2, <1>u
     DEF WorkerStep, RefuseNoAgent, FindAgent, StoreClient, StoreMessage, Dispatch, SendReply
<1>3. CASE Accept \/ AgentConnect \/ TileConnect \/ TileLeave \/ UNCHANGED vars
  BY <1>3, <1>u DEF Accept, AgentConnect, OpenPipe, TileConnect, TileLeave, ClosePipe, vars
<1>4. CASE DropPipe
  BY <1>4, <1>n, <1>k DEF DropPipe, WithServer, WithAgent
<1>5. CASE TakeClient
  <2>0. /\ InPipe' + (IF Head(toService) \in Success THEN 1 ELSE 0) <= InPipe
        /\ Head(toService) \in LockResponse
    <3>1. toService \in Seq(LockResponse \cup {Probe}) /\ toService # <<>>
      BY <1>5 DEF TakeClient, TypeOK
    <3>2. Head(toService) \in LockResponse
      BY <1>5, <3>1 DEF TakeClient, IsLockResponse
    <3> QED
      BY <1>5, <3>1, <3>2, PositionsTail DEF TakeClient, InPipe
  <2>1. InPipe' + (IF Head(toService).status = "SUCCESS" THEN 1 ELSE 0) <= InPipe
    BY <2>0 DEF Success
  <2>2. WithServer = 0
    BY <1>5 DEF TakeClient, WithServer, IdleIpc
  <2>3. WithServer' = IF Head(toService).status = "SUCCESS" THEN 1 ELSE 0
    BY <1>5 DEF TakeClient, WithServer
  <2>4. UNCHANGED <<successes, lockCalls, WithAgent>>
    BY <1>5 DEF TakeClient, WithAgent
  <2> QED
    BY <1>n, <2>1, <2>2, <2>3, <2>4 DEF Backed, InPipe, WithServer, WithAgent
<1>6. CASE LoadMessage
  <2>1. WithServer' = WithServer
    BY <1>6 DEF LoadMessage, WithServer, TypeOK, Ipc, IdleIpc
  <2> QED
    BY <1>6, <1>n, <1>k, <2>1 DEF LoadMessage, InPipe, WithAgent
<1>7. CASE Forward
  <2>1. WithServer' = 0 /\ WithServer = IF ipc.status = "SUCCESS" THEN 1 ELSE 0
    BY <1>7 DEF Forward, WithServer, IdleIpc
  <2>2. successes' <= successes + WithServer
    BY <1>7, <1>n, <2>1 DEF Forward, SendReply
  <2>3. UNCHANGED <<lockCalls, InPipe, WithAgent>>
    BY <1>7 DEF Forward, InPipe, WithAgent
  <2> QED
    BY <1>n, <2>1, <2>2, <2>3 DEF Backed, InPipe, WithServer, WithAgent
<1>8. ASSUME NEW ok \in BOOLEAN, AgentLock(ok) PROVE Backed'
  <2>1. WithAgent = 0
    BY <1>8 DEF AgentLock, WithAgent
  <2>2. WithAgent' = (IF ok THEN 1 ELSE 0) /\ lockCalls' = lockCalls + (IF ok THEN 1 ELSE 0)
    BY <1>8, <1>n DEF AgentLock, WithAgent, LockStatus
  <2>3. UNCHANGED <<successes, InPipe, WithServer>>
    BY <1>8 DEF AgentLock, InPipe, WithServer
  <2> QED
    BY <1>n, <2>1, <2>2, <2>3 DEF Backed, InPipe, WithServer, WithAgent
<1>9. CASE AgentRespond
  <2>1. WithAgent' = 0 /\ WithAgent = IF agent.status = "SUCCESS" THEN 1 ELSE 0
    BY <1>9 DEF AgentRespond, WithAgent, IdleAgent
  <2>2. InPipe' <= InPipe + WithAgent
    <3>1. CASE peer = "AGENT"
      <4> DEFINE m == [id |-> agent.id, status |-> agent.status]
      <4>1. m \in LockResponse /\ toService' = Append(toService, m) /\ m.status = agent.status
        BY <1>9, <3>1 DEF AgentRespond, TypeOK, Agent, IdleAgent, NoAgent, LockResponse
      <4>2. InPipe' <= InPipe + (IF m \in Success THEN 1 ELSE 0)
        BY <4>1, PositionsAppend DEF InPipe, TypeOK
      <4> QED
        BY <2>1, <4>1, <4>2 DEF Success
    <3>2. CASE peer # "AGENT"
      BY <1>9, <1>n, <3>2 DEF AgentRespond, InPipe
    <3> QED
      BY <3>1, <3>2
  <2>3. UNCHANGED <<successes, lockCalls, WithServer>>
    BY <1>9 DEF AgentRespond, WithServer
  <2> QED
    BY <1>n, <2>1, <2>2, <2>3 DEF Backed, InPipe, WithServer, WithAgent
<1>10. CASE AgentCrash \/ AgentStart
  <2>1. WithAgent' = 0
    BY <1>10 DEF AgentCrash, AgentStart, WithAgent, NoAgent, IdleAgent
  <2>2. UNCHANGED <<successes, lockCalls, InPipe, WithServer>>
    BY <1>10 DEF AgentCrash, ClosePipe, AgentStart, InPipe, WithServer
  <2> QED
    BY <1>n, <1>k, <2>1, <2>2
<1>11. CASE ServiceRestart
  <2>1. WithServer' = 0 /\ InPipe' = 0
    BY <1>11, <1>n DEF ServiceRestart, WithServer, IdleIpc
  <2>2. UNCHANGED <<successes, lockCalls, WithAgent>>
    BY <1>11 DEF ServiceRestart, WithAgent
  <2> QED
    BY <1>n, <1>k, <2>1, <2>2
<1>12. CASE IgnoreProbe
  <2>1. toService \in Seq(LockResponse \cup {Probe}) /\ toService # <<>>
    BY <1>12 DEF IgnoreProbe, TypeOK
  <2>2. InPipe' + (IF Head(toService) \in Success THEN 1 ELSE 0) <= InPipe
    BY <1>12, <2>1, PositionsTail DEF IgnoreProbe, InPipe
  <2>3. InPipe' <= InPipe
    BY <1>n, <2>2 DEF InPipe
  <2> QED
    BY <1>12, <1>n, <1>k, <2>3 DEF IgnoreProbe, WithServer, WithAgent
<1>13. CASE TileProbe
  <2>1. toService \in Seq(LockResponse \cup {Probe}) /\ toService' = Append(toService, Probe)
    BY <1>13 DEF TileProbe, TypeOK
  <2>2. Probe \notin Success
    BY DEF Probe, Success
  <2>3. InPipe' <= InPipe
    BY <1>n, <2>1, <2>2, PositionsAppend DEF InPipe
  <2> QED
    BY <1>13, <1>n, <1>k, <2>3 DEF TileProbe, WithServer, WithAgent
<1> QED
  BY <1>1, <1>2, <1>3, <1>4, <1>5, <1>6, <1>7, <1>8, <1>9, <1>10, <1>11, <1>12, <1>13
     DEF Next, ServerStep, AgentStep, TileStep

\* A SUCCESS that any client is told stands for a LockWorkStation call of its own,
\* whatever crashes and whatever late answers are in the pipe.
THEOREM EverySuccessBacked == Spec => []SuccessIsBacked
<1>1. Init => Backed
  <2> SUFFICES ASSUME Init PROVE Backed
    OBVIOUS
  <2>2. InPipe = 0
    BY PositionsEmpty DEF Init, InPipe
  <2> QED
    BY <2>2 DEF Init, Backed, WithServer, WithAgent, IdleIpc, IdleAgent
<1>2. TypeOK /\ Backed => SuccessIsBacked
  <2> SUFFICES ASSUME TypeOK, Backed PROVE SuccessIsBacked
    OBVIOUS
  <2>1. InPipe \in Nat
    BY PositionsNat DEF InPipe, TypeOK
  <2> QED
    BY <2>1 DEF Backed, SuccessIsBacked, WithServer, WithAgent, TypeOK
<1> QED
  BY <1>1, <1>2, TypeCorrect, BackedStep, PTL DEF Spec

-----------------------------------------------------------------------------
(* Why no request locks twice.  A request is passed on at most once, and   *)
(* is then with its worker, in the pipe to the agent, or has been acted    *)
(* on; a crash, a restart or the tile only loses some.  The requests that  *)
(* have left their worker are a set, so no sum over the clients is needed. *)

RequestOf(c) == [client |-> c, id |-> worker[c].id]

Busy(c) == worker[c].at \in {"CLIENT", "MESSAGE", "SEND"}

\* What a worker is busy with was passed on, and a request that is still to be
\* tested was not.
HeldByWorker ==
    /\ passed \subseteq asked
    /\ \A c \in Client : Busy(c) => RequestOf(c) \in passed
    /\ \A c \in Client : worker[c].at = "CONNECTED" => RequestOf(c) \in asked \ passed

\* The requests with id i that have left their worker.
Left(i) == {r \in passed : r.id = i /\ ~(Busy(r.client) /\ RequestOf(r.client) = r)}

UnderWay(i) == Cardinality(Positions(toClient, {i}))

\* Each of them is acted on at most once.
ActedOnce == \A i \in MessageId : calls[i] + UnderWay(i) <= Cardinality(Left(i))

PassInv == TypeOK /\ IsFiniteSet(passed) /\ HeldByWorker /\ ActedOnce

\* Initially nothing was passed on.
LEMMA PassInit == Init => PassInv
<1> SUFFICES ASSUME Init PROVE IsFiniteSet(passed) /\ HeldByWorker /\ ActedOnce
  BY TypeInit DEF PassInv
<1>1. IsFiniteSet(passed)
  BY FS_EmptySet DEF Init
<1>2. HeldByWorker
  BY DEF Init, HeldByWorker, Busy, IdleWorker
<1>3. ASSUME NEW i \in MessageId PROVE calls[i] + UnderWay(i) <= Cardinality(Left(i))
  <2>1. Left(i) = {}
    BY DEF Init, Left
  <2>2. Cardinality(Left(i)) = 0 /\ UnderWay(i) = 0 /\ calls[i] = 0
    BY <2>1, FS_EmptySet, PositionsEmpty DEF Init, UnderWay
  <2> QED
    BY <2>2
<1> QED
  BY <1>1, <1>2, <1>3 DEF ActedOnce

\* The counts are natural numbers.
LEMMA PassNat ==
    ASSUME TypeOK, IsFiniteSet(passed), NEW i \in MessageId
    PROVE  /\ calls[i] \in Nat /\ UnderWay(i) \in Nat
           /\ IsFiniteSet(Left(i)) /\ Cardinality(Left(i)) \in Nat
<1>1. Left(i) \subseteq passed
  BY DEF Left
<1>2. UnderWay(i) \in Nat
  BY PositionsNat DEF TypeOK, UnderWay
<1> QED
  BY <1>1, <1>2, FS_Subset, FS_CardinalityType DEF TypeOK

\* No step lets a request be acted on twice.
LEMMA PassStep == PassInv /\ [Next]_vars => PassInv'
<1> SUFFICES ASSUME PassInv, [Next]_vars
             PROVE  IsFiniteSet(passed)' /\ HeldByWorker' /\ ActedOnce'
  BY TypeStep DEF PassInv
<1> USE DEF serviceVars, slotVars, askVars, pipeVars, agentVars, replyVars, lockVars, faults
<1>0. TypeOK /\ TypeOK' /\ IsFiniteSet(passed) /\ HeldByWorker /\ ActedOnce
  BY TypeStep DEF PassInv
<1>n. \A i \in MessageId : /\ calls[i] \in Nat /\ UnderWay(i) \in Nat
                           /\ IsFiniteSet(Left(i)) /\ Cardinality(Left(i)) \in Nat
  BY <1>0, PassNat
<1>f. IsFiniteSet(passed)'
  <2>1. passed' = passed \/ \E r : passed' = passed \cup {r}
    <3>1. ASSUME NEW c \in Client, Receive(c) PROVE passed' = passed
      BY <3>1 DEF Receive, RefuseUnauthorized, AdmitRequest
    <3>2. ASSUME NEW c \in Client, WorkerStep(c)
          PROVE  passed' = passed \/ \E r : passed' = passed \cup {r}
      BY <3>2 DEF WorkerStep, RefuseNoAgent, FindAgent, StoreClient, StoreMessage, Dispatch
    <3>3. CASE ServerStep
      BY <3>3
         DEF ServerStep, Accept, DropPipe, IgnoreProbe, TakeClient, LoadMessage, Forward
    <3>4. CASE AgentStep \/ TileConnect \/ TileStep
      BY <3>4
         DEF AgentStep, AgentConnect, AgentLock, AgentRespond, TileConnect, TileStep, TileProbe,
             TileLeave
    <3>5. CASE AgentCrash \/ AgentStart \/ ServiceRestart \/ UNCHANGED vars
      BY <3>5 DEF AgentCrash, AgentStart, ServiceRestart, vars
    <3> QED
      BY <3>1, <3>2, <3>3, <3>4, <3>5 DEF Next
  <2> QED
    BY <1>0, <2>1, FS_AddElement
<1>m. \A i \in MessageId : /\ calls'[i] \in Nat /\ UnderWay(i)' \in Nat
                           /\ IsFiniteSet(Left(i)') /\ Cardinality(Left(i)') \in Nat
  <2>1. /\ TypeOK' /\ IsFiniteSet(passed)'
        /\ \A i \in MessageId : Left(i)' \subseteq passed'
    BY <1>0, <1>f DEF Left
  <2>2. \A i \in MessageId : UnderWay(i)' \in Nat
    BY <2>1, PositionsNat DEF TypeOK, UnderWay
  <2> QED
    BY <2>1, <2>2, FS_Subset, FS_CardinalityType DEF TypeOK
\* A step that leaves calls alone, adds nothing to the pipe and takes nothing away
\* from the requests that have left their workers.
<1>k. ASSUME calls' = calls,
             \A i \in MessageId : UnderWay(i)' <= UnderWay(i) /\ Left(i) \subseteq Left(i)'
      PROVE  ActedOnce'
  <2> SUFFICES ASSUME NEW i \in MessageId
               PROVE  calls'[i] + UnderWay(i)' <= Cardinality(Left(i)')
    BY DEF ActedOnce
  <2>1. Cardinality(Left(i)) <= Cardinality(Left(i)')
    BY <1>m, <1>k, FS_Subset
  <2> QED
    BY <1>0, <1>n, <1>m, <1>k, <2>1 DEF ActedOnce
<1>u. ASSUME UNCHANGED <<worker, asked, passed>>
      PROVE  HeldByWorker' /\ \A i \in MessageId : Left(i)' = Left(i)
  BY <1>0, <1>u DEF HeldByWorker, Busy, RequestOf, Left
<1>e. toClient' = <<>> => \A i \in MessageId : UnderWay(i)' <= UnderWay(i)
  BY <1>n, PositionsEmpty DEF UnderWay
<1>s. toClient' = toClient => \A i \in MessageId : UnderWay(i)' <= UnderWay(i)
  BY <1>n DEF UnderWay
<1>1. ASSUME NEW c \in Client, NEW i \in MessageId, RefuseUnauthorized(c, i)
      PROVE  HeldByWorker' /\ ActedOnce'
  <2>1. HeldByWorker' /\ \A j \in MessageId : Left(j)' = Left(j)
    BY <1>0, <1>1 DEF RefuseUnauthorized, AskFor, HeldByWorker, Busy, RequestOf, Left
  <2> QED
    BY <1>1, <1>k, <1>s, <2>1 DEF RefuseUnauthorized
<1>2. ASSUME NEW c \in Client, NEW i \in MessageId, AdmitRequest(c, i)
      PROVE  HeldByWorker' /\ ActedOnce'
  <2>1. /\ worker'[c] = [at |-> "CONNECTED", id |-> i] /\ worker[c].at = "IDLE"
        /\ \A d \in Client \ {c} : worker'[d] = worker[d]
    BY <1>0, <1>2 DEF AdmitRequest, AskFor, TypeOK
  <2>2. HeldByWorker'
    BY <1>0, <1>2, <2>1 DEF AdmitRequest, AskFor, HeldByWorker, Busy, RequestOf
  <2>3. \A d \in Client : (Busy(d) <=> Busy(d)') /\ (Busy(d) => RequestOf(d)' = RequestOf(d))
    BY <2>1 DEF Busy, RequestOf
  <2>4. \A r \in passed : r.client \in Client
    BY <1>0 DEF TypeOK, Request
  <2>5. \A j \in MessageId : Left(j)' = Left(j)
    BY <1>2, <2>3, <2>4 DEF AdmitRequest, Left
  <2> QED
    BY <1>2, <1>k, <1>s, <2>2, <2>5 DEF AdmitRequest
<1>3. ASSUME NEW c \in Client, RefuseNoAgent(c) PROVE HeldByWorker' /\ ActedOnce'
  <2>1. /\ worker'[c] = IdleWorker /\ worker[c].at = "CONNECTED"
        /\ \A d \in Client \ {c} : worker'[d] = worker[d]
    BY <1>0, <1>3 DEF RefuseNoAgent, TypeOK
  <2>2. HeldByWorker'
    BY <1>0, <1>3, <2>1 DEF RefuseNoAgent, HeldByWorker, Busy, RequestOf, IdleWorker
  <2>3. \A d \in Client : (Busy(d) <=> Busy(d)') /\ (Busy(d) => RequestOf(d)' = RequestOf(d))
    BY <2>1 DEF Busy, RequestOf, IdleWorker
  <2>4. \A r \in passed : r.client \in Client
    BY <1>0 DEF TypeOK, Request
  <2>5. \A j \in MessageId : Left(j)' = Left(j)
    BY <1>3, <2>3, <2>4 DEF RefuseNoAgent, Left
  <2> QED
    BY <1>3, <1>k, <1>s, <2>2, <2>5 DEF RefuseNoAgent
<1>w. \A c \in Client : worker[c].at # "IDLE" => worker[c].id \in MessageId
  BY <1>0 DEF TypeOK, Worker, IdleWorker
<1>4. ASSUME NEW c \in Client, FindAgent(c) PROVE HeldByWorker' /\ ActedOnce'
  <2>1. /\ worker'[c].at = "CLIENT" /\ worker'[c].id = worker[c].id
        /\ worker[c].at = "CONNECTED"
        /\ \A d \in Client \ {c} : worker'[d] = worker[d]
        /\ passed' = passed \cup {RequestOf(c)} /\ asked' = asked
    BY <1>0, <1>4 DEF FindAgent, TypeOK, RequestOf
  <2>2. RequestOf(c) \in asked \ passed /\ RequestOf(c)' = RequestOf(c)
    BY <1>0, <2>1 DEF HeldByWorker, RequestOf
  <2>3. \A d \in Client \ {c} : /\ RequestOf(d) # RequestOf(c)
                                /\ RequestOf(d)' = RequestOf(d)
                                /\ Busy(d) <=> Busy(d)'
    BY <2>1 DEF Busy, RequestOf
  <2>4. HeldByWorker'
    BY <1>0, <2>1, <2>2, <2>3 DEF HeldByWorker, Busy
  <2>5. \A r \in passed : r.client \in Client
    BY <1>0 DEF TypeOK, Request
  <2>6. \A j \in MessageId : Left(j) \subseteq Left(j)'
    BY <2>1, <2>2, <2>3, <2>5 DEF Left
  <2> QED
    BY <1>4, <1>k, <1>s, <2>4, <2>6 DEF FindAgent
<1>5. ASSUME NEW c \in Client, StoreClient(c) \/ StoreMessage(c)
      PROVE  HeldByWorker' /\ ActedOnce'
  <2>1. /\ Busy(c) /\ Busy(c)' /\ worker'[c].id = worker[c].id
        /\ worker'[c].at # "CONNECTED"
        /\ \A d \in Client \ {c} : worker'[d] = worker[d]
        /\ UNCHANGED <<asked, passed, calls, toClient>>
    <3>1. CASE StoreClient(c)
      BY <1>0, <3>1 DEF StoreClient, TypeOK, Busy
    <3>2. CASE StoreMessage(c)
      BY <1>0, <3>2 DEF StoreMessage, TypeOK, Busy
    <3> QED
      BY <1>5, <3>1, <3>2
  <2>2. \A d \in Client : (Busy(d) <=> Busy(d)') /\ RequestOf(d)' = RequestOf(d)
    BY <2>1 DEF Busy, RequestOf
  <2>3. HeldByWorker'
    BY <1>0, <2>1, <2>2 DEF HeldByWorker
  <2>4. \A r \in passed : r.client \in Client
    BY <1>0 DEF TypeOK, Request
  <2>5. \A j \in MessageId : Left(j)' = Left(j)
    BY <2>1, <2>2, <2>4 DEF Left
  <2> QED
    BY <1>k, <1>s, <2>1, <2>3, <2>5
<1>6. ASSUME NEW c \in Client, Dispatch(c) PROVE HeldByWorker' /\ ActedOnce'
  <2> DEFINE m == worker[c].id
             r == RequestOf(c)
  <2>1. /\ worker[c].at = "SEND" /\ worker'[c] = IdleWorker /\ m \in MessageId
        /\ \A d \in Client \ {c} : worker'[d] = worker[d]
        /\ UNCHANGED <<asked, passed, calls>>
    BY <1>0, <1>6, <1>w DEF Dispatch, TypeOK
  <2>2. Busy(c) /\ ~Busy(c)' /\ r \in passed
    BY <1>0, <2>1 DEF Busy, IdleWorker, HeldByWorker
  <2>3. \A d \in Client \ {c} : (Busy(d) <=> Busy(d)') /\ RequestOf(d)' = RequestOf(d)
    BY <2>1 DEF Busy, RequestOf
  <2>4. HeldByWorker'
    <3>1. worker'[c].at # "CONNECTED"
      BY <2>1 DEF IdleWorker
    <3>2. \A d \in Client \ {c} : worker'[d].at = worker[d].at
      BY <2>1
    <3> QED
      BY <1>0, <2>1, <2>2, <2>3, <3>1, <3>2 DEF HeldByWorker
  <2>5. \A q \in passed : q.client \in Client
    BY <1>0 DEF TypeOK, Request
  <2>6. r.client = c /\ r.id = m
    BY DEF RequestOf
  <2>7. \A j \in MessageId : Left(j) \subseteq Left(j)'
    BY <2>1, <2>2, <2>3, <2>5 DEF Left
  <2>8. \A j \in MessageId : m = j => r \in Left(j)' /\ r \notin Left(j)
    BY <2>1, <2>2, <2>6 DEF Left
  <2>9. ASSUME NEW j \in MessageId PROVE calls'[j] + UnderWay(j)' <= Cardinality(Left(j)')
    <3>1. UnderWay(j)' <= UnderWay(j) + (IF m \in {j} THEN 1 ELSE 0)
      <4>1. CASE toClient' = Append(toClient, m)
        <5>1. toClient \in Seq(MessageId) /\ m \in MessageId
          BY <1>0, <2>1 DEF TypeOK
        <5> HIDE DEF m
        <5> QED
          BY <4>1, <5>1, PositionsAppend DEF UnderWay
      <4>2. CASE toClient' = toClient
        BY <1>n, <4>2 DEF UnderWay
      <4> QED
        BY <1>6, <4>1, <4>2 DEF Dispatch
    <3>2. Cardinality(Left(j)) + (IF m \in {j} THEN 1 ELSE 0) <= Cardinality(Left(j)')
      <4>1. CASE m = j
        <5>1. Left(j) \cup {r} \subseteq Left(j)'
          BY <2>7, <2>8, <4>1
        <5>2. Cardinality(Left(j) \cup {r}) = Cardinality(Left(j)) + 1
          BY <1>n, <2>8, <4>1, FS_AddElement
        <5> QED
          BY <1>m, <4>1, <5>1, <5>2, FS_Subset
      <4>2. CASE m # j
        <5>1. Cardinality(Left(j)) <= Cardinality(Left(j)')
          BY <1>m, <2>7, FS_Subset
        <5> QED
          BY <1>n, <1>m, <4>2, <5>1
      <4> QED
        BY <4>1, <4>2
    <3>3. calls'[j] = calls[j] /\ calls[j] + UnderWay(j) <= Cardinality(Left(j))
      BY <1>0, <2>1 DEF ActedOnce
    <3> HIDE DEF m, r
    <3> QED
      BY <1>n, <1>m, <3>1, <3>2, <3>3
  <2> QED
    BY <2>4, <2>9 DEF ActedOnce
<1>7. ASSUME NEW ok \in BOOLEAN, AgentLock(ok) PROVE HeldByWorker' /\ ActedOnce'
  <2> DEFINE h == Head(toClient)
  <2>1. /\ UNCHANGED <<worker, asked, passed>>
        /\ toClient \in Seq(MessageId) /\ toClient # <<>> /\ toClient' = Tail(toClient)
        /\ calls' = [calls EXCEPT ![h] = @ + 1]
    BY <1>0, <1>7 DEF AgentLock, TypeOK
  <2>2. h \in MessageId
    BY <2>1
  <2>3. ASSUME NEW j \in MessageId PROVE calls'[j] + UnderWay(j)' <= Cardinality(Left(j)')
    <3>1. UnderWay(j)' + (IF h \in {j} THEN 1 ELSE 0) <= UnderWay(j)
      BY <2>1, PositionsTail DEF UnderWay
    <3>2. calls'[j] = calls[j] + (IF h \in {j} THEN 1 ELSE 0)
      <4>1. calls \in [MessageId -> Nat] /\ calls' = [calls EXCEPT ![h] = @ + 1]
        BY <1>0, <2>1 DEF TypeOK
      <4> HIDE DEF h
      <4> QED
        BY <2>2, <4>1
    <3>3. Left(j)' = Left(j) /\ calls[j] + UnderWay(j) <= Cardinality(Left(j))
      BY <1>0, <1>u, <2>1 DEF ActedOnce
    <3> HIDE DEF h
    <3> QED
      BY <1>n, <1>m, <3>1, <3>2, <3>3
  <2> QED
    BY <1>u, <2>1, <2>3 DEF ActedOnce
<1>8. CASE ServiceRestart
  <2>1. /\ \A c \in Client : worker'[c] = IdleWorker
        /\ UNCHANGED <<asked, passed, calls>> /\ toClient' = <<>>
    BY <1>8 DEF ServiceRestart
  <2>2. \A c \in Client : ~Busy(c)' /\ worker'[c].at # "CONNECTED"
    BY <2>1 DEF Busy, IdleWorker
  <2>3. HeldByWorker'
    BY <1>0, <2>1, <2>2 DEF HeldByWorker
  <2>4. \A r \in passed : r.client \in Client
    BY <1>0 DEF TypeOK, Request
  <2>5. \A i \in MessageId : Left(i) \subseteq Left(i)'
    BY <2>1, <2>2, <2>4 DEF Left
  <2>6. \A i \in MessageId : UnderWay(i)' <= UnderWay(i)
    BY <1>e, <2>1
  <2>7. ActedOnce'
    BY <1>k, <2>1, <2>5, <2>6
  <2> QED
    BY <1>f, <2>3, <2>7
<1>9. CASE \/ ServerStep \/ AgentConnect \/ AgentRespond \/ TileConnect \/ TileStep
           \/ AgentCrash \/ AgentStart \/ UNCHANGED vars
  <2>1. UNCHANGED <<worker, asked, passed, calls>> /\ (toClient' = toClient \/ toClient' = <<>>)
    <3>1. CASE ServerStep
      BY <3>1 DEF ServerStep, Accept, DropPipe, IgnoreProbe, TakeClient, LoadMessage, Forward
    <3>2. CASE AgentConnect \/ AgentRespond \/ TileConnect \/ TileStep
      BY <3>2
         DEF AgentConnect, OpenPipe, AgentRespond, TileConnect, TileStep, TileProbe, TileLeave,
             ClosePipe
    <3>3. CASE AgentCrash \/ AgentStart \/ UNCHANGED vars
      BY <3>3 DEF AgentCrash, ClosePipe, AgentStart, vars
    <3> QED
      BY <1>9, <3>1, <3>2, <3>3
  <2>2. \A i \in MessageId : UnderWay(i)' <= UnderWay(i)
    BY <1>e, <1>s, <2>1
  <2>3. HeldByWorker' /\ \A i \in MessageId : Left(i) \subseteq Left(i)'
    BY <1>u, <2>1
  <2>4. ActedOnce'
    BY <1>k, <2>1, <2>2, <2>3
  <2> QED
    BY <1>f, <2>3, <2>4
<1> QED
  BY <1>f, <1>1, <1>2, <1>3, <1>4, <1>5, <1>6, <1>7, <1>8, <1>9
     DEF Next, Receive, WorkerStep, AgentStep

\* For any number of phones, requests, crashes and restarts, and however agent and
\* tile take turns on the pipe, LockWorkStation is called at most once for each
\* request that was passed on and never for one that was refused.
THEOREM LocksOnlyPassed == Spec => []LocksWerePassed
<1>1. PassInv => LocksWerePassed
  <2> SUFFICES ASSUME PassInv, NEW i \in MessageId
               PROVE  calls[i] <= Cardinality({r \in passed : r.id = i})
    BY DEF LocksWerePassed
  <2> DEFINE S == {r \in passed : r.id = i}
  <2>1. S \subseteq passed /\ Left(i) \subseteq S /\ IsFiniteSet(passed) /\ TypeOK
    BY DEF Left, PassInv
  <2>2. IsFiniteSet(S) /\ Cardinality(S) \in Nat
    BY <2>1, FS_Subset, FS_CardinalityType
  <2>3. Cardinality(Left(i)) <= Cardinality(S)
    BY <2>1, <2>2, FS_Subset
  <2>4. /\ calls[i] \in Nat /\ UnderWay(i) \in Nat /\ Cardinality(Left(i)) \in Nat
        /\ calls[i] + UnderWay(i) <= Cardinality(Left(i))
    BY <2>1, PassNat DEF PassInv, ActedOnce
  <2> HIDE DEF S
  <2>5. calls[i] <= Cardinality(S)
    BY <2>2, <2>3, <2>4
  <2> QED
    BY <2>5 DEF S
<1> QED
  BY <1>1, PassInit, PassStep, PTL DEF Spec
=============================================================================
