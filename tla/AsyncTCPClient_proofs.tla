------------------------ MODULE AsyncTCPClient_proofs ------------------------
(***************************************************************************)
(* Proofs about AsyncTCPClient, for any number of requests, any assignment *)
(* of ids and any number of cancellations.                                 *)
(*                                                                         *)
(* The safety properties are not inductive: they say nothing of where the  *)
(* threads are.  The invariant below adds what each program point knows.   *)
(***************************************************************************)
EXTENDS AsyncTCPClient, TLAPS

(* A request has no operation outstanding before it was connected, nor     *)
(* after it was reported; an aborted operation was asked to abort; and     *)
(* from the first operation to the callback either an operation is         *)
(* outstanding or the I/O thread is in the request's handler. *)
RequestsOK ==
  \A r \in Requests :
    /\ phase[r] \in {"new", "created"} => op[r] = "none" /\ told[r] = "none"
    /\ phase[r] = "new" => ~ was_cancelled[r]
    /\ op[r] # "none" => told[r] = "none"
    /\ op[r] = "aborted" => was_cancelled[r]
    /\ phase[r] \in Started /\ told[r] = "none" => op[r] # "none" \/ io.req = r
    /\ notified[r] = IF told[r] = "none" THEN 0 ELSE 1

(* The I/O thread executes one handler at a time, after the operation it   *)
(* handles and before the next one of the session. *)
HandlerOK ==
  io.req \in Requests =>
    /\ op[io.req] = "none"
    /\ phase[io.req] \in Started
    /\ told[io.req] = "none" <=> io.at # "user"
    /\ io.at = "start" => phase[io.req] # "read"
    /\ io.ec = "aborted" => was_cancelled[io.req]
    /\ io.cancelled => was_cancelled[io.req]

(* A created session is known to the one thread that is about to insert or *)
(* to connect it; a session to cancel was created, and the thread that     *)
(* cancels it holds the mutex. *)
CallsOK ==
  /\ \A r \in Requests :
       phase[r] = "created" <=>
         \E t \in Threads : call[t].at \in {"insert", "connect"} /\ call[t].req = r
  /\ \A t, u \in Threads :
       /\ call[t].at \in {"insert", "connect"}
       /\ call[u].at \in {"insert", "connect"}
       /\ call[t].req = call[u].req
       => t = u
  /\ \A t \in Threads :
       /\ guard = t <=> call[t].at \in {"mark", "abort"}
       /\ call[t].at = "mark" => phase[call[t].req] # "new"
       /\ call[t].at = "abort" => was_cancelled[call[t].req]
  /\ call["io"] # NoCall => io.at = "user"

(* Once close() was called only callbacks start operations, and once the   *)
(* I/O thread has left m_ioc.run() nothing does. *)
ClosingOK ==
  /\ closing # "open" => call["user"] = NoCall
  /\ io.at = "exited" => closing # "open" /\ \A r \in Requests : op[r] = "none"
  /\ closing = "joined" => io.at = "exited"

(* An entry of the map is a session stored under its own id. *)
MapOK ==
  \A i \in Ids :
    active_sessions[i] # NoSession =>
      IdOf[active_sessions[i]] = i /\ phase[active_sessions[i]] # "new"

IInv ==
  /\ TypeOK
  /\ RequestsOK
  /\ HandlerOK
  /\ CallsOK
  /\ ClosingOK
  /\ MapOK

(* With callers that do not give away an id in use, two requests with one  *)
(* id are never under way together, and the map is exact. *)
IdsExclusive ==
  \A r, s \in Requests :
    IdOf[r] = IdOf[s] /\ r # s =>
      \/ phase[r] = "new" \/ told[r] # "none"
      \/ phase[s] = "new" \/ told[s] # "none"

ExactInv == IdsExclusive /\ ActiveSessionsExact

-------------------------------------------------------------------------------
USE DEF Phases, Started, Finished, OpStates, Codes, Threads

(* What the fields of the handler's record are, and when they mean nothing. *)
LEMMA HandlerTypes ==
  ASSUME io \in Handlers
  PROVE  /\ io.at \in {"poll", "exited"} <=> io.req \notin Requests
         /\ io.at \in {"poll", "exited"} => io.req = NoSession
         /\ io.req \in Requests =>
              /\ io.at \in {"check", "start", "finish", "callback", "user"}
              /\ io.ec \in Finished
              /\ io.cancelled \in BOOLEAN
BY NoSessionAssumption DEF Handlers, Polling, Exited

(* A thread is in the middle of a call exactly when the call has a step    *)
(* left, and then it is applied to a session.                              *)
LEMMA CallTypes ==
  ASSUME NEW t \in Threads, call \in [Threads -> Calls]
  PROVE  /\ call[t] = NoCall <=> call[t].at \notin {"insert", "connect", "mark", "abort"}
         /\ call[t] # NoCall => call[t].req \in Requests
BY DEF Calls, NoCall

(* The invariant holds before the first call. *)
THEOREM InitIInv == Init => IInv
BY NoSessionAssumption, MaxCancelsAssumption
   DEF Init, IInv, TypeOK, RequestsOK, HandlerOK, CallsOK, ClosingOK, MapOK,
       Calls, NoCall, Handlers, Polling

(* Every step of every thread and of the network keeps it. *)
THEOREM NextIInv == IInv /\ [Next]_vars => IInv'
<1> SUFFICES ASSUME IInv, [Next]_vars
             PROVE  IInv'
  OBVIOUS
<1> USE DEF IInv, clientVars, sessionVars, userVars, NoCall, Polling, Exited
<1>1. ASSUME NEW t \in Threads, NEW r \in Requests, EmulateLongComputationOp(t, r)
      PROVE  IInv'
  <2> USE <1>1 DEF EmulateLongComputationOp, CanCall
  <2>1. TypeOK'
    BY DEF TypeOK, Calls
  <2>2. RequestsOK'
    BY DEF RequestsOK
  <2>3. CallsOK'
    BY DEF TypeOK, CallsOK
  <2>4. MapOK'
    BY DEF MapOK
  <2>5. HandlerOK' /\ ClosingOK'
    BY DEF HandlerOK, ClosingOK
  <2>6. QED  BY <2>1, <2>2, <2>3, <2>4, <2>5
<1>2. ASSUME NEW t \in Threads, InsertSession(t)
      PROVE  IInv'
  <2> USE <1>2 DEF InsertSession
  <2>1. TypeOK'
    <3>1. call' \in [Threads -> Calls]
      BY DEF TypeOK, Calls
    <3>2. QED  BY <3>1, CallTypes DEF TypeOK
  <2>2. RequestsOK'
    BY DEF RequestsOK
  <2>3. CallsOK'
    BY DEF CallsOK
  <2>4. MapOK'
    BY CallTypes DEF TypeOK, CallsOK, MapOK
  <2>5. HandlerOK' /\ ClosingOK'
    BY DEF HandlerOK, ClosingOK
  <2>6. QED  BY <2>1, <2>2, <2>3, <2>4, <2>5
<1>3. ASSUME NEW t \in Threads, AsyncConnect(t)
      PROVE  IInv'
  <2> USE <1>3 DEF AsyncConnect
  <2>1. TypeOK'
    BY DEF TypeOK, Calls
  <2>2. RequestsOK'
    BY DEF TypeOK, RequestsOK, CallsOK
  <2>3. CallsOK'
    BY DEF TypeOK, CallsOK
  <2>4. MapOK'
    BY DEF MapOK
  <2>5. HandlerOK' /\ ClosingOK'
    BY DEF HandlerOK, CallsOK, ClosingOK
  <2>6. QED  BY <2>1, <2>2, <2>3, <2>4, <2>5
<1>4. ASSUME NEW t \in Threads, NEW id \in Ids, CancelRequest(t, id)
      PROVE  IInv'
  <2> USE <1>4 DEF CancelRequest, CanCall
  <2>1. active_sessions[id] \in Requests /\ phase[active_sessions[id]] # "new"
    BY DEF TypeOK, MapOK
  <2>2. TypeOK'
    <3>1. [at |-> "mark", req |-> active_sessions[id]] \in Calls
      BY <2>1 DEF Calls
    <3>2. call' \in [Threads -> Calls]
      BY <3>1 DEF TypeOK
    <3>3. QED  BY <3>2, MaxCancelsAssumption DEF TypeOK
  <2>3. CallsOK'
    <3>1. \A u \in Threads \ {t} : call'[u] = call[u]
      OBVIOUS
    <3>2. call'[t] = [at |-> "mark", req |-> active_sessions[id]]
      BY DEF TypeOK
    <3>3. QED  BY <2>1, <3>1, <3>2 DEF CallsOK
  <2>4. RequestsOK' /\ HandlerOK' /\ ClosingOK' /\ MapOK'
    BY DEF RequestsOK, HandlerOK, ClosingOK, MapOK
  <2>5. QED  BY <2>2, <2>3, <2>4
<1>5. ASSUME NEW t \in Threads, MarkCancelled(t)
      PROVE  IInv'
  <2> USE <1>5 DEF MarkCancelled
  <2>1. TypeOK'
    <3>1. call' \in [Threads -> Calls]
      BY DEF TypeOK, Calls
    <3>2. QED  BY <3>1 DEF TypeOK
  <2>2. RequestsOK'
    BY DEF RequestsOK, CallsOK
  <2>3. HandlerOK'
    BY DEF HandlerOK
  <2>4. CallsOK'
    BY CallTypes DEF TypeOK, CallsOK
  <2>5. ClosingOK' /\ MapOK'
    BY DEF ClosingOK, MapOK
  <2>6. QED  BY <2>1, <2>2, <2>3, <2>4, <2>5
<1>6. ASSUME NEW t \in Threads, CancelSocket(t)
      PROVE  IInv'
  <2> USE <1>6 DEF CancelSocket
  <2>1. TypeOK'
    BY DEF TypeOK, Calls
  <2>2. RequestsOK'
    BY DEF RequestsOK, CallsOK
  <2>3. HandlerOK'
    BY DEF HandlerOK
  <2>4. CallsOK'
    BY DEF TypeOK, CallsOK
  <2>5. ClosingOK'
    BY DEF ClosingOK
  <2>6. MapOK'
    BY DEF MapOK
  <2>7. QED  BY <2>1, <2>2, <2>3, <2>4, <2>5, <2>6
<1>7. ASSUME Close
      PROVE  IInv'
  <2> USE <1>7 DEF Close, CanCall
  <2>1. TypeOK'
    BY DEF TypeOK
  <2>2. ClosingOK'
    BY DEF ClosingOK
  <2>3. RequestsOK' /\ HandlerOK' /\ CallsOK' /\ MapOK'
    BY DEF RequestsOK, HandlerOK, CallsOK, MapOK
  <2>4. QED  BY <2>1, <2>2, <2>3
<1>8. ASSUME Joined
      PROVE  IInv'
  <2> USE <1>8 DEF Joined
  <2>1. TypeOK'
    BY DEF TypeOK
  <2>2. ClosingOK'
    BY DEF ClosingOK
  <2>3. RequestsOK' /\ HandlerOK' /\ CallsOK' /\ MapOK'
    BY DEF RequestsOK, HandlerOK, CallsOK, MapOK
  <2>4. QED  BY <2>1, <2>2, <2>3
<1>9. ASSUME NEW r \in Requests, TransferSome(r)
      PROVE  IInv'
  <2> USE <1>9 DEF TransferSome
  <2>1. TypeOK'
    BY DEF TypeOK
  <2>2. RequestsOK'
    BY DEF RequestsOK
  <2>3. HandlerOK'
    BY DEF HandlerOK
  <2>4. ClosingOK'
    BY DEF ClosingOK
  <2>5. CallsOK' /\ MapOK'
    BY DEF CallsOK, MapOK
  <2>6. QED  BY <2>1, <2>2, <2>3, <2>4, <2>5
<1>10. ASSUME NEW r \in Requests, Complete(r)
      PROVE  IInv'
  <2> USE <1>10 DEF Complete
  <2>1. TypeOK'
    <3>1. op' \in [Requests -> OpStates]
      BY DEF TypeOK
    <3>2. QED  BY <3>1 DEF TypeOK
  <2>2. RequestsOK'
    BY DEF RequestsOK
  <2>3. HandlerOK'
    BY DEF HandlerOK
  <2>4. ClosingOK'
    BY DEF ClosingOK
  <2>5. CallsOK' /\ MapOK'
    BY DEF CallsOK, MapOK
  <2>6. QED  BY <2>1, <2>2, <2>3, <2>4, <2>5
<1>11. ASSUME NEW r \in Requests, TransferMore(r)
      PROVE  IInv'
  <2> USE <1>11 DEF TransferMore
  <2>1. TypeOK'
    BY DEF TypeOK
  <2>2. RequestsOK'
    BY DEF RequestsOK
  <2>3. HandlerOK'
    BY DEF HandlerOK
  <2>4. ClosingOK'
    BY DEF ClosingOK
  <2>5. CallsOK' /\ MapOK'
    BY DEF CallsOK, MapOK
  <2>6. QED  BY <2>1, <2>2, <2>3, <2>4, <2>5
<1>12. ASSUME NEW r \in Requests, OnConnect(r)
      PROVE  IInv'
  <2> USE <1>12 DEF OnConnect, EnterHandler, Handler
  <2>1. TypeOK'
    BY DEF TypeOK, Handlers
  <2>2. RequestsOK'
    BY HandlerTypes DEF TypeOK, RequestsOK
  <2>3. HandlerOK'
    BY DEF TypeOK, RequestsOK, HandlerOK
  <2>4. ClosingOK'
    BY DEF ClosingOK
  <2>5. CallsOK'
    BY DEF CallsOK
  <2>6. MapOK'
    BY DEF MapOK
  <2>7. QED  BY <2>1, <2>2, <2>3, <2>4, <2>5, <2>6
<1>13. ASSUME NEW r \in Requests, OnWriteComplete(r)
      PROVE  IInv'
  <2> USE <1>13 DEF OnWriteComplete, EnterHandler, Handler
  <2>1. TypeOK'
    BY DEF TypeOK, Handlers
  <2>2. RequestsOK'
    BY HandlerTypes DEF TypeOK, RequestsOK
  <2>3. HandlerOK'
    BY DEF TypeOK, RequestsOK, HandlerOK
  <2>4. ClosingOK'
    BY DEF ClosingOK
  <2>5. CallsOK'
    BY DEF CallsOK
  <2>6. MapOK'
    BY DEF MapOK
  <2>7. QED  BY <2>1, <2>2, <2>3, <2>4, <2>5, <2>6
<1>14. ASSUME NEW r \in Requests, OnReadComplete(r)
      PROVE  IInv'
  <2> USE <1>14 DEF OnReadComplete, EnterHandler, Handler
  <2>1. TypeOK'
    BY DEF TypeOK, Handlers
  <2>2. RequestsOK'
    BY HandlerTypes DEF TypeOK, RequestsOK
  <2>3. HandlerOK'
    BY DEF TypeOK, RequestsOK, HandlerOK
  <2>4. ClosingOK'
    BY DEF ClosingOK
  <2>5. CallsOK'
    BY DEF CallsOK
  <2>6. MapOK'
    BY DEF MapOK
  <2>7. QED  BY <2>1, <2>2, <2>3, <2>4, <2>5, <2>6
<1>15. ASSUME CheckCancelled
      PROVE  IInv'
  <2> USE <1>15 DEF CheckCancelled
  <2>1. TypeOK'
    BY HandlerTypes DEF TypeOK, Handlers
  <2>2. RequestsOK'
    BY DEF RequestsOK
  <2>3. HandlerOK'
    BY DEF HandlerOK
  <2>4. ClosingOK'
    BY DEF ClosingOK
  <2>5. CallsOK'
    BY DEF CallsOK
  <2>6. MapOK'
    BY DEF MapOK
  <2>7. QED  BY <2>1, <2>2, <2>3, <2>4, <2>5, <2>6
<1>16. ASSUME AsyncWrite
      PROVE  IInv'
  <2> USE <1>16 DEF AsyncWrite, StartOperation
  <2>1. TypeOK'
    BY DEF TypeOK, Handlers
  <2>2. RequestsOK'
    BY DEF TypeOK, RequestsOK, HandlerOK
  <2>3. HandlerOK'
    BY NoSessionAssumption DEF HandlerOK
  <2>4. ClosingOK'
    BY DEF ClosingOK
  <2>5. CallsOK'
    BY DEF CallsOK
  <2>6. MapOK'
    BY DEF MapOK
  <2>7. QED  BY <2>1, <2>2, <2>3, <2>4, <2>5, <2>6
<1>17. ASSUME AsyncReadUntil
      PROVE  IInv'
  <2> USE <1>17 DEF AsyncReadUntil, StartOperation
  <2>1. TypeOK'
    BY DEF TypeOK, Handlers
  <2>2. RequestsOK'
    BY DEF TypeOK, RequestsOK, HandlerOK
  <2>3. HandlerOK'
    BY NoSessionAssumption DEF HandlerOK
  <2>4. ClosingOK'
    BY DEF ClosingOK
  <2>5. CallsOK'
    BY DEF CallsOK
  <2>6. MapOK'
    BY DEF MapOK
  <2>7. QED  BY <2>1, <2>2, <2>3, <2>4, <2>5, <2>6
<1>18. ASSUME OnRequestComplete
      PROVE  IInv'
  <2> USE <1>18 DEF OnRequestComplete
  <2>1. TypeOK'
    BY IdOfAssumption DEF TypeOK, Handlers
  <2>2. HandlerOK'
    BY DEF HandlerOK
  <2>3. MapOK'
    BY DEF MapOK
  <2>4. RequestsOK' /\ CallsOK' /\ ClosingOK'
    BY DEF RequestsOK, CallsOK, ClosingOK
  <2>5. QED  BY <2>1, <2>2, <2>3, <2>4
<1>19. ASSUME InvokeCallback
      PROVE  IInv'
  <2> USE <1>19 DEF InvokeCallback, ActualEc
  <2>1. TypeOK'
    <3>1. io.req \in Requests /\ told[io.req] = "none"
      BY HandlerTypes DEF TypeOK, HandlerOK
    <3>2. io' \in Handlers
      BY <3>1 DEF TypeOK, Handlers
    <3>3. told' \in [Requests -> Codes] /\ notified' \in [Requests -> {0, 1}]
      BY <3>1, HandlerTypes DEF TypeOK, RequestsOK
    <3>4. QED  BY <3>2, <3>3 DEF TypeOK
  <2>2. RequestsOK'
    BY HandlerTypes DEF TypeOK, RequestsOK, HandlerOK
  <2>3. HandlerOK'
    BY HandlerTypes DEF TypeOK, HandlerOK
  <2>4. ClosingOK'
    BY DEF ClosingOK
  <2>5. CallsOK'
    BY DEF CallsOK
  <2>6. MapOK'
    BY DEF MapOK
  <2>7. QED  BY <2>1, <2>2, <2>3, <2>4, <2>5, <2>6
<1>20. ASSUME CallbackReturns
      PROVE  IInv'
  <2> USE <1>20 DEF CallbackReturns
  <2>1. TypeOK'
    BY DEF TypeOK, Handlers
  <2>2. RequestsOK'
    BY DEF RequestsOK, HandlerOK
  <2>3. HandlerOK'
    BY NoSessionAssumption DEF HandlerOK
  <2>4. ClosingOK'
    BY DEF ClosingOK
  <2>5. CallsOK'
    BY DEF CallsOK
  <2>6. MapOK'
    BY DEF MapOK
  <2>7. QED  BY <2>1, <2>2, <2>3, <2>4, <2>5, <2>6
<1>21. ASSUME RunReturns
      PROVE  IInv'
  <2> USE <1>21 DEF RunReturns
  <2>1. TypeOK'
    BY DEF TypeOK, Handlers
  <2>2. RequestsOK'
    BY HandlerTypes DEF TypeOK, RequestsOK
  <2>3. HandlerOK'
    BY NoSessionAssumption DEF HandlerOK
  <2>4. ClosingOK'
    BY DEF ClosingOK
  <2>5. CallsOK' /\ MapOK'
    BY DEF CallsOK, MapOK
  <2>6. QED  BY <2>1, <2>2, <2>3, <2>4, <2>5
<1>22. CASE UNCHANGED vars
  BY <1>22 DEF vars, TypeOK, RequestsOK, HandlerOK, CallsOK, ClosingOK, MapOK
<1>23. QED
  BY <1>1, <1>2, <1>3, <1>4, <1>5, <1>6, <1>7, <1>8, <1>9, <1>10, <1>11, <1>12,
     <1>13, <1>14, <1>15, <1>16, <1>17, <1>18, <1>19, <1>20, <1>21, <1>22
     DEF Next, BeginCall, FinishCall, Network, IoThread, Terminated

(* The invariant holds in every behaviour of the client. *)
THEOREM SpecIInv == Spec => []IInv
BY InitIInv, NextIInv, PTL DEF Spec

(* The types, and with them that no call is applied to a session that does *)
(* not exist and that no callback is called twice. *)
THEOREM TypeCorrect == Spec => []TypeOK
BY SpecIInv, PTL DEF IInv

(* close() waits for the callback of every request that was ever made: the *)
(* I/O thread leaves m_ioc.run() only when no operation is outstanding,    *)
(* and then no thread is in the middle of a call that would start one.     *)
THEOREM CloseDrainsCorrect == Spec => []CloseDrains
<1>1. IInv => CloseDrains
  <2> SUFFICES ASSUME IInv, closing = "joined",
                      NEW r \in Requests, phase[r] # "new"
               PROVE  notified[r] = 1
    BY DEF CloseDrains
  <2>1. io.at = "exited" /\ io.req \notin Requests /\ op[r] = "none"
    BY HandlerTypes DEF IInv, ClosingOK, TypeOK
  <2>2. \A t \in Threads : call[t] = NoCall
    BY <2>1 DEF IInv, ClosingOK, CallsOK
  <2>3. phase[r] \in Started
    BY <2>2 DEF IInv, CallsOK, TypeOK, NoCall
  <2>4. told[r] # "none"
    BY <2>1, <2>3 DEF IInv, RequestsOK
  <2>5. QED
    BY <2>4 DEF IInv, RequestsOK
<1>2. QED  BY <1>1, SpecIInv, PTL

-------------------------------------------------------------------------------
(* The map of active sessions. *)

(* The empty map is exact: no request has been made. *)
LEMMA InitExact == Init => ExactInv
BY NoSessionAssumption, IdOfAssumption
   DEF Init, ExactInv, IdsExclusive, ActiveSessionsExact, InFlight, Inserted, NoCall,
       Polling

(* The map stays exact.  Only emulateLongComputationOp and                 *)
(* onRequestComplete change it, and each of them is about the one request  *)
(* with its id that is under way.                                          *)
LEMMA NextExact ==
  ASSUME ~ ReuseInFlight, IInv, ExactInv, [Next]_vars
  PROVE  ExactInv'
<1> USE DEF IInv, ExactInv, clientVars, sessionVars, userVars
<1>1. ASSUME NEW t \in Threads, NEW r \in Requests, EmulateLongComputationOp(t, r)
      PROVE  ExactInv'
  <2> USE <1>1 DEF EmulateLongComputationOp, IdIsUnused, CanCall
  <2>1. IdsExclusive'
    BY DEF IdsExclusive
  <2>2. ASSUME NEW s \in Requests  PROVE InFlight(s)' <=> InFlight(s)
    BY DEF InFlight, Inserted, TypeOK, NoCall
  <2>3. QED
    BY <2>1, <2>2 DEF ActiveSessionsExact
<1>2. ASSUME NEW t \in Threads, InsertSession(t)
      PROVE  ExactInv'
  <2> USE <1>2 DEF InsertSession
  <2> DEFINE r == call[t].req
  <2>1. r \in Requests /\ phase[r] = "created" /\ told[r] = "none"
    BY CallTypes DEF TypeOK, CallsOK, RequestsOK, NoCall
  <2>2. IdsExclusive'
    BY DEF IdsExclusive
  <2>3. ASSUME NEW s \in Requests, IdOf[s] = IdOf[r], s # r  PROVE ~ InFlight(s)
    BY <2>1, <2>3 DEF IdsExclusive, InFlight, Inserted
  <2>4. ASSUME NEW s \in Requests  PROVE InFlight(s)' <=> (InFlight(s) \/ s = r)
    BY <2>1 DEF InFlight, Inserted, TypeOK, CallsOK, HandlerOK, NoCall
  <2>5. QED
    BY <2>1, <2>2, <2>3, <2>4, IdOfAssumption DEF ActiveSessionsExact, TypeOK
<1>3. ASSUME OnRequestComplete
      PROVE  ExactInv'
  <2> USE <1>3 DEF OnRequestComplete
  <2> DEFINE r == io.req
  <2>1. r \in Requests
    BY HandlerTypes DEF TypeOK
  <2>2. IdsExclusive'
    BY DEF IdsExclusive
  <2>3. InFlight(r)
    BY <2>1 DEF InFlight, Inserted, HandlerOK, CallsOK, NoCall
  <2>4. ASSUME NEW s \in Requests  PROVE InFlight(s)' <=> (InFlight(s) /\ s # r)
    BY <2>1 DEF InFlight, Inserted
  <2>5. ASSUME NEW s \in Requests, IdOf[s] = IdOf[r], s # r  PROVE ~ InFlight(s)
    BY <2>1, <2>3, <2>5 DEF IdsExclusive, InFlight, Inserted
  <2>6. QED
    BY <2>1, <2>2, <2>4, <2>5, IdOfAssumption, NoSessionAssumption
       DEF ActiveSessionsExact, TypeOK
<1>4. ASSUME InvokeCallback
      PROVE  ExactInv'
  <2> USE <1>4 DEF InvokeCallback, ActualEc
  <2>1. io.req \in Requests
    BY HandlerTypes DEF TypeOK
  <2>2. IdsExclusive'
    BY <2>1, HandlerTypes DEF IdsExclusive, TypeOK
  <2>3. ASSUME NEW s \in Requests  PROVE InFlight(s)' <=> InFlight(s)
    BY <2>1, HandlerTypes DEF InFlight, Inserted, TypeOK
  <2>4. QED
    BY <2>2, <2>3 DEF ActiveSessionsExact
(* The other steps neither touch the map nor begin or end a flight. *)
<1> DEFINE Same ==
      /\ active_sessions' = active_sessions
      /\ \A s \in Requests : /\ InFlight(s)' <=> InFlight(s)
                             /\ phase'[s] = "new" <=> phase[s] = "new"
                             /\ told'[s] = told[s]
<1>5. ASSUME Same  PROVE ExactInv'
  BY <1>5 DEF ActiveSessionsExact, IdsExclusive
<1> USE DEF InFlight, Inserted, TypeOK
<1>6. ASSUME NEW t \in Threads, AsyncConnect(t)
      PROVE  Same
  BY <1>6 DEF AsyncConnect, CallsOK, NoCall
<1>7. ASSUME NEW t \in Threads, NEW id \in Ids, CancelRequest(t, id)
      PROVE  Same
  BY <1>7, CallTypes DEF CancelRequest, CanCall
<1>8. ASSUME NEW t \in Threads, MarkCancelled(t)
      PROVE  Same
  BY <1>8 DEF MarkCancelled
<1>9. ASSUME NEW t \in Threads, CancelSocket(t)
      PROVE  Same
  BY <1>9 DEF CancelSocket, NoCall
<1>10. ASSUME Close \/ Joined \/ RunReturns
      PROVE  Same
  BY <1>10 DEF Close, Joined, RunReturns, Exited, Polling
<1>11. ASSUME Network
      PROVE  Same
  BY <1>11 DEF Network, TransferSome, Complete
<1>12. ASSUME NEW r \in Requests, TransferMore(r)
      PROVE  Same
  BY <1>12 DEF TransferMore
<1>13. ASSUME NEW r \in Requests, OnConnect(r) \/ OnWriteComplete(r) \/ OnReadComplete(r)
      PROVE  Same
  BY <1>13
     DEF OnConnect, OnWriteComplete, OnReadComplete, EnterHandler, Handler
<1>14. ASSUME CheckCancelled
      PROVE  Same
  BY <1>14 DEF CheckCancelled
<1>15. ASSUME AsyncWrite \/ AsyncReadUntil
      PROVE  Same
  BY <1>15 DEF AsyncWrite, AsyncReadUntil, StartOperation, Polling
<1>16. ASSUME CallbackReturns
      PROVE  Same
  BY <1>16 DEF CallbackReturns, Polling
<1>17. ASSUME UNCHANGED vars
      PROVE  Same
  BY <1>17 DEF vars
<1>18. QED
  BY <1>1, <1>2, <1>3, <1>4, <1>5, <1>6, <1>7, <1>8, <1>9, <1>10, <1>11, <1>12,
     <1>13, <1>14, <1>15, <1>16, <1>17
     DEF Next, BeginCall, FinishCall, IoThread, Terminated

(* With callers that do not give away an id in use, cancelRequest reaches  *)
(* every request in flight, and the map holds nothing else.                *)
THEOREM MapIsExact ==
  ASSUME ~ ReuseInFlight
  PROVE  Spec => []ActiveSessionsExact
<1>1. IInv /\ ExactInv /\ [Next]_vars => ExactInv'
  BY NextExact
<1>2. ExactInv => ActiveSessionsExact
  BY DEF ExactInv
<1>3. QED
  BY <1>1, <1>2, InitExact, SpecIInv, PTL DEF Spec

(* Before the first call the map has no entry and nobody is cancelled.     *)
LEMMA InitConfined == Init => ReuseIsConfined
<1> SUFFICES ASSUME Init, NEW r \in Requests
             PROVE  ~ InFlight(r) /\ active_sessions[IdOf[r]] # r /\ ~ BeingCancelled(r)
  BY DEF ReuseIsConfined
<1>1. ~ InFlight(r)
  BY DEF Init, InFlight, Inserted
<1>2. active_sessions[IdOf[r]] # r
  BY NoSessionAssumption, IdOfAssumption DEF Init
<1>3. ~ BeingCancelled(r)
  BY DEF Init, BeingCancelled, NoCall
<1> QED
  BY <1>1, <1>2, <1>3

(* The map changes only under the mutex: for a session that was just made, *)
(* which nobody can cancel yet, and for one that is about to be reported,  *)
(* which nobody is cancelling. *)
LEMMA NextConfined ==
  ASSUME IInv, ReuseIsConfined, [Next]_vars
  PROVE  ReuseIsConfined'
<1> USE DEF IInv, clientVars, sessionVars, userVars
(* What is enough of a step that leaves the map alone. *)
<1> DEFINE Kept ==
      /\ active_sessions' = active_sessions
      /\ \A s \in Requests : /\ InFlight(s)' <=> InFlight(s)
                             /\ Inserted(s) => Inserted(s)'
                             /\ BeingCancelled(s)' => BeingCancelled(s)
<1>1. ASSUME Kept  PROVE ReuseIsConfined'
  BY <1>1 DEF ReuseIsConfined
<1>2. ASSUME NEW t \in Threads, InsertSession(t)
      PROVE  ReuseIsConfined'
  <2> USE <1>2 DEF InsertSession
  <2> DEFINE r == call[t].req
  <2>1. r \in Requests /\ phase[r] = "created" /\ told[r] = "none" /\ IdOf[r] \in Ids
    BY CallTypes, IdOfAssumption DEF TypeOK, CallsOK, RequestsOK, NoCall
  <2>2. ASSUME NEW s \in Requests  PROVE InFlight(s)' <=> (InFlight(s) \/ s = r)
    BY <2>1 DEF InFlight, Inserted, TypeOK, CallsOK, HandlerOK, NoCall
  <2>3. ASSUME NEW s \in Requests  PROVE Inserted(s)' <=> (Inserted(s) \/ s = r)
    BY <2>1 DEF Inserted, TypeOK, CallsOK, NoCall
  <2>4. ASSUME NEW s \in Requests  PROVE BeingCancelled(s)' => BeingCancelled(s)
    BY DEF BeingCancelled, TypeOK
  <2>5. \A s \in Requests :
          active_sessions'[IdOf[s]] = IF IdOf[s] = IdOf[r] THEN r ELSE active_sessions[IdOf[s]]
    BY <2>1, IdOfAssumption DEF TypeOK
  <2> QED
    BY <2>1, <2>2, <2>3, <2>4, <2>5 DEF ReuseIsConfined
<1>3. ASSUME OnRequestComplete
      PROVE  ReuseIsConfined'
  <2> USE <1>3 DEF OnRequestComplete
  <2> DEFINE r == io.req
  <2>1. r \in Requests /\ Inserted(r) /\ IdOf[r] \in Ids
    <3>1. r \in Requests
      BY HandlerTypes DEF TypeOK
    <3> QED
      BY <3>1, IdOfAssumption DEF Inserted, HandlerOK, CallsOK, NoCall
  <2>2. ASSUME NEW s \in Requests  PROVE InFlight(s)' <=> (InFlight(s) /\ s # r)
    BY <2>1 DEF InFlight, Inserted, TypeOK
  <2>3. ASSUME NEW s \in Requests  PROVE Inserted(s)' <=> Inserted(s)
    BY DEF Inserted
  <2>4. ASSUME NEW s \in Requests  PROVE ~ BeingCancelled(s)'
    BY DEF BeingCancelled, CallsOK
  <2>5. \A s \in Requests :
          active_sessions'[IdOf[s]] =
            IF IdOf[s] = IdOf[r] THEN NoSession ELSE active_sessions[IdOf[s]]
    BY <2>1, IdOfAssumption DEF TypeOK
  <2> QED
    BY <2>1, <2>2, <2>3, <2>4, <2>5, NoSessionAssumption DEF ReuseIsConfined
<1>4. ASSUME NEW t \in Threads, NEW id \in Ids, CancelRequest(t, id)
      PROVE  ReuseIsConfined'
  <2> USE <1>4 DEF CancelRequest, CanCall
  <2> DEFINE r == active_sessions[id]
  <2>1. r \in Requests /\ IdOf[r] = id
    BY DEF TypeOK, MapOK
  <2>2. ASSUME NEW s \in Requests  PROVE InFlight(s)' <=> InFlight(s)
    BY CallTypes DEF InFlight, Inserted, TypeOK
  <2>3. ASSUME NEW s \in Requests  PROVE Inserted(s)' <=> Inserted(s)
    BY CallTypes DEF Inserted, TypeOK
  <2>4. ASSUME NEW s \in Requests  PROVE BeingCancelled(s)' => BeingCancelled(s) \/ s = r
    BY DEF BeingCancelled, TypeOK
  <2> QED
    BY <2>1, <2>2, <2>3, <2>4 DEF ReuseIsConfined
<1>5. ASSUME InvokeCallback
      PROVE  ReuseIsConfined'
  <2> USE <1>5 DEF InvokeCallback
  <2>1. io.req \in Requests
    BY HandlerTypes DEF TypeOK
  <2>2. ASSUME NEW s \in Requests  PROVE InFlight(s)' <=> InFlight(s)
    BY <2>1, HandlerTypes DEF InFlight, Inserted, TypeOK, ActualEc
  <2>3. Kept
    BY <2>2 DEF Inserted, BeingCancelled
  <2> QED
    BY <1>1, <2>3
<1> USE DEF InFlight, Inserted, BeingCancelled, TypeOK
<1>6. ASSUME NEW t \in Threads, NEW r \in Requests, EmulateLongComputationOp(t, r)
      PROVE  Kept
  BY <1>6, CallTypes DEF EmulateLongComputationOp, CanCall, NoCall
<1>7. ASSUME NEW t \in Threads, AsyncConnect(t)
      PROVE  Kept
  BY <1>7 DEF AsyncConnect, CallsOK, NoCall
<1>8. ASSUME NEW t \in Threads, MarkCancelled(t)
      PROVE  Kept
  BY <1>8 DEF MarkCancelled
<1>9. ASSUME NEW t \in Threads, CancelSocket(t)
      PROVE  Kept
  BY <1>9 DEF CancelSocket, NoCall
<1>10. ASSUME Close \/ Joined \/ RunReturns
      PROVE  Kept
  BY <1>10 DEF Close, Joined, RunReturns, Exited, Polling
<1>11. ASSUME Network
      PROVE  Kept
  BY <1>11 DEF Network, TransferSome, Complete
<1>12. ASSUME NEW r \in Requests, TransferMore(r)
      PROVE  Kept
  BY <1>12 DEF TransferMore
<1>13. ASSUME NEW r \in Requests, OnConnect(r) \/ OnWriteComplete(r) \/ OnReadComplete(r)
      PROVE  Kept
  BY <1>13
     DEF OnConnect, OnWriteComplete, OnReadComplete, EnterHandler, Handler
<1>14. ASSUME CheckCancelled
      PROVE  Kept
  BY <1>14 DEF CheckCancelled
<1>15. ASSUME AsyncWrite \/ AsyncReadUntil
      PROVE  Kept
  BY <1>15 DEF AsyncWrite, AsyncReadUntil, StartOperation, Polling
<1>16. ASSUME CallbackReturns
      PROVE  Kept
  BY <1>16 DEF CallbackReturns, Polling
<1>17. ASSUME UNCHANGED vars
      PROVE  Kept
  BY <1>17 DEF vars
<1> QED
  BY <1>1, <1>2, <1>3, <1>4, <1>5, <1>6, <1>7, <1>8, <1>9, <1>10, <1>11, <1>12,
     <1>13, <1>14, <1>15, <1>16, <1>17
     DEF Next, BeginCall, FinishCall, IoThread, Terminated

(* Whatever ids callers give, in use or not: the map holds, and            *)
(* cancelRequest cancels, only sessions that emulateLongComputationOp has  *)
(* inserted and onRequestComplete not erased yet, and one of these is      *)
(* missing only if another was inserted under its id. *)
THEOREM ReuseIsConfinedCorrect == Spec => []ReuseIsConfined
<1>1. IInv /\ ReuseIsConfined /\ [Next]_vars => ReuseIsConfined'
  BY NextConfined
<1> QED
  BY <1>1, InitConfined, SpecIInv, PTL DEF Spec

-------------------------------------------------------------------------------
(* The refinement of RequestLifecycle. *)

(* Before the first call every request is new in the abstract life, too. *)
LEMMA InitRefines == Init => Lifecycle!Init
BY DEF Init, Lifecycle!Init, Status, Polling

(* A step that changes the status and the notification of no request is a  *)
(* stutter of RequestLifecycle. *)
LEMMA NextRefines ==
  ASSUME IInv, [Next]_vars
  PROVE  [Lifecycle!Next]_(Lifecycle!vars)
<1> USE DEF IInv, TypeOK, clientVars, sessionVars, userVars
<1> DEFINE Stutter == /\ \A s \in Requests : Status(s)' = Status(s)
                      /\ notified' = notified
           Moves(r, st) == /\ Status(r)' = st
                           /\ \A s \in Requests \ {r} : Status(s)' = Status(s)
                           /\ notified' = notified
<1>1. ASSUME Stutter  PROVE UNCHANGED Lifecycle!vars
  BY <1>1 DEF Lifecycle!vars
<1>2. ASSUME NEW r \in Requests, NEW st, Moves(r, st)
      PROVE  [s \in Requests |-> Status(s)]' = [[s \in Requests |-> Status(s)] EXCEPT ![r] = st]
  BY <1>2
<1>3. ASSUME NEW t \in Threads, NEW r \in Requests, EmulateLongComputationOp(t, r)
      PROVE  Lifecycle!Start(r)
  <2> USE <1>3 DEF EmulateLongComputationOp
  <2>1. told[r] = "none" /\ ~ was_cancelled[r] /\ io.req # r
    BY DEF RequestsOK, HandlerOK
  <2>2. Status(r) = "new"
    BY <2>1 DEF Status
  <2>3. Status(r)' = "active"
    BY <2>1 DEF Status
  <2>4. \A s \in Requests \ {r} : Status(s)' = Status(s)
    BY DEF Status, ActualEc
  <2>5. QED
    BY <2>2, <2>3, <2>4, <1>2 DEF Lifecycle!Start
<1>4. ASSUME NEW t \in Threads, MarkCancelled(t)
      PROVE  Stutter \/ \E r \in Requests : Lifecycle!Cancel(r)
  <2> USE <1>4 DEF MarkCancelled
  <2>0. PICK r \in Requests : r = call[t].req
    BY CallTypes DEF NoCall
  <2>1. phase[r] # "new"
    BY <2>0 DEF CallsOK
  <2>2. \A s \in Requests \ {r} : Status(s)' = Status(s)
    BY <2>0 DEF Status, ActualEc
  <2>3. Status(r)' = Status(r) \/ (Status(r) = "active" /\ Status(r)' = "cancelling")
    <3>1. was_cancelled'[r] = TRUE
      BY <2>0
    <3>2. CASE told[r] # "none" \/ (io.req = r /\ io.at \in {"finish", "callback"})
      BY <3>2 DEF Status, ActualEc
    <3>3. CASE told[r] = "none" /\ ~ (io.req = r /\ io.at \in {"finish", "callback"})
      BY <2>1, <3>1, <3>3 DEF Status
    <3>4. QED  BY <3>2, <3>3
  <2>4. CASE Status(r)' = Status(r)
    BY <2>1, <2>2, <2>4
  <2>5. CASE Status(r) = "active" /\ Status(r)' = "cancelling"
    <3>1. Lifecycle!Cancel(r)
      BY <2>1, <2>2, <2>5, <1>2 DEF Lifecycle!Cancel
    <3>2. QED  BY <2>1, <3>1
  <2>6. QED  BY <2>3, <2>4, <2>5
(* The I/O thread settles the request with the code st. *)
<1>5. ASSUME NEW r \in Requests, Moves(r, ActualEc'),
             \/ Status(r) = "active" /\ ActualEc' \in {"ok", "error"}
             \/ Status(r) = "cancelling" /\ ActualEc' \in {"error", "aborted"}
      PROVE  Lifecycle!Next
  <2>1. Lifecycle!SettleActive(r) \/ Lifecycle!SettleCancelled(r)
    BY <1>2, <1>5 DEF Lifecycle!SettleActive, Lifecycle!SettleCancelled
  <2>2. QED
    BY <2>1 DEF Lifecycle!Next
<1>6. ASSUME NEW r \in Requests, OnConnect(r) \/ OnWriteComplete(r) \/ OnReadComplete(r)
      PROVE  Stutter \/ Lifecycle!Next
  <2> USE <1>6 DEF OnConnect, OnWriteComplete, OnReadComplete, EnterHandler, Handler
  <2>1. told[r] = "none" /\ phase[r] # "new" /\ (op[r] = "aborted" => was_cancelled[r])
    BY DEF RequestsOK
  <2>2. io.req \notin Requests
    BY HandlerTypes
  <2>3. \A s \in Requests \ {r} : Status(s)' = Status(s)
    BY <2>2 DEF Status
  <2>4. CASE io'.at = "check"
    BY <2>1, <2>2, <2>3, <2>4 DEF Status
  <2>5. CASE io'.at = "finish"
    <3>1. op[r] \in {"error", "aborted"} /\ ActualEc' = op[r]
      BY <2>5 DEF ActualEc
    <3>2. Status(r) = IF was_cancelled[r] THEN "cancelling" ELSE "active"
      BY <2>1, <2>2 DEF Status
    <3>3. Status(r)' = ActualEc'
      BY <2>1, <2>5 DEF Status
    <3>4. QED
      BY <2>1, <2>3, <3>1, <3>2, <3>3, <1>5
  <2>6. QED  BY <2>4, <2>5
<1>7. ASSUME CheckCancelled
      PROVE  Stutter \/ Lifecycle!Next
  <2> USE <1>7 DEF CheckCancelled
  <2>0. PICK r \in Requests : r = io.req
    BY HandlerTypes
  <2>1. /\ r = io.req
        /\ told[r] = "none" /\ phase[r] # "new"
        /\ io.ec \in Finished /\ (io.ec = "aborted" => was_cancelled[r])
    BY <2>0, HandlerTypes DEF HandlerOK
  <2>2. \A s \in Requests \ {r} : Status(s)' = Status(s)
    BY <2>1 DEF Status
  <2>3. Status(r) = IF was_cancelled[r] THEN "cancelling" ELSE "active"
    BY <2>1 DEF Status
  <2>4. CASE io'.at = "start"
    BY <2>1, <2>2, <2>3, <2>4 DEF Status
  <2>5. CASE io'.at = "finish"
    <3>1. ActualEc' = IF was_cancelled[r] THEN "aborted" ELSE io.ec
      BY <2>1 DEF ActualEc
    <3>2. Status(r)' = ActualEc'
      BY <2>1, <2>5 DEF Status
    <3>3. QED
      BY <2>1, <2>2, <2>3, <3>1, <3>2, <1>5
  <2>6. QED  BY <2>4, <2>5, <2>1
<1>8. ASSUME InvokeCallback
      PROVE  Lifecycle!Next
  <2> USE <1>8 DEF InvokeCallback
  <2>0. PICK r \in Requests : r = io.req
    BY HandlerTypes
  <2>1. r = io.req /\ told[r] = "none" /\ ActualEc \in Finished
    BY <2>0, HandlerTypes DEF HandlerOK, ActualEc
  <2>2. \A s \in Requests : Status(s)' = Status(s)
    BY <2>1 DEF Status
  <2>3. Status(r) = ActualEc /\ notified[r] = 0
    BY <2>1 DEF Status, RequestsOK
  <2>4. Lifecycle!Notify(r)
    BY <2>1, <2>2, <2>3 DEF Lifecycle!Notify, Lifecycle!Settled
  <2>5. QED
    BY <2>1, <2>4 DEF Lifecycle!Next
(* The other steps leave every status as it is. *)
<1> USE DEF Status, ActualEc
<1>9. ASSUME NEW t \in Threads, InsertSession(t)
      PROVE  Stutter
  BY <1>9 DEF InsertSession
<1>10. ASSUME NEW t \in Threads, AsyncConnect(t)
      PROVE  Stutter
  BY <1>10 DEF AsyncConnect, CallsOK, NoCall
<1>11. ASSUME NEW t \in Threads, NEW id \in Ids, CancelRequest(t, id)
      PROVE  Stutter
  BY <1>11 DEF CancelRequest
<1>12. ASSUME NEW t \in Threads, CancelSocket(t)
      PROVE  Stutter
  BY <1>12 DEF CancelSocket
<1>13. ASSUME Close \/ Joined
      PROVE  Stutter
  BY <1>13 DEF Close, Joined
<1>14. ASSUME RunReturns
      PROVE  Stutter
  BY <1>14 DEF RunReturns, Exited, Polling
<1>15. ASSUME Network
      PROVE  Stutter
  BY <1>15 DEF Network, TransferSome, Complete
<1>16. ASSUME NEW r \in Requests, TransferMore(r)
      PROVE  Stutter
  BY <1>16 DEF TransferMore
<1>17. ASSUME AsyncWrite \/ AsyncReadUntil
      PROVE  Stutter
  BY <1>17 DEF AsyncWrite, AsyncReadUntil, StartOperation, Polling
<1>18. ASSUME OnRequestComplete
      PROVE  Stutter
  BY <1>18 DEF OnRequestComplete
<1>19. ASSUME CallbackReturns
      PROVE  Stutter
  BY <1>19 DEF CallbackReturns, Polling
<1>20. ASSUME UNCHANGED vars
      PROVE  Stutter
  BY <1>20 DEF vars
<1>21. Stutter \/ Lifecycle!Next
  BY <1>3, <1>4, <1>5, <1>6, <1>7, <1>8, <1>9, <1>10, <1>11, <1>12, <1>13,
     <1>14, <1>15, <1>16, <1>17, <1>18, <1>19, <1>20
     DEF Next, BeginCall, FinishCall, IoThread, Terminated, Lifecycle!Next
<1>22. QED
  BY <1>1, <1>21

(* The client implements RequestLifecycle, for any number of requests and  *)
(* whatever the caller does with the ids. *)
THEOREM Refinement == Spec => ImplementsLifecycle
<1>1. IInv /\ [Next]_vars => [Lifecycle!Next]_(Lifecycle!vars)
  BY NextRefines
<1>2. QED
  BY <1>1, InitRefines, SpecIInv, PTL
     DEF Spec, ImplementsLifecycle, Lifecycle!Spec
===============================================================================
