-------------------------- MODULE HTTPClient_proofs --------------------------
(***************************************************************************)
(* Proofs about HTTPClient, for any number of requests, endpoints and      *)
(* cancellations, and peers that reset connections or do not.              *)
(***************************************************************************)
EXTENDS HTTPClient, TLAPS

HandlerPoints == {"shutdown", "check", "start", "reopen", "finish"}
InHandler(r)  == io.at \in HandlerPoints /\ io.req = r
Connected     == Stages \ {"resolve"}

(* A request has something outstanding only between execute() and its      *)
(* callback, which is called once; a lookup that succeeded has an endpoint.*)
RequestsOK ==
  \A r \in Requests :
    /\ notified[r] = 0 <=> told[r] = "none"
    /\ op[r] # "none" => stage[r] \in Stages /\ told[r] = "none"
    /\ stage[r] = "resolve" /\ op[r] = "ok" => left[r] > 0
    /\ told[r] = "ok" => stage[r] = "body"

(* The request in the handler has nothing outstanding and was not told     *)
(* anything; which step of which handler it is tells its stage.            *)
HandlerOK ==
  \A r \in Requests :
    InHandler(r) =>
      /\ stage[r] \in Stages /\ op[r] = "none" /\ told[r] = "none"
      /\ io.at = "shutdown" => stage[r] = "write"
      /\ io.at = "reopen" => stage[r] = "connect" /\ left[r] > 0
      /\ stage[r] = "resolve" /\ io.at \in {"check", "start"} => left[r] > 0
      /\ io.at = "finish" /\ io.ec = "ok" => stage[r] = "body"

(* The socket is open from the first connect on, but for the moment        *)
(* between two endpoints.                                                  *)
OpenOK ==
  \A r \in Requests :
    /\ is_open[r] => stage[r] \in Connected
    /\ stage[r] \in Connected => is_open[r] \/ (InHandler(r) /\ io.at = "reopen")

(* What the user thread is in the middle of.                               *)
UserOK ==
  /\ user.at = "finish" => stage[user.req] = "created" /\ told[user.req] = "none"
  /\ user.at \in {"resolver", "test", "sock"} => was_cancelled[user.req]
  /\ user.at = "sock" => stage[user.req] \in Connected

(* A request that started an operation although it was cancelled does not  *)
(* get past a look at the flag again.                                      *)
LateOK ==
  \A r \in Requests :
    late[r] > 0 => late[r] = 1 /\ was_cancelled[r] /\ ~ (InHandler(r) /\ io.at = "start")

IInv ==
  /\ TypeOK /\ RequestsOK /\ HandlerOK /\ OpenOK /\ UserOK /\ LateOK
  /\ CancelThrowsOnlyWhileReopening

(* What TypeOK says of a thread that is in the middle of something.        *)
LEMMA HandlerTypes ==
  ASSUME TypeOK, io.at \in HandlerPoints
  PROVE  /\ io.req \in Requests /\ io.ec \in Finished
         /\ \A at \in HandlerPoints, ec \in Finished :
              /\ [io EXCEPT !.at = at] \in Handlers
              /\ [io EXCEPT !.at = at, !.ec = ec] \in Handlers
<1>1. io \in [at : HandlerPoints, req : Requests, ec : Finished]
  BY DEF TypeOK, Handlers, HandlerPoints, Polling, Exited
<1>2. [at : HandlerPoints, req : Requests, ec : Finished] \subseteq Handlers
  BY DEF Handlers, HandlerPoints
<1> QED
  BY <1>1, <1>2

LEMMA CallTypes ==
  ASSUME TypeOK, user.at # "none"
  PROVE  user.req \in Requests
BY DEF TypeOK, Calls, NoCall

-------------------------------------------------------------------------------
(* The invariant holds initially, and every action preserves it: one lemma *)
(* for each action, with one step for each part.                           *)

LEMMA InitIInv == Init => IInv
<1> SUFFICES ASSUME Init PROVE IInv
  OBVIOUS
<1>1. TypeOK
  BY MaxCancelsAssumption, MaxEndpointsAssumption
     DEF Init, TypeOK, Calls, NoCall, Handlers, Polling, Exited
<1>2. RequestsOK /\ HandlerOK /\ OpenOK /\ UserOK /\ LateOK /\ CancelThrowsOnlyWhileReopening
  BY DEF Init, RequestsOK, HandlerOK, OpenOK, UserOK, LateOK, CancelThrowsOnlyWhileReopening,
         InHandler, HandlerPoints, Connected, Stages, NoCall, Polling
<1> QED
  BY <1>1, <1>2 DEF IInv

LEMMA CreateRequestIInv ==
  ASSUME IInv, NEW r \in Requests, CreateRequest(r)
  PROVE  IInv'
<1> USE DEF IInv
<1>1. TypeOK'
  BY DEF CreateRequest, tellVars, TypeOK
<1>2. RequestsOK'
  BY DEF CreateRequest, tellVars, RequestsOK, Stages
<1>3. HandlerOK'
  BY DEF CreateRequest, tellVars, HandlerOK, InHandler, Stages
<1>4. OpenOK'
  BY DEF CreateRequest, OpenOK, InHandler, Connected, Stages
<1>5. UserOK'
  BY DEF CreateRequest, CanCall, UserOK, NoCall
<1>6. LateOK'
  BY DEF CreateRequest, LateOK, InHandler
<1>7. CancelThrowsOnlyWhileReopening'
  BY DEF CreateRequest, CancelThrowsOnlyWhileReopening
<1> QED
  BY <1>1, <1>2, <1>3, <1>4, <1>5, <1>6, <1>7

LEMMA ExecuteIInv ==
  ASSUME IInv, NEW r \in Requests, Execute(r)
  PROVE  IInv'
<1> USE DEF IInv
<1>1. TypeOK'
  BY DEF Execute, tellVars, TypeOK, Calls, Stages
<1>2. RequestsOK'
  BY DEF Execute, tellVars, RequestsOK, Stages, TypeOK
<1>3. HandlerOK'
  BY DEF Execute, tellVars, HandlerOK, InHandler, Stages, TypeOK
<1>4. OpenOK'
  BY DEF Execute, OpenOK, InHandler, Connected, Stages, TypeOK
<1>5. UserOK'
  BY DEF Execute, CanCall, tellVars, UserOK, NoCall
<1>6. LateOK'
  BY DEF Execute, LateOK, InHandler
<1>7. CancelThrowsOnlyWhileReopening'
  BY DEF Execute, CancelThrowsOnlyWhileReopening
<1> QED
  BY <1>1, <1>2, <1>3, <1>4, <1>5, <1>6, <1>7

LEMMA ExecuteFinishesIInv ==
  ASSUME IInv, ExecuteFinishes
  PROVE  IInv'
<1> USE DEF IInv
<1>1. TypeOK'
  BY DEF ExecuteFinishes, opVars, TypeOK, Calls, NoCall, Finished, RequestsOK, UserOK
<1>2. RequestsOK'
  BY DEF ExecuteFinishes, opVars, RequestsOK, Stages, TypeOK, UserOK
<1>3. HandlerOK'
  BY DEF ExecuteFinishes, opVars, HandlerOK, InHandler, Stages, UserOK
<1>4. OpenOK'
  BY DEF ExecuteFinishes, opVars, OpenOK, InHandler
<1>5. UserOK'
  BY DEF ExecuteFinishes, UserOK, NoCall
<1>6. LateOK'
  BY DEF ExecuteFinishes, LateOK, InHandler
<1>7. CancelThrowsOnlyWhileReopening'
  BY DEF ExecuteFinishes, CancelThrowsOnlyWhileReopening
<1> QED
  BY <1>1, <1>2, <1>3, <1>4, <1>5, <1>6, <1>7

LEMMA CancelIInv ==
  ASSUME IInv, NEW r \in Requests, Cancel(r)
  PROVE  IInv'
<1> USE DEF IInv
<1>1. TypeOK'
  BY MaxCancelsAssumption DEF Cancel, opVars, tellVars, TypeOK, Calls
<1>2. RequestsOK'
  BY DEF Cancel, opVars, tellVars, RequestsOK
<1>3. HandlerOK'
  BY DEF Cancel, opVars, tellVars, HandlerOK, InHandler
<1>4. OpenOK'
  BY DEF Cancel, opVars, OpenOK, InHandler
<1>5. UserOK'
  BY DEF Cancel, UserOK, TypeOK
<1>6. LateOK'
  BY DEF Cancel, LateOK, InHandler
<1>7. CancelThrowsOnlyWhileReopening'
  BY DEF Cancel, CancelThrowsOnlyWhileReopening
<1> QED
  BY <1>1, <1>2, <1>3, <1>4, <1>5, <1>6, <1>7

LEMMA CancelResolverIInv ==
  ASSUME IInv, CancelResolver
  PROVE  IInv'
<1> USE DEF IInv
<1>1. TypeOK'
  BY DEF CancelResolver, tellVars, TypeOK, Calls, NoCall, Finished
<1>2. RequestsOK'
  BY DEF CancelResolver, tellVars, RequestsOK, TypeOK
<1>3. HandlerOK'
  BY DEF CancelResolver, tellVars, HandlerOK, InHandler, TypeOK
<1>4. OpenOK'
  BY DEF CancelResolver, OpenOK, InHandler
<1>5. UserOK'
  BY DEF CancelResolver, UserOK
<1>6. LateOK'
  BY DEF CancelResolver, LateOK, InHandler
<1>7. CancelThrowsOnlyWhileReopening'
  BY DEF CancelResolver, CancelThrowsOnlyWhileReopening
<1> QED
  BY <1>1, <1>2, <1>3, <1>4, <1>5, <1>6, <1>7

LEMMA TestOpenIInv ==
  ASSUME IInv, TestOpen
  PROVE  IInv'
<1> USE DEF IInv
<1>1. TypeOK'
  BY DEF TestOpen, opVars, tellVars, TypeOK, Calls, NoCall
<1>2. RequestsOK'
  BY DEF TestOpen, opVars, tellVars, RequestsOK
<1>3. HandlerOK'
  BY DEF TestOpen, opVars, tellVars, HandlerOK, InHandler
<1>4. OpenOK'
  BY DEF TestOpen, opVars, OpenOK, InHandler
<1>5. UserOK'
  BY DEF TestOpen, opVars, UserOK, NoCall, TypeOK, OpenOK, Calls
<1>6. LateOK'
  BY DEF TestOpen, LateOK, InHandler
<1>7. CancelThrowsOnlyWhileReopening'
  BY DEF TestOpen, CancelThrowsOnlyWhileReopening
<1> QED
  BY <1>1, <1>2, <1>3, <1>4, <1>5, <1>6, <1>7

LEMMA CancelSocketIInv ==
  ASSUME IInv, CancelSocket
  PROVE  IInv'
<1> USE DEF IInv
<1>1. TypeOK'
  BY DEF CancelSocket, tellVars, TypeOK, Calls, Finished
<1>2. RequestsOK'
  BY DEF CancelSocket, tellVars, RequestsOK, TypeOK
<1>3. HandlerOK'
  BY DEF CancelSocket, tellVars, HandlerOK, InHandler, TypeOK
<1>4. OpenOK'
  BY DEF CancelSocket, OpenOK, InHandler
<1>5. UserOK'
  BY DEF CancelSocket, UserOK, NoCall
<1>6. LateOK'
  BY DEF CancelSocket, LateOK, InHandler
<1>7. CancelThrowsOnlyWhileReopening'
  BY DEF CancelSocket, CancelThrowsOnlyWhileReopening, TypeOK, OpenOK, UserOK, Calls,
     NoCall, InHandler
<1> QED
  BY <1>1, <1>2, <1>3, <1>4, <1>5, <1>6, <1>7

LEMMA CloseIInv ==
  ASSUME IInv, Close
  PROVE  IInv'
<1> USE DEF IInv
<1>1. TypeOK'
  BY DEF Close, opVars, tellVars, TypeOK
<1>2. RequestsOK'
  BY DEF Close, opVars, tellVars, RequestsOK
<1>3. HandlerOK'
  BY DEF Close, opVars, tellVars, HandlerOK, InHandler
<1>4. OpenOK'
  BY DEF Close, opVars, OpenOK, InHandler
<1>5. UserOK'
  BY DEF Close, opVars, tellVars, UserOK
<1>6. LateOK'
  BY DEF Close, LateOK, InHandler
<1>7. CancelThrowsOnlyWhileReopening'
  BY DEF Close, CancelThrowsOnlyWhileReopening
<1> QED
  BY <1>1, <1>2, <1>3, <1>4, <1>5, <1>6, <1>7

LEMMA JoinedIInv ==
  ASSUME IInv, Joined
  PROVE  IInv'
<1> USE DEF IInv
<1>1. TypeOK'
  BY DEF Joined, opVars, tellVars, TypeOK
<1>2. RequestsOK'
  BY DEF Joined, opVars, tellVars, RequestsOK
<1>3. HandlerOK'
  BY DEF Joined, opVars, tellVars, HandlerOK, InHandler
<1>4. OpenOK'
  BY DEF Joined, opVars, OpenOK, InHandler
<1>5. UserOK'
  BY DEF Joined, opVars, tellVars, UserOK
<1>6. LateOK'
  BY DEF Joined, LateOK, InHandler
<1>7. CancelThrowsOnlyWhileReopening'
  BY DEF Joined, CancelThrowsOnlyWhileReopening
<1> QED
  BY <1>1, <1>2, <1>3, <1>4, <1>5, <1>6, <1>7

LEMMA ResolveCompletesIInv ==
  ASSUME IInv, NEW r \in Requests, ResolveCompletes(r)
  PROVE  IInv'
<1> USE DEF IInv
<1>1. TypeOK'
  BY DEF ResolveCompletes, tellVars, TypeOK, Finished
<1>2. RequestsOK'
  BY DEF ResolveCompletes, tellVars, RequestsOK, TypeOK
<1>3. HandlerOK'
  BY DEF ResolveCompletes, tellVars, HandlerOK, InHandler, TypeOK
<1>4. OpenOK'
  BY DEF ResolveCompletes, OpenOK, InHandler
<1>5. UserOK'
  BY DEF ResolveCompletes, tellVars, UserOK
<1>6. LateOK'
  BY DEF ResolveCompletes, LateOK, InHandler
<1>7. CancelThrowsOnlyWhileReopening'
  BY DEF ResolveCompletes, CancelThrowsOnlyWhileReopening
<1> QED
  BY <1>1, <1>2, <1>3, <1>4, <1>5, <1>6, <1>7

LEMMA BecomesIInv ==
  ASSUME IInv, Running, NEW r \in Requests, op[r] # "none",
         NEW s \in {"pending", "partial", "ok", "error"}, s = "ok" => stage[r] # "resolve",
         Becomes(r, s)
  PROVE  IInv'
<1> USE DEF IInv
<1>1. TypeOK'
  BY DEF Becomes, tellVars, TypeOK, Finished
<1>2. RequestsOK'
  BY DEF Becomes, tellVars, RequestsOK
<1>3. HandlerOK'
  BY DEF Becomes, tellVars, HandlerOK, InHandler
<1>4. OpenOK'
  BY DEF Becomes, OpenOK, InHandler
<1>5. UserOK'
  BY DEF Becomes, tellVars, UserOK
<1>6. LateOK'
  BY DEF Becomes, LateOK, InHandler
<1>7. CancelThrowsOnlyWhileReopening'
  BY DEF Becomes, CancelThrowsOnlyWhileReopening
<1> QED
  BY <1>1, <1>2, <1>3, <1>4, <1>5, <1>6, <1>7

LEMMA RunReturnsIInv ==
  ASSUME IInv, RunReturns
  PROVE  IInv'
<1> USE DEF IInv
<1>1. TypeOK'
  BY DEF RunReturns, opVars, tellVars, TypeOK, Handlers
<1>2. RequestsOK'
  BY DEF RunReturns, opVars, tellVars, RequestsOK
<1>3. HandlerOK'
  BY DEF RunReturns, HandlerOK, InHandler, HandlerPoints, Exited
<1>4. OpenOK'
  BY DEF RunReturns, opVars, OpenOK
<1>5. UserOK'
  BY DEF RunReturns, opVars, tellVars, UserOK
<1>6. LateOK'
  BY DEF RunReturns, LateOK, Exited
<1>7. CancelThrowsOnlyWhileReopening'
  BY DEF RunReturns, CancelThrowsOnlyWhileReopening
<1> QED
  BY <1>1, <1>2, <1>3, <1>4, <1>5, <1>6, <1>7

LEMMA EnterHandlerIInv ==
  ASSUME IInv, NEW r \in Requests, NEW from \in Stages, NEW at \in {"check", "shutdown", "finish"},
         NEW codes \in SUBSET Finished,
         from = "resolve" => at # "finish",
         at = "finish" => from = "body",
         at = "shutdown" => from = "write",
         EnterHandler(r, from, at, codes)
  PROVE  IInv'
<1> USE DEF IInv
<1>1. TypeOK'
  BY DEF EnterHandler, tellVars, TypeOK, Handlers
<1>2. RequestsOK'
  BY DEF EnterHandler, tellVars, RequestsOK
<1>3. HandlerOK'
  BY DEF EnterHandler, tellVars, HandlerOK, InHandler, TypeOK, RequestsOK, Finished
<1>4. OpenOK'
  BY DEF EnterHandler, OpenOK
<1>5. UserOK'
  BY DEF EnterHandler, tellVars, UserOK
<1>6. LateOK'
  BY DEF EnterHandler, LateOK
<1>7. CancelThrowsOnlyWhileReopening'
  BY DEF EnterHandler, CancelThrowsOnlyWhileReopening
<1> QED
  BY <1>1, <1>2, <1>3, <1>4, <1>5, <1>6, <1>7

LEMMA NextEndpointIInv ==
  ASSUME IInv, NEW r \in Requests, NextEndpoint(r)
  PROVE  IInv'
<1> USE DEF IInv
<1>1. TypeOK'
  BY DEF NextEndpoint, tellVars, TypeOK, Handlers
<1>2. RequestsOK'
  BY DEF NextEndpoint, tellVars, RequestsOK
<1>3. HandlerOK'
  BY DEF NextEndpoint, tellVars, HandlerOK, InHandler, TypeOK, RequestsOK
<1>4. OpenOK'
  BY DEF NextEndpoint, OpenOK, InHandler, HandlerPoints
<1>5. UserOK'
  BY DEF NextEndpoint, tellVars, UserOK
<1>6. LateOK'
  BY DEF NextEndpoint, LateOK
<1>7. CancelThrowsOnlyWhileReopening'
  BY DEF NextEndpoint, CancelThrowsOnlyWhileReopening
<1> QED
  BY <1>1, <1>2, <1>3, <1>4, <1>5, <1>6, <1>7

LEMMA ReopenIInv ==
  ASSUME IInv, Reopen
  PROVE  IInv'
<1> USE DEF IInv
<1>1. TypeOK'
  <2>0. io.at \in HandlerPoints /\ io.at = "reopen"
    BY DEF Reopen, HandlerPoints
  <2>1. io.req \in Requests /\ left[io.req] > 0
    BY <2>0, HandlerTypes DEF HandlerOK, InHandler
  <2>2. left' \in [Requests -> 0..MaxEndpoints]
    BY <2>1, MaxEndpointsAssumption DEF Reopen, TypeOK
  <2> QED
    BY <2>1, <2>2 DEF Reopen, TypeOK, tellVars, Handlers, Polling, Finished
<1>2. RequestsOK'
  BY DEF Reopen, tellVars, RequestsOK, HandlerOK, HandlerPoints, InHandler
<1>3. HandlerOK'
  BY DEF Reopen, HandlerOK, InHandler, HandlerPoints, Polling
<1>4. OpenOK'
  BY DEF Reopen, OpenOK, InHandler, HandlerPoints, Connected, TypeOK, HandlerOK
<1>5. UserOK'
  BY DEF Reopen, tellVars, UserOK
<1>6. LateOK'
  BY DEF Reopen, LateOK, Polling
<1>7. CancelThrowsOnlyWhileReopening'
  BY DEF Reopen, Running, CancelThrowsOnlyWhileReopening
<1> QED
  BY <1>1, <1>2, <1>3, <1>4, <1>5, <1>6, <1>7

LEMMA ShutdownSendIInv ==
  ASSUME IInv, ShutdownSend
  PROVE  IInv'
<1> USE DEF IInv
<1>1. TypeOK'
  BY DEF ShutdownSend, opVars, tellVars, TypeOK, Handlers, Polling, Exited
<1>2. RequestsOK'
  BY DEF ShutdownSend, opVars, tellVars, RequestsOK
<1>3. HandlerOK'
  BY DEF ShutdownSend, opVars, tellVars, HandlerOK, InHandler, HandlerPoints, Polling,
     Exited, TypeOK, Handlers
<1>4. OpenOK'
  BY DEF ShutdownSend, opVars, OpenOK
<1>5. UserOK'
  BY DEF ShutdownSend, opVars, tellVars, UserOK
<1>6. LateOK'
  BY DEF ShutdownSend, LateOK, Polling, Exited, TypeOK, Handlers
<1>7. CancelThrowsOnlyWhileReopening'
  BY DEF ShutdownSend, CancelThrowsOnlyWhileReopening
<1> QED
  BY <1>1, <1>2, <1>3, <1>4, <1>5, <1>6, <1>7

LEMMA OnStatusLineInvalidIInv ==
  ASSUME IInv, NEW r \in Requests, OnStatusLineInvalid(r)
  PROVE  IInv'
<1> USE DEF IInv
<1>1. TypeOK'
  BY DEF OnStatusLineInvalid, tellVars, TypeOK, Handlers, Finished
<1>2. RequestsOK'
  BY DEF OnStatusLineInvalid, tellVars, RequestsOK
<1>3. HandlerOK'
  BY DEF OnStatusLineInvalid, tellVars, HandlerOK, InHandler, TypeOK, RequestsOK
<1>4. OpenOK'
  BY DEF OnStatusLineInvalid, OpenOK
<1>5. UserOK'
  BY DEF OnStatusLineInvalid, tellVars, UserOK
<1>6. LateOK'
  BY DEF OnStatusLineInvalid, LateOK
<1>7. CancelThrowsOnlyWhileReopening'
  BY DEF OnStatusLineInvalid, CancelThrowsOnlyWhileReopening
<1> QED
  BY <1>1, <1>2, <1>3, <1>4, <1>5, <1>6, <1>7

LEMMA CheckCancelledIInv ==
  ASSUME IInv, CheckCancelled
  PROVE  IInv'
<1> USE DEF IInv
<1>1. TypeOK'
  BY HandlerTypes DEF CheckCancelled, opVars, tellVars, TypeOK, HandlerPoints, Finished
<1>2. RequestsOK'
  BY DEF CheckCancelled, opVars, tellVars, RequestsOK
<1>3. HandlerOK'
  BY DEF CheckCancelled, opVars, tellVars, HandlerOK, InHandler, HandlerPoints
<1>4. OpenOK'
  BY DEF CheckCancelled, opVars, OpenOK
<1>5. UserOK'
  BY DEF CheckCancelled, opVars, tellVars, UserOK
<1>6. LateOK'
  BY DEF CheckCancelled, LateOK, InHandler
<1>7. CancelThrowsOnlyWhileReopening'
  BY DEF CheckCancelled, CancelThrowsOnlyWhileReopening
<1> QED
  BY <1>1, <1>2, <1>3, <1>4, <1>5, <1>6, <1>7

LEMMA AsyncConnectIInv ==
  ASSUME IInv, AsyncConnect
  PROVE  IInv'
<1> USE DEF IInv
<1>1. TypeOK'
  BY MaxEndpointsAssumption DEF AsyncConnect, StartOperation, tellVars, TypeOK,
     HandlerPoints, Handlers, Polling, Exited, Stages, HandlerOK, InHandler
<1>2. RequestsOK'
  BY DEF AsyncConnect, StartOperation, tellVars, RequestsOK, Stages, HandlerOK,
     HandlerPoints, InHandler
<1>3. HandlerOK'
  BY DEF AsyncConnect, StartOperation, HandlerOK, InHandler, HandlerPoints, Polling
<1>4. OpenOK'
  BY DEF AsyncConnect, StartOperation, OpenOK, Connected, Stages, TypeOK
<1>5. UserOK'
  BY DEF AsyncConnect, StartOperation, tellVars, UserOK, Connected
<1>6. LateOK'
  BY DEF AsyncConnect, StartOperation, LateOK, InHandler, HandlerPoints, Polling, TypeOK
<1>7. CancelThrowsOnlyWhileReopening'
  BY DEF AsyncConnect, StartOperation, CancelThrowsOnlyWhileReopening
<1> QED
  BY <1>1, <1>2, <1>3, <1>4, <1>5, <1>6, <1>7

LEMMA StartOperationIInv ==
  ASSUME IInv, NEW from \in Connected, NEW to \in Connected,
         StartOperation(from, to), UNCHANGED <<is_open, left>>
  PROVE  IInv'
<1> USE DEF IInv
<1>1. TypeOK'
  BY DEF StartOperation, tellVars, TypeOK, Handlers, Polling, Exited, Connected
<1>2. RequestsOK'
  BY DEF StartOperation, tellVars, RequestsOK, HandlerOK, HandlerPoints, InHandler,
     Connected
<1>3. HandlerOK'
  BY DEF StartOperation, HandlerOK, InHandler, HandlerPoints, Polling
<1>4. OpenOK'
  BY DEF StartOperation, OpenOK
<1>5. UserOK'
  BY DEF StartOperation, tellVars, UserOK, Connected, Stages
<1>6. LateOK'
  BY DEF StartOperation, LateOK, InHandler, HandlerPoints, Polling, TypeOK
<1>7. CancelThrowsOnlyWhileReopening'
  BY DEF StartOperation, CancelThrowsOnlyWhileReopening
<1> QED
  BY <1>1, <1>2, <1>3, <1>4, <1>5, <1>6, <1>7

LEMMA OnFinishIInv ==
  ASSUME IInv, OnFinish
  PROVE  IInv'
<1> USE DEF IInv
<1>1. TypeOK'
  BY DEF OnFinish, opVars, TypeOK, HandlerPoints, Handlers, Polling, Exited, RequestsOK,
     HandlerOK, InHandler
<1>2. RequestsOK'
  BY DEF OnFinish, opVars, RequestsOK, TypeOK, HandlerOK, HandlerPoints, Handlers,
     Polling, Exited, Finished, InHandler
<1>3. HandlerOK'
  BY DEF OnFinish, HandlerOK, InHandler, HandlerPoints, Polling
<1>4. OpenOK'
  BY DEF OnFinish, opVars, OpenOK
<1>5. UserOK'
  BY DEF OnFinish, opVars, UserOK, Stages, TypeOK, HandlerOK, HandlerPoints, InHandler
<1>6. LateOK'
  BY DEF OnFinish, LateOK, Polling
<1>7. CancelThrowsOnlyWhileReopening'
  BY DEF OnFinish, CancelThrowsOnlyWhileReopening
<1> QED
  BY <1>1, <1>2, <1>3, <1>4, <1>5, <1>6, <1>7

LEMMA NextIInv == IInv /\ [Next]_vars => IInv'
<1> SUFFICES ASSUME IInv, [Next]_vars PROVE IInv'
  OBVIOUS
<1>1. CASE UserThread
  BY <1>1, CreateRequestIInv, ExecuteIInv, CancelIInv, ExecuteFinishesIInv, CancelResolverIInv,
     TestOpenIInv, CancelSocketIInv, CloseIInv, JoinedIInv
     DEF UserThread, InExecute, InCancel
<1>2. ASSUME NEW r \in Requests, Complete(r) \/ TransferSome(r) \/ TransferMore(r) PROVE IInv'
  <2>1. CASE Complete(r)
    BY <2>1, BecomesIInv DEF Complete
  <2>2. CASE TransferSome(r)
    BY <2>2, BecomesIInv DEF TransferSome
  <2>3. CASE TransferMore(r)
    BY <2>3, BecomesIInv DEF TransferMore
  <2> QED
    BY <1>2, <2>1, <2>2, <2>3
<1>3. CASE Network
  BY <1>2, <1>3, ResolveCompletesIInv DEF Network
<1>4. ASSUME NEW r \in Requests, HandleCompletion(r) PROVE IInv'
  <2>1. CASE NextEndpoint(r)
    BY <2>1, NextEndpointIInv
  <2>2. CASE OnStatusLineInvalid(r)
    BY <2>2, OnStatusLineInvalidIInv
  <2>3. CASE OnHostNameResolved(r)
    BY <2>3, EnterHandlerIInv DEF OnHostNameResolved, Stages
  <2>4. CASE OnConnectionEstablished(r)
    BY <2>4, EnterHandlerIInv DEF OnConnectionEstablished, Stages, Finished
  <2>5. CASE OnRequestSent(r)
    BY <2>5, EnterHandlerIInv DEF OnRequestSent, Stages
  <2>6. CASE OnStatusLineReceived(r) \/ OnHeadersReceived(r)
    BY <2>6, EnterHandlerIInv DEF OnStatusLineReceived, OnHeadersReceived, Stages
  <2>7. CASE OnResponseBodyReceived(r)
    BY <2>7, EnterHandlerIInv DEF OnResponseBodyReceived, Stages
  <2> QED
    BY <1>4, <2>1, <2>2, <2>3, <2>4, <2>5, <2>6, <2>7 DEF HandleCompletion
<1>5. CASE AsyncWriteRequest \/ AsyncReadStatusLine \/ AsyncReadHeaders \/ AsyncReadBody
  BY <1>5, StartOperationIInv
     DEF AsyncWriteRequest, AsyncReadStatusLine, AsyncReadHeaders, AsyncReadBody, Connected, Stages
<1>6. CASE HandlerStep
  BY <1>5, <1>6, ReopenIInv, ShutdownSendIInv, CheckCancelledIInv, AsyncConnectIInv, OnFinishIInv
     DEF HandlerStep
<1>7. CASE UNCHANGED vars
  BY <1>7
     DEF vars, opVars, tellVars, IInv, TypeOK, RequestsOK, HandlerOK, InHandler, OpenOK, UserOK,
         LateOK, CancelThrowsOnlyWhileReopening
<1> QED
  BY <1>1, <1>2, <1>3, <1>4, <1>6, <1>7, RunReturnsIInv DEF Next, Terminated

LEMMA Invariance == Spec => []IInv
BY InitIInv, NextIInv, PTL DEF Spec

(* Every variable keeps its type: the connect asks for no endpoint beyond  *)
(* the last, and no callback is called twice, whichever thread calls it.   *)
THEOREM TypeCorrect == Spec => []TypeOK
<1>1. IInv => TypeOK
  BY DEF IInv
<1> QED
  BY <1>1, Invariance, PTL

(* A cancelled request starts at most one more operation, and succeeds     *)
(* only if it has come to the body. *)
THEOREM CancelIsNoticedCorrect == Spec => []CancelIsNoticed
<1>1. IInv => CancelIsNoticed
  <2> SUFFICES ASSUME IInv, NEW r \in Requests
               PROVE  late[r] <= 1 /\ (told[r] = "ok" => stage[r] = "body")
    BY DEF CancelIsNoticed
  <2>1. late[r] \in Nat
    BY DEF IInv, TypeOK
  <2> QED
    BY <2>1 DEF IInv, RequestsOK, LateOK
<1> QED
  BY <1>1, Invariance, PTL

(* cancel() throws only between the close and the open of a connect that   *)
(* goes on to its next endpoint. *)
THEOREM CancelThrowsOnlyWhileReopeningCorrect == Spec => []CancelThrowsOnlyWhileReopening
<1>1. IInv => CancelThrowsOnlyWhileReopening
  BY DEF IInv
<1> QED
  BY <1>1, Invariance, PTL

-------------------------------------------------------------------------------
(* Refinement.  An abort was asked for, and nothing is known of a request  *)
(* before it is created.                                                   *)
CausesOK ==
  \A r \in Requests :
    /\ op[r] = "aborted" => was_cancelled[r]
    /\ stage[r] = "absent" => told[r] = "none" /\ ~ was_cancelled[r]

LEMMA NextCauses == ASSUME IInv, CausesOK, [Next]_vars PROVE CausesOK'
<1> USE DEF IInv, CausesOK, opVars, tellVars
<1>1. ASSUME NEW r \in Requests, CreateRequest(r) \/ Execute(r) \/ Cancel(r) PROVE CausesOK'
  BY <1>1 DEF CreateRequest, Execute, Cancel, TypeOK
<1>2. CASE ExecuteFinishes
  BY <1>2, CallTypes DEF ExecuteFinishes, UserOK, TypeOK
<1>3. CASE CancelResolver
  BY <1>3, CallTypes DEF CancelResolver, UserOK, TypeOK
<1>4. CASE TestOpen \/ Close \/ Joined \/ RunReturns \/ UNCHANGED vars
  BY <1>4 DEF TestOpen, Close, Joined, RunReturns, vars
<1>5. CASE CancelSocket
  BY <1>5, CallTypes DEF CancelSocket, UserOK, TypeOK
<1>6. ASSUME NEW r \in Requests,
             ResolveCompletes(r) \/ Complete(r) \/ TransferSome(r) \/ TransferMore(r)
      PROVE  CausesOK'
  BY <1>6 DEF ResolveCompletes, Complete, TransferSome, TransferMore, Becomes, TypeOK
<1>7. ASSUME NEW r \in Requests, HandleCompletion(r) PROVE CausesOK'
  BY <1>7
     DEF HandleCompletion, NextEndpoint, OnHostNameResolved, OnConnectionEstablished,
         OnRequestSent, OnStatusLineReceived, OnStatusLineInvalid, OnHeadersReceived,
         OnResponseBodyReceived, EnterHandler, TypeOK
<1>8. CASE Reopen \/ ShutdownSend \/ CheckCancelled
  BY <1>8 DEF Reopen, ShutdownSend, CheckCancelled, TypeOK
<1>9. ASSUME NEW from, NEW to \in Stages, StartOperation(from, to) PROVE CausesOK'
  BY <1>9 DEF StartOperation, TypeOK, Stages
<1>10. CASE OnFinish
  <2>1. io.req \in Requests /\ stage[io.req] # "absent"
    BY <1>10, HandlerTypes DEF OnFinish, HandlerOK, InHandler, HandlerPoints, Stages
  <2> QED
    BY <1>10, <2>1 DEF OnFinish, TypeOK
<1>11. CASE HandlerStep
  BY <1>8, <1>9, <1>10, <1>11
     DEF HandlerStep, AsyncConnect, AsyncWriteRequest, AsyncReadStatusLine, AsyncReadHeaders,
         AsyncReadBody, Stages
<1> QED
  BY <1>1, <1>2, <1>3, <1>4, <1>5, <1>6, <1>7, <1>11
     DEF Next, UserThread, InExecute, InCancel, Network, Terminated

LEMMA InitRefines == Init => CausesOK /\ Lifecycle!Init
BY DEF Init, CausesOK, Lifecycle!Init, Status, NoCall, Polling

LEMMA NextRefines ==
  ASSUME IInv, CausesOK, [Next]_vars
  PROVE  [Lifecycle!Next]_(Lifecycle!vars)
<1> USE DEF IInv, TypeOK, opVars, tellVars
<1> DEFINE Stutter == /\ \A s \in Requests : Status(s)' = Status(s)
                      /\ notified' = notified
           Moves(r, st) == /\ Status(r)' = st
                           /\ \A s \in Requests \ {r} : Status(s)' = Status(s)
                           /\ notified' = notified
           Open(r) == IF was_cancelled[r] THEN "cancelling" ELSE "active"
<1>1. ASSUME Stutter PROVE UNCHANGED Lifecycle!vars
  BY <1>1 DEF Lifecycle!vars
<1>2. ASSUME NEW r \in Requests, NEW st, Moves(r, st)
      PROVE  [s \in Requests |-> Status(s)]' = [[s \in Requests |-> Status(s)] EXCEPT ![r] = st]
  BY <1>2
(* A request that is neither told nor about to be is settled with st.      *)
<1>3. ASSUME NEW r \in Requests, NEW st \in Finished, Moves(r, st), Status(r) = Open(r),
             st = "aborted" => was_cancelled[r]
      PROVE  Lifecycle!Next
  <2>1. st \in {"ok", "error", "aborted"}
    BY DEF Finished
  <2>2. Lifecycle!SettleActive(r) \/ Lifecycle!SettleCancelled(r)
    BY <1>2, <1>3, <2>1 DEF Lifecycle!SettleActive, Lifecycle!SettleCancelled
  <2> QED
    BY <2>2 DEF Lifecycle!Next
<1>4. ASSUME NEW r \in Requests, Status(r) \in Finished, notified[r] = 0,
             \A s \in Requests : Status(s)' = Status(s),
             notified' = [notified EXCEPT ![r] = @ + 1]
      PROVE  Lifecycle!Next
  <2>1. Lifecycle!Notify(r)
    BY <1>4 DEF Lifecycle!Notify, Lifecycle!Settled, Finished
  <2> QED
    BY <2>1 DEF Lifecycle!Next
(* What a request with something outstanding, or in a handler, is.         *)
<1>5. ASSUME NEW r \in Requests, op[r] # "none"
      PROVE  /\ told[r] = "none" /\ stage[r] \in Stages /\ ~ InHandler(r)
             /\ user # [at |-> "finish", req |-> r]
             /\ ~ (stage[r] = "body" /\ op[r] \in Finished) => Status(r) = Open(r)
  <2>1. told[r] = "none" /\ stage[r] \in Stages /\ ~ InHandler(r)
    BY <1>5 DEF RequestsOK, HandlerOK
  <2>2. user # [at |-> "finish", req |-> r]
    BY <2>1 DEF UserOK, Stages
  <2>3. ~ (io.req = r /\ io.at = "finish")
    BY <2>1 DEF InHandler, HandlerPoints
  <2> QED
    BY <2>1, <2>2, <2>3 DEF Status, Stages
<1>6. ASSUME NEW r \in Requests, InHandler(r), io.at # "finish"
      PROVE  /\ told[r] = "none" /\ op[r] = "none" /\ stage[r] \in Stages
             /\ user # [at |-> "finish", req |-> r]
             /\ Status(r) = Open(r)
  <2>1. told[r] = "none" /\ op[r] = "none" /\ stage[r] \in Stages
    BY <1>6 DEF HandlerOK
  <2>2. user # [at |-> "finish", req |-> r]
    BY <2>1 DEF UserOK, Stages
  <2> QED
    BY <1>6, <2>1, <2>2 DEF Status, Stages, Finished
(* The user thread.                                                        *)
<1>7. ASSUME NEW r \in Requests, CreateRequest(r) PROVE Lifecycle!Next
  <2> USE <1>7 DEF CreateRequest, CanCall, NoCall
  <2>1. told[r] = "none" /\ ~ was_cancelled[r] /\ op[r] = "none" /\ ~ InHandler(r)
    BY DEF CausesOK, RequestsOK, HandlerOK, Stages
  <2>2. Status(r) = "new" /\ Status(r)' = "active"
    BY <2>1 DEF Status, InHandler, HandlerPoints, Finished
  <2>3. \A s \in Requests \ {r} : Status(s)' = Status(s)
    BY DEF Status
  <2>4. Lifecycle!Start(r)
    BY <1>2, <2>2, <2>3 DEF Lifecycle!Start
  <2> QED
    BY <2>4 DEF Lifecycle!Next
<1>8. ASSUME NEW r \in Requests, Execute(r) PROVE Stutter \/ Lifecycle!Next
  <2> USE <1>8 DEF Execute, CanCall, NoCall
  <2>1. op[r] = "none" /\ ~ InHandler(r)
    BY DEF RequestsOK, HandlerOK, Stages
  <2>2. Status(r) = Open(r)
    BY <2>1 DEF Status, InHandler, HandlerPoints, Finished
  <2>3. \A s \in Requests \ {r} : Status(s)' = Status(s)
    BY DEF Status
  <2>4. CASE was_cancelled[r]
    <3>1. Status(r)' = "aborted"
      BY <2>4 DEF Status
    <3> QED
      BY <1>3, <2>2, <2>3, <2>4, <3>1 DEF Finished
  <2>5. CASE ~ was_cancelled[r]
    <3>1. Status(r)' = "active"
      BY <2>1, <2>5 DEF Status, InHandler, HandlerPoints, Finished
    <3> QED
      BY <2>2, <2>3, <2>5, <3>1
  <2> QED
    BY <2>4, <2>5
<1>9. ASSUME ExecuteFinishes PROVE Stutter \/ Lifecycle!Next
  <2> USE <1>9 DEF ExecuteFinishes
  <2>1. PICK r \in Requests : r = user.req
    BY CallTypes
  <2>2. told[r] = "none" /\ notified[r] = 0 /\ user = [at |-> "finish", req |-> r]
    BY <2>1 DEF UserOK, RequestsOK, Calls, NoCall
  <2>3. Status(r) = "aborted" /\ Status(r)' = "aborted"
    BY <2>1, <2>2 DEF Status
  <2>4. \A s \in Requests \ {r} : Status(s)' = Status(s)
    BY <2>1, <2>2 DEF Status, NoCall
  <2> QED
    BY <1>4, <2>1, <2>2, <2>3, <2>4 DEF Finished
<1>10. ASSUME NEW r \in Requests, Cancel(r) PROVE Stutter \/ Lifecycle!Next
  <2> USE <1>10 DEF Cancel, CanCall, NoCall
  <2>1. \A s \in Requests \ {r} : Status(s)' = Status(s)
    BY DEF Status
  <2>2. Status(r)' = Status(r) \/ (Status(r) = "active" /\ Status(r)' = "cancelling")
    BY DEF Status
  <2>3. CASE Status(r) = "active" /\ Status(r)' = "cancelling"
    <3>1. Lifecycle!Cancel(r)
      BY <1>2, <2>1, <2>3 DEF Lifecycle!Cancel
    <3> QED
      BY <3>1 DEF Lifecycle!Next
  <2> QED
    BY <2>1, <2>2, <2>3
<1>11. ASSUME CancelResolver PROVE Stutter \/ Lifecycle!Next
  <2> USE <1>11 DEF CancelResolver
  <2>1. /\ user.at = "resolver" /\ user'.at = "test"
        /\ \A s \in Requests : op'[s] # op[s] => stage[s] = "resolve"
    BY CallTypes DEF Calls, NoCall
  <2> QED
    BY <2>1 DEF Status
<1>12. ASSUME CancelSocket PROVE Stutter \/ Lifecycle!Next
  <2> USE <1>12 DEF CancelSocket
  <2>1. PICK r \in Requests : r = user.req
    BY CallTypes
  <2>2. was_cancelled[r] /\ user.at = "sock"
    BY <2>1 DEF UserOK
  <2>3. \A s \in Requests \ {r} : Status(s)' = Status(s)
    BY <2>1, <2>2 DEF Status, NoCall
  <2>4. CASE is_open[r] /\ op[r] = "pending" /\ stage[r] = "body"
    <3>1. Status(r) = Open(r)
      BY <1>5, <2>4 DEF Finished
    <3>2. Status(r)' = "aborted"
      BY <1>5, <2>1, <2>4 DEF Status, InHandler, HandlerPoints, Finished, NoCall
    <3> QED
      BY <1>3, <2>2, <2>3, <3>1, <3>2 DEF Finished
  <2>5. CASE ~ (is_open[r] /\ op[r] = "pending" /\ stage[r] = "body")
    <3>1. Status(r)' = Status(r)
      BY <2>1, <2>2, <2>5 DEF Status, NoCall
    <3> QED
      BY <2>1, <2>3, <3>1
  <2> QED
    BY <2>4, <2>5
(* Boost.Asio.                                                             *)
<1>13. ASSUME NEW r \in Requests, Complete(r) PROVE Stutter \/ Lifecycle!Next
  <2>1. PICK st \in {"ok", "error"} : Becomes(r, st)
    BY <1>13 DEF Complete
  <2> USE <1>13, <2>1 DEF Complete, Becomes
  <2>2. \A s \in Requests \ {r} : Status(s)' = Status(s)
    BY DEF Status
  <2>3. Status(r) = Open(r)
    BY <1>5 DEF Finished
  <2>4. CASE stage[r] = "body"
    <3>1. Status(r)' = st
      BY <1>5, <2>4 DEF Status, InHandler, HandlerPoints, Finished
    <3> QED
      BY <1>3, <2>2, <2>3, <3>1 DEF Finished
  <2>5. CASE stage[r] # "body"
    <3>1. Status(r)' = Status(r)
      BY <2>5 DEF Status
    <3> QED
      BY <2>2, <3>1
  <2> QED
    BY <2>4, <2>5
<1>14. ASSUME NEW r \in Requests, TransferSome(r) \/ TransferMore(r) PROVE Stutter
  BY <1>14 DEF TransferSome, TransferMore, Becomes, Status, Finished
<1>15. ASSUME NEW r \in Requests, ResolveCompletes(r) PROVE Stutter
  BY <1>15 DEF ResolveCompletes, Status
(* The I/O thread.                                                         *)
<1>16. ASSUME NEW r \in Requests, NEW from \in Stages, NEW at \in {"check", "shutdown", "finish"},
              NEW codes \in SUBSET Finished, at = "finish" <=> from = "body",
              EnterHandler(r, from, at, codes)
       PROVE  Stutter \/ Lifecycle!Next
  <2> USE <1>16 DEF EnterHandler
  <2>1. op[r] \in Finished /\ op[r] # "none"
    BY DEF Finished
  <2>2. \A s \in Requests \ {r} : Status(s)' = Status(s)
    BY DEF Status
  <2>3. CASE from = "body"
    <3>1. Status(r) = op[r]
      BY <1>5, <2>1, <2>3 DEF Status, InHandler, HandlerPoints
    <3>2. Status(r)' = op[r]
      BY <1>5, <2>1, <2>3 DEF Status
    <3> QED
      BY <2>2, <3>1, <3>2
  <2>4. CASE from # "body"
    <3>1. Status(r) = Open(r)
      BY <1>5, <2>1, <2>4
    <3>2. CASE op[r] = "ok"
      BY <1>5, <2>1, <2>2, <2>4, <3>2 DEF Status
    <3>3. CASE op[r] # "ok"
      <4>1. Status(r)' = op[r]
        BY <1>5, <2>1, <3>3 DEF Status
      <4> QED
        BY <1>3, <2>1, <2>2, <3>1, <4>1 DEF CausesOK
    <3> QED
      BY <3>2, <3>3
  <2> QED
    BY <2>3, <2>4
<1>17. ASSUME NEW r \in Requests, NextEndpoint(r) PROVE Stutter
  <2> USE <1>17 DEF NextEndpoint
  <2>1. \A s \in Requests \ {r} : Status(s)' = Status(s)
    BY DEF Status
  <2>2. Status(r)' = Status(r)
    BY <1>5 DEF Status, InHandler, HandlerPoints, Finished
  <2> QED
    BY <2>1, <2>2
<1>18. ASSUME NEW r \in Requests, OnStatusLineInvalid(r) PROVE Lifecycle!Next
  <2> USE <1>18 DEF OnStatusLineInvalid
  <2>1. \A s \in Requests \ {r} : Status(s)' = Status(s)
    BY DEF Status
  <2>2. Status(r) = Open(r) /\ Status(r)' = "error"
    BY <1>5 DEF Status
  <2> QED
    BY <1>3, <2>1, <2>2 DEF Finished
<1>19. ASSUME NEW r \in Requests, HandleCompletion(r) PROVE Stutter \/ Lifecycle!Next
  <2>1. CASE OnHostNameResolved(r)
    BY <1>16, <2>1 DEF OnHostNameResolved, Stages
  <2>2. CASE OnConnectionEstablished(r)
    BY <1>16, <2>2 DEF OnConnectionEstablished, Stages, Finished
  <2>3. CASE OnRequestSent(r)
    BY <1>16, <2>3 DEF OnRequestSent, Stages
  <2>4. CASE OnStatusLineReceived(r) \/ OnHeadersReceived(r)
    BY <1>16, <2>4 DEF OnStatusLineReceived, OnHeadersReceived, Stages
  <2>5. CASE OnResponseBodyReceived(r)
    BY <1>16, <2>5 DEF OnResponseBodyReceived, Stages
  <2> QED
    BY <1>17, <1>18, <1>19, <2>1, <2>2, <2>3, <2>4, <2>5 DEF HandleCompletion
<1>20. ASSUME Reopen PROVE Stutter \/ Lifecycle!Next
  <2> USE <1>20 DEF Reopen
  <2>1. PICK r \in Requests : r = io.req
    BY HandlerTypes DEF HandlerPoints
  <2>2. InHandler(r) /\ stage[r] = "connect"
    BY <2>1 DEF InHandler, HandlerPoints, HandlerOK
  <2>3. \A s \in Requests \ {r} : Status(s)' = Status(s)
    BY <2>1 DEF Status, Polling
  <2>4. Status(r)' = Status(r)
    BY <1>6, <2>1, <2>2 DEF Status, Polling
  <2> QED
    BY <2>1, <2>3, <2>4
<1>21. ASSUME ShutdownSend PROVE Stutter \/ Lifecycle!Next
  BY <1>21 DEF ShutdownSend, Status, Handlers, Polling, Exited
<1>22. ASSUME CheckCancelled PROVE Stutter \/ Lifecycle!Next
  <2> USE <1>22 DEF CheckCancelled
  <2>1. PICK r \in Requests : r = io.req
    BY HandlerTypes DEF HandlerPoints
  <2>2. InHandler(r)
    BY <2>1 DEF InHandler, HandlerPoints
  <2>3. \A s \in Requests \ {r} : Status(s)' = Status(s)
    BY <2>1 DEF Status
  <2>4. CASE was_cancelled[r]
    <3>1. Status(r) = "cancelling" /\ Status(r)' = "aborted"
      BY <1>6, <2>1, <2>2, <2>4, HandlerTypes DEF Status, Handlers, Polling, Exited
    <3> QED
      BY <1>3, <2>1, <2>3, <2>4, <3>1 DEF Finished
  <2>5. CASE ~ was_cancelled[r]
    <3>1. Status(r)' = Status(r)
      BY <1>6, <2>1, <2>2, <2>5 DEF Status, Handlers, Polling, Exited
    <3> QED
      BY <2>1, <2>3, <3>1
  <2> QED
    BY <2>4, <2>5
<1>23. ASSUME NEW from \in Stages, NEW to \in Stages, StartOperation(from, to) PROVE Stutter
  <2> USE <1>23 DEF StartOperation
  <2>1. PICK r \in Requests : r = io.req
    BY HandlerTypes DEF HandlerPoints
  <2>2. InHandler(r)
    BY <2>1 DEF InHandler, HandlerPoints
  <2>3. \A s \in Requests \ {r} : Status(s)' = Status(s)
    BY <2>1 DEF Status, Polling
  <2>4. Status(r)' = Status(r)
    BY <1>6, <2>1, <2>2 DEF Status, Polling, Stages, Finished
  <2> QED
    BY <2>1, <2>3, <2>4
<1>24. ASSUME OnFinish PROVE Stutter \/ Lifecycle!Next
  <2> USE <1>24 DEF OnFinish
  <2>1. PICK r \in Requests : r = io.req
    BY HandlerTypes DEF HandlerPoints
  <2>2. told[r] = "none" /\ notified[r] = 0 /\ stage[r] \in Stages /\ io.ec \in Finished
    BY <2>1, HandlerTypes DEF InHandler, HandlerPoints, HandlerOK, RequestsOK
  <2>3. Status(r) = io.ec
    BY <2>1, <2>2 DEF Status, UserOK, Stages
  <2>4. Status(r)' = io.ec
    BY <2>1, <2>2 DEF Status, Finished
  <2>5. \A s \in Requests \ {r} : Status(s)' = Status(s)
    BY <2>1 DEF Status, Polling
  <2> QED
    BY <1>4, <2>1, <2>2, <2>3, <2>4, <2>5
<1>25. ASSUME HandlerStep PROVE Stutter \/ Lifecycle!Next
  BY <1>20, <1>21, <1>22, <1>23, <1>24, <1>25
     DEF HandlerStep, AsyncConnect, AsyncWriteRequest, AsyncReadStatusLine, AsyncReadHeaders,
         AsyncReadBody, Stages
(* The rest changes no status.                                             *)
<1>26. ASSUME TestOpen \/ Close \/ Joined PROVE Stutter \/ Lifecycle!Next
  BY <1>26, CallTypes DEF TestOpen, Close, Joined, Status, Calls, NoCall
<1>27. ASSUME RunReturns PROVE Stutter \/ Lifecycle!Next
  BY <1>27 DEF RunReturns, Status, Exited, Polling
<1>28. ASSUME UNCHANGED vars PROVE Stutter \/ Lifecycle!Next
  BY <1>28 DEF vars, Status
<1>29. Stutter \/ Lifecycle!Next
  BY <1>7, <1>8, <1>9, <1>10, <1>11, <1>12, <1>13, <1>14, <1>15, <1>19, <1>25, <1>26, <1>27,
     <1>28
     DEF Next, UserThread, InExecute, InCancel, Network, Terminated
<1> QED
  BY <1>1, <1>29

(* The client implements RequestLifecycle with late successes, for any     *)
(* number of requests, endpoints and cancellations. *)
THEOREM Refinement == Spec => ImplementsLifecycle
<1>1. IInv /\ CausesOK /\ [Next]_vars => CausesOK' /\ [Lifecycle!Next]_(Lifecycle!vars)
  BY NextCauses, NextRefines
<1> QED
  BY <1>1, InitRefines, Invariance, PTL DEF Spec, ImplementsLifecycle, Lifecycle!Spec
===============================================================================
