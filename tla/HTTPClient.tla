------------------------------ MODULE HTTPClient ------------------------------
(***************************************************************************)
(* The HTTP client of 05_http_ssl_tls/http_client.cpp.                     *)
(*                                                                         *)
(* The user thread creates, executes and cancels requests and closes the   *)
(* client, as main() does; the I/O thread runs m_ioc.run().  A request     *)
(* goes through six asynchronous operations, one outstanding at a time,    *)
(* and the handler of each but the last looks at m_was_cancelled before it *)
(* starts the next.  The connect tries the resolved endpoints in turn, on  *)
(* a socket it closes and opens again.                                     *)
(*                                                                         *)
(* Every access to what both threads use is a step: the flag, the          *)
(* resolver, whether the socket is open, and its operation.                *)
(***************************************************************************)
EXTENDS Naturals

CONSTANTS
  Requests,      \* the requests the user may create
  NoRequest,     \* no request
  MaxEndpoints,  \* bound: how many endpoints a name resolves to
  MaxCancels,    \* bound: how many calls of cancel() a behaviour has
  PeerResets     \* whether a peer may reset a connection it has read from

ASSUME NoRequestAssumption == NoRequest \notin Requests
ASSUME MaxEndpointsAssumption == MaxEndpoints \in Nat \ {0}
ASSUME MaxCancelsAssumption == MaxCancels \in Nat
ASSUME PeerResetsAssumption == PeerResets \in BOOLEAN

VARIABLES
  stage,          \* the operation a request started last
  op,             \* what has become of it
  was_cancelled,  \* HTTPRequest::m_was_cancelled
  is_open,        \* m_sock.is_open()
  left,           \* endpoints the connect has not tried yet
  user,           \* the operation the user thread is in the middle of
  cancels,        \* calls of cancel() so far
  io,             \* the handler the I/O thread executes
  told, notified, \* what the callback was told, and how often it was called
  late,           \* operations a request started although it was cancelled
  closing,        \* close(): not called, joining the I/O thread, returned
  failure         \* an exception nobody catches ended the program

opVars   == <<stage, op, is_open, left>>
tellVars == <<told, notified>>
vars == <<opVars, was_cancelled, user, cancels, io, tellVars, late, closing, failure>>

Stages    == {"resolve", "connect", "write", "status", "headers", "body"}
Transfers == {"write", "status", "headers", "body"}

(* The codes of an operation that ended: what the callback, handle(),      *)
(* tells apart.                                                            *)
Finished == {"ok", "error", "aborted"}

NoCall  == [at |-> "none", req |-> NoRequest]
Calls   == {NoCall} \cup [at : {"resolver", "test", "sock", "finish"}, req : Requests]
Polling == [at |-> "poll", req |-> NoRequest, ec |-> "none"]
Exited  == [Polling EXCEPT !.at = "exited"]
Handlers == {Polling, Exited} \cup
            [at : {"shutdown", "check", "start", "reopen", "finish"},
             req : Requests, ec : Finished]

(* Types, and with them: the connect asks for no endpoint beyond the last, *)
(* and no callback is called twice. *)
TypeOK ==
  /\ stage \in [Requests -> {"absent", "created"} \cup Stages]
  /\ op \in [Requests -> {"none", "pending", "partial"} \cup Finished]
  /\ was_cancelled \in [Requests -> BOOLEAN]
  /\ is_open \in [Requests -> BOOLEAN]
  /\ left \in [Requests -> 0..MaxEndpoints]
  /\ user \in Calls
  /\ cancels \in 0..MaxCancels
  /\ io \in Handlers
  /\ told \in [Requests -> {"none"} \cup Finished]
  /\ notified \in [Requests -> {0, 1}]
  /\ late \in [Requests -> Nat]
  /\ closing \in {"open", "joining", "joined"}
  /\ failure \in {"none", "cancel", "shutdown"}

Init ==
  /\ stage = [r \in Requests |-> "absent"]
  /\ op = [r \in Requests |-> "none"]
  /\ was_cancelled = [r \in Requests |-> FALSE]
  /\ is_open = [r \in Requests |-> FALSE]
  /\ left = [r \in Requests |-> 0]
  /\ user = NoCall
  /\ cancels = 0
  /\ io = Polling
  /\ told = [r \in Requests |-> "none"]
  /\ notified = [r \in Requests |-> 0]
  /\ late = [r \in Requests |-> 0]
  /\ closing = "open"
  /\ failure = "none"

Running == failure = "none"
CanCall == Running /\ user = NoCall /\ closing = "open"

-------------------------------------------------------------------------------
(* The user thread.                                                        *)

CreateRequest(r) ==
  /\ CanCall
  /\ stage[r] = "absent"
  /\ stage' = [stage EXCEPT ![r] = "created"]
  /\ UNCHANGED <<op, is_open, left, was_cancelled, user, cancels, io, tellVars, late,
                 closing, failure>>

(* execute() of a request that was cancelled calls the callback itself; of *)
(* another it starts to resolve the host name.                             *)
Execute(r) ==
  /\ CanCall
  /\ stage[r] = "created" /\ told[r] = "none"
  /\ IF was_cancelled[r]
     THEN /\ user' = [at |-> "finish", req |-> r]
          /\ UNCHANGED <<stage, op>>
     ELSE /\ stage' = [stage EXCEPT ![r] = "resolve"]
          /\ op' = [op EXCEPT ![r] = "pending"]
          /\ UNCHANGED user
  /\ UNCHANGED <<is_open, left, was_cancelled, cancels, io, tellVars, late, closing, failure>>

(* Mutant: execute() calls the callback and goes on. *)
ExecuteGoesOn ==
  /\ Running /\ user.at = "finish"
  /\ told' = [told EXCEPT ![user.req] = "aborted"]
  /\ notified' = [notified EXCEPT ![user.req] = @ + 1]
  /\ stage' = [stage EXCEPT ![user.req] = "resolve"]
  /\ op' = [op EXCEPT ![user.req] = "pending"]
  /\ user' = NoCall
  /\ UNCHANGED <<is_open, left, was_cancelled, cancels, io, late, closing, failure>>

ExecuteFinishes ==
  /\ Running /\ user.at = "finish"
  /\ told' = [told EXCEPT ![user.req] = "aborted"]
  /\ notified' = [notified EXCEPT ![user.req] = @ + 1]
  /\ user' = NoCall
  /\ UNCHANGED <<opVars, was_cancelled, cancels, io, late, closing, failure>>

(* cancel(): the flag, then the resolver, then the socket if it is open. *)
Cancel(r) ==
  /\ CanCall
  /\ stage[r] # "absent"
  /\ cancels < MaxCancels
  /\ cancels' = cancels + 1
  /\ was_cancelled' = [was_cancelled EXCEPT ![r] = TRUE]
  /\ user' = [at |-> "resolver", req |-> r]
  /\ UNCHANGED <<opVars, io, tellVars, late, closing, failure>>

(* A lookup that has not begun is aborted; one in progress goes on. *)
CancelResolver ==
  /\ Running /\ user.at = "resolver"
  /\ LET r == user.req
     IN  IF stage[r] = "resolve" /\ op[r] = "pending"
         THEN \E s \in {"pending", "aborted"} : op' = [op EXCEPT ![r] = s]
         ELSE UNCHANGED op
  /\ user' = [user EXCEPT !.at = "test"]
  /\ UNCHANGED <<stage, is_open, left, was_cancelled, cancels, io, tellVars, late, closing,
                 failure>>

TestOpen ==
  /\ Running /\ user.at = "test"
  /\ user' = IF is_open[user.req] THEN [user EXCEPT !.at = "sock"] ELSE NoCall
  /\ UNCHANGED <<opVars, was_cancelled, cancels, io, tellVars, late, closing, failure>>

(* m_sock.cancel() aborts the operation that waits in the reactor, if one  *)
(* does; on a socket that is not open it throws.                           *)
CancelSocket ==
  /\ Running /\ user.at = "sock"
  /\ LET r == user.req
     IN  IF is_open[r]
         THEN /\ op' = [op EXCEPT ![r] =
                          IF @ = "pending" /\ stage[r] # "resolve" THEN "aborted" ELSE @]
              /\ UNCHANGED failure
         ELSE /\ failure' = "cancel"
              /\ UNCHANGED op
  /\ user' = NoCall
  /\ UNCHANGED <<stage, is_open, left, was_cancelled, cancels, io, tellVars, late, closing>>

(* close() drops the work guard and joins the I/O thread. *)
Close ==
  /\ CanCall
  /\ closing' = "joining"
  /\ UNCHANGED <<opVars, was_cancelled, user, cancels, io, tellVars, late, failure>>

Joined ==
  /\ closing = "joining"
  /\ io = Exited
  /\ closing' = "joined"
  /\ UNCHANGED <<opVars, was_cancelled, user, cancels, io, tellVars, late, failure>>

-------------------------------------------------------------------------------
(* Boost.Asio, the resolver and the peer.                                  *)

ResolveCompletes(r) ==
  /\ Running
  /\ stage[r] = "resolve" /\ op[r] = "pending"
  /\ \/ /\ op' = [op EXCEPT ![r] = "ok"]
        /\ \E n \in 1..MaxEndpoints : left' = [left EXCEPT ![r] = n]
     \/ /\ op' = [op EXCEPT ![r] = "error"]
        /\ UNCHANGED left
  /\ UNCHANGED <<stage, is_open, was_cancelled, user, cancels, io, tellVars, late, closing,
                 failure>>

Becomes(r, s) ==
  /\ op' = [op EXCEPT ![r] = s]
  /\ UNCHANGED <<stage, is_open, left, was_cancelled, user, cancels, io, tellVars, late,
                 closing, failure>>

(* The operation ends.  The end of the stream is a success for the body,   *)
(* as on_response_body_received makes it, and an error before. *)
Complete(r) ==
  /\ Running
  /\ stage[r] \in Stages \ {"resolve"}
  /\ op[r] = "pending"
  /\ \E s \in {"ok", "error"} : Becomes(r, s)

(* A part was transferred; the composed operation has yet to ask for more. *)
TransferSome(r) ==
  /\ Running
  /\ stage[r] \in Transfers
  /\ op[r] = "pending"
  /\ Becomes(r, "partial")

TransferMore(r) ==
  /\ Running
  /\ io.at = "poll"
  /\ op[r] = "partial"
  /\ Becomes(r, "pending")

(* Mutant: close() joins the thread before it gives up the work guard. *)
RunReturnsAfterJoin ==
  /\ Running
  /\ io.at = "poll"
  /\ closing = "joined"
  /\ \A r \in Requests : op[r] = "none"
  /\ io' = Exited
  /\ UNCHANGED <<opVars, was_cancelled, user, cancels, tellVars, late, closing, failure>>

(* m_ioc.run() returns: no work guard, no operation outstanding. *)
RunReturns ==
  /\ Running
  /\ io.at = "poll"
  /\ closing # "open"
  /\ \A r \in Requests : op[r] = "none"
  /\ io' = Exited
  /\ UNCHANGED <<opVars, was_cancelled, user, cancels, tellVars, late, closing, failure>>

-------------------------------------------------------------------------------
(* The I/O thread.                                                         *)

(* It takes the completed operation of r that `from' names and enters its  *)
(* handler at `at', or finishes at once with the error. *)
EnterHandler(r, from, at, codes) ==
  /\ Running
  /\ io.at = "poll"
  /\ stage[r] = from
  /\ op[r] \in codes
  /\ io' = [at |-> IF op[r] = "ok" THEN at ELSE "finish", req |-> r, ec |-> op[r]]
  /\ op' = [op EXCEPT ![r] = "none"]
  /\ UNCHANGED <<stage, is_open, left, was_cancelled, user, cancels, tellVars, late, closing,
                 failure>>

(* Mutant: an endpoint is taken without asking whether one is left. *)
NextEndpointUnchecked(r) ==
  /\ Running
  /\ io.at = "poll"
  /\ stage[r] = "connect"
  /\ op[r] \in {"error", "aborted"}
  /\ io' = [at |-> "reopen", req |-> r, ec |-> op[r]]
  /\ op' = [op EXCEPT ![r] = "none"]
  /\ is_open' = [is_open EXCEPT ![r] = FALSE]
  /\ UNCHANGED <<stage, left, was_cancelled, user, cancels, tellVars, late, closing, failure>>

(* The connect to one endpoint failed, or was cancelled, and there is      *)
(* another: the socket is closed ... *)
NextEndpoint(r) ==
  /\ Running
  /\ io.at = "poll"
  /\ stage[r] = "connect"
  /\ op[r] \in {"error", "aborted"}
  /\ left[r] > 0
  /\ io' = [at |-> "reopen", req |-> r, ec |-> op[r]]
  /\ op' = [op EXCEPT ![r] = "none"]
  /\ is_open' = [is_open EXCEPT ![r] = FALSE]
  /\ UNCHANGED <<stage, left, was_cancelled, user, cancels, tellVars, late, closing, failure>>

(* ... opened again, and connected to the next. *)
Reopen ==
  /\ Running
  /\ io.at = "reopen"
  /\ is_open' = [is_open EXCEPT ![io.req] = TRUE]
  /\ left' = [left EXCEPT ![io.req] = @ - 1]
  /\ op' = [op EXCEPT ![io.req] = "pending"]
  /\ io' = Polling
  /\ UNCHANGED <<stage, was_cancelled, user, cancels, tellVars, late, closing, failure>>

OnHostNameResolved(r) == EnterHandler(r, "resolve", "check", Finished)

(* Mutant: after an error the handler returns without finishing. *)
OnConnectionGivesUp(r) ==
  /\ Running
  /\ io.at = "poll"
  /\ stage[r] = "connect"
  /\ op[r] \in IF left[r] = 0 THEN Finished ELSE {"ok"}
  /\ io' = IF op[r] = "ok" THEN [at |-> "check", req |-> r, ec |-> "ok"] ELSE Polling
  /\ op' = [op EXCEPT ![r] = "none"]
  /\ UNCHANGED <<stage, is_open, left, was_cancelled, user, cancels, tellVars, late, closing,
                 failure>>

OnConnectionEstablished(r) ==
  EnterHandler(r, "connect", "check", IF left[r] = 0 THEN Finished ELSE {"ok"})

OnRequestSent(r) == EnterHandler(r, "write", "shutdown", Finished)

(* The shutdown in on_request_sent throws when the connection was reset.   *)
ShutdownSend ==
  /\ Running
  /\ io.at = "shutdown"
  /\ \/ io' = [io EXCEPT !.at = "check"] /\ UNCHANGED failure
     \/ PeerResets /\ failure' = "shutdown" /\ UNCHANGED io
  /\ UNCHANGED <<opVars, was_cancelled, user, cancels, tellVars, late, closing>>

(* Mutant: the status line's handler does not look at the flag. *)
OnStatusLineUnchecked(r) == EnterHandler(r, "status", "start", Finished)

OnStatusLineReceived(r) == EnterHandler(r, "status", "check", Finished)

(* A status line that is no HTTP/1.1 or has no number for a code. *)
OnStatusLineInvalid(r) ==
  /\ Running
  /\ io.at = "poll"
  /\ stage[r] = "status" /\ op[r] = "ok"
  /\ io' = [at |-> "finish", req |-> r, ec |-> "error"]
  /\ op' = [op EXCEPT ![r] = "none"]
  /\ UNCHANGED <<stage, is_open, left, was_cancelled, user, cancels, tellVars, late, closing,
                 failure>>

OnHeadersReceived(r) == EnterHandler(r, "headers", "check", Finished)

(* The last handler does not look at the flag. *)
OnResponseBodyReceived(r) == EnterHandler(r, "body", "finish", Finished)

(* Mutant: a cancelled request is forgotten. *)
CheckCancelledForgets ==
  /\ Running
  /\ io.at = "check"
  /\ io' = IF was_cancelled[io.req] THEN Polling ELSE [io EXCEPT !.at = "start"]
  /\ UNCHANGED <<opVars, was_cancelled, user, cancels, tellVars, late, closing, failure>>

CheckCancelled ==
  /\ Running
  /\ io.at = "check"
  /\ io' = IF was_cancelled[io.req]
           THEN [io EXCEPT !.at = "finish", !.ec = "aborted"]
           ELSE [io EXCEPT !.at = "start"]
  /\ UNCHANGED <<opVars, was_cancelled, user, cancels, tellVars, late, closing, failure>>

StartOperation(from, to) ==
  /\ Running
  /\ io.at = "start"
  /\ stage[io.req] = from
  /\ stage' = [stage EXCEPT ![io.req] = to]
  /\ op' = [op EXCEPT ![io.req] = "pending"]
  /\ late' = [late EXCEPT ![io.req] = IF was_cancelled[io.req] THEN @ + 1 ELSE @]
  /\ io' = Polling
  /\ UNCHANGED <<was_cancelled, user, cancels, tellVars, closing, failure>>

(* The connect opens the socket for the first endpoint. *)
AsyncConnect ==
  /\ StartOperation("resolve", "connect")
  /\ is_open' = [is_open EXCEPT ![io.req] = TRUE]
  /\ left' = [left EXCEPT ![io.req] = @ - 1]

AsyncWriteRequest   == StartOperation("connect", "write") /\ UNCHANGED <<is_open, left>>
AsyncReadStatusLine == StartOperation("write", "status") /\ UNCHANGED <<is_open, left>>
AsyncReadHeaders    == StartOperation("status", "headers") /\ UNCHANGED <<is_open, left>>
AsyncReadBody       == StartOperation("headers", "body") /\ UNCHANGED <<is_open, left>>

(* Mutant: the handler closes the socket before it calls the callback. *)
OnFinishCloses ==
  /\ Running
  /\ io.at = "finish"
  /\ is_open' = [is_open EXCEPT ![io.req] = FALSE]
  /\ told' = [told EXCEPT ![io.req] = io.ec]
  /\ notified' = [notified EXCEPT ![io.req] = @ + 1]
  /\ io' = Polling
  /\ UNCHANGED <<stage, op, left, was_cancelled, user, cancels, late, closing, failure>>

(* on_finish calls the callback. *)
OnFinish ==
  /\ Running
  /\ io.at = "finish"
  /\ told' = [told EXCEPT ![io.req] = io.ec]
  /\ notified' = [notified EXCEPT ![io.req] = @ + 1]
  /\ io' = Polling
  /\ UNCHANGED <<opVars, was_cancelled, user, cancels, late, closing, failure>>

-------------------------------------------------------------------------------
InExecute == ExecuteFinishes
InCancel  == CancelResolver \/ TestOpen \/ CancelSocket

UserThread ==
  \/ \E r \in Requests : CreateRequest(r) \/ Execute(r) \/ Cancel(r)
  \/ InExecute
  \/ InCancel
  \/ Close
  \/ Joined

Network ==
  \E r \in Requests : ResolveCompletes(r) \/ Complete(r) \/ TransferSome(r)

HandleCompletion(r) ==
  \/ NextEndpoint(r)
  \/ OnHostNameResolved(r)
  \/ OnConnectionEstablished(r)
  \/ OnRequestSent(r)
  \/ OnStatusLineReceived(r)
  \/ OnStatusLineInvalid(r)
  \/ OnHeadersReceived(r)
  \/ OnResponseBodyReceived(r)

HandlerStep ==
  \/ Reopen
  \/ ShutdownSend
  \/ CheckCancelled
  \/ AsyncConnect
  \/ AsyncWriteRequest
  \/ AsyncReadStatusLine
  \/ AsyncReadHeaders
  \/ AsyncReadBody
  \/ OnFinish

(* After close() has returned, or an exception, nothing is left to run. *)
Terminated == (closing = "joined" \/ ~ Running) /\ UNCHANGED vars

Next ==
  \/ UserThread
  \/ Network
  \/ \E r \in Requests : HandleCompletion(r) \/ TransferMore(r)
  \/ HandlerStep
  \/ RunReturns
  \/ Terminated

Spec == Init /\ [][Next]_vars

(* The threads run, and m_ioc runs queued handlers in order.  A lookup and *)
(* a connect end, by the time limits of the operating system if nothing    *)
(* else; whether a transfer ends is up to the peer. *)
ThreadFairness ==
  /\ WF_vars(InExecute \/ InCancel)
  /\ WF_vars(HandlerStep)
  /\ WF_vars(RunReturns)
  /\ WF_vars(Joined)
  /\ \A r \in Requests :
       /\ SF_vars(HandleCompletion(r))
       /\ SF_vars(TransferMore(r))
       /\ WF_vars(ResolveCompletes(r))
       /\ SF_vars(stage[r] = "connect" /\ Complete(r))

NetworkFairness == \A r \in Requests : SF_vars(Complete(r))

(* What holds only if the peers let every transfer end is stated under the *)
(* condition NetworkFairness. *)
LiveSpec == Spec /\ ThreadFairness

-------------------------------------------------------------------------------
(* Properties.                                                             *)

(* Where a request is in the life RequestLifecycle describes.  It settles  *)
(* when the code its callback will be told is known: for the body, when    *)
(* the read completes, because its handler does not look at the flag.      *)
Status(r) ==
  IF told[r] # "none" THEN told[r]
  ELSE IF user = [at |-> "finish", req |-> r] THEN "aborted"
  ELSE IF io.req = r /\ io.at = "finish" THEN io.ec
  ELSE IF stage[r] = "body" /\ op[r] \in Finished THEN op[r]
  ELSE IF stage[r] = "absent" THEN "new"
  ELSE IF was_cancelled[r] THEN "cancelling"
  ELSE "active"

Lifecycle == INSTANCE RequestLifecycle
               WITH status <- [r \in Requests |-> Status(r)], LateSuccess <- TRUE

(* The client implements RequestLifecycle, but for the promise that a      *)
(* cancelled request does not succeed: one callback per request, from      *)
(* execute() or from the I/O thread but not from both, and                 *)
(* operation_aborted only for a request that was cancelled. *)
ImplementsLifecycle == Lifecycle!Spec

(* What is left of that promise: the flag stops a cancelled request at the *)
(* next handler, so it starts at most one more operation, and it succeeds  *)
(* only if it was already reading the body or about to. *)
CancelIsNoticed ==
  \A r \in Requests :
    /\ late[r] <= 1
    /\ was_cancelled[r] /\ told[r] = "ok" => stage[r] = "body"

(* cancel() tests whether the socket is open and then cancels it, while    *)
(* the I/O thread may close it.  It throws only if it comes between the    *)
(* close and the open of a connect that goes on to its next endpoint, and  *)
(* never because the request ended in between. *)
CancelThrowsOnlyWhileReopening ==
  failure = "cancel" => io.at = "reopen" /\ was_cancelled[io.req]

(* Every request that was executed is reported, if the peers answer and no *)
(* exception ends the program. *)
EveryRequestReported ==
  NetworkFairness =>
    \A r \in Requests : stage[r] \in Stages ~> told[r] # "none" \/ ~ Running

(* On the same condition close() returns. *)
CloseReturns ==
  NetworkFairness => (closing = "joining" ~> closing = "joined" \/ ~ Running)

(* A cancellation that finds an operation waiting is reported without any  *)
(* help of the peer.  An aborted connect goes on to the next endpoint, but *)
(* the handler that follows sees the flag. *)
AbortIsReported == \A r \in Requests : op[r] = "aborted" ~> told[r] # "none" \/ ~ Running
===============================================================================
