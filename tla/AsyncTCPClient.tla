---------------------------- MODULE AsyncTCPClient ----------------------------
(***************************************************************************)
(* The multi-threaded client of 03_impl_client_apps/tcp_asynchronous.cpp.  *)
(*                                                                         *)
(* Two threads share the client.  The user thread calls the public         *)
(* operations; the I/O thread runs m_ioc.run() and executes the completion *)
(* handlers one after another, the user's callbacks among them, and a      *)
(* callback may itself call the public operations.  Each session has one   *)
(* asynchronous operation outstanding at a time, carried out by Boost.Asio *)
(* and the peer.                                                           *)
(*                                                                         *)
(* Every access to state another thread can see is a step of its own: the  *)
(* map of active sessions (under its mutex), the atomic flag               *)
(* m_was_cancelled, and the start and the cancellation of a session's      *)
(* socket operation.                                                       *)
(***************************************************************************)
EXTENDS Naturals

CONSTANTS
  Requests,       \* calls of emulateLongComputationOp; each has its own Session
  Ids,            \* request_id values
  IdOf,           \* the request_id the caller gives to each request
  ReuseInFlight,  \* whether the caller gives away an id that is still in use
  NoSession,      \* no session (an absent entry of the map)
  MaxCancels      \* bound: how many calls of cancelRequest a behaviour has

ASSUME IdOfAssumption == IdOf \in [Requests -> Ids]
ASSUME ReuseAssumption == ReuseInFlight \in BOOLEAN
ASSUME NoSessionAssumption == NoSession \notin Requests
ASSUME MaxCancelsAssumption == MaxCancels \in Nat

Threads == {"user", "io"}

VARIABLES
  active_sessions,  \* m_active_sessions
  guard,            \* m_active_sessions_guard: its holder, or "free"
  was_cancelled,    \* Session::m_was_cancelled
  phase,            \* the operation a session started last
  op,               \* what has become of that operation
  call,             \* the public operation each thread is in the middle of
  cancels,          \* calls of cancelRequest so far
  io,               \* the handler the I/O thread executes
  told,             \* the error code passed to each callback, "none" before it
  notified,         \* how often each callback was called
  closing           \* close(): not called, joining the I/O thread, returned

clientVars == <<active_sessions, guard, was_cancelled>>
sessionVars == <<phase, op>>
userVars == <<told, notified>>
vars == <<clientVars, sessionVars, call, cancels, io, userVars, closing>>

(* The codes of an operation that ended: what the callback, handler(),     *)
(* tells apart.                                                            *)
Finished == {"ok", "error", "aborted"}

Phases   == {"new", "created", "connect", "write", "read"}
Started  == {"connect", "write", "read"}
OpStates == {"none", "pending", "partial"} \cup Finished
Codes    == {"none"} \cup Finished

NoCall == [at |-> "none", req |-> NoSession]
Calls  == {NoCall} \cup [at : {"insert", "connect", "mark", "abort"}, req : Requests]

Polling  == [at |-> "poll", req |-> NoSession, ec |-> "none", cancelled |-> FALSE]
Exited   == [Polling EXCEPT !.at = "exited"]
Handlers == {Polling, Exited} \cup
            [at : {"check", "start", "finish", "callback", "user"},
             req : Requests, ec : Finished, cancelled : BOOLEAN]

(* Types, and with them: an operation is only ever applied to a session    *)
(* that exists (cancelRequest tests its iterator), a handler always has a  *)
(* code, and no callback is called twice.                                  *)
TypeOK ==
  /\ active_sessions \in [Ids -> Requests \cup {NoSession}]
  /\ guard \in Threads \cup {"free"}
  /\ was_cancelled \in [Requests -> BOOLEAN]
  /\ phase \in [Requests -> Phases]
  /\ op \in [Requests -> OpStates]
  /\ call \in [Threads -> Calls]
  /\ cancels \in 0..MaxCancels
  /\ io \in Handlers
  /\ told \in [Requests -> Codes]
  /\ notified \in [Requests -> {0, 1}]
  /\ closing \in {"open", "joining", "joined"}

Init ==
  /\ active_sessions = [i \in Ids |-> NoSession]
  /\ guard = "free"
  /\ was_cancelled = [r \in Requests |-> FALSE]
  /\ phase = [r \in Requests |-> "new"]
  /\ op = [r \in Requests |-> "none"]
  /\ call = [t \in Threads |-> NoCall]
  /\ cancels = 0
  /\ io = Polling
  /\ told = [r \in Requests |-> "none"]
  /\ notified = [r \in Requests |-> 0]
  /\ closing = "open"

-------------------------------------------------------------------------------
(* The public operations.  The user thread may call them until it calls    *)
(* close(); the I/O thread calls them from inside a callback.              *)

CanCall(t) ==
  /\ call[t] = NoCall
  /\ IF t = "user" THEN closing = "open" ELSE io.at = "user"

(* "Unique ID assigned to the request": emulateLongComputationOp does not  *)
(* check it.  A caller that respects it gives an id away again only when   *)
(* the request that had it has been reported, from its callback at the     *)
(* earliest.                                                               *)
IdIsUnused(r) ==
  \A s \in Requests : IdOf[s] = IdOf[r] => phase[s] = "new" \/ told[s] # "none"

(* emulateLongComputationOp up to the mutex: the session exists, with an   *)
(* open socket, and only this thread knows it.                             *)
EmulateLongComputationOp(t, r) ==
  /\ CanCall(t)
  /\ phase[r] = "new"
  /\ ReuseInFlight \/ IdIsUnused(r)
  /\ phase' = [phase EXCEPT ![r] = "created"]
  /\ call' = [call EXCEPT ![t] = [at |-> "insert", req |-> r]]
  /\ UNCHANGED <<clientVars, op, cancels, io, userVars, closing>>

(* The block that locks the mutex and stores the session under its id. *)
InsertSession(t) ==
  /\ call[t].at = "insert"
  /\ guard = "free"
  /\ active_sessions' = [active_sessions EXCEPT ![IdOf[call[t].req]] = call[t].req]
  /\ call' = [call EXCEPT ![t].at = "connect"]
  /\ UNCHANGED <<guard, was_cancelled, sessionVars, cancels, io, userVars, closing>>

(* The call of asyncConnect that ends emulateLongComputationOp. *)
AsyncConnect(t) ==
  /\ call[t].at = "connect"
  /\ phase' = [phase EXCEPT ![call[t].req] = "connect"]
  /\ op' = [op EXCEPT ![call[t].req] = "pending"]
  /\ call' = [call EXCEPT ![t] = NoCall]
  /\ UNCHANGED <<clientVars, cancels, io, userVars, closing>>

(* Mutant: the iterator is not compared with end(). *)
CancelRequestUnchecked(t, id) ==
  /\ CanCall(t)
  /\ guard = "free"
  /\ cancels < MaxCancels
  /\ cancels' = cancels + 1
  /\ guard' = t
  /\ call' = [call EXCEPT ![t] = [at |-> "mark", req |-> active_sessions[id]]]
  /\ UNCHANGED <<active_sessions, was_cancelled, sessionVars, io, userVars, closing>>

(* Mutant: the lock is scoped to the search. *)
CancelRequestUnlocked(t, id) ==
  /\ CanCall(t)
  /\ guard = "free"
  /\ active_sessions[id] # NoSession
  /\ cancels < MaxCancels
  /\ cancels' = cancels + 1
  /\ call' = [call EXCEPT ![t] = [at |-> "mark", req |-> active_sessions[id]]]
  /\ UNCHANGED <<clientVars, sessionVars, io, userVars, closing>>

(* cancelRequest locks the mutex and finds the session.  With an id that   *)
(* is not in the map the call has no effect, and is no step here.          *)
CancelRequest(t, id) ==
  /\ CanCall(t)
  /\ guard = "free"
  /\ active_sessions[id] # NoSession
  /\ cancels < MaxCancels
  /\ cancels' = cancels + 1
  /\ guard' = t
  /\ call' = [call EXCEPT ![t] = [at |-> "mark", req |-> active_sessions[id]]]
  /\ UNCHANGED <<active_sessions, was_cancelled, sessionVars, io, userVars, closing>>

(* Session::cancel, first statement. *)
MarkCancelled(t) ==
  /\ call[t].at = "mark"
  /\ was_cancelled' = [was_cancelled EXCEPT ![call[t].req] = TRUE]
  /\ call' = [call EXCEPT ![t].at = "abort"]
  /\ UNCHANGED <<active_sessions, guard, sessionVars, cancels, io, userVars, closing>>

(* Session::cancel, second statement, and the return that unlocks the      *)
(* mutex.  m_sock.cancel() aborts the operation the reactor is waiting on. *)
(* It does nothing if there is none: between two operations of the         *)
(* session, between two transfers of a composed operation, or when the     *)
(* operation has completed and its handler is queued.                      *)
CancelSocket(t) ==
  /\ call[t].at = "abort"
  /\ op' = [op EXCEPT ![call[t].req] = IF @ = "pending" THEN "aborted" ELSE @]
  /\ guard' = "free"
  /\ call' = [call EXCEPT ![t] = NoCall]
  /\ UNCHANGED <<active_sessions, was_cancelled, phase, cancels, io, userVars, closing>>

(* close() drops the work guard and joins the I/O thread. *)
Close ==
  /\ CanCall("user")
  /\ closing' = "joining"
  /\ UNCHANGED <<clientVars, sessionVars, call, cancels, io, userVars>>

Joined ==
  /\ closing = "joining"
  /\ io.at = "exited"
  /\ closing' = "joined"
  /\ UNCHANGED <<clientVars, sessionVars, call, cancels, io, userVars>>

-------------------------------------------------------------------------------
(* Boost.Asio and the peer.                                                *)

(* A part of the request was written or a part of the response read; the   *)
(* composed operation has yet to ask for the rest.                         *)
TransferSome(r) ==
  /\ phase[r] \in {"write", "read"}
  /\ op[r] = "pending"
  /\ op' = [op EXCEPT ![r] = "partial"]
  /\ UNCHANGED <<clientVars, phase, call, cancels, io, userVars, closing>>

(* The operation ends, well or badly; its handler is queued. *)
Complete(r) ==
  /\ op[r] = "pending"
  /\ \E ec \in {"ok", "error"} : op' = [op EXCEPT ![r] = ec]
  /\ UNCHANGED <<clientVars, phase, call, cancels, io, userVars, closing>>

(* The I/O thread runs the composed operation's own handler, which asks    *)
(* for the rest.                                                           *)
TransferMore(r) ==
  /\ io.at = "poll"
  /\ op[r] = "partial"
  /\ op' = [op EXCEPT ![r] = "pending"]
  /\ UNCHANGED <<clientVars, phase, call, cancels, io, userVars, closing>>

(* Mutants: close() stops the io_context; close() joins the thread before  *)
(* it gives up the work guard. *)
RunReturnsStopped ==
  /\ io.at = "poll"
  /\ closing # "open"
  /\ io' = Exited
  /\ UNCHANGED <<clientVars, sessionVars, call, cancels, userVars, closing>>

RunReturnsAfterJoin ==
  /\ io.at = "poll"
  /\ closing = "joined"
  /\ \A r \in Requests : op[r] = "none"
  /\ io' = Exited
  /\ UNCHANGED <<clientVars, sessionVars, call, cancels, userVars, closing>>

(* m_ioc.run() returns: the work guard is gone and no operation is         *)
(* outstanding.                                                            *)
RunReturns ==
  /\ io.at = "poll"
  /\ closing # "open"
  /\ \A r \in Requests : op[r] = "none"
  /\ io' = Exited
  /\ UNCHANGED <<clientVars, sessionVars, call, cancels, userVars, closing>>

-------------------------------------------------------------------------------
(* The completion handlers, on the I/O thread.                             *)

Handler(at, r) == [at |-> at, req |-> r, ec |-> op[r], cancelled |-> FALSE]

(* The I/O thread takes the handler of r's operation and enters it at `at'. *)
EnterHandler(r, at) ==
  /\ io.at = "poll"
  /\ op[r] \in Finished
  /\ io' = Handler(at, r)
  /\ op' = [op EXCEPT ![r] = "none"]
  /\ UNCHANGED <<clientVars, phase, call, cancels, userVars, closing>>

(* Mutant: onConnect gives up on an aborted connect without completing the *)
(* request. *)
OnConnectGivesUp(r) ==
  /\ phase[r] = "connect"
  /\ IF op[r] = "aborted"
     THEN /\ io.at = "poll"
          /\ op' = [op EXCEPT ![r] = "none"]
          /\ UNCHANGED <<clientVars, phase, call, cancels, io, userVars, closing>>
     ELSE EnterHandler(r, IF op[r] = "ok" THEN "check" ELSE "finish")

(* onConnect, up to the test of the error code. *)
OnConnect(r) ==
  /\ phase[r] = "connect"
  /\ EnterHandler(r, IF op[r] = "ok" THEN "check" ELSE "finish")

(* onWriteComplete, up to the test of the error code. *)
OnWriteComplete(r) ==
  /\ phase[r] = "write"
  /\ EnterHandler(r, IF op[r] = "ok" THEN "check" ELSE "finish")

(* Mutant: the handler of asyncReadUntil does not ask for the flag. *)
OnReadCompleteUnchecked(r) ==
  /\ phase[r] = "read"
  /\ EnterHandler(r, "finish")

(* The handler of asyncReadUntil asks for the flag whatever the code is. *)
OnReadComplete(r) ==
  /\ phase[r] = "read"
  /\ EnterHandler(r, "check")

(* Mutant: a cancelled session is dropped, its callback never called. *)
CheckCancelledDrops ==
  /\ io.at = "check"
  /\ io' = IF was_cancelled[io.req] THEN Polling
           ELSE [io EXCEPT !.at = IF phase[io.req] = "read" THEN "finish" ELSE "start"]
  /\ UNCHANGED <<clientVars, sessionVars, call, cancels, userVars, closing>>

(* isSessionWasCancelled().  After a connect or a write it decides between *)
(* the next operation and onRequestComplete; after the read it only        *)
(* decides what the callback is told.                                      *)
CheckCancelled ==
  /\ io.at = "check"
  /\ LET cancelled == was_cancelled[io.req]
     IN  io' = [io EXCEPT
                 !.cancelled = cancelled,
                 !.at = IF cancelled \/ phase[io.req] = "read" THEN "finish" ELSE "start"]
  /\ UNCHANGED <<clientVars, sessionVars, call, cancels, userVars, closing>>

StartOperation(from, to) ==
  /\ io.at = "start"
  /\ phase[io.req] = from
  /\ phase' = [phase EXCEPT ![io.req] = to]
  /\ op' = [op EXCEPT ![io.req] = "pending"]
  /\ io' = Polling
  /\ UNCHANGED <<clientVars, call, cancels, userVars, closing>>

(* The rest of onConnect and of onWriteComplete. *)
AsyncWrite     == StartOperation("connect", "write")
AsyncReadUntil == StartOperation("write", "read")

(* Mutants: the entry is not erased; the lock is not scoped, so that it is *)
(* still held when the callback runs. *)
OnRequestCompleteKeepsEntry ==
  /\ io.at = "finish"
  /\ guard = "free"
  /\ io' = [io EXCEPT !.at = "callback"]
  /\ UNCHANGED <<clientVars, sessionVars, call, cancels, userVars, closing>>

OnRequestCompleteLocked ==
  /\ io.at = "finish"
  /\ guard = "free"
  /\ guard' = "io"
  /\ active_sessions' = [active_sessions EXCEPT ![IdOf[io.req]] = NoSession]
  /\ io' = [io EXCEPT !.at = "callback"]
  /\ UNCHANGED <<was_cancelled, sessionVars, call, cancels, userVars, closing>>

(* onRequestComplete up to the end of the block that erases the map entry. *)
(* Shutting down the socket is part of the step: the session has no        *)
(* operation outstanding that could notice.                                *)
OnRequestComplete ==
  /\ io.at = "finish"
  /\ guard = "free"
  /\ active_sessions' = [active_sessions EXCEPT ![IdOf[io.req]] = NoSession]
  /\ io' = [io EXCEPT !.at = "callback"]
  /\ UNCHANGED <<guard, was_cancelled, sessionVars, call, cancels, userVars, closing>>

(* What onRequestComplete passes on: actual_ec. *)
ActualEc == IF io.cancelled THEN "aborted" ELSE io.ec

(* invokeCallback: the user's code starts, with no lock held. *)
InvokeCallback ==
  /\ io.at = "callback"
  /\ told' = [told EXCEPT ![io.req] = ActualEc]
  /\ notified' = [notified EXCEPT ![io.req] = @ + 1]
  /\ io' = [io EXCEPT !.at = "user"]
  /\ UNCHANGED <<clientVars, sessionVars, call, cancels, closing>>

CallbackReturns ==
  /\ io.at = "user"
  /\ call["io"] = NoCall
  /\ io' = Polling
  /\ UNCHANGED <<clientVars, sessionVars, call, cancels, userVars, closing>>

-------------------------------------------------------------------------------
FinishCall(t) ==
  \/ InsertSession(t)
  \/ AsyncConnect(t)
  \/ MarkCancelled(t)
  \/ CancelSocket(t)

BeginCall(t) ==
  \/ \E r \in Requests : EmulateLongComputationOp(t, r)
  \/ \E id \in Ids : CancelRequest(t, id)

Network ==
  \E r \in Requests : TransferSome(r) \/ Complete(r)

IoThread ==
  \/ \E r \in Requests :
       \/ TransferMore(r)
       \/ OnConnect(r)
       \/ OnWriteComplete(r)
       \/ OnReadComplete(r)
  \/ CheckCancelled
  \/ AsyncWrite
  \/ AsyncReadUntil
  \/ OnRequestComplete
  \/ InvokeCallback
  \/ CallbackReturns
  \/ RunReturns

(* After close() has returned nothing is left to run. *)
Terminated == closing = "joined" /\ UNCHANGED vars

Next ==
  \/ \E t \in Threads : BeginCall(t) \/ FinishCall(t)
  \/ Close
  \/ Joined
  \/ Network
  \/ IoThread
  \/ Terminated

Spec == Init /\ [][Next]_vars
-------------------------------------------------------------------------------
(* Fairness.  The threads run, a mutex is granted (a behaviour has         *)
(* finitely many calls, so it is never contended for ever), and            *)
(* m_ioc executes queued handlers in the order they were queued, so none   *)
(* of them waits for ever, whatever else is queued meanwhile.              *)
HandleCompletion(r) == OnConnect(r) \/ OnWriteComplete(r) \/ OnReadComplete(r)

HandlerStep ==
  \/ CheckCancelled
  \/ AsyncWrite
  \/ AsyncReadUntil
  \/ OnRequestComplete
  \/ InvokeCallback
  \/ CallbackReturns

ThreadFairness ==
  /\ \A t \in Threads : WF_vars(FinishCall(t))
  /\ WF_vars(HandlerStep)
  /\ WF_vars(RunReturns)
  /\ WF_vars(Joined)
  /\ \A r \in Requests : SF_vars(HandleCompletion(r)) /\ SF_vars(TransferMore(r))

(* The peer accepts or refuses, takes the request, and sends a line or     *)
(* closes: no transfer lasts for ever.                                     *)
NetworkFairness == \A r \in Requests : SF_vars(Complete(r))

(* The client with peers that may stay silent.  What holds only with peers *)
(* that do not is stated under the condition NetworkFairness.              *)
LiveSpec == Spec /\ ThreadFairness

-------------------------------------------------------------------------------
(* Properties.                                                             *)

(* Where a request is in the life RequestLifecycle describes.  It settles  *)
(* when the I/O thread knows the code it will pass to the callback.        *)
Status(r) ==
  IF told[r] # "none" THEN told[r]
  ELSE IF io.req = r /\ io.at \in {"finish", "callback"} THEN ActualEc
  ELSE IF phase[r] = "new" THEN "new"
  ELSE IF was_cancelled[r] THEN "cancelling"
  ELSE "active"

Lifecycle == INSTANCE RequestLifecycle
               WITH status <- [r \in Requests |-> Status(r)], LateSuccess <- FALSE

(* The client implements RequestLifecycle: one callback per request, with  *)
(* one code; no success once a cancellation was noted before the last look *)
(* at the flag; no operation_aborted that nobody asked for.  The flag is   *)
(* set and read without a lock between the steps of the handlers           *)
(* (onConnect, onWriteComplete, the read handler, onRequestComplete).      *)
ImplementsLifecycle == Lifecycle!Spec

(* emulateLongComputationOp has put the session into the map. *)
Inserted(r) ==
  /\ phase[r] # "new"
  /\ ~ \E t \in Threads : call[t] = [at |-> "insert", req |-> r]

(* The session is in the map from the moment emulateLongComputationOp puts *)
(* it there until onRequestComplete erases it. *)
InFlight(r) ==
  /\ Inserted(r)
  /\ told[r] = "none"
  /\ ~ (io.req = r /\ io.at = "callback")

(* cancelRequest has found the session and not yet returned. *)
BeingCancelled(r) ==
  \E t \in Threads : call[t].at \in {"mark", "abort"} /\ call[t].req = r

(* The map holds exactly the sessions in flight: cancelRequest reaches     *)
(* every request that has not completed, and no completed request leaves   *)
(* an entry that nobody would erase.  emulateLongComputationOp must insert *)
(* before it connects, and onRequestComplete must erase before it calls    *)
(* back, or a callback could not give its id to the next request.  Holds   *)
(* for callers that do not give away an id in use.                         *)
ActiveSessionsExact ==
  \A r \in Requests : active_sessions[IdOf[r]] = r <=> InFlight(r)

(* A caller that gives away an id in use overwrites the entry of the older *)
(* session, and whichever of the two completes first erases the entry of   *)
(* the other, which cancelRequest no longer finds.  That is all the harm   *)
(* there is: no entry outlives its session; cancelRequest, which keeps the *)
(* mutex while it cancels, never cancels a session that is being reported; *)
(* and a request is missing from the map only if another was put there     *)
(* with its id. *)
ReuseIsConfined ==
  \A r \in Requests :
    /\ active_sessions[IdOf[r]] = r \/ BeingCancelled(r) => InFlight(r)
    /\ InFlight(r) /\ active_sessions[IdOf[r]] # r =>
         \E s \in Requests \ {r} : IdOf[s] = IdOf[r] /\ Inserted(s)

(* When close() returns, every request ever made, from the user thread or  *)
(* from a callback, has been reported: dropping the work guard does not    *)
(* abandon an operation. *)
CloseDrains ==
  closing = "joined" =>
    \A r \in Requests : phase[r] # "new" => notified[r] = 1

(* With peers that always answer, every request is reported: no handler    *)
(* gives up a session without onRequestComplete. *)
EveryRequestReported ==
  NetworkFairness => \A r \in Requests : phase[r] # "new" ~> told[r] # "none"

(* With peers that always answer, close() returns, although callbacks may  *)
(* make new requests while it waits. *)
CloseReturns ==
  NetworkFairness => (closing = "joining" ~> closing = "joined")

(* No public operation blocks for ever on the mutex, called from the user  *)
(* thread or from inside a callback. *)
CallsReturn == \A t \in Threads : call[t] # NoCall ~> call[t] = NoCall

(* A cancellation that finds an operation waiting is reported without any  *)
(* help of the peer. *)
AbortIsReported == \A r \in Requests : op[r] = "aborted" ~> told[r] # "none"

(* Every cancelled request is reported, even when the peer stays silent.   *)
(* cancelRequest promises the user no less, and the code does not keep it: *)
(* m_sock.cancel() between the look at the flag and the start of the next  *)
(* operation is lost, and that operation waits for the peer. *)
CancelledIsReported == \A r \in Requests : was_cancelled[r] ~> told[r] # "none"
===============================================================================
