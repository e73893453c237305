----------------------------- MODULE AsyncServer -----------------------------
(***************************************************************************)
(* The multi-threaded server of 04_impl_server_apps/tcp_asynchronous.cpp.  *)
(*                                                                         *)
(* A pool of threads runs m_ioc.run(): each takes the oldest completed     *)
(* operation from the queue of the io_context and executes its handler.    *)
(* One accept is outstanding at a time; its handler hands the connection   *)
(* to a Service and starts the next accept.  A Service reads one request,  *)
(* processes it, writes one response and is destroyed.  The main thread    *)
(* starts the server and stops it.                                         *)
(*                                                                         *)
(* Steps of two threads interleave at every access to what they share: the *)
(* queue, the flag m_isStopped, the acceptor and the stop of the           *)
(* io_context.                                                             *)
(*                                                                         *)
(* Acceptor and Server of 05_http_ssl_tls/http_server.cpp are the same but *)
(* for the directory they pass on; HTTPExchange models its Service.        *)
(***************************************************************************)
EXTENDS Naturals, Sequences

CONSTANTS
  Threads,       \* the threads of the pool
  Clients,       \* peers; each connects at most once
  NoClient,      \* no peer: an accept that failed
  AcceptErrors   \* whether an accept may fail

ASSUME ThreadsAssumption == Threads # {}
ASSUME NoClientAssumption == NoClient \notin Clients
ASSUME AcceptErrorsAssumption == AcceptErrors \in BOOLEAN

VARIABLES
  main,        \* what the main thread is doing
  is_stopped,  \* Acceptor::m_isStopped
  ioc_stopped, \* m_ioc was stopped
  acceptor,    \* m_acceptor: closed, open with or without an accept outstanding
  ready,       \* completed operations whose handlers wait for a thread
  thread,      \* what each thread of the pool is doing
  conn,        \* where each connection is
  late         \* connections handed to a Service after Acceptor::stop()

serverVars == <<main, is_stopped, ioc_stopped>>
connVars   == <<conn, late>>
vars == <<serverVars, acceptor, ready, thread, connVars>>

(* A completed operation.  An accept that failed has no connection. *)
Accepted     == [kind : {"accept"}, conn : Clients, ec : {"ok"}]
AcceptFailed == [kind |-> "accept", conn |-> NoClient, ec |-> "error"]
Received     == [kind : {"read"}, conn : Clients, ec : {"ok", "error"}]
Sent         == [kind : {"write"}, conn : Clients, ec : {"ok", "error"}]
Completions  == Accepted \cup {AcceptFailed} \cup Received \cup Sent

(* A thread outside a handler, and a thread at a step of a handler. *)
Outside(at) == [at |-> at, done |-> AcceptFailed]
ThreadStates ==
  {Outside(at) : at \in {"unstarted", "run", "exited", "acceptFailed"}}
    \cup [at : {"startHandling", "check", "init", "close"}, done : Accepted]
    \cup [at : {"onRequestReceived"}, done : Received]
    \cup [at : {"processRequest"}, done : {d \in Received : d.ec = "ok"}]
    \cup [at : {"onResponseSent"}, done : Sent]

(* "dropped": the Service was destroyed with the io_context. *)
ConnStates == {"absent", "backlog", "accepted", "reading", "received", "processing",
               "writing", "sent", "served", "failed", "dropped"}

(* Types, and with them: no handler works on a connection it does not have. *)
TypeOK ==
  /\ main \in {"new", "starting", "serving", "stopping", "joining", "stopped", "gone"}
  /\ is_stopped \in BOOLEAN
  /\ ioc_stopped \in BOOLEAN
  /\ acceptor \in {"closed", "open", "accepting"}
  /\ ready \in Seq(Completions)
  /\ thread \in [Threads -> ThreadStates]
  /\ conn \in [Clients -> ConnStates]
  /\ late \subseteq Clients

Init ==
  /\ main = "new"
  /\ is_stopped = FALSE
  /\ ioc_stopped = FALSE
  /\ acceptor = "closed"
  /\ ready = <<>>
  /\ thread = [t \in Threads |-> Outside("unstarted")]
  /\ conn = [c \in Clients |-> "absent"]
  /\ late = {}

-------------------------------------------------------------------------------
(* The main thread: Server::start, Server::stop and the end of the scope.  *)

(* The acceptor listens and the first accept is outstanding ... *)
StartAcceptor ==
  /\ main = "new"
  /\ main' = "starting"
  /\ acceptor' = "accepting"
  /\ UNCHANGED <<is_stopped, ioc_stopped, ready, thread, connVars>>

(* ... then the loop creates the threads. *)
StartThread(t) ==
  /\ main = "starting"
  /\ thread[t].at = "unstarted"
  /\ thread' = [thread EXCEPT ![t] = Outside("run")]
  /\ main' = IF \A u \in Threads \ {t} : thread[u].at # "unstarted"
             THEN "serving" ELSE "starting"
  /\ UNCHANGED <<is_stopped, ioc_stopped, acceptor, ready, connVars>>

(* Mutant: Acceptor::stop closes the acceptor itself. *)
StopAcceptorCloses ==
  /\ main = "serving"
  /\ main' = "stopping"
  /\ is_stopped' = TRUE
  /\ acceptor' = "closed"
  /\ UNCHANGED <<ioc_stopped, ready, thread, connVars>>

(* Acceptor::stop *)
StopAcceptor ==
  /\ main = "serving"
  /\ main' = "stopping"
  /\ is_stopped' = TRUE
  /\ UNCHANGED <<ioc_stopped, acceptor, ready, thread, connVars>>

(* Mutant: Server::stop leaves the io_context running. *)
StopIoContextNot ==
  /\ main = "stopping"
  /\ main' = "joining"
  /\ UNCHANGED <<is_stopped, ioc_stopped, acceptor, ready, thread, connVars>>

(* m_ioc.stop() *)
StopIoContext ==
  /\ main = "stopping"
  /\ main' = "joining"
  /\ ioc_stopped' = TRUE
  /\ UNCHANGED <<is_stopped, acceptor, ready, thread, connVars>>

(* The loop of th.join(). *)
JoinThreads ==
  /\ main = "joining"
  /\ \A t \in Threads : thread[t].at = "exited"
  /\ main' = "stopped"
  /\ UNCHANGED <<is_stopped, ioc_stopped, acceptor, ready, thread, connVars>>

(* The destructors of Server's members: the acceptor is closed, and the    *)
(* io_context destroys the handlers it never ran with the Services and the *)
(* sockets they own. *)
DestroyServer ==
  /\ main = "stopped"
  /\ main' = "gone"
  /\ acceptor' = "closed"
  /\ ready' = <<>>
  /\ conn' = [c \in Clients |->
                IF conn[c] \in {"absent", "served", "failed"} THEN conn[c] ELSE "dropped"]
  /\ UNCHANGED <<is_stopped, ioc_stopped, thread, late>>

-------------------------------------------------------------------------------
(* The peers and the reactor.  A completion is noticed by a thread that    *)
(* runs the io_context, or by the one that starts the operation.           *)

Queue(d) ==
  /\ \E t \in Threads : thread[t].at \notin {"unstarted", "exited"}
  /\ ready' = Append(ready, d)

Connect(c) ==
  /\ conn[c] = "absent"
  /\ acceptor # "closed"
  /\ conn' = [conn EXCEPT ![c] = "backlog"]
  /\ UNCHANGED <<serverVars, acceptor, ready, thread, late>>

AcceptCompletes(c) ==
  /\ acceptor = "accepting"
  /\ conn[c] = "backlog"
  /\ acceptor' = "open"
  /\ conn' = [conn EXCEPT ![c] = "accepted"]
  /\ Queue([kind |-> "accept", conn |-> c, ec |-> "ok"])
  /\ UNCHANGED <<serverVars, thread, late>>

AcceptFails ==
  /\ AcceptErrors
  /\ acceptor = "accepting"
  /\ acceptor' = "open"
  /\ Queue(AcceptFailed)
  /\ UNCHANGED <<serverVars, thread, connVars>>

(* A whole line arrived, or the connection broke. *)
ReadCompletes(c) ==
  /\ conn[c] = "reading"
  /\ conn' = [conn EXCEPT ![c] = "received"]
  /\ \E ec \in {"ok", "error"} : Queue([kind |-> "read", conn |-> c, ec |-> ec])
  /\ UNCHANGED <<serverVars, acceptor, thread, late>>

WriteCompletes(c) ==
  /\ conn[c] = "writing"
  /\ conn' = [conn EXCEPT ![c] = "sent"]
  /\ \E ec \in {"ok", "error"} : Queue([kind |-> "write", conn |-> c, ec |-> ec])
  /\ UNCHANGED <<serverVars, acceptor, thread, late>>

-------------------------------------------------------------------------------
(* The threads of the pool.                                                *)

To(t, at) == thread' = [thread EXCEPT ![t].at = at]
HandlerReturns(t) == thread' = [thread EXCEPT ![t] = Outside("run")]

(* Mutant: onAccept does not test the error code. *)
EntryUnchecked(d) ==
  CASE d.kind = "accept" -> [at |-> "startHandling", done |-> d]
    [] d.kind = "read"   -> [at |-> "onRequestReceived", done |-> d]
    [] d.kind = "write"  -> [at |-> "onResponseSent", done |-> d]

(* Where the handler of a completion begins. *)
Entry(d) ==
  CASE d = AcceptFailed    -> Outside("acceptFailed")
    [] d.kind = "accept" /\ d.ec = "ok" -> [at |-> "startHandling", done |-> d]
    [] d.kind = "read"     -> [at |-> "onRequestReceived", done |-> d]
    [] d.kind = "write"    -> [at |-> "onResponseSent", done |-> d]

RunOne(t) ==
  /\ thread[t].at = "run"
  /\ ~ ioc_stopped
  /\ ready # <<>>
  /\ thread' = [thread EXCEPT ![t] = Entry(Head(ready))]
  /\ ready' = Tail(ready)
  /\ UNCHANGED <<serverVars, acceptor, connVars>>

(* A stopped io_context lets no thread take another handler. *)
RunReturns(t) ==
  /\ thread[t].at = "run"
  /\ ioc_stopped
  /\ To(t, "exited")
  /\ UNCHANGED <<serverVars, acceptor, ready, connVars>>

(* onAccept with an error prints it and returns. *)
OnAcceptFailed(t) ==
  /\ thread[t].at = "acceptFailed"
  /\ HandlerReturns(t)
  /\ UNCHANGED <<serverVars, acceptor, ready, connVars>>

(* onAccept without one: Service::startHandling starts to read the request. *)
StartHandling(t) ==
  /\ thread[t].at = "startHandling"
  /\ LET c == thread[t].done.conn
     IN  /\ conn' = [conn EXCEPT ![c] = "reading"]
         /\ late' = IF is_stopped THEN late \cup {c} ELSE late
  /\ To(t, "check")
  /\ UNCHANGED <<serverVars, acceptor, ready>>

(* Mutant: the flag is not tested. *)
CheckStoppedNot(t) ==
  /\ thread[t].at = "check"
  /\ To(t, "init")
  /\ UNCHANGED <<serverVars, acceptor, ready, connVars>>

CheckStopped(t) ==
  /\ thread[t].at = "check"
  /\ To(t, IF is_stopped THEN "close" ELSE "init")
  /\ UNCHANGED <<serverVars, acceptor, ready, connVars>>

(* Mutant: the next accept is not started. *)
InitAcceptNot(t) ==
  /\ thread[t].at = "init"
  /\ HandlerReturns(t)
  /\ UNCHANGED <<serverVars, acceptor, ready, connVars>>

InitAccept(t) ==
  /\ thread[t].at = "init"
  /\ acceptor' = "accepting"
  /\ HandlerReturns(t)
  /\ UNCHANGED <<serverVars, ready, connVars>>

CloseAcceptor(t) ==
  /\ thread[t].at = "close"
  /\ acceptor' = "closed"
  /\ HandlerReturns(t)
  /\ UNCHANGED <<serverVars, ready, connVars>>

(* onRequestReceived: after an error it prints it, and the Service dies    *)
(* with its socket.                                                        *)
OnRequestReceived(t) ==
  /\ thread[t].at = "onRequestReceived"
  /\ LET d == thread[t].done
     IN  IF d.ec = "ok"
         THEN /\ conn' = [conn EXCEPT ![d.conn] = "processing"]
              /\ To(t, "processRequest")
         ELSE /\ conn' = [conn EXCEPT ![d.conn] = "failed"]
              /\ HandlerReturns(t)
  /\ UNCHANGED <<serverVars, acceptor, ready, late>>

(* Mutant: the write is started before the processing is over. *)
ProcessRequestLate(t) ==
  /\ thread[t].at = "processRequest"
  /\ conn' = [conn EXCEPT ![thread[t].done.conn] = "writing"]
  /\ UNCHANGED <<serverVars, acceptor, ready, thread, late>>

(* processRequest sleeps as long as the request says, on this thread; then *)
(* the write of the response is started.                                   *)
ProcessRequest(t) ==
  /\ thread[t].at = "processRequest"
  /\ conn' = [conn EXCEPT ![thread[t].done.conn] = "writing"]
  /\ HandlerReturns(t)
  /\ UNCHANGED <<serverVars, acceptor, ready, late>>

(* onResponseSent: the Service dies.  (What is printed is the wrong way     *)
(* round, and not modelled.) *)
OnResponseSent(t) ==
  /\ thread[t].at = "onResponseSent"
  /\ LET d == thread[t].done
     IN  conn' = [conn EXCEPT ![d.conn] = IF d.ec = "ok" THEN "served" ELSE "failed"]
  /\ HandlerReturns(t)
  /\ UNCHANGED <<serverVars, acceptor, ready, late>>

-------------------------------------------------------------------------------
Main ==
  \/ StartAcceptor
  \/ \E t \in Threads : StartThread(t)
  \/ StopAcceptor
  \/ StopIoContext
  \/ JoinThreads
  \/ DestroyServer

Network ==
  \/ AcceptFails
  \/ \E c \in Clients :
       Connect(c) \/ AcceptCompletes(c) \/ ReadCompletes(c) \/ WriteCompletes(c)

PoolThread(t) ==
  \/ RunOne(t)
  \/ RunReturns(t)
  \/ OnAcceptFailed(t)
  \/ StartHandling(t)
  \/ CheckStopped(t)
  \/ InitAccept(t)
  \/ CloseAcceptor(t)
  \/ OnRequestReceived(t)
  \/ ProcessRequest(t)
  \/ OnResponseSent(t)

Terminated == main = "gone" /\ UNCHANGED vars

Next ==
  \/ Main
  \/ Network
  \/ \E t \in Threads : PoolThread(t)
  \/ Terminated

Spec == Init /\ [][Next]_vars

(* The threads run, the sleep of a request ends, and a stop that began is  *)
(* carried through.  The peers may never send and never read.              *)
ThreadFairness ==
  /\ \A t \in Threads : WF_vars(PoolThread(t))
  /\ WF_vars(StartAcceptor \/ \E t \in Threads : StartThread(t))
  /\ WF_vars(StopIoContext \/ JoinThreads \/ DestroyServer)

(* The peers send their request or break the connection, and take the      *)
(* response; the kernel hands out pending connections in order.            *)
NetworkFairness ==
  \A c \in Clients :
    SF_vars(AcceptCompletes(c)) /\ WF_vars(ReadCompletes(c)) /\ WF_vars(WriteCompletes(c))

(* What holds only if the peers do that is stated under the condition      *)
(* NetworkFairness. *)
LiveSpec == Spec /\ ThreadFairness

-------------------------------------------------------------------------------
(* Properties.                                                             *)

(* A connection's Service is touched by one thread at a time, although no  *)
(* strand or mutex protects it: each Service has one operation outstanding *)
(* at a time, and each handler's last act is to start the next.            *)
UsesService(t, c) ==
  /\ thread[t].at \in {"startHandling", "onRequestReceived", "processRequest", "onResponseSent"}
  /\ thread[t].done.conn = c

Outstanding(c) ==
  \/ conn[c] \in {"reading", "writing"}
  \/ \E i \in DOMAIN ready : ready[i].conn = c

ServiceIsExclusive ==
  \A c \in Clients : \A t \in Threads :
    UsesService(t, c) =>
      /\ ~ Outstanding(c)
      /\ \A u \in Threads \ {t} : ~ UsesService(u, c)

(* The acceptor is touched by one thread at a time, and only while it has  *)
(* no accept outstanding.  Acceptor::stop, on the main thread, therefore   *)
(* must not touch it: it leaves the closing to the handler. *)
UsesAcceptor(t) == thread[t].at \in {"startHandling", "check", "init", "close"}

AcceptorIsExclusive ==
  \A t \in Threads :
    UsesAcceptor(t) =>
      /\ acceptor = "open"
      /\ \A u \in Threads \ {t} : ~ UsesAcceptor(u)

(* Acceptor::stop does not recall an accept that is outstanding, but at    *)
(* most one more connection gets a Service: whoever handles it sees the    *)
(* flag. *)
AtMostOneLateService ==
  \A c, d \in late : c = d

(* "Init next async accept operation if acceptor has not been stopped      *)
(* yet": between the start and the stop of a server an accept is           *)
(* outstanding, or its handler is on its way to start the next.            *)
AcceptUnderWay ==
  \/ acceptor = "accepting"
  \/ \E i \in DOMAIN ready : ready[i].kind = "accept"
  \/ \E t \in Threads : thread[t].at \in {"acceptFailed", "startHandling", "check", "init"}

KeepsAccepting == main \in {"starting", "serving"} => AcceptUnderWay

(* What the code does keep: accepting ends only with Acceptor::stop or     *)
(* with an accept that failed, whatever the threads do in which order.     *)
AcceptingGoesOn ==
  [][AcceptUnderWay => \/ AcceptUnderWay'
                       \/ is_stopped
                       \/ \E t \in Threads : thread[t].at = "acceptFailed"]_vars

(* Server::stop returns, whatever the peers do: m_ioc.stop() does not wait *)
(* for their operations, only for handlers that are executing. *)
StopReturns == main = "stopping" ~> main = "gone"

(* With peers that do not fall silent and accepts that do not fail, every  *)
(* connection gets its response or fails, unless the server is stopped:    *)
(* the acceptor, which shares the threads with requests that sleep, is not *)
(* starved, and no completion is left in the queue.                        *)
NoAcceptFails == \A t \in Threads : thread[t].at # "acceptFailed"

EveryoneIsServed ==
  NetworkFairness /\ []NoAcceptFails =>
    \A c \in Clients :
      conn[c] = "backlog" ~> conn[c] \in {"served", "failed"} \/ is_stopped
===============================================================================
