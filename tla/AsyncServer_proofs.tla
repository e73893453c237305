-------------------------- MODULE AsyncServer_proofs --------------------------
(***************************************************************************)
(* Proofs about AsyncServer, for any number of threads and peers.          *)
(*                                                                         *)
(* The properties speak of threads that are in a handler.  Why only one is *)
(* depends on what is outstanding and what is queued: the invariant below  *)
(* says that the next accept, and the one operation of each Service, is in *)
(* exactly one place, with the reactor, in the queue or in a thread.       *)
(***************************************************************************)
EXTENDS AsyncServer, TLAPS

(* The accept: outstanding, or queued once, or in the hands of one thread. *)
AcceptHandlers == {"acceptFailed", "startHandling", "check", "init", "close"}

AcceptOK ==
  /\ \A i \in DOMAIN ready :
       ready[i].kind = "accept" =>
         /\ acceptor = "open"
         /\ \A j \in DOMAIN ready : ready[j].kind = "accept" => i = j
         /\ \A t \in Threads : thread[t].at \notin AcceptHandlers
  /\ \A t \in Threads :
       thread[t].at \in AcceptHandlers =>
         /\ acceptor = "open"
         /\ \A u \in Threads : thread[u].at \in AcceptHandlers => t = u

(* A connection in the queue is there once, and its state says with what;  *)
(* one in a handler is not in the queue, and in no other handler.          *)
ServiceHandlers == {"startHandling", "onRequestReceived", "processRequest", "onResponseSent"}

CompletedIn(d) ==
  CASE d.kind = "accept" -> "accepted"
    [] d.kind = "read"   -> "received"
    [] d.kind = "write"  -> "sent"

HandledIn(at) ==
  CASE at = "startHandling"     -> "accepted"
    [] at = "onRequestReceived" -> "received"
    [] at = "processRequest"    -> "processing"
    [] at = "onResponseSent"    -> "sent"

QueueOK ==
  \A i \in DOMAIN ready :
    ready[i].conn \in Clients =>
      /\ conn[ready[i].conn] = CompletedIn(ready[i])
      /\ \A j \in DOMAIN ready : ready[j].conn = ready[i].conn => i = j

HandlersOK ==
  \A t \in Threads :
    thread[t].at \in ServiceHandlers =>
      /\ conn[thread[t].done.conn] = HandledIn(thread[t].at)
      /\ \A i \in DOMAIN ready : ready[i].conn # thread[t].done.conn
      /\ \A u \in Threads :
           thread[u].at \in ServiceHandlers /\ thread[u].done.conn = thread[t].done.conn => t = u

(* The flag is set by the stop and never cleared; the acceptor is closed   *)
(* only after it; when the threads are joined they have exited.            *)
StopOK ==
  /\ main = "new" => acceptor = "closed"
  /\ is_stopped <=> main \in {"stopping", "joining", "stopped", "gone"}
  /\ main \in {"stopped", "gone"} => \A t \in Threads : thread[t].at = "exited"
  /\ \A t \in Threads : thread[t].at = "close" => is_stopped

(* The thread that made a late Service sees the flag: no accept follows.   *)
LateOK ==
  late # {} =>
    /\ is_stopped
    /\ acceptor # "accepting"
    /\ \A i \in DOMAIN ready : ready[i].kind # "accept"
    /\ \A t \in Threads : thread[t].at \notin {"acceptFailed", "startHandling", "init"}
    /\ AtMostOneLateService

IInv == TypeOK /\ AcceptOK /\ QueueOK /\ HandlersOK /\ StopOK /\ LateOK

(* What TypeOK says of one thread. *)
LEMMA ThreadTypes ==
  ASSUME TypeOK, NEW t \in Threads
  PROVE  /\ thread[t] = [at |-> thread[t].at, done |-> thread[t].done]
         /\ thread[t].at \in {"unstarted", "run", "exited", "acceptFailed"}
              => thread[t].done = AcceptFailed
         /\ thread[t].at \in {"startHandling", "check", "init", "close"}
              => thread[t].done \in Accepted
         /\ thread[t].at = "onRequestReceived" => thread[t].done \in Received
         /\ thread[t].at = "processRequest"
              => thread[t].done \in Received /\ thread[t].done.ec = "ok"
         /\ thread[t].at = "onResponseSent" => thread[t].done \in Sent
         /\ thread[t].at \in ServiceHandlers => thread[t].done.conn \in Clients
BY DEF TypeOK, ThreadStates, Outside, Accepted, Received, Sent, AcceptFailed, ServiceHandlers

(* A completion is queued at the end ... *)
LEMMA Grown ==
  ASSUME ready \in Seq(Completions), NEW d \in Completions, Queue(d)
  PROVE  /\ ready' \in Seq(Completions)
         /\ DOMAIN ready' = 1..(Len(ready) + 1) /\ DOMAIN ready = 1..Len(ready)
         /\ ready'[Len(ready) + 1] = d
         /\ \A i \in DOMAIN ready' :
              (i \in DOMAIN ready /\ ready'[i] = ready[i]) \/ i = Len(ready) + 1
         /\ Len(ready) \in Nat
BY DEF Queue

(* ... and taken from the front. *)
LEMMA Shrunk ==
  ASSUME ready \in Seq(Completions), ready # <<>>, ready' = Tail(ready)
  PROVE  /\ ready' \in Seq(Completions)
         /\ Head(ready) \in Completions
         /\ 1 \in DOMAIN ready /\ ready[1] = Head(ready)
         /\ \A i \in DOMAIN ready' :
              i \in Nat /\ i > 0 /\ i + 1 \in DOMAIN ready /\ ready'[i] = ready[i + 1]
OBVIOUS

(* What TypeOK says of one completion. *)
LEMMA QueueTypes ==
  ASSUME TypeOK, NEW i \in DOMAIN ready
  PROVE  /\ ready[i] \in Completions
         /\ ready[i].kind \in {"accept", "read", "write"}
         /\ ready[i].kind # "accept" => ready[i].conn \in Clients
         /\ CompletedIn(ready[i]) \in {"accepted", "received", "sent"}
<1>1. ready[i] \in Completions
  BY DEF TypeOK
<1> QED
  BY <1>1 DEF Completions, Accepted, AcceptFailed, Received, Sent, CompletedIn

-------------------------------------------------------------------------------
(* The invariant holds initially, and every action preserves it: one lemma *)
(* for each action, with one step for each part.                           *)

LEMMA InitIInv == Init => IInv
<1> SUFFICES ASSUME Init PROVE IInv
  OBVIOUS
<1>1. TypeOK
  <2>1. \A t \in Threads : Outside("unstarted") \in ThreadStates
    BY DEF ThreadStates
  <2>2. thread \in [Threads -> ThreadStates]
    BY <2>1 DEF Init
  <2>3. is_stopped \in BOOLEAN /\ ioc_stopped \in BOOLEAN
    BY DEF Init
  <2>4. ready \in Seq(Completions) /\ conn \in [Clients -> ConnStates] /\ late \subseteq Clients
    BY DEF Init, ConnStates
  <2>5. main = "new" /\ acceptor = "closed"
    BY DEF Init
  <2> QED
    BY <2>2, <2>3, <2>4, <2>5 DEF TypeOK
<1>2. ready = <<>> /\ late = {} /\ main = "new" /\ ~ is_stopped /\ acceptor = "closed"
  BY DEF Init
<1>3. \A t \in Threads : thread[t].at = "unstarted"
  BY DEF Init, Outside
<1> QED
  BY <1>1, <1>2, <1>3
     DEF IInv, AcceptOK, QueueOK, HandlersOK, StopOK, LateOK, AcceptHandlers, ServiceHandlers

LEMMA StartAcceptorIInv == ASSUME IInv, StartAcceptor PROVE IInv'
<1> USE DEF IInv
<1>1. TypeOK'
  BY DEF StartAcceptor, connVars, TypeOK
<1>2. AcceptOK'
  BY DEF StartAcceptor, AcceptOK, StopOK
<1>3. QueueOK'
  BY DEF StartAcceptor, connVars, QueueOK
<1>4. HandlersOK'
  BY DEF StartAcceptor, connVars, HandlersOK
<1>5. StopOK'
  BY DEF StartAcceptor, StopOK
<1>6. LateOK'
  BY DEF StartAcceptor, connVars, LateOK, StopOK
<1> QED
  BY <1>1, <1>2, <1>3, <1>4, <1>5, <1>6

LEMMA StopAcceptorIInv == ASSUME IInv, StopAcceptor PROVE IInv'
<1> USE DEF IInv
<1>1. TypeOK'
  BY DEF StopAcceptor, connVars, TypeOK
<1>2. AcceptOK'
  BY DEF StopAcceptor, AcceptOK
<1>3. QueueOK'
  BY DEF StopAcceptor, connVars, QueueOK
<1>4. HandlersOK'
  BY DEF StopAcceptor, connVars, HandlersOK
<1>5. StopOK'
  BY DEF StopAcceptor, StopOK
<1>6. LateOK'
  BY DEF StopAcceptor, connVars, LateOK, StopOK
<1> QED
  BY <1>1, <1>2, <1>3, <1>4, <1>5, <1>6

LEMMA StopIoContextIInv == ASSUME IInv, StopIoContext PROVE IInv'
<1> USE DEF IInv
<1>1. TypeOK'
  BY DEF StopIoContext, connVars, TypeOK
<1>2. AcceptOK'
  BY DEF StopIoContext, AcceptOK
<1>3. QueueOK'
  BY DEF StopIoContext, connVars, QueueOK
<1>4. HandlersOK'
  BY DEF StopIoContext, connVars, HandlersOK
<1>5. StopOK'
  BY DEF StopIoContext, StopOK
<1>6. LateOK'
  BY DEF StopIoContext, connVars, LateOK, AtMostOneLateService
<1> QED
  BY <1>1, <1>2, <1>3, <1>4, <1>5, <1>6

LEMMA JoinThreadsIInv == ASSUME IInv, JoinThreads PROVE IInv'
<1> USE DEF IInv
<1>1. TypeOK'
  BY DEF JoinThreads, connVars, TypeOK
<1>2. AcceptOK'
  BY DEF JoinThreads, AcceptOK
<1>3. QueueOK'
  BY DEF JoinThreads, connVars, QueueOK
<1>4. HandlersOK'
  BY DEF JoinThreads, connVars, HandlersOK
<1>5. StopOK'
  BY DEF JoinThreads, StopOK
<1>6. LateOK'
  BY DEF JoinThreads, connVars, LateOK, AtMostOneLateService
<1> QED
  BY <1>1, <1>2, <1>3, <1>4, <1>5, <1>6

LEMMA DestroyServerIInv == ASSUME IInv, DestroyServer PROVE IInv'
<1> USE DEF IInv
<1>1. TypeOK'
  BY DEF DestroyServer, TypeOK, ConnStates
<1>2. AcceptOK'
  BY DEF DestroyServer, AcceptOK, AcceptHandlers, StopOK
<1>3. QueueOK'
  BY DEF DestroyServer, QueueOK
<1>4. HandlersOK'
  BY DEF DestroyServer, HandlersOK, ServiceHandlers, StopOK
<1>5. StopOK'
  BY DEF DestroyServer, StopOK
<1>6. LateOK'
  BY DEF DestroyServer, LateOK, AtMostOneLateService
<1> QED
  BY <1>1, <1>2, <1>3, <1>4, <1>5, <1>6

LEMMA StartThreadIInv == ASSUME IInv, NEW t \in Threads, StartThread(t) PROVE IInv'
<1> USE DEF IInv
<1>1. TypeOK'
  BY DEF StartThread, connVars, TypeOK, ThreadStates
<1>2. AcceptOK'
  BY DEF StartThread, AcceptOK, AcceptHandlers, Outside
<1>3. QueueOK'
  BY DEF StartThread, connVars, QueueOK
<1>4. HandlersOK'
  BY DEF StartThread, connVars, HandlersOK, ServiceHandlers, Outside
<1>5. StopOK'
  BY DEF StartThread, StopOK, Outside
<1>6. LateOK'
  BY DEF StartThread, connVars, LateOK, StopOK
<1> QED
  BY <1>1, <1>2, <1>3, <1>4, <1>5, <1>6

LEMMA ConnectIInv == ASSUME IInv, NEW c \in Clients, Connect(c) PROVE IInv'
<1> USE DEF IInv
<1>1. TypeOK'
  BY DEF Connect, serverVars, TypeOK, ConnStates
<1>2. AcceptOK'
  BY DEF Connect, AcceptOK
<1>3. QueueOK'
  BY QueueTypes DEF Connect, QueueOK
<1>4. HandlersOK'
  BY DEF Connect, HandlersOK, ServiceHandlers, HandledIn
<1>5. StopOK'
  BY DEF Connect, serverVars, StopOK
<1>6. LateOK'
  BY DEF Connect, serverVars, LateOK, AtMostOneLateService
<1> QED
  BY <1>1, <1>2, <1>3, <1>4, <1>5, <1>6

LEMMA RunReturnsIInv == ASSUME IInv, NEW t \in Threads, RunReturns(t) PROVE IInv'
<1> USE DEF IInv
<1>1. TypeOK'
  BY ThreadTypes DEF RunReturns, To, Outside, serverVars, connVars, TypeOK, ThreadStates
<1>2. AcceptOK'
  BY DEF RunReturns, To, AcceptOK, AcceptHandlers
<1>3. QueueOK'
  BY DEF RunReturns, connVars, QueueOK
<1>4. HandlersOK'
  BY DEF RunReturns, To, connVars, HandlersOK, ServiceHandlers
<1>5. StopOK'
  BY DEF RunReturns, To, serverVars, StopOK
<1>6. LateOK'
  BY DEF RunReturns, To, serverVars, connVars, LateOK, AtMostOneLateService
<1> QED
  BY <1>1, <1>2, <1>3, <1>4, <1>5, <1>6

LEMMA OnAcceptFailedIInv == ASSUME IInv, NEW t \in Threads, OnAcceptFailed(t) PROVE IInv'
<1> USE DEF IInv
<1>1. TypeOK'
  BY DEF OnAcceptFailed, HandlerReturns, serverVars, connVars, TypeOK, ThreadStates
<1>2. AcceptOK'
  BY DEF OnAcceptFailed, HandlerReturns, AcceptOK, AcceptHandlers
<1>3. QueueOK'
  BY DEF OnAcceptFailed, connVars, QueueOK
<1>4. HandlersOK'
  BY DEF OnAcceptFailed, HandlerReturns, Outside, connVars, HandlersOK, ServiceHandlers
<1>5. StopOK'
  BY DEF OnAcceptFailed, HandlerReturns, Outside, serverVars, StopOK
<1>6. LateOK'
  BY DEF OnAcceptFailed, connVars, LateOK
<1> QED
  BY <1>1, <1>2, <1>3, <1>4, <1>5, <1>6

LEMMA CheckStoppedIInv == ASSUME IInv, NEW t \in Threads, CheckStopped(t) PROVE IInv'
<1> USE DEF IInv
<1>1. TypeOK'
  BY ThreadTypes DEF CheckStopped, To, serverVars, connVars, TypeOK, ThreadStates
<1>2. AcceptOK'
  BY DEF CheckStopped, To, AcceptOK, AcceptHandlers
<1>3. QueueOK'
  BY DEF CheckStopped, connVars, QueueOK
<1>4. HandlersOK'
  BY DEF CheckStopped, To, connVars, HandlersOK, ServiceHandlers
<1>5. StopOK'
  BY DEF CheckStopped, To, serverVars, StopOK
<1>6. LateOK'
  BY DEF CheckStopped, To, serverVars, connVars, LateOK, AtMostOneLateService
<1> QED
  BY <1>1, <1>2, <1>3, <1>4, <1>5, <1>6

LEMMA InitAcceptIInv == ASSUME IInv, NEW t \in Threads, InitAccept(t) PROVE IInv'
<1> USE DEF IInv
<1>1. TypeOK'
  BY DEF InitAccept, HandlerReturns, serverVars, connVars, TypeOK, ThreadStates
<1>2. AcceptOK'
  BY DEF InitAccept, HandlerReturns, Outside, AcceptOK, AcceptHandlers, TypeOK
<1>3. QueueOK'
  BY DEF InitAccept, connVars, QueueOK
<1>4. HandlersOK'
  BY DEF InitAccept, HandlerReturns, Outside, connVars, HandlersOK, ServiceHandlers
<1>5. StopOK'
  BY DEF InitAccept, HandlerReturns, Outside, serverVars, StopOK, AcceptOK, AcceptHandlers
<1>6. LateOK'
  BY DEF InitAccept, connVars, LateOK
<1> QED
  BY <1>1, <1>2, <1>3, <1>4, <1>5, <1>6

LEMMA CloseAcceptorIInv == ASSUME IInv, NEW t \in Threads, CloseAcceptor(t) PROVE IInv'
<1> USE DEF IInv
<1>1. TypeOK'
  BY DEF CloseAcceptor, HandlerReturns, serverVars, connVars, TypeOK, ThreadStates
<1>2. AcceptOK'
  BY DEF CloseAcceptor, HandlerReturns, Outside, AcceptOK, AcceptHandlers, TypeOK
<1>3. QueueOK'
  BY DEF CloseAcceptor, connVars, QueueOK
<1>4. HandlersOK'
  BY DEF CloseAcceptor, HandlerReturns, Outside, connVars, HandlersOK, ServiceHandlers
<1>5. StopOK'
  BY DEF CloseAcceptor, serverVars, StopOK
<1>6. LateOK'
  BY DEF CloseAcceptor, HandlerReturns, Outside, serverVars, connVars, LateOK,
     AtMostOneLateService
<1> QED
  BY <1>1, <1>2, <1>3, <1>4, <1>5, <1>6

LEMMA StartHandlingIInv == ASSUME IInv, NEW t \in Threads, StartHandling(t) PROVE IInv'
<1> USE DEF IInv
<1> DEFINE c == thread[t].done.conn
<1>a. /\ thread[t].at \in ServiceHandlers /\ c \in Clients
      /\ ready' = ready /\ \A d \in Clients \ {c} : conn'[d] = conn[d]
  BY ThreadTypes DEF StartHandling, ServiceHandlers, TypeOK
<1>b. \A i \in DOMAIN ready : ready[i].conn # c
  BY <1>a DEF HandlersOK
<1>c. /\ thread[t].at = "startHandling" /\ late = {} /\ acceptor = "open"
      /\ \A i \in DOMAIN ready : ready[i].kind # "accept"
      /\ \A u \in Threads \ {t} : thread[u].at \notin AcceptHandlers
  BY DEF StartHandling, LateOK, AcceptOK, AcceptHandlers
<1>1. TypeOK'
  BY DEF StartHandling, To, Outside, serverVars, TypeOK, ThreadStates, ConnStates,
     Accepted, AcceptFailed
<1>2. AcceptOK'
  BY DEF StartHandling, To, AcceptOK, AcceptHandlers
<1>3. QueueOK'
  BY <1>a, <1>b DEF QueueOK
<1>4. HandlersOK'
  BY DEF StartHandling, To, HandlersOK, ServiceHandlers, TypeOK
<1>5. StopOK'
  BY DEF StartHandling, To, serverVars, StopOK
<1>6. LateOK'
  BY DEF StartHandling, To, serverVars, LateOK, AtMostOneLateService, AcceptHandlers,
     AcceptOK, TypeOK
<1> QED
  BY <1>1, <1>2, <1>3, <1>4, <1>5, <1>6

LEMMA OnRequestReceivedIInv == ASSUME IInv, NEW t \in Threads, OnRequestReceived(t) PROVE IInv'
<1> USE DEF IInv
<1> DEFINE c == thread[t].done.conn
<1>a. /\ thread[t].at \in ServiceHandlers /\ c \in Clients
      /\ ready' = ready /\ \A d \in Clients \ {c} : conn'[d] = conn[d]
  BY ThreadTypes DEF OnRequestReceived, ServiceHandlers, TypeOK
<1>b. \A i \in DOMAIN ready : ready[i].conn # c
  BY <1>a DEF HandlersOK
<1>c. \/ thread' = [thread EXCEPT ![t] = Outside("run")] /\ conn' = [conn EXCEPT ![c] = "failed"]
      \/ /\ thread' = [thread EXCEPT ![t].at = "processRequest"]
         /\ thread[t].done.ec = "ok"
         /\ conn' = [conn EXCEPT ![c] = "processing"]
  BY DEF OnRequestReceived, HandlerReturns, To
<1>d. /\ thread[t].done \in Received
      /\ \A u \in Threads \ {t} : thread'[u] = thread[u]
      /\ thread'[t].at \in {"run", "processRequest"}
      /\ thread'[t] \in ThreadStates
  <2>1. thread[t].done \in Received /\ thread[t] = [at |-> thread[t].at, done |-> thread[t].done]
    BY ThreadTypes DEF OnRequestReceived
  <2>2. Outside("run") \in ThreadStates /\ Outside("run").at = "run"
    BY DEF ThreadStates, Outside
  <2>3. CASE thread' = [thread EXCEPT ![t] = Outside("run")]
    BY <2>1, <2>2, <2>3 DEF TypeOK
  <2>4. CASE thread' = [thread EXCEPT ![t].at = "processRequest"] /\ thread[t].done.ec = "ok"
    <3>1. thread'[t] = [at |-> "processRequest", done |-> thread[t].done]
      BY <2>1, <2>4 DEF TypeOK
    <3> QED
      BY <2>1, <2>4, <3>1 DEF TypeOK, ThreadStates
  <2> QED
    BY <1>c, <2>1, <2>3, <2>4
<1>1. TypeOK'
  <2>1. thread' \in [Threads -> ThreadStates]
    BY <1>c, <1>d DEF TypeOK
  <2>2. conn' \in [Clients -> ConnStates]
    BY <1>a, <1>c DEF TypeOK, ConnStates
  <2> QED
    BY <2>1, <2>2 DEF OnRequestReceived, TypeOK, serverVars
<1>2. AcceptOK'
  BY <1>d DEF OnRequestReceived, AcceptOK, AcceptHandlers
<1>3. QueueOK'
  BY <1>a, <1>b DEF QueueOK
<1>4. HandlersOK'
  BY ThreadTypes DEF OnRequestReceived, HandlerReturns, To, Outside, serverVars,
     HandlersOK, ServiceHandlers, HandledIn, TypeOK
<1>5. StopOK'
  BY ThreadTypes DEF OnRequestReceived, HandlerReturns, To, Outside, serverVars, StopOK,
     TypeOK
<1>6. LateOK'
  BY ThreadTypes DEF OnRequestReceived, HandlerReturns, To, Outside, serverVars, LateOK,
     AtMostOneLateService, TypeOK
<1> QED
  BY <1>1, <1>2, <1>3, <1>4, <1>5, <1>6

LEMMA ProcessRequestIInv == ASSUME IInv, NEW t \in Threads, ProcessRequest(t) PROVE IInv'
<1> USE DEF IInv
<1> DEFINE c == thread[t].done.conn
<1>a. /\ thread[t].at \in ServiceHandlers /\ c \in Clients
      /\ ready' = ready /\ \A d \in Clients \ {c} : conn'[d] = conn[d]
  BY ThreadTypes DEF ProcessRequest, ServiceHandlers, TypeOK
<1>b. \A i \in DOMAIN ready : ready[i].conn # c
  BY <1>a DEF HandlersOK
<1>1. TypeOK'
  BY DEF ProcessRequest, HandlerReturns, serverVars, TypeOK, ThreadStates, ConnStates
<1>2. AcceptOK'
  BY DEF ProcessRequest, HandlerReturns, Outside, AcceptOK, AcceptHandlers
<1>3. QueueOK'
  BY <1>a, <1>b DEF QueueOK
<1>4. HandlersOK'
  BY DEF ProcessRequest, HandlerReturns, Outside, HandlersOK, ServiceHandlers, TypeOK
<1>5. StopOK'
  BY DEF ProcessRequest, HandlerReturns, Outside, serverVars, StopOK
<1>6. LateOK'
  BY DEF ProcessRequest, HandlerReturns, Outside, serverVars, LateOK, AtMostOneLateService
<1> QED
  BY <1>1, <1>2, <1>3, <1>4, <1>5, <1>6

LEMMA OnResponseSentIInv == ASSUME IInv, NEW t \in Threads, OnResponseSent(t) PROVE IInv'
<1> USE DEF IInv
<1> DEFINE c == thread[t].done.conn
<1>a. /\ thread[t].at \in ServiceHandlers /\ c \in Clients
      /\ ready' = ready /\ \A d \in Clients \ {c} : conn'[d] = conn[d]
  BY ThreadTypes DEF OnResponseSent, ServiceHandlers, TypeOK
<1>b. \A i \in DOMAIN ready : ready[i].conn # c
  BY <1>a DEF HandlersOK
<1>1. TypeOK'
  BY DEF OnResponseSent, HandlerReturns, serverVars, TypeOK, ThreadStates, ConnStates
<1>2. AcceptOK'
  BY DEF OnResponseSent, HandlerReturns, Outside, AcceptOK, AcceptHandlers
<1>3. QueueOK'
  BY <1>a, <1>b DEF QueueOK
<1>4. HandlersOK'
  BY DEF OnResponseSent, HandlerReturns, Outside, HandlersOK, ServiceHandlers, TypeOK
<1>5. StopOK'
  BY DEF OnResponseSent, HandlerReturns, Outside, serverVars, StopOK
<1>6. LateOK'
  BY DEF OnResponseSent, HandlerReturns, Outside, serverVars, LateOK, AtMostOneLateService
<1> QED
  BY <1>1, <1>2, <1>3, <1>4, <1>5, <1>6

LEMMA AcceptFailsIInv == ASSUME IInv, AcceptFails PROVE IInv'
<1> USE DEF IInv
<1> DEFINE d == AcceptFailed
<1>a. d \in Completions /\ Queue(d) /\ d.kind = "accept"
  BY DEF AcceptFails, AcceptFailed, Completions, Accepted
<1>b. /\ ready' \in Seq(Completions)
      /\ DOMAIN ready' = 1..(Len(ready) + 1) /\ DOMAIN ready = 1..Len(ready)
      /\ ready'[Len(ready) + 1] = d
      /\ \A i \in DOMAIN ready' :
           (i \in DOMAIN ready /\ ready'[i] = ready[i]) \/ i = Len(ready) + 1
      /\ Len(ready) \in Nat
  BY <1>a, Grown DEF TypeOK
<1>c. /\ acceptor = "accepting" /\ acceptor' = "open"
      /\ UNCHANGED <<serverVars, thread, connVars>>
      /\ \A i \in DOMAIN ready : ready[i].kind # "accept"
      /\ \A t \in Threads : thread[t].at \notin AcceptHandlers
  BY DEF AcceptFails, AcceptOK
<1>d. d.conn \notin Clients
  BY NoClientAssumption DEF AcceptFailed
<1> HIDE DEF d
<1>1. TypeOK'
  BY <1>b, <1>c DEF TypeOK, serverVars, connVars
<1>2. AcceptOK'
  BY <1>b, <1>c DEF AcceptOK
<1>3. QueueOK'
  BY <1>b, <1>c, <1>d DEF QueueOK, CompletedIn, connVars
<1>4. HandlersOK'
  <2>1. \A t \in Threads : thread[t].at \in ServiceHandlers => thread[t].done.conn \in Clients
    BY ThreadTypes
  <2> QED
    BY <1>b, <1>c, <1>d, <2>1 DEF HandlersOK, connVars
<1>5. StopOK'
  BY <1>c DEF StopOK, serverVars
<1>6. LateOK'
  BY <1>c DEF LateOK, connVars
<1> QED
  BY <1>1, <1>2, <1>3, <1>4, <1>5, <1>6

LEMMA AcceptCompletesIInv == ASSUME IInv, NEW c \in Clients, AcceptCompletes(c) PROVE IInv'
<1> USE DEF IInv
<1> DEFINE d == [kind |-> "accept", conn |-> c, ec |-> "ok"]
<1>a. d \in Completions /\ Queue(d) /\ d.kind = "accept"
  BY DEF AcceptCompletes, Completions, Accepted
<1>b. /\ ready' \in Seq(Completions)
      /\ DOMAIN ready' = 1..(Len(ready) + 1) /\ DOMAIN ready = 1..Len(ready)
      /\ ready'[Len(ready) + 1] = d
      /\ \A i \in DOMAIN ready' :
           (i \in DOMAIN ready /\ ready'[i] = ready[i]) \/ i = Len(ready) + 1
      /\ Len(ready) \in Nat
  BY <1>a, Grown DEF TypeOK
<1>c. /\ acceptor = "accepting" /\ acceptor' = "open"
      /\ conn[c] = "backlog" /\ conn' = [conn EXCEPT ![c] = "accepted"]
      /\ UNCHANGED <<serverVars, thread, late>>
      /\ \A i \in DOMAIN ready : ready[i].kind # "accept"
      /\ \A t \in Threads : thread[t].at \notin AcceptHandlers
  BY DEF AcceptCompletes, AcceptOK
<1>d. d.conn = c /\ CompletedIn(d) = "accepted"
  BY DEF CompletedIn
<1>e. /\ \A i \in DOMAIN ready : ready[i].conn # c
      /\ \A t \in Threads : thread[t].at \in ServiceHandlers => thread[t].done.conn # c
  <2>1. \A i \in DOMAIN ready : CompletedIn(ready[i]) # "backlog"
    BY QueueTypes
  <2>2. \A at \in ServiceHandlers : HandledIn(at) # "backlog"
    BY DEF ServiceHandlers, HandledIn
  <2> QED
    BY <1>c, <2>1, <2>2 DEF QueueOK, HandlersOK
<1> HIDE DEF d
<1>1. TypeOK'
  BY <1>b, <1>c DEF TypeOK, ConnStates, serverVars
<1>2. AcceptOK'
  BY <1>b, <1>c DEF AcceptOK
<1>3. QueueOK'
  <2> SUFFICES ASSUME NEW i \in DOMAIN ready', ready'[i].conn \in Clients
               PROVE  /\ conn'[ready'[i].conn] = CompletedIn(ready'[i])
                      /\ \A j \in DOMAIN ready' : ready'[j].conn = ready'[i].conn => i = j
    BY DEF QueueOK, CompletedIn
  <2>1. CASE i \in DOMAIN ready /\ ready'[i] = ready[i]
    BY <1>b, <1>c, <1>d, <1>e, <2>1 DEF QueueOK, TypeOK
  <2>2. CASE i = Len(ready) + 1
    BY <1>b, <1>c, <1>d, <1>e, <2>2 DEF TypeOK
  <2> QED
    BY <1>b, <2>1, <2>2
<1>4. HandlersOK'
  <2>1. \A t \in Threads : thread[t].at \in ServiceHandlers => thread[t].done.conn \in Clients
    BY ThreadTypes
  <2> QED
    BY <1>b, <1>c, <1>d, <1>e, <2>1 DEF HandlersOK, TypeOK
<1>5. StopOK'
  BY <1>c DEF StopOK, serverVars
<1>6. LateOK'
  BY <1>c DEF LateOK
<1> QED
  BY <1>1, <1>2, <1>3, <1>4, <1>5, <1>6

LEMMA ReadCompletesIInv == ASSUME IInv, NEW c \in Clients, ReadCompletes(c) PROVE IInv'
<1> USE DEF IInv
<1>a. PICK d \in Received : Queue(d) /\ d.conn = c /\ d.kind = "read" /\ d \in Completions
  <2>1. PICK ec \in {"ok", "error"} : Queue([kind |-> "read", conn |-> c, ec |-> ec])
    BY DEF ReadCompletes
  <2> QED
    BY <2>1 DEF Received, Completions
<1>b. /\ ready' \in Seq(Completions)
      /\ DOMAIN ready' = 1..(Len(ready) + 1) /\ DOMAIN ready = 1..Len(ready)
      /\ ready'[Len(ready) + 1] = d
      /\ \A i \in DOMAIN ready' :
           (i \in DOMAIN ready /\ ready'[i] = ready[i]) \/ i = Len(ready) + 1
      /\ Len(ready) \in Nat
  BY <1>a, Grown DEF TypeOK
<1>c. /\ conn[c] = "reading" /\ conn' = [conn EXCEPT ![c] = "received"]
      /\ UNCHANGED <<serverVars, acceptor, thread, late>>
  BY DEF ReadCompletes
<1>d. d.conn = c /\ CompletedIn(d) = "received"
  BY <1>a DEF CompletedIn
<1>e. /\ \A i \in DOMAIN ready : ready[i].conn # c
      /\ \A t \in Threads : thread[t].at \in ServiceHandlers => thread[t].done.conn # c
  <2>1. \A i \in DOMAIN ready : CompletedIn(ready[i]) # "reading"
    BY QueueTypes
  <2>2. \A at \in ServiceHandlers : HandledIn(at) # "reading"
    BY DEF ServiceHandlers, HandledIn
  <2> QED
    BY <1>c, <2>1, <2>2 DEF QueueOK, HandlersOK
<1>1. TypeOK'
  BY <1>b, <1>c DEF TypeOK, ConnStates, serverVars
<1>2. AcceptOK'
  BY <1>a, <1>b, <1>c DEF AcceptOK
<1>3. QueueOK'
  <2> SUFFICES ASSUME NEW i \in DOMAIN ready', ready'[i].conn \in Clients
               PROVE  /\ conn'[ready'[i].conn] = CompletedIn(ready'[i])
                      /\ \A j \in DOMAIN ready' : ready'[j].conn = ready'[i].conn => i = j
    BY DEF QueueOK, CompletedIn
  <2>1. CASE i \in DOMAIN ready /\ ready'[i] = ready[i]
    BY <1>b, <1>c, <1>d, <1>e, <2>1 DEF QueueOK, TypeOK
  <2>2. CASE i = Len(ready) + 1
    BY <1>b, <1>c, <1>d, <1>e, <2>2 DEF TypeOK
  <2> QED
    BY <1>b, <2>1, <2>2
<1>4. HandlersOK'
  <2>1. \A t \in Threads : thread[t].at \in ServiceHandlers => thread[t].done.conn \in Clients
    BY ThreadTypes
  <2> QED
    BY <1>b, <1>c, <1>d, <1>e, <2>1 DEF HandlersOK, TypeOK
<1>5. StopOK'
  BY <1>c DEF StopOK, serverVars
<1>6. LateOK'
  BY <1>a, <1>b, <1>c DEF LateOK, serverVars, AtMostOneLateService
<1> QED
  BY <1>1, <1>2, <1>3, <1>4, <1>5, <1>6

LEMMA WriteCompletesIInv == ASSUME IInv, NEW c \in Clients, WriteCompletes(c) PROVE IInv'
<1> USE DEF IInv
<1>a. PICK d \in Sent : Queue(d) /\ d.conn = c /\ d.kind = "write" /\ d \in Completions
  <2>1. PICK ec \in {"ok", "error"} : Queue([kind |-> "write", conn |-> c, ec |-> ec])
    BY DEF WriteCompletes
  <2> QED
    BY <2>1 DEF Sent, Completions
<1>b. /\ ready' \in Seq(Completions)
      /\ DOMAIN ready' = 1..(Len(ready) + 1) /\ DOMAIN ready = 1..Len(ready)
      /\ ready'[Len(ready) + 1] = d
      /\ \A i \in DOMAIN ready' :
           (i \in DOMAIN ready /\ ready'[i] = ready[i]) \/ i = Len(ready) + 1
      /\ Len(ready) \in Nat
  BY <1>a, Grown DEF TypeOK
<1>c. /\ conn[c] = "writing" /\ conn' = [conn EXCEPT ![c] = "sent"]
      /\ UNCHANGED <<serverVars, acceptor, thread, late>>
  BY DEF WriteCompletes
<1>d. d.conn = c /\ CompletedIn(d) = "sent"
  BY <1>a DEF CompletedIn
<1>e. /\ \A i \in DOMAIN ready : ready[i].conn # c
      /\ \A t \in Threads : thread[t].at \in ServiceHandlers => thread[t].done.conn # c
  <2>1. \A i \in DOMAIN ready : CompletedIn(ready[i]) # "writing"
    BY QueueTypes
  <2>2. \A at \in ServiceHandlers : HandledIn(at) # "writing"
    BY DEF ServiceHandlers, HandledIn
  <2> QED
    BY <1>c, <2>1, <2>2 DEF QueueOK, HandlersOK
<1>1. TypeOK'
  BY <1>b, <1>c DEF TypeOK, ConnStates, serverVars
<1>2. AcceptOK'
  BY <1>a, <1>b, <1>c DEF AcceptOK
<1>3. QueueOK'
  <2> SUFFICES ASSUME NEW i \in DOMAIN ready', ready'[i].conn \in Clients
               PROVE  /\ conn'[ready'[i].conn] = CompletedIn(ready'[i])
                      /\ \A j \in DOMAIN ready' : ready'[j].conn = ready'[i].conn => i = j
    BY DEF QueueOK, CompletedIn
  <2>1. CASE i \in DOMAIN ready /\ ready'[i] = ready[i]
    BY <1>b, <1>c, <1>d, <1>e, <2>1 DEF QueueOK, TypeOK
  <2>2. CASE i = Len(ready) + 1
    BY <1>b, <1>c, <1>d, <1>e, <2>2 DEF TypeOK
  <2> QED
    BY <1>b, <2>1, <2>2
<1>4. HandlersOK'
  <2>1. \A t \in Threads : thread[t].at \in ServiceHandlers => thread[t].done.conn \in Clients
    BY ThreadTypes
  <2> QED
    BY <1>b, <1>c, <1>d, <1>e, <2>1 DEF HandlersOK, TypeOK
<1>5. StopOK'
  BY <1>c DEF StopOK, serverVars
<1>6. LateOK'
  BY <1>a, <1>b, <1>c DEF LateOK, serverVars, AtMostOneLateService
<1> QED
  BY <1>1, <1>2, <1>3, <1>4, <1>5, <1>6

LEMMA RunOneIInv == ASSUME IInv, NEW t \in Threads, RunOne(t) PROVE IInv'
<1> USE DEF IInv
<1> DEFINE h == Head(ready)
<1>a. /\ thread[t].at = "run" /\ ready # <<>> /\ ready' = Tail(ready)
      /\ thread' = [thread EXCEPT ![t] = Entry(h)]
      /\ UNCHANGED <<serverVars, acceptor, connVars>>
  BY DEF RunOne
<1>b. /\ ready' \in Seq(Completions)
      /\ h \in Completions
      /\ 1 \in DOMAIN ready /\ ready[1] = h
      /\ \A i \in DOMAIN ready' :
           i \in Nat /\ i > 0 /\ i + 1 \in DOMAIN ready /\ ready'[i] = ready[i + 1]
  BY <1>a, Shrunk DEF TypeOK
<1>c. /\ Entry(h) \in ThreadStates
      /\ Entry(h).at \in AcceptHandlers => h.kind = "accept"
      /\ Entry(h).at \in ServiceHandlers =>
           h.conn \in Clients /\ Entry(h).done = h /\ HandledIn(Entry(h).at) = CompletedIn(h)
      /\ Entry(h).at # "close" /\ Entry(h).at # "exited"
  <2>1. CASE h = AcceptFailed
    BY <2>1 DEF Entry, Outside, ThreadStates, AcceptFailed, AcceptHandlers, ServiceHandlers
  <2>2. CASE h \in Accepted
    <3>1. Entry(h) = [at |-> "startHandling", done |-> h] /\ h.kind = "accept" /\ h.conn \in Clients
      BY <2>2, NoClientAssumption DEF Entry, Accepted, AcceptFailed
    <3> QED
      BY <2>2, <3>1 DEF ThreadStates, AcceptHandlers, ServiceHandlers, HandledIn, CompletedIn
  <2>3. CASE h \in Received
    <3>1. /\ Entry(h) = [at |-> "onRequestReceived", done |-> h]
          /\ h.kind = "read" /\ h.conn \in Clients
      BY <2>3 DEF Entry, Received, AcceptFailed
    <3> QED
      BY <2>3, <3>1 DEF ThreadStates, AcceptHandlers, ServiceHandlers, HandledIn, CompletedIn
  <2>4. CASE h \in Sent
    <3>1. Entry(h) = [at |-> "onResponseSent", done |-> h] /\ h.kind = "write" /\ h.conn \in Clients
      BY <2>4 DEF Entry, Sent, AcceptFailed
    <3> QED
      BY <2>4, <3>1 DEF ThreadStates, AcceptHandlers, ServiceHandlers, HandledIn, CompletedIn
  <2> QED
    BY <1>b, <2>1, <2>2, <2>3, <2>4 DEF Completions
<1>d. thread'[t] = Entry(h) /\ \A u \in Threads \ {t} : thread'[u] = thread[u]
  BY <1>a DEF TypeOK
<1> HIDE DEF h
<1>1. TypeOK'
  BY <1>a, <1>b, <1>c DEF TypeOK, serverVars, connVars
<1>2. AcceptOK'
  <2>1. ASSUME NEW i \in DOMAIN ready', ready'[i].kind = "accept"
        PROVE  /\ acceptor' = "open" /\ h.kind # "accept"
               /\ \A j \in DOMAIN ready' : ready'[j].kind = "accept" => i = j
               /\ \A u \in Threads : thread[u].at \notin AcceptHandlers
    BY <1>a, <1>b, <2>1 DEF AcceptOK
  <2>2. ASSUME NEW u \in Threads, thread'[u].at \in AcceptHandlers
        PROVE  acceptor' = "open" /\ \A v \in Threads : thread'[v].at \in AcceptHandlers => u = v
    BY <1>a, <1>b, <1>c, <1>d, <2>2 DEF AcceptOK
  <2> QED
    BY <1>c, <1>d, <2>1, <2>2 DEF AcceptOK
<1>3. QueueOK'
  <2> SUFFICES ASSUME NEW i \in DOMAIN ready', ready'[i].conn \in Clients
               PROVE  /\ conn'[ready'[i].conn] = CompletedIn(ready'[i])
                      /\ \A j \in DOMAIN ready' : ready'[j].conn = ready'[i].conn => i = j
    BY DEF QueueOK, CompletedIn
  <2> QED
    BY <1>a, <1>b DEF QueueOK, connVars
<1>4. HandlersOK'
  <2> SUFFICES ASSUME NEW u \in Threads, thread'[u].at \in ServiceHandlers
               PROVE  /\ conn'[thread'[u].done.conn] = HandledIn(thread'[u].at)
                      /\ \A i \in DOMAIN ready' : ready'[i].conn # thread'[u].done.conn
                      /\ \A v \in Threads :
                           thread'[v].at \in ServiceHandlers
                             /\ thread'[v].done.conn = thread'[u].done.conn => u = v
    BY DEF HandlersOK, HandledIn
  <2>1. Entry(h).at \in ServiceHandlers =>
          /\ conn[h.conn] = HandledIn(Entry(h).at)
          /\ \A i \in DOMAIN ready' : ready'[i].conn # h.conn
          /\ \A v \in Threads : thread[v].at \in ServiceHandlers => thread[v].done.conn # h.conn
    <3>1. ASSUME Entry(h).at \in ServiceHandlers, NEW i \in DOMAIN ready'
          PROVE  ready'[i].conn # h.conn
      BY <1>b, <1>c, <3>1 DEF QueueOK
    <3>2. Entry(h).at \in ServiceHandlers => conn[h.conn] = HandledIn(Entry(h).at)
      BY <1>b, <1>c DEF QueueOK
    <3>3. \A v \in Threads : thread[v].at \in ServiceHandlers => thread[v].done.conn # h.conn
      BY <1>b DEF HandlersOK
    <3> QED
      BY <3>1, <3>2, <3>3
  <2>2. CASE u = t
    BY <1>a, <1>c, <1>d, <2>1, <2>2 DEF connVars
  <2>3. CASE u # t
    BY <1>a, <1>b, <1>c, <1>d, <2>1, <2>3 DEF HandlersOK, connVars
  <2> QED
    BY <2>2, <2>3
<1>5. StopOK'
  BY <1>a, <1>c, <1>d DEF StopOK, serverVars
<1>6. LateOK'
  <2>1. late # {} => h.kind # "accept"
    BY <1>b DEF LateOK
  <2> QED
    BY <1>a, <1>b, <1>c, <1>d, <2>1
       DEF LateOK, serverVars, connVars, AtMostOneLateService, AcceptHandlers
<1> QED
  BY <1>1, <1>2, <1>3, <1>4, <1>5, <1>6

LEMMA NextIInv == IInv /\ [Next]_vars => IInv'
<1> SUFFICES ASSUME IInv, [Next]_vars PROVE IInv'
  OBVIOUS
<1>1. CASE Main
  BY <1>1, StartAcceptorIInv, StartThreadIInv, StopAcceptorIInv, StopIoContextIInv,
     JoinThreadsIInv, DestroyServerIInv DEF Main
<1>2. CASE Network
  BY <1>2, AcceptFailsIInv, ConnectIInv, AcceptCompletesIInv, ReadCompletesIInv,
     WriteCompletesIInv DEF Network
<1>3. ASSUME NEW t \in Threads, PoolThread(t) PROVE IInv'
  BY <1>3, RunOneIInv, RunReturnsIInv, OnAcceptFailedIInv, StartHandlingIInv, CheckStoppedIInv,
     InitAcceptIInv, CloseAcceptorIInv, OnRequestReceivedIInv, ProcessRequestIInv,
     OnResponseSentIInv DEF PoolThread
<1>4. CASE UNCHANGED vars
  BY <1>4 DEF vars, serverVars, connVars, IInv, TypeOK, AcceptOK, QueueOK, HandlersOK, StopOK,
     LateOK, AtMostOneLateService, CompletedIn, HandledIn
<1> QED
  BY <1>1, <1>2, <1>3, <1>4 DEF Next, Terminated

LEMMA Invariance == Spec => []IInv
BY InitIInv, NextIInv, PTL DEF Spec

-------------------------------------------------------------------------------
(* The types, and that no handler works on a connection it does not have. *)
THEOREM TypeCorrect == Spec => []TypeOK
<1>1. IInv => TypeOK
  BY DEF IInv
<1> QED
  BY Invariance, <1>1, PTL

(* However many threads run the handlers, a connection's Service is        *)
(* touched by one of them at a time. *)
THEOREM ServiceIsExclusiveCorrect == Spec => []ServiceIsExclusive
<1>1. IInv => ServiceIsExclusive
  <2> SUFFICES ASSUME IInv, NEW c \in Clients, NEW t \in Threads, UsesService(t, c)
               PROVE  ~ Outstanding(c) /\ \A u \in Threads \ {t} : ~ UsesService(u, c)
    BY DEF ServiceIsExclusive
  <2>1. /\ thread[t].at \in ServiceHandlers /\ thread[t].done.conn = c
        /\ HandledIn(thread[t].at) \notin {"reading", "writing"}
    BY DEF UsesService, ServiceHandlers, HandledIn
  <2> QED
    BY <2>1 DEF IInv, HandlersOK, Outstanding, UsesService, ServiceHandlers
<1> QED
  BY Invariance, <1>1, PTL

(* So is the acceptor, which the main thread never touches. *)
THEOREM AcceptorIsExclusiveCorrect == Spec => []AcceptorIsExclusive
<1>1. IInv => AcceptorIsExclusive
  BY DEF IInv, AcceptOK, AcceptHandlers, AcceptorIsExclusive, UsesAcceptor
<1> QED
  BY Invariance, <1>1, PTL

(* Of any number of peers, one at most gets a Service after the stop. *)
THEOREM AtMostOneLateServiceCorrect == Spec => []AtMostOneLateService
<1>1. IInv => AtMostOneLateService
  BY DEF IInv, LateOK, AtMostOneLateService
<1> QED
  BY Invariance, <1>1, PTL

(* No step ends the accepting while the server is not stopped, but the end *)
(* of the handler of a failed accept. *)
LEMMA AcceptingStep ==
  ASSUME IInv, [Next]_vars, AcceptUnderWay, ~ is_stopped,
         \A t \in Threads : thread[t].at # "acceptFailed"
  PROVE  AcceptUnderWay'
<1> DEFINE Accepts(at) == at \in {"startHandling", "check", "init"}
<1>0. TypeOK /\ StopOK
  BY DEF IInv
<1>1. \/ acceptor = "accepting"
      \/ \E i \in DOMAIN ready : ready[i].kind = "accept"
      \/ \E t \in Threads : Accepts(thread[t].at)
  BY DEF AcceptUnderWay
<1>2. CASE Main
  <2>1. CASE StartAcceptor
    BY <2>1 DEF StartAcceptor, AcceptUnderWay
  <2>2. ASSUME NEW t \in Threads, StartThread(t) PROVE AcceptUnderWay'
    <3>1. \A u \in Threads : Accepts(thread[u].at) => thread'[u] = thread[u]
      BY <1>0, <2>2 DEF StartThread, TypeOK
    <3> QED
      BY <1>1, <2>2, <3>1 DEF StartThread, AcceptUnderWay
  <2>3. CASE StopAcceptor
    BY <1>1, <2>3 DEF StopAcceptor, AcceptUnderWay
  <2>4. main \notin {"stopping", "joining", "stopped"}
    BY <1>0 DEF StopOK
  <2> QED
    BY <1>2, <2>1, <2>2, <2>3, <2>4 DEF Main, StopIoContext, JoinThreads, DestroyServer
<1>3. CASE Network
  <2>1. ASSUME NEW d \in Completions, Queue(d), UNCHANGED <<acceptor, thread>>
        PROVE  AcceptUnderWay'
    <3>1. \A i \in DOMAIN ready : i \in DOMAIN ready' /\ ready'[i] = ready[i]
      BY <1>0, <2>1, Grown DEF TypeOK
    <3> QED
      BY <1>1, <2>1, <3>1 DEF AcceptUnderWay
  <2>2. ASSUME NEW d \in Completions, Queue(d), d.kind = "accept"
        PROVE  AcceptUnderWay'
    BY <1>0, <2>2, Grown DEF TypeOK, AcceptUnderWay
  <2>3. CASE AcceptFails
    BY <2>2, <2>3 DEF AcceptFails, AcceptFailed, Completions
  <2>4. ASSUME NEW c \in Clients, Connect(c) PROVE AcceptUnderWay'
    BY <1>1, <2>4 DEF Connect, AcceptUnderWay
  <2>5. ASSUME NEW c \in Clients, AcceptCompletes(c) PROVE AcceptUnderWay'
    BY <2>2, <2>5 DEF AcceptCompletes, Accepted, Completions
  <2>6. ASSUME NEW c \in Clients, ReadCompletes(c) PROVE AcceptUnderWay'
    BY <2>1, <2>6 DEF ReadCompletes, Received, Completions
  <2>7. ASSUME NEW c \in Clients, WriteCompletes(c) PROVE AcceptUnderWay'
    BY <2>1, <2>7 DEF WriteCompletes, Sent, Completions
  <2> QED
    BY <1>3, <2>3, <2>4, <2>5, <2>6, <2>7 DEF Network
<1>4. ASSUME NEW t \in Threads, PoolThread(t) PROVE AcceptUnderWay'
  <2>1. CASE RunOne(t)
    <3>1. CASE Head(ready).kind = "accept"
      <4>1. Entry(Head(ready)).at \in {"acceptFailed", "startHandling"}
        <5>1. Head(ready) = AcceptFailed \/ Head(ready) \in Accepted
          BY <1>0, <2>1, <3>1 DEF RunOne, TypeOK, Completions, Received, Sent
        <5> QED
          BY <5>1, NoClientAssumption DEF Entry, Outside, Accepted, AcceptFailed
      <4> QED
        BY <1>0, <2>1, <4>1 DEF RunOne, TypeOK, AcceptUnderWay
    <3>2. CASE Head(ready).kind # "accept"
      <4>1. ASSUME NEW i \in DOMAIN ready, ready[i].kind = "accept"
            PROVE  i - 1 \in DOMAIN ready' /\ ready'[i - 1] = ready[i]
        BY <1>0, <2>1, <3>2, <4>1 DEF RunOne, TypeOK
      <4>2. \A u \in Threads : Accepts(thread[u].at) => thread'[u] = thread[u]
        BY <1>0, <2>1 DEF RunOne, TypeOK
      <4> QED
        BY <1>1, <2>1, <4>1, <4>2 DEF RunOne, AcceptUnderWay
    <3> QED
      BY <3>1, <3>2
  <2>2. CASE StartHandling(t) \/ CheckStopped(t)
    <3>1. Accepts(thread'[t].at)
      BY <1>0, <2>2, ThreadTypes DEF StartHandling, CheckStopped, To, TypeOK
    <3> QED
      BY <3>1 DEF AcceptUnderWay
  <2>3. CASE InitAccept(t)
    BY <2>3 DEF InitAccept, AcceptUnderWay
  <2>4. ~ CloseAcceptor(t) /\ ~ OnAcceptFailed(t)
    BY <1>0 DEF CloseAcceptor, OnAcceptFailed, StopOK
  <2>5. CASE RunReturns(t) \/ OnRequestReceived(t) \/ ProcessRequest(t) \/ OnResponseSent(t)
    <3>1. \A u \in Threads : Accepts(thread[u].at) => thread'[u] = thread[u]
      BY <1>0, <2>5
         DEF RunReturns, OnRequestReceived, ProcessRequest, OnResponseSent, HandlerReturns, To, TypeOK
    <3>2. UNCHANGED <<acceptor, ready>>
      BY <2>5 DEF RunReturns, OnRequestReceived, ProcessRequest, OnResponseSent
    <3> QED
      BY <1>1, <3>1, <3>2 DEF AcceptUnderWay
  <2> QED
    BY <1>4, <2>1, <2>2, <2>3, <2>4, <2>5 DEF PoolThread
<1>5. CASE UNCHANGED vars
  BY <1>1, <1>5 DEF vars, AcceptUnderWay
<1> QED
  BY <1>2, <1>3, <1>4, <1>5 DEF Next, Terminated

(* Accepting ends only with Acceptor::stop or with an accept that failed.  *)
THEOREM AcceptingGoesOnCorrect == Spec => AcceptingGoesOn
<1>1. IInv /\ [Next]_vars =>
        [AcceptUnderWay => \/ AcceptUnderWay'
                           \/ is_stopped
                           \/ \E t \in Threads : thread[t].at = "acceptFailed"]_vars
  BY AcceptingStep
<1> QED
  BY Invariance, <1>1, PTL DEF Spec, AcceptingGoesOn
===============================================================================
