------------------------------ MODULE SyncServer ------------------------------
(***************************************************************************)
(* The synchronous servers: 04_impl_server_apps/                           *)
(* tcp_iterative_synchronous.cpp and tcp_parallel_synchronous.cpp, and     *)
(* 05_http_ssl_tls/ssl_synchronous_server.cpp.                             *)
(*                                                                         *)
(* One thread, `runner', accepts connections in a loop.  The iterative and *)
(* the SSL server serve each client on that thread before they accept the  *)
(* next; the parallel server gives each client a detached thread.  The     *)
(* main thread starts the server and stops it: it sets m_stop and joins    *)
(* the runner, which looks at the flag between two clients.                *)
(***************************************************************************)
EXTENDS Naturals

CONSTANTS
  Clients,    \* peers; each connects at most once
  NoClient,   \* no peer
  Silent      \* the peers that may stop answering without closing

ASSUME NoClientAssumption == NoClient \notin Clients
ASSUME SilentAssumption == Silent \subseteq Clients

VARIABLES
  kind,     \* which of the three servers this is
  main,     \* what the main thread is doing
  m_stop,   \* Server::m_stop
  runner,   \* what Server::run is doing
  serving,  \* the client the runner itself serves
  conn,     \* where each connection is
  late      \* clients accepted after m_stop was set

vars == <<kind, main, m_stop, runner, serving, conn, late>>

InService == {"handshake", "reading", "processing", "writing"}
Over      == {"served", "failed"}

TypeOK ==
  /\ kind \in {"iterative", "parallel", "ssl"}
  /\ main \in {"new", "serving", "joining", "joined", "gone"}
  /\ m_stop \in BOOLEAN
  /\ runner \in {"none", "listen", "check", "accept", "handle", "exited"}
  /\ serving \in Clients \cup {NoClient}
  /\ runner = "handle" <=> serving # NoClient
  /\ conn \in [Clients -> {"absent", "backlog"} \cup InService \cup Over]
  /\ late \subseteq Clients

Init ==
  /\ kind \in {"iterative", "parallel", "ssl"}
  /\ main = "new"
  /\ m_stop = FALSE
  /\ runner = "none"
  /\ serving = NoClient
  /\ conn = [c \in Clients |-> "absent"]
  /\ late = {}

-------------------------------------------------------------------------------
(* The main thread.                                                        *)

Start ==
  /\ main = "new"
  /\ main' = "serving"
  /\ runner' = "listen"
  /\ UNCHANGED <<kind, m_stop, serving, conn, late>>

(* stop() sets the flag ... *)
Stop ==
  /\ main = "serving"
  /\ main' = "joining"
  /\ m_stop' = TRUE
  /\ UNCHANGED <<kind, runner, serving, conn, late>>

(* Mutant: the runner is not waited for. *)
JoinNot ==
  /\ main = "joining"
  /\ main' = "joined"
  /\ UNCHANGED <<kind, m_stop, runner, serving, conn, late>>

(* ... and joins the runner. *)
Join ==
  /\ main = "joining"
  /\ runner = "exited"
  /\ main' = "joined"
  /\ UNCHANGED <<kind, m_stop, runner, serving, conn, late>>

(* The end of the scope: ~Server, and with it m_ioc, which the acceptor    *)
(* and the sockets refer to. *)
DestroyServer ==
  /\ main = "joined"
  /\ main' = "gone"
  /\ UNCHANGED <<kind, m_stop, runner, serving, conn, late>>

-------------------------------------------------------------------------------
(* The runner.                                                             *)

(* The constructor of Acceptor. *)
Listen ==
  /\ runner = "listen"
  /\ runner' = "check"
  /\ UNCHANGED <<kind, main, m_stop, serving, conn, late>>

(* Mutant: the loop does not look at the flag. *)
CheckStopNot ==
  /\ runner = "check"
  /\ runner' = "accept"
  /\ UNCHANGED <<kind, main, m_stop, serving, conn, late>>

CheckStop ==
  /\ runner = "check"
  /\ runner' = IF m_stop THEN "exited" ELSE "accept"
  /\ UNCHANGED <<kind, main, m_stop, serving, conn, late>>

BeginService(c) ==
  /\ conn' = [conn EXCEPT ![c] = IF kind = "ssl" THEN "handshake" ELSE "reading"]
  /\ late' = IF m_stop THEN late \cup {c} ELSE late

(* accept() blocks until a client is there, and serves it ... *)
AcceptIterative(c) ==
  /\ kind # "parallel"
  /\ runner = "accept"
  /\ conn[c] = "backlog"
  /\ BeginService(c)
  /\ runner' = "handle"
  /\ serving' = c
  /\ UNCHANGED <<kind, main, m_stop>>

(* Mutant: the client is not released. *)
HandleClientReturnsStale ==
  /\ runner = "handle"
  /\ conn[serving] \in Over
  /\ runner' = "check"
  /\ UNCHANGED <<kind, main, m_stop, serving, conn, late>>

HandleClientReturns ==
  /\ runner = "handle"
  /\ conn[serving] \in Over
  /\ runner' = "check"
  /\ serving' = NoClient
  /\ UNCHANGED <<kind, main, m_stop, conn, late>>

(* Mutant: the thread of the service is joined, not detached. *)
AcceptParallelJoined(c) ==
  /\ kind = "parallel"
  /\ runner = "accept"
  /\ conn[c] = "backlog"
  /\ BeginService(c)
  /\ runner' = "handle"
  /\ serving' = c
  /\ UNCHANGED <<kind, main, m_stop>>

(* ... or starts a thread that does. *)
AcceptParallel(c) ==
  /\ kind = "parallel"
  /\ runner = "accept"
  /\ conn[c] = "backlog"
  /\ BeginService(c)
  /\ runner' = "check"
  /\ UNCHANGED <<kind, main, m_stop, serving>>

-------------------------------------------------------------------------------
(* handleClient, on the thread it runs on.  Each call that blocks on the   *)
(* peer may throw; the exception is caught there and ends the service.     *)

Connect(c) ==
  /\ conn[c] = "absent"
  /\ runner \notin {"none", "listen", "exited"}
  /\ conn' = [conn EXCEPT ![c] = "backlog"]
  /\ UNCHANGED <<kind, main, m_stop, runner, serving, late>>

ServiceStep(c, from, to) ==
  /\ conn[c] = from
  /\ conn' = [conn EXCEPT ![c] = to]
  /\ UNCHANGED <<kind, main, m_stop, runner, serving, late>>

Handshake(c)     == ServiceStep(c, "handshake", "reading") \/ ServiceStep(c, "handshake", "failed")
ReadUntil(c)     == ServiceStep(c, "reading", "processing") \/ ServiceStep(c, "reading", "failed")
(* The sleep that emulates the processing. *)
Process(c)       == ServiceStep(c, "processing", "writing")
WriteResponse(c) == ServiceStep(c, "writing", "served") \/ ServiceStep(c, "writing", "failed")

-------------------------------------------------------------------------------
Runner ==
  \/ Listen
  \/ CheckStop
  \/ \E c \in Clients : AcceptIterative(c) \/ AcceptParallel(c)
  \/ HandleClientReturns

Network(c) == Handshake(c) \/ ReadUntil(c) \/ WriteResponse(c)

Next ==
  \/ Start \/ Stop \/ Join \/ DestroyServer
  \/ Runner
  \/ \E c \in Clients : Connect(c) \/ Network(c) \/ Process(c)

Spec == Init /\ [][Next]_vars

(* The threads run and the sleep ends; the kernel hands out pending        *)
(* connections in order; a peer that is not silent sends its request or    *)
(* closes, and takes the response.  Nobody has to connect or to stop.      *)
Fairness ==
  /\ WF_vars(Join \/ DestroyServer)
  /\ WF_vars(Listen \/ CheckStop \/ HandleClientReturns)
  /\ \A c \in Clients :
       /\ SF_vars(AcceptIterative(c) \/ AcceptParallel(c))
       /\ WF_vars(Process(c))
  /\ \A c \in Clients \ Silent : WF_vars(Network(c))

LiveSpec == Spec /\ Fairness

-------------------------------------------------------------------------------
(* Properties.                                                             *)

(* Setting the flag does not wake the runner up, but it serves at most one *)
(* more client. *)
AtMostOneLateClient == \A c, d \in late : c = d

(* No service is under way when m_ioc is destroyed.  Only the servers that *)
(* serve on the runner keep this: the parallel one detaches its threads    *)
(* and waits for none of them.                                             *)
ServicesEndFirst ==
  main = "gone" /\ kind # "parallel" => \A c \in Clients : conn[c] \notin InService

(* A silent client holds up the runner of a server that serves on it. *)
HeldUp == runner = "handle" /\ serving \in Silent

(* stop() returns once a client connects: it is this client that ends the  *)
(* accept the runner blocks in.  With no client it blocks for ever.        *)
StopReturnsAfterClient ==
  \A c \in Clients : m_stop /\ conn[c] = "backlog" ~> main = "gone" \/ []HeldUp

(* A client that is not silent is served, unless the server is stopped     *)
(* first or held up; the clients of the parallel server hold up no other.  *)
EveryoneIsServed ==
  \A c \in Clients \ Silent :
    conn[c] = "backlog" ~>
      \/ conn[c] \in Over
      \/ m_stop
      \/ kind # "parallel" /\ []HeldUp
===============================================================================
