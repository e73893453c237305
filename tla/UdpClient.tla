------------------------------- MODULE UdpClient -------------------------------
(***************************************************************************)
(* SyncUDPClient of 03_impl_client_apps/udp_synchronous.cpp.               *)
(*                                                                         *)
(* A request is one datagram, and so is its answer.  The client waits for  *)
(* any datagram on its socket, without a timeout and without a look at the *)
(* sender; after each answer it closes the socket and opens another, which *)
(* the kernel binds to a port when the next request is sent.  The network  *)
(* loses, delays, duplicates and reorders datagrams.                       *)
(***************************************************************************)
EXTENDS Naturals, Sequences

CONSTANTS
  Ports,       \* what the kernel may bind a socket to
  NoPort,      \* a socket that is not bound
  MaxRequests  \* bound: how many requests the caller makes

ASSUME PortsAssumption == Ports # {} /\ NoPort \notin Ports
ASSUME MaxRequestsAssumption == MaxRequests \in Nat

VARIABLES
  call,      \* where emulateLongComputationOp is
  port,      \* what m_sock is bound to
  given,     \* the ports the kernel gave out, one after the other
  network,   \* datagrams on their way, those in the queue of the socket included
  requests,  \* how many requests were sent
  answers    \* for each request that returned, the request its response answers

vars == <<call, port, given, network, requests, answers>>

(* A datagram belongs to a request, from or to the port of the client. *)
Datagrams ==
  [kind : {"request", "response"}, of : 1..MaxRequests, port : Ports]

(* Types, and with them: a request that returned has one response, and a   *)
(* socket that is waited on is bound. *)
TypeOK ==
  /\ call \in {"none", "receive", "reopen", "failed"}
  /\ port \in Ports \cup {NoPort}
  /\ given \in Seq(Ports)
  /\ network \subseteq Datagrams
  /\ requests \in 0..MaxRequests
  /\ answers \in Seq(1..MaxRequests)
  /\ call \in {"none", "reopen"} => Len(answers) = requests
  /\ call = "receive" => Len(answers) + 1 = requests /\ port # NoPort

Init ==
  /\ call = "none"
  /\ port = NoPort
  /\ given = <<>>
  /\ network = {}
  /\ requests = 0
  /\ answers = <<>>

-------------------------------------------------------------------------------
(* The client.                                                             *)

(* Mutant: the socket is closed and opened again before the answer. *)
SendRequestReopens ==
  /\ call = "none"
  /\ requests < MaxRequests
  /\ requests' = requests + 1
  /\ \E p, q \in Ports :
       /\ given' = given \o <<p, q>>
       /\ port' = q
       /\ network' = network \cup {[kind |-> "request", of |-> requests + 1, port |-> p]}
  /\ call' = "receive"
  /\ UNCHANGED answers

(* sendRequest: send_to binds a socket that is not bound. *)
SendRequest ==
  /\ call = "none"
  /\ requests < MaxRequests
  /\ requests' = requests + 1
  /\ \E p \in Ports :
       /\ IF port = NoPort THEN given' = Append(given, p) ELSE p = port /\ UNCHANGED given
       /\ port' = p
       /\ network' = network \cup {[kind |-> "request", of |-> requests + 1, port |-> p]}
  /\ call' = "receive"
  /\ UNCHANGED answers

(* Mutant: the client reads on after the first datagram. *)
ReceiveFromAgain ==
  /\ call = "receive"
  /\ \E d \in network :
       /\ d.kind = "response" /\ d.port = port
       /\ answers' = Append(answers, d.of)
       /\ network' \in {network, network \ {d}}
  /\ UNCHANGED <<call, port, given, requests>>

(* receive_from takes whatever arrives first. *)
ReceiveFrom ==
  /\ call = "receive"
  /\ \E d \in network :
       /\ d.kind = "response" /\ d.port = port
       /\ answers' = Append(answers, d.of)
       /\ network' \in {network, network \ {d}}
  /\ call' = "reopen"
  /\ UNCHANGED <<port, given, requests>>

(* Mutant: the socket is shut down and stays open. *)
ReopenNot ==
  /\ call = "reopen"
  /\ call' = "none"
  /\ UNCHANGED <<port, given, network, requests, answers>>

(* shutdown, whose error is printed and ignored, close and open. *)
Reopen ==
  /\ call = "reopen"
  /\ port' = NoPort
  /\ call' = "none"
  /\ UNCHANGED <<given, network, requests, answers>>

(* send_to or receive_from throws; main prints the error and returns. *)
CallFails ==
  /\ call \in {"none", "receive"}
  /\ call' = "failed"
  /\ UNCHANGED <<port, given, network, requests, answers>>

-------------------------------------------------------------------------------
(* The network and the servers.  What arrives may leave a copy behind.     *)

ServerAnswers(k) ==
  \E d \in network :
    /\ d.kind = "request" /\ d.of = k
    /\ LET answer == [d EXCEPT !.kind = "response"]
       IN  network' \in {network \cup {answer}, (network \ {d}) \cup {answer}}
    /\ UNCHANGED <<call, port, given, requests, answers>>

Lose ==
  /\ \E d \in network : network' = network \ {d}
  /\ UNCHANGED <<call, port, given, requests, answers>>

-------------------------------------------------------------------------------
Next ==
  \/ SendRequest
  \/ ReceiveFrom
  \/ Reopen
  \/ CallFails
  \/ \E k \in 1..MaxRequests : ServerAnswers(k)
  \/ Lose

Spec == Init /\ [][Next]_vars

(* The client reopens its socket; the servers answer what reaches them; of *)
(* answers that are sent again and again the network does not lose all.    *)
LiveSpec ==
  /\ Spec
  /\ SF_vars(ReceiveFrom) /\ WF_vars(Reopen)
  /\ \A k \in 1..MaxRequests : WF_vars(ServerAnswers(k))

-------------------------------------------------------------------------------
(* Properties.                                                             *)

(* A late or a duplicated answer is not taken for that of the next request *)
(* although receiveResponse compares nothing: the close and the open give  *)
(* each request a port of its own, as long as the kernel does not give out *)
(* a port twice.                                                           *)
NoPortTwice == \A i, j \in DOMAIN given : given[i] = given[j] => i = j

AnswersMatch ==
  NoPortTwice => \A k \in DOMAIN answers : answers[k] = k

(* A request returns unless it fails or all its datagrams are lost: then   *)
(* receive_from waits for ever.  A socket that is reopened does not miss   *)
(* the answer to what was sent through it.                                 *)
UnderWay(k) == \E d \in network : d.of = k

ReturnsUnlessLost ==
  \A k \in 1..MaxRequests :
    call = "receive" /\ requests = k
      ~> Len(answers) >= k \/ call = "failed" \/ ~ UnderWay(k)
===============================================================================
