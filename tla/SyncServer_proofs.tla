--------------------------- MODULE SyncServer_proofs ---------------------------
(***************************************************************************)
(* Proofs about SyncServer, for the three servers, any number of clients   *)
(* and any of them silent.                                                 *)
(***************************************************************************)
EXTENDS SyncServer, TLAPS

(* A server that serves on the runner has no service under way but that of *)
(* the client the runner is with.                                          *)
ServingOK ==
  kind # "parallel" => \A c \in Clients : conn[c] \in InService => serving = c

(* The runner exists from the start, and the join returns after it.        *)
MainOK ==
  /\ main = "new" => runner = "none"
  /\ main \in {"joined", "gone"} => runner = "exited"

(* After a late client was accepted the runner is past the accept, and the *)
(* flag keeps it from the next.                                            *)
LateOK == late # {} => m_stop /\ runner # "accept" /\ AtMostOneLateClient

IInv == TypeOK /\ ServingOK /\ MainOK /\ LateOK

LEMMA InitIInv == Init => IInv
BY NoClientAssumption DEF Init, IInv, TypeOK, ServingOK, MainOK, LateOK, InService

(* The services that begin at an accept, on the runner or beside it.       *)
LEMMA BeginServiceTypes ==
  ASSUME TypeOK, NEW c \in Clients, BeginService(c)
  PROVE  /\ conn' \in [Clients -> {"absent", "backlog"} \cup InService \cup Over]
         /\ late' \subseteq Clients
         /\ \A d \in Clients \ {c} : conn'[d] = conn[d]
BY DEF TypeOK, BeginService, InService, Over

(* When the runner is at accept nobody was accepted late before.           *)
LEMMA BeginServiceLate ==
  ASSUME LateOK, runner = "accept", NEW c \in Clients, BeginService(c), UNCHANGED m_stop,
         runner' # "accept"
  PROVE  LateOK'
BY DEF LateOK, BeginService, AtMostOneLateClient

LEMMA NextIInv == IInv /\ [Next]_vars => IInv'
<1> SUFFICES ASSUME IInv, [Next]_vars PROVE IInv'
  OBVIOUS
<1> USE DEF IInv
<1>1. CASE Start
  BY <1>1 DEF Start, TypeOK, ServingOK, MainOK, LateOK, AtMostOneLateClient
<1>2. CASE Stop
  BY <1>2 DEF Stop, TypeOK, ServingOK, MainOK, LateOK, AtMostOneLateClient
<1>3. CASE Join
  BY <1>3 DEF Join, TypeOK, ServingOK, MainOK, LateOK, AtMostOneLateClient
<1>4. CASE DestroyServer
  BY <1>4 DEF DestroyServer, TypeOK, ServingOK, MainOK, LateOK, AtMostOneLateClient
<1>5. CASE Listen
  BY <1>5 DEF Listen, TypeOK, ServingOK, MainOK, LateOK, AtMostOneLateClient
<1>6. CASE CheckStop
  BY <1>6 DEF CheckStop, TypeOK, ServingOK, MainOK, LateOK, AtMostOneLateClient
<1>7. ASSUME NEW c \in Clients, AcceptIterative(c) PROVE IInv'
  <2>1. TypeOK'
    BY <1>7, BeginServiceTypes, NoClientAssumption DEF AcceptIterative, TypeOK
  <2>2. ServingOK'
    BY <1>7, BeginServiceTypes, NoClientAssumption DEF AcceptIterative, ServingOK, TypeOK
  <2>3. MainOK'
    BY <1>7 DEF AcceptIterative, MainOK
  <2>4. LateOK'
    BY <1>7, BeginServiceLate DEF AcceptIterative
  <2> QED
    BY <2>1, <2>2, <2>3, <2>4
<1>8. ASSUME NEW c \in Clients, AcceptParallel(c) PROVE IInv'
  <2>1. TypeOK'
    BY <1>8, BeginServiceTypes DEF AcceptParallel, TypeOK
  <2>2. ServingOK'
    BY <1>8 DEF AcceptParallel, ServingOK
  <2>3. MainOK'
    BY <1>8 DEF AcceptParallel, MainOK
  <2>4. LateOK'
    BY <1>8, BeginServiceLate DEF AcceptParallel
  <2> QED
    BY <2>1, <2>2, <2>3, <2>4
<1>9. CASE HandleClientReturns
  (* The service the runner was with is over, and there is no other.       *)
  <2>1. TypeOK' /\ MainOK' /\ LateOK'
    BY <1>9 DEF HandleClientReturns, TypeOK, MainOK, LateOK, AtMostOneLateClient
  <2>2. ServingOK'
    BY <1>9 DEF HandleClientReturns, ServingOK, InService, Over
  <2> QED
    BY <2>1, <2>2
<1>10. ASSUME NEW c \in Clients, Connect(c) PROVE IInv'
  BY <1>10 DEF Connect, TypeOK, ServingOK, MainOK, LateOK, AtMostOneLateClient, InService
<1>11. ASSUME NEW c \in Clients, NEW from \in InService, NEW to \in InService \cup Over,
              ServiceStep(c, from, to)
       PROVE  IInv'
  BY <1>11 DEF ServiceStep, TypeOK, ServingOK, MainOK, LateOK, AtMostOneLateClient
<1>12. ASSUME NEW c \in Clients, Network(c) \/ Process(c) PROVE IInv'
  BY <1>11, <1>12 DEF Network, Process, Handshake, ReadUntil, WriteResponse, InService, Over
<1>13. CASE UNCHANGED vars
  BY <1>13 DEF vars, TypeOK, ServingOK, MainOK, LateOK, AtMostOneLateClient
<1> QED
  BY <1>1, <1>2, <1>3, <1>4, <1>5, <1>6, <1>7, <1>8, <1>9, <1>10, <1>12, <1>13
     DEF Next, Runner

LEMMA Invariance == Spec => []IInv
BY InitIInv, NextIInv, PTL DEF Spec

(* Every variable keeps its type, and the runner handles a client exactly  *)
(* when it is with one. *)
THEOREM TypeCorrect == Spec => []TypeOK
<1>1. IInv => TypeOK
  BY DEF IInv
<1> QED
  BY <1>1, Invariance, PTL

(* No service is under way when the io_context of the iterative or of the  *)
(* SSL server is destroyed: the runner was joined, and its client with it. *)
THEOREM ServicesEndFirstCorrect == Spec => []ServicesEndFirst
<1>1. IInv => ServicesEndFirst
  BY NoClientAssumption DEF IInv, TypeOK, ServingOK, MainOK, ServicesEndFirst
<1> QED
  BY <1>1, Invariance, PTL

(* However many clients wait, each of the three servers accepts at most    *)
(* one after stop() has set the flag. *)
THEOREM AtMostOneLateClientCorrect == Spec => []AtMostOneLateClient
<1>1. IInv => AtMostOneLateClient
  BY DEF IInv, LateOK, AtMostOneLateClient
<1> QED
  BY <1>1, Invariance, PTL
===============================================================================
