--------------------------- MODULE UdpClient_proofs ---------------------------
(***************************************************************************)
(* Proofs about UdpClient, for any ports and any number of requests.       *)
(***************************************************************************)
EXTENDS UdpClient, TLAPS

(* Each request was sent from the port that was given out for it, and so   *)
(* were the datagrams that belong to it; the socket has the port of the    *)
(* last request until it is reopened.                                      *)
PortsOK ==
  /\ Len(given) = requests
  /\ call = "none" => port = NoPort
  /\ call \in {"receive", "reopen"} => requests > 0 /\ port = given[requests]
  /\ \A d \in network : d.of <= requests /\ d.port = given[d.of]

IInv == TypeOK /\ PortsOK /\ AnswersMatch

LEMMA InitIInv == Init => IInv
BY PortsAssumption, MaxRequestsAssumption
   DEF Init, IInv, TypeOK, PortsOK, AnswersMatch, NoPortTwice

LEMMA NextIInv == IInv /\ [Next]_vars => IInv'
<1> SUFFICES ASSUME IInv, [Next]_vars PROVE IInv'
  OBVIOUS
<1> USE PortsAssumption, MaxRequestsAssumption
<1> USE DEF IInv
<1>1. CASE SendRequest
  <2>0. PICK p \in Ports :
          /\ given' = Append(given, p)
          /\ port' = p
          /\ network' = network \cup {[kind |-> "request", of |-> requests + 1, port |-> p]}
    BY <1>1 DEF SendRequest, PortsOK
  <2>1. /\ call = "none" /\ call' = "receive"
        /\ requests' = requests + 1 /\ requests + 1 \in 1..MaxRequests
        /\ answers' = answers
    BY <1>1 DEF SendRequest, TypeOK
  <2>2. /\ given \in Seq(Ports) /\ Len(given) = requests
        /\ Len(given') = requests + 1 /\ given'[requests + 1] = p
        /\ \A i \in 1..requests : given'[i] = given[i]
    BY <2>0 DEF TypeOK, PortsOK
  <2>3. TypeOK'
    <3>1. [kind |-> "request", of |-> requests + 1, port |-> p] \in Datagrams
      BY <2>1 DEF Datagrams
    <3> QED
      BY <2>0, <2>1, <3>1 DEF TypeOK
  <2>4. PortsOK'
    <3>1. ASSUME NEW d \in network'
          PROVE  d.of <= requests' /\ d.port = given'[d.of]
      <4>1. CASE d \in network
        <5>1. d.of \in 1..requests
          BY <4>1 DEF TypeOK, PortsOK, Datagrams
        <5> QED
          BY <4>1, <5>1, <2>1, <2>2 DEF PortsOK
      <4>2. CASE d = [kind |-> "request", of |-> requests + 1, port |-> p]
        BY <4>2, <2>1, <2>2
      <4> QED
        BY <4>1, <4>2, <2>0
    <3>2. Len(given') = requests' /\ requests' > 0 /\ port' = given'[requests']
      BY <2>0, <2>1, <2>2
    <3> QED
      BY <3>1, <3>2, <2>1 DEF PortsOK
  <2>5. AnswersMatch'
    <3>1. NoPortTwice' => NoPortTwice
      BY <2>2 DEF NoPortTwice
    <3> QED
      BY <3>1, <2>1 DEF AnswersMatch
  <2> QED
    BY <2>3, <2>4, <2>5
<1>2. CASE ReceiveFrom
  <2>0. PICK d \in network :
          /\ d.kind = "response" /\ d.port = port
          /\ answers' = Append(answers, d.of)
          /\ network' \in {network, network \ {d}}
    BY <1>2 DEF ReceiveFrom
  <2>1. /\ call = "receive" /\ call' = "reopen"
        /\ port' = port /\ given' = given /\ requests' = requests
    BY <1>2 DEF ReceiveFrom
  <2>2. /\ d.of \in 1..MaxRequests /\ d.of \in 1..requests
        /\ port = given[requests] /\ d.port = given[d.of]
        /\ requests \in DOMAIN given /\ d.of \in DOMAIN given
        /\ Len(answers) + 1 = requests
    BY <2>0, <2>1 DEF TypeOK, PortsOK, Datagrams
  <2>3. TypeOK'
    BY <2>0, <2>1, <2>2 DEF TypeOK
  <2>4. PortsOK'
    BY <2>0, <2>1 DEF PortsOK
  <2>5. AnswersMatch'
    <3>1. NoPortTwice' => d.of = requests
      BY <2>0, <2>1, <2>2 DEF NoPortTwice
    <3>2. NoPortTwice' => NoPortTwice
      BY <2>1 DEF NoPortTwice
    <3> QED
      BY <3>1, <3>2, <2>0, <2>2 DEF AnswersMatch, TypeOK
  <2> QED
    BY <2>3, <2>4, <2>5
<1>3. CASE Reopen
  BY <1>3 DEF Reopen, TypeOK, PortsOK, AnswersMatch, NoPortTwice
<1>4. CASE CallFails
  BY <1>4 DEF CallFails, TypeOK, PortsOK, AnswersMatch, NoPortTwice
<1>5. ASSUME NEW k \in 1..MaxRequests, ServerAnswers(k) PROVE IInv'
  <2>0. PICK d \in network :
          network' \subseteq network \cup {[d EXCEPT !.kind = "response"]}
    BY <1>5 DEF ServerAnswers
  <2>1. UNCHANGED <<call, port, given, requests, answers>>
    BY <1>5 DEF ServerAnswers
  <2>2. LET a == [d EXCEPT !.kind = "response"]
        IN  a \in Datagrams /\ a.of = d.of /\ a.port = d.port
    BY DEF TypeOK, Datagrams
  <2>3. TypeOK'
    BY <2>0, <2>1, <2>2 DEF TypeOK
  <2>4. PortsOK'
    BY <2>0, <2>1, <2>2 DEF PortsOK
  <2> QED
    BY <2>1, <2>3, <2>4 DEF AnswersMatch, NoPortTwice
<1>6. CASE Lose
  BY <1>6 DEF Lose, TypeOK, PortsOK, AnswersMatch, NoPortTwice
<1>7. CASE UNCHANGED vars
  BY <1>7 DEF vars, TypeOK, PortsOK, AnswersMatch, NoPortTwice
<1> QED
  BY <1>1, <1>2, <1>3, <1>4, <1>5, <1>6, <1>7 DEF Next

(* The types, and that each request that returned has one response. *)
THEOREM TypeCorrect == Spec => []TypeOK
<1>1. IInv => TypeOK
  BY DEF IInv
<1> QED
  BY InitIInv, NextIInv, <1>1, PTL DEF Spec

(* With a port of its own for each request, no late or duplicated answer   *)
(* is taken for that of another request: what closing and opening the      *)
(* socket after each response is for.                                      *)
THEOREM AnswersMatchCorrect == Spec => []AnswersMatch
<1>1. IInv => AnswersMatch
  BY DEF IInv
<1> QED
  BY InitIInv, NextIInv, <1>1, PTL DEF Spec
===============================================================================
