--------------------------- MODULE RequestLifecycle ---------------------------
(***************************************************************************)
(* What an asynchronous client promises for every request it accepts,      *)
(* whatever the network and the threads do:                                *)
(*                                                                         *)
(*   - the request settles once, with one error code;                      *)
(*   - the user's callback is called once, after that, with that code;     *)
(*   - a request nobody cancelled never settles with operation_aborted;    *)
(*   - a request cancelled before it settles never settles with success,   *)
(*     by a client that makes this promise.                                *)
(*                                                                         *)
(* A cancellation that comes after the request settled changes nothing:    *)
(* the callback may still report success.                                  *)
(***************************************************************************)
EXTENDS Naturals

CONSTANTS
  Requests,
  LateSuccess   \* a Boolean: may a request succeed although it was cancelled

VARIABLES
  status,    \* where each request is in its life
  notified   \* how often the callback of each request has been called

vars == <<status, notified>>

Settled  == {"ok", "error", "aborted"}
Statuses == {"new", "active", "cancelling"} \cup Settled

Init ==
  /\ status = [r \in Requests |-> "new"]
  /\ notified = [r \in Requests |-> 0]

Start(r) ==
  /\ status[r] = "new"
  /\ status' = [status EXCEPT ![r] = "active"]
  /\ UNCHANGED notified

Cancel(r) ==
  /\ status[r] = "active"
  /\ status' = [status EXCEPT ![r] = "cancelling"]
  /\ UNCHANGED notified

(* Nobody asked for an abort: the request succeeds or fails. *)
SettleActive(r) ==
  /\ status[r] = "active"
  /\ \E s \in {"ok", "error"} : status' = [status EXCEPT ![r] = s]
  /\ UNCHANGED notified

(* Somebody did: it is aborted, unless it failed for a reason of its own,  *)
(* or the client noticed too late. *)
SettleCancelled(r) ==
  /\ status[r] = "cancelling"
  /\ \E s \in {"error", "aborted"} \cup (IF LateSuccess THEN {"ok"} ELSE {}) :
       status' = [status EXCEPT ![r] = s]
  /\ UNCHANGED notified

Notify(r) ==
  /\ status[r] \in Settled
  /\ notified[r] = 0
  /\ notified' = [notified EXCEPT ![r] = 1]
  /\ UNCHANGED status

Next ==
  \E r \in Requests :
    \/ Start(r)
    \/ Cancel(r)
    \/ SettleActive(r)
    \/ SettleCancelled(r)
    \/ Notify(r)

Spec == Init /\ [][Next]_vars
===============================================================================
