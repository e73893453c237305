--------------------------- MODULE MessageTransfer ---------------------------
(***************************************************************************)
(* What two programs that exchange messages over a connection promise,     *)
(* however the connection cuts the messages and whenever it breaks:        *)
(*                                                                         *)
(*   - what a side has written is a beginning of its message, and what the *)
(*     other has read is a beginning of that: no byte is lost, repeated or *)
(*     out of place;                                                       *)
(*   - a side reports success only if it has written what it claims to     *)
(*     have written and read what it waits for.                            *)
(***************************************************************************)
EXTENDS Sequences, SequencesExt

VARIABLES
  message,   \* what each side has to say
  claims,    \* what a side has written if it reports success
  awaits,    \* what a side has read if it reports success
  sent,      \* what each side has written
  received,  \* what each side has read
  result     \* what each side reports

vars == <<message, claims, awaits, sent, received, result>>

Sides == {"client", "server"}
Other(s) == IF s = "client" THEN "server" ELSE "client"

Init ==
  /\ sent = [s \in Sides |-> <<>>]
  /\ received = [s \in Sides |-> <<>>]
  /\ result = [s \in Sides |-> "running"]

Extends(f, s) ==
  /\ IsStrictPrefix(f[s], f'[s])
  /\ f' = [f EXCEPT ![s] = f'[s]]

Send(s) ==
  /\ result[s] = "running"
  /\ Extends(sent, s)
  /\ IsPrefix(sent'[s], message[s])
  /\ UNCHANGED <<message, claims, awaits, received, result>>

Receive(s) ==
  /\ result[s] = "running"
  /\ Extends(received, s)
  /\ IsPrefix(received'[s], sent[Other(s)])
  /\ UNCHANGED <<message, claims, awaits, sent, result>>

Succeed(s) ==
  /\ result[s] = "running"
  /\ IsPrefix(claims[s], sent[s])
  /\ IsPrefix(awaits[s], received[s])
  /\ result' = [result EXCEPT ![s] = "ok"]
  /\ UNCHANGED <<message, claims, awaits, sent, received>>

Fail(s) ==
  /\ result[s] = "running"
  /\ result' = [result EXCEPT ![s] = "error"]
  /\ UNCHANGED <<message, claims, awaits, sent, received>>

Next == \E s \in Sides : Send(s) \/ Receive(s) \/ Succeed(s) \/ Fail(s)

Spec == Init /\ [][Next]_vars
===============================================================================
