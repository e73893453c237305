----------------------------- MODULE Conversation -----------------------------
(***************************************************************************)
(* Two programs on the two sides of one connection.  A program is the      *)
(* sequence of its calls; SyncPrograms has those of the repository.        *)
(*                                                                         *)
(* A call transfers its message in parts of any size, as write_some and    *)
(* read_some do, and ends when it has what it waits for, when the stream   *)
(* ends or when the connection is reset.  The first call that fails ends   *)
(* its program, unless the program ignores errors.  Whatever ends a        *)
(* program closes its socket.                                              *)
(***************************************************************************)
EXTENDS Naturals, Sequences, SequencesExt

CONSTANTS
  Programs,   \* the calls of each program
  Pairs,      \* who talks to whom
  Tokens      \* what messages are made of

Sides == {"client", "server"}
Other(s) == IF s = "client" THEN "server" ELSE "client"

Writes == {"write", "writeSome", "writeQuietly"}
Reads  == {"readSize", "readUntil", "readToEnd", "drain", "drainFor"}

Calls ==
  [op : Writes \cup Reads \cup {"shutdownSend", "shutdownBoth", "throw"}, msg : Seq(Tokens)]

(* What the calls of a program in ops transfer. *)
Parts(p, ops) ==
  [i \in DOMAIN Programs[p] |-> IF Programs[p][i].op \in ops THEN Programs[p][i].msg ELSE <<>>]

Messages(p, ops) == FlattenSeq(Parts(p, ops))

(* What those before the i-th do. *)
Earlier(p, ops, i) == FlattenSeq(SubSeq(Parts(p, ops), 1, i - 1))

(* What each side of a pair has to say.  netcat, or whoever else is on the *)
(* other side, says what the program waits for, and more.                  *)
Message(pair, s) ==
  IF pair[s] = "netcat" THEN Messages(pair[Other(s)], Reads) \o <<"LF", "!">>
                        ELSE Messages(pair[s], Writes)

ASSUME ProgramsAssumption ==
  /\ \A p \in DOMAIN Programs : Programs[p] \in Seq(Calls)
  /\ "netcat" \in DOMAIN Programs /\ Programs["netcat"] = <<>>
  /\ {"LF", "!"} \subseteq Tokens

ASSUME PairsAssumption ==
  \A pair \in Pairs : pair \in [Sides -> DOMAIN Programs] /\ pair["client"] # "netcat"

(* The calls of program p after the i-th.                                  *)
Later(p, i) == {Programs[p][j].op : j \in {k \in DOMAIN Programs[p] : k > i}}

(* How the calls of a program follow each other: none after a writeSome    *)
(* writes, and none after a write whose error is ignored writes until all  *)
(* is written; a line that is awaited ends with its only line feed; drain  *)
(* waits for nothing.                                                      *)
ASSUME CallsAssumption ==
  \A p \in DOMAIN Programs : \A i \in DOMAIN Programs[p] :
    LET call == Programs[p][i]
    IN  /\ call.op = "writeSome" => Later(p, i) \cap Writes = {}
        /\ call.op = "writeQuietly" => "write" \notin Later(p, i)
        /\ call.op = "readUntil" =>
             \A k \in DOMAIN call.msg : call.msg[k] = "LF" => k = Len(call.msg)
        /\ call.op \in {"drain", "drainFor"} => call.msg = <<>>

(* What a program waits for is what its partner says, as far as both go;   *)
(* and if it waits for the end of the stream, the partner ends its stream  *)
(* only after it has said everything, unless the connection breaks.        *)
ReadsToEnd(p) == \E i \in DOMAIN Programs[p] : Programs[p][i].op = "readToEnd"

SaysAll(p) ==
  \A i \in DOMAIN Programs[p] :
    /\ Programs[p][i].op \in {"write", "readToEnd", "shutdownSend"}
    /\ Programs[p][i].op = "shutdownSend" =>
         \A j \in DOMAIN Programs[p] : j > i => Programs[p][j].op \notin Writes

ASSUME PartnersAssumption ==
  \A pair \in Pairs : \A s \in Sides :
    LET awaits == Messages(pair[s], Reads)
        says   == Message(pair, Other(s))
    IN  /\ IsPrefix(awaits, says) \/ IsPrefix(says, awaits)
        /\ ReadsToEnd(pair[s]) =>
             pair[Other(s)] # "netcat" /\ SaysAll(pair[Other(s)]) /\ IsPrefix(awaits, says)

(* Programs that were written for each other.  Nothing follows a call      *)
(* whose error is ignored that could fail; nothing is written after the    *)
(* stream was ended; nothing is waited for that may have been read with a  *)
(* line or to the end; and a line that is awaited has a line feed.         *)
Careless == {"writeQuietly", "drain", "drainFor"}

Orderly(p) ==
  \A i \in DOMAIN Programs[p] :
    LET call == Programs[p][i]
    IN  /\ call.op # "writeSome"
        /\ call.op \in Careless => Later(p, i) \subseteq Careless
        /\ call.op \in {"shutdownSend", "shutdownBoth"} => Later(p, i) \cap Writes = {}
        /\ call.op \in {"readUntil", "readToEnd"} => Later(p, i) \cap Reads \subseteq Careless
        /\ call.op = "readUntil" => \E k \in DOMAIN call.msg : call.msg[k] = "LF"

(* The i-th call of p need not wait for the j-th of q to return: before it *)
(* p writes all that q waits for until then, or ends its stream.           *)
Waits == {"readSize", "readUntil", "readToEnd", "drain"}

Provides(p, i, q, j) ==
  \/ /\ Programs[q][j].op \in {"readSize", "readUntil"}
     /\ Len(Earlier(q, Reads, j + 1)) <= Len(Earlier(p, {"write"}, i))
  \/ \E k \in 1..(i - 1) : Programs[p][k].op \in {"shutdownSend", "shutdownBoth"}

TakeTurns(p, q) ==
  \A i \in DOMAIN Programs[p], j \in DOMAIN Programs[q] :
    Programs[p][i].op \in Waits /\ Programs[q][j].op \in Waits =>
      Provides(p, i, q, j) \/ Provides(q, j, p, i)

(* A client that refuses its server throws.                                *)
Refuses(p) == \E i \in DOMAIN Programs[p] : Programs[p][i].op = "throw"

(* Each awaits what the other claims to write; but a server that is        *)
(* refused awaits more than it is told.                                    *)
ASSUME AgreementAssumption ==
  \A pair \in Pairs :
    pair["server"] # "netcat" =>
      /\ \A s \in Sides : Orderly(pair[s])
      /\ TakeTurns(pair["client"], pair["server"])
      /\ IF Refuses(pair["client"])
         THEN ~ IsPrefix(Messages(pair["server"], Reads), Message(pair, "client"))
         ELSE \A s \in Sides :
                /\ ~ Refuses(pair[s])
                /\ Messages(pair[s], {"write"}) = Messages(pair[Other(s)], Reads)

VARIABLES
  program,   \* the program on each side
  pc,        \* the call each program is at
  total,     \* total_bytes_written: how much of its message the call has written
  buffer,    \* what the call has read
  sent,      \* all that each side has written
  received,  \* all that each side has read
  result,    \* what each program ended with
  pipe,      \* what is on its way from each side to the other
  ended,     \* the sides that have sent the end of their stream
  reset      \* the connection was reset

progress   == <<pc, total, buffer>>
transfer   == <<sent, received>>
connection == <<pipe, ended, reset>>
vars == <<program, progress, transfer, result, connection>>

Call(s) == Programs[program[s]][pc[s]]

Running(s) == program[s] # "netcat" /\ result[s] = "running"

At(s, ops) ==
  /\ Running(s)
  /\ pc[s] <= Len(Programs[program[s]])
  /\ Call(s).op \in ops

(* Types, and with them: no call writes or reads beyond its buffer. *)
TypeOK ==
  /\ program \in Pairs
  /\ pc \in [Sides -> Nat]
  /\ total \in [Sides -> Nat]
  /\ buffer \in [Sides -> Seq(Tokens)]
  /\ sent \in [Sides -> Seq(Tokens)]
  /\ received \in [Sides -> Seq(Tokens)]
  /\ result \in [Sides -> {"running", "ok", "error"}]
  /\ pipe \in [Sides -> Seq(Tokens)]
  /\ ended \subseteq Sides
  /\ reset \in BOOLEAN
  /\ \A s \in Sides :
       /\ pc[s] \in 1..(Len(Programs[program[s]]) + 1)
       /\ At(s, Writes) => total[s] <= Len(Call(s).msg)
       /\ At(s, {"readSize"}) => Len(buffer[s]) <= Len(Call(s).msg)

(* The connection is established. *)
Init ==
  /\ program \in Pairs
  /\ pc = [s \in Sides |-> 1]
  /\ total = [s \in Sides |-> 0]
  /\ buffer = [s \in Sides |-> <<>>]
  /\ sent = [s \in Sides |-> <<>>]
  /\ received = [s \in Sides |-> <<>>]
  /\ result = [s \in Sides |-> "running"]
  /\ pipe = [s \in Sides |-> <<>>]
  /\ ended = {}
  /\ reset = FALSE

-------------------------------------------------------------------------------
(* The connection.                                                         *)

After(m, n) == SubSeq(m, n + 1, Len(m))

(* A reset discards what side s, which caused it, is to receive; what the  *)
(* other has not received yet may be lost or not. *)
ResetBy(s) ==
  /\ reset' = TRUE
  /\ \E n \in 0..Len(pipe[s]) :
       pipe' = [pipe EXCEPT ![s] = SubSeq(@, 1, n), ![Other(s)] = <<>>]
  /\ UNCHANGED ended

(* A socket that is closed with data unread resets the connection. *)
CloseSocket(s) ==
  IF pipe[Other(s)] = <<>>
  THEN ended' = ended \cup {s} /\ UNCHANGED <<pipe, reset>>
  ELSE ResetBy(s)

(* So does data for a socket that is closed. *)
Refuse(s) ==
  /\ result[s] # "running"
  /\ pipe[Other(s)] # <<>>
  /\ ResetBy(s)
  /\ UNCHANGED <<program, progress, transfer, result>>

-------------------------------------------------------------------------------
(* The end of a call, and of a program.                                    *)

Advance(s) ==
  /\ pc' = [pc EXCEPT ![s] = @ + 1]
  /\ total' = [total EXCEPT ![s] = 0]
  /\ buffer' = [buffer EXCEPT ![s] = <<>>]
  /\ UNCHANGED result

Leave(s, outcome) ==
  /\ result' = [result EXCEPT ![s] = outcome]
  /\ CloseSocket(s)

(* An exception or an error code: main, or handleClient, prints it, and    *)
(* the socket is destroyed. *)
Fail(s) == Leave(s, "error") /\ UNCHANGED progress

(* After the last call. *)
Return(s) ==
  /\ Running(s)
  /\ pc[s] > Len(Programs[program[s]])
  /\ Leave(s, "ok")
  /\ UNCHANGED <<program, progress, transfer>>

RaiseError(s) ==
  /\ At(s, {"throw"})
  /\ Fail(s)
  /\ UNCHANGED <<program, transfer>>

-------------------------------------------------------------------------------
(* Writing.                                                                *)

Put(s, m) ==
  /\ sent' = [sent EXCEPT ![s] = @ \o m]
  /\ pipe' = [pipe EXCEPT ![s] = @ \o m]
  /\ UNCHANGED <<received, ended, reset>>

(* Mutant: each part is taken from the beginning of the buffer. *)
WritePartAgain(s) ==
  /\ At(s, Writes) /\ ~ reset
  /\ Call(s).op = "writeSome" => total[s] = 0
  /\ \E n \in 1..(Len(Call(s).msg) - total[s]) :
       /\ Put(s, SubSeq(Call(s).msg, 1, n))
       /\ total' = [total EXCEPT ![s] = @ + n]
  /\ UNCHANGED <<program, pc, buffer, result>>

WritePart(s) ==
  /\ At(s, Writes) /\ ~ reset
  /\ Call(s).op = "writeSome" => total[s] = 0
  /\ \E n \in 1..(Len(Call(s).msg) - total[s]) :
       /\ Put(s, SubSeq(Call(s).msg, total[s] + 1, total[s] + n))
       /\ total' = [total EXCEPT ![s] = @ + n]
  /\ UNCHANGED <<program, pc, buffer, result>>

WriteReturns(s) ==
  /\ At(s, Writes)
  /\ total[s] = Len(Call(s).msg) \/ (Call(s).op = "writeSome" /\ total[s] > 0)
  /\ Advance(s)
  /\ UNCHANGED <<program, transfer, connection>>

WriteFails(s) ==
  /\ At(s, Writes)
  /\ reset
  /\ total[s] < Len(Call(s).msg)
  /\ IF Call(s).op = "writeQuietly" THEN Advance(s) /\ UNCHANGED connection ELSE Fail(s)
  /\ UNCHANGED <<program, transfer>>

-------------------------------------------------------------------------------
(* Reading.                                                                *)

(* The call has what it waits for. *)
HasRead(s) ==
  \/ Call(s).op = "readSize" /\ Len(buffer[s]) = Len(Call(s).msg)
  \/ Call(s).op = "readUntil" /\ Contains(buffer[s], "LF")

Reading(s) == At(s, Reads) /\ ~ HasRead(s)

Take(s, n) ==
  /\ received' = [received EXCEPT ![s] = @ \o SubSeq(pipe[Other(s)], 1, n)]
  /\ pipe' = [pipe EXCEPT ![Other(s)] = After(@, n)]
  /\ UNCHANGED <<sent, ended, reset>>

(* Mutant: each part may fill the whole buffer. *)
ReadPartUnbounded(s) ==
  /\ Reading(s)
  /\ \E n \in 1..Len(pipe[Other(s)]) :
       /\ Take(s, n)
       /\ buffer' = [buffer EXCEPT ![s] = @ \o SubSeq(pipe[Other(s)], 1, n)]
  /\ UNCHANGED <<program, pc, total, result>>

ReadPart(s) ==
  /\ Reading(s)
  /\ \E n \in 1..Len(pipe[Other(s)]) :
       /\ Call(s).op = "readSize" => Len(buffer[s]) + n <= Len(Call(s).msg)
       /\ Take(s, n)
       /\ buffer' = [buffer EXCEPT ![s] = @ \o SubSeq(pipe[Other(s)], 1, n)]
  /\ UNCHANGED <<program, pc, total, result>>

ReadReturns(s) ==
  /\ At(s, Reads)
  /\ HasRead(s)
  /\ Advance(s)
  /\ UNCHANGED <<program, transfer, connection>>

(* Mutant: boost::asio::read throws at the end of the stream. *)
ReadEndsWithError(s) ==
  /\ Reading(s)
  /\ pipe[Other(s)] = <<>> /\ Other(s) \in ended /\ ~ reset
  /\ Fail(s)
  /\ UNCHANGED <<program, transfer>>

(* The stream ends.  The two programs of the half-close test for eof. *)
ReadEnds(s) ==
  /\ Reading(s)
  /\ pipe[Other(s)] = <<>> /\ Other(s) \in ended /\ ~ reset
  /\ IF Call(s).op \in {"readToEnd", "drain", "drainFor"}
     THEN Advance(s) /\ UNCHANGED connection
     ELSE Fail(s)
  /\ UNCHANGED <<program, transfer>>

ReadFails(s) ==
  /\ Reading(s)
  /\ pipe[Other(s)] = <<>> /\ reset
  /\ IF Call(s).op \in {"drain", "drainFor"}
     THEN Advance(s) /\ UNCHANGED connection
     ELSE Fail(s)
  /\ UNCHANGED <<program, transfer>>

(* Mutant: no time is set. *)
ExpireNot(s) == FALSE

(* expires_after: the stream gives up, as at the end of the stream. *)
Expire(s) ==
  /\ At(s, {"drainFor"})
  /\ Advance(s)
  /\ UNCHANGED <<program, transfer, connection>>

-------------------------------------------------------------------------------
(* Shutting down.                                                          *)

(* Mutant: nothing is sent to the other side. *)
ShutdownUnsent(s) ==
  /\ At(s, {"shutdownSend", "shutdownBoth"})
  /\ IF reset THEN Fail(s) ELSE Advance(s) /\ UNCHANGED connection
  /\ UNCHANGED <<program, transfer>>

(* It throws if the connection was reset. *)
Shutdown(s) ==
  /\ At(s, {"shutdownSend", "shutdownBoth"})
  /\ IF reset
     THEN Fail(s)
     ELSE /\ ended' = ended \cup {s}
          /\ Advance(s)
          /\ UNCHANGED <<pipe, reset>>
  /\ UNCHANGED <<program, transfer>>

-------------------------------------------------------------------------------
(* netcat sends its message in parts, ends its stream and goes when it     *)
(* likes.                                                                  *)
NetcatMessage == Message(program, "server")

Netcat == program["server"] = "netcat" /\ result["server"] = "running"

NetcatSends ==
  /\ Netcat
  /\ "server" \notin ended /\ ~ reset
  /\ \E n \in 1..(Len(NetcatMessage) - Len(sent["server"])) :
       Put("server", SubSeq(NetcatMessage, Len(sent["server"]) + 1, Len(sent["server"]) + n))
  /\ UNCHANGED <<program, progress, result>>

NetcatReceives ==
  /\ Netcat
  /\ \E n \in 1..Len(pipe["client"]) : Take("server", n)
  /\ UNCHANGED <<program, progress, result>>

NetcatEndsStream ==
  /\ Netcat
  /\ "server" \notin ended
  /\ ended' = ended \cup {"server"}
  /\ UNCHANGED <<program, progress, transfer, result, pipe, reset>>

NetcatGoes ==
  /\ Netcat
  /\ \E outcome \in {"ok", "error"} : Leave("server", outcome)
  /\ UNCHANGED <<program, progress, transfer>>

-------------------------------------------------------------------------------
Step(s) ==
  \/ WritePart(s)
  \/ WriteReturns(s)
  \/ WriteFails(s)
  \/ ReadPart(s)
  \/ ReadReturns(s)
  \/ ReadEnds(s)
  \/ ReadFails(s)
  \/ Expire(s)
  \/ Shutdown(s)
  \/ RaiseError(s)
  \/ Return(s)

NetcatStep ==
  \/ NetcatSends
  \/ NetcatReceives
  \/ NetcatEndsStream
  \/ NetcatGoes

Next ==
  \/ \E s \in Sides : Step(s) \/ Refuse(s)
  \/ NetcatStep

Spec == Init /\ [][Next]_vars

(* The programs run, time passes and the network delivers what it has      *)
(* accepted.  netcat need not do anything.                                 *)
LiveSpec == Spec /\ \A s \in Sides : WF_vars(Step(s)) /\ WF_vars(Refuse(s))

-------------------------------------------------------------------------------
(* Properties.                                                             *)

(* What a program that succeeds says it has written.  The callback of      *)
(* write_free_asynchronously says it of the whole message, after a single  *)
(* async_write_some.  Nothing is said of what is written with the errors   *)
(* ignored: into a stream, or by the shutdown of the SSL client.           *)
Claims(s) == Messages(program[s], {"write", "writeSome"})
Awaits(s) == Messages(program[s], Reads)

MT == INSTANCE MessageTransfer WITH
  message <- [s \in Sides |-> Message(program, s)],
  claims  <- [s \in Sides |-> Claims(s)],
  awaits  <- [s \in Sides |-> Awaits(s)]

(* Every program whose writes go on until all is written keeps the promise *)
(* of MessageTransfer: the loops transfer every byte once and in order     *)
(* although each call may move a part only, and success means that what    *)
(* the program claims is written and what it waits for is read.            *)
ImplementsTransfer == MT!Spec

(* No program takes a part of its message for the whole. *)
WholeWrites ==
  \A pair \in Pairs : \A s \in Sides : \A i \in DOMAIN Programs[pair[s]] :
    Programs[pair[s]][i].op # "writeSome"

(* "Here we know that all the data has been written to the socket", says   *)
(* the callback of write_free_asynchronously.cpp (line 28).  It has not    *)
(* looked at bytes_transferred: async_write_some may have written a part,  *)
(* nobody starts another for the rest, and the program ends without error. *)
AllDataIsWritten ==
  \A s \in Sides : result[s] = "ok" => IsPrefix(Claims(s), sent[s])

(* Programs that were written for each other agree on the outcome: neither *)
(* closes while the other still needs the connection, no end of a stream   *)
(* is taken for an error, and close() of the TCP client, whose shutdown    *)
(* throws after a reset, does not throw.  Only a refused certificate is an *)
(* error, and then for both. *)
PartnersAgree ==
  program["server"] # "netcat" =>
    \A s \in Sides :
      result[s] # "running" =>
        result[s] = IF Refuses(program["client"]) THEN "error" ELSE "ok"

(* Such programs never both wait for the other, and none waits for a       *)
(* program that has ended: at each moment one of the two can go on.        *)
Blocked(s) ==
  /\ Reading(s) /\ Call(s).op \in Waits
  /\ pipe[Other(s)] = <<>> /\ Other(s) \notin ended /\ ~ reset

NobodyIsStuck ==
  program["server"] # "netcat" =>
    \A s \in Sides : Blocked(s) => Running(Other(s)) /\ ~ Blocked(Other(s))

(* A conversation between programs of the repository ends, although        *)
(* several of them wait for the end of the other's stream: each time one   *)
(* of the two ends its stream without waiting.  With netcat it need not.   *)
ConversationEnds ==
  program["server"] # "netcat" ~> \A s \in Sides : result[s] # "running"
===============================================================================
