--------------------------- MODULE Agreement_proofs ---------------------------
(***************************************************************************)
(* Proofs about programs that were written for each other, as              *)
(* AgreementAssumption of Conversation says: they agree on the outcome,    *)
(* and never both wait.                                                    *)
(***************************************************************************)
EXTENDS Conversation_proofs

(* Both programs are of the repository, and the client does not refuse.    *)
Partnered == program["server"] # "netcat" /\ ~ Refuses(program["client"])

(* From the i-th call of p on nothing can fail.                            *)
OnlyCareless(p, i) == \A j \in i..Len(Programs[p]) : Op(p, j) \in Careless

(* Until its i-th call p reads only by the number of bytes.                *)
BySize(p, i) == \A j \in 1..(i - 1) : Op(p, j) \in Reads => Op(p, j) = "readSize"

(* No program gets past the call that throws.                              *)
ThrowOK(s) ==
  /\ Running(s) => \A j \in 1..(pc[s] - 1) : Op(program[s], j) # "throw"
  /\ result[s] = "ok" => ~ Refuses(program[s])

(* What a program claims here is what its whole writes write: programs     *)
(* that were written for each other have no others that claim anything.    *)
(* Success is what MessageTransfer says of that, and remains so.           *)
Whole(s) == Messages(program[s], {"write"})

SuccessOK(s) ==
  result[s] = "ok" => IsPrefix(Whole(s), sent[s]) /\ IsPrefix(Awaits(s), received[s])

(* What was read by the number of bytes was waited for.                    *)
BufferOK(s) ==
  Running(s) =>
    /\ ~ At(s, Reads) => buffer[s] = <<>>
    /\ BySize(program[s], pc[s]) =>
         Len(received[s]) = Len(Earlier(program[s], Reads, pc[s])) + Len(buffer[s])

(* A program that has gone or has shut down has ended its stream.          *)
HasShutDown(p, i) == \E k \in 1..(i - 1) : Op(p, k) \in {"shutdownSend", "shutdownBoth"}

StreamOK(s) ==
  /\ result[s] # "running" => reset \/ s \in ended
  /\ Running(s) /\ HasShutDown(program[s], pc[s]) => reset \/ s \in ended

(* Of two partners neither fails: a stream ends after all that is claimed, *)
(* and the connection is reset only when nothing can fail any more.        *)
PartnerOK(s) ==
  Partnered =>
    /\ result[s] # "error"
    /\ s \in ended => IsPrefix(Whole(s), sent[s])
    /\ reset /\ Running(s) => OnlyCareless(program[s], pc[s])

AInv ==
  \A s \in Sides : ThrowOK(s) /\ SuccessOK(s) /\ BufferOK(s) /\ StreamOK(s) /\ PartnerOK(s)

-------------------------------------------------------------------------------
(* Orderly programs.                                                       *)
LEMMA LaterCall ==
  ASSUME NEW p \in DOMAIN Programs, NEW i \in DOMAIN Programs[p], NEW j \in DOMAIN Programs[p],
         j > i
  PROVE  Op(p, j) \in Later(p, i)
BY DEF Later, Op

(* Before a call that waits for something, what was read was by number.    *)
LEMMA ReadsBySize ==
  ASSUME NEW p \in DOMAIN Programs, Orderly(p), NEW i \in DOMAIN Programs[p],
         Op(p, i) \in {"readSize", "readUntil", "readToEnd"}
  PROVE  BySize(p, i)
<1>1. Len(Programs[p]) \in Nat /\ DOMAIN Programs[p] = 1..Len(Programs[p])
  BY PartsAre
<1>2. ASSUME NEW j \in 1..(i - 1), Op(p, j) \in Reads PROVE Op(p, j) = "readSize"
  <2>1. j \in DOMAIN Programs[p] /\ i > j
    BY <1>1
  <2>2. Op(p, i) \in Later(p, j) /\ Op(p, i) \in Reads /\ Op(p, i) \notin Careless
    BY <2>1, LaterCall DEF Reads, Careless
  <2>3. /\ Op(p, j) \in Careless => Later(p, j) \subseteq Careless
        /\ Op(p, j) \in {"readUntil", "readToEnd"} => Later(p, j) \cap Reads \subseteq Careless
    BY <2>1 DEF Orderly, Op
  <2> QED
    BY <1>2, <2>2, <2>3 DEF Reads, Careless
<1> QED
  BY <1>2 DEF BySize

(* What the calls so far claim is written.                                 *)
LEMMA ClaimedSoFar ==
  ASSUME NEW p \in DOMAIN Programs, NEW i \in 1..(Len(Programs[p]) + 1), NEW k,
         NEW m \in Seq(Tokens), NEW broken, HasWritten(p, i, k, m, broken),
         i \in DOMAIN Programs[p] /\ Op(p, i) \in Writes => k \in 0..Len(Msg(p, i))
  PROVE  IsPrefix(Earlier(p, {"write"}, i), m)
<1> DEFINE C == Earlier(p, {"write"}, i)
           W == Earlier(p, Writes, i)
<1>1. C \in Seq(Tokens) /\ W \in Seq(Tokens)
  BY EarlierType
<1>2. IsPrefix(C, W)
  BY ClaimedIsWritten
<1>3. ASSUME m = Written(p, i, k) PROVE IsPrefix(W, m)
  <2>1. CASE i \in DOMAIN Programs[p] /\ Op(p, i) \in Writes
    <3>1. Msg(p, i) \in Seq(Tokens) /\ k \in 0..Len(Msg(p, i))
      BY <2>1, PartsAre
    <3>2. SubSeq(Msg(p, i), 1, k) \in Seq(Tokens)
      BY <3>1
    <3>3. m = W \o SubSeq(Msg(p, i), 1, k)
      BY <1>3, <2>1 DEF Written
    <3> HIDE DEF W
    <3> QED
      BY <1>1, <3>2, <3>3, PrefixOfConcat
  <2>2. CASE ~ (i \in DOMAIN Programs[p] /\ Op(p, i) \in Writes)
    <3>1. m = W
      BY <1>3, <2>2 DEF Written
    <3> QED
      BY <3>1, PrefixTrivial
  <2> QED
    BY <2>1, <2>2
<1>4. ASSUME CutShort(p, i, m, broken) PROVE IsPrefix(C, m)
  BY <1>4 DEF CutShort
<1> HIDE DEF C, W
<1>5. IsPrefix(C, m)
  BY <1>1, <1>2, <1>3, <1>4, PrefixTransitive DEF HasWritten
<1> QED
  BY <1>5 DEF C

(* And everything, if no call that claims to write follows.                *)
LEMMA ClaimedAll ==
  ASSUME NEW p \in DOMAIN Programs, NEW i \in 1..(Len(Programs[p]) + 1), NEW k,
         NEW m \in Seq(Tokens), NEW broken, HasWritten(p, i, k, m, broken),
         \A j \in i..Len(Programs[p]) : Op(p, j) \notin Writes
  PROVE  IsPrefix(Messages(p, {"write"}), m)
<1>1. DOMAIN Programs[p] = 1..Len(Programs[p]) /\ Len(Programs[p]) \in Nat
  BY PartsAre
<1>2. i \in DOMAIN Programs[p] => Op(p, i) \notin Writes
  BY <1>1
<1>3. IsPrefix(Earlier(p, {"write"}, i), m)
  BY <1>2, ClaimedSoFar
<1>4. \A j \in i..Len(Programs[p]) : Op(p, j) \notin {"write"}
  BY DEF Writes
<1> QED
  BY <1>3, <1>4, EarlierIsPrefix

(* A program that has written more than it claims has come to the calls    *)
(* whose errors it ignores.                                                *)
LEMMA Beyond ==
  ASSUME NEW p \in DOMAIN Programs, Orderly(p), NEW i \in 1..(Len(Programs[p]) + 1), NEW k,
         NEW m \in Seq(Tokens), NEW broken, HasWritten(p, i, k, m, broken),
         i \in DOMAIN Programs[p] /\ Op(p, i) \in Writes => k \in 0..Len(Msg(p, i)),
         Len(m) > Len(Messages(p, {"write"}))
  PROVE  OnlyCareless(p, i)
<1> DEFINE n == Len(Programs[p])
<1>1. n \in Nat /\ DOMAIN Programs[p] = 1..n
  BY PartsAre
<1>2. CASE \E j \in 1..i : j \in DOMAIN Programs[p] /\ Op(p, j) \in Writes \ {"write"}
  <2>1. PICK j \in 1..i : j \in DOMAIN Programs[p] /\ Op(p, j) \in Writes \ {"write"}
    BY <1>2
  <2>2. Op(p, j) \in Careless /\ Later(p, j) \subseteq Careless
    BY <2>1 DEF Orderly, Op, Writes, Careless
  <2>3. ASSUME NEW l \in i..n PROVE Op(p, l) \in Careless
    <3>1. l \in DOMAIN Programs[p] /\ (l = j \/ l > j)
      BY <1>1, <2>1
    <3> QED
      BY <2>1, <2>2, <3>1, LaterCall
  <2> QED
    BY <2>3 DEF OnlyCareless
<1>3. CASE \A j \in 1..i : j \in DOMAIN Programs[p] => Op(p, j) \notin Writes \ {"write"}
  <2>1. \A j \in 1..(i - 1) : Op(p, j) \notin Writes \ {"write"}
    BY <1>1, <1>3
  <2>2. m = Written(p, i, k) /\ Earlier(p, {"write"}, i) = Earlier(p, Writes, i)
    BY <2>1, ClaimedIsWritten DEF HasWritten, CutShort
  <2>3. Messages(p, {"write"}) \in Seq(Tokens)
    BY EarlierIsPrefix
  <2>4. CASE i \in DOMAIN Programs[p] /\ Op(p, i) \in Writes
    <3>1. Op(p, i) = "write" /\ i \in 1..i /\ i + 1 \in 1..(n + 1)
      BY <1>1, <1>3, <2>4
    <3>2. Msg(p, i) \in Seq(Tokens) /\ k \in 0..Len(Msg(p, i))
      BY <2>4, PartsAre
    <3>3. SubSeq(Msg(p, i), 1, k) \in Seq(Tokens) /\ Len(SubSeq(Msg(p, i), 1, k)) = k
      BY <3>2
    <3>4. m = Earlier(p, {"write"}, i) \o SubSeq(Msg(p, i), 1, k)
      BY <2>2, <2>4 DEF Written
    <3>5. Earlier(p, {"write"}, i + 1) = Earlier(p, {"write"}, i) \o Msg(p, i)
      BY <2>4, <3>1, EarlierNext
    <3>6. /\ Earlier(p, {"write"}, i) \in Seq(Tokens)
          /\ Earlier(p, {"write"}, i + 1) \in Seq(Tokens)
      BY <3>1, EarlierType
    <3>7. Len(m) = Len(Earlier(p, {"write"}, i)) + k
      BY <3>3, <3>4, <3>6, ConcatElements
    <3>8. Len(Earlier(p, {"write"}, i + 1)) = Len(Earlier(p, {"write"}, i)) + Len(Msg(p, i))
      BY <3>2, <3>5, <3>6, ConcatElements
    <3>9. Len(Earlier(p, {"write"}, i + 1)) <= Len(Messages(p, {"write"}))
      BY <2>3, <3>1, <3>6, EarlierIsPrefix, PrefixElements
    <3>10. /\ Len(Earlier(p, {"write"}, i)) \in Nat /\ Len(Msg(p, i)) \in Nat
           /\ Len(Messages(p, {"write"})) \in Nat
      BY <2>3, <3>2, <3>6
    <3> QED
      BY <3>2, <3>7, <3>8, <3>9, <3>10
  <2>5. CASE ~ (i \in DOMAIN Programs[p] /\ Op(p, i) \in Writes)
    <3>1. m = Earlier(p, {"write"}, i)
      BY <2>2, <2>5 DEF Written
    <3>2. Len(m) <= Len(Messages(p, {"write"}))
      BY <2>3, <3>1, EarlierIsPrefix, PrefixElements
    <3> QED
      BY <2>3, <3>2
  <2> QED
    BY <2>4, <2>5
<1> QED
  BY <1>2, <1>3

(* A call that reads by number, or up to a line feed, has what it waits    *)
(* for when all of that has arrived.                                       *)
LEMMA AllArrived ==
  ASSUME NEW p \in DOMAIN Programs, Orderly(p), NEW i \in DOMAIN Programs[p],
         NEW b \in Seq(Tokens), NEW m \in Seq(Tokens), NEW says \in Seq(Tokens),
         HasReceived(p, i, b, m), IsPrefix(m, says),
         IsPrefix(Messages(p, Reads), says) \/ IsPrefix(says, Messages(p, Reads)),
         Len(m) = Len(Earlier(p, Reads, i)) + Len(b),
         Op(p, i) \in {"readSize", "readUntil"},
         Len(Earlier(p, Reads, i + 1)) <= Len(m)
  PROVE  /\ Len(Msg(p, i)) <= Len(b)
         /\ Op(p, i) = "readUntil" => Contains(b, "LF")
<1> DEFINE R == Earlier(p, Reads, i)
           S == Earlier(p, Reads, i + 1)
           line == Msg(p, i)
           awaits == Messages(p, Reads)
<1>1. i \in 1..(Len(Programs[p]) + 1) /\ i + 1 \in 1..(Len(Programs[p]) + 1)
  <2>1. Len(Programs[p]) \in Nat /\ DOMAIN Programs[p] = 1..Len(Programs[p])
    BY PartsAre
  <2> QED
    BY <2>1
<1>2. R \in Seq(Tokens) /\ S \in Seq(Tokens) /\ line \in Seq(Tokens) /\ awaits \in Seq(Tokens)
  BY <1>1, EarlierType, EarlierIsPrefix, PartsAre
<1>3. S = R \o line
  BY EarlierNext DEF Reads
<1>4. IsPrefix(S, awaits)
  BY <1>1, EarlierIsPrefix
<1>5. IsPrefix(awaits, says) \/ IsPrefix(says, awaits)
  OBVIOUS
<1>6. Len(m) = Len(R) + Len(b) /\ Len(S) <= Len(m)
  OBVIOUS
<1>7. \A k \in 1..Len(b) : b[k] = m[Len(m) - Len(b) + k]
  BY DEF HasReceived
<1>8. Op(p, i) = "readUntil" => \E k \in 1..Len(line) : line[k] = "LF"
  <2>1. DOMAIN line = 1..Len(line)
    BY <1>2
  <2> QED
    BY <2>1 DEF Orderly, Op, Msg
<1> HIDE DEF R, S, line, awaits
<1>9. Len(S) = Len(R) + Len(line) /\ \A k \in 1..Len(line) : S[Len(R) + k] = line[k]
  BY <1>2, <1>3, ConcatElements
<1>10. Len(R) \in Nat /\ Len(S) \in Nat /\ Len(line) \in Nat /\ Len(b) \in Nat /\ Len(m) \in Nat
  BY <1>2
<1>11. Len(line) <= Len(b)
  BY <1>6, <1>9, <1>10
<1>12. ASSUME Op(p, i) = "readUntil" PROVE Contains(b, "LF")
  <2>1. PICK k \in 1..Len(line) : line[k] = "LF"
    BY <1>8, <1>12
  <2>2. /\ k \in 1..Len(b) /\ Len(R) + k \in 1..Len(S) /\ Len(R) + k \in 1..Len(m)
        /\ Len(m) - Len(b) + k = Len(R) + k
    <3>1. k \in Nat /\ 1 <= k /\ k <= Len(line)
      BY <1>10
    <3>2. k <= Len(b) /\ Len(R) + k <= Len(S) /\ Len(R) + k <= Len(m)
      BY <1>6, <1>9, <1>10, <1>11, <3>1
    <3>3. Len(m) - Len(b) + k = Len(R) + k
      <4>1. \A x, y, z \in Nat : z = x + y => z - y + k = x + k
        BY <3>1
      <4> QED
        BY <1>6, <1>10, <4>1
    <3> QED
      BY <1>10, <3>1, <3>2, <3>3
  <2>3. PICK q \in 1..Len(m) : /\ q = Len(R) + k /\ q \in 1..Len(S)
                               /\ b[k] = m[q] /\ S[q] = "LF"
    BY <1>7, <1>9, <2>1, <2>2
  <2>4. Len(m) <= Len(says) /\ m[q] = says[q] /\ q \in 1..Len(says)
    BY PrefixElements
  <2>5. Len(S) <= Len(awaits) /\ S[q] = awaits[q] /\ q \in 1..Len(awaits)
    BY <1>2, <1>4, <2>3, PrefixElements
  <2>6. awaits[q] = says[q]
    <3>1. CASE IsPrefix(awaits, says)
      BY <1>2, <2>5, <3>1, PrefixElements
    <3>2. CASE IsPrefix(says, awaits)
      BY <1>2, <2>4, <3>2, PrefixElements
    <3> QED
      BY <1>5, <3>1, <3>2
  <2>7. b[k] = "LF"
    BY <2>3, <2>4, <2>5, <2>6
  <2> QED
    BY <2>2, <2>7 DEF Contains
<1> QED
  BY <1>11, <1>12 DEF line

-------------------------------------------------------------------------------
(* Partners.                                                               *)
LEMMA PartnersAre ==
  ASSUME TypeOK, program["server"] # "netcat", NEW s \in Sides
  PROVE  /\ program[s] # "netcat" /\ Orderly(program[s])
         /\ Partnered => /\ ~ Refuses(program[s])
                         /\ Whole(s) = Awaits(Other(s)) /\ Awaits(s) = Whole(Other(s))
<1>1. program \in Pairs
  BY DEF TypeOK
<1>2. program["client"] # "netcat"
  BY <1>1, PairsAssumption
<1>3. Other(s) \in Sides /\ Other(Other(s)) = s
  BY SidesAre
<1>4. Partnered => /\ ~ Refuses(program[s])
                   /\ Whole(s) = Awaits(Other(s)) /\ Awaits(s) = Whole(Other(s))
  BY <1>1, <1>3, AgreementAssumption DEF Partnered, Whole, Awaits
<1>5. Orderly(program[s])
  BY <1>1, AgreementAssumption
<1> QED
  BY <1>2, <1>4, <1>5 DEF Sides

(* A call whose message has arrived returns.                               *)
LEMMA ArrivedIsRead ==
  ASSUME IInv, AInv, NEW s \in Sides, At(s, {"readSize", "readUntil"}), Orderly(program[s]),
         Len(Earlier(program[s], Reads, pc[s] + 1)) <= Len(received[s])
  PROVE  HasRead(s)
<1> DEFINE p == program[s]
           i == pc[s]
<1>1. TypeOK /\ ReceivedOK(s) /\ BufferOK(s) /\ Other(s) \in Sides
  BY SidesAre DEF IInv, AInv
<1>2. /\ Running(s) /\ i \in DOMAIN Programs[p] /\ p \in DOMAIN Programs
      /\ Op(p, i) \in {"readSize", "readUntil"}
      /\ Call(s).op = Op(p, i) /\ Call(s).msg = Msg(p, i)
      /\ buffer[s] \in Seq(Tokens) /\ received[s] \in Seq(Tokens)
      /\ Message(program, Other(s)) \in Seq(Tokens)
  BY <1>1, AtCall, Types
<1>3. BySize(p, i)
  BY <1>2, ReadsBySize
<1>4. /\ Len(received[s]) = Len(Earlier(p, Reads, i)) + Len(buffer[s])
      /\ HasReceived(p, i, buffer[s], received[s])
  BY <1>1, <1>2, <1>3 DEF BufferOK, ReceivedOK
<1>5. /\ Len(Msg(p, i)) <= Len(buffer[s])
      /\ Op(p, i) = "readUntil" => Contains(buffer[s], "LF")
  <2>1. /\ IsPrefix(received[s], Message(program, Other(s)))
        /\ \/ IsPrefix(Messages(p, Reads), Message(program, Other(s)))
           \/ IsPrefix(Message(program, Other(s)), Messages(p, Reads))
    BY ReceivedIsPrefix
  <2> QED
    BY <1>2, <1>4, <2>1, AllArrived
<1>6. Op(p, i) = "readSize" => Len(buffer[s]) = Len(Msg(p, i))
  <2>1. Op(p, i) = "readSize" => At(s, {"readSize"})
    BY <1>2 DEF At
  <2>2. Op(p, i) = "readSize" => Len(buffer[s]) <= Len(Msg(p, i))
    BY <1>1, <1>2, <2>1 DEF TypeOK
  <2>3. Len(Msg(p, i)) \in Nat /\ Len(buffer[s]) \in Nat
    BY <1>2, PartsAre
  <2> QED
    BY <1>5, <2>2, <2>3
<1> QED
  BY <1>2, <1>5, <1>6 DEF HasRead

(* When nothing is on its way all that was sent has arrived.               *)
LEMMA PipeIsEmpty ==
  ASSUME IInv, NEW s \in Sides, pipe[Other(s)] = <<>>, ~ reset
  PROVE  received[s] = sent[Other(s)]
<1>1. TypeOK /\ Other(s) \in Sides /\ Other(Other(s)) = s /\ PipeOK(Other(s))
  BY SidesAre DEF IInv
<1>2. received[s] \in Seq(Tokens) /\ received[s] \o <<>> = sent[Other(s)]
  BY <1>1, Types DEF PipeOK
<1>3. received[s] \o <<>> = received[s]
  BY <1>2
<1> QED
  BY <1>2, <1>3

(* What s does not read of its partner is more than it claims, so that the *)
(* partner cannot fail any more.                                           *)
LEMMA UnreadIsCareless ==
  ASSUME IInv, Partnered, NEW s \in Sides, IsPrefix(Awaits(s), received[s]),
         pipe[Other(s)] # <<>>, Running(Other(s))
  PROVE  OnlyCareless(program[Other(s)], pc[Other(s)])
<1> DEFINE o == Other(s)
           p == program[o]
           i == pc[o]
<1>1. TypeOK /\ o \in Sides /\ Other(o) = s /\ SentOK(o) /\ PipeOK(o)
  BY SidesAre DEF IInv
<1>2. /\ p \in DOMAIN Programs /\ i \in 1..(Len(Programs[p]) + 1)
      /\ sent[o] \in Seq(Tokens) /\ received[s] \in Seq(Tokens) /\ pipe[o] \in Seq(Tokens)
      /\ Messages(p, {"write"}) \in Seq(Tokens)
      /\ Len(Programs[p]) \in Nat /\ DOMAIN Programs[p] = 1..Len(Programs[p])
  BY <1>1, Types
<1>3. Orderly(p) /\ Awaits(s) = Messages(p, {"write"})
  BY <1>1, PartnersAre DEF Partnered, Whole
<1>4. HasWritten(p, i, total[o], sent[o], reset)
  BY <1>1 DEF SentOK
<1>5. i \in DOMAIN Programs[p] /\ Op(p, i) \in Writes => total[o] \in 0..Len(Msg(p, i))
  <2>1. ASSUME i \in DOMAIN Programs[p], Op(p, i) \in Writes PROVE At(o, Writes)
    BY <1>2, <2>1 DEF At, Call, Op
  <2> QED
    BY <1>1, <2>1, AtCall
<1>6. Len(sent[o]) > Len(Messages(p, {"write"}))
  <2>1. /\ received[s] \o pipe[o] \in Seq(Tokens)
        /\ Len(received[s] \o pipe[o]) = Len(received[s]) + Len(pipe[o])
    BY <1>2, ConcatElements
  <2>2. Len(received[s] \o pipe[o]) <= Len(sent[o])
    BY <1>1, <1>2, <2>1, PrefixElements DEF PipeOK
  <2>3. Len(Messages(p, {"write"})) <= Len(received[s])
    BY <1>2, <1>3, PrefixElements
  <2>4. /\ Len(pipe[o]) \in Nat /\ Len(pipe[o]) # 0 /\ Len(received[s]) \in Nat
        /\ Len(sent[o]) \in Nat /\ Len(Messages(p, {"write"})) \in Nat
    BY <1>2
  <2>5. Len(received[s]) + Len(pipe[o]) <= Len(sent[o])
    BY <2>1, <2>2, Zenon
  <2>6. \A a, b, c, d \in Nat : b # 0 /\ a + b <= c /\ d <= a => c > d
    OBVIOUS
  <2> QED
    BY <2>3, <2>4, <2>5, <2>6, Zenon
<1> QED
  BY <1>2, <1>3, <1>4, <1>5, <1>6, Beyond

-------------------------------------------------------------------------------
(* The invariant holds initially, and every step preserves it.             *)
LEMMA InitAInv == Init => AInv
<1> SUFFICES ASSUME Init PROVE AInv
  OBVIOUS
<1>1. ASSUME NEW s \in Sides
      PROVE  ThrowOK(s) /\ SuccessOK(s) /\ BufferOK(s) /\ StreamOK(s) /\ PartnerOK(s)
  <2>1. /\ pc[s] = 1 /\ buffer[s] = <<>> /\ received[s] = <<>> /\ result[s] = "running"
        /\ ended = {} /\ reset = FALSE /\ program \in Pairs
    BY <1>1 DEF Init
  <2>2. program[s] \in DOMAIN Programs
    BY <2>1, MessageType
  <2>3. Earlier(program[s], Reads, 1) = <<>>
    BY <2>2, EarlierNone
  <2>4. 1..(pc[s] - 1) = {}
    BY <2>1
  <2>5. BufferOK(s)
    BY <2>1, <2>3 DEF BufferOK
  <2> QED
    BY <2>1, <2>4, <2>5 DEF ThrowOK, SuccessOK, StreamOK, HasShutDown, PartnerOK
<1> QED
  BY <1>1 DEF AInv

(* A side that does not move.                                              *)
LEMMA SideKept ==
  ASSUME AInv, NEW t \in Sides, program' = program, pc'[t] = pc[t], buffer'[t] = buffer[t],
         sent'[t] = sent[t], received'[t] = received[t], result'[t] = result[t],
         t \in ended' <=> t \in ended, reset => reset',
         Partnered /\ Running(t) /\ reset' /\ ~ reset => OnlyCareless(program[t], pc[t])
  PROVE  /\ ThrowOK(t)' /\ SuccessOK(t)' /\ BufferOK(t)' /\ StreamOK(t)' /\ PartnerOK(t)'
<1>1. ThrowOK(t) /\ SuccessOK(t) /\ BufferOK(t) /\ StreamOK(t) /\ PartnerOK(t)
  BY DEF AInv
<1>2. /\ Running(t)' <=> Running(t)
      /\ At(t, Reads)' <=> At(t, Reads)
      /\ Partnered' <=> Partnered
      /\ Whole(t)' = Whole(t) /\ Awaits(t)' = Awaits(t)
  BY DEF Running, At, Call, Partnered, Whole, Awaits
<1>3. ThrowOK(t)'
  BY <1>1, <1>2 DEF ThrowOK
<1>4. SuccessOK(t)'
  BY <1>1, <1>2 DEF SuccessOK
<1>5. BufferOK(t)'
  BY <1>1, <1>2 DEF BufferOK
<1>6. StreamOK(t)'
  BY <1>1, <1>2 DEF StreamOK
<1>7. PartnerOK(t)'
  BY <1>1, <1>2 DEF PartnerOK
<1> QED
  BY <1>3, <1>4, <1>5, <1>6, <1>7

(* A part is sent or received: s goes on with the call it is at.           *)
LEMMA MoveAInv ==
  ASSUME IInv, AInv, NEW s \in Sides, result[s] = "running",
         UNCHANGED <<program, pc, result, reset>>,
         buffer'[Other(s)] = buffer[Other(s)], sent'[Other(s)] = sent[Other(s)],
         received'[Other(s)] = received[Other(s)],
         ended' = ended \/ (ended' = ended \cup {s} /\ ~ Partnered),
         sent'[s] \in Seq(Tokens), IsPrefix(sent[s], sent'[s]),
         BufferOK(s)'
  PROVE  AInv'
<1>1. ThrowOK(s) /\ StreamOK(s) /\ PartnerOK(s) /\ TypeOK
  BY DEF AInv, IInv
<1>2. /\ Other(s) \in Sides /\ Other(s) # s /\ \A t \in Sides : t = s \/ t = Other(s)
  BY SidesAre
<1>3. Running(s)' <=> Running(s)
  BY DEF Running
<1>4. ThrowOK(s)' /\ StreamOK(s)' /\ SuccessOK(s)'
  BY <1>1, <1>3 DEF ThrowOK, StreamOK, SuccessOK
<1>5. PartnerOK(s)'
  <2>1. (Partnered' <=> Partnered) /\ Whole(s)' = Whole(s)
    BY DEF Partnered, Whole
  <2>2. ASSUME Partnered, s \in ended' PROVE IsPrefix(Whole(s), sent'[s])
    <3>1. IsPrefix(Whole(s), sent[s])
      BY <1>1, <2>2 DEF PartnerOK
    <3>2. Whole(s) \in Seq(Tokens) /\ sent[s] \in Seq(Tokens)
      BY <1>1, Types DEF Whole
    <3> QED
      BY <3>1, <3>2, PrefixTransitive
  <2> QED
    BY <1>1, <1>3, <2>1, <2>2 DEF PartnerOK
<1>6. /\ ThrowOK(Other(s))' /\ SuccessOK(Other(s))' /\ BufferOK(Other(s))'
      /\ StreamOK(Other(s))' /\ PartnerOK(Other(s))'
  <2>1. Other(s) \in ended' <=> Other(s) \in ended
    BY <1>2
  <2> QED
    BY <1>2, <2>1, SideKept
<1> QED
  BY <1>2, <1>4, <1>5, <1>6 DEF AInv

(* A call is done.                                                         *)
LEMMA AdvanceAInv ==
  ASSUME IInv, AInv, NEW s \in Sides, NEW ops, At(s, ops), Advance(s),
         UNCHANGED <<program, transfer, reset>>, Call(s).op # "throw",
         ended' = IF Call(s).op \in {"shutdownSend", "shutdownBoth"} THEN ended \cup {s} ELSE ended,
         Call(s).op = "readSize" => Len(buffer[s]) = Len(Call(s).msg)
  PROVE  AInv'
<1> DEFINE p == program[s]
           i == pc[s]
<1>1. ThrowOK(s) /\ BufferOK(s) /\ StreamOK(s) /\ PartnerOK(s) /\ TypeOK /\ SentOK(s)
  BY DEF AInv, IInv
<1>2. /\ Other(s) \in Sides /\ Other(s) # s /\ \A t \in Sides : t = s \/ t = Other(s)
  BY SidesAre
<1>3. /\ Running(s) /\ result[s] = "running" /\ p # "netcat" /\ p \in DOMAIN Programs
      /\ i \in DOMAIN Programs[p] /\ Len(Programs[p]) \in Nat
      /\ DOMAIN Programs[p] = 1..Len(Programs[p]) /\ i \in 1..(Len(Programs[p]) + 1)
      /\ Call(s).op = Op(p, i) /\ Call(s).msg = Msg(p, i) /\ Msg(p, i) \in Seq(Tokens)
      /\ Op(p, i) \in Writes => total[s] \in 0..Len(Msg(p, i))
      /\ received[s] \in Seq(Tokens) /\ sent[s] \in Seq(Tokens) /\ buffer[s] \in Seq(Tokens)
  <2>1. p \in DOMAIN Programs /\ i \in DOMAIN Programs[p]
    BY <1>1, AtCall, Types
  <2>2. Msg(p, i) \in Seq(Tokens)
    BY <2>1, PartsAre
  <2> QED
    BY <1>1, <2>2, AtCall, Types
<1>4. /\ program' = program /\ pc'[s] = i + 1 /\ buffer'[s] = <<>> /\ result' = result
      /\ sent' = sent /\ received' = received
      /\ pc'[Other(s)] = pc[Other(s)] /\ buffer'[Other(s)] = buffer[Other(s)]
  BY <1>1, <1>2 DEF Advance, transfer, TypeOK
<1>5. (Running(s)' <=> Running(s)) /\ (Partnered' <=> Partnered) /\ Whole(s)' = Whole(s)
  BY <1>4 DEF Running, Partnered, Whole
<1>6. \A j \in 1..(pc'[s] - 1) : j = i \/ j \in 1..(i - 1)
  BY <1>3, <1>4
<1>7. ThrowOK(s)' /\ SuccessOK(s)'
  <2>1. \A j \in 1..(pc'[s] - 1) : Op(p, j) # "throw"
    BY <1>1, <1>3, <1>6 DEF ThrowOK
  <2> QED
    BY <1>3, <1>4, <2>1 DEF ThrowOK, SuccessOK
<1>8. BufferOK(s)'
  <2>1. ASSUME BySize(p, i + 1) PROVE Len(received[s]) = Len(Earlier(p, Reads, i + 1))
    <3>1. BySize(p, i) /\ (Op(p, i) \in Reads => Op(p, i) = "readSize")
      <4>1. i \in 1..((i + 1) - 1) /\ 1..(i - 1) \subseteq 1..((i + 1) - 1)
        BY <1>3
      <4> QED
        BY <2>1, <4>1 DEF BySize
    <3>2. Len(received[s]) = Len(Earlier(p, Reads, i)) + Len(buffer[s])
      BY <1>1, <1>3, <3>1 DEF BufferOK
    <3>3. Earlier(p, Reads, i) \in Seq(Tokens)
      BY <1>3, EarlierType
    <3>4. Earlier(p, Reads, i + 1) =
            Earlier(p, Reads, i) \o (IF Op(p, i) \in Reads THEN Msg(p, i) ELSE <<>>)
      <4>1. p \in DOMAIN Programs /\ i \in DOMAIN Programs[p]
        BY <1>3
      <4> HIDE DEF p, i
      <4> QED
        BY <4>1, EarlierNext
    <3>5. CASE Op(p, i) \in Reads
      <4>1. Len(buffer[s]) = Len(Msg(p, i))
        BY <1>3, <3>1, <3>5
      <4>2. Len(Earlier(p, Reads, i + 1)) = Len(Earlier(p, Reads, i)) + Len(Msg(p, i))
        BY <1>3, <3>3, <3>4, <3>5, ConcatElements
      <4> QED
        BY <3>2, <4>1, <4>2
    <3>6. CASE Op(p, i) \notin Reads
      <4>1. ~ At(s, Reads)
        BY <1>3, <3>6 DEF At
      <4>2. Len(buffer[s]) = 0
        BY <1>1, <1>3, <4>1 DEF BufferOK
      <4>3. Earlier(p, Reads, i + 1) = Earlier(p, Reads, i)
        BY <3>3, <3>4, <3>6
      <4>4. Len(Earlier(p, Reads, i)) \in Nat
        BY <3>3
      <4> QED
        BY <3>2, <4>2, <4>3, <4>4
    <3> QED
      BY <3>5, <3>6
  <2>2. Earlier(p, Reads, i + 1) \in Seq(Tokens)
    <3>1. i + 1 \in 1..(Len(Programs[p]) + 1)
      BY <1>3
    <3> QED
      BY <1>3, <3>1, EarlierType
  <2>3. BySize(p, i + 1) => Len(received[s]) = Len(Earlier(p, Reads, i + 1)) + Len(<<>>)
    <3>1. Len(Earlier(p, Reads, i + 1)) + 0 = Len(Earlier(p, Reads, i + 1)) /\ Len(<<>>) = 0
      BY <2>2
    <3> QED
      BY <2>1, <3>1
  <2> QED
    BY <1>4, <2>3 DEF BufferOK
<1>9. StreamOK(s)'
  <2>1. HasShutDown(p, i + 1) => HasShutDown(p, i) \/ s \in ended'
    BY <1>3, <1>4, <1>6 DEF HasShutDown
  <2> QED
    BY <1>1, <1>3, <1>4, <1>5, <2>1 DEF StreamOK
<1>10. PartnerOK(s)'
  <2>1. ASSUME Partnered, s \in ended' PROVE IsPrefix(Whole(s), sent[s])
    <3>1. CASE s \in ended
      BY <1>1, <2>1, <3>1 DEF PartnerOK
    <3>2. CASE Op(p, i) \in {"shutdownSend", "shutdownBoth"}
      <4>1. Orderly(p)
        BY <1>1, <2>1, PartnersAre DEF Partnered
      <4>2. \A j \in i..Len(Programs[p]) : Op(p, j) \notin Writes
        <5> TAKE j \in i..Len(Programs[p])
        <5>1. j \in DOMAIN Programs[p] /\ (j = i \/ j > i)
          BY <1>3
        <5>2. Later(p, i) \cap Writes = {}
          BY <1>3, <3>2, <4>1 DEF Orderly, Op
        <5> QED
          BY <1>3, <3>2, <5>1, <5>2, LaterCall DEF Writes
      <4>3. HasWritten(p, i, total[s], sent[s], reset)
        BY <1>1, <1>3 DEF SentOK
      <4> QED
        BY <1>3, <4>2, <4>3, ClaimedAll DEF Whole
    <3> QED
      BY <1>3, <2>1, <3>1, <3>2
  <2>2. ASSUME OnlyCareless(p, i) PROVE OnlyCareless(p, i + 1)
    BY <1>3, <2>2 DEF OnlyCareless
  <2> QED
    BY <1>1, <1>3, <1>4, <1>5, <2>1, <2>2 DEF PartnerOK
<1>11. /\ ThrowOK(Other(s))' /\ SuccessOK(Other(s))' /\ BufferOK(Other(s))'
       /\ StreamOK(Other(s))' /\ PartnerOK(Other(s))'
  <2>1. Other(s) \in ended' <=> Other(s) \in ended
    BY <1>2
  <2> QED
    BY <1>2, <1>4, <2>1, SideKept
<1> QED
  BY <1>2, <1>7, <1>8, <1>9, <1>10, <1>11 DEF AInv

(* A reset by s, which has read what it awaits, finds the other side where *)
(* nothing can fail.                                                       *)
LEMMA ResetAInv ==
  ASSUME IInv, AInv, NEW s \in Sides, pipe[Other(s)] # <<>>, Partnered, Running(Other(s)),
         result[s] # "running" \/ IsPrefix(Awaits(s), received[s])
  PROVE  OnlyCareless(program[Other(s)], pc[Other(s)])
<1>1. TypeOK /\ SuccessOK(s) /\ PartnerOK(s)
  BY DEF IInv, AInv
<1>2. IsPrefix(Awaits(s), received[s])
  BY <1>1 DEF TypeOK, SuccessOK, PartnerOK
<1> QED
  BY <1>2, UnreadIsCareless

(* A program ends.                                                         *)
LEMMA LeaveAInv ==
  ASSUME IInv, AInv, NEW s \in Sides, NEW outcome \in {"ok", "error"},
         result[s] = "running", Leave(s, outcome), UNCHANGED <<program, progress, transfer>>,
         outcome = "error" => ~ Partnered,
         outcome = "ok" => /\ ~ Refuses(program[s])
                           /\ IsPrefix(Whole(s), sent[s]) /\ IsPrefix(Awaits(s), received[s])
  PROVE  AInv'
<1>1. ThrowOK(s) /\ StreamOK(s) /\ PartnerOK(s) /\ TypeOK
  BY DEF AInv, IInv
<1>2. /\ Other(s) \in Sides /\ Other(s) # s /\ \A t \in Sides : t = s \/ t = Other(s)
  BY SidesAre
<1>3. /\ program' = program /\ pc' = pc /\ buffer' = buffer /\ sent' = sent
      /\ received' = received /\ result'[s] = outcome /\ result'[Other(s)] = result[Other(s)]
  BY <1>1, <1>2 DEF Leave, progress, transfer, TypeOK
<1>4. \/ ended' = ended \cup {s} /\ reset' = reset
      \/ pipe[Other(s)] # <<>> /\ ended' = ended /\ reset' = TRUE
  BY DEF Leave, CloseSocket, ResetBy
<1>5. ~ Running(s)' /\ (Partnered' <=> Partnered)
      /\ Whole(s)' = Whole(s) /\ Awaits(s)' = Awaits(s)
  BY <1>3 DEF Running, Partnered, Whole, Awaits
<1>6. ThrowOK(s)' /\ SuccessOK(s)' /\ BufferOK(s)'
  BY <1>3, <1>5 DEF ThrowOK, SuccessOK, BufferOK
<1>7. StreamOK(s)'
  BY <1>3, <1>4, <1>5 DEF StreamOK
<1>8. PartnerOK(s)'
  BY <1>1, <1>3, <1>5 DEF PartnerOK
<1>9. /\ ThrowOK(Other(s))' /\ SuccessOK(Other(s))' /\ BufferOK(Other(s))'
      /\ StreamOK(Other(s))' /\ PartnerOK(Other(s))'
  <2>1. Other(s) \in ended' <=> Other(s) \in ended
    BY <1>2, <1>4
  <2>2. ASSUME Partnered, Running(Other(s)), reset', ~ reset
        PROVE  OnlyCareless(program[Other(s)], pc[Other(s)])
    BY <1>4, <2>2, ResetAInv
  <2>3. reset => reset'
    BY <1>4
  <2> QED
    BY <1>2, <1>3, <2>1, <2>2, <2>3, SideKept
<1> QED
  BY <1>2, <1>6, <1>7, <1>8, <1>9 DEF AInv

LEMMA RefuseAInv ==
  ASSUME IInv, AInv, NEW s \in Sides, Refuse(s)
  PROVE  AInv'
<1>1. /\ Other(s) \in Sides /\ \A t \in Sides : t = s \/ t = Other(s)
  BY SidesAre
<1>2. /\ program' = program /\ pc' = pc /\ buffer' = buffer /\ sent' = sent
      /\ received' = received /\ result' = result /\ ended' = ended /\ reset' = TRUE
      /\ result[s] # "running" /\ pipe[Other(s)] # <<>>
  BY DEF Refuse, ResetBy, progress, transfer
<1>3. ASSUME NEW t \in Sides, Partnered, Running(t)
      PROVE  OnlyCareless(program[t], pc[t])
  <2>1. t = Other(s)
    BY <1>1, <1>2, <1>3 DEF Running
  <2> QED
    BY <1>2, <1>3, <2>1, ResetAInv
<1>4. ASSUME NEW t \in Sides
      PROVE  ThrowOK(t)' /\ SuccessOK(t)' /\ BufferOK(t)' /\ StreamOK(t)' /\ PartnerOK(t)'
  BY <1>2, <1>3, SideKept
<1> QED
  BY <1>4 DEF AInv

(* An error is not that of a partner.                                      *)
LEMMA FailAInv ==
  ASSUME IInv, AInv, NEW s \in Sides, result[s] = "running", Fail(s),
         UNCHANGED <<program, transfer>>, ~ Partnered
  PROVE  AInv'
<1>1. Leave(s, "error") /\ UNCHANGED <<program, progress, transfer>>
  BY DEF Fail
<1> QED
  BY <1>1, LeaveAInv

(* After a reset the call a partner is at cannot fail.                     *)
LEMMA CarelessNow ==
  ASSUME IInv, AInv, NEW s \in Sides, NEW ops, At(s, ops), reset, Partnered
  PROVE  Call(s).op \in Careless
<1>1. TypeOK /\ PartnerOK(s)
  BY DEF IInv, AInv
<1>2. /\ Running(s) /\ pc[s] \in DOMAIN Programs[program[s]] /\ Call(s).op = Op(program[s], pc[s])
      /\ Len(Programs[program[s]]) \in Nat
      /\ DOMAIN Programs[program[s]] = 1..Len(Programs[program[s]])
  BY <1>1, AtCall, Types
<1>3. pc[s] \in pc[s]..Len(Programs[program[s]])
  BY <1>2
<1> QED
  BY <1>1, <1>2, <1>3 DEF PartnerOK, OnlyCareless

-------------------------------------------------------------------------------
(* The steps.                                                              *)
LEMMA WritePartAInv ==
  ASSUME IInv, AInv, NEW s \in Sides, WritePart(s)
  PROVE  AInv'
<1>1. /\ IInv' /\ result[s] = "running" /\ IsPrefix(sent[s], sent'[s])
      /\ sent' = [sent EXCEPT ![s] = sent'[s]] /\ UNCHANGED <<program, received, result>>
  BY WritePartIInv
<1>2. /\ At(s, Writes) /\ pc' = pc /\ buffer' = buffer /\ reset' = reset /\ ended' = ended
  BY DEF WritePart, Put
<1>3. Other(s) \in Sides /\ Other(s) # s /\ TypeOK /\ BufferOK(s)
  BY SidesAre DEF IInv, AInv
<1>4. sent'[s] \in Seq(Tokens) /\ sent'[Other(s)] = sent[Other(s)]
  BY <1>1, <1>3 DEF IInv, TypeOK
<1>5. BufferOK(s)'
  BY <1>1, <1>2, <1>3 DEF BufferOK, Running, At, Call
<1> QED
  BY <1>1, <1>2, <1>3, <1>4, <1>5, MoveAInv

LEMMA ReadPartAInv ==
  ASSUME IInv, AInv, NEW s \in Sides, ReadPart(s)
  PROVE  AInv'
<1>1. TypeOK /\ BufferOK(s) /\ Other(s) \in Sides /\ Other(s) # s
  BY SidesAre DEF IInv, AInv
<1>2. PICK n \in 1..Len(pipe[Other(s)]) :
        /\ Take(s, n)
        /\ buffer' = [buffer EXCEPT ![s] = @ \o SubSeq(pipe[Other(s)], 1, n)]
  BY DEF ReadPart
<1>3. /\ At(s, Reads) /\ Running(s) /\ result[s] = "running"
      /\ UNCHANGED <<program, pc, total, result>>
  BY DEF ReadPart, Reading, At, Running
<1> DEFINE part == SubSeq(pipe[Other(s)], 1, n)
<1>4. /\ part \in Seq(Tokens) /\ received'[s] = received[s] \o part
      /\ received'[Other(s)] = received[Other(s)]
      /\ sent' = sent /\ ended' = ended /\ reset' = reset
  BY <1>1, <1>2, <1>3, TakeIs
<1>5. /\ buffer[s] \in Seq(Tokens) /\ received[s] \in Seq(Tokens) /\ sent[s] \in Seq(Tokens)
      /\ program[s] \in DOMAIN Programs /\ pc[s] \in 1..(Len(Programs[program[s]]) + 1)
  BY <1>1, Types
<1>6. buffer'[s] = buffer[s] \o part /\ buffer'[Other(s)] = buffer[Other(s)]
  BY <1>1, <1>2 DEF TypeOK
<1> HIDE DEF part
<1>7. BufferOK(s)'
  <2>1. At(s, Reads)'
    BY <1>3 DEF At, Running, Call
  <2>2. /\ Len(received'[s]) = Len(received[s]) + Len(part)
        /\ Len(buffer'[s]) = Len(buffer[s]) + Len(part)
    BY <1>4, <1>5, <1>6, ConcatElements
  <2>3. BySize(program[s], pc[s]) =>
          Len(received[s]) = Len(Earlier(program[s], Reads, pc[s])) + Len(buffer[s])
    BY <1>1, <1>3 DEF BufferOK
  <2>4. /\ Len(Earlier(program[s], Reads, pc[s])) \in Nat
        /\ Len(buffer[s]) \in Nat /\ Len(part) \in Nat
        /\ Len(received[s]) \in Nat /\ Len(received'[s]) \in Nat /\ Len(buffer'[s]) \in Nat
    <3>1. Earlier(program[s], Reads, pc[s]) \in Seq(Tokens)
      BY <1>5, EarlierType
    <3>2. received'[s] \in Seq(Tokens) /\ buffer'[s] \in Seq(Tokens)
      BY <1>4, <1>5, <1>6
    <3>3. \A m \in Seq(Tokens) : Len(m) \in Nat
      OBVIOUS
    <3> QED
      BY <1>4, <1>5, <3>1, <3>2, <3>3
  <2>5. BySize(program[s], pc[s]) =>
          Len(received'[s]) = Len(Earlier(program[s], Reads, pc[s])) + Len(buffer'[s])
    <3> DEFINE e == Len(Earlier(program[s], Reads, pc[s]))
               k == Len(part)
               b == Len(buffer[s])
               r == Len(received[s])
               c == Len(buffer'[s])
               q == Len(received'[s])
    <3>1. /\ e \in Nat /\ k \in Nat /\ b \in Nat /\ r \in Nat /\ c \in Nat /\ q \in Nat
          /\ q = r + k /\ c = b + k
      BY <2>2, <2>4
    <3>2. BySize(program[s], pc[s]) => r = e + b
      BY <2>3
    <3> HIDE DEF e, k, b, r, c, q
    <3>3. BySize(program[s], pc[s]) => q = e + c
      BY <3>1, <3>2
    <3> QED
      BY <3>3 DEF e, c, q
  <2> QED
    BY <1>3, <2>1, <2>5 DEF BufferOK
<1>8. IsPrefix(sent[s], sent'[s])
  BY <1>4, <1>5, PrefixTrivial
<1> QED
  BY <1>1, <1>3, <1>4, <1>5, <1>6, <1>7, <1>8, MoveAInv

LEMMA WriteReturnsAInv ==
  ASSUME IInv, AInv, NEW s \in Sides, WriteReturns(s)
  PROVE  AInv'
<1>1. /\ At(s, Writes) /\ Advance(s) /\ UNCHANGED <<program, transfer, reset>> /\ ended' = ended
      /\ Call(s).op \in Writes
  BY DEF WriteReturns, At, connection
<1> QED
  BY <1>1, AdvanceAInv DEF Writes

LEMMA WriteFailsAInv ==
  ASSUME IInv, AInv, NEW s \in Sides, WriteFails(s)
  PROVE  AInv'
<1>1. /\ At(s, Writes) /\ reset /\ UNCHANGED <<program, transfer>> /\ Call(s).op \in Writes
      /\ result[s] = "running"
  BY DEF WriteFails, At, Running
<1>2. CASE Call(s).op = "writeQuietly"
  <2>1. Advance(s) /\ UNCHANGED <<reset, ended>>
    BY <1>2 DEF WriteFails, connection
  <2> QED
    BY <1>1, <1>2, <2>1, AdvanceAInv
<1>3. CASE Call(s).op # "writeQuietly"
  <2>1. Fail(s)
    BY <1>3 DEF WriteFails
  <2>2. ~ Partnered
    BY <1>1, <1>3, CarelessNow DEF Careless, Writes
  <2> QED
    BY <1>1, <2>1, <2>2, FailAInv
<1> QED
  BY <1>2, <1>3

LEMMA ReadReturnsAInv ==
  ASSUME IInv, AInv, NEW s \in Sides, ReadReturns(s)
  PROVE  AInv'
<1>1. /\ At(s, Reads) /\ HasRead(s) /\ Advance(s) /\ UNCHANGED <<program, transfer, reset>>
      /\ ended' = ended
  BY DEF ReadReturns, connection
<1>2. \/ Call(s).op = "readSize" /\ Len(buffer[s]) = Len(Call(s).msg)
      \/ Call(s).op = "readUntil"
  BY <1>1 DEF HasRead
<1> QED
  BY <1>1, <1>2, AdvanceAInv

(* The stream of a partner ends only when the call has what it waits for.  *)
LEMMA ReadEndsAInv ==
  ASSUME IInv, AInv, NEW s \in Sides, ReadEnds(s)
  PROVE  AInv'
<1>1. /\ At(s, Reads) /\ ~ HasRead(s) /\ UNCHANGED <<program, transfer>>
      /\ Call(s).op \in Reads /\ result[s] = "running"
      /\ pipe[Other(s)] = <<>> /\ Other(s) \in ended /\ ~ reset
  BY DEF ReadEnds, Reading, At, Running
<1>2. CASE Call(s).op \in {"readToEnd", "drain", "drainFor"}
  <2>1. Advance(s) /\ UNCHANGED <<reset, ended>>
    BY <1>2 DEF ReadEnds, connection
  <2> QED
    BY <1>1, <1>2, <2>1, AdvanceAInv
<1>3. CASE Call(s).op \notin {"readToEnd", "drain", "drainFor"}
  <2>1. Fail(s)
    BY <1>3 DEF ReadEnds
  <2>2. ASSUME Partnered PROVE FALSE
    <3>1. At(s, {"readSize", "readUntil"})
      BY <1>1, <1>3 DEF At, Reads
    <3>2. TypeOK /\ Other(s) \in Sides /\ PartnerOK(Other(s))
      BY SidesAre DEF IInv, AInv
    <3>3. /\ program[s] \in DOMAIN Programs /\ pc[s] \in DOMAIN Programs[program[s]]
          /\ received[s] \in Seq(Tokens)
          /\ Awaits(s) \in Seq(Tokens)
          /\ Len(Programs[program[s]]) \in Nat
          /\ DOMAIN Programs[program[s]] = 1..Len(Programs[program[s]])
      BY <1>1, <3>2, AtCall, Types DEF Awaits
    <3>4. Orderly(program[s]) /\ Awaits(s) = Whole(Other(s))
      BY <2>2, <3>2, PartnersAre DEF Partnered
    <3>5. IsPrefix(Awaits(s), received[s])
      BY <1>1, <2>2, <3>2, <3>4, PipeIsEmpty DEF PartnerOK
    <3>6. pc[s] + 1 \in 1..(Len(Programs[program[s]]) + 1)
      BY <3>3
    <3>7. /\ Earlier(program[s], Reads, pc[s] + 1) \in Seq(Tokens)
          /\ IsPrefix(Earlier(program[s], Reads, pc[s] + 1), Awaits(s))
      BY <3>3, <3>6, EarlierType, EarlierIsPrefix DEF Awaits
    <3>8. Len(Earlier(program[s], Reads, pc[s] + 1)) <= Len(received[s])
      BY <3>3, <3>5, <3>7, PrefixTransitive, PrefixElements
    <3> QED
      BY <1>1, <3>1, <3>4, <3>8, ArrivedIsRead
  <2> QED
    BY <1>1, <2>1, <2>2, FailAInv
<1> QED
  BY <1>2, <1>3

LEMMA ReadFailsAInv ==
  ASSUME IInv, AInv, NEW s \in Sides, ReadFails(s)
  PROVE  AInv'
<1>1. /\ At(s, Reads) /\ UNCHANGED <<program, transfer>> /\ Call(s).op \in Reads
      /\ result[s] = "running" /\ reset
  BY DEF ReadFails, Reading, At, Running
<1>2. CASE Call(s).op \in {"drain", "drainFor"}
  <2>1. Advance(s) /\ UNCHANGED <<reset, ended>>
    BY <1>2 DEF ReadFails, connection
  <2> QED
    BY <1>1, <1>2, <2>1, AdvanceAInv
<1>3. CASE Call(s).op \notin {"drain", "drainFor"}
  <2>1. Fail(s)
    BY <1>3 DEF ReadFails
  <2>2. ~ Partnered
    BY <1>1, <1>3, CarelessNow DEF Careless, Reads
  <2> QED
    BY <1>1, <2>1, <2>2, FailAInv
<1> QED
  BY <1>2, <1>3

LEMMA ExpireAInv ==
  ASSUME IInv, AInv, NEW s \in Sides, Expire(s)
  PROVE  AInv'
<1>1. /\ At(s, {"drainFor"}) /\ Advance(s) /\ UNCHANGED <<program, transfer, reset>>
      /\ ended' = ended /\ Call(s).op = "drainFor"
  BY DEF Expire, At, connection
<1> QED
  BY <1>1, AdvanceAInv

LEMMA ShutdownAInv ==
  ASSUME IInv, AInv, NEW s \in Sides, Shutdown(s)
  PROVE  AInv'
<1>1. /\ At(s, {"shutdownSend", "shutdownBoth"}) /\ UNCHANGED <<program, transfer>>
      /\ Call(s).op \in {"shutdownSend", "shutdownBoth"} /\ result[s] = "running"
  BY DEF Shutdown, At, Running
<1>2. CASE ~ reset
  <2>1. Advance(s) /\ ended' = ended \cup {s} /\ UNCHANGED reset
    BY <1>2 DEF Shutdown
  <2> QED
    BY <1>1, <2>1, AdvanceAInv
<1>3. CASE reset
  <2>1. Fail(s)
    BY <1>3 DEF Shutdown
  <2>2. ~ Partnered
    BY <1>1, <1>3, CarelessNow DEF Careless
  <2> QED
    BY <1>1, <2>1, <2>2, FailAInv
<1> QED
  BY <1>2, <1>3

LEMMA RaiseErrorAInv ==
  ASSUME IInv, AInv, NEW s \in Sides, RaiseError(s)
  PROVE  AInv'
<1>1. At(s, {"throw"}) /\ Fail(s) /\ UNCHANGED <<program, transfer>> /\ result[s] = "running"
  BY DEF RaiseError, At, Running
<1>2. TypeOK
  BY DEF IInv
<1>3. pc[s] \in DOMAIN Programs[program[s]] /\ Op(program[s], pc[s]) = "throw"
  BY <1>1, <1>2, AtCall
<1>4. ~ Partnered
  BY <1>2, <1>3, PartnersAre DEF Partnered, Refuses, Op
<1> QED
  BY <1>1, <1>4, FailAInv

(* The last call is done: all that is claimed is written, all that is      *)
(* awaited is read, and nothing was refused.                               *)
LEMMA ReturnAInv ==
  ASSUME IInv, AInv, NEW s \in Sides, Return(s)
  PROVE  AInv'
<1> DEFINE p == program[s]
<1>1. TypeOK /\ SentOK(s) /\ ReceivedOK(s) /\ ThrowOK(s)
  BY DEF IInv, AInv
<1>2. /\ Running(s) /\ result[s] = "running" /\ Leave(s, "ok")
      /\ UNCHANGED <<program, progress, transfer>> /\ pc[s] > Len(Programs[p])
  BY DEF Return, Running
<1>3. /\ p \in DOMAIN Programs /\ Len(Programs[p]) \in Nat
      /\ DOMAIN Programs[p] = 1..Len(Programs[p]) /\ pc[s] \in 1..(Len(Programs[p]) + 1)
      /\ sent[s] \in Seq(Tokens) /\ received[s] \in Seq(Tokens) /\ buffer[s] \in Seq(Tokens)
  BY <1>1, Types
<1>4. pc[s] = Len(Programs[p]) + 1 /\ 1..(pc[s] - 1) = DOMAIN Programs[p]
  BY <1>2, <1>3
<1>5. /\ HasWritten(p, pc[s], total[s], sent[s], reset)
      /\ HasReceived(p, pc[s], buffer[s], received[s])
  BY <1>1, <1>2 DEF SentOK, ReceivedOK
<1>6. IsPrefix(Whole(s), sent[s])
  BY <1>3, <1>4, <1>5, WrittenAll DEF Whole
<1>7. IsPrefix(Awaits(s), received[s])
  <2>1. Message(program, Other(s)) \in Seq(Tokens)
    BY <1>1, SidesAre, Types
  <2>2. /\ IsPrefix(received[s], Message(program, Other(s)))
        /\ \/ IsPrefix(Messages(p, Reads), Message(program, Other(s)))
           \/ IsPrefix(Message(program, Other(s)), Messages(p, Reads))
    BY ReceivedIsPrefix
  <2> QED
    BY <1>3, <1>4, <1>5, <2>1, <2>2, ReceivedAll DEF Awaits
<1>8. ~ Refuses(p)
  BY <1>1, <1>2, <1>4 DEF ThrowOK, Refuses, Op
<1> QED
  BY <1>2, <1>6, <1>7, <1>8, LeaveAInv

(* netcat is nobody's partner.                                             *)
LEMMA NetcatIsNone ==
  ASSUME IInv, AInv, Netcat
  PROVE  /\ TypeOK /\ "server" \in Sides /\ result["server"] = "running"
         /\ ~ Running("server") /\ ~ Partnered
         /\ sent["server"] \in Seq(Tokens) /\ received["server"] \in Seq(Tokens)
         /\ Other("server") \in Sides /\ Other("server") # "server"
<1>1. TypeOK /\ program["server"] = "netcat" /\ result["server"] = "running"
  BY DEF IInv, Netcat
<1>2. "server" \in Sides /\ ~ Running("server") /\ ~ Partnered
  BY <1>1, NetcatIs DEF Partnered
<1> QED
  BY <1>1, <1>2, Types, SidesAre

LEMMA NetcatStepAInv ==
  ASSUME IInv, AInv, NetcatStep
  PROVE  AInv'
<1>1. Netcat
  BY DEF NetcatStep, NetcatSends, NetcatReceives, NetcatEndsStream, NetcatGoes
<1>2. /\ TypeOK /\ "server" \in Sides /\ result["server"] = "running"
      /\ ~ Running("server") /\ ~ Partnered
      /\ sent["server"] \in Seq(Tokens) /\ received["server"] \in Seq(Tokens)
      /\ Other("server") \in Sides /\ Other("server") # "server"
  BY <1>1, NetcatIsNone
<1>3. program' = program /\ result' = result => BufferOK("server")'
  BY <1>2 DEF BufferOK, Running
<1>4. CASE NetcatSends
  <2>1. /\ IInv' /\ IsPrefix(sent["server"], sent'["server"])
        /\ sent' = [sent EXCEPT !["server"] = sent'["server"]]
        /\ UNCHANGED <<program, received, result>>
    BY <1>4, NetcatSendsIInv
  <2>2. sent'["server"] \in Seq(Tokens) /\ sent'[Other("server")] = sent[Other("server")]
    BY <1>2, <2>1 DEF IInv, TypeOK
  <2>3. UNCHANGED <<pc, buffer, ended, reset>>
    BY <1>4 DEF NetcatSends, Put, progress
  <2> QED
    BY <1>2, <1>3, <2>1, <2>2, <2>3, MoveAInv
<1>5. CASE NetcatReceives
  <2>1. /\ received' = [received EXCEPT !["server"] = received'["server"]]
        /\ UNCHANGED <<program, sent, result>>
    BY <1>5, NetcatReceivesIInv
  <2>2. received'[Other("server")] = received[Other("server")]
    BY <1>2, <2>1 DEF TypeOK
  <2>3. UNCHANGED <<pc, buffer, ended, reset>>
    BY <1>5 DEF NetcatReceives, Take, progress
  <2>4. IsPrefix(sent["server"], sent'["server"])
    BY <1>2, <2>1, PrefixTrivial
  <2> QED
    BY <1>2, <1>3, <2>1, <2>2, <2>3, <2>4, MoveAInv
<1>6. CASE NetcatEndsStream
  <2>1. /\ UNCHANGED <<program, pc, buffer, sent, received, result, reset>>
        /\ ended' = ended \cup {"server"}
    BY <1>6 DEF NetcatEndsStream, progress, transfer
  <2>2. IsPrefix(sent["server"], sent'["server"])
    BY <1>2, <2>1, PrefixTrivial
  <2> QED
    BY <1>2, <1>3, <2>1, <2>2, MoveAInv
<1>7. CASE NetcatGoes
  <2>1. UNCHANGED <<program, progress, transfer>> /\ program["server"] = "netcat"
    BY <1>1, <1>7 DEF NetcatGoes, Netcat
  <2>2. \A ops : Messages("netcat", ops) = <<>>
    <3> TAKE ops
    <3>1. "netcat" \in DOMAIN Programs /\ Len(Programs["netcat"]) + 1 = 1
      BY ProgramsAssumption
    <3>2. Earlier("netcat", ops, Len(Programs["netcat"]) + 1) = Messages("netcat", ops)
      BY <3>1, EarlierAll
    <3>3. Earlier("netcat", ops, 1) = <<>>
      BY <3>1, EarlierNone
    <3> QED
      BY <3>1, <3>2, <3>3
  <2>3. /\ IsPrefix(Whole("server"), sent["server"])
        /\ IsPrefix(Awaits("server"), received["server"])
    BY <1>2, <2>1, <2>2, PrefixTrivial DEF Whole, Awaits
  <2>4. ~ Refuses(program["server"])
    BY <2>1, ProgramsAssumption DEF Refuses
  <2>5. PICK outcome \in {"ok", "error"} : Leave("server", outcome)
    BY <1>7 DEF NetcatGoes
  <2> QED
    BY <1>2, <2>1, <2>3, <2>4, <2>5, LeaveAInv
<1> QED
  BY <1>4, <1>5, <1>6, <1>7 DEF NetcatStep

LEMMA StutterAInv ==
  ASSUME AInv, UNCHANGED vars
  PROVE  AInv'
<1>1. ASSUME NEW t \in Sides
      PROVE  ThrowOK(t)' /\ SuccessOK(t)' /\ BufferOK(t)' /\ StreamOK(t)' /\ PartnerOK(t)'
  BY SideKept DEF vars, progress, transfer, connection
<1> QED
  BY <1>1 DEF AInv

LEMMA NextAInv ==
  ASSUME IInv, AInv, [Next]_vars
  PROVE  AInv'
<1>1. ASSUME NEW s \in Sides, Step(s) PROVE AInv'
  BY <1>1, WritePartAInv, WriteReturnsAInv, WriteFailsAInv, ReadPartAInv, ReadReturnsAInv,
     ReadEndsAInv, ReadFailsAInv, ExpireAInv, ShutdownAInv, RaiseErrorAInv, ReturnAInv DEF Step
<1>2. ASSUME NEW s \in Sides, Refuse(s) PROVE AInv'
  BY <1>2, RefuseAInv
<1>3. CASE NetcatStep
  BY <1>3, NetcatStepAInv
<1>4. CASE UNCHANGED vars
  BY <1>4, StutterAInv
<1> QED
  BY <1>1, <1>2, <1>3, <1>4 DEF Next

LEMMA AgreementInvariance == Spec => [](IInv /\ AInv)
<1>1. IInv /\ AInv /\ [Next]_vars => (IInv /\ AInv)'
  BY NextIInv, NextAInv
<1>2. Init => IInv /\ AInv
  BY InitIInv, InitAInv
<1> QED
  BY <1>1, <1>2, PTL DEF Spec

-------------------------------------------------------------------------------
(* Whatever the programs, if they were written for each other: each gets   *)
(* to its end, however the messages are cut and whichever goes first; and  *)
(* if the client refuses its server, neither does.                         *)
THEOREM PartnersAgreeCorrect == Spec => []PartnersAgree
<1>1. ASSUME IInv, AInv, program["server"] # "netcat", NEW s \in Sides, result[s] # "running"
      PROVE  result[s] = IF Refuses(program["client"]) THEN "error" ELSE "ok"
  <2>1. TypeOK /\ ThrowOK(s) /\ SuccessOK(s) /\ PartnerOK(s)
    BY <1>1 DEF IInv, AInv
  <2>2. result[s] \in {"ok", "error"}
    BY <1>1, <2>1 DEF TypeOK
  <2>3. CASE ~ Refuses(program["client"])
    BY <1>1, <2>1, <2>2, <2>3 DEF PartnerOK, Partnered
  <2>4. CASE Refuses(program["client"])
    <3>1. ASSUME result[s] = "ok" PROVE FALSE
      <4>1. s = "server"
        BY <2>1, <2>4, <3>1 DEF ThrowOK, Sides
      <4>2. ~ IsPrefix(Messages(program["server"], Reads), Message(program, "client"))
        BY <1>1, <2>1, <2>4, AgreementAssumption DEF TypeOK
      <4>3. IsPrefix(Messages(program["server"], Reads), received["server"])
        BY <2>1, <3>1, <4>1 DEF SuccessOK, Awaits
      <4>4. IsPrefix(received["server"], Message(program, "client"))
        BY <1>1, <4>1, ReceivedIsPrefix DEF Other
      <4>5. /\ Messages(program["server"], Reads) \in Seq(Tokens)
            /\ received["server"] \in Seq(Tokens) /\ Message(program, "client") \in Seq(Tokens)
        BY <2>1, <4>1, Types DEF Sides
      <4> QED
        BY <4>2, <4>3, <4>4, <4>5, PrefixTransitive
    <3> QED
      BY <2>2, <2>4, <3>1
  <2> QED
    BY <2>3, <2>4
<1>2. IInv /\ AInv => PartnersAgree
  BY <1>1 DEF PartnersAgree
<1> QED
  BY AgreementInvariance, <1>2, PTL

(* A call that waits and one that provides for it do not both wait.        *)
LEMMA ProviderGoesOn ==
  ASSUME IInv, AInv, NEW s \in Sides, program["server"] # "netcat",
         Blocked(s), Blocked(Other(s)),
         Provides(program[Other(s)], pc[Other(s)], program[s], pc[s])
  PROVE  FALSE
<1> DEFINE o == Other(s)
           p == program[s]
           q == program[o]
<1>1. TypeOK /\ o \in Sides /\ SentOK(o) /\ StreamOK(o)
  BY SidesAre DEF IInv, AInv
<1>2. /\ At(s, Reads) /\ ~ HasRead(s) /\ At(o, Reads)
      /\ pipe[o] = <<>> /\ o \notin ended /\ ~ reset
  BY DEF Blocked, Reading
<1>3. /\ Running(s) /\ Running(o) /\ pc[s] \in DOMAIN Programs[p] /\ pc[o] \in DOMAIN Programs[q]
      /\ Op(q, pc[o]) \in Reads /\ Call(s).op = Op(p, pc[s]) /\ Call(s).op = Programs[p][pc[s]].op
  BY <1>1, <1>2, AtCall DEF Call
<1>4. ~ HasShutDown(q, pc[o])
  BY <1>1, <1>2, <1>3 DEF StreamOK
<1>5. /\ Op(p, pc[s]) \in {"readSize", "readUntil"}
      /\ Len(Earlier(p, Reads, pc[s] + 1)) <= Len(Earlier(q, {"write"}, pc[o]))
  BY <1>3, <1>4 DEF Provides, HasShutDown, Op
<1>6. /\ q \in DOMAIN Programs /\ pc[o] \in 1..(Len(Programs[q]) + 1)
      /\ p \in DOMAIN Programs /\ pc[s] + 1 \in 1..(Len(Programs[p]) + 1)
      /\ sent[o] \in Seq(Tokens)
  <2>1. /\ q \in DOMAIN Programs /\ pc[o] \in 1..(Len(Programs[q]) + 1)
        /\ p \in DOMAIN Programs /\ Len(Programs[p]) \in Nat
        /\ DOMAIN Programs[p] = 1..Len(Programs[p])
        /\ sent[o] \in Seq(Tokens)
    BY <1>1, Types
  <2> QED
    BY <1>3, <2>1
<1>7. HasWritten(q, pc[o], total[o], sent[o], reset) /\ Op(q, pc[o]) \notin Writes
  BY <1>1, <1>3 DEF SentOK, Reads, Writes
<1>8. IsPrefix(Earlier(q, {"write"}, pc[o]), sent[o])
  BY <1>6, <1>7, ClaimedSoFar
<1>9. received[s] = sent[o]
  BY <1>2, PipeIsEmpty
<1>10. Len(Earlier(p, Reads, pc[s] + 1)) <= Len(received[s])
  <2>1. /\ Earlier(q, {"write"}, pc[o]) \in Seq(Tokens)
        /\ Earlier(p, Reads, pc[s] + 1) \in Seq(Tokens)
    BY <1>6, EarlierType
  <2>2. Len(Earlier(q, {"write"}, pc[o])) <= Len(sent[o])
    BY <1>6, <1>8, <2>1, PrefixElements
  <2>3. /\ Len(Earlier(q, {"write"}, pc[o])) \in Nat /\ Len(sent[o]) \in Nat
        /\ Len(Earlier(p, Reads, pc[s] + 1)) \in Nat
    BY <1>6, <2>1
  <2> QED
    BY <1>5, <1>9, <2>2, <2>3
<1>11. At(s, {"readSize", "readUntil"})
  BY <1>2, <1>3, <1>5 DEF At
<1>12. Orderly(p)
  BY <1>1, PartnersAre
<1> QED
  BY <1>2, <1>10, <1>11, <1>12, ArrivedIsRead

(* Whatever the programs, if they were written for each other: at each     *)
(* moment one of the two that are left need not wait, so that no           *)
(* conversation stops before its end.                                      *)
THEOREM NobodyIsStuckCorrect == Spec => []NobodyIsStuck
<1>1. ASSUME IInv, AInv, program["server"] # "netcat", NEW s \in Sides, Blocked(s)
      PROVE  Running(Other(s)) /\ ~ Blocked(Other(s))
  <2>1. TypeOK /\ Other(s) \in Sides /\ Other(Other(s)) = s /\ StreamOK(Other(s))
    BY <1>1, SidesAre DEF IInv, AInv
  <2>2. Running(Other(s))
    <3>1. program[Other(s)] # "netcat"
      BY <1>1, <2>1, PartnersAre
    <3> QED
      BY <1>1, <2>1, <3>1 DEF Blocked, StreamOK, Running
  <2>3. ASSUME Blocked(Other(s)) PROVE FALSE
    <3>1. ASSUME NEW t \in Sides
          PROVE  /\ Blocked(t) => /\ pc[t] \in DOMAIN Programs[program[t]]
                                  /\ Programs[program[t]][pc[t]].op \in Waits
      BY <2>1, AtCall DEF Blocked, Reading, Call
    <3>2. Blocked("client") /\ Blocked("server")
      BY <1>1, <2>3 DEF Sides, Other
    <3>3. TakeTurns(program["client"], program["server"])
      BY <1>1, <2>1, AgreementAssumption DEF TypeOK
    <3>4. \/ Provides(program["client"], pc["client"], program["server"], pc["server"])
          \/ Provides(program["server"], pc["server"], program["client"], pc["client"])
      BY <3>1, <3>2, <3>3 DEF TakeTurns, Sides
    <3>5. /\ "client" \in Sides /\ "server" \in Sides
          /\ Other("client") = "server" /\ Other("server") = "client"
      BY DEF Sides, Other
    <3> QED
      BY <1>1, <3>2, <3>4, <3>5, ProviderGoesOn
  <2> QED
    BY <2>2, <2>3
<1>2. IInv /\ AInv => NobodyIsStuck
  BY <1>1 DEF NobodyIsStuck
<1> QED
  BY AgreementInvariance, <1>2, PTL
===============================================================================
