-------------------------- MODULE Conversation_proofs --------------------------
(***************************************************************************)
(* Proofs about Conversation, for any programs and messages of any length. *)
(*                                                                         *)
(* What a program has written and read is what its calls so far transfer:  *)
(* the concatenation of their messages, as FlattenSeq computes it.  The    *)
(* first lemmas are about it, by induction over the calls.                 *)
(***************************************************************************)
EXTENDS Conversation, SequenceTheorems, WellFoundedInduction, TLAPS

Op(p, i)  == Programs[p][i].op
Msg(p, i) == Programs[p][i].msg

(* What p has written when k of its i-th call is.                          *)
Written(p, i, k) ==
  IF i \in DOMAIN Programs[p] /\ Op(p, i) \in Writes
  THEN Earlier(p, Writes, i) \o SubSeq(Msg(p, i), 1, k)
  ELSE Earlier(p, Writes, i)

(* A call before the i-th did not write all, and need not have: then no    *)
(* whole write comes after it, and no other, unless the connection broke.  *)
CutShort(p, i, m, broken) ==
  /\ \E j \in 1..(i - 1) : Op(p, j) \in Writes \ {"write"}
  /\ \A j \in i..Len(Programs[p]) : Op(p, j) # "write" /\ (broken \/ Op(p, j) \notin Writes)
  /\ IsPrefix(Earlier(p, {"write"}, i), m)

(* m is what p has written at k of its i-th call.                          *)
HasWritten(p, i, k, m, broken) == m = Written(p, i, k) \/ CutShort(p, i, m, broken)

(* p has read at least what its calls before the i-th waited for, and what *)
(* the i-th has read, b, is the end of m, which is all that p has read.    *)
HasReceived(p, i, b, m) ==
  /\ Len(Earlier(p, Reads, i)) + Len(b) <= Len(m)
  /\ \A k \in 1..Len(b) : b[k] = m[Len(m) - Len(b) + k]

SentOK(s) ==
  /\ IsPrefix(sent[s], Message(program, s))
  /\ Running(s) => HasWritten(program[s], pc[s], total[s], sent[s], reset)

(* What was sent was received or is on its way; after a reset only a       *)
(* beginning of it is.                                                     *)
PipeOK(s) ==
  /\ IsPrefix(received[Other(s)] \o pipe[s], sent[s])
  /\ ~ reset => received[Other(s)] \o pipe[s] = sent[s]

ReceivedOK(s) ==
  Running(s) => HasReceived(program[s], pc[s], buffer[s], received[s])

(* A partner that is read from to the end has said everything when it ends *)
(* its stream.                                                             *)
EndOK(s) ==
  s \in ended /\ ~ reset /\ ReadsToEnd(program[Other(s)]) => sent[s] = Message(program, s)

IInv ==
  /\ TypeOK
  /\ \A s \in Sides : SentOK(s) /\ PipeOK(s) /\ ReceivedOK(s) /\ EndOK(s)

-------------------------------------------------------------------------------
(* Sequences of tokens.                                                    *)
LEMMA Associative ==
  ASSUME NEW s \in Seq(Tokens), NEW t \in Seq(Tokens), NEW u \in Seq(Tokens)
  PROVE  (s \o t) \o u = s \o (t \o u)
BY ConcatAssociative

LEMMA ConcatIs ==
  ASSUME NEW s \in Seq(Tokens), NEW t \in Seq(Tokens), NEW u \in Seq(Tokens),
         Len(u) = Len(s) + Len(t),
         \A i \in 1..Len(s) : u[i] = s[i],
         \A i \in 1..Len(t) : u[Len(s) + i] = t[i]
  PROVE  s \o t = u
<1>1. s \o t \in Seq(Tokens) /\ Len(s \o t) = Len(u)
  <2>1. ASSUME NEW v \in Seq(Tokens), NEW w \in Seq(Tokens)
        PROVE  v \o w \in Seq(Tokens) /\ Len(v \o w) = Len(v) + Len(w)
    BY ConcatProperties
  <2> QED
    BY <2>1
<1>2. ASSUME NEW i \in 1..Len(s \o t) PROVE (s \o t)[i] = u[i]
  <2>1. CASE i <= Len(s)
    BY <1>1, <2>1
  <2>2. CASE ~ (i <= Len(s))
    <3>1. i - Len(s) \in 1..Len(t) /\ i = Len(s) + (i - Len(s))
      BY <1>1, <2>2
    <3>2. (s \o t)[i] = t[i - Len(s)]
      BY <3>1
    <3> QED
      BY <3>1, <3>2
  <2> QED
    BY <2>1, <2>2
<1> QED
  BY <1>1, <1>2, SeqEqual

LEMMA ConcatElements ==
  ASSUME NEW s \in Seq(Tokens), NEW t \in Seq(Tokens)
  PROVE  /\ s \o t \in Seq(Tokens) /\ Len(s \o t) = Len(s) + Len(t)
         /\ \A i \in 1..Len(s) : (s \o t)[i] = s[i]
         /\ \A i \in 1..Len(t) : (s \o t)[Len(s) + i] = t[i]
OBVIOUS

LEMMA AfterElements ==
  ASSUME NEW s \in Seq(Tokens), NEW n \in 0..Len(s)
  PROVE  /\ After(s, n) \in Seq(Tokens)
         /\ Len(After(s, n)) = Len(s) - n
         /\ \A i \in 1..Len(s) - n : After(s, n)[i] = s[n + i]
BY DEF After

LEMMA SplitSeq ==
  ASSUME NEW s \in Seq(Tokens), NEW n \in 0..Len(s)
  PROVE  /\ SubSeq(s, 1, n) \in Seq(Tokens)
         /\ SubSeq(s, 1, n) \o After(s, n) = s
<1>1. /\ SubSeq(s, 1, n) \in Seq(Tokens) /\ Len(SubSeq(s, 1, n)) = n
      /\ \A i \in 1..n : s[i] = SubSeq(s, 1, n)[i]
  OBVIOUS
<1>2. /\ After(s, n) \in Seq(Tokens) /\ Len(s) = n + Len(After(s, n))
      /\ \A i \in 1..Len(After(s, n)) : s[n + i] = After(s, n)[i]
  <2>1. /\ After(s, n) \in Seq(Tokens) /\ Len(After(s, n)) = Len(s) - n
        /\ \A i \in 1..Len(s) - n : After(s, n)[i] = s[n + i]
    BY AfterElements
  <2> QED
    BY <2>1
<1>3. /\ Len(s) = Len(SubSeq(s, 1, n)) + Len(After(s, n))
      /\ \A i \in 1..Len(SubSeq(s, 1, n)) : s[i] = SubSeq(s, 1, n)[i]
      /\ \A i \in 1..Len(After(s, n)) : s[Len(SubSeq(s, 1, n)) + i] = After(s, n)[i]
  BY <1>1, <1>2, Zenon
<1> QED
  BY <1>1, <1>2, <1>3, ConcatIs, Zenon

LEMMA PrefixElements ==
  ASSUME NEW s \in Seq(Tokens), NEW t \in Seq(Tokens)
  PROVE  IsPrefix(s, t) <=> Len(s) <= Len(t) /\ \A i \in 1..Len(s) : s[i] = t[i]
<1>1. Len(s) <= Len(t) => SubSeq(t, 1, Len(s)) \in Seq(Tokens) /\ Len(SubSeq(t, 1, Len(s))) = Len(s)
  OBVIOUS
<1>2. SubSeq(s, 1, Len(s)) = s
  OBVIOUS
<1> QED
  BY <1>1, <1>2 DEF IsPrefix

LEMMA PrefixTrivial ==
  ASSUME NEW s \in Seq(Tokens)
  PROVE  IsPrefix(<<>>, s) /\ IsPrefix(s, s)
<1>1. <<>> \in Seq(Tokens) /\ Len(<<>>) = 0
  OBVIOUS
<1>2. ASSUME NEW e \in Seq(Tokens), Len(e) = 0 PROVE IsPrefix(e, s)
  <2>1. Len(e) <= Len(s) /\ \A k \in 1..Len(e) : e[k] = s[k]
    BY <1>2
  <2> QED
    BY <2>1, PrefixElements
<1>3. IsPrefix(s, s)
  <2>1. Len(s) <= Len(s) /\ \A k \in 1..Len(s) : s[k] = s[k]
    OBVIOUS
  <2> QED
    BY <2>1, PrefixElements
<1> QED
  BY <1>1, <1>2, <1>3

LEMMA PrefixOfConcat ==
  ASSUME NEW s \in Seq(Tokens), NEW t \in Seq(Tokens)
  PROVE  IsPrefix(s, s \o t)
<1>1. s \o t \in Seq(Tokens) /\ Len(s) <= Len(s \o t) /\ \A i \in 1..Len(s) : s[i] = (s \o t)[i]
  OBVIOUS
<1> QED
  BY <1>1, PrefixElements

LEMMA PrefixTransitive ==
  ASSUME NEW s \in Seq(Tokens), NEW t \in Seq(Tokens), NEW u \in Seq(Tokens),
         IsPrefix(s, t), IsPrefix(t, u)
  PROVE  IsPrefix(s, u)
<1>1. Len(s) <= Len(t) /\ \A i \in 1..Len(s) : s[i] = t[i]
  BY PrefixElements
<1>2. Len(t) <= Len(u) /\ \A i \in 1..Len(t) : t[i] = u[i]
  BY PrefixElements
<1>3. Len(s) <= Len(u) /\ \A i \in 1..Len(s) : s[i] = u[i]
  BY <1>1, <1>2
<1> QED
  BY <1>3, PrefixElements

LEMMA PrefixTruncated ==
  ASSUME NEW s \in Seq(Tokens), NEW t \in Seq(Tokens), NEW n \in 0..Len(t)
  PROVE  IsPrefix(s \o SubSeq(t, 1, n), s \o t)
<1>1. /\ SubSeq(t, 1, n) \in Seq(Tokens) /\ After(t, n) \in Seq(Tokens)
      /\ (s \o SubSeq(t, 1, n)) \o After(t, n) = s \o t
  <2>1. /\ SubSeq(t, 1, n) \in Seq(Tokens) /\ After(t, n) \in Seq(Tokens)
        /\ SubSeq(t, 1, n) \o After(t, n) = t
    BY SplitSeq, AfterElements
  <2>2. (s \o SubSeq(t, 1, n)) \o After(t, n) = s \o (SubSeq(t, 1, n) \o After(t, n))
    BY <2>1, Associative, Zenon
  <2> QED
    BY <2>1, <2>2, Zenon
<1>2. s \o SubSeq(t, 1, n) \in Seq(Tokens)
  BY <1>1
<1>3. IsPrefix(s \o SubSeq(t, 1, n), (s \o SubSeq(t, 1, n)) \o After(t, n))
  BY <1>1, <1>2, PrefixOfConcat
<1> QED
  BY <1>1, <1>3, Zenon

-------------------------------------------------------------------------------
(* Induction over the calls of a program.                                  *)
LEMMA Induction ==
  ASSUME NEW T, 0 \in T, \A n \in Nat : n \in T => n + 1 \in T
  PROVE  \A n \in Nat : n \in T
<1> DEFINE D == {n \in Nat : n \notin T}
           R == OpToRel(<, Nat)
<1>1. IsWellFoundedOn(R, Nat)
  BY NatLessThanWellFounded, Zenon
<1>2. \A m, n \in Nat : m < n => <<m, n>> \in R
  BY Zenon DEF OpToRel
<1>3. D \subseteq Nat
  OBVIOUS
<1> HIDE DEF R
<1>4. ASSUME D # {} PROVE FALSE
  <2> HIDE DEF D
  <2>1. PICK n \in D : \A m \in D : ~ (<<m, n>> \in R)
    BY <1>1, <1>3, <1>4, WFMin
  <2>2. n \in Nat /\ n \notin T /\ n # 0
    BY DEF D
  <2>3. n - 1 \in Nat /\ n - 1 < n /\ n = n - 1 + 1
    BY <2>2
  <2>4. n - 1 \notin D
    BY <1>2, <2>1, <2>2, <2>3
  <2> QED
    BY <2>2, <2>3, <2>4 DEF D
<1> QED
  BY <1>4

(* f[i] is the concatenation of the first i sequences of q, for i up to n. *)
IsConcats(f, q, n) == \A i \in 1..n : f[i] = IF i = 1 THEN q[i] ELSE f[i - 1] \o q[i]

(* There is such a function, of sequences of tokens, and only one.         *)
Concats(f, q, n) ==
  \A i \in 1..n : f[i] \in Seq(Tokens) /\ f[i] = IF i = 1 THEN q[i] ELSE f[i - 1] \o q[i]

LEMMA ConcatsUnique ==
  ASSUME NEW q, NEW n \in Nat, NEW f, NEW g, IsConcats(f, q, n), IsConcats(g, q, n)
  PROVE  \A i \in Nat : i \in 1..n => f[i] = g[i]
<1> DEFINE T == {k \in Nat : k \in 1..n => f[k] = g[k]}
<1>1. 0 \in T
  OBVIOUS
<1>2. ASSUME NEW k \in Nat, k \in T PROVE k + 1 \in T
  <2>1. k + 1 \in 1..n => f[k + 1] = g[k + 1]
    <3>1. CASE k = 0
      BY <3>1 DEF IsConcats
    <3>2. CASE k # 0 /\ k + 1 \in 1..n
      <4>1. k \in 1..n /\ k + 1 # 1 /\ k + 1 - 1 = k
        BY <3>2
      <4> QED
        BY <1>2, <3>2, <4>1 DEF IsConcats
    <3> QED
      BY <3>1, <3>2
  <2> QED
    BY <2>1
<1> HIDE DEF T
<1>3. \A k \in Nat : k \in T
  BY <1>1, <1>2, Induction
<1> QED
  BY <1>3 DEF T

LEMMA ConcatsExist ==
  ASSUME NEW q \in Seq(Seq(Tokens))
  PROVE  \E f : Concats(f, q, Len(q))
<1> DEFINE T == {k \in Nat : k <= Len(q) => \E f : Concats(f, q, k)}
<1>1. 0 \in T
  BY DEF Concats
<1>2. ASSUME NEW k \in Nat, k \in T PROVE k + 1 \in T
  <2>1. ASSUME k + 1 <= Len(q) PROVE \E f : Concats(f, q, k + 1)
    <3>1. PICK f : Concats(f, q, k)
      BY <1>2, <2>1
    <3>2. q[k + 1] \in Seq(Tokens)
      BY <2>1
    <3> DEFINE last == IF k = 0 THEN q[1] ELSE f[k] \o q[k + 1]
               g == [i \in 1..(k + 1) |-> IF i = k + 1 THEN last ELSE f[i]]
    <3>3. last \in Seq(Tokens)
      <4>1. CASE k = 0
        BY <3>2, <4>1
      <4>2. CASE k # 0
        <5>1. f[k] \in Seq(Tokens)
          BY <3>1, <4>2 DEF Concats
        <5> QED
          BY <3>2, <4>2, <5>1
      <4> QED
        BY <4>1, <4>2
    <3>4. /\ g[k + 1] = last
          /\ \A i \in 1..k : g[i] = f[i]
      <4> HIDE DEF last
      <4>1. k + 1 \in 1..(k + 1) /\ \A i \in 1..k : i \in 1..(k + 1) /\ i # k + 1
        OBVIOUS
      <4> QED
        BY <4>1
    <3>5. ASSUME NEW i \in 1..(k + 1)
          PROVE  g[i] \in Seq(Tokens) /\ g[i] = IF i = 1 THEN q[i] ELSE g[i - 1] \o q[i]
      <4> HIDE DEF g
      <4>1. CASE i = k + 1 /\ k # 0
        <5>1. i # 1 /\ i - 1 = k /\ k \in 1..k
          BY <4>1
        <5> QED
          BY <3>3, <3>4, <4>1, <5>1
      <4>2. CASE i = k + 1 /\ k = 0
        BY <3>3, <3>4, <4>2
      <4>3. CASE i # k + 1
        <5>1. i \in 1..k /\ (i # 1 => i - 1 \in 1..k)
          BY <4>3
        <5>2. f[i] \in Seq(Tokens) /\ f[i] = IF i = 1 THEN q[i] ELSE f[i - 1] \o q[i]
          BY <3>1, <5>1 DEF Concats
        <5> QED
          BY <3>4, <5>1, <5>2
      <4> QED
        BY <4>1, <4>2, <4>3
    <3>6. Concats(g, q, k + 1)
      BY <3>5 DEF Concats
    <3> QED
      BY <3>6
  <2> QED
    BY <2>1
<1> HIDE DEF T
<1>3. \A k \in Nat : k \in T
  BY <1>1, <1>2, Induction
<1>4. Len(q) \in T
  BY <1>3
<1> QED
  BY <1>4 DEF T

LEMMA FlattenIs ==
  ASSUME NEW q \in Seq(Seq(Tokens)), q # <<>>, NEW f, Concats(f, q, Len(q))
  PROVE  FlattenSeq(q) = f[Len(q)]
<1> DEFINE n == Len(q)
           h == [i \in 1..n |-> f[i]]
           flatten == CHOOSE g : g = [i \in 1..n |-> IF i = 1 THEN q[i] ELSE g[i - 1] \o q[i]]
<1>1. n \in Nat /\ n # 0 /\ n \in 1..n /\ \A i \in 1..n : i = 1 \/ i - 1 \in 1..n
  OBVIOUS
<1>2. FlattenSeq(q) = flatten[n]
  BY <1>1 DEF FlattenSeq
<1>3. h = [i \in 1..n |-> IF i = 1 THEN q[i] ELSE h[i - 1] \o q[i]]
  <2>1. ASSUME NEW i \in 1..n PROVE h[i] = IF i = 1 THEN q[i] ELSE h[i - 1] \o q[i]
    <3>1. f[i] = IF i = 1 THEN q[i] ELSE f[i - 1] \o q[i]
      BY DEF Concats
    <3>2. i # 1 => h[i - 1] = f[i - 1]
      BY <1>1
    <3> QED
      BY <3>1, <3>2
  <2> QED
    BY <2>1
<1> HIDE DEF h, n
<1>4. flatten = [i \in 1..n |-> IF i = 1 THEN q[i] ELSE flatten[i - 1] \o q[i]]
  BY <1>3
<1> HIDE DEF flatten
<1>5. IsConcats(flatten, q, n)
  BY <1>4 DEF IsConcats
<1>6. IsConcats(f, q, n)
  BY DEF Concats, IsConcats, n
<1>7. \A i \in 1..n : flatten[i] = f[i]
  <2>1. n \in Nat
    BY <1>1
  <2> QED
    <3>1. PICK g : g = flatten
      OBVIOUS
    <3>2. IsConcats(g, q, n)
      BY <1>5, <3>1, Zenon
    <3>3. \A i \in Nat : i \in 1..n => g[i] = f[i]
      BY <1>6, <2>1, <3>2, ConcatsUnique
    <3> QED
      BY <3>1, <3>3
<1> QED
  BY <1>1, <1>2, <1>7 DEF n

(* The concatenation grows with the sequences it is of.                    *)
LEMMA FlattenEmpty ==
  FlattenSeq(<<>>) = <<>>
BY DEF FlattenSeq

LEMMA FlattenAppend ==
  ASSUME NEW q \in Seq(Seq(Tokens)), NEW m \in Seq(Tokens)
  PROVE  /\ FlattenSeq(q) \in Seq(Tokens)
         /\ FlattenSeq(Append(q, m)) = FlattenSeq(q) \o m
<1> DEFINE r == Append(q, m)
<1>1. r \in Seq(Seq(Tokens)) /\ r # <<>> /\ Len(r) = Len(q) + 1 /\ r[Len(r)] = m
  <2>1. m \in Seq(Tokens) /\ q \in Seq(Seq(Tokens))
    OBVIOUS
  <2>2. r \in Seq(Seq(Tokens)) /\ Len(r) = Len(q) + 1 /\ r[Len(q) + 1] = m
    BY <2>1, AppendProperties, Zenon
  <2> QED
    BY <2>2
<1>2. \A i \in 1..Len(q) : r[i] = q[i] /\ i \in 1..Len(r)
  OBVIOUS
<1> HIDE DEF r
<1>3. PICK f : Concats(f, r, Len(r))
  BY <1>1, ConcatsExist
<1>4. FlattenSeq(r) = f[Len(r)]
  BY <1>1, <1>3, FlattenIs
<1>5. f[Len(r)] = IF Len(r) = 1 THEN m ELSE f[Len(r) - 1] \o m
  BY <1>1, <1>3 DEF Concats
<1>6. CASE q = <<>>
  <2>1. Len(r) = 1
    BY <1>1, <1>6
  <2> QED
    <3>1. FlattenSeq(q) = <<>> /\ FlattenSeq(r) = m
      BY <1>4, <1>5, <1>6, <2>1, FlattenEmpty
    <3> QED
      BY <3>1 DEF r
<1>7. CASE q # <<>>
  <2>1. Concats(f, q, Len(q))
    BY <1>1, <1>2, <1>3 DEF Concats
  <2>2. FlattenSeq(q) = f[Len(q)]
    BY <1>7, <2>1, FlattenIs
  <2>3. Len(q) \in Nat /\ Len(q) # 0 /\ Len(q) \in 1..Len(q)
    BY <1>7
  <2>4. f[Len(q)] \in Seq(Tokens)
    BY <2>1, <2>3 DEF Concats
  <2>5. Len(r) # 1 /\ Len(r) - 1 = Len(q)
    BY <1>1, <2>3
  <2> QED
    BY <1>4, <1>5, <2>2, <2>4, <2>5 DEF r
<1> QED
  BY <1>6, <1>7
-------------------------------------------------------------------------------
(* What the calls of a program transfer.                                   *)
LEMMA PartsAre ==
  ASSUME NEW p \in DOMAIN Programs, NEW ops
  PROVE  /\ Len(Programs[p]) \in Nat /\ DOMAIN Programs[p] = 1..Len(Programs[p])
         /\ \A i \in DOMAIN Programs[p] :
              Programs[p][i] \in Calls /\ Msg(p, i) \in Seq(Tokens)
         /\ Parts(p, ops) \in Seq(Seq(Tokens)) /\ Len(Parts(p, ops)) = Len(Programs[p])
         /\ \A i \in DOMAIN Programs[p] :
              Parts(p, ops)[i] = IF Op(p, i) \in ops THEN Msg(p, i) ELSE <<>>
<1>1. Programs[p] \in Seq(Calls)
  BY ProgramsAssumption
<1>2. Len(Programs[p]) \in Nat /\ DOMAIN Programs[p] = 1..Len(Programs[p])
  BY <1>1
<1>3. \A i \in DOMAIN Programs[p] : Programs[p][i] \in Calls
  BY <1>1, <1>2
<1>4. \A i \in DOMAIN Programs[p] : Msg(p, i) \in Seq(Tokens)
  BY <1>3 DEF Calls, Msg
<1>5. \A i \in DOMAIN Programs[p] :
        Parts(p, ops)[i] = IF Op(p, i) \in ops THEN Msg(p, i) ELSE <<>>
  BY DEF Parts, Op, Msg
<1>6. \A i \in DOMAIN Programs[p] : Parts(p, ops)[i] \in Seq(Tokens)
  <2> TAKE i \in DOMAIN Programs[p]
  <2>1. Msg(p, i) \in Seq(Tokens) /\ <<>> \in Seq(Tokens)
    BY <1>4
  <2> QED
    BY <1>5, <2>1
<1>7. DOMAIN Parts(p, ops) = 1..Len(Programs[p])
  BY <1>2 DEF Parts
<1>8. Parts(p, ops) = [i \in 1..Len(Programs[p]) |-> Parts(p, ops)[i]]
  BY <1>2 DEF Parts
<1>9. Parts(p, ops) \in Seq(Seq(Tokens)) /\ Len(Parts(p, ops)) = Len(Programs[p])
  <2>1. ASSUME NEW f, NEW n \in Nat, f = [i \in 1..n |-> f[i]], \A i \in 1..n : f[i] \in Seq(Tokens)
        PROVE  f \in Seq(Seq(Tokens)) /\ Len(f) = n
    <3>1. f \in [1..n -> Seq(Tokens)]
      BY <2>1
    <3> QED
      BY <3>1
  <2> QED
    BY <1>2, <1>6, <1>8, <2>1
<1> QED
  BY <1>2, <1>3, <1>4, <1>5, <1>9

LEMMA EarlierType ==
  ASSUME NEW p \in DOMAIN Programs, NEW ops, NEW i \in 1..(Len(Programs[p]) + 1)
  PROVE  /\ SubSeq(Parts(p, ops), 1, i - 1) \in Seq(Seq(Tokens))
         /\ Earlier(p, ops, i) \in Seq(Tokens)
<1>1. /\ Parts(p, ops) \in Seq(Seq(Tokens)) /\ Len(Parts(p, ops)) = Len(Programs[p])
      /\ Len(Programs[p]) \in Nat
  BY PartsAre
<1>2. SubSeq(Parts(p, ops), 1, i - 1) \in Seq(Seq(Tokens))
  BY <1>1
<1>3. \A q \in Seq(Seq(Tokens)) : FlattenSeq(q) \in Seq(Tokens)
  <2>1. <<>> \in Seq(Tokens)
    OBVIOUS
  <2> QED
    BY <2>1, FlattenAppend, Zenon
<1> QED
  BY <1>2, <1>3, Zenon DEF Earlier

LEMMA EarlierNone ==
  ASSUME NEW p \in DOMAIN Programs, NEW ops
  PROVE  Earlier(p, ops, 1) = <<>>
<1>1. SubSeq(Parts(p, ops), 1, 0) = <<>>
  BY PartsAre
<1>2. 1 - 1 = 0
  OBVIOUS
<1> QED
  BY <1>1, <1>2, FlattenEmpty, Zenon DEF Earlier

LEMMA EarlierNext ==
  ASSUME NEW p \in DOMAIN Programs, NEW ops, NEW i \in DOMAIN Programs[p]
  PROVE  Earlier(p, ops, i + 1) =
           Earlier(p, ops, i) \o (IF Op(p, i) \in ops THEN Msg(p, i) ELSE <<>>)
<1> DEFINE q == Parts(p, ops)
           m == IF Op(p, i) \in ops THEN Msg(p, i) ELSE <<>>
<1>1. /\ q \in Seq(Seq(Tokens)) /\ Len(q) = Len(Programs[p]) /\ q[i] = m
      /\ i \in Nat /\ i \in 1..Len(q) /\ i \in 1..(Len(Programs[p]) + 1)
  <2>1. /\ q \in Seq(Seq(Tokens)) /\ Len(q) = Len(Programs[p]) /\ q[i] = m
        /\ Len(Programs[p]) \in Nat /\ DOMAIN Programs[p] = 1..Len(Programs[p])
    BY PartsAre, Zenon
  <2> QED
    BY <2>1
<1>2. m \in Seq(Tokens)
  <2>1. Msg(p, i) \in Seq(Tokens) /\ <<>> \in Seq(Tokens)
    BY PartsAre
  <2> QED
    BY <2>1
<1> HIDE DEF q, m
<1>3. SubSeq(q, 1, i - 1) \in Seq(Seq(Tokens))
  BY <1>1
<1>4. SubSeq(q, 1, i) = Append(SubSeq(q, 1, i - 1), m)
  <2>1. /\ SubSeq(q, 1, i) \in Seq(Seq(Tokens)) /\ Len(SubSeq(q, 1, i)) = i
        /\ \A j \in 1..i : SubSeq(q, 1, i)[j] = q[j]
    BY <1>1
  <2>2. /\ Len(SubSeq(q, 1, i - 1)) = i - 1
        /\ \A j \in 1..(i - 1) : SubSeq(q, 1, i - 1)[j] = q[j]
    BY <1>1
  <2>3. ASSUME NEW u \in Seq(Seq(Tokens)), NEW t \in Seq(Seq(Tokens)), Len(u) = i, Len(t) = i - 1,
               \A j \in 1..i : u[j] = q[j], \A j \in 1..(i - 1) : t[j] = q[j]
        PROVE  u = Append(t, m)
    <3>1. /\ Append(t, m) \in Seq(Seq(Tokens)) /\ Len(Append(t, m)) = i
          /\ \A j \in 1..(i - 1) : Append(t, m)[j] = t[j]
          /\ Append(t, m)[i] = m
      BY <1>1, <1>2, <2>3
    <3>2. \A j \in 1..i : Append(t, m)[j] = u[j]
      <4> TAKE j \in 1..i
      <4>1. j = i \/ j \in 1..(i - 1)
        BY <1>1
      <4> QED
        BY <1>1, <2>3, <3>1, <4>1
    <3> QED
      BY <2>3, <3>1, <3>2, SeqEqual
  <2> QED
    BY <1>3, <2>1, <2>2, <2>3
<1>5. FlattenSeq(Append(SubSeq(q, 1, i - 1), m)) = FlattenSeq(SubSeq(q, 1, i - 1)) \o m
  BY <1>2, <1>3, FlattenAppend, Zenon
<1>6. (i + 1) - 1 = i
  BY <1>1
<1>7. FlattenSeq(SubSeq(q, 1, (i + 1) - 1)) = FlattenSeq(SubSeq(q, 1, i - 1)) \o m
  BY <1>4, <1>5, <1>6
<1>8. /\ Earlier(p, ops, i + 1) = FlattenSeq(SubSeq(q, 1, (i + 1) - 1))
      /\ Earlier(p, ops, i) = FlattenSeq(SubSeq(q, 1, i - 1))
  BY Zenon DEF Earlier, q
<1> QED
  BY <1>7, <1>8 DEF m

LEMMA EarlierAll ==
  ASSUME NEW p \in DOMAIN Programs, NEW ops
  PROVE  Earlier(p, ops, Len(Programs[p]) + 1) = Messages(p, ops)
<1>1. /\ Parts(p, ops) \in Seq(Seq(Tokens)) /\ Len(Parts(p, ops)) = Len(Programs[p])
      /\ Len(Programs[p]) \in Nat
  BY PartsAre
<1>2. SubSeq(Parts(p, ops), 1, (Len(Programs[p]) + 1) - 1) = Parts(p, ops)
  <2>1. (Len(Programs[p]) + 1) - 1 = Len(Parts(p, ops))
    BY <1>1
  <2>2. SubSeq(Parts(p, ops), 1, Len(Parts(p, ops))) = Parts(p, ops)
    BY <1>1
  <2> QED
    BY <2>1, <2>2
<1>3. Earlier(p, ops, Len(Programs[p]) + 1) =
        FlattenSeq(SubSeq(Parts(p, ops), 1, (Len(Programs[p]) + 1) - 1))
  BY Zenon DEF Earlier
<1> QED
  BY <1>2, <1>3 DEF Messages

(* They transfer a beginning of its messages.                              *)
LEMMA EarlierIsPrefix ==
  ASSUME NEW p \in DOMAIN Programs, NEW ops, NEW i \in 1..(Len(Programs[p]) + 1)
  PROVE  /\ Messages(p, ops) \in Seq(Tokens)
         /\ IsPrefix(Earlier(p, ops, i), Messages(p, ops))
         /\ (\A j \in i..Len(Programs[p]) : Op(p, j) \notin ops)
              => Earlier(p, ops, i) = Messages(p, ops)
<1> DEFINE n == Len(Programs[p])
           M == Messages(p, ops)
           E(j) == Earlier(p, ops, j)
           T == {k \in Nat : k <= n => /\ IsPrefix(E(n + 1 - k), M)
                                       /\ (\A j \in (n + 1 - k)..n : Op(p, j) \notin ops)
                                            => E(n + 1 - k) = M}
<1>1. n \in Nat /\ DOMAIN Programs[p] = 1..n
  BY PartsAre
<1>2. \A j \in 1..(n + 1) : E(j) \in Seq(Tokens)
  BY EarlierType
<1>3. E(n + 1) = M
  BY EarlierAll
<1>4. M \in Seq(Tokens)
  BY <1>1, <1>2, <1>3
<1>5. \A j \in 1..n : \E m \in Seq(Tokens) : /\ E(j + 1) = E(j) \o m
                                             /\ Op(p, j) \notin ops => m = <<>>
  <2> TAKE j \in 1..n
  <2>1. Msg(p, j) \in Seq(Tokens) /\ <<>> \in Seq(Tokens)
    BY <1>1, PartsAre
  <2>2. E(j + 1) = E(j) \o (IF Op(p, j) \in ops THEN Msg(p, j) ELSE <<>>)
    BY <1>1, EarlierNext
  <2> QED
    BY <2>1, <2>2
<1>6. \A j \in 1..n : /\ IsPrefix(E(j), E(j + 1))
                      /\ Op(p, j) \notin ops => E(j + 1) = E(j)
  <2> TAKE j \in 1..n
  <2>1. E(j) \in Seq(Tokens)
    BY <1>1, <1>2
  <2> HIDE DEF E
  <2>2. PICK m \in Seq(Tokens) : /\ E(j + 1) = E(j) \o m
                                 /\ Op(p, j) \notin ops => m = <<>>
    BY <1>5
  <2>3. IsPrefix(E(j), E(j + 1))
    BY <2>1, <2>2, PrefixOfConcat
  <2>4. E(j) \o <<>> = E(j)
    BY <2>1
  <2> QED
    BY <2>2, <2>3, <2>4
<1> HIDE DEF n, M, E
<1>7. 0 \in T
  <2>1. IsPrefix(M, M)
    BY <1>4, PrefixElements
  <2>2. n + 1 - 0 = n + 1
    BY <1>1
  <2> QED
    BY <1>3, <2>1, <2>2
<1>8. ASSUME NEW k \in Nat, k \in T PROVE k + 1 \in T
  <2> SUFFICES ASSUME k + 1 <= n
               PROVE  /\ IsPrefix(E(n + 1 - (k + 1)), M)
                      /\ (\A j \in (n + 1 - (k + 1))..n : Op(p, j) \notin ops)
                           => E(n + 1 - (k + 1)) = M
    OBVIOUS
  <2>1. PICK j \in 1..n :
          j = n + 1 - (k + 1) /\ j + 1 = n + 1 - k /\ j + 1 \in 1..(n + 1) /\ j \in 1..(n + 1)
    BY <1>1
  <2>2. /\ IsPrefix(E(j + 1), M)
        /\ (\A l \in (j + 1)..n : Op(p, l) \notin ops) => E(j + 1) = M
    <3>1. k <= n
      BY <1>1
    <3> QED
      BY <1>8, <2>1, <3>1
  <2>3. IsPrefix(E(j), E(j + 1))
    BY <1>6
  <2>4. IsPrefix(E(j), M)
    BY <1>2, <1>4, <2>1, <2>2, <2>3, PrefixTransitive
  <2>5. ASSUME \A l \in j..n : Op(p, l) \notin ops PROVE E(j) = M
    <3>1. Op(p, j) \notin ops /\ \A l \in (j + 1)..n : Op(p, l) \notin ops
      BY <1>1, <2>5
    <3> QED
      BY <1>6, <2>2, <3>1
  <2> QED
    BY <2>1, <2>4, <2>5
<1> HIDE DEF T
<1>9. \A k \in Nat : k \in T
  BY <1>7, <1>8, Induction
<1>10. n + 1 - i \in Nat /\ n + 1 - i <= n /\ n + 1 - (n + 1 - i) = i
  BY <1>1 DEF n
<1>11. /\ IsPrefix(E(i), M)
       /\ (\A j \in i..n : Op(p, j) \notin ops) => E(i) = M
  BY <1>9, <1>10 DEF T
<1> QED
  BY <1>4, <1>11 DEF n, M, E

-------------------------------------------------------------------------------
(* What a program has written.                                             *)

(* Until a call is cut short, the whole writes are all that is written.    *)
LEMMA ClaimedIsWritten ==
  ASSUME NEW p \in DOMAIN Programs, NEW i \in 1..(Len(Programs[p]) + 1)
  PROVE  /\ (\A j \in 1..(i - 1) : Op(p, j) \notin Writes \ {"write"})
              => Earlier(p, {"write"}, i) = Earlier(p, Writes, i)
         /\ IsPrefix(Earlier(p, {"write"}, i), Earlier(p, Writes, i))
<1> DEFINE n == Len(Programs[p])
           C(j) == Earlier(p, {"write"}, j)
           W(j) == Earlier(p, Writes, j)
           Whole(j) == \A l \in 1..(j - 1) : Op(p, l) \notin Writes \ {"write"}
           T == {k \in Nat : k <= n => /\ Whole(k + 1) => C(k + 1) = W(k + 1)
                                       /\ IsPrefix(C(k + 1), W(k + 1))}
<1>1. n \in Nat /\ DOMAIN Programs[p] = 1..n
  BY PartsAre
<1>2. \A j \in 1..(n + 1) : C(j) \in Seq(Tokens) /\ W(j) \in Seq(Tokens)
  BY EarlierType
<1>3. \A j \in 1..n : /\ C(j + 1) = C(j) \o (IF Op(p, j) \in {"write"} THEN Msg(p, j) ELSE <<>>)
                      /\ W(j + 1) = W(j) \o (IF Op(p, j) \in Writes THEN Msg(p, j) ELSE <<>>)
  <2> TAKE j \in 1..n
  <2>1. j \in DOMAIN Programs[p]
    BY <1>1
  <2> QED
    BY <2>1, EarlierNext, Zenon
<1>4. \A j \in 1..n : Msg(p, j) \in Seq(Tokens)
  BY <1>1, PartsAre
<1>5. C(1) = <<>> /\ W(1) = <<>>
  BY EarlierNone
<1>6. ASSUME NEW j \in 1..n, NEW l \in 1..(j - 1), Op(p, j) = "write"
      PROVE  Op(p, l) \notin Writes \ {"write"}
  <2>1. l \in DOMAIN Programs[p] /\ j \in DOMAIN Programs[p] /\ j > l
    BY <1>1
  <2>2. "write" \in {Programs[p][k].op : k \in {m \in DOMAIN Programs[p] : m > l}}
    BY <1>6, <2>1 DEF Op
  <2> QED
    BY <2>1, <2>2, CallsAssumption DEF Later, Op, Writes
<1> HIDE DEF n, C, W
<1>7. 0 \in T
  <2>1. C(0 + 1) = W(0 + 1)
    BY <1>5
  <2>2. IsPrefix(C(0 + 1), W(0 + 1))
    <3>1. C(1) \in Seq(Tokens) /\ W(1) \in Seq(Tokens)
      BY <1>1, <1>2
    <3> QED
      BY <1>5, <3>1, PrefixElements
  <2> QED
    BY <2>1, <2>2
<1>8. ASSUME NEW k \in Nat, k \in T PROVE k + 1 \in T
  <2> SUFFICES ASSUME k + 1 <= n
               PROVE  /\ Whole(k + 1 + 1) => C(k + 1 + 1) = W(k + 1 + 1)
                      /\ IsPrefix(C(k + 1 + 1), W(k + 1 + 1))
    OBVIOUS
  <2>1. PICK j \in 1..n : j = k + 1 /\ j \in 1..(n + 1) /\ j + 1 \in 1..(n + 1)
    BY <1>1
  <2>2. /\ Whole(j) => C(j) = W(j)
        /\ IsPrefix(C(j), W(j))
    <3>1. k <= n
      BY <1>1
    <3> QED
      BY <1>8, <2>1, <3>1
  <2>3. /\ C(j) \in Seq(Tokens) /\ W(j) \in Seq(Tokens)
        /\ C(j + 1) \in Seq(Tokens) /\ W(j + 1) \in Seq(Tokens)
    BY <1>2, <2>1
  <2>4. CASE Op(p, j) = "write"
    <3>1. C(j) = W(j)
      BY <1>6, <2>2, <2>4
    <3>2. C(j + 1) = W(j + 1)
      BY <1>3, <2>4, <3>1 DEF Writes
    <3>3. IsPrefix(C(j + 1), W(j + 1))
      BY <2>3, <3>2, PrefixElements
    <3> QED
      BY <2>1, <3>2, <3>3
  <2>5. CASE Op(p, j) # "write"
    <3>1. C(j + 1) = C(j)
      <4>1. C(j + 1) = C(j) \o <<>>
        BY <1>3, <2>5
      <4> QED
        BY <2>3, <4>1
    <3>2. IsPrefix(W(j), W(j + 1))
      <4>1. PICK m \in Seq(Tokens) : W(j + 1) = W(j) \o m
        <5>1. Msg(p, j) \in Seq(Tokens) /\ <<>> \in Seq(Tokens)
          BY <1>4
        <5> QED
          BY <1>3, <5>1
      <4> QED
        BY <2>3, <4>1, PrefixOfConcat
    <3>3. IsPrefix(C(j + 1), W(j + 1))
      BY <2>2, <2>3, <3>1, <3>2, PrefixTransitive
    <3>4. ASSUME Whole(j + 1) PROVE C(j + 1) = W(j + 1)
      <4>1. Op(p, j) \notin Writes /\ Whole(j)
        BY <2>1, <2>5, <3>4
      <4>2. W(j + 1) = W(j) \o <<>>
        BY <1>3, <4>1
      <4>3. W(j + 1) = W(j)
        BY <2>3, <4>2
      <4> QED
        BY <2>2, <3>1, <4>1, <4>3
    <3> QED
      BY <2>1, <3>3, <3>4
  <2> QED
    BY <2>4, <2>5
<1> HIDE DEF T
<1>9. \A k \in Nat : k \in T
  BY <1>7, <1>8, Induction
<1>10. i - 1 \in Nat /\ i - 1 <= n /\ (i - 1) + 1 = i
  BY <1>1 DEF n
<1>11. (Whole(i) => C(i) = W(i)) /\ IsPrefix(C(i), W(i))
  BY <1>9, <1>10 DEF T
<1> QED
  BY <1>11 DEF C, W

LEMMA WrittenNone ==
  ASSUME NEW p \in DOMAIN Programs, NEW broken
  PROVE  HasWritten(p, 1, 0, <<>>, broken)
<1>1. Earlier(p, Writes, 1) = <<>>
  BY EarlierNone
<1>2. ASSUME 1 \in DOMAIN Programs[p] PROVE <<>> \o SubSeq(Msg(p, 1), 1, 0) = <<>>
  <2>1. Msg(p, 1) \in Seq(Tokens)
    BY <1>2, PartsAre
  <2> QED
    BY <2>1
<1> QED
  BY <1>1, <1>2 DEF HasWritten, Written

(* A part is written.                                                      *)
LEMMA WrittenPart ==
  ASSUME NEW p \in DOMAIN Programs, NEW i \in DOMAIN Programs[p], Op(p, i) \in Writes,
         NEW k \in Nat, NEW n \in 1..(Len(Msg(p, i)) - k)
  PROVE  LET part == SubSeq(Msg(p, i), k + 1, k + n)
         IN  /\ Written(p, i, k) \in Seq(Tokens) /\ part \in Seq(Tokens) /\ part # <<>>
             /\ Written(p, i, k) \o part = Written(p, i, k + n)
             /\ IsPrefix(Written(p, i, k + n), Messages(p, Writes))
<1> DEFINE m == Msg(p, i)
           W == Earlier(p, Writes, i)
<1>1. /\ m \in Seq(Tokens) /\ i \in 1..(Len(Programs[p]) + 1) /\ i + 1 \in 1..(Len(Programs[p]) + 1)
  BY PartsAre
<1>2. W \in Seq(Tokens)
  BY <1>1, EarlierType
<1>3. Earlier(p, Writes, i + 1) = W \o m
  BY EarlierNext
<1>4. /\ Messages(p, Writes) \in Seq(Tokens)
      /\ IsPrefix(W \o m, Messages(p, Writes))
  BY <1>1, <1>3, EarlierIsPrefix
<1>5. /\ Written(p, i, k) = W \o SubSeq(m, 1, k)
      /\ Written(p, i, k + n) = W \o SubSeq(m, 1, k + n)
  BY DEF Written
<1> HIDE DEF m, W
<1>6. n \in Nat /\ k + n \in 0..Len(m) /\ k \in 0..Len(m) /\ k \in (1 - 1)..Len(m)
  BY <1>1 DEF m
<1>7. /\ SubSeq(m, 1, k) \in Seq(Tokens) /\ SubSeq(m, 1, k + n) \in Seq(Tokens)
      /\ SubSeq(m, k + 1, k + n) \in Seq(Tokens) /\ Len(SubSeq(m, k + 1, k + n)) = n
  BY <1>1, <1>6
<1>8. SubSeq(m, 1, k) \o SubSeq(m, k + 1, k + n) = SubSeq(m, 1, k + n)
  BY <1>1, <1>6, ConcatAdjacentSubSeq
<1>9. (W \o SubSeq(m, 1, k)) \o SubSeq(m, k + 1, k + n) = W \o SubSeq(m, 1, k + n)
  <2>1. (W \o SubSeq(m, 1, k)) \o SubSeq(m, k + 1, k + n) =
          W \o (SubSeq(m, 1, k) \o SubSeq(m, k + 1, k + n))
    BY <1>2, <1>7, Associative, Zenon
  <2> QED
    BY <1>8, <2>1, Zenon
<1>10. IsPrefix(W \o SubSeq(m, 1, k + n), W \o m)
  BY <1>1, <1>2, <1>6, PrefixTruncated
<1>11. /\ W \o SubSeq(m, 1, k) \in Seq(Tokens) /\ W \o SubSeq(m, 1, k + n) \in Seq(Tokens)
       /\ W \o m \in Seq(Tokens)
  BY <1>1, <1>2, <1>7
<1>12. IsPrefix(W \o SubSeq(m, 1, k + n), Messages(p, Writes))
  BY <1>4, <1>10, <1>11, PrefixTransitive, Zenon
<1>13. SubSeq(m, k + 1, k + n) # <<>>
  BY <1>6, <1>7
<1> QED
  BY <1>5, <1>7, <1>9, <1>11, <1>12, <1>13, Zenon DEF m

(* A call is done: it has written all, or need not have.                   *)
LEMMA WrittenCall ==
  ASSUME NEW p \in DOMAIN Programs, NEW i \in DOMAIN Programs[p], NEW k, NEW m, NEW broken,
         HasWritten(p, i, k, m, broken),
         Op(p, i) \in Writes => k \in 0..Len(Msg(p, i)),
         \/ Op(p, i) \notin Writes
         \/ k = Len(Msg(p, i))
         \/ Op(p, i) = "writeSome"
         \/ (Op(p, i) = "writeQuietly" /\ broken)
  PROVE  HasWritten(p, i + 1, 0, m, broken)
<1> DEFINE n == Len(Programs[p])
           W == Earlier(p, Writes, i)
           C == Earlier(p, {"write"}, i)
<1>1. /\ n \in Nat /\ DOMAIN Programs[p] = 1..n /\ Msg(p, i) \in Seq(Tokens)
  BY PartsAre
<1>2. i \in 1..(n + 1) /\ i + 1 \in 1..(n + 1)
  BY <1>1
<1>3. W \in Seq(Tokens) /\ C \in Seq(Tokens) /\ Earlier(p, Writes, i + 1) \in Seq(Tokens)
  BY <1>2, EarlierType
<1>4. Earlier(p, Writes, i + 1) = W \o (IF Op(p, i) \in Writes THEN Msg(p, i) ELSE <<>>)
  BY EarlierNext
<1>5. Op(p, i) # "write" => Earlier(p, {"write"}, i + 1) = C
  <2>1. Earlier(p, {"write"}, i + 1) = C \o (IF Op(p, i) \in {"write"} THEN Msg(p, i) ELSE <<>>)
    BY EarlierNext
  <2> QED
    BY <1>3, <2>1
<1>6. Written(p, i + 1, 0) = Earlier(p, Writes, i + 1)
  <2>1. ASSUME i + 1 \in DOMAIN Programs[p]
        PROVE  Earlier(p, Writes, i + 1) \o SubSeq(Msg(p, i + 1), 1, 0) = Earlier(p, Writes, i + 1)
    <3>1. Msg(p, i + 1) \in Seq(Tokens)
      BY <2>1, PartsAre
    <3>2. SubSeq(Msg(p, i + 1), 1, 0) = <<>>
      BY <3>1
    <3> QED
      BY <1>3, <3>2
  <2> QED
    BY <2>1 DEF Written
<1>7. IsPrefix(C, W)
  BY <1>2, ClaimedIsWritten
<1> HIDE DEF W, C, n
<1>8. CASE CutShort(p, i, m, broken)
  <2>1. Op(p, i) # "write" /\ IsPrefix(Earlier(p, {"write"}, i + 1), m)
    BY <1>1, <1>5, <1>8 DEF CutShort, C, n
  <2>2. PICK j \in 1..(i - 1) : Op(p, j) \in Writes \ {"write"}
    BY <1>8 DEF CutShort
  <2>3. j \in 1..((i + 1) - 1)
    BY <1>1
  <2>4. \A l \in (i + 1)..n : Op(p, l) # "write" /\ (broken \/ Op(p, l) \notin Writes)
    BY <1>1, <1>8 DEF CutShort, n
  <2> QED
    BY <2>1, <2>2, <2>3, <2>4 DEF HasWritten, CutShort, n
<1>9. CASE m = Written(p, i, k) /\ Op(p, i) \notin Writes
  <2>1. m = W /\ Earlier(p, Writes, i + 1) = W \o <<>>
    BY <1>4, <1>9 DEF Written, W
  <2>2. W \o <<>> = W
    BY <1>3
  <2> QED
    BY <1>6, <2>1, <2>2 DEF HasWritten
<1>10. CASE m = Written(p, i, k) /\ Op(p, i) \in Writes /\ k = Len(Msg(p, i))
  <2>1. m = W \o SubSeq(Msg(p, i), 1, k)
    BY <1>10 DEF Written, W
  <2>2. SubSeq(Msg(p, i), 1, k) = Msg(p, i)
    BY <1>1, <1>10
  <2> QED
    BY <1>4, <1>6, <1>10, <2>1, <2>2 DEF HasWritten
<1>11. CASE /\ m = Written(p, i, k)
            /\ Op(p, i) = "writeSome" \/ (Op(p, i) = "writeQuietly" /\ broken)
  <2>1. Op(p, i) \in Writes \ {"write"} /\ i \in 1..((i + 1) - 1)
    BY <1>1, <1>11 DEF Writes
  <2>2. m = W \o SubSeq(Msg(p, i), 1, k)
    BY <2>1 , <1>11 DEF Written, W
  <2>3. SubSeq(Msg(p, i), 1, k) \in Seq(Tokens)
    <3>1. k \in 0..Len(Msg(p, i))
      BY <2>1
    <3> QED
      BY <1>1, <3>1
  <2>4. IsPrefix(W, m) /\ m \in Seq(Tokens)
    <3>1. W \o SubSeq(Msg(p, i), 1, k) \in Seq(Tokens)
      BY <1>3, <2>3
    <3>2. IsPrefix(W, W \o SubSeq(Msg(p, i), 1, k))
      BY <1>3, <2>3, PrefixOfConcat, Zenon
    <3> QED
      BY <2>2, <3>1, <3>2, Zenon
  <2>5. IsPrefix(C, m)
    BY <1>3, <1>7, <2>4, PrefixTransitive
  <2>6. \A l \in (i + 1)..n : Op(p, l) # "write" /\ (broken \/ Op(p, l) \notin Writes)
    <3> TAKE l \in (i + 1)..n
    <3>1. l \in DOMAIN Programs[p] /\ l > i
      BY <1>1
    <3>2. Op(p, l) \in {Programs[p][j].op : j \in {h \in DOMAIN Programs[p] : h > i}}
      BY <3>1 DEF Op
    <3>3. Op(p, i) = "writeSome" => Op(p, l) \notin Writes
      BY <3>2, CallsAssumption DEF Later, Op
    <3>4. Op(p, i) = "writeQuietly" => Op(p, l) # "write"
      BY <3>2, CallsAssumption DEF Later, Op
    <3> QED
      BY <1>11, <3>3, <3>4 DEF Writes
  <2>7. CutShort(p, i + 1, m, broken)
    <3>1. IsPrefix(Earlier(p, {"write"}, i + 1), m)
      BY <1>5, <1>11, <2>5
    <3> QED
      BY <2>1, <2>6, <3>1 DEF CutShort, n
  <2> QED
    BY <2>7 DEF HasWritten
<1>12. m = Written(p, i, k) \/ CutShort(p, i, m, broken)
  BY DEF HasWritten
<1> QED
  <2>1. ASSUME m = Written(p, i, k) PROVE HasWritten(p, i + 1, 0, m, broken)
    <3>1. CASE Op(p, i) \notin Writes
      BY <1>9, <2>1, <3>1
    <3>2. CASE Op(p, i) \in Writes /\ k = Len(Msg(p, i))
      BY <1>10, <2>1, <3>2
    <3>3. CASE Op(p, i) = "writeSome" \/ (Op(p, i) = "writeQuietly" /\ broken)
      BY <1>11, <2>1, <3>3
    <3> QED
      BY <3>1, <3>2, <3>3
  <2> QED
    BY <1>8, <1>12, <2>1

(* A reset can only end a call sooner.                                     *)
LEMMA WrittenKept ==
  ASSUME NEW p, NEW i, NEW k, NEW m, NEW broken, NEW later, broken => later,
         HasWritten(p, i, k, m, broken)
  PROVE  HasWritten(p, i, k, m, later)
BY DEF HasWritten, CutShort

(* After the last call all whole writes are written.                       *)
LEMMA WrittenAll ==
  ASSUME NEW p \in DOMAIN Programs, NEW k, NEW m \in Seq(Tokens), NEW broken,
         HasWritten(p, Len(Programs[p]) + 1, k, m, broken)
  PROVE  IsPrefix(Messages(p, {"write"}), m)
<1> DEFINE n == Len(Programs[p])
<1>1. n \in Nat /\ DOMAIN Programs[p] = 1..n
  BY PartsAre
<1>2. /\ Earlier(p, {"write"}, n + 1) = Messages(p, {"write"})
      /\ Earlier(p, Writes, n + 1) = Messages(p, Writes)
  BY EarlierAll
<1>3. IsPrefix(Earlier(p, {"write"}, n + 1), Earlier(p, Writes, n + 1))
  <2>1. n + 1 \in 1..(n + 1)
    BY <1>1
  <2> QED
    BY <2>1, ClaimedIsWritten
<1>4. CASE m = Written(p, n + 1, k)
  <2>1. n + 1 \notin DOMAIN Programs[p]
    BY <1>1
  <2>2. m = Earlier(p, Writes, n + 1)
    BY <1>4, <2>1 DEF Written
  <2> QED
    BY <1>2, <1>3, <2>2
<1>5. CASE CutShort(p, n + 1, m, broken)
  BY <1>2, <1>5 DEF CutShort
<1> QED
  BY <1>4, <1>5 DEF HasWritten

(* A program that says all before it ends its stream has said all then.    *)
LEMMA SaidAll ==
  ASSUME NEW p \in DOMAIN Programs, NEW i \in 1..(Len(Programs[p]) + 1), NEW k, NEW m, NEW broken,
         HasWritten(p, i, k, m, broken), SaysAll(p),
         i \in DOMAIN Programs[p] => Op(p, i) = "shutdownSend"
  PROVE  m = Messages(p, Writes)
<1> DEFINE n == Len(Programs[p])
<1>1. n \in Nat /\ DOMAIN Programs[p] = 1..n
  BY PartsAre
<1>2. \A j \in 1..n : Op(p, j) \in {"write", "readToEnd", "shutdownSend"}
  BY <1>1 DEF SaysAll, Op
<1>3. ~ CutShort(p, i, m, broken)
  <2>1. \A j \in 1..(i - 1) : j \in 1..n
    BY <1>1
  <2>2. \A j \in 1..(i - 1) : Op(p, j) \notin Writes \ {"write"}
    BY <1>2, <2>1 DEF Writes
  <2> QED
    BY <2>2 DEF CutShort
<1>4. m = Earlier(p, Writes, i)
  BY <1>3 DEF HasWritten, Written, Writes
<1>5. \A j \in i..n : Op(p, j) \notin Writes
  <2> TAKE j \in i..n
  <2>1. i \in DOMAIN Programs[p] /\ j \in DOMAIN Programs[p] /\ Op(p, i) = "shutdownSend"
    BY <1>1
  <2>2. j > i => Op(p, j) \notin Writes
    BY <2>1 DEF SaysAll, Op
  <2> QED
    BY <1>1, <2>1, <2>2 DEF Writes
<1> QED
  BY <1>4, <1>5, EarlierIsPrefix

-------------------------------------------------------------------------------
(* What a program has read.                                                *)
LEMMA ReceivedNone ==
  ASSUME NEW p \in DOMAIN Programs
  PROVE  HasReceived(p, 1, <<>>, <<>>)
<1>1. Earlier(p, Reads, 1) = <<>>
  BY EarlierNone
<1> QED
  BY <1>1 DEF HasReceived

(* A part is read.                                                         *)
LEMMA ReceivedPart ==
  ASSUME NEW p \in DOMAIN Programs, NEW i \in 1..(Len(Programs[p]) + 1),
         NEW b \in Seq(Tokens), NEW m \in Seq(Tokens), NEW part \in Seq(Tokens),
         HasReceived(p, i, b, m)
  PROVE  HasReceived(p, i, b \o part, m \o part)
<1>1. Len(Earlier(p, Reads, i)) \in Nat
  <2>1. Earlier(p, Reads, i) \in Seq(Tokens)
    BY EarlierType
  <2> QED
    BY <2>1
<1>2. /\ Len(b \o part) = Len(b) + Len(part) /\ Len(m \o part) = Len(m) + Len(part)
      /\ \A k \in 1..Len(b) : (b \o part)[k] = b[k]
      /\ \A k \in 1..Len(m) : (m \o part)[k] = m[k]
      /\ \A k \in 1..Len(part) : /\ (b \o part)[Len(b) + k] = part[k]
                                 /\ (m \o part)[Len(m) + k] = part[k]
  BY ConcatElements
<1>3. /\ Len(Earlier(p, Reads, i)) + Len(b) <= Len(m)
      /\ \A k \in 1..Len(b) : b[k] = m[Len(m) - Len(b) + k]
  BY DEF HasReceived
<1>4. Len(b) \in Nat /\ Len(m) \in Nat /\ Len(part) \in Nat
  OBVIOUS
<1> DEFINE b1 == b \o part
           m1 == m \o part
<1> HIDE DEF b1, m1
<1>5. Len(Earlier(p, Reads, i)) + Len(b1) <= Len(m1)
  BY <1>1, <1>2, <1>3, <1>4 DEF b1, m1
<1>6. ASSUME NEW k \in 1..Len(b1) PROVE b1[k] = m1[Len(m1) - Len(b1) + k]
  <2>1. Len(m1) - Len(b1) + k = Len(m) - Len(b) + k
    BY <1>2, <1>4 DEF b1, m1
  <2>2. CASE k <= Len(b)
    <3>1. k \in 1..Len(b) /\ Len(m) - Len(b) + k \in 1..Len(m)
      BY <1>1, <1>3, <1>4, <2>2
    <3> QED
      BY <1>2, <1>3, <2>1, <3>1 DEF b1, m1
  <2>3. CASE ~ (k <= Len(b))
    <3>1. PICK l \in 1..Len(part) : k = Len(b) + l /\ Len(m) - Len(b) + k = Len(m) + l
      <4>1. /\ k - Len(b) \in 1..Len(part) /\ k = Len(b) + (k - Len(b))
            /\ Len(m) - Len(b) + k = Len(m) + (k - Len(b))
        BY <1>2, <1>4, <2>3 DEF b1
      <4> QED
        BY <4>1
    <3> QED
      BY <1>2, <2>1, <3>1 DEF b1, m1
  <2> QED
    BY <2>2, <2>3
<1>7. HasReceived(p, i, b1, m1)
  BY <1>5, <1>6 DEF HasReceived
<1> QED
  BY <1>7 DEF b1, m1

(* A call is done: it has read what it waits for, by their number, or up   *)
(* to the line feed, which is where the program expects it, or by the end  *)
(* of the stream.                                                          *)
LEMMA ReceivedCall ==
  ASSUME NEW p \in DOMAIN Programs, NEW i \in DOMAIN Programs[p],
         NEW b \in Seq(Tokens), NEW m \in Seq(Tokens), NEW says \in Seq(Tokens),
         HasReceived(p, i, b, m), IsPrefix(m, says),
         IsPrefix(Messages(p, Reads), says) \/ IsPrefix(says, Messages(p, Reads)),
         \/ Op(p, i) \notin Reads
         \/ Op(p, i) \in {"drain", "drainFor"}
         \/ Op(p, i) = "readSize" /\ Len(b) = Len(Msg(p, i))
         \/ Op(p, i) = "readUntil" /\ Contains(b, "LF")
         \/ IsPrefix(Messages(p, Reads), m)
  PROVE  HasReceived(p, i + 1, <<>>, m)
<1> DEFINE R == Earlier(p, Reads, i)
           line == Msg(p, i)
           awaits == Messages(p, Reads)
           S == Earlier(p, Reads, i + 1)
<1>1. i \in 1..(Len(Programs[p]) + 1) /\ i + 1 \in 1..(Len(Programs[p]) + 1)
  <2>1. Len(Programs[p]) \in Nat /\ DOMAIN Programs[p] = 1..Len(Programs[p])
    BY PartsAre
  <2> QED
    BY <2>1
<1>2. R \in Seq(Tokens) /\ S \in Seq(Tokens)
  BY <1>1, EarlierType
<1>3. line \in Seq(Tokens)
  BY PartsAre
<1>4. awaits \in Seq(Tokens) /\ IsPrefix(S, awaits)
  BY <1>1, EarlierIsPrefix
<1>5. Len(R) + Len(b) <= Len(m) /\ \A k \in 1..Len(b) : b[k] = m[Len(m) - Len(b) + k]
  BY DEF HasReceived
<1>6. S = R \o (IF Op(p, i) \in Reads THEN line ELSE <<>>)
  BY EarlierNext
<1>7. /\ IsPrefix(awaits, says) \/ IsPrefix(says, awaits)
      /\ \/ Op(p, i) \notin Reads
         \/ Op(p, i) \in {"drain", "drainFor"}
         \/ Op(p, i) = "readSize" /\ Len(b) = Len(line)
         \/ Op(p, i) = "readUntil" /\ Contains(b, "LF")
         \/ IsPrefix(awaits, m)
  OBVIOUS
<1>8. /\ Op(p, i) \in {"drain", "drainFor"} => line = <<>>
      /\ Op(p, i) = "readUntil" => \A k \in 1..Len(line) : line[k] = "LF" => k = Len(line)
  BY <1>3, CallsAssumption DEF Later, Op, Msg
<1> SUFFICES Len(S) <= Len(m)
  BY <1>2 DEF HasReceived
<1> HIDE DEF R, S, line, awaits
<1>9. Op(p, i) \in Reads => S = R \o line
  BY <1>6
<1>10. CASE Op(p, i) \notin Reads \/ Op(p, i) \in {"drain", "drainFor"}
  <2>1. S = R \o <<>>
    BY <1>6, <1>8, <1>10
  <2>2. S = R
    BY <1>2, <2>1
  <2> QED
    BY <1>2, <1>5, <2>2
<1>11. CASE Op(p, i) = "readSize" /\ Len(b) = Len(line)
  <2>1. S = R \o line
    BY <1>9, <1>11 DEF Reads
  <2>2. Len(S) = Len(R) + Len(line)
    BY <1>2, <1>3, <2>1
  <2> QED
    BY <1>5, <1>11, <2>2
<1>12. CASE Op(p, i) = "readUntil" /\ Contains(b, "LF")
  <2>1. PICK k \in 1..Len(b) : b[k] = "LF"
    BY <1>12 DEF Contains
  <2>2. PICK q \in 1..Len(m) : /\ m[q] = "LF" /\ q = Len(m) - Len(b) + k /\ q > Len(R)
    <3>1. Len(R) \in Nat /\ Len(b) \in Nat /\ Len(m) \in Nat
      BY <1>2
    <3>2. Len(m) - Len(b) + k \in 1..Len(m) /\ Len(m) - Len(b) + k > Len(R)
      BY <1>5, <3>1
    <3> QED
      BY <1>5, <2>1, <3>2
  <2>3. SUFFICES ASSUME Len(m) < Len(S) PROVE FALSE
    BY <1>2
  <2>4. Len(S) = Len(R) + Len(line) /\ \A j \in 1..Len(line) : S[Len(R) + j] = line[j]
    <3>1. S = R \o line
      BY <1>9, <1>12 DEF Reads
    <3> QED
      BY <1>2, <1>3, <3>1, ConcatElements
  <2>5. q \in 1..Len(says) /\ says[q] = "LF"
    BY <2>2, PrefixElements
  <2>6. q \in 1..Len(S) /\ q \in 1..Len(awaits) /\ S[q] = awaits[q]
    <3>1. Len(S) <= Len(awaits) /\ \A j \in 1..Len(S) : S[j] = awaits[j]
      BY <1>2, <1>4, PrefixElements
    <3>2. q \in 1..Len(S) /\ q \in 1..Len(awaits)
      BY <1>2, <1>4, <2>2, <2>3, <3>1
    <3> QED
      BY <3>1, <3>2
  <2>7. awaits[q] = says[q]
    <3>1. CASE IsPrefix(awaits, says)
      BY <1>4, <2>6, <3>1, PrefixElements
    <3>2. CASE IsPrefix(says, awaits)
      BY <1>4, <2>5, <3>2, PrefixElements
    <3> QED
      BY <1>7, <3>1, <3>2
  <2>8. PICK j \in 1..Len(line) : q = Len(R) + j /\ j < Len(line)
    <3>1. q - Len(R) \in 1..Len(line) /\ q = Len(R) + (q - Len(R)) /\ q - Len(R) < Len(line)
      BY <1>2, <1>3, <2>2, <2>3, <2>4
    <3> QED
      BY <3>1
  <2>9. line[j] = "LF"
    BY <2>4, <2>5, <2>6, <2>7, <2>8
  <2> QED
    BY <1>8, <1>12, <2>8, <2>9
<1>13. CASE IsPrefix(awaits, m)
  <2>1. IsPrefix(S, m)
    BY <1>2, <1>4, <1>13, PrefixTransitive
  <2> QED
    BY <1>2, <2>1, PrefixElements
<1> QED
  BY <1>7, <1>10, <1>11, <1>12, <1>13

(* After the last call all that is waited for is read.                     *)
LEMMA ReceivedAll ==
  ASSUME NEW p \in DOMAIN Programs,
         NEW b \in Seq(Tokens), NEW m \in Seq(Tokens), NEW says \in Seq(Tokens),
         HasReceived(p, Len(Programs[p]) + 1, b, m), IsPrefix(m, says),
         IsPrefix(Messages(p, Reads), says) \/ IsPrefix(says, Messages(p, Reads))
  PROVE  IsPrefix(Messages(p, Reads), m)
<1> DEFINE awaits == Messages(p, Reads)
<1>1. awaits \in Seq(Tokens) /\ Earlier(p, Reads, Len(Programs[p]) + 1) = awaits
  <2>1. Len(Programs[p]) + 1 \in 1..(Len(Programs[p]) + 1)
    BY PartsAre
  <2> QED
    BY <2>1, EarlierAll, EarlierIsPrefix
<1>2. Len(awaits) <= Len(m)
  BY <1>1 DEF HasReceived
<1>3. IsPrefix(awaits, says) \/ IsPrefix(says, awaits)
  OBVIOUS
<1> HIDE DEF awaits
<1>4. Len(m) <= Len(says) /\ \A k \in 1..Len(m) : m[k] = says[k]
  BY PrefixElements
<1>5. ASSUME NEW k \in 1..Len(awaits) PROVE awaits[k] = m[k]
  <2>1. k \in 1..Len(m) /\ k \in 1..Len(says)
    BY <1>1, <1>2, <1>4
  <2>2. awaits[k] = says[k]
    BY <1>1, <1>3, <2>1, PrefixElements
  <2> QED
    BY <1>4, <2>1, <2>2
<1>6. IsPrefix(awaits, m)
  BY <1>1, <1>2, <1>5, PrefixElements
<1> QED
  BY <1>6 DEF awaits

-------------------------------------------------------------------------------
(* The two sides.                                                          *)
LEMMA SidesAre ==
  ASSUME NEW s \in Sides
  PROVE  /\ Other(s) \in Sides /\ Other(s) # s /\ Other(Other(s)) = s
         /\ \A t \in Sides : t = s \/ t = Other(s)
BY DEF Sides, Other

LEMMA MessageType ==
  ASSUME NEW pair \in Pairs, NEW s \in Sides
  PROVE  /\ pair[s] \in DOMAIN Programs
         /\ Message(pair, s) \in Seq(Tokens)
         /\ Messages(pair[s], Reads) \in Seq(Tokens)
         /\ Messages(pair[s], {"write"}) \in Seq(Tokens)
         /\ pair[s] # "netcat" => Message(pair, s) = Messages(pair[s], Writes)
<1>1. pair[s] \in DOMAIN Programs /\ pair[Other(s)] \in DOMAIN Programs
  BY PairsAssumption, SidesAre
<1>2. \A p \in DOMAIN Programs : \A ops : Messages(p, ops) \in Seq(Tokens)
  <2> TAKE p \in DOMAIN Programs
  <2> TAKE ops
  <2>1. 1 \in 1..(Len(Programs[p]) + 1)
    BY PartsAre
  <2> QED
    BY <2>1, EarlierIsPrefix
<1>3. <<"LF", "!">> \in Seq(Tokens)
  BY ProgramsAssumption
<1> QED
  BY <1>1, <1>2, <1>3 DEF Message

LEMMA Types ==
  ASSUME TypeOK, NEW s \in Sides
  PROVE  /\ program \in Pairs /\ program[s] \in DOMAIN Programs
         /\ pc[s] \in 1..(Len(Programs[program[s]]) + 1)
         /\ Len(Programs[program[s]]) \in Nat
         /\ DOMAIN Programs[program[s]] = 1..Len(Programs[program[s]])
         /\ total[s] \in Nat /\ buffer[s] \in Seq(Tokens)
         /\ sent[s] \in Seq(Tokens) /\ received[s] \in Seq(Tokens) /\ pipe[s] \in Seq(Tokens)
         /\ Message(program, s) \in Seq(Tokens)
         /\ Messages(program[s], Reads) \in Seq(Tokens)
         /\ Messages(program[s], {"write"}) \in Seq(Tokens)
         /\ pc[s] <= Len(Programs[program[s]]) => pc[s] \in DOMAIN Programs[program[s]]
<1>1. program \in Pairs /\ pc[s] \in 1..(Len(Programs[program[s]]) + 1)
  BY DEF TypeOK
<1>2. /\ total[s] \in Nat /\ buffer[s] \in Seq(Tokens)
      /\ sent[s] \in Seq(Tokens) /\ received[s] \in Seq(Tokens) /\ pipe[s] \in Seq(Tokens)
  BY DEF TypeOK
<1>3. /\ program[s] \in DOMAIN Programs /\ Message(program, s) \in Seq(Tokens)
      /\ Messages(program[s], Reads) \in Seq(Tokens)
      /\ Messages(program[s], {"write"}) \in Seq(Tokens)
  BY <1>1, MessageType
<1>4. /\ Len(Programs[program[s]]) \in Nat
      /\ DOMAIN Programs[program[s]] = 1..Len(Programs[program[s]])
  BY <1>3, PartsAre
<1>5. pc[s] <= Len(Programs[program[s]]) => pc[s] \in DOMAIN Programs[program[s]]
  BY <1>1, <1>4
<1> QED
  BY <1>1, <1>2, <1>3, <1>4, <1>5

(* The call a side is at.                                                  *)
LEMMA AtCall ==
  ASSUME TypeOK, NEW s \in Sides, NEW ops, At(s, ops)
  PROVE  /\ Running(s) /\ result[s] = "running" /\ program[s] # "netcat"
         /\ pc[s] \in DOMAIN Programs[program[s]]
         /\ Call(s).op = Op(program[s], pc[s]) /\ Call(s).msg = Msg(program[s], pc[s])
         /\ Op(program[s], pc[s]) \in ops
         /\ Op(program[s], pc[s]) \in Writes => total[s] \in 0..Len(Msg(program[s], pc[s]))
<1>1. /\ Running(s) /\ result[s] = "running" /\ program[s] # "netcat"
      /\ pc[s] <= Len(Programs[program[s]])
      /\ Call(s).op = Op(program[s], pc[s]) /\ Call(s).msg = Msg(program[s], pc[s])
      /\ Op(program[s], pc[s]) \in ops
  BY DEF At, Running, Call, Op, Msg
<1>2. pc[s] \in DOMAIN Programs[program[s]] /\ total[s] \in Nat
  BY <1>1, Types
<1>3. ASSUME Op(program[s], pc[s]) \in Writes
      PROVE  total[s] \in 0..Len(Msg(program[s], pc[s]))
  <2>1. At(s, Writes)
    BY <1>1, <1>3 DEF At
  <2>2. total[s] <= Len(Msg(program[s], pc[s]))
    BY <1>1, <2>1 DEF TypeOK
  <2>3. Msg(program[s], pc[s]) \in Seq(Tokens)
    BY <1>2, PartsAre, Types
  <2> QED
    BY <1>2, <2>2, <2>3
<1> QED
  BY <1>1, <1>2, <1>3

(* What a side has read is a beginning of what the other says.             *)
LEMMA ReceivedIsPrefix ==
  ASSUME IInv, NEW s \in Sides
  PROVE  /\ IsPrefix(received[s], sent[Other(s)])
         /\ IsPrefix(received[s], Message(program, Other(s)))
         /\ \/ IsPrefix(Messages(program[s], Reads), Message(program, Other(s)))
            \/ IsPrefix(Message(program, Other(s)), Messages(program[s], Reads))
<1>1. TypeOK /\ Other(s) \in Sides /\ Other(Other(s)) = s
  BY SidesAre DEF IInv
<1>2. /\ received[s] \in Seq(Tokens) /\ pipe[Other(s)] \in Seq(Tokens)
      /\ sent[Other(s)] \in Seq(Tokens) /\ Message(program, Other(s)) \in Seq(Tokens)
      /\ program \in Pairs
  BY <1>1, Types
<1>3. IsPrefix(received[s] \o pipe[Other(s)], sent[Other(s)])
  BY <1>1 DEF IInv, PipeOK
<1>4. IsPrefix(received[s], received[s] \o pipe[Other(s)])
  BY <1>2, PrefixOfConcat
<1>5. IsPrefix(received[s], sent[Other(s)])
  <2>1. received[s] \o pipe[Other(s)] \in Seq(Tokens)
    BY <1>2
  <2> QED
    BY <1>2, <1>3, <1>4, <2>1, PrefixTransitive, Zenon
<1>6. IsPrefix(sent[Other(s)], Message(program, Other(s)))
  BY <1>1 DEF IInv, SentOK
<1>7. IsPrefix(received[s], Message(program, Other(s)))
  BY <1>2, <1>5, <1>6, PrefixTransitive, Zenon
<1> QED
  BY <1>2, <1>5, <1>7, PartnersAssumption

(* What a step leaves alone.                                               *)
LEMMA SentKept ==
  ASSUME NEW t \in Sides, SentOK(t), program' = program, pc'[t] = pc[t], total'[t] = total[t],
         sent'[t] = sent[t], result'[t] = "running" => result[t] = "running", reset => reset'
  PROVE  SentOK(t)'
<1>1. IsPrefix(sent'[t], Message(program', t))
  BY DEF SentOK
<1>2. ASSUME Running(t)' PROVE HasWritten(program'[t], pc'[t], total'[t], sent'[t], reset')
  <2>1. Running(t)
    BY <1>2 DEF Running
  <2>2. HasWritten(program[t], pc[t], total[t], sent[t], reset)
    BY <2>1 DEF SentOK
  <2>3. HasWritten(program[t], pc[t], total[t], sent[t], reset')
    BY <2>2, WrittenKept
  <2> QED
    BY <2>3
<1> QED
  BY <1>1, <1>2 DEF SentOK

LEMMA ReceivedKept ==
  ASSUME NEW t \in Sides, ReceivedOK(t), program' = program, pc'[t] = pc[t],
         buffer'[t] = buffer[t], received'[t] = received[t],
         result'[t] = "running" => result[t] = "running"
  PROVE  ReceivedOK(t)'
BY DEF ReceivedOK, Running

LEMMA EndKept ==
  ASSUME NEW t \in Sides, EndOK(t), program' = program, sent'[t] = sent[t],
         t \in ended' => t \in ended, reset => reset'
  PROVE  EndOK(t)'
BY DEF EndOK

LEMMA PipeKept ==
  ASSUME NEW t \in Sides, PipeOK(t), UNCHANGED <<sent, received, pipe>>, reset' = reset
  PROVE  PipeOK(t)'
BY DEF PipeOK

(* The types of a side that does not move.                                 *)
LEMMA TypesKept ==
  ASSUME TypeOK, NEW t \in Sides, program' = program, pc'[t] = pc[t], total'[t] = total[t],
         buffer'[t] = buffer[t], result'[t] = "running" => result[t] = "running"
  PROVE  /\ pc'[t] \in 1..(Len(Programs[program'[t]]) + 1)
         /\ At(t, Writes)' => total'[t] <= Len(Call(t)'.msg)
         /\ At(t, {"readSize"})' => Len(buffer'[t]) <= Len(Call(t)'.msg)
<1>1. Call(t)' = Call(t)
  BY DEF Call
<1>2. /\ At(t, Writes)' => At(t, Writes)
      /\ At(t, {"readSize"})' => At(t, {"readSize"})
  BY <1>1 DEF At, Running
<1> QED
  BY <1>1, <1>2 DEF TypeOK

-------------------------------------------------------------------------------
(* The invariant holds initially, and every step preserves it.             *)
LEMMA InitIInv == Init => IInv
<1> SUFFICES ASSUME Init PROVE IInv
  OBVIOUS
<1> USE DEF Init
<1>0. <<>> \in Seq(Tokens)
  OBVIOUS
<1>1. /\ program \in Pairs
      /\ \A s \in Sides : /\ pc[s] = 1 /\ total[s] = 0 /\ buffer[s] = <<>> /\ sent[s] = <<>>
                          /\ received[s] = <<>> /\ result[s] = "running" /\ pipe[s] = <<>>
      /\ ended = {} /\ reset = FALSE
  OBVIOUS
<1>2. \A s \in Sides : program[s] \in DOMAIN Programs /\ Message(program, s) \in Seq(Tokens)
  BY <1>1, MessageType
<1>3. TypeOK
  <2>1. /\ pc \in [Sides -> Nat] /\ total \in [Sides -> Nat]
        /\ buffer \in [Sides -> Seq(Tokens)] /\ sent \in [Sides -> Seq(Tokens)]
        /\ received \in [Sides -> Seq(Tokens)] /\ pipe \in [Sides -> Seq(Tokens)]
        /\ result \in [Sides -> {"running", "ok", "error"}]
        /\ ended \subseteq Sides /\ reset \in BOOLEAN
    BY <1>0
  <2>2. ASSUME NEW s \in Sides
        PROVE  /\ pc[s] \in 1..(Len(Programs[program[s]]) + 1)
               /\ At(s, Writes) => total[s] <= Len(Call(s).msg)
               /\ At(s, {"readSize"}) => Len(buffer[s]) <= Len(Call(s).msg)
    <3>1. /\ Len(Programs[program[s]]) \in Nat
          /\ DOMAIN Programs[program[s]] = 1..Len(Programs[program[s]])
          /\ \A i \in DOMAIN Programs[program[s]] : Msg(program[s], i) \in Seq(Tokens)
      BY <1>2, PartsAre
    <3>2. ASSUME pc[s] <= Len(Programs[program[s]]) PROVE Call(s).msg \in Seq(Tokens)
      <4>1. pc[s] \in DOMAIN Programs[program[s]]
        BY <1>1, <3>1, <3>2
      <4> QED
        BY <3>1, <4>1 DEF Call, Msg
    <3>3. Len(buffer[s]) = 0 /\ total[s] = 0
      BY <1>1
    <3>4. ASSUME NEW ops, At(s, ops) PROVE Len(Call(s).msg) \in Nat
      BY <3>2, <3>4 DEF At
    <3> QED
      BY <1>1, <3>1, <3>3, <3>4
  <2> QED
    BY <1>1, <2>1, <2>2 DEF TypeOK
<1>4. ASSUME NEW s \in Sides PROVE SentOK(s) /\ PipeOK(s) /\ ReceivedOK(s) /\ EndOK(s)
  <2>1. IsPrefix(<<>>, Message(program, s))
    BY <1>2, PrefixTrivial
  <2>2. /\ HasWritten(program[s], pc[s], total[s], sent[s], reset)
        /\ HasReceived(program[s], pc[s], buffer[s], received[s])
    BY <1>1, <1>2, WrittenNone, ReceivedNone
  <2>3. received[Other(s)] \o pipe[s] = sent[s]
    <3>1. received[Other(s)] = <<>> /\ pipe[s] = <<>> /\ sent[s] = <<>>
      BY <1>1, SidesAre
    <3> QED
      BY <3>1
  <2>4. IsPrefix(<<>>, <<>>)
    BY <1>0, PrefixTrivial
  <2>5. IsPrefix(received[Other(s)] \o pipe[s], sent[s])
    BY <1>1, <2>3, <2>4
  <2> QED
    BY <1>1, <2>1, <2>2, <2>3, <2>5 DEF SentOK, PipeOK, ReceivedOK, EndOK
<1> QED
  BY <1>3, <1>4 DEF IInv

(* A call is done.                                                         *)
LEMMA AdvanceIInv ==
  ASSUME IInv, NEW s \in Sides, NEW ops, At(s, ops), Advance(s),
         UNCHANGED <<program, transfer, pipe, reset>>,
         \/ ended' = ended
         \/ ended' = ended \cup {s} /\ Call(s).op \in {"shutdownSend", "shutdownBoth"},
         \/ Call(s).op \notin Writes
         \/ total[s] = Len(Call(s).msg)
         \/ Call(s).op = "writeSome"
         \/ (Call(s).op = "writeQuietly" /\ reset),
         \/ Call(s).op \notin Reads
         \/ Call(s).op \in {"drain", "drainFor"}
         \/ (Call(s).op = "readSize" /\ Len(buffer[s]) = Len(Call(s).msg))
         \/ (Call(s).op = "readUntil" /\ Contains(buffer[s], "LF"))
         \/ IsPrefix(Messages(program[s], Reads), received[s])
  PROVE  IInv'
<1> DEFINE p == program[s]
           i == pc[s]
<1>1. TypeOK /\ \A t \in Sides : SentOK(t) /\ PipeOK(t) /\ ReceivedOK(t) /\ EndOK(t)
  BY DEF IInv
<1>2. /\ p \in DOMAIN Programs /\ i \in DOMAIN Programs[p] /\ p # "netcat" /\ Running(s)
      /\ i \in Nat /\ i + 1 \in 1..(Len(Programs[p]) + 1)
      /\ Call(s).op = Op(p, i) /\ Call(s).msg = Msg(p, i)
      /\ Op(p, i) \in Writes => total[s] \in 0..Len(Msg(p, i))
  <2>1. /\ p \in DOMAIN Programs /\ i \in DOMAIN Programs[p] /\ p # "netcat" /\ Running(s)
        /\ DOMAIN Programs[p] = 1..Len(Programs[p]) /\ Len(Programs[p]) \in Nat
        /\ Call(s).op = Op(p, i) /\ Call(s).msg = Msg(p, i)
        /\ Op(p, i) \in Writes => total[s] \in 0..Len(Msg(p, i))
    BY <1>1, AtCall, Types
  <2> QED
    BY <2>1
<1>3. /\ pc' \in [Sides -> Nat] /\ total' \in [Sides -> Nat] /\ buffer' \in [Sides -> Seq(Tokens)]
      /\ pc'[s] = i + 1 /\ total'[s] = 0 /\ buffer'[s] = <<>>
      /\ \A t \in Sides \ {s} : pc'[t] = pc[t] /\ total'[t] = total[t] /\ buffer'[t] = buffer[t]
      /\ result' = result
  BY <1>1, <1>2 DEF Advance, TypeOK
<1>4. /\ program' = program /\ sent' = sent /\ received' = received
      /\ pipe' = pipe /\ reset' = reset
  BY DEF transfer
<1>5. ended' \subseteq Sides /\ \A t \in Sides \ {s} : t \in ended' => t \in ended
  BY <1>1 DEF TypeOK
<1>6. HasWritten(p, i, total[s], sent[s], reset) /\ HasReceived(p, i, buffer[s], received[s])
  BY <1>1, <1>2 DEF SentOK, ReceivedOK
<1>7. HasWritten(p, i + 1, 0, sent[s], reset)
  BY <1>2, <1>6, WrittenCall
<1>8. HasReceived(p, i + 1, <<>>, received[s])
  <2>1. /\ buffer[s] \in Seq(Tokens) /\ received[s] \in Seq(Tokens)
        /\ Message(program, Other(s)) \in Seq(Tokens)
    BY <1>1, SidesAre, Types
  <2>2. /\ IsPrefix(received[s], Message(program, Other(s)))
        /\ \/ IsPrefix(Messages(p, Reads), Message(program, Other(s)))
           \/ IsPrefix(Message(program, Other(s)), Messages(p, Reads))
    BY ReceivedIsPrefix
  <2>3. \/ Op(p, i) \notin Reads
        \/ Op(p, i) \in {"drain", "drainFor"}
        \/ Op(p, i) = "readSize" /\ Len(buffer[s]) = Len(Msg(p, i))
        \/ Op(p, i) = "readUntil" /\ Contains(buffer[s], "LF")
        \/ IsPrefix(Messages(p, Reads), received[s])
    BY <1>2
  <2> HIDE DEF p, i
  <2> QED
    BY <1>2, <1>6, <2>1, <2>2, <2>3, ReceivedCall
<1>9. TypeOK'
  <2>1. ASSUME NEW t \in Sides
        PROVE  /\ pc'[t] \in 1..(Len(Programs[program'[t]]) + 1)
               /\ At(t, Writes)' => total'[t] <= Len(Call(t)'.msg)
               /\ At(t, {"readSize"})' => Len(buffer'[t]) <= Len(Call(t)'.msg)
    <3>1. CASE t # s
      BY <1>1, <1>3, <1>4, <3>1, TypesKept
    <3>2. CASE t = s
      <4>1. pc'[s] \in 1..(Len(Programs[program'[s]]) + 1)
        BY <1>2, <1>3, <1>4
      <4>2. ASSUME NEW o, At(s, o)' PROVE Len(Call(s)'.msg) \in Nat
        <5>1. pc'[s] \in DOMAIN Programs[p] /\ Call(s)'.msg = Msg(p, pc'[s])
          BY <1>2, <1>3, <1>4, <4>2, PartsAre DEF At, Call, Msg
        <5>2. Msg(p, pc'[s]) \in Seq(Tokens)
          BY <1>2, <5>1, PartsAre
        <5> QED
          BY <5>1, <5>2
      <4>3. total'[s] = 0 /\ Len(buffer'[s]) = 0
        BY <1>3
      <4> QED
        BY <3>2, <4>1, <4>2, <4>3
    <3> QED
      BY <3>1, <3>2
  <2> QED
    BY <1>1, <1>3, <1>4, <1>5, <2>1 DEF TypeOK
<1>10. ASSUME NEW t \in Sides PROVE SentOK(t)' /\ PipeOK(t)' /\ ReceivedOK(t)' /\ EndOK(t)'
  <2>1. PipeOK(t)'
    BY <1>1, <1>4, PipeKept
  <2>2. CASE t # s
    BY <1>1, <1>3, <1>4, <1>5, <2>1, <2>2, SentKept, ReceivedKept, EndKept
  <2>3. CASE t = s
    <3>1. SentOK(s)'
      BY <1>1, <1>3, <1>4, <1>7 DEF SentOK
    <3>2. ReceivedOK(s)'
      BY <1>3, <1>4, <1>8 DEF ReceivedOK
    <3>3. EndOK(s)'
      <4>1. CASE s \in ended
        BY <1>1, <1>4, <4>1, EndKept
      <4>2. CASE s \notin ended
        <5>1. SUFFICES ASSUME s \in ended', ~ reset, ReadsToEnd(program[Other(s)])
                       PROVE  sent[s] = Message(program, s)
          BY <1>4 DEF EndOK
        <5>2. SaysAll(p) /\ Message(program, s) = Messages(p, Writes)
          <6>1. program \in Pairs /\ Other(s) \in Sides /\ Other(Other(s)) = s
            BY <1>1, SidesAre, Types
          <6> QED
            BY <1>2, <5>1, <6>1, PartnersAssumption, MessageType
        <5>3. Op(p, i) = "shutdownSend"
          <6>1. Op(p, i) \in {"shutdownSend", "shutdownBoth"}
            BY <1>2, <4>2, <5>1
          <6>2. Op(p, i) \in {"write", "readToEnd", "shutdownSend"}
            BY <1>2, <5>2 DEF SaysAll, Op
          <6> QED
            BY <6>1, <6>2
        <5>4. i \in 1..(Len(Programs[p]) + 1)
          BY <1>1, Types
        <5>5. sent[s] = Messages(p, Writes)
          BY <1>2, <1>6, <5>2, <5>3, <5>4, SaidAll
        <5> QED
          BY <5>2, <5>5
      <4> QED
        BY <4>1, <4>2
    <3> QED
      BY <2>1, <2>3, <3>1, <3>2, <3>3
  <2> QED
    BY <2>2, <2>3
<1> QED
  BY <1>9, <1>10 DEF IInv

(* A reset: whatever is lost, what remains is a beginning.                 *)
LEMMA ResetIs ==
  ASSUME IInv, NEW s \in Sides, ResetBy(s), UNCHANGED <<sent, received>>
  PROVE  /\ reset' = TRUE /\ ended' = ended /\ pipe' \in [Sides -> Seq(Tokens)]
         /\ \A t \in Sides : PipeOK(t)'
<1>1. TypeOK /\ Other(s) \in Sides /\ Other(s) # s /\ Other(Other(s)) = s
  BY SidesAre DEF IInv
<1>2. PICK n \in 0..Len(pipe[s]) :
        pipe' = [pipe EXCEPT ![s] = SubSeq(@, 1, n), ![Other(s)] = <<>>]
  BY DEF ResetBy
<1>3. pipe \in [Sides -> Seq(Tokens)]
  BY <1>1 DEF TypeOK
<1>4. /\ SubSeq(pipe[s], 1, n) \in Seq(Tokens) /\ <<>> \in Seq(Tokens)
  BY <1>3
<1>5. /\ pipe' \in [Sides -> Seq(Tokens)]
      /\ pipe'[s] = SubSeq(pipe[s], 1, n) /\ pipe'[Other(s)] = <<>>
  BY <1>1, <1>2, <1>3, <1>4
<1>6. \A t \in Sides : /\ sent[t] \in Seq(Tokens) /\ received[t] \in Seq(Tokens)
                       /\ pipe[t] \in Seq(Tokens) /\ received[t] \o pipe[Other(t)] \in Seq(Tokens)
                       /\ IsPrefix(received[Other(t)] \o pipe[t], sent[t])
  <2> TAKE t \in Sides
  <2>1. Other(t) \in Sides /\ PipeOK(t)
    BY SidesAre DEF IInv
  <2>2. /\ sent[t] \in Seq(Tokens) /\ received[t] \in Seq(Tokens)
        /\ pipe[t] \in Seq(Tokens) /\ pipe[Other(t)] \in Seq(Tokens)
    BY <1>1, <2>1, Types
  <2> QED
    BY <2>1, <2>2 DEF PipeOK
<1>7. received[Other(s)] \o pipe[s] \in Seq(Tokens)
  BY <1>1, <1>6
<1>8. IsPrefix(received[Other(s)] \o SubSeq(pipe[s], 1, n), sent[s])
  <2>1. IsPrefix(received[Other(s)] \o SubSeq(pipe[s], 1, n), received[Other(s)] \o pipe[s])
    BY <1>1, <1>6, PrefixTruncated
  <2>2. received[Other(s)] \o SubSeq(pipe[s], 1, n) \in Seq(Tokens)
    BY <1>1, <1>4, <1>6
  <2> QED
    BY <1>6, <1>7, <2>1, <2>2, PrefixTransitive, Zenon
<1>9. IsPrefix(received[s] \o <<>>, sent[Other(s)])
  <2>1. received[s] \o <<>> = received[s]
    BY <1>6
  <2>2. IsPrefix(received[s], sent[Other(s)])
    BY ReceivedIsPrefix
  <2> QED
    BY <2>1, <2>2
<1>10. reset' = TRUE /\ ended' = ended
  BY DEF ResetBy
<1>11. ASSUME NEW t \in Sides PROVE PipeOK(t)'
  <2>1. CASE t = s
    BY <1>5, <1>8, <1>10, <2>1 DEF PipeOK
  <2>2. CASE t = Other(s)
    BY <1>1, <1>5, <1>9, <1>10, <2>2 DEF PipeOK
  <2> QED
    BY <2>1, <2>2, SidesAre
<1> QED
  BY <1>5, <1>10, <1>11

(* A program ends.                                                         *)
LEMMA LeaveIInv ==
  ASSUME IInv, NEW s \in Sides, NEW outcome \in {"ok", "error"},
         result[s] = "running", Leave(s, outcome), UNCHANGED <<program, progress, transfer>>,
         ~ reset /\ ReadsToEnd(program[Other(s)]) => sent[s] = Message(program, s)
  PROVE  IInv'
<1>1. TypeOK /\ \A t \in Sides : SentOK(t) /\ PipeOK(t) /\ ReceivedOK(t) /\ EndOK(t)
  BY DEF IInv
<1>2. /\ program' = program /\ pc' = pc /\ total' = total /\ buffer' = buffer
      /\ sent' = sent /\ received' = received
  BY DEF progress, transfer
<1>3. /\ result' \in [Sides -> {"running", "ok", "error"}]
      /\ \A t \in Sides : result'[t] = "running" => result[t] = "running"
  BY <1>1 DEF Leave, TypeOK
<1>4. /\ pipe' \in [Sides -> Seq(Tokens)] /\ ended' \subseteq Sides /\ reset' \in BOOLEAN
      /\ \A t \in Sides \ {s} : t \in ended' => t \in ended
      /\ reset => reset'
      /\ \A t \in Sides : PipeOK(t)'
  <2>1. CASE pipe[Other(s)] = <<>>
    <3>1. ended' = ended \cup {s} /\ pipe' = pipe /\ reset' = reset
      BY <2>1 DEF Leave, CloseSocket
    <3>2. pipe' \in [Sides -> Seq(Tokens)] /\ ended' \subseteq Sides /\ reset' \in BOOLEAN
      BY <1>1, <3>1 DEF TypeOK
    <3> QED
      BY <1>1, <1>2, <3>1, <3>2, PipeKept
  <2>2. CASE pipe[Other(s)] # <<>>
    <3>1. ResetBy(s)
      BY <2>2 DEF Leave, CloseSocket
    <3> QED
      BY <1>1, <1>2, <3>1, ResetIs DEF TypeOK
  <2> QED
    BY <2>1, <2>2
<1>5. TypeOK'
  <2>1. \A t \in Sides :
          /\ pc'[t] \in 1..(Len(Programs[program'[t]]) + 1)
          /\ At(t, Writes)' => total'[t] <= Len(Call(t)'.msg)
          /\ At(t, {"readSize"})' => Len(buffer'[t]) <= Len(Call(t)'.msg)
    BY <1>1, <1>2, <1>3, TypesKept
  <2> QED
    BY <1>1, <1>2, <1>3, <1>4, <2>1 DEF TypeOK
<1>6. ASSUME NEW t \in Sides PROVE SentOK(t)' /\ PipeOK(t)' /\ ReceivedOK(t)' /\ EndOK(t)'
  <2>1. SentOK(t)' /\ ReceivedOK(t)'
    BY <1>1, <1>2, <1>3, <1>4, SentKept, ReceivedKept
  <2>2. EndOK(t)'
    <3>1. CASE t # s
      BY <1>1, <1>2, <1>4, <3>1, EndKept
    <3>2. CASE t = s
      BY <1>2, <1>4, <3>2 DEF EndOK
    <3> QED
      BY <3>1, <3>2
  <2> QED
    BY <1>4, <2>1, <2>2
<1> QED
  BY <1>5, <1>6 DEF IInv

LEMMA RefuseIInv ==
  ASSUME IInv, NEW s \in Sides, Refuse(s)
  PROVE  IInv'
<1>1. TypeOK /\ \A t \in Sides : SentOK(t) /\ PipeOK(t) /\ ReceivedOK(t) /\ EndOK(t)
  BY DEF IInv
<1>2. /\ program' = program /\ pc' = pc /\ total' = total /\ buffer' = buffer
      /\ sent' = sent /\ received' = received /\ result' = result
  BY DEF Refuse, progress, transfer
<1>3. /\ reset' = TRUE /\ ended' = ended /\ pipe' \in [Sides -> Seq(Tokens)]
      /\ \A t \in Sides : PipeOK(t)'
  BY <1>2, ResetIs DEF Refuse
<1>4. TypeOK'
  <2>1. \A t \in Sides :
          /\ pc'[t] \in 1..(Len(Programs[program'[t]]) + 1)
          /\ At(t, Writes)' => total'[t] <= Len(Call(t)'.msg)
          /\ At(t, {"readSize"})' => Len(buffer'[t]) <= Len(Call(t)'.msg)
    BY <1>1, <1>2, TypesKept
  <2> QED
    BY <1>1, <1>2, <1>3, <2>1 DEF TypeOK
<1>5. ASSUME NEW t \in Sides PROVE SentOK(t)' /\ PipeOK(t)' /\ ReceivedOK(t)' /\ EndOK(t)'
  <2>1. SentOK(t)' /\ ReceivedOK(t)'
    BY <1>1, <1>2, <1>3, SentKept, ReceivedKept
  <2>2. EndOK(t)'
    BY <1>3 DEF EndOK
  <2> QED
    BY <1>3, <2>1, <2>2
<1> QED
  BY <1>4, <1>5 DEF IInv

(* A part is sent.                                                         *)
LEMMA PutIs ==
  ASSUME IInv, NEW s \in Sides, NEW m \in Seq(Tokens), m # <<>>, ~ reset, Put(s, m),
         program' = program, IsPrefix(sent[s] \o m, Message(program, s))
  PROVE  /\ sent' \in [Sides -> Seq(Tokens)] /\ pipe' \in [Sides -> Seq(Tokens)]
         /\ sent'[s] = sent[s] \o m
         /\ \A t \in Sides \ {s} : sent'[t] = sent[t]
         /\ received' = received /\ ended' = ended /\ reset' = reset
         /\ \A t \in Sides : PipeOK(t)' /\ EndOK(t)'
<1>1. TypeOK /\ \A t \in Sides : SentOK(t) /\ PipeOK(t) /\ ReceivedOK(t) /\ EndOK(t)
  BY DEF IInv
<1>2. /\ sent \in [Sides -> Seq(Tokens)] /\ pipe \in [Sides -> Seq(Tokens)]
      /\ received \in [Sides -> Seq(Tokens)]
  BY <1>1 DEF TypeOK
<1>3. sent[s] \o m \in Seq(Tokens) /\ pipe[s] \o m \in Seq(Tokens)
  BY <1>2
<1>4. /\ sent' = [sent EXCEPT ![s] = sent[s] \o m] /\ pipe' = [pipe EXCEPT ![s] = pipe[s] \o m]
      /\ received' = received /\ ended' = ended /\ reset' = reset
  BY DEF Put
<1>5. /\ sent' \in [Sides -> Seq(Tokens)] /\ pipe' \in [Sides -> Seq(Tokens)]
      /\ sent'[s] = sent[s] \o m /\ pipe'[s] = pipe[s] \o m
      /\ \A t \in Sides \ {s} : sent'[t] = sent[t] /\ pipe'[t] = pipe[t]
  BY <1>2, <1>3, <1>4
<1>6. Other(s) \in Sides
  BY SidesAre
<1>7. received[Other(s)] \o (pipe[s] \o m) = sent[s] \o m
  <2>1. received[Other(s)] \o pipe[s] = sent[s]
    BY <1>1 DEF PipeOK
  <2>2. received[Other(s)] \in Seq(Tokens) /\ pipe[s] \in Seq(Tokens)
    BY <1>2, <1>6
  <2>3. (received[Other(s)] \o pipe[s]) \o m = received[Other(s)] \o (pipe[s] \o m)
    BY <2>2, Associative, Zenon
  <2> QED
    BY <2>1, <2>3, Zenon
<1>8. IsPrefix(sent[s] \o m, sent[s] \o m)
  BY <1>3, PrefixTrivial, Zenon
<1>9. ASSUME NEW t \in Sides PROVE PipeOK(t)' /\ EndOK(t)'
  <2>1. CASE t # s
    BY <1>1, <1>4, <1>5, <2>1 DEF PipeOK, EndOK
  <2>2. CASE t = s
    <3>1. PipeOK(s)'
      BY <1>4, <1>5, <1>7, <1>8 DEF PipeOK
    <3>2. ASSUME s \in ended, ReadsToEnd(program[Other(s)]) PROVE FALSE
      <4>1. sent[s] = Message(program, s)
        BY <1>1, <3>2 DEF EndOK
      <4>2. Len(sent[s] \o m) <= Len(sent[s])
        BY <1>2, <1>3, <4>1, PrefixElements
      <4> QED
        BY <1>2, <4>2
    <3>3. EndOK(s)'
      BY <1>4, <3>2 DEF EndOK
    <3> QED
      BY <2>2, <3>1, <3>3
  <2> QED
    BY <2>1, <2>2
<1> QED
  BY <1>4, <1>5, <1>9

(* A part is received.                                                     *)
LEMMA TakeIs ==
  ASSUME IInv, NEW s \in Sides, NEW n \in 1..Len(pipe[Other(s)]), Take(s, n),
         program' = program
  PROVE  LET part == SubSeq(pipe[Other(s)], 1, n)
         IN  /\ part \in Seq(Tokens) /\ Len(part) = n
             /\ received' \in [Sides -> Seq(Tokens)] /\ pipe' \in [Sides -> Seq(Tokens)]
             /\ received'[s] = received[s] \o part
             /\ \A t \in Sides \ {s} : received'[t] = received[t]
             /\ sent' = sent /\ ended' = ended /\ reset' = reset
             /\ \A t \in Sides : PipeOK(t)'
<1> DEFINE o == Other(s)
           part == SubSeq(pipe[o], 1, n)
<1>1. TypeOK /\ \A t \in Sides : SentOK(t) /\ PipeOK(t) /\ ReceivedOK(t) /\ EndOK(t)
  BY DEF IInv
<1>2. /\ sent \in [Sides -> Seq(Tokens)] /\ pipe \in [Sides -> Seq(Tokens)]
      /\ received \in [Sides -> Seq(Tokens)]
  BY <1>1 DEF TypeOK
<1>3. o \in Sides /\ o # s /\ Other(o) = s
  BY SidesAre
<1>4. /\ received' = [received EXCEPT ![s] = received[s] \o part]
      /\ pipe' = [pipe EXCEPT ![o] = After(pipe[o], n)]
      /\ sent' = sent /\ ended' = ended /\ reset' = reset
  BY DEF Take
<1>5. pipe[o] \in Seq(Tokens) /\ n \in 0..Len(pipe[o]) /\ received[s] \in Seq(Tokens)
  BY <1>2, <1>3
<1>6. /\ part \in Seq(Tokens) /\ Len(part) = n
      /\ After(pipe[o], n) \in Seq(Tokens) /\ part \o After(pipe[o], n) = pipe[o]
  <2>1. part \in Seq(Tokens) /\ part \o After(pipe[o], n) = pipe[o]
    BY <1>5, SplitSeq
  <2>2. After(pipe[o], n) \in Seq(Tokens)
    BY <1>5, AfterElements
  <2>3. Len(part) = n
    BY <1>5
  <2> QED
    BY <2>1, <2>2, <2>3
<1>7. received[s] \o part \in Seq(Tokens)
  BY <1>5, <1>6
<1>8. (received[s] \o part) \o After(pipe[o], n) = received[s] \o pipe[o]
  <2>1. (received[s] \o part) \o After(pipe[o], n) = received[s] \o (part \o After(pipe[o], n))
    BY <1>5, <1>6, Associative, Zenon
  <2> QED
    BY <1>6, <2>1, Zenon
<1> HIDE DEF part, o
<1>9. /\ received' \in [Sides -> Seq(Tokens)] /\ pipe' \in [Sides -> Seq(Tokens)]
      /\ received'[s] = received[s] \o part /\ pipe'[o] = After(pipe[o], n)
      /\ \A t \in Sides \ {s} : received'[t] = received[t]
      /\ \A t \in Sides \ {o} : pipe'[t] = pipe[t]
  BY <1>2, <1>3, <1>4, <1>6, <1>7
<1>10. ASSUME NEW t \in Sides PROVE PipeOK(t)'
  <2>1. CASE t = o
    BY <1>1, <1>3, <1>4, <1>8, <1>9, <2>1 DEF PipeOK
  <2>2. CASE t = s
    BY <1>1, <1>3, <1>4, <1>9, <2>2 DEF PipeOK, o
  <2> QED
    BY <2>1, <2>2, SidesAre DEF o
<1> QED
  BY <1>4, <1>6, <1>9, <1>10 DEF part, o

LEMMA WritePartIInv ==
  ASSUME IInv, NEW s \in Sides, WritePart(s)
  PROVE  /\ IInv' /\ result[s] = "running" /\ sent'[s] # sent[s]
         /\ IsPrefix(sent[s], sent'[s]) /\ IsPrefix(sent'[s], Message(program, s))
         /\ sent' = [sent EXCEPT ![s] = sent'[s]]
         /\ UNCHANGED <<program, received, result>>
<1> DEFINE p == program[s]
           i == pc[s]
<1>1. TypeOK /\ \A t \in Sides : SentOK(t) /\ PipeOK(t) /\ ReceivedOK(t) /\ EndOK(t)
  BY DEF IInv
<1>2. At(s, Writes) /\ ~ reset
  BY DEF WritePart
<1>3. /\ p \in DOMAIN Programs /\ i \in DOMAIN Programs[p] /\ p # "netcat" /\ Running(s)
      /\ Call(s).op = Op(p, i) /\ Call(s).msg = Msg(p, i) /\ Op(p, i) \in Writes
      /\ total[s] \in 0..Len(Msg(p, i)) /\ result[s] = "running"
  BY <1>1, <1>2, AtCall, Types
<1>4. /\ DOMAIN Programs[p] = 1..Len(Programs[p]) /\ Msg(p, i) \in Seq(Tokens)
      /\ i \in 1..(Len(Programs[p]) + 1)
  BY <1>1, <1>3, PartsAre, Types
<1>5. PICK n \in 1..(Len(Msg(p, i)) - total[s]) :
        /\ Put(s, SubSeq(Msg(p, i), total[s] + 1, total[s] + n))
        /\ total' = [total EXCEPT ![s] = total[s] + n]
  BY <1>3 DEF WritePart
<1>6. /\ program' = program /\ pc' = pc /\ buffer' = buffer /\ result' = result
  BY DEF WritePart
<1> DEFINE part == SubSeq(Msg(p, i), total[s] + 1, total[s] + n)
<1>7. sent[s] = Written(p, i, total[s])
  <2>1. HasWritten(p, i, total[s], sent[s], reset)
    BY <1>1, <1>3 DEF SentOK
  <2>2. ~ CutShort(p, i, sent[s], reset)
    BY <1>2, <1>3, <1>4 DEF CutShort
  <2> QED
    BY <2>1, <2>2 DEF HasWritten
<1>8. /\ sent[s] \in Seq(Tokens) /\ part \in Seq(Tokens) /\ part # <<>>
      /\ sent[s] \o part = Written(p, i, total[s] + n)
      /\ IsPrefix(Written(p, i, total[s] + n), Messages(p, Writes))
  <2>1. total[s] \in Nat
    BY <1>1, Types
  <2> QED
    BY <1>3, <1>7, <2>1, WrittenPart
<1>9. Message(program, s) = Messages(p, Writes)
  BY <1>1, <1>3, MessageType, Types
<1>10. IsPrefix(sent[s] \o part, Message(program, s))
  BY <1>8, <1>9
<1> HIDE DEF part
<1>11. /\ sent' \in [Sides -> Seq(Tokens)] /\ pipe' \in [Sides -> Seq(Tokens)]
       /\ sent'[s] = sent[s] \o part
       /\ \A t \in Sides \ {s} : sent'[t] = sent[t]
       /\ received' = received /\ ended' = ended /\ reset' = reset
       /\ \A t \in Sides : PipeOK(t)' /\ EndOK(t)'
  <2>1. Put(s, part)
    BY <1>5 DEF part
  <2> QED
    BY <1>2, <1>6, <1>8, <1>10, <2>1, PutIs
<1>12. /\ total' \in [Sides -> Nat] /\ total'[s] = total[s] + n
       /\ \A t \in Sides \ {s} : total'[t] = total[t]
       /\ total'[s] <= Len(Msg(p, i))
  BY <1>1, <1>3, <1>4, <1>5 DEF TypeOK
<1>13. TypeOK'
  <2>1. ASSUME NEW t \in Sides
        PROVE  /\ pc'[t] \in 1..(Len(Programs[program'[t]]) + 1)
               /\ At(t, Writes)' => total'[t] <= Len(Call(t)'.msg)
               /\ At(t, {"readSize"})' => Len(buffer'[t]) <= Len(Call(t)'.msg)
    <3>1. CASE t # s
      BY <1>1, <1>6, <1>12, <3>1, TypesKept
    <3>2. CASE t = s
      <4>1. Call(s)' = Call(s) /\ At(s, {"readSize"})' = At(s, {"readSize"})
        BY <1>6 DEF At, Call, Running
      <4>2. ~ At(s, {"readSize"})
        BY <1>3 DEF At, Writes
      <4>3. pc[s] \in 1..(Len(Programs[program[s]]) + 1)
        BY <1>1, Types
      <4> QED
        BY <1>3, <1>6, <1>12, <3>2, <4>1, <4>2, <4>3
    <3> QED
      BY <3>1, <3>2
  <2> QED
    BY <1>1, <1>6, <1>11, <1>12, <2>1 DEF TypeOK
<1>14. ASSUME NEW t \in Sides PROVE SentOK(t)' /\ ReceivedOK(t)'
  <2>1. ReceivedOK(t)'
    BY <1>1, <1>6, <1>11, ReceivedKept
  <2>2. CASE t # s
    BY <1>1, <1>6, <1>11, <1>12, <2>1, <2>2, SentKept
  <2>3. CASE t = s
    <3>1. sent'[s] = Written(p, i, total'[s])
      BY <1>8, <1>11, <1>12
    <3>2. SentOK(s)'
      BY <1>6, <1>10, <1>11, <3>1 DEF SentOK, HasWritten
    <3> QED
      BY <2>1, <2>3, <3>2
  <2> QED
    BY <2>2, <2>3
<1>15. IInv'
  BY <1>11, <1>13, <1>14 DEF IInv
<1>16. sent'[s] # sent[s] /\ IsPrefix(sent[s], sent'[s])
  <2>1. IsPrefix(sent[s], sent[s] \o part)
    BY <1>8, PrefixOfConcat
  <2>2. sent[s] \o part # sent[s]
    BY <1>8, ConcatEqualIffEmpty
  <2> QED
    BY <1>11, <2>1, <2>2
<1>17. sent' = [sent EXCEPT ![s] = sent'[s]]
  BY <1>1, <1>11 DEF TypeOK
<1> QED
  BY <1>3, <1>6, <1>10, <1>11, <1>15, <1>16, <1>17

LEMMA ReadPartIInv ==
  ASSUME IInv, NEW s \in Sides, ReadPart(s)
  PROVE  /\ IInv' /\ result[s] = "running" /\ received'[s] # received[s]
         /\ IsPrefix(received[s], received'[s]) /\ IsPrefix(received'[s], sent[Other(s)])
         /\ received' = [received EXCEPT ![s] = received'[s]]
         /\ UNCHANGED <<program, sent, result>>
<1> DEFINE p == program[s]
           i == pc[s]
<1>1. TypeOK /\ \A t \in Sides : SentOK(t) /\ PipeOK(t) /\ ReceivedOK(t) /\ EndOK(t)
  BY DEF IInv
<1>2. At(s, Reads)
  BY DEF ReadPart, Reading
<1>3. /\ p \in DOMAIN Programs /\ i \in DOMAIN Programs[p] /\ p # "netcat" /\ Running(s)
      /\ Call(s).op = Op(p, i) /\ Call(s).msg = Msg(p, i) /\ Op(p, i) \in Reads
      /\ result[s] = "running"
  BY <1>1, <1>2, AtCall, Types
<1>4. /\ i \in 1..(Len(Programs[p]) + 1)
      /\ buffer[s] \in Seq(Tokens) /\ received[s] \in Seq(Tokens)
  BY <1>1, Types
<1>5. PICK n \in 1..Len(pipe[Other(s)]) :
        /\ Op(p, i) = "readSize" => Len(buffer[s]) + n <= Len(Msg(p, i))
        /\ Take(s, n)
        /\ buffer' = [buffer EXCEPT ![s] = buffer[s] \o SubSeq(pipe[Other(s)], 1, n)]
  BY <1>3 DEF ReadPart
<1>6. /\ program' = program /\ pc' = pc /\ total' = total /\ result' = result
  BY DEF ReadPart
<1> DEFINE part == SubSeq(pipe[Other(s)], 1, n)
<1>7. /\ part \in Seq(Tokens) /\ Len(part) = n
      /\ received' \in [Sides -> Seq(Tokens)] /\ pipe' \in [Sides -> Seq(Tokens)]
      /\ received'[s] = received[s] \o part
      /\ \A t \in Sides \ {s} : received'[t] = received[t]
      /\ sent' = sent /\ ended' = ended /\ reset' = reset
      /\ \A t \in Sides : PipeOK(t)'
  BY <1>5, <1>6, TakeIs
<1>8. buffer' = [buffer EXCEPT ![s] = buffer[s] \o part]
  BY <1>5
<1> HIDE DEF part
<1>9. buffer[s] \o part \in Seq(Tokens) /\ Len(buffer[s] \o part) = Len(buffer[s]) + n
  <2>1. /\ buffer[s] \o part \in Seq(Tokens)
        /\ Len(buffer[s] \o part) = Len(buffer[s]) + Len(part)
    BY <1>4, <1>7, ConcatElements, Zenon
  <2> QED
    BY <1>7, <2>1
<1>10. /\ buffer' \in [Sides -> Seq(Tokens)] /\ buffer'[s] = buffer[s] \o part
       /\ \A t \in Sides \ {s} : buffer'[t] = buffer[t]
  BY <1>1, <1>8, <1>9 DEF TypeOK
<1>11. TypeOK'
  <2>1. ASSUME NEW t \in Sides
        PROVE  /\ pc'[t] \in 1..(Len(Programs[program'[t]]) + 1)
               /\ At(t, Writes)' => total'[t] <= Len(Call(t)'.msg)
               /\ At(t, {"readSize"})' => Len(buffer'[t]) <= Len(Call(t)'.msg)
    <3>1. CASE t # s
      BY <1>1, <1>6, <1>10, <3>1, TypesKept
    <3>2. CASE t = s
      <4>1. /\ Call(s)' = Call(s) /\ At(s, Writes)' = At(s, Writes)
            /\ At(s, {"readSize"})' = At(s, {"readSize"})
        BY <1>6 DEF At, Call, Running
      <4>2. ~ At(s, Writes)
        BY <1>3 DEF At, Reads, Writes
      <4>3. At(s, {"readSize"}) => Op(p, i) = "readSize"
        BY <1>3 DEF At
      <4> QED
        BY <1>3, <1>4, <1>5, <1>6, <1>9, <1>10, <3>2, <4>1, <4>2, <4>3
    <3> QED
      BY <3>1, <3>2
  <2> QED
    BY <1>1, <1>6, <1>7, <1>10, <2>1 DEF TypeOK
<1>12. ASSUME NEW t \in Sides PROVE SentOK(t)' /\ ReceivedOK(t)' /\ EndOK(t)'
  <2>1. SentOK(t)' /\ EndOK(t)'
    BY <1>1, <1>6, <1>7, SentKept, EndKept
  <2>2. CASE t # s
    BY <1>1, <1>6, <1>7, <1>10, <2>1, <2>2, ReceivedKept
  <2>3. CASE t = s
    <3>1. HasReceived(p, i, buffer[s], received[s])
      BY <1>1, <1>3 DEF ReceivedOK
    <3>2. HasReceived(p, i, buffer[s] \o part, received[s] \o part)
      BY <1>3, <1>4, <1>7, <3>1, ReceivedPart
    <3>3. ReceivedOK(s)'
      BY <1>6, <1>7, <1>10, <3>2 DEF ReceivedOK
    <3> QED
      BY <2>1, <2>3, <3>3
  <2> QED
    BY <2>2, <2>3
<1>13. IInv'
  BY <1>7, <1>11, <1>12 DEF IInv
<1>14. received'[s] # received[s] /\ IsPrefix(received[s], received'[s])
  <2>1. IsPrefix(received[s], received[s] \o part)
    BY <1>4, <1>7, PrefixOfConcat
  <2>2. received[s] \o part # received[s]
    BY <1>4, <1>7
  <2> QED
    BY <1>7, <2>1, <2>2
<1>15. IsPrefix(received'[s], sent[Other(s)])
  <2>1. Other(s) \in Sides /\ Other(Other(s)) = s
    BY SidesAre
  <2>2. IsPrefix(received'[s] \o pipe'[Other(s)], sent'[Other(s)])
    BY <1>7, <2>1 DEF PipeOK
  <2>3. /\ received'[s] \in Seq(Tokens) /\ pipe'[Other(s)] \in Seq(Tokens)
        /\ sent'[Other(s)] \in Seq(Tokens)
        /\ received'[s] \o pipe'[Other(s)] \in Seq(Tokens)
    BY <1>1, <1>7, <2>1 DEF TypeOK
  <2>4. IsPrefix(received'[s], received'[s] \o pipe'[Other(s)])
    BY <2>3, PrefixOfConcat
  <2>5. IsPrefix(received'[s], sent'[Other(s)])
    BY <2>2, <2>3, <2>4, PrefixTransitive, Zenon
  <2> QED
    BY <1>7, <2>5
<1>16. received' = [received EXCEPT ![s] = received'[s]]
  BY <1>1, <1>7 DEF TypeOK
<1> QED
  BY <1>3, <1>6, <1>7, <1>13, <1>14, <1>15, <1>16

(* netcat.                                                                 *)
LEMMA NetcatIs ==
  ASSUME TypeOK, program["server"] = "netcat"
  PROVE  /\ "server" \in Sides /\ Other("server") = "client" /\ "client" \in Sides
         /\ ~ ReadsToEnd(program["client"])
         /\ ~ Running("server")
         /\ NetcatMessage = Message(program, "server")
<1>1. program \in Pairs /\ "server" \in Sides /\ "client" \in Sides /\ Other("client") = "server"
  BY DEF TypeOK, Sides, Other
<1>2. ~ ReadsToEnd(program["client"])
  BY <1>1, PartnersAssumption
<1> QED
  BY <1>1, <1>2 DEF Running, NetcatMessage, Other, Sides

LEMMA NetcatSendsIInv ==
  ASSUME IInv, NetcatSends
  PROVE  /\ IInv' /\ result["server"] = "running" /\ sent'["server"] # sent["server"]
         /\ IsPrefix(sent["server"], sent'["server"])
         /\ IsPrefix(sent'["server"], Message(program, "server"))
         /\ sent' = [sent EXCEPT !["server"] = sent'["server"]]
         /\ UNCHANGED <<program, received, result>>
<1> DEFINE s == "server"
           says == Message(program, "server")
           k == Len(sent["server"])
<1>1. TypeOK /\ \A t \in Sides : SentOK(t) /\ PipeOK(t) /\ ReceivedOK(t) /\ EndOK(t)
  BY DEF IInv
<1>2. program[s] = "netcat" /\ result[s] = "running" /\ ~ reset
  BY DEF NetcatSends, Netcat
<1>3. s \in Sides /\ ~ Running(s) /\ NetcatMessage = says
  BY <1>1, <1>2, NetcatIs
<1>4. PICK n \in 1..(Len(says) - k) : Put(s, SubSeq(says, k + 1, k + n))
  BY <1>3 DEF NetcatSends
<1>5. /\ program' = program /\ pc' = pc /\ total' = total /\ buffer' = buffer /\ result' = result
  BY DEF NetcatSends, progress
<1> DEFINE part == SubSeq(says, k + 1, k + n)
<1>6. says \in Seq(Tokens) /\ sent[s] \in Seq(Tokens) /\ IsPrefix(sent[s], says) /\ k \in Nat
  BY <1>1, <1>3, Types DEF SentOK
<1> HIDE DEF says, k
<1>7. n \in Nat /\ k + n \in 0..Len(says) /\ k + n \in k..Len(says) /\ k \in (1 - 1)..Len(says)
  BY <1>6
<1>8. part \in Seq(Tokens) /\ Len(part) = n /\ part # <<>>
  BY <1>6, <1>7
<1>9. sent[s] \o part = SubSeq(says, 1, k + n)
  <2>1. SubSeq(says, 1, k) \o part = SubSeq(says, 1, k + n)
    BY <1>6, <1>7, ConcatAdjacentSubSeq
  <2>2. sent[s] = SubSeq(says, 1, k)
    <3>1. SubSeq(sent[s], 1, Len(sent[s])) = sent[s]
      BY <1>6
    <3> QED
      BY <1>6, <3>1 DEF IsPrefix, k
  <2> QED
    BY <2>1, <2>2
<1>10. IsPrefix(sent[s] \o part, says)
  <2>1. IsPrefix(<<>> \o SubSeq(says, 1, k + n), <<>> \o says)
    <3>1. <<>> \in Seq(Tokens)
      OBVIOUS
    <3> QED
      BY <1>6, <1>7, <3>1, PrefixTruncated, Zenon
  <2>2. SubSeq(says, 1, k + n) \in Seq(Tokens)
    BY <1>6, <1>7
  <2>3. <<>> \o SubSeq(says, 1, k + n) = SubSeq(says, 1, k + n) /\ <<>> \o says = says
    BY <1>6, <2>2, ConcatEmptySeq
  <2> QED
    BY <1>9, <2>1, <2>3
<1> HIDE DEF part
<1>11. /\ sent' \in [Sides -> Seq(Tokens)] /\ pipe' \in [Sides -> Seq(Tokens)]
       /\ sent'[s] = sent[s] \o part
       /\ \A t \in Sides \ {s} : sent'[t] = sent[t]
       /\ received' = received /\ ended' = ended /\ reset' = reset
       /\ \A t \in Sides : PipeOK(t)' /\ EndOK(t)'
  <2>1. Put(s, part) /\ IsPrefix(sent[s] \o part, Message(program, s))
    BY <1>4, <1>10 DEF part, says, k
  <2> QED
    BY <1>2, <1>3, <1>5, <1>8, <2>1, PutIs
<1>12. TypeOK'
  <2>1. \A t \in Sides :
          /\ pc'[t] \in 1..(Len(Programs[program'[t]]) + 1)
          /\ At(t, Writes)' => total'[t] <= Len(Call(t)'.msg)
          /\ At(t, {"readSize"})' => Len(buffer'[t]) <= Len(Call(t)'.msg)
    BY <1>1, <1>5, TypesKept
  <2> QED
    BY <1>1, <1>5, <1>11, <2>1 DEF TypeOK
<1>13. ASSUME NEW t \in Sides PROVE SentOK(t)' /\ ReceivedOK(t)'
  <2>1. ReceivedOK(t)'
    BY <1>1, <1>5, <1>11, ReceivedKept
  <2>2. CASE t # s
    BY <1>1, <1>5, <1>11, <2>1, <2>2, SentKept
  <2>3. CASE t = s
    <3>1. ~ Running(s)'
      BY <1>2, <1>5 DEF Running
    <3> QED
      BY <1>5, <1>10, <1>11, <2>1, <2>3, <3>1 DEF SentOK, says
  <2> QED
    BY <2>2, <2>3
<1>14. IInv'
  BY <1>11, <1>12, <1>13 DEF IInv
<1>15. sent'[s] # sent[s] /\ IsPrefix(sent[s], sent'[s])
  <2>1. IsPrefix(sent[s], sent[s] \o part)
    BY <1>6, <1>8, PrefixOfConcat
  <2>2. sent[s] \o part # sent[s]
    BY <1>6, <1>8, ConcatEqualIffEmpty
  <2> QED
    BY <1>11, <2>1, <2>2
<1>16. sent' = [sent EXCEPT ![s] = sent'[s]]
  BY <1>1, <1>11 DEF TypeOK
<1> QED
  BY <1>2, <1>5, <1>10, <1>11, <1>14, <1>15, <1>16 DEF says

LEMMA NetcatReceivesIInv ==
  ASSUME IInv, NetcatReceives
  PROVE  /\ IInv' /\ result["server"] = "running" /\ received'["server"] # received["server"]
         /\ IsPrefix(received["server"], received'["server"])
         /\ IsPrefix(received'["server"], sent["client"])
         /\ received' = [received EXCEPT !["server"] = received'["server"]]
         /\ UNCHANGED <<program, sent, result>>
<1> DEFINE s == "server"
<1>1. TypeOK /\ \A t \in Sides : SentOK(t) /\ PipeOK(t) /\ ReceivedOK(t) /\ EndOK(t)
  BY DEF IInv
<1>2. program[s] = "netcat" /\ result[s] = "running"
  BY DEF NetcatReceives, Netcat
<1>3. s \in Sides /\ Other(s) = "client" /\ "client" \in Sides
  BY <1>1, <1>2, NetcatIs
<1>4. PICK n \in 1..Len(pipe[Other(s)]) : Take(s, n)
  BY <1>3 DEF NetcatReceives
<1>5. /\ program' = program /\ pc' = pc /\ total' = total /\ buffer' = buffer /\ result' = result
  BY DEF NetcatReceives, progress
<1> DEFINE part == SubSeq(pipe[Other(s)], 1, n)
<1>6. /\ part \in Seq(Tokens) /\ Len(part) = n
      /\ received' \in [Sides -> Seq(Tokens)] /\ pipe' \in [Sides -> Seq(Tokens)]
      /\ received'[s] = received[s] \o part
      /\ \A t \in Sides \ {s} : received'[t] = received[t]
      /\ sent' = sent /\ ended' = ended /\ reset' = reset
      /\ \A t \in Sides : PipeOK(t)'
  BY <1>3, <1>4, <1>5, TakeIs
<1> HIDE DEF part
<1>7. TypeOK'
  <2>1. \A t \in Sides :
          /\ pc'[t] \in 1..(Len(Programs[program'[t]]) + 1)
          /\ At(t, Writes)' => total'[t] <= Len(Call(t)'.msg)
          /\ At(t, {"readSize"})' => Len(buffer'[t]) <= Len(Call(t)'.msg)
    BY <1>1, <1>5, TypesKept
  <2> QED
    BY <1>1, <1>5, <1>6, <2>1 DEF TypeOK
<1>8. ASSUME NEW t \in Sides PROVE SentOK(t)' /\ ReceivedOK(t)' /\ EndOK(t)'
  <2>1. SentOK(t)' /\ EndOK(t)'
    BY <1>1, <1>5, <1>6, SentKept, EndKept
  <2>2. CASE t # s
    BY <1>1, <1>5, <1>6, <2>1, <2>2, ReceivedKept
  <2>3. CASE t = s
    BY <1>2, <1>5, <2>1, <2>3 DEF ReceivedOK, Running
  <2> QED
    BY <2>2, <2>3
<1>9. IInv'
  BY <1>6, <1>7, <1>8 DEF IInv
<1>10. received'[s] # received[s] /\ IsPrefix(received[s], received'[s])
  <2>1. received[s] \in Seq(Tokens)
    BY <1>1, <1>3, Types
  <2>2. IsPrefix(received[s], received[s] \o part)
    BY <1>6, <2>1, PrefixOfConcat
  <2>3. received[s] \o part # received[s]
    BY <1>6, <2>1
  <2> QED
    BY <1>6, <2>2, <2>3
<1>11. IsPrefix(received'[s], sent["client"])
  <2>1. IsPrefix(received'[s] \o pipe'["client"], sent'["client"])
    <3>1. Other("client") = s
      BY DEF Other
    <3> QED
      BY <1>3, <1>6, <3>1 DEF PipeOK
  <2>2. /\ received'[s] \in Seq(Tokens) /\ pipe'["client"] \in Seq(Tokens)
        /\ sent'["client"] \in Seq(Tokens)
        /\ received'[s] \o pipe'["client"] \in Seq(Tokens)
    BY <1>1, <1>3, <1>6 DEF TypeOK
  <2>3. IsPrefix(received'[s], received'[s] \o pipe'["client"])
    BY <2>2, PrefixOfConcat
  <2>4. IsPrefix(received'[s], sent'["client"])
    BY <2>1, <2>2, <2>3, PrefixTransitive, Zenon
  <2> QED
    BY <1>6, <2>4
<1>12. received' = [received EXCEPT ![s] = received'[s]]
  BY <1>1, <1>6 DEF TypeOK
<1> QED
  BY <1>2, <1>5, <1>6, <1>9, <1>10, <1>11, <1>12

LEMMA NetcatEndsStreamIInv ==
  ASSUME IInv, NetcatEndsStream
  PROVE  IInv'
<1>1. TypeOK /\ \A t \in Sides : SentOK(t) /\ PipeOK(t) /\ ReceivedOK(t) /\ EndOK(t)
  BY DEF IInv
<1>2. /\ program["server"] = "netcat" /\ ended' = ended \cup {"server"}
      /\ program' = program /\ pc' = pc /\ total' = total /\ buffer' = buffer /\ result' = result
      /\ sent' = sent /\ received' = received /\ pipe' = pipe /\ reset' = reset
  BY DEF NetcatEndsStream, Netcat, progress, transfer
<1>3. "server" \in Sides /\ Other("server") = "client" /\ ~ ReadsToEnd(program["client"])
  BY <1>1, <1>2, NetcatIs
<1>4. TypeOK'
  <2>1. \A t \in Sides :
          /\ pc'[t] \in 1..(Len(Programs[program'[t]]) + 1)
          /\ At(t, Writes)' => total'[t] <= Len(Call(t)'.msg)
          /\ At(t, {"readSize"})' => Len(buffer'[t]) <= Len(Call(t)'.msg)
    BY <1>1, <1>2, TypesKept
  <2>2. ended' \subseteq Sides
    BY <1>1, <1>2, <1>3 DEF TypeOK
  <2> QED
    BY <1>1, <1>2, <2>1, <2>2 DEF TypeOK
<1>5. ASSUME NEW t \in Sides PROVE SentOK(t)' /\ PipeOK(t)' /\ ReceivedOK(t)' /\ EndOK(t)'
  <2>1. SentOK(t)' /\ PipeOK(t)' /\ ReceivedOK(t)'
    BY <1>1, <1>2, SentKept, PipeKept, ReceivedKept
  <2>2. EndOK(t)'
    <3>1. CASE t = "server"
      BY <1>2, <1>3, <3>1 DEF EndOK
    <3>2. CASE t # "server"
      BY <1>1, <1>2, <3>2, EndKept
    <3> QED
      BY <3>1, <3>2
  <2> QED
    BY <2>1, <2>2
<1> QED
  BY <1>4, <1>5 DEF IInv

LEMMA NetcatGoesIInv ==
  ASSUME IInv, NetcatGoes
  PROVE  IInv'
<1>1. TypeOK /\ program["server"] = "netcat" /\ result["server"] = "running"
  BY DEF IInv, NetcatGoes, Netcat
<1>2. "server" \in Sides /\ Other("server") = "client" /\ ~ ReadsToEnd(program["client"])
  BY <1>1, NetcatIs
<1>3. PICK outcome \in {"ok", "error"} : Leave("server", outcome)
  BY DEF NetcatGoes
<1>4. UNCHANGED <<program, progress, transfer>>
  BY DEF NetcatGoes
<1> QED
  BY <1>1, <1>2, <1>3, <1>4, LeaveIInv

-------------------------------------------------------------------------------
(* Every step is one of the promise or leaves it alone.                    *)
LEMMA Stutters ==
  ASSUME UNCHANGED <<program, sent, received, result>>
  PROVE  UNCHANGED MT!vars
<1>1. /\ [s \in Sides |-> Message(program, s)]' = [s \in Sides |-> Message(program, s)]
      /\ [s \in Sides |-> Claims(s)]' = [s \in Sides |-> Claims(s)]
      /\ [s \in Sides |-> Awaits(s)]' = [s \in Sides |-> Awaits(s)]
  BY DEF Claims, Awaits
<1> QED
  BY <1>1 DEF MT!vars

LEMMA Promised ==
  ASSUME UNCHANGED program
  PROVE  /\ UNCHANGED [s \in Sides |-> Message(program, s)]
         /\ UNCHANGED [s \in Sides |-> Claims(s)]
         /\ UNCHANGED [s \in Sides |-> Awaits(s)]
BY DEF Claims, Awaits

(* The promise has prefixes of its own.                                    *)
LEMMA SamePrefixes ==
  ASSUME NEW s, NEW t
  PROVE  /\ MT!IsPrefix(s, t) <=> IsPrefix(s, t)
         /\ MT!IsStrictPrefix(s, t) <=> IsPrefix(s, t) /\ s # t
BY DEF MT!IsPrefix, MT!IsStrictPrefix, IsPrefix, IsStrictPrefix

LEMMA Sends ==
  ASSUME NEW s \in Sides, result[s] = "running", sent'[s] # sent[s],
         IsPrefix(sent[s], sent'[s]), IsPrefix(sent'[s], Message(program, s)),
         sent' = [sent EXCEPT ![s] = sent'[s]], UNCHANGED <<program, received, result>>
  PROVE  MT!Next
<1>1. MT!Extends(sent, s)
  BY SamePrefixes DEF MT!Extends
<1>2. MT!IsPrefix(sent'[s], [t \in Sides |-> Message(program, t)][s])
  BY SamePrefixes
<1>3. MT!Send(s)
  BY <1>1, <1>2, Promised DEF MT!Send
<1> QED
  BY <1>3 DEF MT!Next, MT!Sides, Sides

LEMMA Receives ==
  ASSUME NEW s \in Sides, result[s] = "running", received'[s] # received[s],
         IsPrefix(received[s], received'[s]), IsPrefix(received'[s], sent[Other(s)]),
         received' = [received EXCEPT ![s] = received'[s]], UNCHANGED <<program, sent, result>>
  PROVE  MT!Next
<1>1. MT!Extends(received, s)
  BY SamePrefixes DEF MT!Extends
<1>2. MT!Other(s) = Other(s)
  BY DEF MT!Other, Other
<1>3. MT!Receive(s)
  BY <1>1, <1>2, Promised, SamePrefixes DEF MT!Receive
<1> QED
  BY <1>3 DEF MT!Next, MT!Sides, Sides

LEMMA Fails ==
  ASSUME NEW s \in Sides, result[s] = "running", Leave(s, "error"),
         UNCHANGED <<program, progress, transfer>>
  PROVE  MT!Next
<1>1. MT!Fail(s)
  BY Promised DEF MT!Fail, Leave, transfer
<1> QED
  BY <1>1 DEF MT!Next, MT!Sides, Sides

LEMMA Succeeds ==
  ASSUME NEW s \in Sides, result[s] = "running", Leave(s, "ok"),
         UNCHANGED <<program, progress, transfer>>,
         IsPrefix(Claims(s), sent[s]), IsPrefix(Awaits(s), received[s])
  PROVE  MT!Next
<1>1. /\ MT!IsPrefix([t \in Sides |-> Claims(t)][s], sent[s])
      /\ MT!IsPrefix([t \in Sides |-> Awaits(t)][s], received[s])
  BY SamePrefixes
<1>2. MT!Succeed(s)
  BY <1>1, Promised DEF MT!Succeed, Leave, transfer
<1> QED
  BY <1>2 DEF MT!Next, MT!Sides, Sides

-------------------------------------------------------------------------------
(* The steps.                                                              *)
LEMMA WriteReturnsIInv ==
  ASSUME IInv, NEW s \in Sides, WriteReturns(s)
  PROVE  IInv' /\ UNCHANGED MT!vars
<1>1. /\ At(s, Writes) /\ Advance(s) /\ UNCHANGED <<program, transfer, connection>>
      /\ Call(s).op \in Writes
      /\ total[s] = Len(Call(s).msg) \/ Call(s).op = "writeSome"
  BY DEF WriteReturns, At
<1>2. Call(s).op \notin Reads
  BY <1>1 DEF Reads, Writes
<1>3. /\ UNCHANGED <<program, transfer, pipe, reset>> /\ ended' = ended
      /\ UNCHANGED <<program, sent, received, result>>
  BY <1>1 DEF connection, transfer, Advance
<1> QED
  BY <1>1, <1>2, <1>3, AdvanceIInv, Stutters

LEMMA WriteFailsIInv ==
  ASSUME IInv, NEW s \in Sides, WriteFails(s)
  PROVE  IInv' /\ [MT!Next]_(MT!vars)
<1>1. /\ At(s, Writes) /\ reset /\ UNCHANGED <<program, transfer>> /\ Call(s).op \in Writes
      /\ result[s] = "running"
  BY DEF WriteFails, At, Running
<1>2. Call(s).op \notin Reads
  BY <1>1 DEF Reads, Writes
<1>3. CASE Call(s).op = "writeQuietly"
  <2>1. Advance(s) /\ UNCHANGED connection
    BY <1>3 DEF WriteFails
  <2>2. /\ UNCHANGED <<program, transfer, pipe, reset>> /\ ended' = ended
        /\ UNCHANGED <<program, sent, received, result>>
    BY <1>1, <2>1 DEF connection, transfer, Advance
  <2> QED
    BY <1>1, <1>2, <1>3, <2>1, <2>2, AdvanceIInv, Stutters
<1>4. CASE Call(s).op # "writeQuietly"
  <2>1. Leave(s, "error") /\ UNCHANGED <<program, progress, transfer>>
    BY <1>1, <1>4 DEF WriteFails, Fail
  <2> QED
    BY <1>1, <2>1, LeaveIInv, Fails
<1> QED
  BY <1>3, <1>4

LEMMA ReadReturnsIInv ==
  ASSUME IInv, NEW s \in Sides, ReadReturns(s)
  PROVE  IInv' /\ UNCHANGED MT!vars
<1>1. /\ At(s, Reads) /\ HasRead(s) /\ Advance(s) /\ UNCHANGED <<program, transfer, connection>>
      /\ Call(s).op \in Reads
  BY DEF ReadReturns, At
<1>2. Call(s).op \notin Writes
  BY <1>1 DEF Reads, Writes
<1>3. /\ UNCHANGED <<program, transfer, pipe, reset>> /\ ended' = ended
      /\ UNCHANGED <<program, sent, received, result>>
  BY <1>1 DEF connection, transfer, Advance
<1>4. \/ (Call(s).op = "readSize" /\ Len(buffer[s]) = Len(Call(s).msg))
      \/ (Call(s).op = "readUntil" /\ Contains(buffer[s], "LF"))
  BY <1>1 DEF HasRead
<1> QED
  BY <1>1, <1>2, <1>3, <1>4, AdvanceIInv, Stutters

(* At the end of the stream everything is read.                            *)
LEMMA AllIsRead ==
  ASSUME IInv, NEW s \in Sides, At(s, {"readToEnd"}), pipe[Other(s)] = <<>>,
         Other(s) \in ended, ~ reset
  PROVE  IsPrefix(Messages(program[s], Reads), received[s])
<1>1. TypeOK /\ Other(s) \in Sides /\ Other(Other(s)) = s
  BY SidesAre DEF IInv
<1>2. /\ program \in Pairs /\ received[s] \in Seq(Tokens)
      /\ Op(program[s], pc[s]) = "readToEnd" /\ pc[s] \in DOMAIN Programs[program[s]]
  BY <1>1, AtCall, Types
<1>3. ReadsToEnd(program[s])
  BY <1>2 DEF ReadsToEnd, Op
<1>4. IsPrefix(Messages(program[s], Reads), Message(program, Other(s)))
  BY <1>2, <1>3, PartnersAssumption
<1>5. sent[Other(s)] = Message(program, Other(s))
  BY <1>1, <1>3 DEF IInv, EndOK
<1>6. received[s] \o pipe[Other(s)] = sent[Other(s)]
  BY <1>1 DEF IInv, PipeOK
<1>7. received[s] \o <<>> = received[s]
  BY <1>2
<1> QED
  BY <1>4, <1>5, <1>6, <1>7

(* A call that is not among those of a partner that says all.              *)
LEMMA NotAwaited ==
  ASSUME TypeOK, NEW s \in Sides, NEW ops, At(s, ops),
         ops \cap {"write", "readToEnd", "shutdownSend"} = {}
  PROVE  ~ ReadsToEnd(program[Other(s)])
<1>1. program \in Pairs /\ Other(s) \in Sides /\ Other(Other(s)) = s
  BY SidesAre, Types
<1>2. pc[s] \in DOMAIN Programs[program[s]] /\ Op(program[s], pc[s]) \in ops
  BY AtCall
<1>3. ~ SaysAll(program[s])
  BY <1>2 DEF SaysAll, Op
<1> QED
  BY <1>1, <1>3, PartnersAssumption

LEMMA ReadEndsIInv ==
  ASSUME IInv, NEW s \in Sides, ReadEnds(s)
  PROVE  IInv' /\ [MT!Next]_(MT!vars)
<1>1. /\ At(s, Reads) /\ UNCHANGED <<program, transfer>> /\ Call(s).op \in Reads
      /\ result[s] = "running"
      /\ pipe[Other(s)] = <<>> /\ Other(s) \in ended /\ ~ reset
  BY DEF ReadEnds, Reading, At, Running
<1>2. Call(s).op \notin Writes
  BY <1>1 DEF Reads, Writes
<1>3. CASE Call(s).op \in {"readToEnd", "drain", "drainFor"}
  <2>1. Advance(s) /\ UNCHANGED connection
    BY <1>3 DEF ReadEnds
  <2>2. /\ UNCHANGED <<program, transfer, pipe, reset>> /\ ended' = ended
        /\ UNCHANGED <<program, sent, received, result>>
    BY <1>1, <2>1 DEF connection, transfer, Advance
  <2>3. \/ Call(s).op \in {"drain", "drainFor"}
        \/ IsPrefix(Messages(program[s], Reads), received[s])
    <3>1. Call(s).op = "readToEnd" => At(s, {"readToEnd"})
      BY <1>1 DEF At
    <3> QED
      BY <1>1, <1>3, <3>1, AllIsRead
  <2> QED
    BY <1>1, <1>2, <2>1, <2>2, <2>3, AdvanceIInv, Stutters
<1>4. CASE Call(s).op \notin {"readToEnd", "drain", "drainFor"}
  <2>1. Leave(s, "error") /\ UNCHANGED <<program, progress, transfer>>
    BY <1>1, <1>4 DEF ReadEnds, Fail
  <2>2. At(s, {"readSize", "readUntil"})
    BY <1>1, <1>4 DEF At, Reads
  <2>3. ~ ReadsToEnd(program[Other(s)])
    BY <2>2, NotAwaited DEF IInv
  <2> QED
    BY <1>1, <2>1, <2>3, LeaveIInv, Fails
<1> QED
  BY <1>3, <1>4

LEMMA ReadFailsIInv ==
  ASSUME IInv, NEW s \in Sides, ReadFails(s)
  PROVE  IInv' /\ [MT!Next]_(MT!vars)
<1>1. /\ At(s, Reads) /\ UNCHANGED <<program, transfer>> /\ Call(s).op \in Reads
      /\ result[s] = "running" /\ reset
  BY DEF ReadFails, Reading, At, Running
<1>2. Call(s).op \notin Writes
  BY <1>1 DEF Reads, Writes
<1>3. CASE Call(s).op \in {"drain", "drainFor"}
  <2>1. Advance(s) /\ UNCHANGED connection
    BY <1>3 DEF ReadFails
  <2>2. /\ UNCHANGED <<program, transfer, pipe, reset>> /\ ended' = ended
        /\ UNCHANGED <<program, sent, received, result>>
    BY <1>1, <2>1 DEF connection, transfer, Advance
  <2> QED
    BY <1>1, <1>2, <1>3, <2>1, <2>2, AdvanceIInv, Stutters
<1>4. CASE Call(s).op \notin {"drain", "drainFor"}
  <2>1. Leave(s, "error") /\ UNCHANGED <<program, progress, transfer>>
    BY <1>1, <1>4 DEF ReadFails, Fail
  <2> QED
    BY <1>1, <2>1, LeaveIInv, Fails
<1> QED
  BY <1>3, <1>4

LEMMA ExpireIInv ==
  ASSUME IInv, NEW s \in Sides, Expire(s)
  PROVE  IInv' /\ UNCHANGED MT!vars
<1>1. /\ At(s, {"drainFor"}) /\ Advance(s) /\ UNCHANGED <<program, transfer, connection>>
      /\ Call(s).op = "drainFor"
  BY DEF Expire, At
<1>2. Call(s).op \notin Writes
  BY <1>1 DEF Writes
<1>3. /\ UNCHANGED <<program, transfer, pipe, reset>> /\ ended' = ended
      /\ UNCHANGED <<program, sent, received, result>>
  BY <1>1 DEF connection, transfer, Advance
<1> QED
  BY <1>1, <1>2, <1>3, AdvanceIInv, Stutters

LEMMA ShutdownIInv ==
  ASSUME IInv, NEW s \in Sides, Shutdown(s)
  PROVE  IInv' /\ [MT!Next]_(MT!vars)
<1>1. /\ At(s, {"shutdownSend", "shutdownBoth"}) /\ UNCHANGED <<program, transfer>>
      /\ Call(s).op \in {"shutdownSend", "shutdownBoth"} /\ result[s] = "running"
  BY DEF Shutdown, At, Running
<1>2. Call(s).op \notin Writes /\ Call(s).op \notin Reads
  BY <1>1 DEF Reads, Writes
<1>3. CASE ~ reset
  <2>1. Advance(s) /\ ended' = ended \cup {s} /\ UNCHANGED <<pipe, reset>>
    BY <1>3 DEF Shutdown
  <2>2. /\ UNCHANGED <<program, transfer, pipe, reset>>
        /\ UNCHANGED <<program, sent, received, result>>
    BY <1>1, <2>1 DEF transfer, Advance
  <2> QED
    BY <1>1, <1>2, <2>1, <2>2, AdvanceIInv, Stutters
<1>4. CASE reset
  <2>1. Leave(s, "error") /\ UNCHANGED <<program, progress, transfer>>
    BY <1>1, <1>4 DEF Shutdown, Fail
  <2> QED
    BY <1>1, <1>4, <2>1, LeaveIInv, Fails
<1> QED
  BY <1>3, <1>4

LEMMA RaiseErrorIInv ==
  ASSUME IInv, NEW s \in Sides, RaiseError(s)
  PROVE  IInv' /\ MT!Next
<1>1. /\ At(s, {"throw"}) /\ Leave(s, "error") /\ UNCHANGED <<program, progress, transfer>>
      /\ result[s] = "running"
  BY DEF RaiseError, Fail, At, Running
<1>2. ~ ReadsToEnd(program[Other(s)])
  BY <1>1, NotAwaited DEF IInv
<1> QED
  BY <1>1, <1>2, LeaveIInv, Fails

(* Where nobody takes a part for the whole, a program claims what its      *)
(* whole writes write.                                                     *)
LEMMA ClaimsAre ==
  ASSUME TypeOK, WholeWrites, NEW s \in Sides
  PROVE  Claims(s) = Messages(program[s], {"write"})
<1> DEFINE p == program[s]
<1>1. \A i \in DOMAIN Programs[p] : Programs[p][i].op # "writeSome"
  BY DEF TypeOK, WholeWrites
<1>2. \A i \in DOMAIN Programs[p] :
        Programs[p][i].op \in {"write", "writeSome"} <=> Programs[p][i].op \in {"write"}
  BY <1>1
<1>3. Parts(p, {"write", "writeSome"}) = Parts(p, {"write"})
  BY <1>2 DEF Parts
<1> QED
  BY <1>3 DEF Claims, Messages

(* A program that returns has kept its promise, if its claim is one that   *)
(* whole writes keep.                                                      *)
LEMMA ReturnIInv ==
  ASSUME IInv, NEW s \in Sides, Return(s)
  PROVE  IInv' /\ (WholeWrites => MT!Next)
<1> DEFINE p == program[s]
<1>1. TypeOK /\ \A t \in Sides : SentOK(t) /\ PipeOK(t) /\ ReceivedOK(t) /\ EndOK(t)
  BY DEF IInv
<1>2. /\ Running(s) /\ result[s] = "running" /\ p # "netcat" /\ Leave(s, "ok")
      /\ UNCHANGED <<program, progress, transfer>> /\ pc[s] > Len(Programs[p])
  BY DEF Return, Running
<1>3. /\ program \in Pairs /\ p \in DOMAIN Programs /\ pc[s] = Len(Programs[p]) + 1
      /\ pc[s] \notin DOMAIN Programs[p] /\ pc[s] \in 1..(Len(Programs[p]) + 1)
      /\ sent[s] \in Seq(Tokens) /\ received[s] \in Seq(Tokens) /\ buffer[s] \in Seq(Tokens)
  <2>1. /\ program \in Pairs /\ p \in DOMAIN Programs /\ Len(Programs[p]) \in Nat
        /\ DOMAIN Programs[p] = 1..Len(Programs[p]) /\ pc[s] \in 1..(Len(Programs[p]) + 1)
        /\ sent[s] \in Seq(Tokens) /\ received[s] \in Seq(Tokens) /\ buffer[s] \in Seq(Tokens)
    BY <1>1, Types
  <2> QED
    BY <1>2, <2>1
<1>4. /\ HasWritten(p, pc[s], total[s], sent[s], reset)
      /\ HasReceived(p, pc[s], buffer[s], received[s])
  BY <1>1, <1>2 DEF SentOK, ReceivedOK
<1>5. IsPrefix(Messages(p, {"write"}), sent[s])
  BY <1>3, <1>4, WrittenAll
<1>6. IsPrefix(Awaits(s), received[s])
  <2>1. Message(program, Other(s)) \in Seq(Tokens)
    BY <1>1, SidesAre, Types
  <2>2. /\ IsPrefix(received[s], Message(program, Other(s)))
        /\ \/ IsPrefix(Messages(p, Reads), Message(program, Other(s)))
           \/ IsPrefix(Message(program, Other(s)), Messages(p, Reads))
    BY ReceivedIsPrefix
  <2> QED
    BY <1>3, <1>4, <2>1, <2>2, ReceivedAll DEF Awaits
<1>7. ASSUME ReadsToEnd(program[Other(s)]) PROVE sent[s] = Message(program, s)
  <2>1. SaysAll(p) /\ Message(program, s) = Messages(p, Writes)
    <3>1. Other(s) \in Sides /\ Other(Other(s)) = s
      BY SidesAre
    <3> QED
      BY <1>2, <1>3, <1>7, <3>1, PartnersAssumption, MessageType
  <2>2. sent[s] = Messages(p, Writes)
    BY <1>3, <1>4, <2>1, SaidAll
  <2> QED
    BY <2>1, <2>2
<1>8. ASSUME WholeWrites PROVE IsPrefix(Claims(s), sent[s])
  BY <1>1, <1>5, <1>8, ClaimsAre
<1>9. ASSUME WholeWrites PROVE MT!Next
  BY <1>2, <1>6, <1>8, <1>9, Succeeds
<1> QED
  BY <1>2, <1>7, <1>9, LeaveIInv

LEMMA NetcatKeepsItsPromise ==
  ASSUME IInv, NetcatGoes
  PROVE  MT!Next
<1>1. TypeOK /\ program["server"] = "netcat" /\ result["server"] = "running"
  BY DEF IInv, NetcatGoes, Netcat
<1>2. "server" \in Sides /\ sent["server"] \in Seq(Tokens) /\ received["server"] \in Seq(Tokens)
  BY <1>1, NetcatIs, Types
<1>3. UNCHANGED <<program, progress, transfer>>
  BY DEF NetcatGoes
<1>4. CASE Leave("server", "error")
  BY <1>1, <1>2, <1>3, <1>4, Fails
<1>5. CASE Leave("server", "ok")
  <2>1. \A ops : Messages("netcat", ops) = <<>>
    <3> TAKE ops
    <3>1. "netcat" \in DOMAIN Programs /\ Len(Programs["netcat"]) + 1 = 1
      BY ProgramsAssumption
    <3>2. Earlier("netcat", ops, Len(Programs["netcat"]) + 1) = Messages("netcat", ops)
      BY <3>1, EarlierAll
    <3>3. Earlier("netcat", ops, 1) = <<>>
      BY <3>1, EarlierNone
    <3> QED
      BY <3>1, <3>2, <3>3
  <2>2. IsPrefix(Claims("server"), sent["server"]) /\ IsPrefix(Awaits("server"), received["server"])
    BY <1>1, <1>2, <2>1, PrefixTrivial DEF Claims, Awaits
  <2> QED
    BY <1>1, <1>2, <1>3, <1>5, <2>2, Succeeds
<1> QED
  BY <1>4, <1>5 DEF NetcatGoes

LEMMA StepIInv ==
  ASSUME IInv, NEW s \in Sides, Step(s)
  PROVE  IInv' /\ (WholeWrites => [MT!Next]_(MT!vars))
<1>1. CASE WritePart(s)
  <2>1. IInv' /\ MT!Next
    BY <1>1, WritePartIInv, Sends
  <2> QED
    BY <2>1
<1>2. CASE ReadPart(s)
  <2>1. IInv' /\ MT!Next
    BY <1>2, ReadPartIInv, Receives
  <2> QED
    BY <2>1
<1>3. CASE WriteReturns(s)
  BY <1>3, WriteReturnsIInv
<1>4. CASE WriteFails(s)
  BY <1>4, WriteFailsIInv
<1>5. CASE ReadReturns(s)
  BY <1>5, ReadReturnsIInv
<1>6. CASE ReadEnds(s)
  BY <1>6, ReadEndsIInv
<1>7. CASE ReadFails(s)
  BY <1>7, ReadFailsIInv
<1>8. CASE Expire(s)
  BY <1>8, ExpireIInv
<1>9. CASE Shutdown(s)
  BY <1>9, ShutdownIInv
<1>10. CASE RaiseError(s)
  BY <1>10, RaiseErrorIInv
<1>11. CASE Return(s)
  BY <1>11, ReturnIInv
<1> QED
  BY <1>1, <1>2, <1>3, <1>4, <1>5, <1>6, <1>7, <1>8, <1>9, <1>10, <1>11 DEF Step

LEMMA NetcatStepIInv ==
  ASSUME IInv, NetcatStep
  PROVE  IInv' /\ [MT!Next]_(MT!vars)
<1> DEFINE s == "server"
<1>1. CASE NetcatSends
  <2>1. s \in Sides
    BY DEF Sides
  <2>2. IInv' /\ MT!Next
    BY <1>1, <2>1, NetcatSendsIInv, Sends
  <2> QED
    BY <2>2
<1>2. CASE NetcatReceives
  <2>1. s \in Sides /\ Other(s) = "client"
    BY DEF Sides, Other
  <2>2. IInv' /\ MT!Next
    BY <1>2, <2>1, NetcatReceivesIInv, Receives
  <2> QED
    BY <2>2
<1>3. CASE NetcatEndsStream
  <2>1. UNCHANGED <<program, sent, received, result>>
    BY <1>3 DEF NetcatEndsStream, transfer
  <2> QED
    BY <1>3, <2>1, NetcatEndsStreamIInv, Stutters
<1>4. CASE NetcatGoes
  BY <1>4, NetcatGoesIInv, NetcatKeepsItsPromise
<1> QED
  BY <1>1, <1>2, <1>3, <1>4 DEF NetcatStep

LEMMA StutterIInv ==
  ASSUME IInv, UNCHANGED vars
  PROVE  IInv' /\ UNCHANGED MT!vars
<1>1. TypeOK /\ \A t \in Sides : SentOK(t) /\ PipeOK(t) /\ ReceivedOK(t) /\ EndOK(t)
  BY DEF IInv
<1>2. /\ program' = program /\ pc' = pc /\ total' = total /\ buffer' = buffer
      /\ sent' = sent /\ received' = received /\ result' = result
      /\ pipe' = pipe /\ ended' = ended /\ reset' = reset
  BY DEF vars, progress, transfer, connection
<1>3. TypeOK'
  BY <1>1, <1>2 DEF TypeOK, At, Call, Running
<1>4. ASSUME NEW t \in Sides PROVE SentOK(t)' /\ PipeOK(t)' /\ ReceivedOK(t)' /\ EndOK(t)'
  BY <1>1, <1>2, SentKept, PipeKept, ReceivedKept, EndKept
<1> QED
  BY <1>2, <1>3, <1>4, Stutters DEF IInv

LEMMA NextIInv ==
  ASSUME IInv, [Next]_vars
  PROVE  IInv' /\ (WholeWrites => [MT!Next]_(MT!vars))
<1>1. ASSUME NEW s \in Sides, Step(s) PROVE IInv' /\ (WholeWrites => [MT!Next]_(MT!vars))
  BY <1>1, StepIInv
<1>2. ASSUME NEW s \in Sides, Refuse(s) PROVE IInv' /\ [MT!Next]_(MT!vars)
  <2>1. UNCHANGED <<program, sent, received, result>>
    BY <1>2 DEF Refuse, transfer
  <2> QED
    BY <1>2, <2>1, RefuseIInv, Stutters
<1>3. CASE NetcatStep
  BY <1>3, NetcatStepIInv
<1>4. CASE UNCHANGED vars
  BY <1>4, StutterIInv
<1> QED
  BY <1>1, <1>2, <1>3, <1>4 DEF Next

LEMMA Invariance == Spec => []IInv
<1>1. IInv /\ [Next]_vars => IInv'
  BY NextIInv
<1> QED
  BY InitIInv, <1>1, PTL DEF Spec

(* Whatever the programs of a conversation, the messages and the pieces    *)
(* they arrive in: every variable has its type, no call writes more than   *)
(* its message, and none that reads a number of bytes goes beyond its      *)
(* buffer.                                                                 *)
THEOREM TypeCorrect == Spec => []TypeOK
<1>1. IInv => TypeOK
  BY DEF IInv
<1> QED
  BY Invariance, <1>1, PTL

(* Every conversation of programs none of which takes a part of its        *)
(* message for the whole keeps the promise of MessageTransfer: what a side *)
(* has written is a beginning of its message and what the other has read a *)
(* beginning of that, and a program reports success only when what it      *)
(* claims to have written is written and what it waits for is read.  For   *)
(* the loops around write_some and read_some, the callbacks that start the *)
(* next operation, and boost::asio::read_until and write.                  *)
THEOREM Refinement ==
  ASSUME WholeWrites
  PROVE  Spec => ImplementsTransfer
<1>1. Init => MT!Init
  BY DEF Init, MT!Init, MT!Sides, Sides
<1>2. IInv /\ [Next]_vars => [MT!Next]_(MT!vars)
  BY NextIInv
<1> QED
  BY Invariance, <1>1, <1>2, PTL DEF Spec, ImplementsTransfer, MT!Spec

===============================================================================
