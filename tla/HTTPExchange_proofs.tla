------------------------- MODULE HTTPExchange_proofs -------------------------
(***************************************************************************)
(* Proofs about HTTPExchange, for any set of resources and files of any    *)
(* size.                                                                   *)
(*                                                                         *)
(* Whether a request is told the truth depends on every token between the  *)
(* two programs: the invariant below says that what the client has read    *)
(* and not taken, what the network holds and what the server has still to  *)
(* write are together the rest of the response, and the same of the        *)
(* request.                                                                *)
(***************************************************************************)
EXTENDS HTTPExchange, SequenceTheorems, TLAPS

(* What the callback finds: of the empty line the loop takes the first     *)
(* '\r' it meets at the beginning of a line.                               *)
Body ==
  (IF Headers = EmptyLine THEN <<"LF">> \o CRLF ELSE <<"LF">>) \o Content

(* What the client has not taken from its buffer yet, of all the response. *)
Expecting ==
  CASE client \in {"write", "status"} -> Response
    [] client = "headers"             -> Headers \o Content
    [] client = "body"                -> Body

(* The callback is called when the request is done, and the stream of a    *)
(* side is ended by its shutdown or its close.                             *)
StagesOK ==
  /\ told = "none" <=> client \in {"write", "status", "headers", "body"}
  /\ client \in {"status", "headers", "body"} => out = <<>>
  /\ "client" \in ended => client # "write"
  /\ "server" \in ended => server = "closed"
  /\ server \in {"line", "headers"} => downstream = <<>> /\ ~ reset

(* No token of the request is lost while the server reads it.              *)
RequestOK ==
  /\ server = "line" => m_request \o upstream \o out = Request
  /\ server = "headers" => m_request \o upstream \o out = <<"HOST">> \o EmptyLine
  /\ server = "write" /\ resource # "spaced" => upstream = <<>> /\ out = <<>>

(* What the client has received is a beginning of what it expects, and the *)
(* rest is still to be written, unless the connection was reset.           *)
ResponseOK ==
  client \in {"write", "status", "headers", "body"} =>
    /\ IsPrefix(m_response.buf \o downstream, Expecting)
    /\ client \in {"headers", "body"} => m_response.code = StatusCode
    /\ client = "body" => m_response.headers = {"LENGTH"} \cap Range(Headers)
    /\ server \in {"line", "headers"} =>
         m_response.buf = <<>> /\ client \in {"write", "status"}
    /\ server = "write" /\ ~ reset => m_response.buf \o downstream \o response = Expecting
    /\ server = "closed" /\ ~ stopped /\ ~ reset => m_response.buf \o downstream = Expecting

(* As long as nobody interferes the server closes after the response, with *)
(* nothing unread.                                                         *)
Undisturbed == ~ stopped /\ resource # "spaced" /\ told = "none"

CauseOK ==
  Undisturbed =>
    /\ ~ reset
    /\ server = "closed" => upstream = <<>> /\ out = <<>>

IInv ==
  /\ TypeOK /\ StagesOK /\ RequestOK /\ ResponseOK /\ CauseOK
  /\ ResponseIsDelivered /\ ErrorsHaveACause

-------------------------------------------------------------------------------
(* Sequences of tokens: concatenations and the pieces they are cut into.   *)
LEMMA Associative ==
  ASSUME NEW s \in Seq(Tokens), NEW t \in Seq(Tokens), NEW u \in Seq(Tokens)
  PROVE  (s \o t) \o u = s \o (t \o u)
BY ConcatAssociative

LEMMA ConcatIs ==
  ASSUME NEW s \in Seq(Tokens), NEW t \in Seq(Tokens), NEW u \in Seq(Tokens),
         Len(u) = Len(s) + Len(t),
         \A i \in 1..Len(s) : u[i] = s[i],
         \A i \in 1..Len(t) : u[Len(s) + i] = t[i]
  PROVE  s \o t = u
<1>1. s \o t \in Seq(Tokens) /\ Len(s \o t) = Len(u)
  <2>1. ASSUME NEW v \in Seq(Tokens), NEW w \in Seq(Tokens)
        PROVE  v \o w \in Seq(Tokens) /\ Len(v \o w) = Len(v) + Len(w)
    BY ConcatProperties
  <2> QED
    BY <2>1
<1>2. ASSUME NEW i \in 1..Len(s \o t) PROVE (s \o t)[i] = u[i]
  <2>1. CASE i <= Len(s)
    BY <1>1, <2>1
  <2>2. CASE ~ (i <= Len(s))
    <3>1. i - Len(s) \in 1..Len(t) /\ i = Len(s) + (i - Len(s))
      BY <1>1, <2>2
    <3>2. (s \o t)[i] = t[i - Len(s)]
      BY <3>1
    <3> QED
      BY <3>1, <3>2
  <2> QED
    BY <2>1, <2>2
<1> QED
  BY <1>1, <1>2, SeqEqual

LEMMA AfterElements ==
  ASSUME NEW s \in Seq(Tokens), NEW n \in 0..Len(s)
  PROVE  /\ After(s, n) \in Seq(Tokens)
         /\ Len(After(s, n)) = Len(s) - n
         /\ \A i \in 1..Len(s) - n : After(s, n)[i] = s[n + i]
BY DEF After

LEMMA SplitSeq ==
  ASSUME NEW s \in Seq(Tokens), NEW n \in 0..Len(s)
  PROVE  /\ SubSeq(s, 1, n) \in Seq(Tokens)
         /\ SubSeq(s, 1, n) \o After(s, n) = s
<1>1. /\ SubSeq(s, 1, n) \in Seq(Tokens) /\ Len(SubSeq(s, 1, n)) = n
      /\ \A i \in 1..n : s[i] = SubSeq(s, 1, n)[i]
  OBVIOUS
<1>2. /\ After(s, n) \in Seq(Tokens) /\ Len(s) = n + Len(After(s, n))
      /\ \A i \in 1..Len(After(s, n)) : s[n + i] = After(s, n)[i]
  <2>1. /\ After(s, n) \in Seq(Tokens) /\ Len(After(s, n)) = Len(s) - n
        /\ \A i \in 1..Len(s) - n : After(s, n)[i] = s[n + i]
    BY AfterElements
  <2> QED
    BY <2>1
<1>3. /\ Len(s) = Len(SubSeq(s, 1, n)) + Len(After(s, n))
      /\ \A i \in 1..Len(SubSeq(s, 1, n)) : s[i] = SubSeq(s, 1, n)[i]
      /\ \A i \in 1..Len(After(s, n)) : s[Len(SubSeq(s, 1, n)) + i] = After(s, n)[i]
  BY <1>1, <1>2, Zenon
<1> QED
  BY <1>1, <1>2, <1>3, ConcatIs, Zenon

(* The beginning of t moves to the end of u.                               *)
LEMMA MovePiece ==
  ASSUME NEW u \in Seq(Tokens), NEW t \in Seq(Tokens), NEW n \in 0..Len(t)
  PROVE  /\ u \o SubSeq(t, 1, n) \in Seq(Tokens) /\ After(t, n) \in Seq(Tokens)
         /\ (u \o SubSeq(t, 1, n)) \o After(t, n) = u \o t
         /\ \A s \in Seq(Tokens) : (s \o (u \o SubSeq(t, 1, n))) \o After(t, n) = (s \o u) \o t
<1>1. /\ SubSeq(t, 1, n) \in Seq(Tokens) /\ After(t, n) \in Seq(Tokens)
      /\ SubSeq(t, 1, n) \o After(t, n) = t
  BY SplitSeq, AfterElements
<1>2. ASSUME NEW v \in Seq(Tokens) PROVE (v \o SubSeq(t, 1, n)) \o After(t, n) = v \o t
  <2>1. (v \o SubSeq(t, 1, n)) \o After(t, n) = v \o (SubSeq(t, 1, n) \o After(t, n))
    BY <1>1, Associative, Zenon
  <2> QED
    BY <1>1, <2>1, Zenon
<1>3. ASSUME NEW a \in Seq(Tokens) PROVE u \o a \in Seq(Tokens)
  OBVIOUS
<1>4. ASSUME NEW s \in Seq(Tokens)
      PROVE  (s \o (u \o SubSeq(t, 1, n))) \o After(t, n) = (s \o u) \o t
  <2>1. (s \o u) \o SubSeq(t, 1, n) = s \o (u \o SubSeq(t, 1, n))
    BY <1>1, Associative, Zenon
  <2>2. s \o u \in Seq(Tokens)
    OBVIOUS
  <2> QED
    BY <1>1, <1>2, <2>1, <2>2, Zenon
<1> QED
  BY <1>1, <1>2, <1>3, <1>4, Zenon

LEMMA AfterConcat ==
  ASSUME NEW s \in Seq(Tokens), NEW t \in Seq(Tokens), NEW n \in 0..Len(s)
  PROVE  After(s, n) \o t = After(s \o t, n)
<1>1. ASSUME NEW u \in Seq(Tokens),
             Len(u) = Len(s) + Len(t),
             \A i \in 1..Len(s) : u[i] = s[i],
             \A i \in 1..Len(t) : u[Len(s) + i] = t[i]
      PROVE  After(s, n) \o t = After(u, n)
  <2>1. /\ After(s, n) \in Seq(Tokens) /\ Len(After(s, n)) = Len(s) - n
        /\ \A i \in 1..Len(s) - n : After(s, n)[i] = s[n + i]
    BY AfterElements
  <2>2. n \in 0..Len(u) /\ Len(s) - n \in Nat
    BY <1>1
  <2>3. /\ After(u, n) \in Seq(Tokens) /\ Len(After(u, n)) = Len(u) - n
        /\ \A i \in 1..Len(u) - n : After(u, n)[i] = u[n + i]
    BY <2>2, AfterElements
  <2>4. \A i \in 1..Len(s) - n : After(u, n)[i] = After(s, n)[i]
    <3> TAKE i \in 1..Len(s) - n
    <3>1. i \in 1..Len(u) - n /\ n + i \in 1..Len(s)
      BY <1>1
    <3> QED
      BY <1>1, <2>1, <2>3, <3>1
  <2>5. \A i \in 1..Len(t) : After(u, n)[Len(s) - n + i] = t[i]
    <3> TAKE i \in 1..Len(t)
    <3>1. Len(s) - n + i \in 1..Len(u) - n /\ n + (Len(s) - n + i) = Len(s) + i
      BY <1>1
    <3> QED
      BY <1>1, <2>3, <3>1
  <2>6. Len(After(u, n)) = Len(s) - n + Len(t)
    BY <1>1, <2>3
  <2>7. /\ Len(After(u, n)) = Len(After(s, n)) + Len(t)
        /\ \A i \in 1..Len(After(s, n)) : After(u, n)[i] = After(s, n)[i]
        /\ \A i \in 1..Len(t) : After(u, n)[Len(After(s, n)) + i] = t[i]
    BY <2>1, <2>4, <2>5, <2>6, Zenon
  <2> QED
    BY <2>1, <2>3, <2>7, ConcatIs, Zenon
<1>2. /\ s \o t \in Seq(Tokens) /\ Len(s \o t) = Len(s) + Len(t)
      /\ \A i \in 1..Len(s) : (s \o t)[i] = s[i]
      /\ \A i \in 1..Len(t) : (s \o t)[Len(s) + i] = t[i]
  OBVIOUS
<1> QED
  BY <1>1, <1>2, Zenon

LEMMA PrefixElements ==
  ASSUME NEW s \in Seq(Tokens), NEW t \in Seq(Tokens)
  PROVE  IsPrefix(s, t) <=> Len(s) <= Len(t) /\ \A i \in 1..Len(s) : s[i] = t[i]
<1>1. Len(s) <= Len(t) => SubSeq(t, 1, Len(s)) \in Seq(Tokens) /\ Len(SubSeq(t, 1, Len(s))) = Len(s)
  OBVIOUS
<1>2. SubSeq(s, 1, Len(s)) = s
  OBVIOUS
<1> QED
  BY <1>1, <1>2 DEF IsPrefix

LEMMA PrefixOfConcat ==
  ASSUME NEW s \in Seq(Tokens), NEW t \in Seq(Tokens)
  PROVE  IsPrefix(s, s \o t)
<1>1. s \o t \in Seq(Tokens) /\ Len(s) <= Len(s \o t) /\ \A i \in 1..Len(s) : s[i] = (s \o t)[i]
  OBVIOUS
<1> QED
  BY <1>1, PrefixElements

LEMMA PrefixTransitive ==
  ASSUME NEW s \in Seq(Tokens), NEW t \in Seq(Tokens), NEW u \in Seq(Tokens),
         IsPrefix(s, t), IsPrefix(t, u)
  PROVE  IsPrefix(s, u)
<1>1. Len(s) <= Len(t) /\ \A i \in 1..Len(s) : s[i] = t[i]
  BY PrefixElements
<1>2. Len(t) <= Len(u) /\ \A i \in 1..Len(t) : t[i] = u[i]
  BY PrefixElements
<1>3. Len(s) <= Len(u) /\ \A i \in 1..Len(s) : s[i] = u[i]
  BY <1>1, <1>2
<1> QED
  BY <1>3, PrefixElements

LEMMA PrefixTruncated ==
  ASSUME NEW s \in Seq(Tokens), NEW t \in Seq(Tokens), NEW n \in 0..Len(t)
  PROVE  IsPrefix(s \o SubSeq(t, 1, n), s \o t)
<1>1. /\ SubSeq(t, 1, n) \in Seq(Tokens) /\ After(t, n) \in Seq(Tokens)
      /\ (s \o SubSeq(t, 1, n)) \o After(t, n) = s \o t
  <2>1. /\ SubSeq(t, 1, n) \in Seq(Tokens) /\ After(t, n) \in Seq(Tokens)
        /\ SubSeq(t, 1, n) \o After(t, n) = t
    BY SplitSeq, AfterElements
  <2>2. (s \o SubSeq(t, 1, n)) \o After(t, n) = s \o (SubSeq(t, 1, n) \o After(t, n))
    BY <2>1, Associative, Zenon
  <2> QED
    BY <2>1, <2>2, Zenon
<1>2. s \o SubSeq(t, 1, n) \in Seq(Tokens)
  BY <1>1
<1>3. IsPrefix(s \o SubSeq(t, 1, n), (s \o SubSeq(t, 1, n)) \o After(t, n))
  BY <1>1, <1>2, PrefixOfConcat
<1> QED
  BY <1>1, <1>3, Zenon

LEMMA PrefixAfter ==
  ASSUME NEW s \in Seq(Tokens), NEW t \in Seq(Tokens), NEW n \in 0..Len(s), IsPrefix(s, t)
  PROVE  IsPrefix(After(s, n), After(t, n))
<1>1. Len(s) <= Len(t) /\ \A i \in 1..Len(s) : s[i] = t[i]
  BY PrefixElements
<1>2. /\ After(s, n) \in Seq(Tokens) /\ After(t, n) \in Seq(Tokens)
      /\ Len(After(s, n)) = Len(s) - n /\ Len(After(t, n)) = Len(t) - n
  BY <1>1 DEF After
<1>3. /\ \A i \in 1..Len(s) - n : After(s, n)[i] = s[n + i]
      /\ \A i \in 1..Len(t) - n : After(t, n)[i] = t[n + i]
  BY <1>1 DEF After
<1>4. /\ Len(After(s, n)) <= Len(After(t, n))
      /\ \A i \in 1..Len(After(s, n)) : After(s, n)[i] = After(t, n)[i]
  <2>1. Len(After(s, n)) <= Len(After(t, n))
    BY <1>1, <1>2
  <2>2. ASSUME NEW i \in 1..Len(After(s, n)) PROVE After(s, n)[i] = After(t, n)[i]
    <3>1. i \in 1..Len(s) - n /\ i \in 1..Len(t) - n /\ n + i \in 1..Len(s)
      BY <1>1, <1>2
    <3> QED
      BY <1>1, <1>3, <3>1
  <2> QED
    BY <2>1, <2>2
<1> QED
  BY <1>2, <1>4, PrefixElements

LEMMA SuffixOfConcat ==
  ASSUME NEW s \in Seq(Tokens), NEW t \in Seq(Tokens)
  PROVE  IsSuffix(t, s \o t)
<1>1. s \o t \in Seq(Tokens) /\ Len(s \o t) = Len(s) + Len(t)
  OBVIOUS
<1>2. /\ Reverse(t) \in Seq(Tokens) /\ Reverse(s \o t) \in Seq(Tokens)
      /\ Len(Reverse(t)) = Len(t) /\ Len(Reverse(s \o t)) = Len(s) + Len(t)
  BY <1>1 DEF Reverse
<1>3. \A i \in 1..Len(t) : Reverse(t)[i] = Reverse(s \o t)[i]
  BY <1>1 DEF Reverse
<1> QED
  BY <1>2, <1>3, PrefixElements DEF IsSuffix

LEMMA OccursAt ==
  ASSUME NEW s \in Seq(Tokens), NEW d \in Seq(Tokens)
  PROVE  Occurs(d, s) <=> \E i \in 1..Len(s) : /\ i + Len(d) - 1 <= Len(s)
                                             /\ \A j \in 1..Len(d) : s[i + j - 1] = d[j]
<1>1. ASSUME NEW i \in 1..Len(s)
      PROVE  IsPrefix(d, SubSeq(s, i, Len(s))) <=>
               /\ i + Len(d) - 1 <= Len(s)
               /\ \A j \in 1..Len(d) : s[i + j - 1] = d[j]
  <2>1. /\ SubSeq(s, i, Len(s)) \in Seq(Tokens)
        /\ Len(SubSeq(s, i, Len(s))) = Len(s) - i + 1
        /\ \A j \in 1..Len(s) - i + 1 : SubSeq(s, i, Len(s))[j] = s[i + j - 1]
    OBVIOUS
  <2>2. ASSUME NEW t \in Seq(Tokens), Len(t) = Len(s) - i + 1,
               \A j \in 1..Len(s) - i + 1 : t[j] = s[i + j - 1]
        PROVE  IsPrefix(d, t) <=> /\ i + Len(d) - 1 <= Len(s)
                                  /\ \A j \in 1..Len(d) : s[i + j - 1] = d[j]
    <3>1. IsPrefix(d, t) <=> Len(d) <= Len(t) /\ \A j \in 1..Len(d) : d[j] = t[j]
      BY PrefixElements
    <3>2. Len(d) <= Len(t) <=> i + Len(d) - 1 <= Len(s)
      BY <2>2
    <3>3. ASSUME Len(d) <= Len(t), NEW j \in 1..Len(d)
          PROVE  t[j] = s[i + j - 1]
      BY <2>2, <3>3
    <3> QED
      BY <3>1, <3>2, <3>3
  <2> QED
    BY <2>1, <2>2
<1> QED
  BY <1>1 DEF Occurs

LEMMA MinIs ==
  ASSUME NEW M \in SUBSET Nat, NEW m \in M, \A k \in M : m <= k
  PROVE  Min(M) = m
<1>1. Min(M) \in M /\ \A k \in M : Min(M) <= k
  BY DEF Min
<1>2. Min(M) \in Nat /\ m \in Nat /\ Min(M) <= m /\ m <= Min(M)
  BY <1>1
<1> QED
  BY <1>2

-------------------------------------------------------------------------------
LEMMA ConcatElements ==
  ASSUME NEW s \in Seq(Tokens), NEW t \in Seq(Tokens)
  PROVE  /\ s \o t \in Seq(Tokens) /\ Len(s \o t) = Len(s) + Len(t)
         /\ \A i \in 1..Len(s) : (s \o t)[i] = s[i]
         /\ \A i \in 1..Len(t) : (s \o t)[Len(s) + i] = t[i]
OBVIOUS

LEMMA AfterOfConcat ==
  ASSUME NEW s \in Seq(Tokens), NEW t \in Seq(Tokens)
  PROVE  After(s \o t, Len(s)) = t
<1>1. ASSUME NEW u \in Seq(Tokens), NEW n \in Nat, Len(u) = n + Len(t),
             \A i \in 1..Len(t) : u[n + i] = t[i]
      PROVE  After(u, n) = t
  <2>1. n \in 0..Len(u)
    BY <1>1
  <2>2. /\ After(u, n) \in Seq(Tokens) /\ Len(After(u, n)) = Len(u) - n
        /\ \A i \in 1..Len(u) - n : After(u, n)[i] = u[n + i]
    BY <2>1, AfterElements
  <2>3. Len(u) - n = Len(t)
    BY <1>1
  <2> QED
    BY <1>1, <2>2, <2>3, SeqEqual
<1>2. Len(s) \in Nat
  OBVIOUS
<1> QED
  BY <1>1, <1>2, ConcatElements, Zenon

(* The beginnings of the messages.                                         *)
LEMMA Tuples ==
  /\ \A a, b, c \in Tokens : <<a>> \o <<b, c>> = <<a, b, c>>
  /\ \A a, b, c, d \in Tokens : <<a, b>> \o <<c, d>> = <<a, b, c, d>>
  /\ \A a, b, c, d \in Tokens : <<a>> \o <<b, c, d>> = <<a, b, c, d>>
  /\ \A a, b, c, d, e \in Tokens : <<a>> \o <<b, c, d, e>> = <<a, b, c, d, e>>
  /\ \A a, b, c, d, e \in Tokens : <<a, b, c, d>> \o <<e>> = <<a, b, c, d, e>>
<1>1. ASSUME NEW a \in Tokens, NEW b \in Tokens, NEW c \in Tokens
      PROVE  <<a>> \o <<b, c>> = <<a, b, c>>
  <2>1. <<a>> \in Seq(Tokens) /\ <<b, c>> \in Seq(Tokens) /\ <<a, b, c>> \in Seq(Tokens)
    OBVIOUS
  <2>2. ASSUME NEW s \in Seq(Tokens), NEW t \in Seq(Tokens), NEW u \in Seq(Tokens),
               Len(s) = 1, Len(t) = 2, Len(u) = 3,
               u[1] = s[1], u[2] = t[1], u[3] = t[2]
        PROVE  s \o t = u
    <3>1. /\ Len(u) = Len(s) + Len(t)
          /\ \A i \in 1..Len(s) : u[i] = s[i]
          /\ \A i \in 1..Len(t) : u[Len(s) + i] = t[i]
      BY <2>2
    <3> QED
      BY <3>1, ConcatIs, Zenon
  <2> QED
    BY <2>1, <2>2
<1>2. ASSUME NEW a \in Tokens, NEW b \in Tokens, NEW c \in Tokens, NEW d \in Tokens
      PROVE  <<a, b>> \o <<c, d>> = <<a, b, c, d>>
  <2>1. <<a, b>> \in Seq(Tokens) /\ <<c, d>> \in Seq(Tokens) /\ <<a, b, c, d>> \in Seq(Tokens)
    OBVIOUS
  <2>2. ASSUME NEW s \in Seq(Tokens), NEW t \in Seq(Tokens), NEW u \in Seq(Tokens),
               Len(s) = 2, Len(t) = 2, Len(u) = 4,
               u[1] = s[1], u[2] = s[2], u[3] = t[1], u[4] = t[2]
        PROVE  s \o t = u
    <3>1. /\ Len(u) = Len(s) + Len(t)
          /\ \A i \in 1..Len(s) : u[i] = s[i]
          /\ \A i \in 1..Len(t) : u[Len(s) + i] = t[i]
      BY <2>2
    <3> QED
      BY <3>1, ConcatIs, Zenon
  <2> QED
    BY <2>1, <2>2
<1>3. ASSUME NEW a \in Tokens, NEW b \in Tokens, NEW c \in Tokens, NEW d \in Tokens
      PROVE  <<a>> \o <<b, c, d>> = <<a, b, c, d>>
  <2>1. <<a>> \in Seq(Tokens) /\ <<b, c, d>> \in Seq(Tokens) /\ <<a, b, c, d>> \in Seq(Tokens)
    OBVIOUS
  <2>2. ASSUME NEW s \in Seq(Tokens), NEW t \in Seq(Tokens), NEW u \in Seq(Tokens),
               Len(s) = 1, Len(t) = 3, Len(u) = 4,
               u[1] = s[1], u[2] = t[1], u[3] = t[2], u[4] = t[3]
        PROVE  s \o t = u
    <3>1. /\ Len(u) = Len(s) + Len(t)
          /\ \A i \in 1..Len(s) : u[i] = s[i]
          /\ \A i \in 1..Len(t) : u[Len(s) + i] = t[i]
      BY <2>2
    <3> QED
      BY <3>1, ConcatIs, Zenon
  <2> QED
    BY <2>1, <2>2
<1>4. ASSUME NEW a \in Tokens, NEW b \in Tokens, NEW c \in Tokens, NEW d \in Tokens,
             NEW e \in Tokens
      PROVE  <<a>> \o <<b, c, d, e>> = <<a, b, c, d, e>>
  <2>1. <<a>> \in Seq(Tokens) /\ <<b, c, d, e>> \in Seq(Tokens) /\ <<a, b, c, d, e>> \in Seq(Tokens)
    OBVIOUS
  <2>2. ASSUME NEW s \in Seq(Tokens), NEW t \in Seq(Tokens), NEW u \in Seq(Tokens),
               Len(s) = 1, Len(t) = 4, Len(u) = 5,
               u[1] = s[1], u[2] = t[1], u[3] = t[2], u[4] = t[3], u[5] = t[4]
        PROVE  s \o t = u
    <3>1. /\ Len(u) = Len(s) + Len(t)
          /\ \A i \in 1..Len(s) : u[i] = s[i]
          /\ \A i \in 1..Len(t) : u[Len(s) + i] = t[i]
      BY <2>2
    <3> QED
      BY <3>1, ConcatIs, Zenon
  <2> QED
    BY <2>1, <2>2
<1>5. ASSUME NEW a \in Tokens, NEW b \in Tokens, NEW c \in Tokens, NEW d \in Tokens,
             NEW e \in Tokens
      PROVE  <<a, b, c, d>> \o <<e>> = <<a, b, c, d, e>>
  <2>1. <<a, b, c, d>> \in Seq(Tokens) /\ <<e>> \in Seq(Tokens) /\ <<a, b, c, d, e>> \in Seq(Tokens)
    OBVIOUS
  <2>2. ASSUME NEW s \in Seq(Tokens), NEW t \in Seq(Tokens), NEW u \in Seq(Tokens),
               Len(s) = 4, Len(t) = 1, Len(u) = 5,
               u[1] = s[1], u[2] = s[2], u[3] = s[3], u[4] = s[4], u[5] = t[1]
        PROVE  s \o t = u
    <3>1. /\ Len(u) = Len(s) + Len(t)
          /\ \A i \in 1..Len(s) : u[i] = s[i]
          /\ \A i \in 1..Len(t) : u[Len(s) + i] = t[i]
      BY <2>2
    <3> QED
      BY <3>1, ConcatIs, Zenon
  <2> QED
    BY <2>1, <2>2
<1> QED
  BY <1>1, <1>2, <1>3, <1>4, <1>5

LEMMA Lines ==
  ASSUME NEW c \in Tokens
  PROVE  /\ EmptyLine = <<"CR", "LF", "CR", "LF">>
         /\ <<c>> \o CRLF = <<c, "CR", "LF">>
         /\ <<c>> \o EmptyLine = <<c, "CR", "LF", "CR", "LF">>
         /\ <<c>> \o EmptyLine = <<c, "CR", "LF", "CR">> \o <<"LF">>
         /\ EmptyLine = <<"CR">> \o (<<"LF">> \o CRLF)
<1> DEFINE cr == "CR"
           lf == "LF"
<1>1. cr \in Tokens /\ lf \in Tokens
  BY DEF Tokens
<1>2. CRLF = <<cr, lf>>
  BY DEF CRLF
<1> HIDE DEF cr, lf
<1>3. EmptyLine = <<cr, lf, cr, lf>>
  BY <1>1, <1>2, Tuples DEF EmptyLine
<1>4. <<c>> \o CRLF = <<c, cr, lf>>
  BY <1>1, <1>2, Tuples
<1>5. <<c>> \o EmptyLine = <<c, cr, lf, cr, lf>>
  BY <1>1, <1>3, Tuples
<1>6. <<c, cr, lf, cr>> \o <<lf>> = <<c, cr, lf, cr, lf>>
  BY <1>1, Tuples
<1>7. <<lf>> \o CRLF = <<lf, cr, lf>>
  BY <1>1, <1>2, Tuples
<1>8. <<cr>> \o <<lf, cr, lf>> = <<cr, lf, cr, lf>>
  BY <1>1, Tuples
<1> QED
  BY <1>3, <1>4, <1>5, <1>6, <1>7, <1>8, Zenon DEF cr, lf

(* The line of a word c, and what follows it.                              *)
BeginsWith(u, c, rest) ==
  /\ u \in Seq(Tokens) /\ Len(u) >= 3
  /\ u[1] = c /\ u[2] = "CR" /\ u[3] = "LF"
  /\ After(u, 3) = rest

LEMMA FirstLine ==
  ASSUME NEW c \in Tokens, NEW s \in Seq(Tokens), NEW t \in Seq(Tokens)
  PROVE  BeginsWith(<<c>> \o CRLF \o s \o t, c, s \o t)
<1> DEFINE u == <<c>> \o CRLF \o s \o t
<1>1. <<c, "CR", "LF">> \in Seq(Tokens) /\ s \o t \in Seq(Tokens)
  BY DEF Tokens
<1>2. ASSUME NEW v \in Seq(Tokens) PROVE (v \o s) \o t = v \o (s \o t)
  OBVIOUS
<1>3. u = <<c, "CR", "LF">> \o (s \o t)
  BY <1>1, <1>2, Lines, Zenon
<1>4. ASSUME NEW w \in Seq(Tokens), NEW x, x = <<c, "CR", "LF">> \o w
      PROVE  x \in Seq(Tokens) /\ Len(x) >= 3 /\ x[1] = c /\ x[2] = "CR" /\ x[3] = "LF"
  BY <1>1, <1>4
<1>5. After(<<c, "CR", "LF">> \o (s \o t), Len(<<c, "CR", "LF">>)) = s \o t
  BY <1>1, AfterOfConcat, Zenon
<1>6. Len(<<c, "CR", "LF">>) = 3
  OBVIOUS
<1> HIDE DEF u
<1>7. /\ u \in Seq(Tokens) /\ Len(u) >= 3 /\ u[1] = c /\ u[2] = "CR" /\ u[3] = "LF"
      /\ After(u, 3) = s \o t
  BY <1>1, <1>3, <1>4, <1>5, <1>6, Zenon
<1>8. BeginsWith(u, c, s \o t)
  BY <1>7 DEF BeginsWith
<1> QED
  BY <1>8 DEF u

LEMMA RequestShape ==
  /\ Request \in Seq(Tokens) /\ Len(Request) >= 3
  /\ Request[1] # "CR" /\ Request[2] = "CR" /\ Request[3] = "LF"
  /\ After(Request, 3) = <<"HOST">> \o EmptyLine
  /\ <<"HOST">> \o EmptyLine = <<"HOST", "CR", "LF", "CR", "LF">>
  /\ <<"HOST">> \o EmptyLine \in Seq(Tokens)
<1>1. "HOST" \in Tokens /\ "CR" \in Tokens /\ "LF" \in Tokens
  BY DEF Tokens
<1>2. EmptyLine = <<"CR", "LF", "CR", "LF">>
  BY <1>1, Lines, Zenon
<1>3. <<"HOST">> \in Seq(Tokens) /\ EmptyLine \in Seq(Tokens)
  BY <1>1, <1>2
<1>4. "GET" \in Tokens
  BY DEF Tokens
<1>5. BeginsWith(Request, "GET", <<"HOST">> \o EmptyLine)
  BY <1>3, <1>4, FirstLine, Zenon DEF Request
<1>6. /\ Request \in Seq(Tokens) /\ Len(Request) >= 3
      /\ Request[1] = "GET" /\ Request[2] = "CR" /\ Request[3] = "LF"
      /\ After(Request, 3) = <<"HOST">> \o EmptyLine
  BY <1>5 DEF BeginsWith
<1>7. <<"HOST">> \o EmptyLine = <<"HOST", "CR", "LF", "CR", "LF">>
  BY <1>1, Lines, Zenon
<1>8. <<"HOST", "CR", "LF", "CR", "LF">> \in Seq(Tokens)
  BY <1>1
<1> QED
  BY <1>6, <1>7, <1>8

LEMMA ResponseShape ==
  ASSUME resource \in Resources
  PROVE  /\ StatusCode \in {"200", "404", "500", "505"}
         /\ Content \in Seq(Tokens) /\ Headers \in Seq(Tokens)
         /\ Headers \o Content \in Seq(Tokens)
         /\ Response \in Seq(Tokens) /\ Len(Response) >= 3
         /\ Response[1] = StatusCode /\ Response[1] # "CR"
         /\ Response[2] = "CR" /\ Response[3] = "LF"
         /\ After(Response, 3) = Headers \o Content
<1>1. resource \in AllResources
  BY ResourcesAssumption
<1>2. StatusCode \in {"200", "404", "500", "505"}
  BY <1>1 DEF AllResources, StatusCode
<1>3. StatusCode \in Tokens /\ StatusCode # "CR"
  BY <1>2 DEF Tokens
<1>4. Content \in Seq(Tokens)
  BY BodySizeAssumption DEF Content, Tokens
<1>5. "LENGTH" \in Tokens /\ "CR" \in Tokens /\ "LF" \in Tokens
  BY DEF Tokens
<1>6. EmptyLine = <<"CR", "LF", "CR", "LF">>
  BY <1>5, Lines, Zenon
<1>7. <<"LENGTH">> \o EmptyLine = <<"LENGTH", "CR", "LF", "CR", "LF">>
  BY <1>5, Lines, Zenon
<1>8. /\ <<"CR", "LF", "CR", "LF">> \in Seq(Tokens)
      /\ <<"LENGTH", "CR", "LF", "CR", "LF">> \in Seq(Tokens)
  BY <1>5
<1>9. Headers \in Seq(Tokens)
  BY <1>6, <1>7, <1>8, Zenon DEF Headers
<1>10. Headers \o Content \in Seq(Tokens)
  BY <1>4, <1>9
<1>11. BeginsWith(Response, StatusCode, Headers \o Content)
  BY <1>3, <1>4, <1>9, FirstLine, Zenon DEF Response
<1> QED
  BY <1>2, <1>3, <1>4, <1>9, <1>10, <1>11 DEF BeginsWith

(* The headers of the response, up to the '\r' that ends the loop.         *)
LEMMA HeadersShape ==
  ASSUME resource \in Resources, NEW s, s = Headers \o Content
  PROVE  /\ s \in Seq(Tokens) /\ Body \in Seq(Tokens)
         /\ \/ /\ Headers = <<"LENGTH">> \o EmptyLine
               /\ s[1] = "LENGTH" /\ s[2] = "CR" /\ s[3] = "LF" /\ s[4] = "CR"
               /\ s[5] = "LF"
               /\ Len(s) >= 5 /\ After(s, 4) = Body
            \/ /\ Headers = EmptyLine
               /\ s[1] = "CR" /\ s[2] = "LF" /\ s[3] = "CR" /\ s[4] = "LF"
               /\ Len(s) >= 4 /\ After(s, 1) = Body
<1>1. "LENGTH" \in Tokens /\ "CR" \in Tokens /\ "LF" \in Tokens
  BY DEF Tokens
<1>2. Content \in Seq(Tokens)
  BY ResponseShape
<1>3. ASSUME NEW u \in Seq(Tokens), NEW v \in Seq(Tokens)
      PROVE  /\ (u \o v) \o Content = u \o (v \o Content)
             /\ u \o (v \o Content) \in Seq(Tokens) /\ v \o Content \in Seq(Tokens)
             /\ After(u \o (v \o Content), Len(u)) = v \o Content
  <2>1. (u \o v) \o Content = u \o (v \o Content) /\ v \o Content \in Seq(Tokens)
    BY <1>2
  <2> QED
    BY <2>1, ConcatElements, AfterOfConcat
<1>4. CASE resource \in {"file", "empty", "big"}
  <2>1. Headers = <<"LENGTH">> \o EmptyLine /\ Headers # EmptyLine
    <3>1. <<"LENGTH">> \o EmptyLine = <<"LENGTH", "CR", "LF", "CR", "LF">>
      BY <1>1, Lines, Zenon
    <3>2. EmptyLine = <<"CR", "LF", "CR", "LF">>
      BY <1>1, Lines, Zenon
    <3>3. <<"CR", "LF", "CR", "LF">> # <<"LENGTH", "CR", "LF", "CR", "LF">>
      OBVIOUS
    <3> QED
      BY <1>4, <3>1, <3>2, <3>3 DEF Headers
  <2>2. Headers = <<"LENGTH", "CR", "LF", "CR">> \o <<"LF">>
    BY <1>1, <2>1, Lines, Zenon
  <2>3. /\ <<"LENGTH", "CR", "LF", "CR">> \in Seq(Tokens) /\ <<"LF">> \in Seq(Tokens)
        /\ Len(<<"LENGTH", "CR", "LF", "CR">>) = 4
    BY <1>1
  <2>4. Body = <<"LF">> \o Content
    BY <2>1 DEF Body
  <2>5. /\ s = <<"LENGTH", "CR", "LF", "CR">> \o Body
        /\ s \in Seq(Tokens) /\ Body \in Seq(Tokens) /\ After(s, 4) = Body
    <3>1. LET u == <<"LENGTH", "CR", "LF", "CR">>
              v == <<"LF">>
          IN  /\ (u \o v) \o Content = u \o (v \o Content)
              /\ u \o (v \o Content) \in Seq(Tokens) /\ v \o Content \in Seq(Tokens)
              /\ After(u \o (v \o Content), Len(u)) = v \o Content
      BY <1>3, <2>3, Zenon
    <3> QED
      BY <2>2, <2>3, <2>4, <3>1, Zenon
  <2>6. Len(Body) >= 1 /\ Body[1] = "LF"
    BY <1>2, <2>3, <2>4
  <2>7. ASSUME NEW b \in Seq(Tokens), Len(b) >= 1, NEW t, t = <<"LENGTH", "CR", "LF", "CR">> \o b
        PROVE  /\ t[1] = "LENGTH" /\ t[2] = "CR" /\ t[3] = "LF" /\ t[4] = "CR" /\ t[5] = b[1]
               /\ Len(t) >= 5
    BY <2>3, <2>7
  <2>8. /\ s[1] = "LENGTH" /\ s[2] = "CR" /\ s[3] = "LF" /\ s[4] = "CR" /\ s[5] = Body[1]
        /\ Len(s) >= 5
    BY <2>5, <2>6, <2>7
  <2> QED
    BY <2>1, <2>5, <2>6, <2>8, Zenon
<1>5. CASE resource \notin {"file", "empty", "big"}
  <2>1. Headers = EmptyLine
    BY <1>5 DEF Headers
  <2>2. Headers = <<"CR">> \o (<<"LF">> \o CRLF)
    BY <1>1, <2>1, Lines, Zenon
  <2>3. <<"LF">> \o CRLF = <<"LF", "CR", "LF">>
    BY <1>1, Lines, Zenon
  <2>4. /\ <<"CR">> \in Seq(Tokens) /\ <<"LF", "CR", "LF">> \in Seq(Tokens) /\ Len(<<"CR">>) = 1
        /\ Len(<<"LF", "CR", "LF">>) = 3
    BY <1>1
  <2>5. Body = <<"LF", "CR", "LF">> \o Content
    BY <2>1, <2>3 DEF Body
  <2>6. /\ s = <<"CR">> \o Body
        /\ s \in Seq(Tokens) /\ Body \in Seq(Tokens) /\ After(s, 1) = Body
    <3>1. LET u == <<"CR">>
              v == <<"LF", "CR", "LF">>
          IN  /\ (u \o v) \o Content = u \o (v \o Content)
              /\ u \o (v \o Content) \in Seq(Tokens) /\ v \o Content \in Seq(Tokens)
              /\ After(u \o (v \o Content), Len(u)) = v \o Content
      BY <1>3, <2>4, Zenon
    <3> QED
      BY <2>2, <2>3, <2>4, <2>5, <3>1, Zenon
  <2>7. Len(Body) >= 3 /\ Body[1] = "LF" /\ Body[2] = "CR" /\ Body[3] = "LF"
    BY <1>2, <2>4, <2>5
  <2>8. ASSUME NEW b \in Seq(Tokens), Len(b) >= 3, NEW t, t = <<"CR">> \o b
        PROVE  t[1] = "CR" /\ t[2] = b[1] /\ t[3] = b[2] /\ t[4] = b[3] /\ Len(t) >= 4
    BY <2>4, <2>8
  <2> QED
    BY <2>1, <2>6, <2>7, <2>8
<1> QED
  BY <1>4, <1>5

-------------------------------------------------------------------------------
(* What the handlers take from their buffers.                              *)

LEMMA DropLineIs ==
  ASSUME NEW s \in Seq(Tokens), Len(s) >= 3, s[1] # "CR", s[2] = "CR"
  PROVE  DropLine(s) = After(s, 3)
<1> DEFINE M == {i \in DOMAIN s : s[i] = "CR"}
<1>1. M \in SUBSET Nat /\ 2 \in M /\ \A k \in M : 2 <= k
  OBVIOUS
<1>2. Min(M) = 2
  BY <1>1, MinIs
<1> QED
  BY <1>2 DEF DropLine

LEMMA DropHeadersIs ==
  ASSUME NEW s \in Seq(Tokens), Len(s) >= 4
  PROVE  /\ s[1] = "CR" => DropHeaders(s) = After(s, 1)
         /\ s[1] = "LENGTH" /\ s[2] = "CR" /\ s[3] = "LF" /\ s[4] = "CR" =>
              DropHeaders(s) = After(s, 4)
<1> DEFINE M == {i \in DOMAIN s : s[i] = "CR" /\ (i = 1 \/ s[i - 1] = "LF")}
<1>1. DropHeaders(s) = After(s, Min(M))
  BY DEF DropHeaders
<1>2. M \in SUBSET Nat /\ M = {i \in 1..Len(s) : s[i] = "CR" /\ (i = 1 \/ s[i - 1] = "LF")}
  OBVIOUS
<1> HIDE DEF M
<1>3. CASE s[1] = "CR"
  <2>1. 1 \in M /\ \A k \in M : 1 <= k
    BY <1>2, <1>3
  <2>2. Min(M) = 1
    BY <1>2, <2>1, MinIs
  <2> QED
    BY <1>1, <1>3, <2>2
<1>4. CASE s[1] = "LENGTH" /\ s[2] = "CR" /\ s[3] = "LF" /\ s[4] = "CR"
  <2>1. 4 \in M /\ 1 \notin M /\ 2 \notin M /\ 3 \notin M
    BY <1>2, <1>4
  <2>2. \A k \in M : 4 <= k
    BY <1>2, <2>1
  <2>3. Min(M) = 4
    BY <1>2, <2>1, <2>2, MinIs
  <2> QED
    BY <1>1, <1>4, <2>3
<1> QED
  BY <1>3, <1>4

(* Taking n tokens from the beginning of a stream that s is the received   *)
(* part of. *)
LEMMA Take ==
  ASSUME NEW s \in Seq(Tokens), NEW t \in Seq(Tokens), NEW u \in Seq(Tokens), NEW n \in Nat,
         n <= Len(s)
  PROVE  /\ After(s, n) \in Seq(Tokens)
         /\ s \o t = u => After(s, n) \o t = After(u, n)
         /\ \A v \in Seq(Tokens) : s \o t \o v = u => After(s, n) \o t \o v = After(u, n)
         /\ IsPrefix(s \o t, u) => IsPrefix(After(s, n) \o t, After(u, n))
<1>1. n \in 0..Len(s)
  OBVIOUS
<1>2. After(s, n) \in Seq(Tokens) /\ After(s, n) \o t = After(s \o t, n)
  BY <1>1, AfterElements, AfterConcat
<1>3. s \o t \in Seq(Tokens) /\ n \in 0..Len(s \o t)
  BY <1>1
<1>4. IsPrefix(s \o t, u) => IsPrefix(After(s \o t, n), After(u, n))
  BY <1>3, PrefixAfter
<1>5. ASSUME NEW v \in Seq(Tokens) PROVE After(s \o t, n) \o v = After(s \o t \o v, n)
  BY <1>3, AfterConcat, Zenon
<1> QED
  BY <1>2, <1>4, <1>5, Zenon

LEMMA PrefixBeginning ==
  ASSUME NEW s \in Seq(Tokens), NEW t \in Seq(Tokens), NEW u \in Seq(Tokens),
         IsPrefix(s \o t, u)
  PROVE  Len(s) <= Len(u) /\ \A i \in 1..Len(s) : s[i] = u[i]
<1>1. s \o t \in Seq(Tokens) /\ Len(s) <= Len(s \o t) /\ \A i \in 1..Len(s) : (s \o t)[i] = s[i]
  OBVIOUS
<1>2. Len(s \o t) <= Len(u) /\ \A i \in 1..Len(s \o t) : (s \o t)[i] = u[i]
  BY <1>1, PrefixElements
<1>3. \A i \in 1..Len(s) : i \in 1..Len(s \o t)
  BY <1>1
<1> QED
  BY <1>1, <1>2, <1>3

LEMMA OccursCRLF ==
  ASSUME NEW s \in Seq(Tokens)
  PROVE  Occurs(CRLF, s) <=> \E i \in 1..Len(s) : i + 1 <= Len(s) /\ s[i] = "CR" /\ s[i + 1] = "LF"
<1>1. CRLF \in Seq(Tokens) /\ Len(CRLF) = 2 /\ CRLF[1] = "CR" /\ CRLF[2] = "LF"
  BY DEF CRLF, Tokens
<1>2. Occurs(CRLF, s) <=> \E i \in 1..Len(s) : /\ i + Len(CRLF) - 1 <= Len(s)
                                             /\ \A j \in 1..Len(CRLF) : s[i + j - 1] = CRLF[j]
  BY <1>1, OccursAt
<1>3. ASSUME NEW i \in 1..Len(s)
      PROVE  (\A j \in 1..2 : s[i + j - 1] = CRLF[j]) <=> s[i] = "CR" /\ s[i + 1] = "LF"
  BY <1>1
<1> QED
  BY <1>1, <1>2, <1>3

LEMMA OccursEmptyLine ==
  ASSUME NEW s \in Seq(Tokens)
  PROVE  Occurs(EmptyLine, s) <=>
           \E i \in 1..Len(s) : /\ i + 3 <= Len(s) /\ s[i] = "CR" /\ s[i + 1] = "LF"
                                /\ s[i + 2] = "CR" /\ s[i + 3] = "LF"
<1>1. "CR" \in Tokens /\ "LF" \in Tokens
  BY DEF Tokens
<1>2. EmptyLine = <<"CR", "LF", "CR", "LF">>
  BY <1>1, Lines, Zenon
<1>3. /\ EmptyLine \in Seq(Tokens) /\ Len(EmptyLine) = 4 /\ EmptyLine[1] = "CR"
      /\ EmptyLine[2] = "LF" /\ EmptyLine[3] = "CR" /\ EmptyLine[4] = "LF"
  BY <1>1, <1>2
<1>4. Occurs(EmptyLine, s) <=>
        \E i \in 1..Len(s) : /\ i + Len(EmptyLine) - 1 <= Len(s)
                             /\ \A j \in 1..Len(EmptyLine) : s[i + j - 1] = EmptyLine[j]
  BY <1>3, OccursAt
<1>5. ASSUME NEW i \in 1..Len(s)
      PROVE  (\A j \in 1..4 : s[i + j - 1] = EmptyLine[j]) <=>
               s[i] = "CR" /\ s[i + 1] = "LF" /\ s[i + 2] = "CR" /\ s[i + 3] = "LF"
  BY <1>3
<1> QED
  BY <1>3, <1>4, <1>5

(* A first line is taken off its message.                                  *)
LEMMA TakeLine ==
  ASSUME NEW s \in Seq(Tokens), NEW t \in Seq(Tokens), NEW u \in Seq(Tokens),
         Len(u) >= 3, u[1] # "CR", u[2] = "CR",
         IsPrefix(s \o t, u), Occurs(CRLF, s)
  PROVE  /\ Head(s) = u[1]
         /\ DropLine(s) \in Seq(Tokens)
         /\ IsPrefix(DropLine(s) \o t, After(u, 3))
         /\ s \o t = u => DropLine(s) \o t = After(u, 3)
         /\ \A v \in Seq(Tokens) : s \o t \o v = u => DropLine(s) \o t \o v = After(u, 3)
<1>1. Len(s) <= Len(u) /\ \A i \in 1..Len(s) : s[i] = u[i]
  BY PrefixBeginning
<1>2. \E i \in 1..Len(s) : i + 1 <= Len(s) /\ s[i] = "CR" /\ s[i + 1] = "LF"
  BY OccursCRLF
<1>3. Len(s) >= 3
  BY <1>1, <1>2
<1>4. s[1] # "CR" /\ s[2] = "CR" /\ Head(s) = u[1]
  BY <1>1, <1>3
<1>5. DropLine(s) = After(s, 3)
  BY <1>3, <1>4, DropLineIs
<1>6. 3 \in Nat /\ 3 <= Len(s)
  BY <1>3
<1>7. /\ After(s, 3) \in Seq(Tokens)
      /\ s \o t = u => After(s, 3) \o t = After(u, 3)
      /\ \A v \in Seq(Tokens) : s \o t \o v = u => After(s, 3) \o t \o v = After(u, 3)
      /\ IsPrefix(s \o t, u) => IsPrefix(After(s, 3) \o t, After(u, 3))
  BY <1>6, Take, Zenon
<1> QED
  BY <1>4, <1>5, <1>7, Zenon

LEMMA TakeRequestLine ==
  ASSUME NEW s \in Seq(Tokens), NEW t \in Seq(Tokens),
         IsPrefix(s \o t, Request), Occurs(CRLF, s)
  PROVE  /\ DropLine(s) \in Seq(Tokens)
         /\ \A v \in Seq(Tokens) :
              s \o t \o v = Request => DropLine(s) \o t \o v = <<"HOST">> \o EmptyLine
<1>1. /\ Request \in Seq(Tokens) /\ Len(Request) >= 3
      /\ Request[1] # "CR" /\ Request[2] = "CR"
      /\ After(Request, 3) = <<"HOST">> \o EmptyLine
  BY RequestShape, Zenon
<1>2. /\ Head(s) = Request[1]
      /\ DropLine(s) \in Seq(Tokens)
      /\ IsPrefix(DropLine(s) \o t, After(Request, 3))
      /\ s \o t = Request => DropLine(s) \o t = After(Request, 3)
      /\ \A v \in Seq(Tokens) : s \o t \o v = Request => DropLine(s) \o t \o v = After(Request, 3)
  BY <1>1, TakeLine, Zenon
<1> QED
  BY <1>1, <1>2, Zenon

(* And the headers off what follows.                                       *)
LEMMA TakeHeaders ==
  ASSUME resource \in Resources, NEW s \in Seq(Tokens), NEW t \in Seq(Tokens),
         IsPrefix(s \o t, Headers \o Content), Occurs(EmptyLine, s)
  PROVE  /\ (IF Head(s) = "LENGTH" THEN {"LENGTH"} ELSE {}) = {"LENGTH"} \cap Range(Headers)
         /\ DropHeaders(s) \in Seq(Tokens)
         /\ IsPrefix(DropHeaders(s) \o t, Body)
         /\ s \o t = Headers \o Content => DropHeaders(s) \o t = Body
         /\ \A v \in Seq(Tokens) :
              s \o t \o v = Headers \o Content => DropHeaders(s) \o t \o v = Body
<1> DEFINE u == Headers \o Content
<1>1. /\ u \in Seq(Tokens)
      /\ \/ /\ Headers = <<"LENGTH">> \o EmptyLine
            /\ u[1] = "LENGTH" /\ u[2] = "CR" /\ u[3] = "LF" /\ u[4] = "CR"
            /\ After(u, 4) = Body
         \/ /\ Headers = EmptyLine
            /\ u[1] = "CR" /\ After(u, 1) = Body
  BY HeadersShape, Zenon
<1>2. IsPrefix(s \o t, u)
  OBVIOUS
<1>3. \E i \in 1..Len(s) : i + 3 <= Len(s)
  BY OccursEmptyLine
<1>4. "LENGTH" \in Tokens
  BY DEF Tokens
<1>5. EmptyLine = <<"CR", "LF", "CR", "LF">>
  BY <1>4, Lines, Zenon
<1>6. <<"LENGTH">> \o EmptyLine = <<"LENGTH", "CR", "LF", "CR", "LF">>
  BY <1>4, Lines, Zenon
<1>7. /\ "LENGTH" \in Range(<<"LENGTH", "CR", "LF", "CR", "LF">>)
      /\ "LENGTH" \notin Range(<<"CR", "LF", "CR", "LF">>)
  BY DEF Range
<1> HIDE DEF u
<1>8. Len(s) <= Len(u) /\ \A i \in 1..Len(s) : s[i] = u[i]
  BY <1>1, <1>2, PrefixBeginning
<1>9. Len(s) >= 4 /\ Head(s) = s[1]
  BY <1>3
<1>10. s[1] = u[1] /\ s[2] = u[2] /\ s[3] = u[3] /\ s[4] = u[4]
  BY <1>8, <1>9
<1>11. ASSUME NEW n \in Nat, n <= Len(s)
       PROVE  /\ After(s, n) \in Seq(Tokens)
              /\ s \o t = u => After(s, n) \o t = After(u, n)
              /\ \A v \in Seq(Tokens) : s \o t \o v = u => After(s, n) \o t \o v = After(u, n)
              /\ IsPrefix(s \o t, u) => IsPrefix(After(s, n) \o t, After(u, n))
  BY <1>1, <1>11, Take, Zenon
<1>12. CASE Headers = <<"LENGTH">> \o EmptyLine /\ After(u, 4) = Body
            /\ u[1] = "LENGTH" /\ u[2] = "CR" /\ u[3] = "LF" /\ u[4] = "CR"
  <2>1. DropHeaders(s) = After(s, 4)
    BY <1>9, <1>10, <1>12, DropHeadersIs
  <2>2. /\ DropHeaders(s) \in Seq(Tokens)
        /\ IsPrefix(DropHeaders(s) \o t, Body)
        /\ s \o t = u => DropHeaders(s) \o t = Body
        /\ \A v \in Seq(Tokens) : s \o t \o v = u => DropHeaders(s) \o t \o v = Body
    <3>1. 4 \in Nat /\ 4 <= Len(s)
      BY <1>9
    <3> QED
      BY <1>2, <1>11, <1>12, <2>1, <3>1, Zenon
  <2>3. (IF Head(s) = "LENGTH" THEN {"LENGTH"} ELSE {}) = {"LENGTH"} \cap Range(Headers)
    BY <1>6, <1>7, <1>9, <1>10, <1>12
  <2> QED
    BY <2>2, <2>3 DEF u
<1>13. CASE Headers = EmptyLine /\ After(u, 1) = Body /\ u[1] = "CR"
  <2>1. DropHeaders(s) = After(s, 1)
    BY <1>9, <1>10, <1>13, DropHeadersIs
  <2>2. /\ DropHeaders(s) \in Seq(Tokens)
        /\ IsPrefix(DropHeaders(s) \o t, Body)
        /\ s \o t = u => DropHeaders(s) \o t = Body
        /\ \A v \in Seq(Tokens) : s \o t \o v = u => DropHeaders(s) \o t \o v = Body
    <3>1. 1 \in Nat /\ 1 <= Len(s)
      BY <1>9
    <3> QED
      BY <1>2, <1>11, <1>13, <2>1, <3>1, Zenon
  <2>3. (IF Head(s) = "LENGTH" THEN {"LENGTH"} ELSE {}) = {"LENGTH"} \cap Range(Headers)
    BY <1>5, <1>7, <1>9, <1>10, <1>13
  <2> QED
    BY <2>2, <2>3 DEF u
<1> QED
  BY <1>1, <1>12, <1>13

(* A message that was received as a whole has its delimiters.              *)
LEMMA Delimited ==
  /\ Occurs(CRLF, Request)
  /\ Occurs(EmptyLine, <<"HOST">> \o EmptyLine)
  /\ resource \in Resources => Occurs(CRLF, Response) /\ Occurs(EmptyLine, Headers \o Content)
<1>1. ASSUME NEW s \in Seq(Tokens), Len(s) >= 3, s[2] = "CR", s[3] = "LF"
      PROVE  Occurs(CRLF, s)
  <2>1. 2 \in 1..Len(s) /\ 2 + 1 <= Len(s) /\ s[2] = "CR" /\ s[2 + 1] = "LF"
    BY <1>1
  <2> QED
    BY <2>1, OccursCRLF
<1>2. ASSUME NEW s \in Seq(Tokens), NEW i \in {1, 2}, Len(s) >= i + 3,
             s[i] = "CR", s[i + 1] = "LF", s[i + 2] = "CR", s[i + 3] = "LF"
      PROVE  Occurs(EmptyLine, s)
  <2>1. i \in 1..Len(s) /\ i + 3 <= Len(s)
    BY <1>2
  <2> QED
    BY <1>2, <2>1, OccursEmptyLine
<1>3. Occurs(CRLF, Request)
  BY <1>1, RequestShape
<1>4. LET s == <<"HOST", "CR", "LF", "CR", "LF">> IN
        /\ Len(s) >= 2 + 3 /\ s[2] = "CR" /\ s[2 + 1] = "LF" /\ s[2 + 2] = "CR" /\ s[2 + 3] = "LF"
  OBVIOUS
<1>5. Occurs(EmptyLine, <<"HOST">> \o EmptyLine)
  BY <1>2, <1>4, RequestShape, Zenon
<1>6. ASSUME resource \in Resources PROVE Occurs(CRLF, Response)
  BY <1>1, <1>6, ResponseShape
<1>7. ASSUME resource \in Resources PROVE Occurs(EmptyLine, Headers \o Content)
  <2>1. ASSUME NEW s, s = Headers \o Content PROVE Occurs(EmptyLine, s)
    <3>1. /\ s \in Seq(Tokens)
          /\ \/ /\ s[2] = "CR" /\ s[3] = "LF" /\ s[4] = "CR" /\ s[5] = "LF" /\ Len(s) >= 5
             \/ /\ s[1] = "CR" /\ s[2] = "LF" /\ s[3] = "CR" /\ s[4] = "LF" /\ Len(s) >= 4
      BY <1>7, <2>1, HeadersShape, Zenon
    <3> QED
      BY <1>2, <3>1
  <2> QED
    BY <2>1
<1> QED
  BY <1>3, <1>5, <1>6, <1>7

(* The server has read the empty line only when it has read the request.   *)
LEMMA RequestRead ==
  ASSUME NEW s \in Seq(Tokens), NEW t \in Seq(Tokens),
         s \o t = <<"HOST">> \o EmptyLine, Occurs(EmptyLine, s)
  PROVE  t = <<>>
<1> DEFINE u == <<"HOST", "CR", "LF", "CR", "LF">>
<1>1. s \o t = u
  BY RequestShape
<1>2. PICK i \in 1..Len(s) : i + 3 <= Len(s) /\ s[i] = "CR"
  BY OccursEmptyLine
<1>3. Len(u) = 5 /\ u[1] # "CR"
  OBVIOUS
<1> HIDE DEF u
<1>4. Len(s) + Len(t) = 5 /\ \A j \in 1..Len(s) : u[j] = s[j]
  BY <1>1, <1>3, ConcatElements
<1>5. i # 1
  BY <1>2, <1>3, <1>4
<1>6. Len(t) = 0
  BY <1>2, <1>4, <1>5
<1> QED
  BY <1>6

-------------------------------------------------------------------------------
(* The invariant holds initially, and every action preserves it: one lemma *)
(* for each action, with one step for each part.                           *)

(* The messages are those of the resource.                                 *)
LEMMA Same ==
  ASSUME UNCHANGED resource
  PROVE  /\ UNCHANGED <<Content, StatusCode, Headers, Response, Body>>
         /\ UNCHANGED client => UNCHANGED Expecting
<1>1. UNCHANGED <<Content, StatusCode, Headers>>
  BY DEF Content, StatusCode, Headers
<1>2. UNCHANGED <<Response, Body>>
  BY <1>1 DEF Response, Body
<1> QED
  BY <1>1, <1>2 DEF Expecting

LEMMA ExpectingIs ==
  ASSUME TypeOK
  PROVE  /\ Expecting \in Seq(Tokens) \/ client \in {"done", "closed"}
         /\ client \in {"write", "status"} => Expecting = Response
         /\ client = "headers" => Expecting = Headers \o Content
         /\ client = "body" => Expecting = Body
<1>1. /\ client \in {"write", "status"} => Expecting = Response
      /\ client = "headers" => Expecting = Headers \o Content
      /\ client = "body" => Expecting = Body
  BY DEF Expecting
<1>2. Response \in Seq(Tokens) /\ Headers \o Content \in Seq(Tokens) /\ Body \in Seq(Tokens)
  BY ResponseShape, HeadersShape DEF TypeOK
<1>3. client \in {"write", "status", "headers", "body", "done", "closed"}
  BY DEF TypeOK
<1> QED
  BY <1>1, <1>2, <1>3

(* A reset loses the end of what the client is to receive.                 *)
LEMMA ResetIs ==
  ASSUME TypeOK, Reset
  PROVE  /\ reset' /\ upstream' = <<>> /\ ended' = ended
         /\ downstream' \in Seq(Tokens)
         /\ downstream = <<>> => downstream' = <<>>
         /\ \A s \in Seq(Tokens) :
              IsPrefix(m_response.buf \o downstream, s) =>
                IsPrefix(m_response.buf \o downstream', s)
<1>1. reset' /\ upstream' = <<>> /\ ended' = ended
  BY DEF Reset
<1>2. PICK n \in 0..Len(downstream) : downstream' = SubSeq(downstream, 1, n)
  BY DEF Reset
<1>3. downstream \in Seq(Tokens) /\ m_response.buf \in Seq(Tokens)
  BY DEF TypeOK
<1>4. downstream' \in Seq(Tokens) /\ Len(downstream') = n
  BY <1>2, <1>3
<1>5. downstream = <<>> => downstream' = <<>>
  BY <1>2, <1>3, <1>4
<1>6. IsPrefix(m_response.buf \o downstream', m_response.buf \o downstream)
  BY <1>2, <1>3, PrefixTruncated, Zenon
<1>7. m_response.buf \o downstream \in Seq(Tokens) /\ m_response.buf \o downstream' \in Seq(Tokens)
  BY <1>3, <1>4
<1> QED
  BY <1>1, <1>4, <1>5, <1>6, <1>7, PrefixTransitive, Zenon

CloseSocketFacts(side, unread) ==
  /\ upstream' \in Seq(Tokens) /\ downstream' \in Seq(Tokens)
  /\ ended' \subseteq {"client", "server"} /\ ended' \subseteq ended \cup {side}
  /\ reset' \in BOOLEAN
  /\ IF unread = <<>> THEN UNCHANGED <<upstream, downstream, reset>>
                      ELSE reset' /\ upstream' = <<>>
  /\ downstream = <<>> => downstream' = <<>>
  /\ \A s \in Seq(Tokens) :
       IsPrefix(m_response.buf \o downstream, s) =>
         IsPrefix(m_response.buf \o downstream', s)

LEMMA CloseSocketIs ==
  ASSUME TypeOK, NEW side \in {"client", "server"}, NEW unread, CloseSocket(side, unread)
  PROVE  CloseSocketFacts(side, unread)
<1> USE DEF CloseSocketFacts
<1>1. CASE unread = <<>>
  BY <1>1 DEF CloseSocket, TypeOK
<1>2. CASE unread # <<>>
  <2>1. Reset
    BY <1>2 DEF CloseSocket
  <2>2. /\ reset' /\ upstream' = <<>> /\ ended' = ended
        /\ downstream' \in Seq(Tokens)
        /\ downstream = <<>> => downstream' = <<>>
        /\ \A s \in Seq(Tokens) :
             IsPrefix(m_response.buf \o downstream, s) =>
               IsPrefix(m_response.buf \o downstream', s)
    BY <2>1, ResetIs, Zenon
  <2>3. ended \subseteq {"client", "server"} /\ reset' \in BOOLEAN /\ <<>> \in Seq(Tokens)
    BY <2>1 DEF TypeOK, Reset
  <2> QED
    BY <1>2, <2>2, <2>3
<1> QED
  BY <1>1, <1>2

(* Steps that neither the messages nor the sides that handle the response  *)
(* take part in.                                                           *)
LEMMA ResponseKept ==
  ASSUME ResponseOK,
         UNCHANGED <<resource, client, m_response, server, response, downstream, reset, stopped>>
  PROVE  ResponseOK'
BY Same DEF ResponseOK

(* Before the response is sent the client has nothing of it.               *)
ResponseStarts ==
  client \in {"write", "status", "headers", "body"} =>
    m_response.buf \o downstream \o Response = Expecting

LEMMA ResponseNotStarted ==
  ASSUME TypeOK, StagesOK, ResponseOK, server \in {"line", "headers"}
  PROVE  ResponseStarts
<1>1. Response \in Seq(Tokens) /\ <<>> \in Seq(Tokens)
  BY ResponseShape DEF TypeOK
<1>2. <<>> \o <<>> = <<>> /\ <<>> \o Response = Response
  BY <1>1, ConcatEmptySeq, Zenon
<1> QED
  BY <1>2, ExpectingIs DEF ResponseStarts, StagesOK, ResponseOK

LEMMA DeliveredKept ==
  ASSUME ResponseIsDelivered, UNCHANGED <<resource, m_response, told>>, stopped => stopped'
  PROVE  ResponseIsDelivered'
BY Same DEF ResponseIsDelivered

LEMMA InitIInv == Init => IInv
<1> SUFFICES ASSUME Init PROVE IInv
  OBVIOUS
<1>1. Request \in Seq(Tokens) /\ <<>> \in Seq(Tokens)
  BY RequestShape
<1>2. TypeOK
  BY <1>1 DEF Init, TypeOK
<1>3. Response \in Seq(Tokens) /\ Expecting = Response
  BY ResponseShape DEF Init, Expecting
<1>4. <<>> \o <<>> = <<>> /\ <<>> \o Request = Request /\ <<>> \o Response = Response
  BY <1>1, <1>3, ConcatEmptySeq, Zenon
<1>5. IsPrefix(<<>>, Response)
  BY <1>1, <1>3, <1>4, PrefixOfConcat, Zenon
<1>6. StagesOK /\ CauseOK /\ ResponseIsDelivered /\ ErrorsHaveACause
  BY DEF Init, StagesOK, CauseOK, Undisturbed, ResponseIsDelivered, ErrorsHaveACause
<1>7. RequestOK
  BY <1>4 DEF Init, RequestOK
<1>8. ResponseOK
  BY <1>3, <1>4, <1>5 DEF Init, ResponseOK
<1> QED
  BY <1>2, <1>6, <1>7, <1>8 DEF IInv

LEMMA WriteRequestIInv ==
  ASSUME IInv, WriteRequest
  PROVE  IInv'
<1> USE DEF IInv
<1>1. /\ upstream' \in Seq(Tokens) /\ out' \in Seq(Tokens)
      /\ \A s \in Seq(Tokens) : s \o upstream' \o out' = s \o upstream \o out
  <2>1. PICK n \in 1..Len(out) : upstream' = upstream \o SubSeq(out, 1, n) /\ out' = After(out, n)
    BY DEF WriteRequest
  <2>2. upstream \in Seq(Tokens) /\ out \in Seq(Tokens) /\ n \in 0..Len(out)
    BY DEF TypeOK
  <2>3. /\ upstream \o SubSeq(out, 1, n) \in Seq(Tokens) /\ After(out, n) \in Seq(Tokens)
        /\ \A s \in Seq(Tokens) :
             (s \o (upstream \o SubSeq(out, 1, n))) \o After(out, n) = (s \o upstream) \o out
    BY <2>2, MovePiece, Zenon
  <2> QED
    BY <2>1, <2>3, Zenon
<1>2. out # <<>>
  BY DEF WriteRequest
<1>3. TypeOK'
  BY <1>1 DEF WriteRequest, serverVars, TypeOK
<1>4. StagesOK'
  BY DEF WriteRequest, serverVars, StagesOK
<1>5. RequestOK'
  BY <1>1, <1>2 DEF WriteRequest, serverVars, RequestOK, TypeOK
<1>6. ResponseOK'
  BY ResponseKept DEF WriteRequest, serverVars
<1>7. CauseOK'
  BY <1>2 DEF WriteRequest, serverVars, CauseOK, Undisturbed
<1>8. ResponseIsDelivered'
  BY DeliveredKept DEF WriteRequest
<1>9. ErrorsHaveACause'
  BY DEF WriteRequest, ErrorsHaveACause
<1> QED
  BY <1>3, <1>4, <1>5, <1>6, <1>7, <1>8, <1>9

LEMMA WriteRequestFailsIInv ==
  ASSUME IInv, WriteRequestFails
  PROVE  IInv'
<1> USE DEF IInv
<1>1. TypeOK'
  BY DEF WriteRequestFails, Finish, serverVars, connection, TypeOK
<1>2. StagesOK'
  BY DEF WriteRequestFails, Finish, serverVars, connection, StagesOK
<1>3. RequestOK'
  BY DEF WriteRequestFails, serverVars, connection, RequestOK
<1>4. ResponseOK'
  BY DEF WriteRequestFails, Finish, ResponseOK
<1>5. CauseOK'
  BY DEF WriteRequestFails, Finish, CauseOK, Undisturbed
<1>6. ResponseIsDelivered'
  BY DEF WriteRequestFails, Finish, ResponseIsDelivered
<1>7. ErrorsHaveACause'
  BY DEF WriteRequestFails, Finish, ErrorsHaveACause, CauseOK, Undisturbed, StagesOK
<1> QED
  BY <1>1, <1>2, <1>3, <1>4, <1>5, <1>6, <1>7

LEMMA OnRequestSentIInv ==
  ASSUME IInv, OnRequestSent
  PROVE  IInv'
<1> USE DEF IInv
<1>1. Expecting' = Expecting
  BY Same DEF OnRequestSent, Expecting
<1>2. TypeOK'
  BY DEF OnRequestSent, serverVars, TypeOK
<1>3. StagesOK'
  BY DEF OnRequestSent, serverVars, StagesOK
<1>4. RequestOK'
  BY DEF OnRequestSent, serverVars, RequestOK
<1>5. ResponseOK'
  BY Same, ExpectingIs, <1>1 DEF OnRequestSent, serverVars, ResponseOK
<1>6. CauseOK'
  BY DEF OnRequestSent, serverVars, CauseOK, Undisturbed
<1>7. ResponseIsDelivered'
  BY DeliveredKept DEF OnRequestSent
<1>8. ErrorsHaveACause'
  BY DEF OnRequestSent, ErrorsHaveACause, CauseOK, Undisturbed, StagesOK
<1> QED
  BY <1>2, <1>3, <1>4, <1>5, <1>6, <1>7, <1>8

LEMMA ClientReceivesIInv ==
  ASSUME IInv, ClientReceives
  PROVE  IInv'
<1> USE DEF IInv
<1>1. /\ m_response'.buf \in Seq(Tokens) /\ downstream' \in Seq(Tokens)
      /\ m_response'.buf \o downstream' = m_response.buf \o downstream
      /\ m_response' = [m_response EXCEPT !.buf = m_response'.buf]
  <2>1. PICK n \in 1..Len(downstream) :
          /\ m_response' = [m_response EXCEPT !.buf = @ \o SubSeq(downstream, 1, n)]
          /\ downstream' = After(downstream, n)
    BY DEF ClientReceives
  <2>2. m_response.buf \in Seq(Tokens) /\ downstream \in Seq(Tokens) /\ n \in 0..Len(downstream)
    BY DEF TypeOK
  <2>3. /\ m_response'.buf = m_response.buf \o SubSeq(downstream, 1, n)
        /\ m_response' = [m_response EXCEPT !.buf = m_response'.buf]
    BY <2>1 DEF TypeOK
  <2>4. /\ m_response.buf \o SubSeq(downstream, 1, n) \in Seq(Tokens)
        /\ After(downstream, n) \in Seq(Tokens)
        /\ (m_response.buf \o SubSeq(downstream, 1, n)) \o After(downstream, n)
             = m_response.buf \o downstream
    BY <2>2, MovePiece, Zenon
  <2> QED
    BY <2>1, <2>3, <2>4, Zenon
<1>2. downstream # <<>>
  BY DEF ClientReceives
<1>3. TypeOK'
  BY <1>1 DEF ClientReceives, serverVars, TypeOK
<1>4. StagesOK'
  BY <1>2 DEF ClientReceives, ClientReads, serverVars, StagesOK
<1>5. RequestOK'
  BY DEF ClientReceives, serverVars, RequestOK
<1>6. ResponseOK'
  <2>1. UNCHANGED <<client, server, response, reset, stopped, Expecting, StatusCode, Headers>>
    BY Same DEF ClientReceives, serverVars
  <2>2. m_response'.code = m_response.code /\ m_response'.headers = m_response.headers
    BY <1>1 DEF TypeOK
  <2>3. server \notin {"line", "headers"}
    BY <1>2 DEF StagesOK
  <2> QED
    BY <1>1, <2>1, <2>2, <2>3 DEF ResponseOK
<1>7. CauseOK'
  BY DEF ClientReceives, serverVars, CauseOK, Undisturbed
<1>8. ResponseIsDelivered'
  BY DEF ClientReceives, ClientReads, ResponseIsDelivered, StagesOK
<1>9. ErrorsHaveACause'
  BY DEF ClientReceives, ErrorsHaveACause
<1> QED
  BY <1>3, <1>4, <1>5, <1>6, <1>7, <1>8, <1>9

LEMMA OnStatusLineReceivedIInv ==
  ASSUME IInv, OnStatusLineReceived
  PROVE  IInv'
<1> USE DEF IInv
<1>1. /\ Head(m_response.buf) = StatusCode
      /\ DropLine(m_response.buf) \in Seq(Tokens)
      /\ IsPrefix(DropLine(m_response.buf) \o downstream, Headers \o Content)
      /\ m_response.buf \o downstream = Response =>
           DropLine(m_response.buf) \o downstream = Headers \o Content
      /\ \A v \in Seq(Tokens) :
           m_response.buf \o downstream \o v = Response =>
             DropLine(m_response.buf) \o downstream \o v = Headers \o Content
  <2>1. m_response.buf \in Seq(Tokens) /\ downstream \in Seq(Tokens)
    BY DEF TypeOK
  <2>2. IsPrefix(m_response.buf \o downstream, Response) /\ Occurs(CRLF, m_response.buf)
    BY ExpectingIs DEF OnStatusLineReceived, ResponseOK
  <2>3. /\ Response \in Seq(Tokens) /\ Len(Response) >= 3
        /\ Response[1] = StatusCode /\ Response[1] # "CR" /\ Response[2] = "CR"
        /\ After(Response, 3) = Headers \o Content
    BY ResponseShape DEF TypeOK
  <2>4. /\ Head(m_response.buf) = Response[1]
        /\ DropLine(m_response.buf) \in Seq(Tokens)
        /\ IsPrefix(DropLine(m_response.buf) \o downstream, After(Response, 3))
        /\ m_response.buf \o downstream = Response =>
             DropLine(m_response.buf) \o downstream = After(Response, 3)
        /\ \A v \in Seq(Tokens) :
             m_response.buf \o downstream \o v = Response =>
               DropLine(m_response.buf) \o downstream \o v = After(Response, 3)
    BY <2>1, <2>2, <2>3, TakeLine, Zenon
  <2> QED
    BY <2>3, <2>4, Zenon
<1>2. Expecting = Response /\ Expecting' = Headers \o Content /\ StatusCode' = StatusCode
  BY Same, ExpectingIs DEF OnStatusLineReceived, Expecting
<1>3. server \notin {"line", "headers"}
  BY OccursCRLF DEF OnStatusLineReceived, ResponseOK, TypeOK
<1>4. TypeOK'
  <2>1. m_response' = [m_response EXCEPT !.code = StatusCode, !.buf = DropLine(m_response.buf)]
    BY <1>1 DEF OnStatusLineReceived
  <2>2. StatusCode \in {"200", "404", "500", "505"}
    BY ResponseShape DEF TypeOK
  <2>3. m_response' \in [buf : Seq(Tokens), code : {"200", "404", "500", "505"},
                        headers : SUBSET {"LENGTH"}]
    BY <1>1, <2>1, <2>2 DEF TypeOK
  <2> QED
    BY <2>3 DEF OnStatusLineReceived, serverVars, connection, TypeOK
<1>5. StagesOK'
  BY DEF OnStatusLineReceived, serverVars, connection, StagesOK
<1>6. RequestOK'
  BY DEF OnStatusLineReceived, serverVars, connection, RequestOK
<1>7. ResponseOK'
  BY <1>1, <1>2, <1>3 DEF OnStatusLineReceived, serverVars, connection, ResponseOK, TypeOK
<1>8. CauseOK'
  BY DEF OnStatusLineReceived, serverVars, connection, CauseOK, Undisturbed
<1>9. ResponseIsDelivered'
  BY DEF OnStatusLineReceived, ResponseIsDelivered, StagesOK
<1>10. ErrorsHaveACause'
  BY DEF OnStatusLineReceived, ErrorsHaveACause
<1> QED
  BY <1>4, <1>5, <1>6, <1>7, <1>8, <1>9, <1>10

LEMMA OnHeadersReceivedIInv ==
  ASSUME IInv, OnHeadersReceived
  PROVE  IInv'
<1> USE DEF IInv
<1>1. /\ (IF Head(m_response.buf) = "LENGTH" THEN {"LENGTH"} ELSE {}) =
           {"LENGTH"} \cap Range(Headers)
      /\ DropHeaders(m_response.buf) \in Seq(Tokens)
      /\ IsPrefix(DropHeaders(m_response.buf) \o downstream, Body)
      /\ m_response.buf \o downstream = Headers \o Content =>
           DropHeaders(m_response.buf) \o downstream = Body
      /\ \A v \in Seq(Tokens) :
           m_response.buf \o downstream \o v = Headers \o Content =>
             DropHeaders(m_response.buf) \o downstream \o v = Body
  <2>1. m_response.buf \in Seq(Tokens) /\ downstream \in Seq(Tokens) /\ resource \in Resources
    BY DEF TypeOK
  <2>2. IsPrefix(m_response.buf \o downstream, Headers \o Content)
    BY ExpectingIs DEF OnHeadersReceived, ResponseOK
  <2>3. Occurs(EmptyLine, m_response.buf)
    BY DEF OnHeadersReceived
  <2> QED
    BY <2>1, <2>2, <2>3, TakeHeaders, Zenon
<1>2. /\ Expecting = Headers \o Content /\ Expecting' = Body
      /\ StatusCode' = StatusCode /\ Headers' = Headers
  BY Same, ExpectingIs DEF OnHeadersReceived, Expecting
<1>3. TypeOK'
  BY <1>1 DEF OnHeadersReceived, serverVars, connection, TypeOK
<1>4. StagesOK'
  BY DEF OnHeadersReceived, serverVars, connection, StagesOK
<1>5. RequestOK'
  BY DEF OnHeadersReceived, serverVars, connection, RequestOK
<1>6. ResponseOK'
  BY <1>1, <1>2 DEF OnHeadersReceived, serverVars, connection, ResponseOK, TypeOK
<1>7. CauseOK'
  BY DEF OnHeadersReceived, serverVars, connection, CauseOK, Undisturbed
<1>8. ResponseIsDelivered'
  BY DEF OnHeadersReceived, ResponseIsDelivered, StagesOK
<1>9. ErrorsHaveACause'
  BY DEF OnHeadersReceived, ErrorsHaveACause
<1> QED
  BY <1>3, <1>4, <1>5, <1>6, <1>7, <1>8, <1>9

LEMMA ClientReadEndsIInv ==
  ASSUME IInv, ClientReadEnds
  PROVE  IInv'
<1> USE DEF IInv
<1>1. TypeOK'
  BY DEF ClientReadEnds, Finish, serverVars, connection, TypeOK
<1>2. StagesOK'
  BY DEF ClientReadEnds, ClientReads, Finish, serverVars, connection, StagesOK
<1>3. RequestOK'
  BY DEF ClientReadEnds, serverVars, connection, RequestOK
<1>4. ResponseOK'
  BY DEF ClientReadEnds, Finish, ResponseOK
<1>5. CauseOK'
  BY DEF ClientReadEnds, Finish, CauseOK, Undisturbed
<1>6. ResponseIsDelivered'
  <2>1. CASE client = "body" /\ ~ reset /\ ~ stopped
    <3>1. m_response.buf \o downstream = Body
      BY <2>1, ExpectingIs DEF ClientReadEnds, StagesOK, ResponseOK
    <3>2. m_response.buf = Body
      BY <3>1, ConcatEmptySeq DEF ClientReadEnds, TypeOK
    <3>3. IsSuffix(Content, Body)
      <4>1. "LF" \in Tokens /\ "CR" \in Tokens
        BY DEF Tokens
      <4>2. (IF Headers = EmptyLine THEN <<"LF">> \o CRLF ELSE <<"LF">>) \in Seq(Tokens)
        BY <4>1 DEF CRLF
      <4>3. Content \in Seq(Tokens)
        BY ResponseShape DEF TypeOK
      <4> QED
        BY <4>2, <4>3, SuffixOfConcat, Zenon DEF Body
    <3> QED
      BY <2>1, <3>2, <3>3, Same DEF ClientReadEnds, ResponseOK, ResponseIsDelivered
  <2>2. CASE ~ (client = "body" /\ ~ reset /\ ~ stopped)
    BY <2>2 DEF ClientReadEnds, Finish, ResponseIsDelivered
  <2> QED
    BY <2>1, <2>2
<1>7. ErrorsHaveACause'
  <2>1. ASSUME client \in {"status", "headers"}, ~ reset, ~ stopped
        PROVE  FALSE
    <3>1. m_response.buf \o downstream = Expecting
      BY <2>1 DEF ClientReadEnds, StagesOK, ResponseOK
    <3>2. m_response.buf = Expecting
      BY <3>1, ConcatEmptySeq DEF ClientReadEnds, TypeOK
    <3>3. Occurs(Awaited, Expecting)
      BY <2>1, Delimited, ExpectingIs DEF Awaited, TypeOK
    <3> QED
      BY <2>1, <3>2, <3>3 DEF ClientReadEnds, ClientReads
  <2> QED
    BY <2>1
       DEF ClientReadEnds, ClientReads, Finish, ErrorsHaveACause, CauseOK, Undisturbed, StagesOK
<1> QED
  BY <1>1, <1>2, <1>3, <1>4, <1>5, <1>6, <1>7

LEMMA CancelledIInv ==
  ASSUME IInv, Cancelled
  PROVE  IInv'
<1> USE DEF IInv
<1>1. TypeOK'
  BY DEF Cancelled, Finish, serverVars, connection, TypeOK
<1>2. StagesOK'
  BY DEF Cancelled, Finish, serverVars, connection, StagesOK
<1>3. RequestOK'
  BY DEF Cancelled, serverVars, connection, RequestOK
<1>4. ResponseOK'
  BY DEF Cancelled, Finish, ResponseOK
<1>5. CauseOK'
  BY DEF Cancelled, Finish, CauseOK, Undisturbed
<1>6. ResponseIsDelivered'
  BY DEF Cancelled, Finish, ResponseIsDelivered
<1>7. ErrorsHaveACause'
  BY DEF Cancelled, Finish, ErrorsHaveACause
<1> QED
  BY <1>1, <1>2, <1>3, <1>4, <1>5, <1>6, <1>7

LEMMA DestroyRequestIInv ==
  ASSUME IInv, DestroyRequest
  PROVE  IInv'
<1> USE DEF IInv
<1>1. CloseSocketFacts("client", downstream)
  BY CloseSocketIs DEF DestroyRequest
<1>2. server \in {"line", "headers"} => downstream = <<>>
  BY DEF StagesOK
<1>3. TypeOK'
  BY <1>1 DEF DestroyRequest, CloseSocketFacts, serverVars, TypeOK
<1>4. StagesOK'
  BY <1>1, <1>2 DEF DestroyRequest, CloseSocketFacts, serverVars, StagesOK
<1>5. RequestOK'
  BY <1>1, <1>2 DEF DestroyRequest, CloseSocketFacts, serverVars, RequestOK
<1>6. ResponseOK'
  BY DEF DestroyRequest, ResponseOK
<1>7. CauseOK'
  BY DEF DestroyRequest, CauseOK, Undisturbed, StagesOK
<1>8. ResponseIsDelivered'
  BY DeliveredKept DEF DestroyRequest
<1>9. ErrorsHaveACause'
  BY DEF DestroyRequest, ErrorsHaveACause
<1> QED
  BY <1>3, <1>4, <1>5, <1>6, <1>7, <1>8, <1>9

LEMMA ServerReceivesIInv ==
  ASSUME IInv, ServerReceives
  PROVE  IInv'
<1> USE DEF IInv
<1>1. /\ m_request' \in Seq(Tokens) /\ upstream' \in Seq(Tokens)
      /\ m_request' \o upstream' = m_request \o upstream
  <2>1. PICK n \in 1..Len(upstream) :
          m_request' = m_request \o SubSeq(upstream, 1, n) /\ upstream' = After(upstream, n)
    BY DEF ServerReceives
  <2>2. m_request \in Seq(Tokens) /\ upstream \in Seq(Tokens) /\ n \in 0..Len(upstream)
    BY DEF TypeOK
  <2> QED
    BY <2>1, <2>2, MovePiece, Zenon
<1>2. server \in {"line", "headers"}
  BY DEF ServerReceives, ServerReads
<1>3. TypeOK'
  BY <1>1 DEF ServerReceives, clientVars, TypeOK
<1>4. StagesOK'
  BY DEF ServerReceives, clientVars, StagesOK
<1>5. RequestOK'
  BY <1>1, <1>2 DEF ServerReceives, ServerReads, clientVars, RequestOK
<1>6. ResponseOK'
  BY ResponseKept DEF ServerReceives, clientVars
<1>7. CauseOK'
  BY <1>2 DEF ServerReceives, ServerReads, clientVars, CauseOK, Undisturbed
<1>8. ResponseIsDelivered'
  BY DeliveredKept DEF ServerReceives, clientVars
<1>9. ErrorsHaveACause'
  BY DEF ServerReceives, clientVars, ErrorsHaveACause
<1> QED
  BY <1>3, <1>4, <1>5, <1>6, <1>7, <1>8, <1>9

LEMMA ServerReadEndsIInv ==
  ASSUME IInv, ServerReadEnds
  PROVE  IInv'
<1> USE DEF IInv
(* Before its request is complete the client can only have been cancelled. *)
<1>1. client \in {"done", "closed"}
  <2>1. server \in {"line", "headers"} /\ upstream = <<>> /\ ~ Occurs(Expected, m_request)
    BY DEF ServerReadEnds, ServerReads
  <2>2. client # "write"
    BY <2>1 DEF ServerReadEnds, StagesOK
  <2>3. ASSUME client \in {"status", "headers", "body"} PROVE FALSE
    <3>1. out = <<>>
      BY <2>3 DEF StagesOK
    <3>2. m_request \o upstream \o out = m_request
      BY <2>1, <3>1, ConcatEmptySeq DEF TypeOK
    <3>3. CASE server = "line"
      BY <2>1, <3>2, <3>3, Delimited DEF RequestOK, Expected
    <3>4. CASE server = "headers"
      BY <2>1, <3>2, <3>4, Delimited DEF RequestOK, Expected
    <3> QED
      BY <2>1, <3>3, <3>4
  <2> QED
    BY <2>2, <2>3 DEF TypeOK
<1>2. TypeOK'
  BY DEF ServerReadEnds, CloseSocket, clientVars, TypeOK
<1>3. StagesOK'
  BY DEF ServerReadEnds, CloseSocket, clientVars, StagesOK
<1>4. RequestOK'
  BY DEF ServerReadEnds, RequestOK
<1>5. ResponseOK'
  BY <1>1 DEF ServerReadEnds, clientVars, ResponseOK
<1>6. CauseOK'
  BY <1>1 DEF ServerReadEnds, clientVars, CauseOK, Undisturbed, StagesOK, TypeOK
<1>7. ResponseIsDelivered'
  BY DeliveredKept DEF ServerReadEnds, clientVars
<1>8. ErrorsHaveACause'
  BY DEF ServerReadEnds, clientVars, ErrorsHaveACause
<1> QED
  BY <1>2, <1>3, <1>4, <1>5, <1>6, <1>7, <1>8

LEMMA OnRequestReceivedIInv ==
  ASSUME IInv, OnRequestReceived
  PROVE  IInv'
<1> USE DEF IInv
<1>1. /\ DropLine(m_request) \in Seq(Tokens)
      /\ DropLine(m_request) \o upstream \o out = <<"HOST">> \o EmptyLine
  <2>1. m_request \in Seq(Tokens) /\ upstream \in Seq(Tokens) /\ out \in Seq(Tokens)
    BY DEF TypeOK
  <2>2. m_request \o upstream \o out = Request /\ Occurs(CRLF, m_request)
    BY DEF OnRequestReceived, RequestOK
  <2>3. m_request \o upstream \in Seq(Tokens)
    BY <2>1
  <2>4. IsPrefix(m_request \o upstream, Request)
    BY <2>1, <2>2, <2>3, PrefixOfConcat, Zenon
  <2>5. /\ DropLine(m_request) \in Seq(Tokens)
        /\ \A v \in Seq(Tokens) :
             m_request \o upstream \o v = Request =>
               DropLine(m_request) \o upstream \o v = <<"HOST">> \o EmptyLine
    BY <2>1, <2>2, <2>4, TakeRequestLine, Zenon
  <2> QED
    BY <2>1, <2>2, <2>5, Zenon
<1>2. Response \in Seq(Tokens)
  BY ResponseShape DEF TypeOK
<1>3. ResponseStarts
  BY ResponseNotStarted DEF OnRequestReceived
<1>4. TypeOK'
  BY <1>1, <1>2 DEF OnRequestReceived, SendResponse, clientVars, connection, TypeOK
<1>5. StagesOK'
  BY DEF OnRequestReceived, SendResponse, clientVars, connection, StagesOK
<1>6. RequestOK'
  BY <1>1 DEF OnRequestReceived, SendResponse, clientVars, connection, RequestOK, StagesOK, TypeOK
<1>7. ResponseOK'
  <2>1. ASSUME client \in {"write", "status", "headers", "body"}
        PROVE  IsPrefix(m_response.buf \o downstream, Expecting) /\ client \in {"write", "status"}
    BY <2>1 DEF OnRequestReceived, ResponseOK
  <2>2. UNCHANGED <<client, m_response, downstream, reset, stopped, Expecting, StatusCode, Headers>>
    BY Same DEF OnRequestReceived, clientVars, connection
  <2>3. server' \in {"write", "headers"} /\ (server' = "headers" => server = "line")
        /\ (server' = "write" => response' = Response)
    BY DEF OnRequestReceived, SendResponse, StagesOK
  <2> QED
    BY <1>3, <2>1, <2>2, <2>3 DEF ResponseStarts, OnRequestReceived, ResponseOK
<1>8. CauseOK'
  BY DEF OnRequestReceived, SendResponse, clientVars, connection, CauseOK, Undisturbed
<1>9. ResponseIsDelivered'
  BY DeliveredKept DEF OnRequestReceived, clientVars
<1>10. ErrorsHaveACause'
  BY DEF OnRequestReceived, SendResponse, clientVars, ErrorsHaveACause, StagesOK
<1> QED
  BY <1>4, <1>5, <1>6, <1>7, <1>8, <1>9, <1>10

LEMMA OnRequestHeadersReceivedIInv ==
  ASSUME IInv, OnRequestHeadersReceived
  PROVE  IInv'
<1> USE DEF IInv
<1>1. upstream = <<>> /\ out = <<>>
  <2>1. m_request \in Seq(Tokens) /\ upstream \in Seq(Tokens) /\ out \in Seq(Tokens)
    BY DEF TypeOK
  <2>2. /\ m_request \o (upstream \o out) = m_request \o upstream \o out
        /\ upstream \o out \in Seq(Tokens)
    BY <2>1
  <2>3. m_request \o (upstream \o out) = <<"HOST">> \o EmptyLine /\ Occurs(EmptyLine, m_request)
    BY <2>1, <2>2 DEF OnRequestHeadersReceived, RequestOK
  <2>4. upstream \o out = <<>>
    BY <2>1, <2>2, <2>3, RequestRead, Zenon
  <2> QED
    BY <2>1, <2>4, ConcatEqualIffEmpty
<1>2. Response \in Seq(Tokens)
  BY ResponseShape DEF TypeOK
<1>3. ResponseStarts
  BY ResponseNotStarted DEF OnRequestHeadersReceived
<1>4. TypeOK'
  BY <1>2 DEF OnRequestHeadersReceived, SendResponse, clientVars, connection, TypeOK
<1>5. StagesOK'
  BY DEF OnRequestHeadersReceived, SendResponse, clientVars, connection, StagesOK
<1>6. RequestOK'
  BY <1>1 DEF OnRequestHeadersReceived, SendResponse, clientVars, connection, RequestOK, StagesOK
<1>7. ResponseOK'
  <2>1. ASSUME client \in {"write", "status", "headers", "body"}
        PROVE  IsPrefix(m_response.buf \o downstream, Expecting) /\ client \in {"write", "status"}
    BY <2>1 DEF OnRequestHeadersReceived, ResponseOK
  <2>2. UNCHANGED <<client, m_response, downstream, reset, stopped, Expecting, StatusCode, Headers>>
    BY Same DEF OnRequestHeadersReceived, clientVars, connection
  <2>3. server' \in {"write", "headers"} /\ (server' = "headers" => server = "line")
        /\ (server' = "write" => response' = Response)
    BY DEF OnRequestHeadersReceived, SendResponse, StagesOK
  <2> QED
    BY <1>3, <2>1, <2>2, <2>3 DEF ResponseStarts, OnRequestHeadersReceived, ResponseOK
<1>8. CauseOK'
  BY DEF OnRequestHeadersReceived, SendResponse, clientVars, connection, CauseOK, Undisturbed
<1>9. ResponseIsDelivered'
  BY DeliveredKept DEF OnRequestHeadersReceived, clientVars
<1>10. ErrorsHaveACause'
  BY DEF OnRequestHeadersReceived, SendResponse, clientVars, ErrorsHaveACause, StagesOK
<1> QED
  BY <1>4, <1>5, <1>6, <1>7, <1>8, <1>9, <1>10

LEMMA WriteResponseIInv ==
  ASSUME IInv, WriteResponse
  PROVE  IInv'
<1> USE DEF IInv
<1>1. /\ downstream' \in Seq(Tokens) /\ response' \in Seq(Tokens)
      /\ \A s \in Seq(Tokens) : s \o downstream' \o response' = s \o downstream \o response
  <2>1. PICK n \in 1..Len(response) :
          downstream' = downstream \o SubSeq(response, 1, n) /\ response' = After(response, n)
    BY DEF WriteResponse
  <2>2. downstream \in Seq(Tokens) /\ response \in Seq(Tokens) /\ n \in 0..Len(response)
    BY DEF TypeOK
  <2>3. /\ downstream \o SubSeq(response, 1, n) \in Seq(Tokens)
        /\ After(response, n) \in Seq(Tokens)
        /\ \A s \in Seq(Tokens) :
             (s \o (downstream \o SubSeq(response, 1, n))) \o After(response, n)
               = (s \o downstream) \o response
    BY <2>2, MovePiece, Zenon
  <2> QED
    BY <2>1, <2>3, Zenon
<1>2. TypeOK'
  BY <1>1 DEF WriteResponse, clientVars, TypeOK
<1>3. StagesOK'
  BY DEF WriteResponse, clientVars, StagesOK
<1>4. RequestOK'
  BY DEF WriteResponse, clientVars, RequestOK
<1>5. ResponseOK'
  <2>1. ASSUME client \in {"write", "status", "headers", "body"}
        PROVE  /\ m_response.buf \o downstream' \o response' = Expecting
               /\ IsPrefix(m_response.buf \o downstream', Expecting)
    <3>1. m_response.buf \o downstream' \o response' = Expecting
      BY <1>1, <2>1 DEF WriteResponse, ResponseOK, TypeOK
    <3>2. m_response.buf \o downstream' \in Seq(Tokens)
      BY <1>1 DEF TypeOK
    <3> QED
      BY <1>1, <3>1, <3>2, PrefixOfConcat, Zenon
  <2> QED
    BY <2>1, Same DEF WriteResponse, clientVars, ResponseOK
<1>6. CauseOK'
  BY DEF WriteResponse, clientVars, CauseOK, Undisturbed
<1>7. ResponseIsDelivered'
  BY DeliveredKept DEF WriteResponse, clientVars
<1>8. ErrorsHaveACause'
  BY DEF WriteResponse, clientVars, ErrorsHaveACause
<1> QED
  BY <1>2, <1>3, <1>4, <1>5, <1>6, <1>7, <1>8

LEMMA OnResponseSentIInv ==
  ASSUME IInv, OnResponseSent
  PROVE  IInv'
<1> USE DEF IInv
<1>1. CloseSocketFacts("server", upstream)
  BY CloseSocketIs DEF OnResponseSent
<1>2. TypeOK'
  BY <1>1 DEF OnResponseSent, CloseSocketFacts, clientVars, TypeOK
<1>3. StagesOK'
  BY <1>1 DEF OnResponseSent, CloseSocketFacts, clientVars, StagesOK
<1>4. RequestOK'
  BY DEF OnResponseSent, RequestOK
<1>5. ResponseOK'
  <2>1. ASSUME client \in {"write", "status", "headers", "body"}
        PROVE  IsPrefix(m_response.buf \o downstream', Expecting)
    BY <1>1, <2>1, ExpectingIs DEF CloseSocketFacts, ResponseOK
  <2>2. ASSUME client \in {"write", "status", "headers", "body"}, ~ stopped, ~ reset'
        PROVE  m_response.buf \o downstream' = Expecting
    <3>1. downstream' = downstream /\ ~ reset /\ response = <<>>
      BY <1>1, <2>2 DEF CloseSocketFacts, OnResponseSent, TypeOK
    <3>2. m_response.buf \o downstream \o response = Expecting
      BY <2>2, <3>1 DEF OnResponseSent, ResponseOK
    <3>3. m_response.buf \o downstream \in Seq(Tokens)
      BY DEF TypeOK
    <3> QED
      BY <3>1, <3>2, <3>3, ConcatEmptySeq
  <2> QED
    BY <2>1, <2>2, Same DEF OnResponseSent, clientVars, ResponseOK
<1>6. CauseOK'
  BY <1>1 DEF OnResponseSent, CloseSocketFacts, clientVars, CauseOK, Undisturbed, RequestOK
<1>7. ResponseIsDelivered'
  BY DeliveredKept DEF OnResponseSent, clientVars
<1>8. ErrorsHaveACause'
  BY DEF OnResponseSent, clientVars, ErrorsHaveACause
<1> QED
  BY <1>2, <1>3, <1>4, <1>5, <1>6, <1>7, <1>8

LEMMA StopServerIInv ==
  ASSUME IInv, StopServer
  PROVE  IInv'
<1> USE DEF IInv
<1>1. server # "closed" => CloseSocketFacts("server", upstream)
  BY CloseSocketIs DEF StopServer
<1>2. TypeOK'
  <2>1. CASE server = "closed"
    BY <2>1 DEF StopServer, clientVars, connection, TypeOK
  <2>2. CASE server # "closed"
    BY <1>1, <2>2 DEF StopServer, CloseSocketFacts, clientVars, TypeOK
  <2> QED
    BY <2>1, <2>2
<1>3. StagesOK'
  BY <1>1 DEF StopServer, CloseSocketFacts, clientVars, connection, StagesOK
<1>4. RequestOK'
  BY DEF StopServer, RequestOK
<1>5. ResponseOK'
  <2>1. CASE server = "closed"
    BY <2>1, Same DEF StopServer, clientVars, connection, ResponseOK
  <2>2. CASE server # "closed"
    <3>1. ASSUME client \in {"write", "status", "headers", "body"}
          PROVE  IsPrefix(m_response.buf \o downstream', Expecting)
      BY <1>1, <2>2, <3>1, ExpectingIs DEF CloseSocketFacts, ResponseOK
    <3> QED
      BY <2>2, <3>1, Same DEF StopServer, clientVars, ResponseOK
  <2> QED
    BY <2>1, <2>2
<1>6. CauseOK'
  BY DEF StopServer, CauseOK, Undisturbed
<1>7. ResponseIsDelivered'
  BY DeliveredKept DEF StopServer, clientVars
<1>8. ErrorsHaveACause'
  BY DEF StopServer, clientVars, ErrorsHaveACause
<1> QED
  BY <1>2, <1>3, <1>4, <1>5, <1>6, <1>7, <1>8

LEMMA RefuseIInv ==
  ASSUME IInv, Refuse
  PROVE  IInv'
<1> USE DEF IInv
<1>1. /\ reset' /\ upstream' = <<>> /\ ended' = ended
      /\ downstream' \in Seq(Tokens)
      /\ downstream = <<>> => downstream' = <<>>
      /\ \A s \in Seq(Tokens) :
           IsPrefix(m_response.buf \o downstream, s) =>
             IsPrefix(m_response.buf \o downstream', s)
  BY ResetIs DEF Refuse
<1>2. server \notin {"line", "headers"}
  BY DEF Refuse, StagesOK
<1>3. TypeOK'
  BY <1>1 DEF Refuse, clientVars, serverVars, TypeOK
<1>4. StagesOK'
  BY <1>1, <1>2 DEF Refuse, clientVars, serverVars, StagesOK
<1>5. RequestOK'
  BY <1>1, <1>2 DEF Refuse, clientVars, serverVars, RequestOK
<1>6. ResponseOK'
  <2>1. ASSUME client \in {"write", "status", "headers", "body"}
        PROVE  IsPrefix(m_response.buf \o downstream', Expecting)
    BY <1>1, <2>1, ExpectingIs DEF ResponseOK
  <2> QED
    BY <1>1, <1>2, <2>1, Same DEF Refuse, clientVars, serverVars, ResponseOK
<1>7. CauseOK'
  BY DEF Refuse, clientVars, serverVars, CauseOK, Undisturbed, StagesOK
<1>8. ResponseIsDelivered'
  BY DeliveredKept DEF Refuse, clientVars
<1>9. ErrorsHaveACause'
  BY DEF Refuse, clientVars, ErrorsHaveACause
<1> QED
  BY <1>3, <1>4, <1>5, <1>6, <1>7, <1>8, <1>9

-------------------------------------------------------------------------------
(* The theorems.                                                           *)
LEMMA StutterIInv ==
  ASSUME IInv, UNCHANGED vars
  PROVE  IInv'
<1>1. UNCHANGED <<resource, client, m_response, told, server, response, downstream, reset, stopped>>
  BY DEF vars, clientVars, serverVars, connection
<1>2. UNCHANGED <<out, m_request, upstream, ended, failure>>
  BY DEF vars, clientVars, serverVars, connection
<1>3. TypeOK'
  BY <1>1, <1>2 DEF IInv, TypeOK
<1>4. StagesOK' /\ RequestOK'
  BY <1>1, <1>2 DEF IInv, StagesOK, RequestOK
<1>5. CauseOK' /\ ErrorsHaveACause'
  BY <1>1, <1>2 DEF IInv, CauseOK, Undisturbed, ErrorsHaveACause
<1>6. ResponseOK'
  BY <1>1, ResponseKept DEF IInv
<1>7. ResponseIsDelivered'
  BY <1>1, DeliveredKept DEF IInv
<1> QED
  BY <1>3, <1>4, <1>5, <1>6, <1>7 DEF IInv

LEMMA NextIInv == IInv /\ [Next]_vars => IInv'
<1> SUFFICES ASSUME IInv, [Next]_vars PROVE IInv'
  OBVIOUS
<1>1. CASE ClientStep
  BY <1>1, WriteRequestIInv, WriteRequestFailsIInv, OnRequestSentIInv, ClientReceivesIInv,
     OnStatusLineReceivedIInv, OnHeadersReceivedIInv, ClientReadEndsIInv DEF ClientStep
<1>2. CASE ServerStep
  BY <1>2, ServerReceivesIInv, ServerReadEndsIInv, OnRequestReceivedIInv,
     OnRequestHeadersReceivedIInv, WriteResponseIInv, OnResponseSentIInv DEF ServerStep
<1>3. CASE Cancelled \/ DestroyRequest \/ StopServer \/ Refuse
  BY <1>3, CancelledIInv, DestroyRequestIInv, StopServerIInv, RefuseIInv
<1>4. CASE UNCHANGED vars
  BY <1>4, StutterIInv
<1> QED
  BY <1>1, <1>2, <1>3, <1>4 DEF Next, Over

LEMMA Invariance == Spec => []IInv
<1> QED
  BY InitIInv, NextIInv, PTL DEF Spec

(* The buffers of both programs hold tokens of the two messages, and each  *)
(* handler leaves the exchange in one of its stages.                       *)
THEOREM TypeCorrect == Spec => []TypeOK
<1>1. IInv => TypeOK
  BY DEF IInv
<1> QED
  BY Invariance, <1>1, PTL

(* Whatever the file, its size and the way TCP cuts the messages, a        *)
(* request that succeeds has the status code and the headers the server    *)
(* sent, and all of the file, unless the server was stopped.               *)
THEOREM ResponseIsDeliveredCorrect == Spec => []ResponseIsDelivered
<1>1. IInv => ResponseIsDelivered
  BY DEF IInv
<1> QED
  BY Invariance, <1>1, PTL

(* A request fails, or dies of the exception of on_request_sent, only when *)
(* the server was stopped or refused the request line, and send_response   *)
(* never throws: neither side ever closes while it has something unread    *)
(* of the other.                                                           *)
THEOREM ErrorsHaveACauseCorrect == Spec => []ErrorsHaveACause
<1>1. IInv => ErrorsHaveACause
  BY DEF IInv
<1> QED
  BY Invariance, <1>1, PTL
===============================================================================
