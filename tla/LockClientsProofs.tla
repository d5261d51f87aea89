------------------------- MODULE LockClientsProofs --------------------------
(***************************************************************************)
(* What both lock servers rest on: the queues of the waiters, and what a   *)
(* client may conclude from the replies it reads late, with requests of    *)
(* its own still on the way.                                               *)
(***************************************************************************)
EXTENDS LockClients, SequenceTheorems, TLAPS

-----------------------------------------------------------------------------
(* Queues *)

(* Nobody is in the empty queue.                                           *)
LEMMA EmptyQueue == Range(<<>>) = {} /\ IsInjective(<<>>)
BY DEF Range, IsInjective

(* One more at the end of a queue.                                         *)
LEMMA AppendQueue ==
  ASSUME NEW S, NEW q \in Seq(S), NEW e \in S
  PROVE  /\ Append(q, e) \in Seq(S)
         /\ Range(Append(q, e)) = Range(q) \cup {e}
         /\ IsInjective(q) /\ e \notin Range(q) => IsInjective(Append(q, e))
<1> DEFINE a == Append(q, e)
<1>1. /\ a \in Seq(S) /\ Len(a) = Len(q) + 1 /\ Len(q) \in Nat
      /\ DOMAIN a = 1 .. Len(q) + 1 /\ DOMAIN q = 1 .. Len(q)
      /\ \A i \in 1 .. Len(q) : a[i] = q[i]
      /\ a[Len(q) + 1] = e
  BY AppendProperties, LenProperties
<1>2. Range(a) = Range(q) \cup {e}
  <2> HIDE DEF a
  <2>1. \A i \in DOMAIN a : i \in DOMAIN q \/ i = Len(q) + 1
    BY <1>1
  <2> QED
    BY <1>1, <2>1 DEF Range
<1>3. ASSUME IsInjective(q), e \notin Range(q)
      PROVE  IsInjective(a)
  <2> HIDE DEF a
  <2> SUFFICES ASSUME NEW i \in DOMAIN a, NEW j \in DOMAIN a, a[i] = a[j]
               PROVE  i = j
    BY DEF IsInjective
  <2>1. \A k \in 1 .. Len(q) : q[k] # e
    BY <1>1, <1>3 DEF Range
  <2>2. \A k, m \in 1 .. Len(q) : q[k] = q[m] => k = m
    BY <1>1, <1>3 DEF IsInjective
  <2> QED
    BY <1>1, <2>1, <2>2
<1> QED
  BY <1>1, <1>2, <1>3

(* A queue without its head.                                               *)
LEMMA TailQueue ==
  ASSUME NEW S, NEW q \in Seq(S), q # <<>>, IsInjective(q)
  PROVE  /\ Head(q) \in S /\ Head(q) \in Range(q)
         /\ Tail(q) \in Seq(S)
         /\ Range(Tail(q)) = Range(q) \ {Head(q)}
         /\ IsInjective(Tail(q))
<1> DEFINE t == Tail(q)
<1>1. /\ Head(q) \in S /\ t \in Seq(S) /\ Len(t) = Len(q) - 1
      /\ \A i \in 1 .. Len(t) : t[i] = q[i + 1]
  BY HeadTailProperties
<1>2. /\ Len(q) \in Nat /\ Len(q) > 0 /\ Head(q) = q[1]
      /\ DOMAIN q = 1 .. Len(q) /\ DOMAIN t = 1 .. Len(q) - 1
  BY <1>1, LenProperties, EmptySeq
<1>3. \A i, j \in 1 .. Len(q) : q[i] = q[j] => i = j
  BY <1>2 DEF IsInjective
<1> HIDE DEF t
<1>4. Head(q) \in Range(q)
  BY <1>2 DEF Range
<1>5. Range(t) = Range(q) \ {Head(q)}
  <2>1. ASSUME NEW x \in Range(t) PROVE x \in Range(q) \ {Head(q)}
    <3>1. PICK i \in 1 .. Len(q) - 1 : x = q[i + 1]
      BY <1>1, <1>2 DEF Range
    <3>2. i + 1 \in 1 .. Len(q) /\ i + 1 # 1 /\ 1 \in 1 .. Len(q)
      BY <1>2
    <3> QED
      BY <1>2, <1>3, <3>1, <3>2 DEF Range
  <2>2. ASSUME NEW x \in Range(q), x # Head(q) PROVE x \in Range(t)
    <3>1. PICK i \in 1 .. Len(q) : x = q[i]
      BY <1>2 DEF Range
    <3>2. i - 1 \in 1 .. Len(q) - 1 /\ (i - 1) + 1 = i
      BY <1>2, <2>2, <3>1
    <3>3. t[i - 1] = x
      BY <1>1, <3>1, <3>2
    <3> QED
      BY <1>2, <3>2, <3>3 DEF Range
  <2> QED
    BY <2>1, <2>2
<1>6. IsInjective(t)
  <2> SUFFICES ASSUME NEW i \in 1 .. Len(q) - 1, NEW j \in 1 .. Len(q) - 1, t[i] = t[j]
               PROVE  i = j
    BY <1>2 DEF IsInjective
  <2> QED
    BY <1>1, <1>2, <1>3
<1> QED
  BY <1>1, <1>4, <1>5, <1>6 DEF t

(* The removal of somebody who does not wait changes nothing.              *)
LEMMA RemoveAbsent ==
  ASSUME NEW S, NEW q \in Seq(S), NEW e, e \notin Range(q)
  PROVE  RemoveFirst(q, e) = q
<1>1. DOMAIN q = 1 .. Len(q)
  BY LenProperties
<1> QED
  BY <1>1 DEF RemoveFirst, Range

(* A queue nobody is in is empty.                                          *)
LEMMA EmptyRange ==
  ASSUME NEW S, NEW q \in Seq(S), Range(q) = {}
  PROVE  q = <<>>
<1>1. Len(q) \in Nat /\ DOMAIN q = 1 .. Len(q)
  BY LenProperties
<1>2. Len(q) = 0
  <2> SUFFICES ASSUME Len(q) # 0 PROVE FALSE
    OBVIOUS
  <2>1. 1 \in DOMAIN q
    BY <1>1
  <2> QED
    BY <2>1 DEF Range
<1> QED
  BY <1>2, EmptySeq

(* Two queues, one behind the other.                                       *)
LEMMA ConcatQueue ==
  ASSUME NEW S, NEW p \in Seq(S), NEW q \in Seq(S)
  PROVE  /\ p \o q \in Seq(S)
         /\ Range(p \o q) = Range(p) \cup Range(q)
         /\ IsInjective(p) /\ IsInjective(q) /\ Range(p) \cap Range(q) = {} => IsInjective(p \o q)
<1> DEFINE pq == p \o q
<1>1. /\ Len(p) \in Nat /\ DOMAIN p = 1 .. Len(p) /\ Len(q) \in Nat /\ DOMAIN q = 1 .. Len(q)
  BY LenProperties
<1>2. /\ pq \in Seq(S) /\ DOMAIN pq = 1 .. Len(p) + Len(q)
      /\ \A i \in 1 .. Len(p) + Len(q) : pq[i] = IF i <= Len(p) THEN p[i] ELSE q[i - Len(p)]
  BY ConcatProperties, LenProperties
<1> HIDE DEF pq
<1>3. Range(pq) = Range(p) \cup Range(q)
  BY RangeConcatenation DEF pq
<1>4. ASSUME IsInjective(p), IsInjective(q), Range(p) \cap Range(q) = {}
      PROVE  IsInjective(pq)
  <2> SUFFICES ASSUME NEW i \in 1 .. Len(p) + Len(q), NEW j \in 1 .. Len(p) + Len(q), pq[i] = pq[j]
               PROVE  i = j
    BY <1>2 DEF IsInjective
  <2>1. \A k \in 1 .. Len(p) + Len(q) :
          \/ k \in DOMAIN p /\ pq[k] = p[k] /\ pq[k] \in Range(p)
          \/ k - Len(p) \in DOMAIN q /\ pq[k] = q[k - Len(p)] /\ pq[k] \in Range(q)
    <3> TAKE k \in 1 .. Len(p) + Len(q)
    <3>1. CASE k <= Len(p)
      <4>1. k \in DOMAIN p /\ pq[k] = p[k]
        BY <1>1, <1>2, <3>1
      <4> QED
        BY <4>1 DEF Range
    <3>2. CASE ~(k <= Len(p))
      <4>1. k - Len(p) \in DOMAIN q /\ pq[k] = q[k - Len(p)]
        BY <1>1, <1>2, <3>2
      <4> QED
        BY <4>1 DEF Range
    <3> QED
      BY <3>1, <3>2
  <2>2. CASE pq[i] \in Range(p)
    <3>1. i \in DOMAIN p /\ j \in DOMAIN p /\ p[i] = p[j]
      BY <1>4, <2>1, <2>2
    <3> QED
      BY <1>4, <3>1 DEF IsInjective
  <2>3. CASE pq[i] \notin Range(p)
    <3>1. i - Len(p) \in DOMAIN q /\ j - Len(p) \in DOMAIN q /\ q[i - Len(p)] = q[j - Len(p)]
      BY <2>1, <2>3
    <3>2. i - Len(p) = j - Len(p)
      BY <1>4, <3>1 DEF IsInjective
    <3> QED
      BY <1>1, <3>2
  <2> QED
    BY <2>2, <2>3
<1> QED
  BY <1>2, <1>3, <1>4 DEF pq

(* The head and the tail of the first of two queues in a row.              *)
LEMMA ConcatHead ==
  ASSUME NEW S, NEW p \in Seq(S), p # <<>>, NEW q \in Seq(S)
  PROVE  /\ p \o q \in Seq(S) /\ p \o q # <<>>
         /\ Head(p \o q) = Head(p)
         /\ Tail(p \o q) = Tail(p) \o q
<1> DEFINE pq == p \o q
           t == Tail(p)
           tpq == Tail(pq)
           tq == t \o q
<1>1. /\ Len(p) \in Nat /\ Len(p) > 0 /\ Len(q) \in Nat /\ Head(p) = p[1]
      /\ t \in Seq(S) /\ Len(t) = Len(p) - 1 /\ \A i \in 1 .. Len(t) : t[i] = p[i + 1]
  BY HeadTailProperties, LenProperties, EmptySeq
<1>2. /\ pq \in Seq(S) /\ Len(pq) = Len(p) + Len(q)
      /\ \A i \in 1 .. Len(p) + Len(q) : pq[i] = IF i <= Len(p) THEN p[i] ELSE q[i - Len(p)]
  BY ConcatProperties
<1> HIDE DEF pq, t
<1>3. pq # <<>> /\ Len(<<>>) = 0
  BY <1>1, <1>2, EmptySeq
<1>4. /\ Head(pq) = pq[1] /\ tpq \in Seq(S) /\ Len(tpq) = Len(pq) - 1
      /\ \A i \in 1 .. Len(tpq) : tpq[i] = pq[i + 1]
  BY <1>2, <1>3, HeadTailProperties
<1>5. /\ tq \in Seq(S) /\ Len(tq) = Len(t) + Len(q)
      /\ \A i \in 1 .. Len(t) + Len(q) : tq[i] = IF i <= Len(t) THEN t[i] ELSE q[i - Len(t)]
  BY <1>1, ConcatProperties
<1> HIDE DEF tpq, tq
<1>6. Len(tpq) = Len(tq)
  BY <1>1, <1>2, <1>4, <1>5
<1>7. ASSUME NEW i \in 1 .. Len(tpq) PROVE tpq[i] = tq[i]
  <2>1. i \in Nat /\ i + 1 \in 1 .. Len(p) + Len(q) /\ i \in 1 .. Len(t) + Len(q)
    BY <1>1, <1>2, <1>4
  <2>2. CASE i <= Len(t)
    BY <1>1, <1>2, <1>4, <1>5, <2>1, <2>2
  <2>3. CASE ~(i <= Len(t))
    <3>1. i - Len(t) = (i + 1) - Len(p) /\ ~(i + 1 <= Len(p))
      BY <1>1, <2>1, <2>3
    <3>2. tpq[i] = q[(i + 1) - Len(p)]
      BY <1>2, <1>4, <2>1, <3>1
    <3>3. tq[i] = q[i - Len(t)]
      BY <1>5, <2>1, <2>3
    <3> QED
      BY <3>1, <3>2, <3>3
  <2> QED
    BY <2>2, <2>3
<1>8. tpq = tq
  BY <1>4, <1>5, <1>6, <1>7, SeqEqual
<1>9. pq[1] = p[1]
  BY <1>1, <1>2
<1> QED
  BY <1>1, <1>2, <1>3, <1>4, <1>8, <1>9 DEF pq, t, tpq, tq

(* One more at the end of the second of two queues in a row.               *)
LEMMA ConcatAppend ==
  ASSUME NEW S, NEW p \in Seq(S), NEW q \in Seq(S), NEW e \in S
  PROVE  p \o Append(q, e) = Append(p \o q, e)
<1> DEFINE one == <<e>>
           pq == p \o q
<1>1. one \in Seq(S) /\ pq \in Seq(S)
  BY ConcatProperties
<1>2. Append(q, e) = q \o one /\ Append(pq, e) = pq \o one
  BY <1>1, AppendIsConcat
<1> HIDE DEF one
<1>3. (p \o q) \o one = p \o (q \o one)
  BY <1>1, ConcatAssociative
<1> QED
  BY <1>2, <1>3 DEF pq

-----------------------------------------------------------------------------
(* The types of the sockets *)

(* What the clients do keeps the types of the sockets.                     *)
LEMMA ClientTyped ==
  ASSUME ClientsTypeOK, NEW c \in Conns,
         \/ Connect(c) \/ Receive(c) \/ HangUp(c)
         \/ \E r \in Line : Send(c, r)
  PROVE  ClientsTypeOK'
<1>1. CASE Connect(c)
  BY <1>1 DEF ClientsTypeOK, Connect
<1>2. CASE Receive(c)
  <2>1. Head(replies[c]) \in Reply /\ Tail(replies[c]) \in Seq(Reply)
    BY <1>2, HeadTailProperties DEF ClientsTypeOK, Receive
  <2>2. {l \in {Head(replies[c]).lock} : Head(replies[c]).kind = "GRANTED"} \subseteq Locks
    BY <2>1 DEF Reply
  <2>3. owned' \in [Conns -> SUBSET Locks]
    BY <1>2, <2>2 DEF ClientsTypeOK, Receive
  <2>4. releasing' \in [Conns -> SUBSET Locks]
    BY <1>2 DEF ClientsTypeOK, Receive
  <2>5. replies' \in [Conns -> Seq(Reply)]
    BY <1>2, <2>1 DEF ClientsTypeOK, Receive
  <2> QED
    BY <1>2, <2>3, <2>4, <2>5 DEF ClientsTypeOK, Receive
<1>3. CASE HangUp(c)
  BY <1>3 DEF ClientsTypeOK, HangUp
<1>4. CASE \E r \in Line : Send(c, r)
  <2>1. PICK r \in Line : Send(c, r)
    BY <1>4
  <2>2. inbox' \in [Conns -> Seq(Line)]
    <3>1. Append(inbox[c], r) \in Seq(Line)
      BY AppendProperties DEF ClientsTypeOK
    <3> QED
      BY <2>1, <3>1 DEF ClientsTypeOK, Send
  <2>3. r.kind = "RELEASE" => r.lock \in Locks
    BY DEF Line, Others
  <2>4. owned' \in [Conns -> SUBSET Locks] /\ releasing' \in [Conns -> SUBSET Locks]
    BY <2>1, <2>3 DEF ClientsTypeOK, Send
  <2>5. sends' \in [Conns -> 0 .. MaxSends]
    BY <2>1, ClientsAssumption DEF ClientsTypeOK, Send
  <2> QED
    BY <2>1, <2>2, <2>4, <2>5 DEF ClientsTypeOK, Send
<1> QED
  BY <1>1, <1>2, <1>3, <1>4

-----------------------------------------------------------------------------
(* Sockets *)

Releases(line, l) == line.kind = "RELEASE" /\ line.lock = l
AnswersRelease(reply, l) == reply.kind \in {"OK", "NOT_HELD"} /\ reply.lock = l
IsGrant(reply, l) == reply.kind = "GRANTED" /\ reply.lock = l

(* A socket with the lines in on the way to the server and the replies out *)
(* on the way to the client, which owns the locks own, waits for answers   *)
(* to its RELEASE of rel, and is the holder of those in h. A RELEASE is    *)
(* among the lines or its answer among the replies, never both, and once.  *)
(* A GRANTED on the way is true unless the answer to a RELEASE follows it. *)
Sound(in, out, own, rel, h) ==
  \A l \in Locks :
    /\ l \in own => l \in h /\ l \notin rel
    /\ \A i \in 1 .. Len(in) : Releases(in[i], l) =>
         /\ l \in rel
         /\ \A j \in 1 .. Len(in) : Releases(in[j], l) => j = i
         /\ \A j \in 1 .. Len(out) : ~AnswersRelease(out[j], l)
    /\ \A i \in 1 .. Len(out) : AnswersRelease(out[i], l) =>
         /\ l \in rel
         /\ \A j \in 1 .. Len(out) : AnswersRelease(out[j], l) => j = i
    /\ \A i \in 1 .. Len(out) : IsGrant(out[i], l) =>
         l \in h \/ \E j \in i + 1 .. Len(out) : AnswersRelease(out[j], l)

LEMMA SilentSocket ==
  ASSUME NEW h PROVE Sound(<<>>, <<>>, {}, {}, h)
BY DEF Sound

(* The client holds more locks.                                            *)
LEMMA MoreHeld ==
  ASSUME NEW in, NEW out, NEW own, NEW rel, NEW h, NEW k,
         h \subseteq k, Sound(in, out, own, rel, h)
  PROVE  Sound(in, out, own, rel, k)
BY DEF Sound

(* The server takes a line and does not answer it.                         *)
LEMMA LineTaken ==
  ASSUME NEW in \in Seq(Line), in # <<>>, NEW out, NEW own, NEW rel, NEW h,
         Sound(in, out, own, rel, h)
  PROVE  Sound(Tail(in), out, own, rel, h)
<1> DEFINE t == Tail(in)
<1>1. /\ Len(t) = Len(in) - 1 /\ Len(in) \in Nat
      /\ \A i \in 1 .. Len(t) : t[i] = in[i + 1] /\ i + 1 \in 1 .. Len(in)
  BY HeadTailProperties, LenProperties
<1> HIDE DEF t
<1> SUFFICES ASSUME NEW l \in Locks, NEW i \in 1 .. Len(t), Releases(t[i], l)
             PROVE  /\ l \in rel
                    /\ \A j \in 1 .. Len(t) : Releases(t[j], l) => j = i
                    /\ \A j \in 1 .. Len(out) : ~AnswersRelease(out[j], l)
  BY DEF Sound, t
<1>2. Releases(in[i + 1], l) /\ i + 1 \in 1 .. Len(in)
  BY <1>1
<1>3. /\ l \in rel
      /\ \A j \in 1 .. Len(in) : Releases(in[j], l) => j = i + 1
      /\ \A j \in 1 .. Len(out) : ~AnswersRelease(out[j], l)
  BY <1>2 DEF Sound
<1>4. ASSUME NEW j \in 1 .. Len(t), Releases(t[j], l) PROVE j = i
  BY <1>1, <1>3, <1>4
<1> QED
  BY <1>3, <1>4

(* The server writes a reply that does not answer a RELEASE.               *)
LEMMA ReplyWritten ==
  ASSUME NEW in, NEW out \in Seq(Reply), NEW own, NEW rel, NEW h, NEW r \in Reply,
         \A l \in Locks : ~AnswersRelease(r, l),
         \A l \in Locks : IsGrant(r, l) => l \in h,
         Sound(in, out, own, rel, h)
  PROVE  Sound(in, Append(out, r), own, rel, h)
<1> DEFINE o == Append(out, r)
<1>1. /\ Len(o) = Len(out) + 1 /\ Len(out) \in Nat /\ o[Len(out) + 1] = r
      /\ \A i \in 1 .. Len(out) : o[i] = out[i]
  BY AppendProperties, LenProperties
<1>2. \A i \in 1 .. Len(o) : i \in 1 .. Len(out) \/ o[i] = r
  BY <1>1
<1> HIDE DEF o
<1> SUFFICES ASSUME NEW l \in Locks
             PROVE  /\ l \in own => l \in h /\ l \notin rel
                    /\ \A i \in 1 .. Len(in) : Releases(in[i], l) =>
                         /\ l \in rel
                         /\ \A j \in 1 .. Len(in) : Releases(in[j], l) => j = i
                         /\ \A j \in 1 .. Len(o) : ~AnswersRelease(o[j], l)
                    /\ \A i \in 1 .. Len(o) : AnswersRelease(o[i], l) =>
                         /\ l \in rel
                         /\ \A j \in 1 .. Len(o) : AnswersRelease(o[j], l) => j = i
                    /\ \A i \in 1 .. Len(o) : IsGrant(o[i], l) =>
                         l \in h \/ \E j \in i + 1 .. Len(o) : AnswersRelease(o[j], l)
  BY DEF Sound, o
<1>3. \A i \in 1 .. Len(o) : AnswersRelease(o[i], l) => i \in 1 .. Len(out) /\ AnswersRelease(out[i], l)
  BY <1>1, <1>2
<1>4. ASSUME NEW i \in 1 .. Len(o), IsGrant(o[i], l)
      PROVE  l \in h \/ \E j \in i + 1 .. Len(o) : AnswersRelease(o[j], l)
  <2>1. CASE i \in 1 .. Len(out)
    <3>1. l \in h \/ \E j \in i + 1 .. Len(out) : AnswersRelease(out[j], l)
      BY <1>1, <1>4, <2>1 DEF Sound
    <3>2. \A j \in i + 1 .. Len(out) : j \in i + 1 .. Len(o) /\ o[j] = out[j]
      BY <1>1, <2>1
    <3> QED
      BY <3>1, <3>2
  <2>2. CASE i \notin 1 .. Len(out)
    BY <1>2, <1>4, <2>2
  <2> QED
    BY <2>1, <2>2
<1>5. ASSUME NEW i \in 1 .. Len(o), AnswersRelease(o[i], l)
      PROVE  l \in rel /\ \A j \in 1 .. Len(o) : AnswersRelease(o[j], l) => j = i
  BY <1>3, <1>5 DEF Sound
<1>6. ASSUME NEW i \in 1 .. Len(in), Releases(in[i], l)
      PROVE  /\ l \in rel
             /\ \A j \in 1 .. Len(in) : Releases(in[j], l) => j = i
             /\ \A j \in 1 .. Len(o) : ~AnswersRelease(o[j], l)
  BY <1>3, <1>6 DEF Sound
<1>7. l \in own => l \in h /\ l \notin rel
  BY DEF Sound
<1> QED
  BY <1>4, <1>5, <1>6, <1>7

(* The server writes several replies, all of them GRANTED for locks that   *)
(* the client holds.                                                       *)
LEMMA GrantsWritten ==
  ASSUME NEW in, NEW out \in Seq(Reply), NEW own, NEW rel, NEW h, NEW rs \in Seq(Reply),
         \A i \in 1 .. Len(rs) : rs[i].kind = "GRANTED" /\ rs[i].lock \in h,
         Sound(in, out, own, rel, h)
  PROVE  Sound(in, out \o rs, own, rel, h)
<1> DEFINE o == out \o rs
           n == Len(out)
<1>1. /\ n \in Nat /\ Len(rs) \in Nat /\ Len(o) = n + Len(rs)
      /\ \A i \in 1 .. n + Len(rs) : o[i] = IF i <= n THEN out[i] ELSE rs[i - n]
  BY ConcatProperties, LenProperties
<1> HIDE DEF o, n
<1>2. \A i \in 1 .. n : i \in 1 .. Len(o) /\ o[i] = out[i]
  BY <1>1
<1>3. ASSUME NEW i \in 1 .. Len(o), i \notin 1 .. n
      PROVE  o[i].kind = "GRANTED" /\ o[i].lock \in h
  <2>1. i - n \in 1 .. Len(rs) /\ o[i] = rs[i - n]
    BY <1>1, <1>3
  <2> QED
    BY <2>1
<1> SUFFICES ASSUME NEW l \in Locks
             PROVE  /\ l \in own => l \in h /\ l \notin rel
                    /\ \A i \in 1 .. Len(in) : Releases(in[i], l) =>
                         /\ l \in rel
                         /\ \A j \in 1 .. Len(in) : Releases(in[j], l) => j = i
                         /\ \A j \in 1 .. Len(o) : ~AnswersRelease(o[j], l)
                    /\ \A i \in 1 .. Len(o) : AnswersRelease(o[i], l) =>
                         /\ l \in rel
                         /\ \A j \in 1 .. Len(o) : AnswersRelease(o[j], l) => j = i
                    /\ \A i \in 1 .. Len(o) : IsGrant(o[i], l) =>
                         l \in h \/ \E j \in i + 1 .. Len(o) : AnswersRelease(o[j], l)
  BY DEF Sound, o
<1>4. /\ l \in own => l \in h /\ l \notin rel
      /\ \A i \in 1 .. Len(in) : Releases(in[i], l) =>
           /\ l \in rel
           /\ \A j \in 1 .. Len(in) : Releases(in[j], l) => j = i
           /\ \A j \in 1 .. n : ~AnswersRelease(out[j], l)
      /\ \A i \in 1 .. n : AnswersRelease(out[i], l) =>
           /\ l \in rel
           /\ \A j \in 1 .. n : AnswersRelease(out[j], l) => j = i
      /\ \A i \in 1 .. n : IsGrant(out[i], l) =>
           l \in h \/ \E j \in i + 1 .. n : AnswersRelease(out[j], l)
  BY DEF Sound, n
<1>5. \A i \in 1 .. Len(o) : AnswersRelease(o[i], l) => i \in 1 .. n /\ AnswersRelease(out[i], l)
  BY <1>2, <1>3 DEF AnswersRelease
<1>6. ASSUME NEW i \in 1 .. Len(o), IsGrant(o[i], l)
      PROVE  l \in h \/ \E j \in i + 1 .. Len(o) : AnswersRelease(o[j], l)
  <2>1. CASE i \in 1 .. n
    <3>1. l \in h \/ \E j \in i + 1 .. n : AnswersRelease(out[j], l)
      BY <1>2, <1>4, <1>6, <2>1
    <3>2. \A j \in i + 1 .. n : j \in 1 .. n /\ j \in i + 1 .. Len(o)
      BY <1>1, <2>1
    <3> QED
      BY <1>2, <3>1, <3>2
  <2>2. CASE i \notin 1 .. n
    BY <1>3, <1>6, <2>2 DEF IsGrant
  <2> QED
    BY <2>1, <2>2
<1>7. ASSUME NEW i \in 1 .. Len(o), AnswersRelease(o[i], l)
      PROVE  l \in rel /\ \A j \in 1 .. Len(o) : AnswersRelease(o[j], l) => j = i
  BY <1>4, <1>5, <1>7
<1>8. ASSUME NEW i \in 1 .. Len(in), Releases(in[i], l)
      PROVE  /\ l \in rel
             /\ \A j \in 1 .. Len(in) : Releases(in[j], l) => j = i
             /\ \A j \in 1 .. Len(o) : ~AnswersRelease(o[j], l)
  BY <1>4, <1>5, <1>8
<1> QED
  BY <1>4, <1>6, <1>7, <1>8

(* The server takes a line and answers it. Only a RELEASE is answered as   *)
(* one, and only its answer costs the client a lock.                       *)
LEMMA LineAnswered ==
  ASSUME NEW in \in Seq(Line), in # <<>>, NEW out \in Seq(Reply), NEW own, NEW rel,
         NEW h, NEW k, NEW r \in Reply,
         \A l \in Locks : AnswersRelease(r, l) => Releases(Head(in), l),
         \A l \in Locks : IsGrant(r, l) => l \in k,
         \A l \in h \ k : AnswersRelease(r, l),
         h \subseteq Locks,
         Sound(in, out, own, rel, h)
  PROVE  Sound(Tail(in), Append(out, r), own, rel, k)
<1> DEFINE o == Append(out, r)
           t == Tail(in)
<1>1. /\ Len(o) = Len(out) + 1 /\ Len(out) \in Nat /\ o[Len(out) + 1] = r
      /\ \A i \in 1 .. Len(out) : o[i] = out[i]
  BY AppendProperties, LenProperties
<1>2. \A i \in 1 .. Len(o) : i \in 1 .. Len(out) \/ (i = Len(out) + 1 /\ o[i] = r)
  BY <1>1
<1>3. /\ Len(t) = Len(in) - 1 /\ Len(in) \in Nat /\ 1 \in 1 .. Len(in) /\ Head(in) = in[1]
      /\ \A i \in 1 .. Len(t) : t[i] = in[i + 1] /\ i + 1 \in 1 .. Len(in) /\ i + 1 # 1
  BY HeadTailProperties, LenProperties, EmptySeq
<1> HIDE DEF o, t
<1> SUFFICES ASSUME NEW l \in Locks
             PROVE  /\ l \in own => l \in k /\ l \notin rel
                    /\ \A i \in 1 .. Len(t) : Releases(t[i], l) =>
                         /\ l \in rel
                         /\ \A j \in 1 .. Len(t) : Releases(t[j], l) => j = i
                         /\ \A j \in 1 .. Len(o) : ~AnswersRelease(o[j], l)
                    /\ \A i \in 1 .. Len(o) : AnswersRelease(o[i], l) =>
                         /\ l \in rel
                         /\ \A j \in 1 .. Len(o) : AnswersRelease(o[j], l) => j = i
                    /\ \A i \in 1 .. Len(o) : IsGrant(o[i], l) =>
                         l \in k \/ \E j \in i + 1 .. Len(o) : AnswersRelease(o[j], l)
  BY DEF Sound, o, t
<1>4. /\ l \in own => l \in h /\ l \notin rel
      /\ \A i \in 1 .. Len(in) : Releases(in[i], l) =>
           /\ l \in rel
           /\ \A j \in 1 .. Len(in) : Releases(in[j], l) => j = i
           /\ \A j \in 1 .. Len(out) : ~AnswersRelease(out[j], l)
      /\ \A i \in 1 .. Len(out) : AnswersRelease(out[i], l) =>
           /\ l \in rel
           /\ \A j \in 1 .. Len(out) : AnswersRelease(out[j], l) => j = i
      /\ \A i \in 1 .. Len(out) : IsGrant(out[i], l) =>
           l \in h \/ \E j \in i + 1 .. Len(out) : AnswersRelease(out[j], l)
  BY DEF Sound
<1>5. AnswersRelease(r, l) =>
        /\ l \in rel
        /\ \A j \in 1 .. Len(in) : Releases(in[j], l) => j = 1
        /\ \A j \in 1 .. Len(out) : ~AnswersRelease(out[j], l)
  BY <1>3, <1>4
<1>6. l \in own => l \in k /\ l \notin rel
  BY <1>4, <1>5
<1>7. ASSUME NEW i \in 1 .. Len(t), Releases(t[i], l)
      PROVE  /\ l \in rel
             /\ \A j \in 1 .. Len(t) : Releases(t[j], l) => j = i
             /\ \A j \in 1 .. Len(o) : ~AnswersRelease(o[j], l)
  <2>1. Releases(in[i + 1], l) /\ i + 1 \in 1 .. Len(in) /\ i + 1 # 1
    BY <1>3, <1>7
  <2>2. /\ l \in rel /\ ~AnswersRelease(r, l)
        /\ \A j \in 1 .. Len(in) : Releases(in[j], l) => j = i + 1
        /\ \A j \in 1 .. Len(out) : ~AnswersRelease(out[j], l)
    BY <1>4, <1>5, <2>1
  <2>3. ASSUME NEW j \in 1 .. Len(t), Releases(t[j], l) PROVE j = i
    BY <1>3, <2>2, <2>3
  <2>4. \A j \in 1 .. Len(o) : ~AnswersRelease(o[j], l)
    BY <1>1, <1>2, <2>2
  <2> QED
    BY <2>2, <2>3, <2>4
<1>8. ASSUME NEW i \in 1 .. Len(o), AnswersRelease(o[i], l)
      PROVE  l \in rel /\ \A j \in 1 .. Len(o) : AnswersRelease(o[j], l) => j = i
  <2>1. CASE AnswersRelease(r, l)
    <3>1. \A j \in 1 .. Len(o) : AnswersRelease(o[j], l) => j = Len(out) + 1
      BY <1>1, <1>2, <1>5, <2>1
    <3> QED
      BY <1>5, <1>8, <2>1, <3>1
  <2>2. CASE ~AnswersRelease(r, l)
    <3>1. \A j \in 1 .. Len(o) : AnswersRelease(o[j], l) => j \in 1 .. Len(out) /\ AnswersRelease(out[j], l)
      BY <1>1, <1>2, <2>2
    <3> QED
      BY <1>4, <1>8, <3>1
  <2> QED
    BY <2>1, <2>2
<1>9. ASSUME NEW i \in 1 .. Len(o), IsGrant(o[i], l)
      PROVE  l \in k \/ \E j \in i + 1 .. Len(o) : AnswersRelease(o[j], l)
  <2>1. CASE i \in 1 .. Len(out)
    <3>1. CASE AnswersRelease(r, l)
      <4>1. Len(out) + 1 \in i + 1 .. Len(o) /\ AnswersRelease(o[Len(out) + 1], l)
        BY <1>1, <2>1, <3>1
      <4> QED
        BY <4>1
    <3>2. CASE ~AnswersRelease(r, l)
      <4>1. l \in h \/ \E j \in i + 1 .. Len(out) : AnswersRelease(out[j], l)
        BY <1>1, <1>4, <1>9, <2>1
      <4>2. \A j \in i + 1 .. Len(out) : j \in i + 1 .. Len(o) /\ o[j] = out[j]
        BY <1>1, <2>1
      <4>3. l \in h => l \in k
        BY <3>2
      <4> QED
        BY <4>1, <4>2, <4>3
    <3> QED
      BY <3>1, <3>2
  <2>2. CASE i \notin 1 .. Len(out)
    BY <1>2, <1>9, <2>2
  <2> QED
    BY <2>1, <2>2
<1> QED
  BY <1>6, <1>7, <1>8, <1>9

(* The client reads a reply: GRANTED makes it the owner, unless it has     *)
(* sent RELEASE since, and then it is the holder.                          *)
LEMMA ReplyRead ==
  ASSUME NEW in, NEW out \in Seq(Reply), out # <<>>, NEW own, NEW rel, NEW h,
         Sound(in, out, own, rel, h)
  PROVE  Sound(in, Tail(out),
               own \cup ({l \in {Head(out).lock} : Head(out).kind = "GRANTED"} \ rel),
               rel \ {l \in {Head(out).lock} : Head(out).kind \in {"OK", "NOT_HELD"}}, h)
<1> DEFINE o == Tail(out)
           more == own \cup ({l \in {Head(out).lock} : Head(out).kind = "GRANTED"} \ rel)
           less == rel \ {l \in {Head(out).lock} : Head(out).kind \in {"OK", "NOT_HELD"}}
<1>1. /\ Len(o) = Len(out) - 1 /\ Len(out) \in Nat /\ 1 \in 1 .. Len(out) /\ Head(out) = out[1]
      /\ \A i \in 1 .. Len(o) : o[i] = out[i + 1] /\ i + 1 \in 1 .. Len(out) /\ i + 1 # 1
  BY HeadTailProperties, LenProperties, EmptySeq
<1>2. /\ \A l : l \in more <=> l \in own \/ (IsGrant(out[1], l) /\ l \notin rel)
      /\ \A l : l \in less <=> l \in rel /\ ~AnswersRelease(out[1], l)
  BY <1>1 DEF IsGrant, AnswersRelease
<1> HIDE DEF o, more, less
<1> SUFFICES ASSUME NEW l \in Locks
             PROVE  /\ l \in more => l \in h /\ l \notin less
                    /\ \A i \in 1 .. Len(in) : Releases(in[i], l) =>
                         /\ l \in less
                         /\ \A j \in 1 .. Len(in) : Releases(in[j], l) => j = i
                         /\ \A j \in 1 .. Len(o) : ~AnswersRelease(o[j], l)
                    /\ \A i \in 1 .. Len(o) : AnswersRelease(o[i], l) =>
                         /\ l \in less
                         /\ \A j \in 1 .. Len(o) : AnswersRelease(o[j], l) => j = i
                    /\ \A i \in 1 .. Len(o) : IsGrant(o[i], l) =>
                         l \in h \/ \E j \in i + 1 .. Len(o) : AnswersRelease(o[j], l)
  BY DEF Sound, o, more, less
<1>3. /\ l \in own => l \in h /\ l \notin rel
      /\ \A i \in 1 .. Len(in) : Releases(in[i], l) =>
           /\ l \in rel
           /\ \A j \in 1 .. Len(in) : Releases(in[j], l) => j = i
           /\ \A j \in 1 .. Len(out) : ~AnswersRelease(out[j], l)
      /\ \A i \in 1 .. Len(out) : AnswersRelease(out[i], l) =>
           /\ l \in rel
           /\ \A j \in 1 .. Len(out) : AnswersRelease(out[j], l) => j = i
      /\ \A i \in 1 .. Len(out) : IsGrant(out[i], l) =>
           l \in h \/ \E j \in i + 1 .. Len(out) : AnswersRelease(out[j], l)
  BY DEF Sound
<1>4. l \in more => l \in h /\ l \notin less
  <2>1. CASE l \in own
    BY <1>2, <1>3, <2>1
  <2>2. CASE IsGrant(out[1], l) /\ l \notin rel
    <3>1. \A j \in 1 .. Len(out) : ~AnswersRelease(out[j], l)
      BY <1>3, <2>2
    <3>2. \A j \in 1 + 1 .. Len(out) : j \in 1 .. Len(out)
      BY <1>1
    <3> QED
      BY <1>1, <1>2, <1>3, <2>2, <3>1, <3>2
  <2> QED
    BY <1>2, <2>1, <2>2
<1>5. ASSUME NEW i \in 1 .. Len(in), Releases(in[i], l)
      PROVE  /\ l \in less
             /\ \A j \in 1 .. Len(in) : Releases(in[j], l) => j = i
             /\ \A j \in 1 .. Len(o) : ~AnswersRelease(o[j], l)
  <2>1. /\ l \in rel
        /\ \A j \in 1 .. Len(in) : Releases(in[j], l) => j = i
        /\ \A j \in 1 .. Len(out) : ~AnswersRelease(out[j], l)
    BY <1>3, <1>5
  <2> QED
    BY <1>1, <1>2, <2>1
<1>6. ASSUME NEW i \in 1 .. Len(o), AnswersRelease(o[i], l)
      PROVE  l \in less /\ \A j \in 1 .. Len(o) : AnswersRelease(o[j], l) => j = i
  <2>1. i + 1 \in 1 .. Len(out) /\ i + 1 # 1 /\ AnswersRelease(out[i + 1], l)
    BY <1>1, <1>6
  <2>2. l \in rel /\ \A j \in 1 .. Len(out) : AnswersRelease(out[j], l) => j = i + 1
    BY <1>3, <2>1
  <2>3. ASSUME NEW j \in 1 .. Len(o), AnswersRelease(o[j], l) PROVE j = i
    BY <1>1, <2>2, <2>3
  <2> QED
    BY <1>1, <1>2, <2>1, <2>2, <2>3
<1>7. ASSUME NEW i \in 1 .. Len(o), IsGrant(o[i], l)
      PROVE  l \in h \/ \E j \in i + 1 .. Len(o) : AnswersRelease(o[j], l)
  <2>1. l \in h \/ \E j \in (i + 1) + 1 .. Len(out) : AnswersRelease(out[j], l)
    BY <1>1, <1>3, <1>7
  <2>2. ASSUME NEW j \in (i + 1) + 1 .. Len(out), AnswersRelease(out[j], l)
        PROVE  j - 1 \in i + 1 .. Len(o) /\ AnswersRelease(o[j - 1], l)
    <3>1. j - 1 \in i + 1 .. Len(o) /\ j - 1 \in 1 .. Len(o) /\ (j - 1) + 1 = j
      BY <1>1
    <3> QED
      BY <1>1, <2>2, <3>1
  <2> QED
    BY <2>1, <2>2
<1> QED
  BY <1>4, <1>5, <1>6, <1>7

(* The client sends a line. With a RELEASE it gives the lock up, and it    *)
(* has no other RELEASE of the lock on the way.                            *)
LEMMA LineSent ==
  ASSUME NEW in \in Seq(Line), NEW out, NEW own, NEW rel, NEW h, NEW r \in Line,
         NEW gives, \A l \in Locks : l \in gives <=> Releases(r, l),
         gives \cap rel = {},
         Sound(in, out, own, rel, h)
  PROVE  Sound(Append(in, r), out, own \ gives, rel \cup gives, h)
<1> DEFINE t == Append(in, r)
<1>1. /\ Len(t) = Len(in) + 1 /\ Len(in) \in Nat /\ t[Len(in) + 1] = r
      /\ \A i \in 1 .. Len(in) : t[i] = in[i]
  BY AppendProperties, LenProperties
<1>2. \A i \in 1 .. Len(t) : i \in 1 .. Len(in) \/ (i = Len(in) + 1 /\ t[i] = r)
  BY <1>1
<1> HIDE DEF t
<1> SUFFICES ASSUME NEW l \in Locks
             PROVE  /\ l \in own \ gives => l \in h /\ l \notin rel \cup gives
                    /\ \A i \in 1 .. Len(t) : Releases(t[i], l) =>
                         /\ l \in rel \cup gives
                         /\ \A j \in 1 .. Len(t) : Releases(t[j], l) => j = i
                         /\ \A j \in 1 .. Len(out) : ~AnswersRelease(out[j], l)
                    /\ \A i \in 1 .. Len(out) : AnswersRelease(out[i], l) =>
                         /\ l \in rel \cup gives
                         /\ \A j \in 1 .. Len(out) : AnswersRelease(out[j], l) => j = i
                    /\ \A i \in 1 .. Len(out) : IsGrant(out[i], l) =>
                         l \in h \/ \E j \in i + 1 .. Len(out) : AnswersRelease(out[j], l)
  BY DEF Sound, t
<1>3. /\ l \in own => l \in h /\ l \notin rel
      /\ \A i \in 1 .. Len(in) : Releases(in[i], l) =>
           /\ l \in rel
           /\ \A j \in 1 .. Len(in) : Releases(in[j], l) => j = i
           /\ \A j \in 1 .. Len(out) : ~AnswersRelease(out[j], l)
      /\ \A i \in 1 .. Len(out) : AnswersRelease(out[i], l) =>
           /\ l \in rel
           /\ \A j \in 1 .. Len(out) : AnswersRelease(out[j], l) => j = i
      /\ \A i \in 1 .. Len(out) : IsGrant(out[i], l) =>
           l \in h \/ \E j \in i + 1 .. Len(out) : AnswersRelease(out[j], l)
  BY DEF Sound
<1>4. ASSUME NEW i \in 1 .. Len(t), Releases(t[i], l)
      PROVE  /\ l \in rel \cup gives
             /\ \A j \in 1 .. Len(t) : Releases(t[j], l) => j = i
             /\ \A j \in 1 .. Len(out) : ~AnswersRelease(out[j], l)
  <2>1. CASE Releases(r, l)
    <3>1. l \in gives /\ l \notin rel
      BY <2>1
    <3>2. /\ \A j \in 1 .. Len(in) : ~Releases(in[j], l)
          /\ \A j \in 1 .. Len(out) : ~AnswersRelease(out[j], l)
      BY <1>3, <3>1
    <3>3. \A j \in 1 .. Len(t) : Releases(t[j], l) => j = Len(in) + 1
      BY <1>1, <1>2, <3>2
    <3> QED
      BY <1>4, <3>1, <3>2, <3>3
  <2>2. CASE ~Releases(r, l)
    <3>1. \A j \in 1 .. Len(t) : Releases(t[j], l) => j \in 1 .. Len(in) /\ Releases(in[j], l)
      BY <1>1, <1>2, <2>2
    <3> QED
      BY <1>3, <1>4, <3>1
  <2> QED
    BY <2>1, <2>2
<1> QED
  BY <1>3, <1>4

(* A reply is written behind those on the way, whether or not the client   *)
(* reads the oldest of them meanwhile.                                     *)
LEMMA TailAppend ==
  ASSUME NEW S, NEW q \in Seq(S), q # <<>>, NEW e \in S
  PROVE  /\ Append(Tail(q), e) = Tail(Append(q, e))
         /\ Head(Append(q, e)) = Head(q)
BY HeadTailAppend
=============================================================================
