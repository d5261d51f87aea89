-------------------------- MODULE EventServerProofs --------------------------
(***************************************************************************)
(* The event loop keeps its table, its slab and its buffers in agreement,  *)
(* leaves no reply in a buffer without an event to come, and implements    *)
(* the lock service its clients see, for any number of connections, locks, *)
(* lines and replies on the way.                                           *)
(***************************************************************************)
EXTENDS EventServer, LockClientsProofs, FiniteSetTheorems

-----------------------------------------------------------------------------
(* Retain *)

(* The positions of s whose elements are in S, and how many of them there  *)
(* are up to i.                                                            *)
Kept(s, S) == {i \in DOMAIN s : s[i] \in S}
Rank(s, S, i) == Cardinality({j \in Kept(s, S) : j <= i})
Nth(s, S, k) == CHOOSE i \in Kept(s, S) : Rank(s, S, i) = k

LEMMA RetainIs ==
  ASSUME NEW s, NEW S
  PROVE  Retain(s, S) = [k \in 1 .. Cardinality(Kept(s, S)) |-> s[Nth(s, S, k)]]
BY DEF Retain, Kept, Rank, Nth

(* The positions are counted without a gap, and none twice.                *)
LEMMA Counted ==
  ASSUME NEW T, NEW s \in Seq(T), NEW S
  PROVE  /\ IsFiniteSet(Kept(s, S)) /\ Kept(s, S) \subseteq 1 .. Len(s)
         /\ Cardinality(Kept(s, S)) \in Nat
         /\ \A i \in Kept(s, S) : Rank(s, S, i) \in 1 .. Cardinality(Kept(s, S))
         /\ \A i, j \in Kept(s, S) : Rank(s, S, i) = Rank(s, S, j) => i = j
         /\ \A k \in 1 .. Cardinality(Kept(s, S)) :
              Nth(s, S, k) \in Kept(s, S) /\ Rank(s, S, Nth(s, S, k)) = k
         /\ \A i \in Kept(s, S) : Nth(s, S, Rank(s, S, i)) = i
<1> DEFINE K == Kept(s, S)
           N == Cardinality(K)
           UpTo(i) == {j \in K : j <= i}
<1>1. /\ Len(s) \in Nat /\ K \subseteq 1 .. Len(s) /\ IsFiniteSet(K) /\ N \in Nat
  <2>1. Len(s) \in Nat /\ K \subseteq 1 .. Len(s)
    BY LenProperties DEF Kept
  <2>2. IsFiniteSet(1 .. Len(s))
    BY <2>1, FS_Interval
  <2>3. IsFiniteSet(K)
    BY <2>1, <2>2, FS_Subset
  <2> QED
    BY <2>1, <2>3, FS_CardinalityType
<1>2. \A i : Rank(s, S, i) = Cardinality(UpTo(i))
  BY DEF Rank
<1> HIDE DEF K
<1>3. \A i : IsFiniteSet(UpTo(i)) /\ Cardinality(UpTo(i)) \in Nat /\ Cardinality(UpTo(i)) <= N
  <2> TAKE i
  <2>1. UpTo(i) \in SUBSET K
    OBVIOUS
  <2>2. IsFiniteSet(UpTo(i)) /\ Cardinality(UpTo(i)) <= N
    BY <1>1, <2>1, FS_Subset
  <2> QED
    BY <2>2, FS_CardinalityType
<1>4. \A i \in K : Cardinality(UpTo(i)) >= 1
  <2> TAKE i \in K
  <2>1. i \in UpTo(i)
    BY <1>1
  <2>2. IsFiniteSet(UpTo(i)) /\ Cardinality(UpTo(i)) \in Nat
    BY <1>3
  <2> HIDE DEF UpTo
  <2>3. Cardinality(UpTo(i)) # 0
    BY <2>1, <2>2, FS_EmptySet
  <2> QED
    BY <2>2, <2>3
<1>5. \A i, j \in K : i < j => Cardinality(UpTo(i)) # Cardinality(UpTo(j))
  <2> SUFFICES ASSUME NEW i \in K, NEW j \in K, i < j,
                      Cardinality(UpTo(i)) = Cardinality(UpTo(j))
               PROVE  FALSE
    OBVIOUS
  <2>1. UpTo(i) \subseteq UpTo(j) /\ j \in UpTo(j) /\ j \notin UpTo(i)
    <3>1. \A k \in K : k \in Int
      BY <1>1
    <3>2. \A k \in K : k <= i => k <= j
      BY <3>1
    <3> QED
      BY <3>1, <3>2
  <2>2. UpTo(j) = UpTo(i)
    BY <1>3, <2>1, FS_Subset
  <2> QED
    BY <2>1, <2>2
<1>6. \A i, j \in K : Cardinality(UpTo(i)) = Cardinality(UpTo(j)) => i = j
  <2> SUFFICES ASSUME NEW i \in K, NEW j \in K, i # j,
                      Cardinality(UpTo(i)) = Cardinality(UpTo(j))
               PROVE  FALSE
    OBVIOUS
  <2>1. i < j \/ j < i
    BY <1>1
  <2> QED
    BY <1>5, <2>1
<1>7. \A i \in K : Cardinality(UpTo(i)) \in 1 .. N
  <2> HIDE DEF UpTo, N
  <2> QED
    BY <1>1, <1>3, <1>4
<1> DEFINE rank == [i \in K |-> Cardinality(UpTo(i))]
<1>8. rank \in Injection(K, 1 .. N)
  BY <1>6, <1>7 DEF Injection, IsInjective
<1>9. rank \in Surjection(K, 1 .. N)
  <2>1. IsFiniteSet(1 .. N) /\ Cardinality(1 .. N) = N
    BY <1>1, FS_Interval
  <2> QED
    BY <1>8, <2>1, FS_Injection
<1>10. \A k \in 1 .. N : \E i \in K : Cardinality(UpTo(i)) = k
  BY <1>9 DEF Surjection
<1>11. \A k \in 1 .. N : Nth(s, S, k) \in K /\ Cardinality(UpTo(Nth(s, S, k))) = k
  <2> HIDE DEF UpTo
  <2> TAKE k \in 1 .. N
  <2>1. Nth(s, S, k) = CHOOSE i \in K : Cardinality(UpTo(i)) = k
    BY <1>2 DEF Nth, K
  <2> QED
    BY <1>10, <2>1
<1>12. \A i \in K : Nth(s, S, Cardinality(UpTo(i))) = i
  <2> HIDE DEF UpTo, N
  <2> QED
    BY <1>6, <1>7, <1>11
<1> HIDE DEF UpTo, N, rank
<1> QED
  BY <1>1, <1>2, <1>6, <1>7, <1>11, <1>12 DEF K, N

(* What Retain returns: the elements of s that are in S, in a sequence.    *)
LEMMA Retained ==
  ASSUME NEW T, NEW s \in Seq(T), NEW S
  PROVE  /\ Retain(s, S) \in Seq(T)
         /\ Range(Retain(s, S)) = Range(s) \cap S
         /\ IsInjective(s) => IsInjective(Retain(s, S))
<1> DEFINE K == Kept(s, S)
           N == Cardinality(K)
           r == Retain(s, S)
           nth(k) == Nth(s, S, k)
<1>1. /\ N \in Nat
      /\ \A i \in K : i \in 1 .. Len(s) /\ s[i] \in S /\ s[i] \in T
      /\ \A i \in 1 .. Len(s) : s[i] \in S => i \in K
      /\ DOMAIN s = 1 .. Len(s)
  <2>1. DOMAIN s = 1 .. Len(s) /\ \A i \in 1 .. Len(s) : s[i] \in T
    BY LenProperties
  <2>2. N \in Nat
    BY Counted
  <2> QED
    BY <2>1, <2>2 DEF Kept
<1>2. /\ \A k \in 1 .. N : nth(k) \in K /\ Rank(s, S, nth(k)) = k
      /\ \A i \in K : Rank(s, S, i) \in 1 .. N /\ nth(Rank(s, S, i)) = i
  BY Counted
<1>3. r = [k \in 1 .. N |-> s[nth(k)]]
  BY RetainIs
<1> HIDE DEF K, N, r, nth
<1>4. r \in Seq(T)
  <2>1. r \in [1 .. N -> T]
    BY <1>1, <1>2, <1>3
  <2> QED
    BY <1>1, <2>1, SeqDef
<1>5. Range(r) = Range(s) \cap S
  <2>1. ASSUME NEW x \in Range(r) PROVE x \in Range(s) \cap S
    <3>1. PICK k \in 1 .. N : x = s[nth(k)]
      BY <1>3 DEF Range
    <3> QED
      BY <1>1, <1>2, <3>1 DEF Range
  <2>2. ASSUME NEW x \in Range(s) \cap S PROVE x \in Range(r)
    <3>1. PICK i \in K : x = s[i]
      BY <1>1 DEF Range
    <3>2. Rank(s, S, i) \in 1 .. N /\ r[Rank(s, S, i)] = x
      BY <1>2, <1>3, <3>1
    <3> QED
      BY <1>3, <3>2 DEF Range
  <2> QED
    BY <2>1, <2>2
<1>6. ASSUME IsInjective(s) PROVE IsInjective(r)
  <2> SUFFICES ASSUME NEW j \in 1 .. N, NEW k \in 1 .. N, s[nth(j)] = s[nth(k)]
               PROVE  j = k
    BY <1>3 DEF IsInjective
  <2>1. nth(j) = nth(k)
    BY <1>1, <1>2, <1>6 DEF IsInjective
  <2> QED
    BY <1>2, <2>1
<1> QED
  BY <1>4, <1>5, <1>6 DEF r

(* To retain everybody but e, who is there once at most, is to remove the  *)
(* first e.                                                                *)
LEMMA RetainOthers ==
  ASSUME NEW T, NEW s \in Seq(T), IsInjective(s), NEW e
  PROVE  Retain(s, T \ {e}) = RemoveFirst(s, e)
<1> DEFINE S == T \ {e}
           n == Len(s)
           UpTo(i) == {j \in Kept(s, S) : j <= i}
<1>1. n \in Nat /\ DOMAIN s = 1 .. n /\ (\A i \in 1 .. n : s[i] \in T)
      /\ s = [i \in 1 .. n |-> s[i]]
  BY LenProperties
<1> HIDE DEF n
<1>2. CASE \A i \in 1 .. n : s[i] # e
  <2>1. Kept(s, S) = 1 .. n
    BY <1>1, <1>2 DEF Kept
  <2>2. Cardinality(1 .. n) = n
    BY <1>1, FS_Interval
  <2>3. ASSUME NEW k \in 1 .. n PROVE Nth(s, S, k) = k
    <3>1. Rank(s, S, k) = k
      <4>1. UpTo(k) = 1 .. k
        BY <1>1, <2>1
      <4>2. Cardinality(1 .. k) = k
        BY FS_Interval
      <4> QED
        BY <4>1, <4>2 DEF Rank
    <3>2. Nth(s, S, Rank(s, S, k)) = k
      BY <2>1, <2>3, Counted
    <3> QED
      BY <3>1, <3>2
  <2>4. Retain(s, S) = [k \in 1 .. n |-> s[k]]
    BY <2>1, <2>2, <2>3, RetainIs
  <2>5. RemoveFirst(s, e) = s
    BY <1>2 DEF RemoveFirst, n
  <2> QED
    BY <1>1, <2>4, <2>5
<1>3. CASE \E i \in 1 .. n : s[i] = e
  <2>1. PICK p \in 1 .. n : s[p] = e
    BY <1>3
  <2>2. \A i \in 1 .. n : i # p => s[i] # e
    BY <1>1, <2>1 DEF IsInjective
  <2>3. Kept(s, S) = (1 .. n) \ {p}
    BY <1>1, <2>1, <2>2 DEF Kept
  <2>4. Cardinality(Kept(s, S)) = n - 1
    <3>1. IsFiniteSet(1 .. n) /\ Cardinality(1 .. n) = n
      BY <1>1, FS_Interval
    <3> QED
      BY <2>3, <3>1, FS_RemoveElement
  <2>5. ASSUME NEW k \in 1 .. n - 1
        PROVE  Nth(s, S, k) = IF k < p THEN k ELSE k + 1
    <3> DEFINE i == IF k < p THEN k ELSE k + 1
    <3>1. i \in Kept(s, S) /\ i \in 1 .. n
      <4>1. i \in 1 .. n /\ i # p
        BY <1>1, <2>1
      <4> QED
        BY <2>3, <4>1
    <3>2. Rank(s, S, i) = k
      <4>1. CASE k < p
        <5>1. UpTo(i) = 1 .. k
          <6>1. i = k
            BY <4>1
          <6> HIDE DEF i
          <6>2. \A j : j \in UpTo(i) <=> j \in (1 .. n) \ {p} /\ j <= k
            BY <2>3, <6>1
          <6>3. n \in Nat /\ p \in 1 .. n /\ k < p /\ k \in 1 .. n - 1
            BY <1>1, <2>1, <4>1
          <6> HIDE DEF UpTo
          <6>4. \A j : j \in UpTo(i) <=> j \in 1 .. k
            BY <6>2, <6>3
          <6> QED
            BY <6>4
        <5>2. Cardinality(1 .. k) = k
          BY FS_Interval
        <5> QED
          BY <5>1, <5>2 DEF Rank
      <4>2. CASE ~(k < p)
        <5>1. UpTo(i) = (1 .. k + 1) \ {p}
          <6>1. i = k + 1
            BY <4>2
          <6> HIDE DEF i
          <6>2. \A j : j \in UpTo(i) <=> j \in (1 .. n) \ {p} /\ j <= k + 1
            BY <2>3, <6>1
          <6>3. n \in Nat /\ p \in 1 .. n /\ ~(k < p) /\ k \in 1 .. n - 1
            BY <1>1, <2>1, <4>2
          <6> HIDE DEF UpTo
          <6>4. \A j : j \in UpTo(i) <=> j \in (1 .. k + 1) \ {p}
            BY <6>2, <6>3
          <6> QED
            BY <6>4
        <5>2. IsFiniteSet(1 .. k + 1) /\ Cardinality(1 .. k + 1) = k + 1
          BY FS_Interval
        <5>3. p \in 1 .. k + 1
          BY <2>1, <4>2
        <5>4. Cardinality((1 .. k + 1) \ {p}) = k
          <6> DEFINE m == k + 1
          <6>1. m - 1 = k
            BY <1>1
          <6> HIDE DEF m
          <6>2. Cardinality((1 .. m) \ {p}) = m - 1
            BY <5>2, <5>3, FS_RemoveElement, Zenon DEF m
          <6> QED
            BY <6>1, <6>2 DEF m
        <5> QED
          BY <5>1, <5>4 DEF Rank
      <4> QED
        BY <4>1, <4>2
    <3> HIDE DEF i
    <3>3. Nth(s, S, Rank(s, S, i)) = i
      BY <3>1, Counted
    <3> QED
      BY <3>2, <3>3 DEF i
  <2>6. Retain(s, S) = [k \in 1 .. n - 1 |-> IF k < p THEN s[k] ELSE s[k + 1]]
    BY <2>4, <2>5, RetainIs
  <2>7. SelectInSeq(s, LAMBDA v : v = e) = p
    <3>1. {i \in 1 .. n : s[i] = e} = {p}
      BY <2>1, <2>2
    <3>2. Min({p}) = p
      BY <2>1 DEF Min
    <3> QED
      BY <3>1, <3>2 DEF SelectInSeq, n
  <2>8. RemoveFirst(s, e) = SubSeq(s, 1, p - 1) \o SubSeq(s, p + 1, n)
    BY <2>1, <2>7 DEF RemoveFirst, RemoveAt, n
  <2>9. SubSeq(s, 1, p - 1) \o SubSeq(s, p + 1, n)
          = [k \in 1 .. n - 1 |-> IF k < p THEN s[k] ELSE s[k + 1]]
    <3> DEFINE a == SubSeq(s, 1, p - 1)
               b == SubSeq(s, p + 1, n)
               ab == a \o b
    <3>1. /\ a \in Seq(T) /\ Len(a) = p - 1 /\ \A i \in 1 .. p - 1 : a[i] = s[i]
      BY <1>1, <2>1, SubSeqProperties
    <3>2. /\ b \in Seq(T) /\ Len(b) = n - p /\ \A i \in 1 .. n - p : b[i] = s[p + i]
      BY <1>1, <2>1, SubSeqProperties
    <3> HIDE DEF a, b
    <3>3. /\ ab \in Seq(T) /\ Len(ab) = n - 1
          /\ \A i \in 1 .. n - 1 : ab[i] = IF i <= p - 1 THEN a[i] ELSE b[i - (p - 1)]
      BY <1>1, <2>1, <3>1, <3>2, ConcatProperties
    <3> HIDE DEF ab
    <3>4. ASSUME NEW i \in 1 .. n - 1 PROVE ab[i] = IF i < p THEN s[i] ELSE s[i + 1]
      <4>1. CASE i < p
        <5>1. i \in 1 .. p - 1
          BY <1>1, <2>1, <4>1
        <5>2. a[i] = s[i]
          BY <3>1, <5>1
        <5>3. ab[i] = a[i]
          BY <1>1, <2>1, <3>3, <4>1
        <5> QED
          BY <4>1, <5>2, <5>3
      <4>2. CASE ~(i < p)
        <5>1. i - (p - 1) \in 1 .. n - p /\ p + (i - (p - 1)) = i + 1
          BY <1>1, <2>1, <4>2
        <5> QED
          <6>1. ab[i] = b[i - (p - 1)]
            BY <1>1, <2>1, <3>3, <4>2
          <6>2. b[i - (p - 1)] = s[p + (i - (p - 1))]
            BY <3>2, <5>1
          <6> QED
            BY <4>2, <5>1, <6>1, <6>2
      <4> QED
        BY <4>1, <4>2
    <3>5. DOMAIN ab = 1 .. n - 1 /\ ab = [i \in 1 .. n - 1 |-> ab[i]]
      BY <3>3, LenProperties
    <3> QED
      BY <3>4, <3>5 DEF ab, a, b
  <2> QED
    BY <2>6, <2>8, <2>9
<1> QED
  BY <1>2, <1>3

-----------------------------------------------------------------------------
(* Promotion                                                               *)

(* A client that is granted locks.                                         *)
LEMMA GrantsTyped ==
  ASSUME NEW ls \in Seq(Locks)
  PROVE  /\ Grants(ls) \in Seq(Reply) /\ Len(Grants(ls)) = Len(ls)
         /\ \A i \in 1 .. Len(ls) : Grants(ls)[i] = [kind |-> "GRANTED", lock |-> ls[i]]
<1> DEFINE n == Len(ls)
           g == Grants(ls)
<1>1. n \in Nat /\ \A i \in 1 .. n : ls[i] \in Locks
  BY LenProperties
<1>2. g = [i \in 1 .. n |-> [kind |-> "GRANTED", lock |-> ls[i]]]
  BY DEF Grants
<1> HIDE DEF n, g
<1>3. \A i \in 1 .. n : [kind |-> "GRANTED", lock |-> ls[i]] \in Reply
  BY <1>1 DEF Reply
<1>4. g \in [1 .. n -> Reply]
  BY <1>2, <1>3
<1>5. g \in Seq(Reply) /\ Len(g) = n
  <2>1. g \in Seq(Reply)
    BY <1>1, <1>4, SeqDef
  <2>2. Len(g) = n
    BY <1>1, <1>2
  <2> QED
    BY <2>1, <2>2
<1> QED
  BY <1>2, <1>5 DEF n, g

LEMMA PromotedTyped ==
  ASSUME NEW s \in ClientState, NEW ls \in Seq(Locks)
  PROVE  /\ Promoted(s, ls) \in ClientState
         /\ Promoted(s, ls).lines = s.lines /\ Promoted(s, ls).waiting_for = None
         /\ Promoted(s, ls).held = s.held \o ls /\ Promoted(s, ls).out = s.out \o Grants(ls)
         /\ Promoted(s, ls).wants_write /\ Promoted(s, ls).writable
<1> DEFINE g == Grants(ls)
<1>1. g \in Seq(Reply)
  BY GrantsTyped
<1>2. s.held \in Seq(Locks) /\ s.out \in Seq(Reply)
  BY DEF ClientState
<1>3. s.held \o ls \in Seq(Locks)
  BY <1>2, ConcatProperties
<1>4. s.out \o g \in Seq(Reply)
  BY <1>1, <1>2, ConcatProperties
<1> HIDE DEF g
<1>5. Promoted(s, ls) = [s EXCEPT !.waiting_for = None, !.held = s.held \o ls,
                                  !.out = s.out \o g, !.wants_write = TRUE, !.writable = TRUE]
  BY DEF Promoted, g
<1>6. Promoted(s, ls) = [lines |-> s.lines, out |-> s.out \o g, waiting_for |-> None,
                         held |-> s.held \o ls, wants_write |-> TRUE, writable |-> TRUE]
  BY <1>5 DEF ClientState
<1> QED
  BY <1>3, <1>4, <1>6 DEF ClientState, g

(* What promote_and_notify gives to d: of the locks in names, those whose  *)
(* queue has d at the front.                                               *)
Gets(names, q, d) == Retain(names, {l \in Locks : Service!First(q[l]) = d})

(* What promote_and_notify does when everybody in the queues is in the     *)
(* slab: the oldest waiter of every lock in names becomes the holder.      *)
Passes(names, q, slab, s) ==
  /\ holder' = [l \in Locks |-> IF l \in Range(names) THEN Service!First(q[l]) ELSE holder[l]]
  /\ waiters' = [l \in Locks |-> IF l \in Range(names) THEN Service!Rest(q[l]) ELSE q[l]]
  /\ client' = [d \in Conns |-> IF d \in slab /\ Gets(names, q, d) # <<>>
                                THEN Promoted(s[d], Gets(names, q, d)) ELSE s[d]]
  /\ ready' = (ready \cap slab)
              \cup Rearmed({d \in slab : Gets(names, q, d) # <<>>}, TRUE)

LEMMA PromotionIs ==
  ASSUME NEW slab \in SUBSET Conns, NEW q \in [Locks -> Seq(Conns)],
         \A l \in Locks : Range(q[l]) \subseteq slab,
         NEW names \in Seq(Locks), NEW s,
         PromoteAndNotify(names, q, slab, s)
  PROVE  Passes(names, q, slab, s)
<1> DEFINE at(l) == SelectInSeq(q[l], LAMBDA d : d \in slab)
           next(l) == IF at(l) = 0 THEN None ELSE q[l][at(l)]
           rest(l) == IF at(l) = 0 THEN <<>> ELSE SubSeq(q[l], at(l) + 1, Len(q[l]))
           gets(d) == Retain(names, {l \in Locks : next(l) = d})
           granted == {d \in slab : gets(d) # <<>>}
<1>1. ASSUME NEW l \in Locks
      PROVE  next(l) = Service!First(q[l]) /\ rest(l) = Service!Rest(q[l])
  <2>1. /\ q[l] \in Seq(Conns) /\ Len(q[l]) \in Nat /\ DOMAIN q[l] = 1 .. Len(q[l])
    BY LenProperties
  <2>2. \A i \in 1 .. Len(q[l]) : q[l][i] \in slab
    BY <2>1 DEF Range
  <2>3. {i \in 1 .. Len(q[l]) : q[l][i] \in slab} = 1 .. Len(q[l])
    BY <2>2
  <2>4. at(l) = IF 1 .. Len(q[l]) # {} THEN Min(1 .. Len(q[l])) ELSE 0
    BY <2>3 DEF SelectInSeq
  <2>5. CASE q[l] = <<>>
    <3>1. 1 .. Len(q[l]) = {}
      BY <2>5
    <3>2. at(l) = 0
      BY <2>4, <3>1
    <3> HIDE DEF at
    <3> QED
      BY <2>5, <3>2 DEF Service!First, Service!Rest
  <2>6. CASE q[l] # <<>>
    <3>1. Len(q[l]) > 0 /\ 1 \in 1 .. Len(q[l]) /\ \A i \in 1 .. Len(q[l]) : 1 <= i
      BY <2>1, <2>6, EmptySeq
    <3>2. Min(1 .. Len(q[l])) = 1
      BY <2>1, <3>1 DEF Min
    <3>3. at(l) = 1
      BY <2>4, <3>1, <3>2
    <3>4. Tail(q[l]) = SubSeq(q[l], 2, Len(q[l]))
      BY <2>1, <2>6, TailIsSubSeq
    <3> HIDE DEF at
    <3> QED
      BY <2>6, <3>3, <3>4 DEF Service!First, Service!Rest
  <2> QED
    BY <2>5, <2>6
<1>2. /\ holder' = [l \in Locks |-> IF l \in Range(names) THEN next(l) ELSE holder[l]]
      /\ waiters' = [l \in Locks |-> IF l \in Range(names) THEN rest(l) ELSE q[l]]
      /\ client' = [d \in Conns |-> IF d \in granted THEN Promoted(s[d], gets(d)) ELSE s[d]]
      /\ ready' = (ready \cap slab) \cup Rearmed(granted, TRUE)
  BY DEF PromoteAndNotify
<1> HIDE DEF at, next, rest
<1>3. \A d : {l \in Locks : next(l) = d} = {l \in Locks : Service!First(q[l]) = d}
  BY <1>1
<1>4. \A d : gets(d) = Gets(names, q, d)
  BY <1>3 DEF Gets
<1> HIDE DEF gets
<1>5. granted = {d \in slab : Gets(names, q, d) # <<>>}
  BY <1>4
<1> HIDE DEF granted
<1>6. \A d \in Conns : d \in granted <=> d \in slab /\ Gets(names, q, d) # <<>>
  BY <1>5
<1> QED
  BY <1>1, <1>2, <1>4, <1>5, <1>6 DEF Passes

LEMMA GetsIs ==
  ASSUME NEW q, NEW names \in Seq(Locks), NEW d
  PROVE  /\ Gets(names, q, d) \in Seq(Locks)
         /\ Range(Gets(names, q, d)) = {l \in Range(names) : Service!First(q[l]) = d}
         /\ IsInjective(names) => IsInjective(Gets(names, q, d))
<1>1. Range(names) \subseteq Locks
  BY RangeOfSeq DEF Range
<1>2. {l \in Range(names) : Service!First(q[l]) = d}
        = Range(names) \cap {l \in Locks : Service!First(q[l]) = d}
  BY <1>1
<1> QED
  BY <1>2, Retained DEF Gets

(* The tables between the release of names and the promotion: nobody in    *)
(* the slab has these locks, everything else is as it should be.           *)
Promotable(names, q, slab, s) ==
  /\ IsInjective(names)
  /\ \A d \in slab : IsInjective(s[d].held)
  /\ \A d \in Conns, l \in Locks :
       IF l \in Range(names) THEN d \in slab => l \notin Range(s[d].held)
                             ELSE holder[l] = d <=> d \in slab /\ l \in Range(s[d].held)
  /\ \A l \in Locks :
       /\ Range(q[l]) \subseteq slab /\ IsInjective(q[l])
       /\ l \notin Range(names) /\ holder[l] \in Range(q[l]) \cup {None} => q[l] = <<>>
       /\ \A d \in slab : s[d].waiting_for = l => d \in Range(q[l])

(* Promotion leaves table, queues and clients in agreement.                *)
LEMMA PromotionKeeps ==
  ASSUME TypeOK,
         NEW slab \in SUBSET Conns, NEW q \in [Locks -> Seq(Conns)],
         NEW names \in Seq(Locks), NEW s \in [Conns -> ClientState],
         Promotable(names, q, slab, s), PromoteAndNotify(names, q, slab, s),
         clients' = slab
  PROVE  /\ holder' \in [Locks -> Conns \cup {None}]
         /\ waiters' \in [Locks -> Seq(Conns)]
         /\ client' \in [Conns -> ClientState]
         /\ ready' \subseteq slab
         /\ HoldersKnow' /\ QueuesLive'
<1> DEFINE gets(d) == Gets(names, q, d)
           first(l) == Service!First(q[l])
           rest(l) == Service!Rest(q[l])
<1>1. /\ holder' = [l \in Locks |-> IF l \in Range(names) THEN first(l) ELSE holder[l]]
      /\ waiters' = [l \in Locks |-> IF l \in Range(names) THEN rest(l) ELSE q[l]]
      /\ client' = [d \in Conns |-> IF d \in slab /\ gets(d) # <<>>
                                    THEN Promoted(s[d], gets(d)) ELSE s[d]]
      /\ ready' = (ready \cap slab) \cup Rearmed({d \in slab : gets(d) # <<>>}, TRUE)
  <2>1. \A l \in Locks : Range(q[l]) \subseteq slab
    BY DEF Promotable
  <2> QED
    BY <2>1, PromotionIs DEF Passes
<1>2. \A d : /\ gets(d) \in Seq(Locks) /\ IsInjective(gets(d))
             /\ Range(gets(d)) = {l \in Range(names) : first(l) = d}
  <2>1. IsInjective(names)
    BY DEF Promotable
  <2> QED
    BY <2>1, GetsIs
<1>3. ASSUME NEW l \in Locks
      PROVE  /\ first(l) \in slab \cup {None} /\ rest(l) \in Seq(Conns)
             /\ Range(rest(l)) = Range(q[l]) \ {first(l)} /\ IsInjective(rest(l))
             /\ first(l) = None => q[l] = <<>>
             /\ q[l] = <<>> => first(l) = None /\ rest(l) = <<>>
  <2>1. q[l] \in Seq(Conns) /\ Range(q[l]) \subseteq slab /\ IsInjective(q[l])
    BY DEF Promotable
  <2>2. CASE q[l] = <<>>
    <3>1. first(l) = None /\ rest(l) = <<>>
      BY <2>2 DEF Service!First, Service!Rest
    <3>2. <<>> \in Seq(Conns)
      BY EmptySeq
    <3> HIDE DEF first, rest
    <3> QED
      BY <2>2, <3>1, <3>2, EmptyQueue
  <2>3. CASE q[l] # <<>>
    <3>1. first(l) = Head(q[l]) /\ rest(l) = Tail(q[l])
      BY <2>3 DEF Service!First, Service!Rest
    <3>2. /\ Head(q[l]) \in Range(q[l]) /\ Tail(q[l]) \in Seq(Conns)
          /\ Range(Tail(q[l])) = Range(q[l]) \ {Head(q[l])} /\ IsInjective(Tail(q[l]))
      BY <2>1, <2>3, TailQueue
    <3>3. Head(q[l]) # None
      BY <2>1, <3>2, ClientsAssumption
    <3> HIDE DEF first, rest
    <3> QED
      BY <2>1, <2>3, <3>1, <3>2, <3>3
  <2> QED
    BY <2>2, <2>3
<1> HIDE DEF first, rest, gets
<1>4. \A l \in Locks : /\ holder'[l] = IF l \in Range(names) THEN first(l) ELSE holder[l]
                       /\ waiters'[l] = IF l \in Range(names) THEN rest(l) ELSE q[l]
  BY <1>1
<1>5. ASSUME NEW d \in Conns
      PROVE  /\ client'[d] \in ClientState
             /\ d \in slab => /\ Range(client'[d].held) = Range(s[d].held) \cup Range(gets(d))
                              /\ IsInjective(client'[d].held)
                              /\ gets(d) # <<>> => client'[d].waiting_for = None
                              /\ gets(d) = <<>> => client'[d] = s[d]
  <2>1. CASE d \in slab /\ gets(d) # <<>>
    <3>1. client'[d] = Promoted(s[d], gets(d))
      BY <1>1, <2>1
    <3>2. gets(d) \in Seq(Locks) /\ s[d] \in ClientState
      BY <1>2
    <3>3. /\ client'[d] \in ClientState /\ client'[d].waiting_for = None
          /\ client'[d].held = s[d].held \o gets(d)
      BY <3>1, <3>2, PromotedTyped
    <3>4. s[d].held \in Seq(Locks) /\ IsInjective(s[d].held)
      BY <2>1, <3>2 DEF ClientState, Promotable
    <3>5. Range(s[d].held) \cap Range(gets(d)) = {}
      <4>1. Range(names) \subseteq Locks
        BY RangeOfSeq
      <4> QED
        BY <1>2, <2>1, <4>1 DEF Promotable
    <3> QED
      BY <1>2, <2>1, <3>2, <3>3, <3>4, <3>5, ConcatQueue
  <2>2. CASE d \in slab /\ gets(d) = <<>>
    <3>1. client'[d] = s[d]
      BY <1>1, <2>2
    <3>2. Range(gets(d)) = {}
      BY <2>2, EmptyQueue
    <3> QED
      BY <2>2, <3>1, <3>2 DEF Promotable
  <2>3. CASE d \notin slab
    BY <1>1, <2>3
  <2> QED
    BY <2>1, <2>2, <2>3
<1>6. holder' \in [Locks -> Conns \cup {None}]
  <2>1. \A l \in Locks : holder'[l] \in Conns \cup {None}
    BY <1>3, <1>4 DEF TypeOK
  <2> QED
    BY <1>1, <2>1
<1>7. waiters' \in [Locks -> Seq(Conns)]
  <2>1. \A l \in Locks : waiters'[l] \in Seq(Conns)
    BY <1>3, <1>4
  <2> QED
    BY <1>1, <2>1
<1>8. client' \in [Conns -> ClientState]
  BY <1>1, <1>5
<1>9. ready' \subseteq slab
  BY <1>1 DEF Rearmed
<1>10. HoldersKnow'
  <2>1. ASSUME NEW d \in Conns, NEW l \in Locks
        PROVE  holder'[l] = d <=> d \in slab /\ l \in Range(client'[d].held)
    <3>1. l \in Range(gets(d)) <=> l \in Range(names) /\ first(l) = d
      BY <1>2
    <3>2. d \in slab => (l \in Range(client'[d].held) <=> l \in Range(s[d].held) \/ l \in Range(gets(d)))
      BY <1>5
    <3>3. CASE l \in Range(names)
      <4>1. holder'[l] = first(l) /\ (d \in slab => l \notin Range(s[d].held))
        BY <1>4, <3>3 DEF Promotable
      <4>2. first(l) = d => d \in slab
        BY <1>3, ClientsAssumption
      <4> QED
        BY <3>1, <3>2, <3>3, <4>1, <4>2
    <3>4. CASE l \notin Range(names)
      <4>1. holder'[l] = holder[l] /\ (holder[l] = d <=> d \in slab /\ l \in Range(s[d].held))
        BY <1>4, <3>4 DEF Promotable
      <4> QED
        BY <3>1, <3>2, <3>4, <4>1
    <3> QED
      BY <3>3, <3>4
  <2> QED
    BY <1>5, <2>1 DEF HoldersKnow
<1>11. QueuesLive'
  <2> SUFFICES ASSUME NEW l \in Locks
               PROVE  /\ Range(waiters'[l]) \subseteq slab
                      /\ IsInjective(waiters'[l])
                      /\ holder'[l] \in Range(waiters'[l]) \cup {None} => waiters'[l] = <<>>
                      /\ \A d \in slab : client'[d].waiting_for = l => d \in Range(waiters'[l])
    BY DEF QueuesLive
  <2>1. /\ Range(q[l]) \subseteq slab /\ IsInjective(q[l])
        /\ l \notin Range(names) /\ holder[l] \in Range(q[l]) \cup {None} => q[l] = <<>>
    BY DEF Promotable
  <2>2. ASSUME NEW d \in slab, client'[d].waiting_for = l
        PROVE  d \in Range(q[l]) /\ gets(d) = <<>>
    <3>1. gets(d) = <<>>
      BY <1>5, <2>2, ClientsAssumption
    <3>2. client'[d] = s[d]
      BY <1>5, <3>1
    <3> QED
      BY <2>2, <3>1, <3>2 DEF Promotable
  <2>3. CASE l \in Range(names)
    <3>1. waiters'[l] = rest(l) /\ holder'[l] = first(l)
      BY <1>4, <2>3
    <3>2. ASSUME NEW d \in slab, client'[d].waiting_for = l PROVE d \in Range(rest(l))
      <4>1. gets(d) = <<>> /\ d \in Range(q[l])
        BY <2>2, <3>2
      <4>2. Range(gets(d)) = {}
        BY <4>1, EmptyQueue
      <4>3. first(l) # d
        BY <1>2, <2>3, <4>2
      <4> QED
        BY <1>3, <4>1, <4>3
    <3> QED
      BY <1>3, <2>1, <3>1, <3>2
  <2>4. CASE l \notin Range(names)
    <3>1. waiters'[l] = q[l] /\ holder'[l] = holder[l]
      BY <1>4, <2>4
    <3> QED
      BY <2>1, <2>2, <2>4, <3>1
  <2> QED
    BY <2>3, <2>4
<1> QED
  BY <1>6, <1>7, <1>8, <1>9, <1>10, <1>11

(* A connection that is not in the slab has left nothing there; one that   *)
(* has not been opened is nowhere.                                         *)
SlabRight ==
  /\ \A c \in Conns \ clients : client[c] = Fresh
  /\ backlog \cap clients = {}
  /\ \A c \in Conns : link[c] = "new" => c \notin backlog \cup clients

(* Events are handled for connections in the slab, between two polls;      *)
(* to_disconnect is filled at the end of an iteration only.                *)
LoopRight ==
  /\ \A c \in Conns : batch[c] # {} => c \in clients /\ pc \in {"events", "lines"}
  /\ pc # "drop" => doomed = {}
  /\ pc \in {"poll", "drop"} => cur = None

(* What is in the buffer of c will be written when its socket takes it.    *)
Armed(c) == client[c].writable /\ (c \in ready \/ Room(c) = 0)

(* Output is always announced by wants_write, and outlives an iteration    *)
(* only if the next poll waits for its socket.                             *)
OutputKept ==
  /\ \A c \in Conns : Len(replies[c]) <= RoomOut
  /\ \A c \in clients : client[c].out # <<>> =>
       client[c].wants_write /\ (pc \in {"poll", "drop"} /\ c \notin doomed => Armed(c))

(* The inductive invariant of the loop.                                    *)
IInv == TypeOK /\ SlabRight /\ LoopRight /\ OutputKept /\ HoldersKnow /\ QueuesLive

LEMMA RoomIs ==
  ASSUME ClientsTypeOK, NEW c \in Conns, Len(replies[c]) <= RoomOut
  PROVE  /\ Room(c) \in Nat /\ Room(c) <= RoomOut
         /\ link[c] = "up" => Room(c) = RoomOut - Len(replies[c])
         /\ link[c] # "up" => Room(c) = RoomOut
         /\ Len(replies[c]) \in Nat /\ RoomOut \in Nat
<1>1. Len(replies[c]) \in Nat /\ RoomOut \in Nat
  BY LenProperties, ClientsAssumption DEF ClientsTypeOK
<1> DEFINE n == Len(replies[c])
<1>2. n \in Nat /\ RoomOut \in Nat /\ n <= RoomOut
  BY <1>1
<1>3. Room(c) = IF link[c] = "up" THEN RoomOut - n ELSE RoomOut
  BY DEF Room
<1> HIDE DEF n
<1>4. CASE link[c] = "up"
  BY <1>2, <1>3, <1>4 DEF n
<1>5. CASE link[c] # "up"
  BY <1>2, <1>3, <1>5 DEF n
<1> QED
  BY <1>4, <1>5

(* A client that is granted locks is registered for writing.               *)
LEMMA PromotionArms ==
  ASSUME TypeOK, OutputKept, NEW slab \in SUBSET Conns, NEW q \in [Locks -> Seq(Conns)],
         \A l \in Locks : Range(q[l]) \subseteq slab,
         NEW names \in Seq(Locks), NEW s \in [Conns -> ClientState],
         PromoteAndNotify(names, q, slab, s),
         NEW d \in slab, link'[d] = link[d], replies'[d] = replies[d],
         s[d].out # <<>> => s[d].wants_write
  PROVE  /\ client'[d].out # <<>> => client'[d].wants_write
         /\ \/ client'[d].out # <<>> => Armed(d)'
            \/ s[d].out # <<>> /\ ~(s[d].writable /\ (d \in ready \/ Room(d) = 0))
<1> DEFINE ls == Gets(names, q, d)
<1>1. /\ client' = [e \in Conns |-> IF e \in slab /\ Gets(names, q, e) # <<>>
                                    THEN Promoted(s[e], Gets(names, q, e)) ELSE s[e]]
      /\ ready' = (ready \cap slab)
                     \cup Rearmed({e \in slab : Gets(names, q, e) # <<>>}, TRUE)
  <2>1. Passes(names, q, slab, s)
    BY PromotionIs
  <2> QED
    BY <2>1 DEF Passes
<1>2. Room(d)' = Room(d)
  BY DEF Room
<1>3. CASE ls # <<>>
  <2>1. client'[d] = Promoted(s[d], ls)
    BY <1>1, <1>3
  <2>2. ls \in Seq(Locks)
    BY GetsIs
  <2>3. client'[d].wants_write /\ client'[d].writable
    BY <2>1, <2>2, PromotedTyped
  <2>4. Room(d) > 0 => d \in ready'
    BY <1>1, <1>3 DEF Rearmed, Flags
  <2>5. Room(d) \in Nat
    BY RoomIs DEF OutputKept, TypeOK
  <2> QED
    BY <1>2, <2>3, <2>4, <2>5 DEF Armed
<1>4. CASE ls = <<>>
  <2>1. client'[d] = s[d]
    BY <1>1, <1>4
  <2>2. d \in ready => d \in ready'
    BY <1>1
  <2> QED
    BY <1>2, <2>1, <2>2 DEF Armed
<1> QED
  BY <1>3, <1>4

LEMMA FreshTyped == Fresh \in ClientState /\ Fresh.held = <<>> /\ Fresh.out = <<>> /\ Fresh.lines = <<>>
BY DEF Fresh, ClientState

(* What disconnect_client leaves behind.                                   *)
LEMMA Disconnected ==
  ASSUME IInv, NEW c \in clients, Disconnect(c)
  PROVE  /\ ClientsTypeOK' /\ backlog' = backlog /\ clients' = clients \ {c}
         /\ holder' \in [Locks -> Conns \cup {None}]
         /\ waiters' \in [Locks -> Seq(Conns)]
         /\ client' \in [Conns -> ClientState]
         /\ ready' \subseteq clients'
         /\ SlabRight' /\ HoldersKnow' /\ QueuesLive'
         /\ \A d \in Conns : Len(replies'[d]) <= RoomOut
         /\ \A d \in clients' : client'[d].out # <<>> =>
              /\ client'[d].wants_write
              /\ (client[d].out # <<>> => Armed(d)) => Armed(d)'
<1> DEFINE slab == clients \ {c}
           names == client[c].held
           q == [l \in Locks |-> Retain(waiters[l], Conns \ {c})]
           s == [client EXCEPT ![c] = Fresh]
<1>1. /\ TypeOK /\ ClientsTypeOK /\ c \in Conns /\ slab \in SUBSET Conns /\ names \in Seq(Locks)
      /\ waiters \in [Locks -> Seq(Conns)]
  BY DEF IInv, TypeOK, ClientState
<1>2. /\ clients' = slab /\ PromoteAndNotify(names, q, slab, s)
      /\ link' = Dropped(c) /\ inbox' = [inbox EXCEPT ![c] = <<>>]
      /\ owned' = [owned EXCEPT ![c] = {}]
      /\ UNCHANGED <<replies, releasing, sends, backlog>>
  BY DEF Disconnect
<1>3. /\ s \in [Conns -> ClientState] /\ s[c] = Fresh /\ \A d \in Conns : d # c => s[d] = client[d]
  BY <1>1, FreshTyped DEF TypeOK
<1>4. ASSUME NEW l \in Locks
      PROVE  /\ q[l] \in Seq(Conns) /\ Range(q[l]) = Range(waiters[l]) \ {c} /\ IsInjective(q[l])
  <2>1. waiters[l] \in Seq(Conns) /\ Range(waiters[l]) \subseteq Conns /\ IsInjective(waiters[l])
    BY <1>1, RangeOfSeq DEF IInv, QueuesLive
  <2>2. /\ q[l] \in Seq(Conns) /\ Range(q[l]) = Range(waiters[l]) \cap (Conns \ {c})
        /\ IsInjective(q[l])
    BY <2>1, Retained
  <2> QED
    BY <2>1, <2>2
<1>5. q \in [Locks -> Seq(Conns)]
  BY <1>4
<1>6. \A l \in Locks : Range(q[l]) \subseteq slab
  BY <1>4 DEF IInv, QueuesLive
<1> HIDE DEF q, s, names
<1>7. Promotable(names, q, slab, s)
  <2>1. IsInjective(names) /\ \A d \in slab : IsInjective(s[d].held)
    BY <1>1, <1>3 DEF names, IInv, HoldersKnow
  <2>2. ASSUME NEW d \in Conns, NEW l \in Locks
        PROVE  IF l \in Range(names) THEN d \in slab => l \notin Range(s[d].held)
                                     ELSE holder[l] = d <=> d \in slab /\ l \in Range(s[d].held)
    <3>1. /\ l \in Range(names) <=> holder[l] = c
          /\ holder[l] = d <=> d \in clients /\ l \in Range(client[d].held)
      BY <1>1 DEF names, IInv, HoldersKnow
    <3> QED
      BY <1>3, <3>1
  <2>3. ASSUME NEW l \in Locks
        PROVE  /\ l \notin Range(names) /\ holder[l] \in Range(q[l]) \cup {None} => q[l] = <<>>
               /\ \A d \in slab : s[d].waiting_for = l => d \in Range(q[l])
    <3>1. /\ holder[l] \in Range(waiters[l]) \cup {None} => waiters[l] = <<>>
          /\ \A d \in clients : client[d].waiting_for = l => d \in Range(waiters[l])
      BY DEF IInv, QueuesLive
    <3>2. waiters[l] = <<>> => q[l] = <<>>
      BY <1>4, EmptyQueue, EmptyRange
    <3> QED
      BY <1>1, <1>3, <1>4, <3>1, <3>2
  <2> QED
    BY <1>4, <1>6, <2>1, <2>2, <2>3 DEF Promotable
<1>8. /\ holder' \in [Locks -> Conns \cup {None}]
      /\ waiters' \in [Locks -> Seq(Conns)]
      /\ client' \in [Conns -> ClientState]
      /\ ready' \subseteq slab
      /\ HoldersKnow' /\ QueuesLive'
  BY <1>1, <1>2, <1>3, <1>5, <1>7, PromotionKeeps
<1>9. /\ link' \in [Conns -> {"new", "up", "closed", "dropped"}]
      /\ \A d \in Conns : d # c => link'[d] = link[d]
      /\ \A d \in Conns : link'[d] = "new" => link[d] = "new"
  BY <1>1, <1>2 DEF ClientsTypeOK, Dropped
<1>10. ClientsTypeOK'
  <2>1. <<>> \in Seq(Line)
    BY EmptySeq
  <2> HIDE DEF slab
  <2>2. inbox' \in [Conns -> Seq(Line)] /\ owned' \in [Conns -> SUBSET Locks]
    BY <1>1, <1>2, <2>1 DEF ClientsTypeOK
  <2> QED
    BY <1>1, <1>2, <1>9, <2>2 DEF ClientsTypeOK
<1>11. SlabRight'
  <2>1. client' = [d \in Conns |-> IF d \in slab /\ Gets(names, q, d) # <<>>
                                   THEN Promoted(s[d], Gets(names, q, d)) ELSE s[d]]
    <3>1. Passes(names, q, slab, s)
      BY <1>1, <1>2, <1>5, <1>6, PromotionIs DEF names
    <3> QED
      BY <3>1 DEF Passes
  <2>2. \A d \in Conns \ slab : client'[d] = Fresh
    BY <1>1, <1>3, <2>1 DEF IInv, SlabRight
  <2> QED
    BY <1>2, <1>9, <2>2 DEF IInv, SlabRight
<1>12. ASSUME NEW d \in slab, client'[d].out # <<>>
       PROVE  /\ client'[d].wants_write
              /\ (client[d].out # <<>> => Armed(d)) => Armed(d)'
  <2>1. d \in Conns /\ link'[d] = link[d] /\ replies'[d] = replies[d] /\ s[d] = client[d]
    BY <1>1, <1>2, <1>3, <1>9
  <2>2. client[d].out # <<>> => client[d].wants_write
    BY DEF IInv, OutputKept
  <2>3. /\ client'[d].out # <<>> => client'[d].wants_write
        /\ \/ client'[d].out # <<>> => Armed(d)'
           \/ s[d].out # <<>> /\ ~(s[d].writable /\ (d \in ready \/ Room(d) = 0))
    <3> HIDE DEF slab
    <3>1. OutputKept /\ TypeOK
      BY DEF IInv
    <3>2. slab \in SUBSET Conns /\ names \in Seq(Locks) /\ PromoteAndNotify(names, q, slab, s)
          /\ s \in [Conns -> ClientState]
      BY <1>1, <1>2, <1>3 DEF names
    <3>3. s[d].out # <<>> => s[d].wants_write
      BY <2>1, <2>2
    <3> QED
      BY <1>5, <1>6, <2>1, <3>1, <3>2, <3>3, PromotionArms
  <2> QED
    BY <1>12, <2>1, <2>3 DEF Armed
<1> QED
  BY <1>2, <1>8, <1>10, <1>11, <1>12 DEF IInv, OutputKept

(* The line that c is at, and the state of c after a reply to it.          *)
LEMMA LineIs ==
  ASSUME IInv, NEW c \in Conns, NEW kinds, NextLine(c, kinds)
  PROVE  /\ c \in clients /\ pc = "lines" /\ cur = c
         /\ client[c] \in ClientState
         /\ client[c].lines \in Seq(Line) /\ client[c].lines # <<>>
         /\ Head(client[c].lines) \in Line /\ Tail(client[c].lines) \in Seq(Line)
         /\ Head(client[c].lines).kind \in kinds
         /\ kinds \subseteq Asks => Asked(c) \in Locks
<1>1. /\ pc = "lines" /\ cur = c /\ client[c].lines # <<>>
      /\ Head(client[c].lines).kind \in kinds
  BY DEF NextLine
<1>2. c \in clients /\ client[c] \in ClientState
  BY <1>1, ClientsAssumption DEF IInv, TypeOK
<1>3. client[c].lines \in Seq(Line)
  BY <1>2 DEF ClientState
<1> DEFINE h == Head(client[c].lines)
<1>4. h \in Line /\ Tail(client[c].lines) \in Seq(Line)
  BY <1>1, <1>3, HeadTailProperties
<1>5. ASSUME kinds \subseteq Asks PROVE Asked(c) \in Locks
  <2>1. h.kind \in Asks /\ Asked(c) = h.lock
    BY <1>1, <1>5 DEF Asked
  <2> HIDE DEF h
  <2> QED
    BY <1>4, <2>1 DEF Line, Others, Asks
<1> QED
  BY <1>1, <1>2, <1>3, <1>4, <1>5

LEMMA RepliedTyped ==
  ASSUME NEW c, client[c] \in ClientState, client[c].lines # <<>>,
         NEW kind, NEW l, [kind |-> kind, lock |-> l] \in Reply
  PROVE  /\ Replied(c, kind, l) \in ClientState
         /\ Replied(c, kind, l).lines = Tail(client[c].lines)
         /\ Replied(c, kind, l).out = Append(client[c].out, [kind |-> kind, lock |-> l])
         /\ Replied(c, kind, l).held = client[c].held
         /\ Replied(c, kind, l).waiting_for = client[c].waiting_for
         /\ Replied(c, kind, l).wants_write
<1> DEFINE r == [kind |-> kind, lock |-> l]
           st == client[c]
<1>1. st.lines \in Seq(Line) /\ st.out \in Seq(Reply)
  BY DEF ClientState
<1>2. Tail(st.lines) \in Seq(Line)
  BY <1>1, HeadTailProperties
<1>3. Append(st.out, r) \in Seq(Reply)
  BY <1>1, AppendProperties
<1> HIDE DEF r
<1>4. Replied(c, kind, l) = [st EXCEPT !.lines = Tail(st.lines), !.wants_write = TRUE,
                                       !.out = Append(st.out, r)]
  BY DEF Replied, r
<1> HIDE DEF st
<1>5. st \in ClientState
  BY DEF st
<1>6. Replied(c, kind, l) = [lines |-> Tail(st.lines), out |-> Append(st.out, r),
                             waiting_for |-> st.waiting_for, held |-> st.held,
                             wants_write |-> TRUE, writable |-> st.writable]
  BY <1>4, <1>5 DEF ClientState
<1> QED
  BY <1>2, <1>3, <1>5, <1>6 DEF ClientState, st, r

LEMMA HoldingTyped ==
  ASSUME NEW s \in ClientState, NEW l \in Locks
  PROVE  /\ Holding(s, l) \in ClientState
         /\ Holding(s, l).held = Append(s.held, l)
         /\ Holding(s, l).lines = s.lines /\ Holding(s, l).out = s.out
         /\ Holding(s, l).waiting_for = s.waiting_for
         /\ Holding(s, l).wants_write = s.wants_write
<1> DEFINE longer == Append(s.held, l)
<1>1. s.held \in Seq(Locks)
  BY DEF ClientState
<1>2. longer \in Seq(Locks)
  BY <1>1, AppendProperties
<1>3. Holding(s, l) = [s EXCEPT !.held = longer]
  BY DEF Holding
<1> HIDE DEF longer
<1>4. Holding(s, l) = [lines |-> s.lines, out |-> s.out,
                       waiting_for |-> s.waiting_for, held |-> longer,
                       wants_write |-> s.wants_write, writable |-> s.writable]
  BY <1>3 DEF ClientState
<1> QED
  BY <1>2, <1>4 DEF ClientState, longer

-----------------------------------------------------------------------------
(* The table                                                               *)

(* Nothing the table is about changes, except that connections come in.    *)
LEMMA TableUntouched ==
  ASSUME IInv, UNCHANGED tableVars,
         clients \subseteq clients', clients' \subseteq Conns,
         \A d \in clients : /\ client'[d].held = client[d].held
                            /\ client'[d].waiting_for = client[d].waiting_for,
         \A d \in clients' \ clients : client'[d].held = <<>> /\ client'[d].waiting_for = None
  PROVE  HoldersKnow' /\ QueuesLive'
<1>1. holder' = holder /\ waiters' = waiters
  BY DEF tableVars
<1>2. \A d \in Conns, l \in Locks : holder[l] = d <=> d \in clients /\ l \in Range(client[d].held)
  BY DEF IInv, HoldersKnow
<1>3. \A d \in clients : IsInjective(client[d].held)
  BY DEF IInv, HoldersKnow
<1>4. ASSUME NEW d \in Conns, NEW l \in Locks
      PROVE  holder'[l] = d <=> d \in clients' /\ l \in Range(client'[d].held)
  <2>1. CASE d \in clients
    BY <1>1, <1>2, <2>1
  <2>2. CASE d \in clients' \ clients
    BY <1>1, <1>2, <2>2, EmptyQueue
  <2>3. CASE d \notin clients'
    BY <1>1, <1>2, <2>3
  <2> QED
    BY <2>1, <2>2, <2>3
<1>5. \A d \in clients' : IsInjective(client'[d].held)
  <2> TAKE d \in clients'
  <2>1. CASE d \in clients
    BY <1>3, <2>1
  <2>2. CASE d \notin clients
    BY <2>2, EmptyQueue
  <2> QED
    BY <2>1, <2>2
<1>6. ASSUME NEW l \in Locks
      PROVE  /\ Range(waiters'[l]) \subseteq clients'
             /\ IsInjective(waiters'[l])
             /\ holder'[l] \in Range(waiters'[l]) \cup {None} => waiters'[l] = <<>>
             /\ \A d \in clients' : client'[d].waiting_for = l => d \in Range(waiters'[l])
  <2>1. /\ Range(waiters[l]) \subseteq clients
        /\ IsInjective(waiters[l])
        /\ holder[l] \in Range(waiters[l]) \cup {None} => waiters[l] = <<>>
        /\ \A d \in clients : client[d].waiting_for = l => d \in Range(waiters[l])
    BY DEF IInv, QueuesLive
  <2>2. \A d \in clients' \ clients : client'[d].waiting_for # l
    BY ClientsAssumption
  <2> QED
    BY <1>1, <2>1, <2>2
<1> QED
  BY <1>4, <1>5, <1>6 DEF HoldersKnow, QueuesLive

(* Nobody waits for a free lock, so that its taker is its only user.       *)
LEMMA FreeLockTaken ==
  ASSUME IInv, NEW c \in clients, NEW l \in Locks, holder[l] = None,
         holder' = [holder EXCEPT ![l] = c], waiters' = waiters, clients' = clients,
         client'[c].held = Append(client[c].held, l),
         client'[c].waiting_for = client[c].waiting_for,
         \A d \in clients : d # c => client'[d] = client[d]
  PROVE  HoldersKnow' /\ QueuesLive'
<1>1. /\ c \in Conns /\ client[c].held \in Seq(Locks) /\ clients \subseteq Conns
      /\ holder \in [Locks -> Conns \cup {None}]
  BY DEF IInv, TypeOK, ClientState
<1>2. /\ \A d \in Conns, m \in Locks :
           holder[m] = d <=> d \in clients /\ m \in Range(client[d].held)
      /\ \A d \in clients : IsInjective(client[d].held)
  BY DEF IInv, HoldersKnow
<1>3. \A m \in Locks : holder'[m] = IF m = l THEN c ELSE holder[m]
  BY <1>1
<1>4. \A d \in clients : l \notin Range(client[d].held)
  BY <1>1, <1>2, ClientsAssumption
<1>5. /\ Range(client'[c].held) = Range(client[c].held) \cup {l}
      /\ IsInjective(client'[c].held)
  BY <1>1, <1>2, <1>4, AppendQueue
<1>6. ASSUME NEW d \in Conns, NEW m \in Locks
      PROVE  holder'[m] = d <=> d \in clients /\ m \in Range(client'[d].held)
  <2>1. CASE d = c
    BY <1>1, <1>2, <1>3, <1>5, <2>1
  <2>2. CASE d # c
    BY <1>1, <1>2, <1>3, <1>4, <2>2
  <2> QED
    BY <2>1, <2>2
<1>7. \A d \in clients : IsInjective(client'[d].held)
  BY <1>2, <1>5
<1>8. ASSUME NEW m \in Locks
      PROVE  /\ Range(waiters[m]) \subseteq clients
             /\ IsInjective(waiters[m])
             /\ holder'[m] \in Range(waiters[m]) \cup {None} => waiters[m] = <<>>
             /\ \A d \in clients : client'[d].waiting_for = m => d \in Range(waiters[m])
  <2>1. /\ Range(waiters[m]) \subseteq clients
        /\ IsInjective(waiters[m])
        /\ holder[m] \in Range(waiters[m]) \cup {None} => waiters[m] = <<>>
        /\ \A d \in clients : client[d].waiting_for = m => d \in Range(waiters[m])
    BY DEF IInv, QueuesLive
  <2>2. \A d \in clients : client'[d].waiting_for = client[d].waiting_for
    OBVIOUS
  <2> QED
    BY <1>3, <2>1, <2>2
<1> QED
  BY <1>6, <1>7, <1>8 DEF HoldersKnow, QueuesLive

(* A client queues behind those who wait.                                  *)
LEMMA Queued ==
  ASSUME IInv, NEW c \in clients, NEW l \in Locks,
         holder[l] \notin {None, c}, c \notin Range(waiters[l]),
         waiters' = [waiters EXCEPT ![l] = Append(@, c)], holder' = holder, clients' = clients,
         client'[c].held = client[c].held, client'[c].waiting_for = l,
         \A d \in clients : d # c => client'[d] = client[d]
  PROVE  waiters' \in [Locks -> Seq(Conns)] /\ HoldersKnow' /\ QueuesLive'
<1>1. c \in Conns /\ waiters \in [Locks -> Seq(Conns)] /\ clients \subseteq Conns
  BY DEF IInv, TypeOK
<1>2. \A m \in Locks : /\ Range(waiters[m]) \subseteq clients
                       /\ IsInjective(waiters[m])
                       /\ holder[m] \in Range(waiters[m]) \cup {None} => waiters[m] = <<>>
                       /\ \A d \in clients : client[d].waiting_for = m => d \in Range(waiters[m])
  BY DEF IInv, QueuesLive
<1>3. /\ Append(waiters[l], c) \in Seq(Conns)
      /\ Range(Append(waiters[l], c)) = Range(waiters[l]) \cup {c}
      /\ IsInjective(Append(waiters[l], c))
  BY <1>1, <1>2, AppendQueue
<1>4. \A m \in Locks : waiters'[m] = IF m = l THEN Append(waiters[l], c) ELSE waiters[m]
  BY <1>1
<1>5. waiters' \in [Locks -> Seq(Conns)]
  <2> DEFINE longer == Append(waiters[l], c)
  <2>1. longer \in Seq(Conns) /\ waiters' = [waiters EXCEPT ![l] = longer]
    BY <1>3
  <2> HIDE DEF longer
  <2> QED
    BY <1>1, <2>1
<1>6. HoldersKnow'
  <2>1. \A d \in clients : client'[d].held = client[d].held
    OBVIOUS
  <2> QED
    BY <2>1 DEF IInv, HoldersKnow
<1>7. ASSUME NEW m \in Locks
      PROVE  /\ Range(waiters'[m]) \subseteq clients
             /\ IsInjective(waiters'[m])
             /\ holder[m] \in Range(waiters'[m]) \cup {None} => waiters'[m] = <<>>
             /\ \A d \in clients : client'[d].waiting_for = m => d \in Range(waiters'[m])
  <2>1. CASE m = l
    <3>1. holder[l] \notin Range(waiters[l])
      BY <1>2, EmptyQueue
    <3>2. holder[l] \notin Range(waiters'[l]) \cup {None}
      BY <1>3, <1>4, <3>1
    <3> QED
      BY <1>2, <1>3, <1>4, <2>1, <3>2
  <2>2. CASE m # l
    BY <1>2, <1>4, <2>2
  <2> QED
    BY <2>1, <2>2
<1> QED
  BY <1>5, <1>6, <1>7 DEF QueuesLive

-----------------------------------------------------------------------------
(* The lines of a client                                                   *)

(* A line that is handled without a promotion changes the state of its     *)
(* client only, which must announce what is in its buffer.                 *)
LEMMA BecomesKeeps ==
  ASSUME IInv, NEW c \in clients, pc = "lines", cur = c,
         NEW s \in ClientState, Becomes(c, s), s.out # <<>> => s.wants_write
  PROVE  /\ holder' \in [Locks -> Conns \cup {None}] /\ waiters' \in [Locks -> Seq(Conns)] => TypeOK'
         /\ SlabRight' /\ LoopRight' /\ OutputKept'
         /\ clients' = clients /\ client'[c] = s
         /\ \A d \in clients : d # c => client'[d] = client[d]
<1>1. TypeOK /\ SlabRight /\ LoopRight /\ OutputKept /\ c \in Conns
  BY DEF IInv, TypeOK
<1>2. /\ client' = [client EXCEPT ![c] = s]
      /\ UNCHANGED <<link, inbox, replies, owned, releasing, sends, backlog, clients, ready,
                     batch, accepting, doomed, cur, pc>>
  BY DEF Becomes, clientVars, loopVars
<1>3. client'[c] = s /\ \A d \in Conns : d # c => client'[d] = client[d]
  BY <1>1, <1>2 DEF TypeOK
<1>4. client' \in [Conns -> ClientState]
  BY <1>1, <1>2 DEF TypeOK
<1>5. ASSUME holder' \in [Locks -> Conns \cup {None}], waiters' \in [Locks -> Seq(Conns)]
      PROVE  TypeOK'
  BY <1>1, <1>2, <1>4, <1>5 DEF TypeOK, ClientsTypeOK
<1>6. SlabRight'
  BY <1>1, <1>2, <1>3 DEF SlabRight
<1>7. LoopRight'
  BY <1>1, <1>2 DEF LoopRight
<1>8. OutputKept'
  <2>1. ASSUME NEW d \in clients, client'[d].out # <<>> PROVE client'[d].wants_write
    <3>1. CASE d = c
      BY <1>3, <2>1, <3>1
    <3>2. CASE d # c
      BY <1>1, <1>3, <2>1, <3>2 DEF OutputKept, TypeOK
    <3> QED
      BY <3>1, <3>2
  <2> QED
    BY <1>1, <1>2, <2>1 DEF OutputKept
<1> QED
  BY <1>1, <1>2, <1>3, <1>5, <1>6, <1>7, <1>8 DEF TypeOK

(* A line that leaves the table alone.                                     *)
LEMMA LineKeeps ==
  ASSUME IInv, NEW c \in clients, pc = "lines", cur = c,
         NEW s \in ClientState, Becomes(c, s), s.out # <<>> => s.wants_write,
         s.held = client[c].held, s.waiting_for = client[c].waiting_for,
         UNCHANGED tableVars
  PROVE  IInv'
<1>1. /\ holder' \in [Locks -> Conns \cup {None}] /\ waiters' \in [Locks -> Seq(Conns)] => TypeOK'
      /\ SlabRight' /\ LoopRight' /\ OutputKept'
      /\ clients' = clients /\ client'[c] = s
      /\ \A d \in clients : d # c => client'[d] = client[d]
  BY BecomesKeeps
<1>2. TypeOK'
  <2>1. holder' \in [Locks -> Conns \cup {None}] /\ waiters' \in [Locks -> Seq(Conns)]
    BY DEF IInv, TypeOK, tableVars
  <2> QED
    BY <1>1, <2>1
<1>3. /\ clients \subseteq clients' /\ clients' \subseteq Conns /\ clients' \ clients = {}
  BY <1>1 DEF IInv, TypeOK
<1>4. \A d \in clients : client'[d].held = client[d].held /\ client'[d].waiting_for = client[d].waiting_for
  BY <1>1
<1>5. HoldersKnow' /\ QueuesLive'
  BY <1>3, <1>4, TableUntouched
<1> QED
  BY <1>1, <1>2, <1>5 DEF IInv

(* A line that takes a free lock.                                          *)
LEMMA GrantKeeps ==
  ASSUME IInv, NEW c \in Conns, NEW kinds, NextLine(c, kinds), kinds \subseteq Asks,
         holder[Asked(c)] = None, holder' = [holder EXCEPT ![Asked(c)] = c], waiters' = waiters,
         Becomes(c, Holding(Replied(c, "GRANTED", Asked(c)), Asked(c)))
  PROVE  IInv'
<1> DEFINE l == Asked(c)
           t == Replied(c, "GRANTED", l)
           s == Holding(t, l)
<1>1. /\ c \in clients /\ pc = "lines" /\ cur = c /\ client[c] \in ClientState
      /\ client[c].lines # <<>> /\ l \in Locks
  BY LineIs
<1>2. [kind |-> "GRANTED", lock |-> l] \in Reply
  BY <1>1 DEF Reply
<1>3. /\ t \in ClientState /\ t.held = client[c].held /\ t.waiting_for = client[c].waiting_for
      /\ t.wants_write
  BY <1>1, <1>2, RepliedTyped
<1>4. /\ s \in ClientState /\ s.held = Append(client[c].held, l)
      /\ s.waiting_for = client[c].waiting_for /\ s.wants_write
  <2> HIDE DEF l, t
  <2> QED
    BY <1>1, <1>3, HoldingTyped
<1>5. /\ holder[l] = None /\ holder' = [holder EXCEPT ![l] = c] /\ Becomes(c, s)
  OBVIOUS
<1> HIDE DEF l, t, s
<1>6. /\ holder' \in [Locks -> Conns \cup {None}] /\ waiters' \in [Locks -> Seq(Conns)] => TypeOK'
      /\ SlabRight' /\ LoopRight' /\ OutputKept'
      /\ clients' = clients /\ client'[c] = s
      /\ \A d \in clients : d # c => client'[d] = client[d]
  BY <1>1, <1>4, <1>5, BecomesKeeps
<1>7. TypeOK'
  <2>1. holder' \in [Locks -> Conns \cup {None}] /\ waiters' \in [Locks -> Seq(Conns)]
    BY <1>1, <1>5 DEF IInv, TypeOK
  <2> QED
    BY <1>6, <2>1
<1>8. HoldersKnow' /\ QueuesLive'
  BY <1>1, <1>4, <1>5, <1>6, FreeLockTaken
<1> QED
  BY <1>6, <1>7, <1>8 DEF IInv

LEMMA WaitKeeps ==
  ASSUME IInv, NEW c \in Conns, AcquireWait(c)
  PROVE  IInv'
<1> DEFINE l == Asked(c)
           rest == Tail(client[c].lines)
           s == [client[c] EXCEPT !.lines = rest, !.waiting_for = l]
<1>1. /\ NextLine(c, {"ACQUIRE"}) /\ holder[l] \notin {None, c} /\ c \notin Range(waiters[l])
      /\ waiters' = [waiters EXCEPT ![l] = Append(@, c)] /\ holder' = holder
      /\ Becomes(c, s)
  BY DEF AcquireWait
<1>2. {"ACQUIRE"} \subseteq Asks
  BY DEF Asks
<1>3. /\ c \in clients /\ pc = "lines" /\ cur = c /\ client[c] \in ClientState
      /\ rest \in Seq(Line) /\ l \in Locks
  BY <1>1, <1>2, LineIs
<1>4. /\ s \in ClientState /\ s.held = client[c].held /\ s.waiting_for = l
      /\ s.out = client[c].out /\ s.wants_write = client[c].wants_write
  <2> DEFINE st == client[c]
  <2> HIDE DEF l, rest
  <2>0. s = [st EXCEPT !.lines = rest, !.waiting_for = l] /\ st \in ClientState
    BY <1>3
  <2> HIDE DEF st, s
  <2>1. s = [lines |-> rest, out |-> st.out, waiting_for |-> l, held |-> st.held,
             wants_write |-> st.wants_write, writable |-> st.writable]
    BY <2>0 DEF ClientState
  <2> USE DEF st
  <2> QED
    BY <1>3, <2>1 DEF ClientState
<1> HIDE DEF l, rest, s
<1>5. s.out # <<>> => s.wants_write
  BY <1>3, <1>4 DEF IInv, OutputKept
<1>6. /\ holder' \in [Locks -> Conns \cup {None}] /\ waiters' \in [Locks -> Seq(Conns)] => TypeOK'
      /\ SlabRight' /\ LoopRight' /\ OutputKept'
      /\ clients' = clients /\ client'[c] = s
      /\ \A d \in clients : d # c => client'[d] = client[d]
  BY <1>1, <1>3, <1>4, <1>5, BecomesKeeps
<1>7. waiters' \in [Locks -> Seq(Conns)] /\ HoldersKnow' /\ QueuesLive'
  BY <1>1, <1>3, <1>4, <1>6, Queued
<1>8. holder' \in [Locks -> Conns \cup {None}]
  BY <1>1 DEF IInv, TypeOK
<1> QED
  BY <1>6, <1>7, <1>8 DEF IInv

(* A line that is answered and changes nothing else.                       *)
LEMMA AnswerKeeps ==
  ASSUME IInv, NEW c \in Conns, NEW kinds, NextLine(c, kinds),
         NEW kind, NEW l, [kind |-> kind, lock |-> l] \in Reply,
         Becomes(c, Replied(c, kind, l)), UNCHANGED tableVars
  PROVE  IInv'
<1> DEFINE s == Replied(c, kind, l)
<1>1. /\ c \in clients /\ pc = "lines" /\ cur = c /\ client[c] \in ClientState
      /\ client[c].lines # <<>>
  BY LineIs
<1>2. /\ s \in ClientState /\ s.held = client[c].held /\ s.waiting_for = client[c].waiting_for
      /\ s.wants_write
  BY <1>1, RepliedTyped
<1>3. Becomes(c, s)
  OBVIOUS
<1> HIDE DEF s
<1> QED
  BY <1>1, <1>2, <1>3, LineKeeps

LEMMA SkipKeeps ==
  ASSUME IInv, NEW c \in Conns, SkipBlank(c)
  PROVE  IInv'
<1> DEFINE rest == Tail(client[c].lines)
           s == [client[c] EXCEPT !.lines = rest]
<1>1. NextLine(c, {"BLANK"}) /\ Becomes(c, s) /\ UNCHANGED tableVars
  BY DEF SkipBlank
<1>2. /\ c \in clients /\ pc = "lines" /\ cur = c /\ client[c] \in ClientState /\ rest \in Seq(Line)
  BY <1>1, LineIs
<1>3. /\ s \in ClientState /\ s.held = client[c].held /\ s.waiting_for = client[c].waiting_for
      /\ s.out = client[c].out /\ s.wants_write = client[c].wants_write
  <2> HIDE DEF rest
  <2>1. s = [lines |-> rest, out |-> client[c].out, waiting_for |-> client[c].waiting_for,
             held |-> client[c].held,
             wants_write |-> client[c].wants_write, writable |-> client[c].writable]
    BY <1>2 DEF ClientState
  <2> HIDE DEF s
  <2> QED
    BY <1>2, <2>1 DEF ClientState
<1> HIDE DEF rest, s
<1>4. s.out # <<>> => s.wants_write
  BY <1>2, <1>3 DEF IInv, OutputKept
<1> QED
  BY <1>1, <1>2, <1>3, <1>4, LineKeeps

LEMMA ReleaseKeeps ==
  ASSUME IInv, NEW c \in Conns, Release(c)
  PROVE  IInv'
<1> DEFINE l == Asked(c)
           t == Replied(c, "OK", l)
           stay == Retain(t.held, Locks \ {l})
           s == [t EXCEPT !.held = stay]
           st == [client EXCEPT ![c] = s]
           names == <<l>>
<1>1. /\ NextLine(c, {"RELEASE"}) /\ holder[l] = c
      /\ PromoteAndNotify(names, waiters, clients, st)
      /\ UNCHANGED <<link, inbox, replies, owned, releasing, sends, backlog, clients,
                     batch, accepting, doomed, cur, pc>>
  BY DEF Release, clientVars, loopVars
<1>2. {"RELEASE"} \subseteq Asks
  BY DEF Asks
<1>3. /\ c \in clients /\ pc = "lines" /\ client[c] \in ClientState
      /\ client[c].lines # <<>> /\ l \in Locks
  BY <1>1, <1>2, LineIs
<1>4. [kind |-> "OK", lock |-> l] \in Reply
  BY <1>3 DEF Reply
<1>5. /\ t \in ClientState /\ t.held = client[c].held /\ t.waiting_for = client[c].waiting_for
      /\ t.wants_write
  BY <1>3, <1>4, RepliedTyped
<1>6. /\ t.held \in Seq(Locks) /\ IsInjective(t.held)
      /\ \A m \in Locks : m \in Range(t.held) <=> holder[m] = c
  BY <1>3, <1>5 DEF IInv, HoldersKnow, ClientState
<1>7. /\ stay \in Seq(Locks) /\ IsInjective(stay)
      /\ \A m \in Locks : m \in Range(stay) <=> holder[m] = c /\ m # l
  BY <1>6, Retained
<1>8. /\ names \in Seq(Locks) /\ IsInjective(names) /\ Range(names) = {l}
  BY <1>3 DEF IsInjective, Range
<1>9. s = [t EXCEPT !.held = stay] /\ st = [client EXCEPT ![c] = s]
  OBVIOUS
<1> HIDE DEF l, t, stay, s, st, names
<1>10. /\ s \in ClientState /\ s.held = stay /\ s.waiting_for = client[c].waiting_for
       /\ s.wants_write
  <2>1. s = [lines |-> t.lines, out |-> t.out, waiting_for |-> t.waiting_for, held |-> stay,
             wants_write |-> t.wants_write, writable |-> t.writable]
    BY <1>5, <1>9 DEF ClientState
  <2> QED
    BY <1>5, <1>7, <2>1 DEF ClientState
<1>11. /\ TypeOK /\ ClientsTypeOK /\ SlabRight /\ LoopRight /\ OutputKept /\ HoldersKnow /\ QueuesLive
       /\ clients \in SUBSET Conns /\ waiters \in [Locks -> Seq(Conns)]
  BY DEF IInv, TypeOK
<1>12. /\ st \in [Conns -> ClientState] /\ st[c] = s /\ \A d \in Conns : d # c => st[d] = client[d]
  BY <1>3, <1>9, <1>10, <1>11 DEF TypeOK
<1>13. Promotable(names, waiters, clients, st)
  <2>1. \A d \in clients : IsInjective(st[d].held)
    BY <1>7, <1>10, <1>11, <1>12 DEF HoldersKnow
  <2>2. ASSUME NEW d \in Conns, NEW m \in Locks
        PROVE  IF m \in Range(names) THEN d \in clients => m \notin Range(st[d].held)
                                     ELSE holder[m] = d <=> d \in clients /\ m \in Range(st[d].held)
    <3>1. holder[m] = d <=> d \in clients /\ m \in Range(client[d].held)
      BY <1>11 DEF HoldersKnow
    <3> QED
      BY <1>1, <1>3, <1>7, <1>8, <1>10, <1>12, <3>1
  <2>3. ASSUME NEW m \in Locks
        PROVE  /\ Range(waiters[m]) \subseteq clients /\ IsInjective(waiters[m])
               /\ m \notin Range(names) /\ holder[m] \in Range(waiters[m]) \cup {None}
                    => waiters[m] = <<>>
               /\ \A d \in clients : st[d].waiting_for = m => d \in Range(waiters[m])
    BY <1>10, <1>11, <1>12 DEF QueuesLive
  <2> QED
    BY <1>8, <2>1, <2>2, <2>3 DEF Promotable
<1>14. /\ holder' \in [Locks -> Conns \cup {None}]
       /\ waiters' \in [Locks -> Seq(Conns)]
       /\ client' \in [Conns -> ClientState]
       /\ ready' \subseteq clients
       /\ HoldersKnow' /\ QueuesLive'
  BY <1>1, <1>8, <1>11, <1>12, <1>13, PromotionKeeps
<1>15. TypeOK'
  BY <1>1, <1>11, <1>14 DEF TypeOK, ClientsTypeOK
<1>16. \A m \in Locks : Range(waiters[m]) \subseteq clients
  BY <1>11 DEF QueuesLive
<1>17. SlabRight'
  <2>1. Passes(names, waiters, clients, st)
    BY <1>1, <1>8, <1>11, <1>16, PromotionIs
  <2>2. \A d \in Conns \ clients : client'[d] = client[d]
    BY <1>3, <1>12, <2>1 DEF Passes
  <2> QED
    BY <1>1, <1>11, <2>2 DEF SlabRight
<1>18. LoopRight'
  BY <1>1, <1>11 DEF LoopRight
<1>19. ASSUME NEW d \in clients, client'[d].out # <<>> PROVE client'[d].wants_write
  <2>1. d \in Conns /\ link'[d] = link[d] /\ replies'[d] = replies[d]
    BY <1>1, <1>11
  <2>2. st[d].out # <<>> => st[d].wants_write
    BY <1>10, <1>11, <1>12 DEF OutputKept
  <2>3. client'[d].out # <<>> => client'[d].wants_write
    BY <1>1, <1>8, <1>11, <1>12, <1>16, <2>1, <2>2, PromotionArms
  <2> QED
    BY <1>19, <2>3
<1>20. OutputKept'
  BY <1>1, <1>3, <1>11, <1>19 DEF OutputKept
<1> QED
  BY <1>14, <1>15, <1>17, <1>18, <1>20 DEF IInv

-----------------------------------------------------------------------------
(* The events                                                              *)

(* An event that ends with the connection.                                 *)
LEMMA EventEnds ==
  ASSUME IInv, NEW c \in clients, pc # "drop",
         Disconnect(c), EventDone(c), UNCHANGED <<accepting, doomed>>
  PROVE  IInv'
<1>1. /\ ClientsTypeOK' /\ backlog' = backlog /\ clients' = clients \ {c}
      /\ holder' \in [Locks -> Conns \cup {None}]
      /\ waiters' \in [Locks -> Seq(Conns)]
      /\ client' \in [Conns -> ClientState]
      /\ ready' \subseteq clients'
      /\ SlabRight' /\ HoldersKnow' /\ QueuesLive'
      /\ \A d \in Conns : Len(replies'[d]) <= RoomOut
      /\ \A d \in clients' : client'[d].out # <<>> => client'[d].wants_write
  BY Disconnected
<1>2. /\ batch' = [batch EXCEPT ![c] = {}] /\ cur' = None /\ pc' = "events"
      /\ accepting' = accepting /\ doomed' = doomed
  BY DEF EventDone
<1>3. TypeOK /\ LoopRight /\ doomed = {} /\ c \in Conns
  BY DEF IInv, LoopRight, TypeOK
<1>4. TypeOK'
  BY <1>1, <1>2, <1>3 DEF TypeOK
<1>5. LoopRight'
  BY <1>1, <1>2, <1>3 DEF LoopRight, TypeOK
<1>6. OutputKept'
  BY <1>1, <1>2 DEF OutputKept
<1> QED
  BY <1>1, <1>4, <1>5, <1>6 DEF IInv

(* The next client of to_disconnect.                                       *)
LEMMA DropKeeps ==
  ASSUME IInv, NEW c \in Conns, Drop(c)
  PROVE  IInv'
<1>0. /\ pc = "drop" /\ c \in clients /\ Disconnect(c) /\ doomed' = doomed \ {c}
      /\ pc' = (IF doomed' = {} THEN "poll" ELSE "drop")
      /\ UNCHANGED <<batch, accepting, cur>>
  BY DEF Drop, IInv, TypeOK
<1>1. /\ ClientsTypeOK' /\ backlog' = backlog /\ clients' = clients \ {c}
      /\ holder' \in [Locks -> Conns \cup {None}]
      /\ waiters' \in [Locks -> Seq(Conns)]
      /\ client' \in [Conns -> ClientState]
      /\ ready' \subseteq clients'
      /\ SlabRight' /\ HoldersKnow' /\ QueuesLive'
      /\ \A d \in Conns : Len(replies'[d]) <= RoomOut
      /\ \A d \in clients' : client'[d].out # <<>> =>
           /\ client'[d].wants_write
           /\ (client[d].out # <<>> => Armed(d)) => Armed(d)'
  BY <1>0, Disconnected
<1>2. TypeOK /\ LoopRight /\ OutputKept
  BY DEF IInv
<1>3. /\ TypeOK' /\ LoopRight'
  BY <1>0, <1>1, <1>2 DEF TypeOK, LoopRight
<1>4. OutputKept'
  <2> SUFFICES ASSUME NEW d \in clients', client'[d].out # <<>>, d \notin doomed'
               PROVE  Armed(d)'
    BY <1>1 DEF OutputKept
  <2>1. d \in clients /\ d \notin doomed
    BY <1>0, <1>1
  <2>2. client[d].out # <<>> => Armed(d)
    BY <1>0, <1>2, <2>1 DEF OutputKept
  <2> QED
    BY <1>1, <2>2
<1> QED
  BY <1>1, <1>3, <1>4 DEF IInv

(* poll reports events for connections in the slab only.                   *)
LEMMA PollKeeps ==
  ASSUME IInv, Poll
  PROVE  IInv'
<1>1. /\ TypeOK /\ SlabRight /\ LoopRight /\ OutputKept /\ pc = "poll" /\ doomed = {}
  BY DEF IInv, LoopRight, Poll
<1>2. /\ batch' = [c \in Conns |-> IF c \in ready THEN Flags(c, client[c].writable) ELSE {}]
      /\ accepting' = (backlog # {}) /\ ready' = {} /\ pc' = "events"
      /\ UNCHANGED <<link, inbox, replies, owned, releasing, sends, backlog, holder, waiters,
                     clients, client, doomed, cur>>
  BY DEF Poll, clientVars, tableVars
<1>3. batch' \in [Conns -> SUBSET {"read", "write"}]
  BY <1>2 DEF Flags
<1>4. TypeOK'
  <2> accepting' \in BOOLEAN
    BY <1>2
  <2> QED
    BY <1>1, <1>2, <1>3 DEF TypeOK, ClientsTypeOK
<1>5. SlabRight'
  BY <1>1, <1>2 DEF SlabRight
<1>6. LoopRight'
  BY <1>1, <1>2 DEF LoopRight, TypeOK
<1>7. OutputKept'
  BY <1>1, <1>2 DEF OutputKept
<1>8. HoldersKnow' /\ QueuesLive'
  BY <1>2 DEF IInv, HoldersKnow, QueuesLive
<1> QED
  BY <1>4, <1>5, <1>6, <1>7, <1>8 DEF IInv

(* The listener puts fresh connections in the slab.                        *)
LEMMA AcceptKeeps ==
  ASSUME IInv, Accept
  PROVE  IInv' /\ client' = client
<1>1. /\ TypeOK /\ SlabRight /\ LoopRight /\ OutputKept
  BY DEF IInv
<1>2. /\ pc = "events" /\ cur = None
      /\ clients' = clients \cup backlog /\ ready' = ready \cup Rearmed(backlog, FALSE)
      /\ client' = [c \in Conns |-> IF c \in backlog THEN Fresh ELSE client[c]]
      /\ backlog' = {} /\ accepting' = FALSE
      /\ UNCHANGED <<link, inbox, replies, owned, releasing, sends, holder, waiters,
                     batch, doomed, cur, pc>>
  BY DEF Accept, clientVars, tableVars
<1>3. \A c \in backlog : client[c] = Fresh
  BY <1>1 DEF SlabRight, TypeOK
<1>4. client' = client
  BY <1>1, <1>2, <1>3 DEF TypeOK
<1>5. Rearmed(backlog, FALSE) \subseteq backlog
  BY DEF Rearmed
<1>6. TypeOK'
  BY <1>1, <1>2, <1>4, <1>5 DEF TypeOK, ClientsTypeOK
<1>7. SlabRight'
  BY <1>1, <1>2, <1>4 DEF SlabRight
<1>8. LoopRight'
  BY <1>1, <1>2 DEF LoopRight
<1>9. OutputKept'
  BY <1>1, <1>2, <1>3, <1>4, FreshTyped DEF OutputKept
<1>10. HoldersKnow' /\ QueuesLive'
  <2>1. \A d \in clients' \ clients : client'[d].held = <<>> /\ client'[d].waiting_for = None
    <3>1. \A d \in clients' \ clients : client'[d] = Fresh
      BY <1>2, <1>3, <1>4
    <3>2. Fresh.waiting_for = None
      BY DEF Fresh
    <3> QED
      BY <3>1, <3>2, FreshTyped
  <2>2. clients \subseteq clients' /\ clients' \subseteq Conns
    BY <1>1, <1>2 DEF TypeOK
  <2>3. UNCHANGED tableVars
    BY <1>2 DEF tableVars
  <2> QED
    BY <1>4, <2>1, <2>2, <2>3, TableUntouched
<1> QED
  BY <1>4, <1>6, <1>7, <1>8, <1>9, <1>10 DEF IInv

(* What the socket takes of the buffer of c and what is left are the       *)
(* buffer; something is left only in front of a full socket.               *)
LEMMA Flushes ==
  ASSUME IInv, NEW c \in clients
  PROVE  /\ Left(c) \in Seq(Reply)
         /\ SubSeq(client[c].out, 1, Takes(c)) \in Seq(Reply)
         /\ SubSeq(client[c].out, 1, Takes(c)) \o Left(c) = client[c].out
         /\ Sent(c, SubSeq(client[c].out, 1, Takes(c))) \in Seq(Reply)
         /\ Len(Sent(c, SubSeq(client[c].out, 1, Takes(c)))) <= RoomOut
         /\ Left(c) # <<>> => /\ client[c].out # <<>> /\ link[c] = "up"
                              /\ Len(Sent(c, SubSeq(client[c].out, 1, Takes(c)))) = RoomOut
<1> DEFINE out == client[c].out
           n == Len(out)
           k == Takes(c)
           front == SubSeq(out, 1, k)
           left == SubSeq(out, k + 1, n)
           sock == Sent(c, front)
           m == Len(replies[c])
<1>1. /\ ClientsTypeOK /\ c \in Conns /\ out \in Seq(Reply) /\ replies[c] \in Seq(Reply)
      /\ m <= RoomOut
  BY DEF IInv, TypeOK, ClientsTypeOK, ClientState, OutputKept
<1>2. n \in Nat /\ m \in Nat /\ RoomOut \in Nat
  BY <1>1, LenProperties, ClientsAssumption
<1>3. /\ Room(c) \in Nat
      /\ link[c] = "up" => Room(c) = RoomOut - m
  BY <1>1, RoomIs
<1>4. k = IF link[c] # "up" \/ n <= Room(c) THEN n ELSE Room(c)
  BY DEF Takes
<1>5. Left(c) = left
  BY DEF Left
<1>6. sock = IF link[c] = "up" THEN replies[c] \o front ELSE <<>>
  BY DEF Sent
<1> HIDE DEF k, m
<1>7. k \in Nat /\ k <= n /\ (link[c] = "up" => m + k <= RoomOut)
      /\ (k < n => link[c] = "up" /\ m + k = RoomOut)
  <2> HIDE DEF n
  <2> QED
    BY <1>2, <1>3, <1>4
<1>8. \A i \in 1 .. n : out[i] \in Reply
  BY <1>1, LenProperties
<1>9. /\ front \in Seq(Reply) /\ Len(front) = k /\ \A i \in 1 .. k : front[i] = out[i]
  <2>1. \A i \in 1 .. k : i \in 1 .. n
    BY <1>2, <1>7
  <2>2. front = [i \in 1 .. k |-> out[i]]
    <3> HIDE DEF out
    <3> QED
      BY <1>7
  <2> QED
    BY <1>7, <1>8, <2>1, <2>2, SeqDef
<1>10. /\ left \in Seq(Reply) /\ Len(left) = n - k
       /\ \A i \in 1 .. n - k : left[i] = out[k + i]
  BY <1>1, <1>2, <1>7, <1>8, SubSeqProperties
<1> HIDE DEF front, left, out
<1>11. front \o left = out
  <2> DEFINE fl == front \o left
  <2>1. /\ fl \in Seq(Reply) /\ Len(fl) = Len(front) + Len(left)
        /\ \A i \in 1 .. Len(front) + Len(left) :
             fl[i] = IF i <= Len(front) THEN front[i] ELSE left[i - Len(front)]
    BY <1>9, <1>10, ConcatProperties
  <2> HIDE DEF fl, n
  <2>2. Len(fl) = n
    BY <1>2, <1>7, <1>9, <1>10, <2>1
  <2>3. ASSUME NEW i \in 1 .. n PROVE fl[i] = out[i]
    <3>1. CASE i <= k
      BY <1>2, <1>7, <1>9, <1>10, <2>1, <2>2, <3>1
    <3>2. CASE ~(i <= k)
      <4>1. i - k \in 1 .. n - k /\ k + (i - k) = i
        BY <1>2, <1>7, <3>2
      <4> QED
        BY <1>2, <1>7, <1>9, <1>10, <2>1, <2>2, <3>2, <4>1
    <3> QED
      BY <3>1, <3>2
  <2> QED
    BY <1>1, <2>1, <2>2, <2>3, SeqEqual DEF n, fl
<1>12. /\ sock \in Seq(Reply) /\ Len(sock) = IF link[c] = "up" THEN m + k ELSE 0
  <2>1. /\ replies[c] \o front \in Seq(Reply) /\ Len(replies[c] \o front) = m + k
    BY <1>1, <1>9, ConcatProperties DEF m
  <2>2. <<>> \in Seq(Reply) /\ Len(<<>>) = 0
    BY EmptySeq
  <2> QED
    BY <1>6, <2>1, <2>2
<1>13. left # <<>> => k < n
  <2> SUFFICES ASSUME ~(k < n) PROVE left = <<>>
    OBVIOUS
  <2>1. Len(left) = 0
    BY <1>2, <1>7, <1>10
  <2> QED
    BY <1>10, <2>1, EmptySeq
<1>14. k < n => out # <<>>
  BY <1>2, <1>7, EmptySeq
<1> HIDE DEF sock, n
<1>15. Len(sock) <= RoomOut /\ (left # <<>> => out # <<>> /\ link[c] = "up" /\ Len(sock) = RoomOut)
  BY <1>2, <1>7, <1>12, <1>13, <1>14
<1> QED
  BY <1>5, <1>9, <1>10, <1>11, <1>12, <1>15 DEF front, out, k, sock

(* The state of a client with other lines.                                 *)
LEMMA RefreshedTyped ==
  ASSUME NEW s \in ClientState, NEW ls \in Seq(Line), NEW t, t = [s EXCEPT !.lines = ls]
  PROVE  /\ t \in ClientState /\ t.lines = ls /\ t.out = s.out /\ t.held = s.held
         /\ t.waiting_for = s.waiting_for /\ t.wants_write = s.wants_write
         /\ t.writable = s.writable
<1>1. t = [lines |-> ls, out |-> s.out, waiting_for |-> s.waiting_for, held |-> s.held,
           wants_write |-> s.wants_write, writable |-> s.writable]
  BY DEF ClientState
<1> QED
  BY <1>1 DEF ClientState

(* The table does not change while the slab stays as it is.                *)
LEMMA TableKept ==
  ASSUME IInv, UNCHANGED <<tableVars, clients>>,
         \A d \in clients : /\ client'[d].held = client[d].held
                            /\ client'[d].waiting_for = client[d].waiting_for
  PROVE  HoldersKnow' /\ QueuesLive'
<1>1. clients \subseteq clients' /\ clients' \subseteq Conns /\ clients' \ clients = {}
  BY DEF IInv, TypeOK
<1>2. UNCHANGED tableVars
  OBVIOUS
<1> QED
  BY <1>1, <1>2, TableUntouched

LEMMA WritableKeeps ==
  ASSUME IInv, NEW c \in Conns, Writable(c)
  PROVE  IInv'
<1> DEFINE left == Left(c)
           st == client[c]
           w == IF left = <<>> THEN FALSE ELSE st.wants_write
           v == IF left = <<>> THEN FALSE ELSE st.writable
           s == [st EXCEPT !.out = left, !.wants_write = w, !.writable = v]
           sock == Sent(c, SubSeq(client[c].out, 1, Takes(c)))
<1>1. /\ TypeOK /\ ClientsTypeOK /\ SlabRight /\ LoopRight /\ OutputKept
  BY DEF IInv, TypeOK
<1>2. /\ pc = "events" /\ cur = None /\ "write" \in batch[c]
      /\ replies' = FlushedReplies({c})
      /\ client' = [client EXCEPT ![c] = s]
      /\ ready' = ready \cup {d \in Rearmed({c}, FALSE) : left = <<>>}
      /\ batch' = [batch EXCEPT ![c] = @ \ {"write"}]
      /\ cur' = IF "read" \in batch[c] THEN c ELSE None
      /\ UNCHANGED <<link, inbox, owned, releasing, sends, backlog, holder, waiters,
                     clients, accepting, doomed, pc>>
  BY DEF Writable, tableVars
<1>3. c \in clients /\ doomed = {}
  BY <1>1, <1>2 DEF LoopRight
<1>4. /\ left \in Seq(Reply) /\ sock \in Seq(Reply) /\ Len(sock) <= RoomOut
      /\ left # <<>> => st.out # <<>>
  BY <1>3, Flushes
<1>5. st \in ClientState /\ w \in BOOLEAN /\ v \in BOOLEAN
      /\ (st.out # <<>> => st.wants_write)
  BY <1>1, <1>3 DEF TypeOK, ClientState, OutputKept
<1>6. /\ replies' = [d \in Conns |-> IF d = c THEN sock ELSE replies[d]]
  BY <1>2 DEF FlushedReplies
<1>16. s = [st EXCEPT !.out = left, !.wants_write = w, !.writable = v]
  OBVIOUS
<1> HIDE DEF left, st, w, v, sock, s
<1>7. /\ s \in ClientState /\ s.out = left /\ s.held = st.held
      /\ s.waiting_for = st.waiting_for /\ s.wants_write = w
  <2>1. s = [lines |-> st.lines, out |-> left, waiting_for |-> st.waiting_for,
             held |-> st.held, wants_write |-> w, writable |-> v]
    BY <1>5, <1>16 DEF ClientState
  <2> QED
    BY <1>4, <1>5, <2>1 DEF ClientState
<1>8. /\ client' \in [Conns -> ClientState] /\ client'[c] = s
      /\ \A d \in Conns : d # c => client'[d] = client[d]
  BY <1>1, <1>2, <1>7 DEF TypeOK
<1>9. replies' \in [Conns -> Seq(Reply)] /\ \A d \in Conns : Len(replies'[d]) <= RoomOut
  BY <1>1, <1>4, <1>6 DEF ClientsTypeOK, OutputKept
<1>10. Rearmed({c}, FALSE) \subseteq {c}
  BY DEF Rearmed
<1>11. batch' \in [Conns -> SUBSET {"read", "write"}] /\ \A d \in Conns : batch'[d] \subseteq batch[d]
  BY <1>1, <1>2 DEF TypeOK
<1>12. TypeOK'
  BY <1>1, <1>2, <1>3, <1>8, <1>9, <1>10, <1>11 DEF TypeOK, ClientsTypeOK
<1>13. SlabRight'
  BY <1>1, <1>2, <1>3, <1>8 DEF SlabRight
<1>14. LoopRight'
  BY <1>1, <1>2, <1>3, <1>11 DEF LoopRight
<1>15. OutputKept'
  <2>1. ASSUME NEW d \in clients, client'[d].out # <<>> PROVE client'[d].wants_write
    <3>1. CASE d = c
      BY <1>4, <1>5, <1>7, <1>8, <2>1, <3>1 DEF w
    <3>2. CASE d # c
      BY <1>1, <1>8, <2>1, <3>2 DEF OutputKept, TypeOK
    <3> QED
      BY <3>1, <3>2
  <2> QED
    BY <1>2, <1>9, <2>1 DEF OutputKept
<1>17. HoldersKnow' /\ QueuesLive'
  <2>1. UNCHANGED <<tableVars, clients>>
    BY <1>2 DEF tableVars
  <2>2. \A d \in clients : /\ client'[d].held = client[d].held
                           /\ client'[d].waiting_for = client[d].waiting_for
    BY <1>1, <1>7, <1>8 DEF TypeOK, st
  <2> QED
    BY <2>1, <2>2, TableKept
<1> QED
  BY <1>12, <1>13, <1>14, <1>15, <1>17 DEF IInv

LEMMA RefreshKeeps ==
  ASSUME IInv, NEW c \in Conns, Refresh(c)
  PROVE  IInv'
<1> DEFINE st == client[c]
           ls == st.lines \o inbox[c]
           s == [st EXCEPT !.lines = ls]
<1>1. /\ TypeOK /\ ClientsTypeOK /\ SlabRight /\ LoopRight /\ OutputKept
  BY DEF IInv, TypeOK
<1>2. /\ pc = "events" /\ "read" \in batch[c]
      /\ client' = [client EXCEPT ![c] = s]
      /\ inbox' = [inbox EXCEPT ![c] = <<>>]
      /\ cur' = c /\ pc' = "lines"
      /\ UNCHANGED <<link, replies, owned, releasing, sends, backlog, holder, waiters,
                     clients, ready, batch, accepting, doomed>>
  BY DEF Refresh, CanRead, tableVars
<1>3. c \in clients /\ doomed = {}
  BY <1>1, <1>2 DEF LoopRight
<1>4. st \in ClientState /\ st.lines \in Seq(Line) /\ inbox[c] \in Seq(Line)
  BY <1>1 DEF TypeOK, ClientState, ClientsTypeOK
<1>5. ls \in Seq(Line)
  BY <1>4, ConcatProperties
<1>15. s = [st EXCEPT !.lines = ls]
  OBVIOUS
<1> HIDE DEF st, ls, s
<1>6. /\ s \in ClientState /\ s.out = st.out /\ s.held = st.held
      /\ s.waiting_for = st.waiting_for /\ s.wants_write = st.wants_write
  BY <1>4, <1>5, <1>15, RefreshedTyped
<1>7. /\ client' \in [Conns -> ClientState] /\ client'[c] = s
      /\ \A d \in Conns : d # c => client'[d] = client[d]
  BY <1>1, <1>2, <1>6 DEF TypeOK
<1>8. inbox' \in [Conns -> Seq(Line)]
  <2>1. <<>> \in Seq(Line)
    BY EmptySeq
  <2> QED
    BY <1>1, <1>2, <2>1 DEF ClientsTypeOK
<1>9. TypeOK'
  BY <1>1, <1>2, <1>3, <1>7, <1>8 DEF TypeOK, ClientsTypeOK
<1>10. SlabRight'
  BY <1>1, <1>2, <1>3, <1>7 DEF SlabRight
<1>11. LoopRight'
  BY <1>1, <1>2, <1>3 DEF LoopRight
<1>12. \A d \in clients : /\ client'[d].out = client[d].out
                          /\ client'[d].wants_write = client[d].wants_write
                          /\ client'[d].held = client[d].held
                          /\ client'[d].waiting_for = client[d].waiting_for
  BY <1>1, <1>6, <1>7 DEF TypeOK, st
<1>13. OutputKept'
  BY <1>1, <1>2, <1>12 DEF OutputKept
<1>14. HoldersKnow' /\ QueuesLive'
  <2>1. UNCHANGED <<tableVars, clients>>
    BY <1>2 DEF tableVars
  <2> QED
    BY <1>12, <2>1, TableKept
<1> QED
  BY <1>9, <1>10, <1>11, <1>13, <1>14 DEF IInv

LEMMA EndOfLinesKeeps ==
  ASSUME IInv, NEW c \in Conns, EndOfLines(c)
  PROVE  IInv'
<1> DEFINE st == client[c]
           s == [st EXCEPT !.writable = st.writable \/ st.wants_write]
<1>1. /\ TypeOK /\ ClientsTypeOK /\ SlabRight /\ LoopRight /\ OutputKept
  BY DEF IInv, TypeOK
<1>2. /\ pc = "lines" /\ cur = c
      /\ client' = [client EXCEPT ![c] = s]
      /\ ready' = ready \cup {d \in Rearmed({c}, TRUE) : st.wants_write}
      /\ batch' = [batch EXCEPT ![c] = {}] /\ cur' = None /\ pc' = "events"
      /\ UNCHANGED <<link, inbox, replies, owned, releasing, sends, backlog, holder, waiters,
                     clients, accepting, doomed>>
  BY DEF EndOfLines, EventDone, clientVars, tableVars
<1>3. c \in clients /\ doomed = {} /\ st \in ClientState
  BY <1>1, <1>2, ClientsAssumption DEF LoopRight, TypeOK
<1> HIDE DEF st
<1>4. s = [lines |-> st.lines, out |-> st.out, waiting_for |-> st.waiting_for, held |-> st.held,
           wants_write |-> st.wants_write, writable |-> st.writable \/ st.wants_write]
  BY <1>3 DEF ClientState
<1> HIDE DEF s
<1>5. /\ s \in ClientState /\ s.out = st.out /\ s.held = st.held
      /\ s.waiting_for = st.waiting_for /\ s.wants_write = st.wants_write
  BY <1>3, <1>4 DEF ClientState
<1>6. /\ client' \in [Conns -> ClientState] /\ client'[c] = s
      /\ \A d \in Conns : d # c => client'[d] = client[d]
  BY <1>1, <1>2, <1>5 DEF TypeOK
<1>7. Rearmed({c}, TRUE) \subseteq {c}
  BY DEF Rearmed
<1>8. TypeOK'
  BY <1>1, <1>2, <1>3, <1>6, <1>7 DEF TypeOK, ClientsTypeOK
<1>9. SlabRight'
  BY <1>1, <1>2, <1>3, <1>6 DEF SlabRight
<1>10. LoopRight'
  BY <1>1, <1>2, <1>3 DEF LoopRight, TypeOK
<1>11. \A d \in clients : /\ client'[d].out = client[d].out
                          /\ client'[d].wants_write = client[d].wants_write
                          /\ client'[d].held = client[d].held
                          /\ client'[d].waiting_for = client[d].waiting_for
  BY <1>1, <1>5, <1>6 DEF TypeOK, st
<1>12. OutputKept'
  BY <1>1, <1>2, <1>11 DEF OutputKept
<1>13. HoldersKnow' /\ QueuesLive'
  <2>1. UNCHANGED <<tableVars, clients>>
    BY <1>2 DEF tableVars
  <2> QED
    BY <1>11, <2>1, TableKept
<1> QED
  BY <1>8, <1>9, <1>10, <1>12, <1>13 DEF IInv

LEMMA FlushKeeps ==
  ASSUME IInv, FlushAll
  PROVE  IInv'
<1> DEFINE flushed == {d \in clients : client[d].wants_write} \ doomed'
           sock(d) == Sent(d, SubSeq(client[d].out, 1, Takes(d)))
           s(d) == [client[d] EXCEPT !.out = Left(d), !.wants_write = Left(d) # <<>>,
                                     !.writable = Left(d) # <<>>]
<1>1. /\ TypeOK /\ ClientsTypeOK /\ SlabRight /\ LoopRight /\ OutputKept
  BY DEF IInv, TypeOK
<1>2. /\ pc = "events" /\ cur = None /\ Quiet
      /\ doomed' \in SUBSET {d \in clients : client[d].wants_write /\ MayFail(d)}
      /\ replies' = FlushedReplies(flushed)
      /\ client' = [d \in Conns |-> IF d \in flushed THEN s(d) ELSE client[d]]
      /\ ready' = ready \cup Rearmed(flushed, FALSE)
      /\ pc' = IF doomed' = {} THEN "poll" ELSE "drop"
      /\ UNCHANGED <<link, inbox, owned, releasing, sends, backlog, holder, waiters,
                     clients, batch, accepting, cur>>
  BY DEF FlushAll, tableVars
<1>3. /\ flushed \subseteq clients /\ flushed \subseteq Conns /\ doomed' \subseteq clients
      /\ \A d \in clients : d \in flushed <=> client[d].wants_write /\ d \notin doomed'
  BY <1>1, <1>2 DEF TypeOK
<1>4. replies' = [d \in Conns |-> IF d \in flushed THEN sock(d) ELSE replies[d]]
  BY <1>2 DEF FlushedReplies
<1>5. ASSUME NEW d \in flushed
      PROVE  /\ s(d) \in ClientState /\ s(d).out = Left(d) /\ s(d).held = client[d].held
             /\ s(d).waiting_for = client[d].waiting_for
             /\ s(d).wants_write = (Left(d) # <<>>) /\ s(d).writable = (Left(d) # <<>>)
             /\ sock(d) \in Seq(Reply) /\ Len(sock(d)) <= RoomOut
             /\ Left(d) # <<>> => link[d] = "up" /\ Len(sock(d)) = RoomOut
  <2> DEFINE left == Left(d)
             st == client[d]
             w == left # <<>>
             t == s(d)
  <2>1. d \in clients
    BY <1>3
  <2>2. /\ left \in Seq(Reply) /\ sock(d) \in Seq(Reply) /\ Len(sock(d)) <= RoomOut
        /\ left # <<>> => link[d] = "up" /\ Len(sock(d)) = RoomOut
    BY <2>1, Flushes
  <2>3. st \in ClientState /\ w \in BOOLEAN
    BY <1>1, <2>1 DEF TypeOK
  <2>4. t = [st EXCEPT !.out = left, !.wants_write = w, !.writable = w]
    OBVIOUS
  <2> HIDE DEF left, w, st, s, sock, t
  <2>5. t = [lines |-> st.lines, out |-> left, waiting_for |-> st.waiting_for,
             held |-> st.held, wants_write |-> w, writable |-> w]
    BY <2>3, <2>4 DEF ClientState
  <2>6. /\ t \in ClientState /\ t.out = left /\ t.held = st.held
        /\ t.waiting_for = st.waiting_for /\ t.wants_write = w /\ t.writable = w
    BY <2>2, <2>3, <2>5 DEF ClientState
  <2> QED
    BY <2>2, <2>6 DEF left, w, t, st
<1> HIDE DEF flushed, s, sock
<1>6. /\ \A d \in flushed : client'[d] = s(d) /\ replies'[d] = sock(d)
      /\ \A d \in Conns \ flushed : client'[d] = client[d] /\ replies'[d] = replies[d]
  BY <1>2, <1>3, <1>4
<1>7. client' \in [Conns -> ClientState]
  BY <1>1, <1>2, <1>5 DEF TypeOK
<1>8. replies' \in [Conns -> Seq(Reply)] /\ \A d \in Conns : Len(replies'[d]) <= RoomOut
  BY <1>1, <1>4, <1>5 DEF ClientsTypeOK, OutputKept
<1>9. Rearmed(flushed, FALSE) \subseteq flushed
  BY DEF Rearmed
<1>10. TypeOK'
  BY <1>1, <1>2, <1>3, <1>7, <1>8, <1>9 DEF TypeOK, ClientsTypeOK
<1>11. SlabRight'
  BY <1>1, <1>2, <1>3, <1>6 DEF SlabRight
<1>12. LoopRight'
  <2>1. \A d \in Conns : batch[d] = {}
    BY <1>2 DEF Quiet
  <2> QED
    BY <1>2, <2>1 DEF LoopRight
<1>13. OutputKept'
  <2> SUFFICES ASSUME NEW d \in clients, client'[d].out # <<>>
               PROVE  client'[d].wants_write /\ (d \notin doomed' => Armed(d)')
    BY <1>2, <1>8 DEF OutputKept
  <2>1. CASE d \in flushed
    <3>1. /\ client'[d] = s(d) /\ Left(d) # <<>> /\ link'[d] = "up"
          /\ Len(replies'[d]) = RoomOut
      BY <1>2, <1>5, <1>6, <2>1
    <3>2. client'[d].wants_write /\ client'[d].writable
      BY <1>5, <2>1, <3>1
    <3>3. Room(d)' = 0
      <4>1. RoomOut \in Nat
        BY ClientsAssumption
      <4>2. Room(d)' = RoomOut - Len(replies'[d])
        BY <3>1 DEF Room
      <4> QED
        BY <3>1, <4>1, <4>2
    <3> QED
      BY <3>2, <3>3 DEF Armed
  <2>2. CASE d \notin flushed
    <3>1. client'[d] = client[d]
      BY <1>1, <1>6, <2>2 DEF TypeOK
    <3>2. client[d].wants_write
      BY <1>1, <3>1 DEF OutputKept
    <3> QED
      BY <1>3, <2>2, <3>1, <3>2
  <2> QED
    BY <2>1, <2>2
<1>14. HoldersKnow' /\ QueuesLive'
  <2>1. UNCHANGED <<tableVars, clients>>
    BY <1>2 DEF tableVars
  <2>2. ASSUME NEW d \in clients
        PROVE  /\ client'[d].held = client[d].held
               /\ client'[d].waiting_for = client[d].waiting_for
    BY <1>1, <1>5, <1>6 DEF TypeOK
  <2> QED
    BY <2>1, <2>2, TableKept
<1> QED
  BY <1>10, <1>11, <1>12, <1>13, <1>14 DEF IInv

-----------------------------------------------------------------------------
(* The clients                                                             *)

Peer(c) == Opens(c) \/ SendsLine(c) \/ Closes(c) \/ Reads(c)

(* A client changes its own socket, and the poll looks at more sockets: at *)
(* its own when room appears in a socket that was full.                    *)
LEMMA PeerMoves ==
  ASSUME IInv, NEW c \in Conns, Peer(c)
  PROVE  /\ ClientsTypeOK' /\ ready \subseteq ready' /\ ready' \subseteq clients
         /\ UNCHANGED <<holder, waiters, clients, client, batch, accepting, doomed, cur, pc>>
         /\ \A d \in Conns : d # c => link'[d] = link[d] /\ replies'[d] = replies[d]
         /\ link'[c] # "new" /\ Len(replies'[c]) <= RoomOut
         /\ \/ link[c] = "new" /\ backlog' = backlog \cup {c}
            \/ link[c] # "new" /\ backlog' = backlog
         /\ \A d \in clients : Armed(d) => Armed(d)'
<1>1. /\ TypeOK /\ ClientsTypeOK /\ SlabRight /\ OutputKept
      /\ replies[c] \in Seq(Reply) /\ Len(replies[c]) <= RoomOut
  BY DEF IInv, TypeOK, ClientsTypeOK, OutputKept
<1>2. Len(replies[c]) \in Nat /\ RoomOut \in Nat /\ <<>> \in Seq(Reply) /\ Len(<<>>) = 0
  BY <1>1, LenProperties, EmptySeq, ClientsAssumption
<1>3. CASE Opens(c)
  <2>1. /\ Connect(c) /\ backlog' = backlog \cup {c}
        /\ UNCHANGED <<holder, waiters, clients, client, ready, batch, accepting, doomed, cur, pc>>
    BY <1>3 DEF Opens, tableVars, slabVars, loopVars
  <2>2. /\ link[c] = "new" /\ link'[c] = "up" /\ replies' = replies
        /\ \A d \in Conns : d # c => link'[d] = link[d]
    BY <1>1, <2>1 DEF Connect, ClientsTypeOK
  <2>3. ClientsTypeOK'
    BY <1>1, <2>1, ClientTyped
  <2>4. c \notin clients
    BY <1>1, <2>2 DEF SlabRight
  <2>5. \A d \in clients : Armed(d) => Armed(d)'
    BY <1>1, <2>1, <2>2, <2>4 DEF Armed, Room, TypeOK
  <2> QED
    BY <1>1, <2>1, <2>2, <2>3, <2>5 DEF TypeOK
<1>4. CASE SendsLine(c)
  <2>1. /\ (\E r \in Line : Send(c, r)) /\ Notifies(c, TRUE)
        /\ UNCHANGED <<backlog, holder, waiters, clients, client, batch, accepting, doomed, cur, pc>>
    BY <1>4 DEF SendsLine, tableVars, loopVars
  <2>2. link[c] = "up" /\ link' = link /\ replies' = replies
    BY <2>1 DEF Send
  <2>3. ClientsTypeOK'
    BY <1>1, <2>1, ClientTyped
  <2>4. ready \subseteq ready' /\ ready' \subseteq clients
    BY <1>1, <2>1 DEF Notifies, TypeOK
  <2>5. \A d \in clients : Armed(d) => Armed(d)'
    BY <2>1, <2>2, <2>4 DEF Armed, Room
  <2> QED
    BY <1>1, <2>1, <2>2, <2>3, <2>4, <2>5
<1>5. CASE Closes(c)
  <2>1. /\ HangUp(c) /\ Notifies(c, TRUE)
        /\ UNCHANGED <<backlog, holder, waiters, clients, client, batch, accepting, doomed, cur, pc>>
    BY <1>5 DEF Closes, tableVars, loopVars
  <2>2. /\ link[c] = "up" /\ link'[c] = "closed" /\ replies'[c] = <<>>
        /\ \A d \in Conns : d # c => link'[d] = link[d] /\ replies'[d] = replies[d]
    BY <1>1, <2>1 DEF HangUp, ClientsTypeOK
  <2>3. ClientsTypeOK'
    BY <1>1, <2>1, ClientTyped
  <2>4. ready \subseteq ready' /\ ready' \subseteq clients /\ (c \in clients => c \in ready')
    BY <1>1, <2>1 DEF Notifies, TypeOK
  <2>5. \A d \in clients : Armed(d) => Armed(d)'
    BY <1>1, <2>1, <2>2, <2>4 DEF Armed, Room, TypeOK
  <2> QED
    BY <1>1, <1>2, <2>1, <2>2, <2>3, <2>4, <2>5
<1>6. CASE Reads(c)
  <2>1. /\ Receive(c) /\ Notifies(c, client[c].writable /\ Room(c) = 0)
        /\ UNCHANGED <<backlog, holder, waiters, clients, client, batch, accepting, doomed, cur, pc>>
    BY <1>6 DEF Reads, tableVars, loopVars
  <2>2. /\ link[c] = "up" /\ link' = link /\ replies[c] # <<>> /\ replies'[c] = Tail(replies[c])
        /\ \A d \in Conns : d # c => replies'[d] = replies[d]
    BY <1>1, <2>1 DEF Receive, ClientsTypeOK
  <2>3. ClientsTypeOK'
    BY <1>1, <2>1, ClientTyped
  <2>4. /\ ready \subseteq ready' /\ ready' \subseteq clients
        /\ c \in clients /\ client[c].writable /\ Room(c) = 0 => c \in ready'
    BY <1>1, <2>1 DEF Notifies, TypeOK
  <2>5. \A d \in clients : Armed(d) => Armed(d)'
    BY <1>1, <2>1, <2>2, <2>4 DEF Armed, Room, TypeOK
  <2>6. Len(replies'[c]) <= RoomOut
    <3>1. Len(Tail(replies[c])) = Len(replies[c]) - 1
      BY <1>1, <2>2, HeadTailProperties
    <3> QED
      BY <1>1, <1>2, <2>2, <3>1
  <2> QED
    BY <1>1, <2>1, <2>2, <2>3, <2>4, <2>5, <2>6
<1> QED
  BY <1>3, <1>4, <1>5, <1>6 DEF Peer

LEMMA PeerKeeps ==
  ASSUME IInv, NEW c \in Conns, Peer(c)
  PROVE  IInv'
<1>1. /\ TypeOK /\ SlabRight /\ LoopRight /\ OutputKept
  BY DEF IInv
<1>2. /\ ClientsTypeOK' /\ ready' \subseteq clients
      /\ UNCHANGED <<holder, waiters, clients, client, batch, accepting, doomed, cur, pc>>
      /\ \A d \in Conns : d # c => link'[d] = link[d] /\ replies'[d] = replies[d]
      /\ link'[c] # "new" /\ Len(replies'[c]) <= RoomOut
      /\ \/ link[c] = "new" /\ backlog' = backlog \cup {c}
         \/ link[c] # "new" /\ backlog' = backlog
      /\ \A d \in clients : Armed(d) => Armed(d)'
  BY PeerMoves
<1>3. TypeOK'
  BY <1>1, <1>2 DEF TypeOK
<1>4. SlabRight'
  BY <1>1, <1>2 DEF SlabRight
<1>5. LoopRight'
  BY <1>1, <1>2 DEF LoopRight
<1>6. OutputKept'
  BY <1>1, <1>2 DEF OutputKept
<1>7. HoldersKnow' /\ QueuesLive'
  BY <1>2 DEF IInv, HoldersKnow, QueuesLive
<1> QED
  BY <1>3, <1>4, <1>5, <1>6, <1>7 DEF IInv

-----------------------------------------------------------------------------
(* The invariant                                                           *)

LEMMA InitInv == Init => IInv
<1> SUFFICES ASSUME Init PROVE IInv
  OBVIOUS
<1>1. \A S : <<>> \in Seq(S)
  BY EmptySeq
<1>2. Len(<<>>) = 0 /\ RoomOut \in Nat /\ 0 \in 0 .. MaxSends
  BY EmptySeq, ClientsAssumption
<1>3. /\ holder = [l \in Locks |-> None] /\ waiters = [l \in Locks |-> <<>>]
      /\ backlog = {} /\ clients = {} /\ ready = {} /\ doomed = {} /\ cur = None /\ pc = "poll"
      /\ client = [c \in Conns |-> Fresh] /\ batch = [c \in Conns |-> {}] /\ accepting = FALSE
      /\ link = [c \in Conns |-> "new"] /\ inbox = [c \in Conns |-> <<>>]
      /\ replies = [c \in Conns |-> <<>>] /\ owned = [c \in Conns |-> {}]
      /\ releasing = [c \in Conns |-> {}] /\ sends = [c \in Conns |-> 0]
  BY DEF Init, ClientsInit
<1>4. TypeOK
  BY <1>1, <1>2, <1>3, FreshTyped DEF TypeOK, ClientsTypeOK
<1>5. SlabRight /\ LoopRight /\ OutputKept
  BY <1>2, <1>3 DEF SlabRight, LoopRight, OutputKept
<1>6. HoldersKnow
  BY <1>3, ClientsAssumption DEF HoldersKnow
<1>7. QueuesLive
  BY <1>3, EmptyQueue DEF QueuesLive
<1> QED
  BY <1>4, <1>5, <1>6, <1>7 DEF IInv

(* The steps of the loop.                                                  *)
LEMMA ServerKeeps == ASSUME IInv, Server PROVE IInv'
<1>1. CASE Poll \/ Accept \/ FlushAll
  BY <1>1, PollKeeps, AcceptKeeps, FlushKeeps
<1> SUFFICES ASSUME NEW c \in Conns,
                    \/ Writable(c) \/ WriteError(c) \/ Refresh(c) \/ ReadError(c)
                    \/ AcquireRejected(c) \/ AcquireFree(c) \/ AcquireWait(c) \/ TryAcquire(c)
                    \/ ReleaseRejected(c) \/ Release(c) \/ Query(c) \/ SkipBlank(c)
                    \/ FrameError(c) \/ EndOfLines(c) \/ Drop(c)
             PROVE  IInv'
  BY <1>1 DEF Server
<1>0. TypeOK /\ LoopRight
  BY DEF IInv
<1>2. CASE WriteError(c) \/ ReadError(c) \/ FrameError(c)
  <2>1. /\ pc # "drop" /\ Disconnect(c) /\ EventDone(c) /\ UNCHANGED <<accepting, doomed>>
        /\ batch[c] # {} \/ NextLine(c, {"INVALID", "LONG"})
    BY <1>2 DEF WriteError, ReadError, CanRead, FrameError, NextLine
  <2>2. c \in clients
    BY <1>0, <2>1, LineIs DEF LoopRight
  <2> QED
    BY <2>1, <2>2, EventEnds
<1>3. CASE Writable(c) \/ Refresh(c) \/ EndOfLines(c) \/ Drop(c)
  BY <1>3, WritableKeeps, RefreshKeeps, EndOfLinesKeeps, DropKeeps
<1>4. CASE AcquireRejected(c)
  <2>1. /\ NextLine(c, {"ACQUIRE"}) /\ Becomes(c, Replied(c, "ALREADY_HELD", Asked(c)))
        /\ UNCHANGED tableVars
    BY <1>4 DEF AcquireRejected
  <2>2. [kind |-> "ALREADY_HELD", lock |-> Asked(c)] \in Reply
    BY <2>1, LineIs DEF Reply, Asks
  <2> QED
    BY <2>1, <2>2, AnswerKeeps
<1>5. CASE AcquireFree(c)
  <2>1. /\ NextLine(c, {"ACQUIRE"}) /\ holder[Asked(c)] = None
        /\ holder' = [holder EXCEPT ![Asked(c)] = c] /\ waiters' = waiters
        /\ Becomes(c, Holding(Replied(c, "GRANTED", Asked(c)), Asked(c)))
    BY <1>5 DEF AcquireFree
  <2>2. {"ACQUIRE"} \subseteq Asks
    BY DEF Asks
  <2> QED
    BY <2>1, <2>2, GrantKeeps
<1>6. CASE AcquireWait(c)
  BY <1>6, WaitKeeps
<1>7. CASE TryAcquire(c)
  <2>1. NextLine(c, {"TRY_ACQUIRE"}) /\ waiters' = waiters /\ {"TRY_ACQUIRE"} \subseteq Asks
    BY <1>7 DEF TryAcquire, Asks
  <2>2. CASE holder[Asked(c)] = None
    <3>1. /\ holder' = [holder EXCEPT ![Asked(c)] = c]
          /\ Becomes(c, Holding(Replied(c, "GRANTED", Asked(c)), Asked(c)))
      BY <1>7, <2>2 DEF TryAcquire
    <3> QED
      BY <2>1, <2>2, <3>1, GrantKeeps
  <2>3. CASE holder[Asked(c)] # None
    <3>1. Becomes(c, Replied(c, "DENIED", Asked(c))) /\ UNCHANGED tableVars
      BY <1>7, <2>3 DEF TryAcquire, tableVars
    <3>2. [kind |-> "DENIED", lock |-> Asked(c)] \in Reply
      BY <2>1, LineIs DEF Reply
    <3> QED
      BY <2>1, <3>1, <3>2, AnswerKeeps
  <2> QED
    BY <2>2, <2>3
<1>8. CASE ReleaseRejected(c)
  <2>1. /\ NextLine(c, {"RELEASE"}) /\ Becomes(c, Replied(c, "NOT_HELD", Asked(c)))
        /\ UNCHANGED tableVars
    BY <1>8 DEF ReleaseRejected
  <2>2. [kind |-> "NOT_HELD", lock |-> Asked(c)] \in Reply
    BY <2>1, LineIs DEF Reply, Asks
  <2> QED
    BY <2>1, <2>2, AnswerKeeps
<1>9. CASE Release(c)
  BY <1>9, ReleaseKeeps
<1>10. CASE Query(c)
  <2>1. /\ NextLine(c, {"QUERY", "LONG"}) /\ Becomes(c, Replied(c, "INFO", None))
        /\ UNCHANGED tableVars
    BY <1>10 DEF Query
  <2>2. [kind |-> "INFO", lock |-> None] \in Reply
    BY DEF Reply
  <2> QED
    BY <2>1, <2>2, AnswerKeeps
<1>11. CASE SkipBlank(c)
  BY <1>11, SkipKeeps
<1> QED
  BY <1>2, <1>3, <1>4, <1>5, <1>6, <1>7, <1>8, <1>9, <1>10, <1>11

LEMMA NextInv == IInv /\ [Next]_vars => IInv'
<1> SUFFICES ASSUME IInv, [Next]_vars PROVE IInv'
  OBVIOUS
<1>1. CASE UNCHANGED vars
  BY <1>1 DEF vars, clientVars, tableVars, slabVars, loopVars, IInv, TypeOK, ClientsTypeOK,
              SlabRight, LoopRight, OutputKept, Armed, Room, HoldersKnow, QueuesLive
<1>2. ASSUME NEW c \in Conns, Peer(c) PROVE IInv'
  BY <1>2, PeerKeeps
<1> QED
  BY <1>1, <1>2, ServerKeeps DEF Next, Peer

(* The loop keeps all of it, for any connections, locks and buffer sizes.  *)
THEOREM LoopInvariance == Spec => []IInv
BY InitInv, NextInv, PTL DEF Spec

(* The table, the slab, the buffers and the events keep their types: an    *)
(* event, a line, a flush and to_disconnect only ever concern connections  *)
(* that are in the slab.                                                   *)
THEOREM Typing == Spec => []TypeOK
<1>1. IInv => TypeOK
  BY DEF IInv
<1> QED
  BY <1>1, LoopInvariance, PTL

(* LockEntry.holder and the held lists of the clients agree, also while    *)
(* one disconnect passes several locks on to the same client.              *)
THEOREM HoldersAgree == Spec => []HoldersKnow
<1>1. IInv => HoldersKnow
  BY DEF IInv
<1> QED
  BY <1>1, LoopInvariance, PTL

(* Nobody waits who is gone, who waits already, who holds the lock, or     *)
(* when the lock is free; waiting_for names a queue the client is in.      *)
THEOREM QueuesAgree == Spec => []QueuesLive
<1>1. IInv => QueuesLive
  BY DEF IInv
<1> QED
  BY <1>1, LoopInvariance, PTL

(* With edge-triggered readiness no reply is left in a buffer without an   *)
(* event to come when the thread sleeps in poll.                           *)
THEOREM OutputWakes == Spec => []OutputArmed
<1>1. IInv => OutputArmed
  BY DEF IInv, LoopRight, OutputKept, OutputArmed, Armed
<1> QED
  BY <1>1, LoopInvariance, PTL

-----------------------------------------------------------------------------
(* The clients and the table                                               *)

(* What is on the way between the client of c and the table: the lines the *)
(* server has read or not, the replies it has written or not.              *)
In(c) == client[c].lines \o inbox[c]
Out(c) == replies[c] \o client[c].out
HeldBy(c) == {l \in Locks : holder[l] = c}

SocketSound(c) ==
  /\ link[c] = "up" => Sound(In(c), Out(c), owned[c], releasing[c], HeldBy(c))
  /\ link[c] # "up" => owned[c] = {}
  /\ link[c] = "new" => inbox[c] = <<>> /\ replies[c] = <<>> /\ releasing[c] = {}

SocketsSound == \A c \in Conns : SocketSound(c)

SInv == IInv /\ SocketsSound

(* A client owns only what it holds.                                       *)
OwnersHold == \A c \in Conns, l \in Locks : l \in owned[c] => holder[l] = c

LEMMA Typed ==
  ASSUME TypeOK, NEW c \in Conns
  PROVE  /\ client[c] \in ClientState
         /\ client[c].lines \in Seq(Line) /\ inbox[c] \in Seq(Line) /\ In(c) \in Seq(Line)
         /\ client[c].out \in Seq(Reply) /\ replies[c] \in Seq(Reply) /\ Out(c) \in Seq(Reply)
<1>1. /\ client[c] \in ClientState
      /\ client[c].lines \in Seq(Line) /\ inbox[c] \in Seq(Line)
      /\ client[c].out \in Seq(Reply) /\ replies[c] \in Seq(Reply)
  BY DEF TypeOK, ClientsTypeOK, ClientState
<1> QED
  BY <1>1, ConcatProperties DEF In, Out

(* A connection with nothing new but, perhaps, locks.                      *)
LEMMA SameSocket ==
  ASSUME NEW c \in Conns, SocketSound(c),
         link'[c] = link[c], inbox'[c] = inbox[c], replies'[c] = replies[c],
         owned'[c] = owned[c], releasing'[c] = releasing[c],
         client'[c].lines = client[c].lines, client'[c].out = client[c].out,
         \A l \in Locks : holder[l] = c => holder'[l] = c
  PROVE  SocketSound(c)'
<1>1. In(c)' = In(c) /\ Out(c)' = Out(c) /\ HeldBy(c) \subseteq HeldBy(c)'
  BY DEF In, Out, HeldBy
<1>2. ASSUME link[c] = "up"
      PROVE  Sound(In(c), Out(c), owned[c], releasing[c], HeldBy(c)')
  <2>1. Sound(In(c), Out(c), owned[c], releasing[c], HeldBy(c))
    BY <1>2 DEF SocketSound
  <2> QED
    BY <1>1, <2>1, MoreHeld
<1> QED
  BY <1>1, <1>2 DEF SocketSound

(* Who is granted a lock of names: the one that waits for it longest.      *)
LEMMA Granted ==
  ASSUME NEW q, NEW names \in Seq(Locks), NEW d
  PROVE  /\ Gets(names, q, d) \in Seq(Locks)
         /\ \A l : l \in Range(Gets(names, q, d)) <=> l \in Range(names) /\ Service!First(q[l]) = d
<1> DEFINE S == {l \in Locks : Service!First(q[l]) = d}
<1>1. Gets(names, q, d) = Retain(names, S)
  BY DEF Gets
<1>2. \A l : l \in Range(names) /\ l \in S <=> l \in Range(names) /\ Service!First(q[l]) = d
  BY RangeOfSeq
<1> HIDE DEF S
<1>3. /\ Retain(names, S) \in Seq(Locks)
      /\ Range(Retain(names, S)) = Range(names) \cap S
  BY Retained
<1> QED
  BY <1>1, <1>2, <1>3

(* A promotion: whoever is granted locks holds them, whether or not it     *)
(* knows; the locks in names are held by nobody the lemma is used for.     *)
LEMMA PromotionSound ==
  ASSUME TypeOK, NEW slab \in SUBSET Conns, NEW q \in [Locks -> Seq(Conns)],
         \A l \in Locks : Range(q[l]) \subseteq slab,
         NEW names \in Seq(Locks), NEW s \in [Conns -> ClientState],
         PromoteAndNotify(names, q, slab, s),
         NEW d \in Conns, NEW in, NEW out \in Seq(Reply), NEW own, NEW rel, NEW h,
         \A l \in h : l \in Locks /\ holder[l] = d /\ l \notin Range(names),
         Sound(s[d].lines \o in, out \o s[d].out, own, rel, h)
  PROVE  Sound(client'[d].lines \o in, out \o client'[d].out, own, rel, HeldBy(d)')
<1> DEFINE ls == Gets(names, q, d)
           g == Grants(ls)
<1>1. Passes(names, q, slab, s)
  BY PromotionIs
<1>2. /\ client'[d] = IF d \in slab /\ ls # <<>> THEN Promoted(s[d], ls) ELSE s[d]
      /\ \A l \in Locks : holder'[l] = IF l \in Range(names) THEN Service!First(q[l]) ELSE holder[l]
  BY <1>1 DEF Passes
<1>3. /\ ls \in Seq(Locks)
      /\ \A l : l \in Range(ls) <=> l \in Range(names) /\ Service!First(q[l]) = d
  BY Granted
<1>4. Range(names) \subseteq Locks
  BY RangeOfSeq
<1>5. h \subseteq HeldBy(d)' /\ Range(ls) \subseteq HeldBy(d)'
  BY <1>2, <1>3, <1>4 DEF HeldBy
<1>6. /\ g \in Seq(Reply) /\ Len(g) = Len(ls)
      /\ \A i \in 1 .. Len(ls) : g[i] = [kind |-> "GRANTED", lock |-> ls[i]]
  BY <1>3, GrantsTyped
<1> HIDE DEF ls, g
<1>7. \A i \in 1 .. Len(g) : g[i].kind = "GRANTED" /\ g[i].lock \in HeldBy(d)'
  <2>1. DOMAIN ls = 1 .. Len(ls)
    BY <1>3, LenProperties
  <2>2. \A i \in 1 .. Len(ls) : ls[i] \in HeldBy(d)'
    BY <1>5, <2>1 DEF Range
  <2> TAKE i \in 1 .. Len(g)
  <2>3. i \in 1 .. Len(ls) /\ g[i] = [kind |-> "GRANTED", lock |-> ls[i]]
    BY <1>6
  <2> QED
    BY <2>2, <2>3
<1>8. s[d] \in ClientState /\ s[d].out \in Seq(Reply)
  BY DEF ClientState
<1>9. /\ client'[d].lines = s[d].lines
      /\ client'[d].out = s[d].out \/ client'[d].out = s[d].out \o g
  <2>1. Promoted(s[d], ls).lines = s[d].lines /\ Promoted(s[d], ls).out = s[d].out \o g
    BY <1>3, <1>8, PromotedTyped DEF g
  <2> QED
    BY <1>2, <2>1
<1>10. Sound(s[d].lines \o in, out \o s[d].out, own, rel, HeldBy(d)')
  BY <1>5, MoreHeld
<1>11. Sound(s[d].lines \o in, out \o (s[d].out \o g), own, rel, HeldBy(d)')
  <2> DEFINE o == out \o s[d].out
             k == HeldBy(d)'
             lines == s[d].lines \o in
  <2> DEFINE p == s[d].out
  <2>0. p \in Seq(Reply)
    BY <1>8
  <2>1. o \in Seq(Reply) /\ out \o (s[d].out \o g) = o \o g
    <3> HIDE DEF p
    <3>1. out \o p \in Seq(Reply)
      BY <2>0, ConcatProperties
    <3>2. (out \o p) \o g = out \o (p \o g)
      <4>1. out \in Seq(Reply) /\ g \in Seq(Reply)
        BY <1>6
      <4> QED
        BY ONLY <2>0, <4>1, ConcatAssociative, SMTT(30)
    <3> QED
      BY <3>1, <3>2 DEF p
  <2>2. Sound(lines, o, own, rel, k)
    BY <1>10
  <2>3. \A i \in 1 .. Len(g) : g[i].kind = "GRANTED" /\ g[i].lock \in k
    BY <1>7
  <2> HIDE DEF o, k, lines
  <2>4. Sound(lines, o \o g, own, rel, k)
    BY <1>6, <2>1, <2>2, <2>3, GrantsWritten
  <2> QED
    BY <2>1, <2>4 DEF k, lines
<1> QED
  BY <1>9, <1>10, <1>11

(* The server takes the line of c that it is at.                           *)
LEMMA LineGone ==
  ASSUME TypeOK, NEW c \in Conns, client[c].lines # <<>>
  PROVE  /\ In(c) \in Seq(Line) /\ In(c) # <<>>
         /\ Head(In(c)) = Head(client[c].lines)
         /\ Tail(client[c].lines) \o inbox[c] = Tail(In(c))
<1> DEFINE p == client[c].lines
           q == inbox[c]
<1>1. p \in Seq(Line) /\ q \in Seq(Line) /\ p # <<>> /\ In(c) = p \o q
  BY Typed DEF In
<1> HIDE DEF p, q
<1>2. p \o q \in Seq(Line) /\ p \o q # <<>> /\ Head(p \o q) = Head(p) /\ Tail(p \o q) = Tail(p) \o q
  BY <1>1, ConcatHead
<1> QED
  BY <1>1, <1>2 DEF p, q

(* The server puts a reply in the buffer of c.                             *)
LEMMA ReplyAdded ==
  ASSUME TypeOK, NEW c \in Conns, NEW r \in Reply
  PROVE  replies[c] \o Append(client[c].out, r) = Append(Out(c), r)
<1> DEFINE p == replies[c]
           q == client[c].out
<1>1. p \in Seq(Reply) /\ q \in Seq(Reply) /\ Out(c) = p \o q
  BY Typed DEF Out
<1> HIDE DEF p, q
<1>2. p \o Append(q, r) = Append(p \o q, r)
  BY <1>1, ConcatAppend
<1> QED
  BY <1>1, <1>2 DEF p, q

(* A line that is answered and does not promote anybody. Only a RELEASE is *)
(* answered as one.                                                        *)
LEMMA AnswerSound ==
  ASSUME SInv, NEW c \in Conns, NEW kinds, NextLine(c, kinds),
         NEW kind, NEW l, [kind |-> kind, lock |-> l] \in Reply,
         NEW s, Becomes(c, s),
         s.lines = Tail(client[c].lines),
         s.out = Append(client[c].out, [kind |-> kind, lock |-> l]),
         kind # "OK", kind = "NOT_HELD" => Releases(Head(client[c].lines), l),
         kind = "GRANTED" => holder'[l] = c,
         \A m \in Locks, d \in Conns : holder[m] = d => holder'[m] = d
  PROVE  SocketsSound'
<1> DEFINE r == [kind |-> kind, lock |-> l]
           in == In(c)
           out == Out(c)
<1>1. /\ TypeOK /\ client[c].lines # <<>> /\ \A d \in Conns : SocketSound(d)
      /\ client' = [client EXCEPT ![c] = s]
      /\ UNCHANGED <<link, inbox, replies, owned, releasing>>
  BY DEF SInv, IInv, SocketsSound, NextLine, Becomes, clientVars
<1>2. client'[c] = s /\ \A d \in Conns : d # c => client'[d] = client[d]
  BY <1>1 DEF TypeOK
<1>3. ASSUME NEW d \in Conns, d # c PROVE SocketSound(d)'
  BY <1>1, <1>2, <1>3, SameSocket
<1>4. SocketSound(c)'
  <2>1. /\ client[c].lines \in Seq(Line) /\ inbox[c] \in Seq(Line) /\ in \in Seq(Line)
        /\ client[c].out \in Seq(Reply) /\ replies[c] \in Seq(Reply) /\ out \in Seq(Reply)
    BY <1>1, Typed
  <2>2. /\ in # <<>> /\ Head(in) = Head(client[c].lines) /\ In(c)' = Tail(in)
    BY <1>1, <1>2, LineGone DEF In
  <2>3. Out(c)' = Append(out, r)
    <3> HIDE DEF r
    <3>1. s.out = Append(client[c].out, r) /\ r \in Reply
      BY DEF r
    <3>2. replies[c] \o Append(client[c].out, r) = Append(Out(c), r)
      BY <1>1, <3>1, ReplyAdded
    <3>3. Out(c)' = replies[c] \o s.out
      BY <1>1, <1>2 DEF Out
    <3> QED
      BY <3>1, <3>2, <3>3
  <2>4. ASSUME link[c] = "up"
        PROVE  Sound(Tail(in), Append(out, r), owned[c], releasing[c], HeldBy(c)')
    <3>1. Sound(in, out, owned[c], releasing[c], HeldBy(c))
      BY <1>1, <2>4 DEF SocketSound
    <3>2. \A m \in Locks : AnswersRelease(r, m) => Releases(Head(in), m)
      BY <2>2 DEF AnswersRelease
    <3>3. \A m \in Locks : IsGrant(r, m) => m \in HeldBy(c)'
      BY DEF IsGrant, HeldBy
    <3>4. HeldBy(c) \ HeldBy(c)' = {} /\ HeldBy(c) \subseteq Locks /\ r \in Reply
      BY DEF HeldBy
    <3> HIDE DEF r, in, out
    <3> QED
      BY <2>1, <2>2, <3>1, <3>2, <3>3, <3>4, LineAnswered
  <2> QED
    BY <1>1, <2>2, <2>3, <2>4 DEF SocketSound
<1> QED
  BY <1>3, <1>4 DEF SocketsSound

(* A line that is not answered.                                            *)
LEMMA SilenceSound ==
  ASSUME SInv, NEW c \in Conns, NEW kinds, NextLine(c, kinds),
         NEW s, Becomes(c, s),
         s.lines = Tail(client[c].lines), s.out = client[c].out,
         holder' = holder
  PROVE  SocketsSound'
<1> DEFINE in == In(c)
           out == Out(c)
<1>1. /\ TypeOK /\ client[c].lines # <<>> /\ \A d \in Conns : SocketSound(d)
      /\ client' = [client EXCEPT ![c] = s]
      /\ UNCHANGED <<link, inbox, replies, owned, releasing>>
  BY DEF SInv, IInv, SocketsSound, NextLine, Becomes, clientVars
<1>2. client'[c] = s /\ \A d \in Conns : d # c => client'[d] = client[d]
  BY <1>1 DEF TypeOK
<1>3. ASSUME NEW d \in Conns, d # c PROVE SocketSound(d)'
  BY <1>1, <1>2, <1>3, SameSocket
<1>4. SocketSound(c)'
  <2>1. /\ client[c].lines \in Seq(Line) /\ inbox[c] \in Seq(Line) /\ in \in Seq(Line)
    BY <1>1, Typed
  <2>2. /\ in # <<>> /\ In(c)' = Tail(in) /\ Out(c)' = out /\ HeldBy(c)' = HeldBy(c)
    BY <1>1, <1>2, LineGone DEF In, Out, HeldBy
  <2>3. link[c] = "up" => Sound(Tail(in), out, owned[c], releasing[c], HeldBy(c))
    <3>1. link[c] = "up" => Sound(in, out, owned[c], releasing[c], HeldBy(c))
      BY <1>1 DEF SocketSound
    <3> HIDE DEF in, out
    <3> QED
      BY <2>1, <2>2, <3>1, LineTaken
  <2> QED
    BY <1>1, <2>2, <2>3 DEF SocketSound
<1> QED
  BY <1>3, <1>4 DEF SocketsSound

(* The lock a client releases is not one that it owns.                     *)
LEMMA ReleasedNotOwned ==
  ASSUME SInv, NEW c \in Conns, NextLine(c, {"RELEASE"})
  PROVE  Asked(c) \in Locks /\ Asked(c) \notin owned[c]
<1>1. /\ IInv /\ TypeOK /\ SocketSound(c) /\ {"RELEASE"} \subseteq Asks
      /\ client[c].lines # <<>>
  BY DEF SInv, IInv, SocketsSound, Asks, NextLine
<1>2. Asked(c) \in Locks
  BY <1>1, LineIs
<1>3. CASE link[c] = "up"
  <2> DEFINE in == In(c)
  <2>1. /\ in \in Seq(Line) /\ in # <<>> /\ Head(in) = Head(client[c].lines)
    BY <1>1, LineGone
  <2>2. 1 \in 1 .. Len(in) /\ Head(in) = in[1]
    <3> HIDE DEF in
    <3> QED
      BY <2>1, LenProperties, EmptySeq
  <2>3. Releases(in[1], Asked(c))
    BY <2>1, <2>2 DEF Releases, Asked, NextLine
  <2>4. Sound(in, Out(c), owned[c], releasing[c], HeldBy(c))
    BY <1>1, <1>3 DEF SocketSound
  <2> HIDE DEF in
  <2> QED
    BY <1>2, <2>2, <2>3, <2>4 DEF Sound
<1>4. CASE link[c] # "up"
  BY <1>1, <1>2, <1>4 DEF SocketSound
<1> QED
  BY <1>3, <1>4

(* The release of a lock, with all that it promotes.                       *)
LEMMA ReleaseSound ==
  ASSUME SInv, NEW c \in Conns, Release(c)
  PROVE  SocketsSound'
<1> DEFINE l == Asked(c)
           t == Replied(c, "OK", l)
           stay == Retain(t.held, Locks \ {l})
           s == [t EXCEPT !.held = stay]
           st == [client EXCEPT ![c] = s]
           names == <<l>>
           r == [kind |-> "OK", lock |-> l]
           in == In(c)
           out == Out(c)
           k == HeldBy(c) \ {l}
<1>1. /\ NextLine(c, {"RELEASE"}) /\ holder[l] = c
      /\ PromoteAndNotify(names, waiters, clients, st)
      /\ UNCHANGED <<link, inbox, replies, owned, releasing>>
  BY DEF Release, clientVars, loopVars
<1>2. {"RELEASE"} \subseteq Asks /\ IInv /\ TypeOK /\ \A d \in Conns : SocketSound(d)
  BY DEF Asks, SInv, IInv, SocketsSound
<1>3. /\ c \in clients /\ client[c] \in ClientState /\ client[c].lines # <<>> /\ l \in Locks
  BY <1>1, <1>2, LineIs
<1>4. r \in Reply
  BY <1>3 DEF Reply
<1>5. /\ t \in ClientState /\ t.lines = Tail(client[c].lines)
      /\ t.out = Append(client[c].out, r)
  BY <1>3, <1>4, RepliedTyped
<1>6. /\ t.held \in Seq(Locks)
  BY <1>5 DEF ClientState
<1>7. stay \in Seq(Locks)
  BY <1>6, Retained
<1>8. names \in Seq(Locks) /\ Range(names) = {l}
  BY <1>3 DEF Range
<1>9. s = [t EXCEPT !.held = stay] /\ st = [client EXCEPT ![c] = s]
  OBVIOUS
<1>10. \A m \in Locks : AnswersRelease(r, m) <=> m = l
  BY DEF AnswersRelease
<1>11. Releases(Head(client[c].lines), l)
  BY <1>1 DEF Releases, Asked, NextLine
<1>12. \A m \in Locks : ~IsGrant(r, m)
  BY DEF IsGrant
<1> HIDE DEF l, t, stay, s, st, names, r, in, out, k
<1>13. /\ s \in ClientState /\ s.lines = Tail(client[c].lines) /\ s.out = Append(client[c].out, r)
  <2>1. s = [lines |-> t.lines, out |-> t.out, waiting_for |-> t.waiting_for, held |-> stay,
             wants_write |-> t.wants_write, writable |-> t.writable]
    BY <1>5, <1>9 DEF ClientState
  <2> QED
    BY <1>5, <1>7, <2>1 DEF ClientState
<1>14. /\ st \in [Conns -> ClientState] /\ st[c] = s /\ \A d \in Conns : d # c => st[d] = client[d]
  BY <1>2, <1>3, <1>9, <1>13 DEF TypeOK
<1>15. /\ clients \in SUBSET Conns /\ waiters \in [Locks -> Seq(Conns)]
       /\ \A m \in Locks : Range(waiters[m]) \subseteq clients
  BY <1>2 DEF IInv, TypeOK, QueuesLive
<1>16. ASSUME NEW d \in Conns, link[d] = "up"
       PROVE  Sound(client'[d].lines \o inbox[d], replies[d] \o client'[d].out,
                    owned[d], releasing[d], HeldBy(d)')
  <2> DEFINE h == IF d = c THEN k ELSE HeldBy(d)
             i == inbox[d]
             o == replies[d]
             own == owned[d]
             rel == releasing[d]
  <2>1. Sound(In(d), Out(d), own, rel, HeldBy(d))
    BY <1>2, <1>16 DEF SocketSound
  <2>2. \A m \in h : m \in Locks /\ holder[m] = d /\ m \notin Range(names)
    BY <1>1, <1>8 DEF HeldBy, k
  <2>3. o \in Seq(Reply)
    BY <1>2, Typed
  <2>4. Sound(st[d].lines \o i, o \o st[d].out, own, rel, h)
    <3>1. CASE d = c
      <4>1. /\ client[c].lines \in Seq(Line) /\ inbox[c] \in Seq(Line) /\ in \in Seq(Line)
            /\ client[c].out \in Seq(Reply) /\ replies[c] \in Seq(Reply) /\ out \in Seq(Reply)
        BY <1>2, Typed DEF in, out
      <4>2. /\ in # <<>> /\ Head(in) = Head(client[c].lines)
            /\ Tail(client[c].lines) \o inbox[c] = Tail(in)
        BY <1>2, <1>3, LineGone DEF in
      <4>3. replies[c] \o Append(client[c].out, r) = Append(out, r)
        BY <1>2, <1>4, ReplyAdded DEF out
      <4>4. \A m \in Locks : AnswersRelease(r, m) => Releases(Head(in), m)
        BY <1>10, <1>11, <4>2
      <4>5. \A m \in HeldBy(c) \ k : AnswersRelease(r, m)
        BY <1>3, <1>10 DEF k
      <4>6. HeldBy(c) \subseteq Locks
        BY DEF HeldBy
      <4>7. Sound(in, out, own, rel, HeldBy(c))
        BY <2>1, <3>1 DEF in, out
      <4> HIDE DEF own, rel
      <4>8. Sound(Tail(in), Append(out, r), own, rel, k)
        BY <1>4, <1>12, <4>1, <4>2, <4>4, <4>5, <4>6, <4>7, LineAnswered
      <4> QED
        BY <1>13, <1>14, <3>1, <4>2, <4>3, <4>8
    <3>2. CASE d # c
      BY <1>14, <2>1, <3>2 DEF In, Out
    <3> QED
      BY <3>1, <3>2
  <2> HIDE DEF h, i, o, own, rel
  <2>5. Sound(client'[d].lines \o i, o \o client'[d].out, own, rel, HeldBy(d)')
    BY <1>1, <1>2, <1>8, <1>14, <1>15, <2>2, <2>3, <2>4, PromotionSound
  <2> QED
    BY <2>5 DEF i, o, own, rel
<1>17. ASSUME NEW d \in Conns PROVE SocketSound(d)'
  <2>1. SocketSound(d)
    BY <1>2
  <2> QED
    BY <1>1, <1>16, <2>1 DEF SocketSound, In, Out
<1> QED
  BY <1>17 DEF SocketsSound

(* The end of a connection, with all that it promotes.                     *)
LEMMA DisconnectSound ==
  ASSUME SInv, NEW c \in clients, Disconnect(c)
  PROVE  SocketsSound'
<1> DEFINE slab == clients \ {c}
           names == client[c].held
           q == [l \in Locks |-> Retain(waiters[l], Conns \ {c})]
           s == [client EXCEPT ![c] = Fresh]
<1>1. /\ TypeOK /\ ClientsTypeOK /\ c \in Conns /\ slab \in SUBSET Conns /\ names \in Seq(Locks)
      /\ waiters \in [Locks -> Seq(Conns)] /\ \A d \in Conns : SocketSound(d)
  BY DEF SInv, IInv, TypeOK, ClientState, SocketsSound
<1>2. /\ clients' = slab /\ PromoteAndNotify(names, q, slab, s)
      /\ link' = Dropped(c) /\ inbox' = [inbox EXCEPT ![c] = <<>>]
      /\ owned' = [owned EXCEPT ![c] = {}]
      /\ UNCHANGED <<replies, releasing>>
  BY DEF Disconnect
<1>3. /\ s \in [Conns -> ClientState] /\ s[c] = Fresh /\ \A d \in Conns : d # c => s[d] = client[d]
  BY <1>1, FreshTyped DEF TypeOK
<1>4. ASSUME NEW l \in Locks
      PROVE  q[l] \in Seq(Conns) /\ Range(q[l]) \subseteq slab
  <2>1. waiters[l] \in Seq(Conns) /\ Range(waiters[l]) \subseteq clients
    BY <1>1 DEF SInv, IInv, QueuesLive
  <2>2. q[l] \in Seq(Conns) /\ Range(q[l]) = Range(waiters[l]) \cap (Conns \ {c})
    BY <2>1, Retained
  <2> QED
    BY <2>1, <2>2
<1>5. q \in [Locks -> Seq(Conns)]
  BY <1>4
<1>6. \A l \in Locks : l \in Range(names) => holder[l] = c
  BY <1>1 DEF SInv, IInv, HoldersKnow
<1> HIDE DEF q, s, names, slab
<1>7. /\ link'[c] \notin {"new", "up"} /\ owned'[c] = {}
      /\ \A d \in Conns : d # c => /\ link'[d] = link[d] /\ inbox'[d] = inbox[d]
                                   /\ owned'[d] = owned[d]
  <2>1. link[c] # "new"
    BY <1>1 DEF SInv, IInv, SlabRight
  <2> QED
    BY <1>1, <1>2, <2>1 DEF Dropped, ClientsTypeOK
<1>8. SocketSound(c)'
  BY <1>7 DEF SocketSound
<1>9. ASSUME NEW d \in Conns, d # c PROVE SocketSound(d)'
  <2>1. SocketSound(d) /\ s[d] = client[d]
    BY <1>1, <1>3, <1>9
  <2>2. ASSUME link[d] = "up"
        PROVE  Sound(client'[d].lines \o inbox[d], replies[d] \o client'[d].out,
                     owned[d], releasing[d], HeldBy(d)')
    <3> DEFINE h == HeldBy(d)
               i == inbox[d]
               o == replies[d]
               own == owned[d]
               rel == releasing[d]
    <3>1. Sound(s[d].lines \o i, o \o s[d].out, own, rel, h)
      BY <2>1, <2>2 DEF SocketSound, In, Out
    <3>2. \A m \in h : m \in Locks /\ holder[m] = d /\ m \notin Range(names)
      BY <1>6, <1>9 DEF HeldBy
    <3>3. o \in Seq(Reply)
      BY <1>1, Typed
    <3> HIDE DEF h, i, o, own, rel
    <3>4. Sound(client'[d].lines \o i, o \o client'[d].out, own, rel, HeldBy(d)')
      BY <1>1, <1>2, <1>3, <1>4, <1>5, <3>1, <3>2, <3>3, PromotionSound
    <3> QED
      BY <3>4 DEF i, o, own, rel
  <2> QED
    BY <1>2, <1>7, <1>9, <2>1, <2>2 DEF SocketSound, In, Out
<1> QED
  BY <1>8, <1>9 DEF SocketsSound

(* What is on the way does not change when the server reads or writes.     *)
LEMMA Moved ==
  ASSUME SInv, UNCHANGED <<link, owned, releasing, holder>>,
         \A d \in Conns : link[d] = "up" => In(d)' = In(d) /\ Out(d)' = Out(d),
         \A d \in Conns : link[d] = "new" => inbox'[d] = inbox[d] /\ replies'[d] = replies[d]
  PROVE  SocketsSound'
<1> SUFFICES ASSUME NEW d \in Conns PROVE SocketSound(d)'
  BY DEF SocketsSound
<1>1. SocketSound(d) /\ HeldBy(d)' = HeldBy(d)
  BY DEF SInv, SocketsSound, HeldBy
<1> QED
  BY <1>1 DEF SocketSound

(* A flush moves replies from the buffer to the socket.                    *)
LEMMA FlushMoves ==
  ASSUME IInv, NEW c \in clients, link[c] = "up",
         replies'[c] = Sent(c, SubSeq(client[c].out, 1, Takes(c))), client'[c].out = Left(c)
  PROVE  Out(c)' = Out(c)
<1> DEFINE front == SubSeq(client[c].out, 1, Takes(c))
           left == Left(c)
           sock == replies[c]
<1>1. /\ front \in Seq(Reply) /\ left \in Seq(Reply) /\ front \o left = client[c].out
  BY Flushes
<1>2. sock \in Seq(Reply)
  BY Typed DEF IInv, TypeOK
<1>3. Out(c)' = (sock \o front) \o left
  BY DEF Out, Sent
<1> HIDE DEF front, left, sock
<1>4. front \in Seq(Reply) /\ left \in Seq(Reply)
  BY <1>1
<1>5. (sock \o front) \o left = sock \o (front \o left)
  BY ONLY <1>2, <1>4, ConcatAssociative
<1> QED
  BY <1>1, <1>3, <1>5 DEF Out, sock

LEMMA ServerSound ==
  ASSUME SInv, Server
  PROVE  SocketsSound'
<1>0. /\ IInv /\ TypeOK /\ SlabRight /\ LoopRight /\ ClientsTypeOK
  BY DEF SInv, IInv, TypeOK
<1>1. CASE Poll
  <2>1. UNCHANGED <<link, owned, releasing, holder, inbox, replies, client>>
    BY <1>1 DEF Poll, clientVars, tableVars
  <2> QED
    BY <2>1, Moved DEF In, Out
<1>2. CASE Accept
  <2>1. UNCHANGED <<link, owned, releasing, holder, inbox, replies, client>>
    BY <1>0, <1>2, AcceptKeeps DEF Accept, clientVars, tableVars
  <2> QED
    BY <2>1, Moved DEF In, Out
<1>3. CASE FlushAll
  <2> DEFINE flushed == {d \in clients : client[d].wants_write} \ doomed'
  <2>1. /\ UNCHANGED <<link, owned, releasing, holder, inbox>>
        /\ replies' = [d \in Conns |-> IF d \in flushed THEN Sent(d, SubSeq(client[d].out, 1, Takes(d)))
                                                        ELSE replies[d]]
        /\ client' = [d \in Conns |->
                        IF d \in flushed
                        THEN [client[d] EXCEPT !.out = Left(d), !.wants_write = Left(d) # <<>>,
                                               !.writable = Left(d) # <<>>]
                        ELSE client[d]]
    BY <1>3 DEF FlushAll, FlushedReplies, tableVars
  <2>2. flushed \subseteq clients
    OBVIOUS
  <2> HIDE DEF flushed
  <2>3. ASSUME NEW d \in flushed
        PROVE  /\ replies'[d] = Sent(d, SubSeq(client[d].out, 1, Takes(d)))
               /\ client'[d].out = Left(d) /\ client'[d].lines = client[d].lines
    <3>1. d \in Conns /\ client[d] \in ClientState
      BY <1>0, <2>2 DEF TypeOK
    <3>2. client'[d] = [client[d] EXCEPT !.out = Left(d), !.wants_write = Left(d) # <<>>,
                                         !.writable = Left(d) # <<>>]
      BY <2>1, <3>1
    <3> QED
      BY <2>1, <3>1, <3>2 DEF ClientState
  <2>4. \A d \in Conns \ flushed : replies'[d] = replies[d] /\ client'[d] = client[d]
    BY <2>1
  <2>5. ASSUME NEW d \in Conns, link[d] = "up" PROVE In(d)' = In(d) /\ Out(d)' = Out(d)
    <3>1. CASE d \in flushed
      BY <1>0, <2>1, <2>2, <2>3, <2>5, <3>1, FlushMoves DEF In
    <3>2. CASE d \notin flushed
      BY <2>1, <2>4, <3>2 DEF In, Out
    <3> QED
      BY <3>1, <3>2
  <2>6. \A d \in Conns : link[d] = "new" => inbox'[d] = inbox[d] /\ replies'[d] = replies[d]
    BY <1>0, <2>1, <2>2, <2>4 DEF SlabRight
  <2> QED
    BY <2>1, <2>5, <2>6, Moved
<1> SUFFICES ASSUME NEW c \in Conns,
                    \/ Writable(c) \/ WriteError(c) \/ Refresh(c) \/ ReadError(c)
                    \/ AcquireRejected(c) \/ AcquireFree(c) \/ AcquireWait(c) \/ TryAcquire(c)
                    \/ ReleaseRejected(c) \/ Release(c) \/ Query(c) \/ SkipBlank(c)
                    \/ FrameError(c) \/ EndOfLines(c) \/ Drop(c)
             PROVE  SocketsSound'
  BY <1>1, <1>2, <1>3 DEF Server
<1>4. CASE Writable(c)
  <2> DEFINE left == Left(c)
             st == client[c]
             w == IF left = <<>> THEN FALSE ELSE st.wants_write
             v == IF left = <<>> THEN FALSE ELSE st.writable
             s == [st EXCEPT !.out = left, !.wants_write = w, !.writable = v]
  <2>1. /\ UNCHANGED <<link, owned, releasing, holder, inbox>> /\ batch[c] # {}
        /\ replies' = [d \in Conns |-> IF d = c THEN Sent(d, SubSeq(client[d].out, 1, Takes(d)))
                                                ELSE replies[d]]
        /\ client' = [client EXCEPT ![c] = s]
    BY <1>4 DEF Writable, FlushedReplies, tableVars
  <2>2. c \in clients
    BY <1>0, <2>1 DEF LoopRight
  <2>3. s = [st EXCEPT !.out = left, !.wants_write = w, !.writable = v] /\ st \in ClientState
    BY <1>0 DEF TypeOK
  <2> HIDE DEF left, st, w, v, s
  <2>4. s.out = left /\ s.lines = st.lines
    BY <2>3 DEF ClientState
  <2>5. /\ client'[c].out = Left(c) /\ client'[c].lines = client[c].lines
        /\ replies'[c] = Sent(c, SubSeq(client[c].out, 1, Takes(c)))
        /\ \A d \in Conns : d # c => client'[d] = client[d] /\ replies'[d] = replies[d]
    BY <1>0, <2>1, <2>4 DEF TypeOK, left, st
  <2>6. ASSUME NEW d \in Conns, link[d] = "up" PROVE In(d)' = In(d) /\ Out(d)' = Out(d)
    <3>1. CASE d = c
      BY <1>0, <2>1, <2>2, <2>5, <2>6, <3>1, FlushMoves DEF In
    <3>2. CASE d # c
      BY <2>1, <2>5, <3>2 DEF In, Out
    <3> QED
      BY <3>1, <3>2
  <2>7. \A d \in Conns : link[d] = "new" => inbox'[d] = inbox[d] /\ replies'[d] = replies[d]
    BY <1>0, <2>1, <2>2, <2>5 DEF SlabRight
  <2> QED
    BY <2>1, <2>6, <2>7, Moved
<1>5. CASE WriteError(c) \/ ReadError(c) \/ FrameError(c) \/ Drop(c)
  <2>1. /\ Disconnect(c)
        /\ batch[c] # {} \/ c \in doomed \/ NextLine(c, {"INVALID", "LONG"})
    BY <1>5 DEF WriteError, ReadError, CanRead, FrameError, Drop
  <2>2. c \in clients
    BY <1>0, <2>1, LineIs DEF LoopRight, TypeOK
  <2> QED
    BY <2>1, <2>2, DisconnectSound
<1>6. CASE Refresh(c)
  <2> DEFINE p == client[c].lines
             q == inbox[c]
             st == client[c]
             s == [st EXCEPT !.lines = p \o q]
  <2>1. /\ UNCHANGED <<link, owned, releasing, holder, replies>> /\ batch[c] # {}
        /\ inbox' = [inbox EXCEPT ![c] = <<>>] /\ client' = [client EXCEPT ![c] = s]
    BY <1>6 DEF Refresh, CanRead, tableVars
  <2>2. c \in clients
    BY <1>0, <2>1 DEF LoopRight
  <2>3. p \in Seq(Line) /\ q \in Seq(Line) /\ st \in ClientState
    BY <1>0, Typed
  <2>4. s = [st EXCEPT !.lines = p \o q]
    OBVIOUS
  <2> HIDE DEF p, q, st, s
  <2>5. s.lines = p \o q /\ s.out = st.out
    BY <2>3, <2>4 DEF ClientState
  <2>6. (p \o q) \o <<>> = p \o q
    <3>1. p \o q \in Seq(Line)
      BY <2>3, ConcatProperties
    <3> QED
      BY <3>1, ConcatEmptySeq
  <2>7. /\ client'[c].lines = p \o q /\ client'[c].out = client[c].out /\ inbox'[c] = <<>>
        /\ \A d \in Conns : d # c => client'[d] = client[d] /\ inbox'[d] = inbox[d]
    BY <1>0, <2>1, <2>5 DEF TypeOK, ClientsTypeOK, st
  <2>8. ASSUME NEW d \in Conns PROVE In(d)' = In(d) /\ Out(d)' = Out(d)
    <3>1. CASE d = c
      BY <2>1, <2>6, <2>7, <3>1 DEF In, Out, p, q
    <3>2. CASE d # c
      BY <2>1, <2>7, <3>2 DEF In, Out
    <3> QED
      BY <3>1, <3>2
  <2>9. \A d \in Conns : link[d] = "new" => inbox'[d] = inbox[d] /\ replies'[d] = replies[d]
    BY <1>0, <2>1, <2>2, <2>7 DEF SlabRight
  <2> QED
    BY <2>1, <2>8, <2>9, Moved
<1>7. CASE EndOfLines(c)
  <2> DEFINE st == client[c]
             s == [st EXCEPT !.writable = st.writable \/ st.wants_write]
  <2>1. /\ UNCHANGED <<link, owned, releasing, holder, replies, inbox>>
        /\ client' = [client EXCEPT ![c] = s]
    BY <1>7 DEF EndOfLines, clientVars, tableVars
  <2>2. s = [st EXCEPT !.writable = st.writable \/ st.wants_write] /\ st \in ClientState
    BY <1>0 DEF TypeOK
  <2> HIDE DEF s, st
  <2>3. s.lines = st.lines /\ s.out = st.out
    BY <2>2 DEF ClientState
  <2>4. ASSUME NEW d \in Conns
        PROVE  client'[d].lines = client[d].lines /\ client'[d].out = client[d].out
    BY <1>0, <2>1, <2>3 DEF TypeOK, st
  <2> QED
    BY <2>1, <2>4, Moved DEF In, Out
<1>8. CASE AcquireRejected(c)
  <2> DEFINE l == Asked(c)
             s == Replied(c, "ALREADY_HELD", l)
  <2>1. NextLine(c, {"ACQUIRE"}) /\ Becomes(c, s) /\ holder' = holder
    BY <1>8 DEF AcquireRejected, tableVars
  <2>2. client[c] \in ClientState /\ client[c].lines # <<>> /\ l \in Locks
    BY <1>0, <2>1, LineIs DEF Asks
  <2>3. [kind |-> "ALREADY_HELD", lock |-> l] \in Reply
    BY <2>2 DEF Reply
  <2>4. /\ s.lines = Tail(client[c].lines)
        /\ s.out = Append(client[c].out, [kind |-> "ALREADY_HELD", lock |-> l])
    BY <2>2, <2>3, RepliedTyped
  <2> HIDE DEF l, s
  <2> QED
    BY <2>1, <2>3, <2>4, AnswerSound
<1>9. CASE ReleaseRejected(c)
  <2> DEFINE l == Asked(c)
             s == Replied(c, "NOT_HELD", l)
  <2>1. NextLine(c, {"RELEASE"}) /\ Becomes(c, s) /\ holder' = holder
    BY <1>9 DEF ReleaseRejected, tableVars
  <2>2. client[c] \in ClientState /\ client[c].lines # <<>> /\ l \in Locks
    BY <1>0, <2>1, LineIs DEF Asks
  <2>3. [kind |-> "NOT_HELD", lock |-> l] \in Reply
    BY <2>2 DEF Reply
  <2>4. /\ s.lines = Tail(client[c].lines)
        /\ s.out = Append(client[c].out, [kind |-> "NOT_HELD", lock |-> l])
    BY <2>2, <2>3, RepliedTyped
  <2>5. Releases(Head(client[c].lines), l)
    BY <2>1 DEF Releases, NextLine, Asked
  <2> HIDE DEF l, s
  <2> QED
    BY <2>1, <2>3, <2>4, <2>5, AnswerSound
<1>10. CASE Query(c)
  <2> DEFINE s == Replied(c, "INFO", None)
             kinds == {"QUERY", "LONG"}
  <2>1. NextLine(c, kinds) /\ Becomes(c, s) /\ holder' = holder
    BY <1>10 DEF Query, tableVars
  <2>2. client[c] \in ClientState /\ client[c].lines # <<>>
    BY <1>0, <2>1, LineIs
  <2>3. [kind |-> "INFO", lock |-> None] \in Reply
    BY DEF Reply
  <2>4. /\ s.lines = Tail(client[c].lines)
        /\ s.out = Append(client[c].out, [kind |-> "INFO", lock |-> None])
    BY <2>2, <2>3, RepliedTyped
  <2> HIDE DEF s, kinds
  <2> QED
    BY <2>1, <2>3, <2>4, AnswerSound
<1>11. CASE \E kinds \in {{"ACQUIRE"}, {"TRY_ACQUIRE"}} :
              /\ NextLine(c, kinds) /\ holder[Asked(c)] = None
              /\ holder' = [holder EXCEPT ![Asked(c)] = c]
              /\ Becomes(c, Holding(Replied(c, "GRANTED", Asked(c)), Asked(c)))
  <2> PICK kinds \in {{"ACQUIRE"}, {"TRY_ACQUIRE"}} :
              /\ NextLine(c, kinds) /\ holder[Asked(c)] = None
              /\ holder' = [holder EXCEPT ![Asked(c)] = c]
              /\ Becomes(c, Holding(Replied(c, "GRANTED", Asked(c)), Asked(c)))
    BY <1>11
  <2> DEFINE l == Asked(c)
             t == Replied(c, "GRANTED", l)
             s == Holding(t, l)
  <2>1. /\ NextLine(c, kinds) /\ Becomes(c, s)
        /\ holder[l] = None /\ holder' = [holder EXCEPT ![l] = c]
    OBVIOUS
  <2>2. client[c] \in ClientState /\ client[c].lines # <<>> /\ l \in Locks
    BY <1>0, <2>1, LineIs DEF Asks
  <2>3. [kind |-> "GRANTED", lock |-> l] \in Reply
    BY <2>2 DEF Reply
  <2>4. /\ t \in ClientState /\ t.lines = Tail(client[c].lines)
        /\ t.out = Append(client[c].out, [kind |-> "GRANTED", lock |-> l])
    BY <2>2, <2>3, RepliedTyped
  <2>5. /\ s.lines = Tail(client[c].lines)
        /\ s.out = Append(client[c].out, [kind |-> "GRANTED", lock |-> l])
    BY <2>2, <2>4, HoldingTyped
  <2> HIDE DEF l, t, s
  <2>6. holder'[l] = c /\ \A m \in Locks, d \in Conns : holder[m] = d => holder'[m] = d
    BY <1>0, <2>1, <2>2, ClientsAssumption DEF TypeOK
  <2> QED
    BY <2>1, <2>3, <2>5, <2>6, AnswerSound
<1>12. CASE AcquireFree(c)
  BY <1>11, <1>12 DEF AcquireFree
<1>13. CASE TryAcquire(c)
  <2> DEFINE l == Asked(c)
             s == Replied(c, "DENIED", l)
  <2>1. CASE holder[l] = None
    BY <1>11, <1>13, <2>1 DEF TryAcquire
  <2>2. CASE holder[l] # None
    <3>1. NextLine(c, {"TRY_ACQUIRE"}) /\ Becomes(c, s) /\ holder' = holder
      BY <1>13, <2>2 DEF TryAcquire
    <3>2. client[c] \in ClientState /\ client[c].lines # <<>> /\ l \in Locks
      BY <1>0, <3>1, LineIs DEF Asks
    <3>3. [kind |-> "DENIED", lock |-> l] \in Reply
      BY <3>2 DEF Reply
    <3>4. /\ s.lines = Tail(client[c].lines)
          /\ s.out = Append(client[c].out, [kind |-> "DENIED", lock |-> l])
      BY <3>2, <3>3, RepliedTyped
    <3> HIDE DEF l, s
    <3> QED
      BY <3>1, <3>3, <3>4, AnswerSound
  <2> QED
    BY <2>1, <2>2
<1>14. CASE AcquireWait(c) \/ SkipBlank(c)
  <2> DEFINE st == client[c]
             w == IF AcquireWait(c) THEN Asked(c) ELSE st.waiting_for
             s == [st EXCEPT !.lines = Tail(st.lines), !.waiting_for = w]
  <2>1. \/ AcquireWait(c) /\ w = Asked(c)
        \/ SkipBlank(c) /\ w = st.waiting_for
    BY <1>14
  <2>2. s = [st EXCEPT !.lines = Tail(st.lines), !.waiting_for = w]
    OBVIOUS
  <2> HIDE DEF w, s
  <2>3. PICK kinds : NextLine(c, kinds) /\ holder' = holder
    BY <1>14 DEF AcquireWait, SkipBlank, tableVars
  <2>4. st \in ClientState
    BY <1>0, <2>3, LineIs
  <2>5. Becomes(c, s)
    <3>1. CASE AcquireWait(c) /\ w = Asked(c)
      BY <2>2, <3>1 DEF AcquireWait
    <3>2. CASE SkipBlank(c) /\ w = st.waiting_for
      <4>1. Becomes(c, [st EXCEPT !.lines = Tail(st.lines)])
        BY <3>2 DEF SkipBlank
      <4>2. [st EXCEPT !.lines = Tail(st.lines)] = s
        <5> HIDE DEF st
        <5> QED
          BY <2>2, <2>4, <3>2 DEF ClientState
      <4> QED
        BY <4>1, <4>2
    <3> QED
      BY <2>1, <3>1, <3>2
  <2>6. s.lines = Tail(client[c].lines) /\ s.out = client[c].out
    <3> HIDE DEF st
    <3>1. s.lines = Tail(st.lines) /\ s.out = st.out
      BY <2>2, <2>4 DEF ClientState
    <3> QED
      BY <3>1 DEF st
  <2> QED
    BY <2>3, <2>5, <2>6, SilenceSound
<1>15. CASE Release(c)
  BY <1>15, ReleaseSound
<1> QED
  BY <1>4, <1>5, <1>6, <1>7, <1>8, <1>9, <1>10, <1>12, <1>13, <1>14, <1>15

(* What a client does with its socket.                                     *)
LEMMA PeerSound ==
  ASSUME SInv, NEW c \in Conns, Peer(c)
  PROVE  SocketsSound'
<1>0. IInv /\ TypeOK /\ ClientsTypeOK /\ SlabRight /\ SocketSound(c) /\ \A d \in Conns : SocketSound(d)
  BY DEF SInv, IInv, TypeOK, SocketsSound
<1>1. holder' = holder /\ client' = client /\ HeldBy(c)' = HeldBy(c)
  BY DEF Peer, Opens, SendsLine, Closes, Reads, tableVars, slabVars, HeldBy
<1>2. /\ inbox[c] \in Seq(Line) /\ replies[c] \in Seq(Reply)
      /\ client[c].lines \in Seq(Line) /\ client[c].out \in Seq(Reply)
      /\ In(c) \in Seq(Line) /\ Out(c) \in Seq(Reply)
  BY <1>0, Typed
<1>3. CASE Connect(c)
  <2>1. /\ link[c] = "new" /\ link'[c] = "up"
        /\ \A d \in Conns : d # c => link'[d] = link[d]
        /\ UNCHANGED <<inbox, replies, owned, releasing>>
    BY <1>0, <1>3 DEF Connect, ClientsTypeOK
  <2>2. client[c] = Fresh
    BY <1>0, <2>1 DEF SlabRight
  <2>3. client[c].lines = <<>> /\ client[c].out = <<>>
    BY <2>2 DEF Fresh
  <2>4. inbox[c] = <<>> /\ replies[c] = <<>> /\ releasing[c] = {} /\ owned[c] = {}
    BY <1>0, <2>1 DEF SocketSound
  <2>5. In(c)' = <<>> /\ Out(c)' = <<>>
    <3>1. \A S : <<>> \in Seq(S) /\ <<>> \o <<>> = <<>>
      BY EmptySeq, ConcatEmptySeq
    <3> QED
      BY <1>1, <2>1, <2>3, <2>4, <3>1 DEF In, Out
  <2>6. SocketSound(c)'
    BY <2>1, <2>4, <2>5, SilentSocket DEF SocketSound
  <2>7. ASSUME NEW d \in Conns, d # c PROVE SocketSound(d)'
    BY <1>0, <1>1, <2>1, <2>7, SameSocket
  <2> QED
    BY <2>6, <2>7 DEF SocketsSound
<1>4. CASE Receive(c)
  <2> DEFINE r == Head(replies[c])
             more == owned[c] \cup ({l \in {r.lock} : r.kind = "GRANTED"} \ releasing[c])
             less == releasing[c] \ {l \in {r.lock} : r.kind \in {"OK", "NOT_HELD"}}
  <2>1. /\ link[c] = "up" /\ replies[c] # <<>>
        /\ owned' = [owned EXCEPT ![c] = more] /\ releasing' = [releasing EXCEPT ![c] = less]
        /\ replies' = [replies EXCEPT ![c] = Tail(@)]
        /\ UNCHANGED <<link, inbox>>
    BY <1>4 DEF Receive
  <2>2. /\ owned'[c] = more /\ releasing'[c] = less /\ replies'[c] = Tail(replies[c])
        /\ \A d \in Conns : d # c => /\ owned'[d] = owned[d] /\ releasing'[d] = releasing[d]
                                     /\ replies'[d] = replies[d]
    BY <1>0, <2>1 DEF ClientsTypeOK
  <2>3. /\ Out(c)' = Tail(Out(c)) /\ Head(Out(c)) = r /\ Out(c) # <<>>
    <3> DEFINE p == replies[c]
               q == client[c].out
    <3>1. /\ p \in Seq(Reply) /\ q \in Seq(Reply) /\ p # <<>>
          /\ Out(c) = p \o q /\ Out(c)' = Tail(p) \o q /\ r = Head(p)
      BY <1>1, <1>2, <2>1, <2>2 DEF Out
    <3> HIDE DEF p, q, r
    <3>2. p \o q # <<>> /\ Head(p \o q) = Head(p) /\ Tail(p \o q) = Tail(p) \o q
      BY <3>1, ConcatHead
    <3> QED
      BY <3>1, <3>2
  <2>4. Sound(In(c), Out(c), owned[c], releasing[c], HeldBy(c))
    BY <1>0, <2>1 DEF SocketSound
  <2>5. Sound(In(c), Tail(Out(c)), more, less, HeldBy(c))
    BY <1>2, <2>3, <2>4, ReplyRead
  <2>6. SocketSound(c)'
    <3> HIDE DEF more, less, r
    <3>1. In(c)' = In(c)
      BY <1>1, <2>1 DEF In
    <3> QED
      BY <1>1, <2>1, <2>2, <2>3, <2>5, <3>1 DEF SocketSound
  <2>7. ASSUME NEW d \in Conns, d # c PROVE SocketSound(d)'
    BY <1>0, <1>1, <2>1, <2>2, <2>7, SameSocket
  <2> QED
    BY <2>6, <2>7 DEF SocketsSound
<1>5. CASE HangUp(c)
  <2>1. /\ link' = [link EXCEPT ![c] = "closed"] /\ owned' = [owned EXCEPT ![c] = {}]
        /\ replies' = [replies EXCEPT ![c] = <<>>] /\ releasing' = [releasing EXCEPT ![c] = {}]
        /\ inbox' = inbox
    BY <1>5 DEF HangUp
  <2>2. /\ link'[c] = "closed" /\ owned'[c] = {}
        /\ \A d \in Conns : d # c => /\ link'[d] = link[d] /\ owned'[d] = owned[d]
                                     /\ replies'[d] = replies[d] /\ releasing'[d] = releasing[d]
    BY <1>0, <2>1 DEF ClientsTypeOK
  <2>3. SocketSound(c)'
    BY <2>2 DEF SocketSound
  <2>4. ASSUME NEW d \in Conns, d # c PROVE SocketSound(d)'
    BY <1>0, <1>1, <2>1, <2>2, <2>4, SameSocket
  <2> QED
    BY <2>3, <2>4 DEF SocketsSound
<1>6. ASSUME NEW line \in Line, Send(c, line) PROVE SocketsSound'
  <2> DEFINE gives == IF line.kind = "RELEASE" THEN {line.lock} ELSE {}
  <2>1. /\ link[c] = "up" /\ inbox' = [inbox EXCEPT ![c] = Append(@, line)]
        /\ line.kind = "RELEASE" => line.lock \notin releasing[c]
        /\ owned' = [owned EXCEPT ![c] = @ \ gives]
        /\ releasing' = [releasing EXCEPT ![c] = @ \cup gives]
        /\ UNCHANGED <<link, replies>>
    BY <1>6 DEF Send
  <2>2. /\ inbox'[c] = Append(inbox[c], line)
        /\ owned'[c] = owned[c] \ gives /\ releasing'[c] = releasing[c] \cup gives
        /\ \A d \in Conns : d # c => /\ inbox'[d] = inbox[d] /\ owned'[d] = owned[d]
                                     /\ releasing'[d] = releasing[d]
    BY <1>0, <2>1 DEF ClientsTypeOK
  <2>3. Out(c)' = Out(c) /\ In(c)' = Append(In(c), line)
    <3> DEFINE p == client[c].lines
               q == inbox[c]
    <3>1. p \in Seq(Line) /\ q \in Seq(Line) /\ In(c) = p \o q /\ In(c)' = p \o Append(q, line)
      BY <1>1, <1>2, <2>2 DEF In
    <3> HIDE DEF p, q
    <3>2. p \o Append(q, line) = Append(p \o q, line)
      BY <3>1, ConcatAppend
    <3>3. Out(c)' = Out(c)
      BY <1>1, <2>1 DEF Out
    <3> QED
      BY <3>1, <3>2, <3>3
  <2>4. Sound(In(c), Out(c), owned[c], releasing[c], HeldBy(c))
    BY <1>0, <2>1 DEF SocketSound
  <2>5. /\ \A l \in Locks : l \in gives <=> Releases(line, l)
        /\ gives \cap releasing[c] = {}
    BY <2>1 DEF Releases
  <2> HIDE DEF gives
  <2>6. Sound(Append(In(c), line), Out(c), owned[c] \ gives, releasing[c] \cup gives, HeldBy(c))
    BY <1>2, <2>4, <2>5, LineSent
  <2>7. SocketSound(c)'
    BY <1>1, <2>1, <2>2, <2>3, <2>6 DEF SocketSound
  <2>8. ASSUME NEW d \in Conns, d # c PROVE SocketSound(d)'
    BY <1>0, <1>1, <2>1, <2>2, <2>8, SameSocket
  <2> QED
    BY <2>7, <2>8 DEF SocketsSound
<1> QED
  BY <1>3, <1>4, <1>5, <1>6 DEF Peer, Opens, SendsLine, Closes, Reads

-----------------------------------------------------------------------------
LEMMA SocketsInit == Init => SInv
<1> SUFFICES ASSUME Init PROVE SInv
  OBVIOUS
<1>1. ASSUME NEW c \in Conns PROVE SocketSound(c)
  BY DEF Init, ClientsInit, SocketSound
<1> QED
  BY <1>1, InitInv DEF SInv, SocketsSound

LEMMA SocketsNext == SInv /\ [Next]_vars => SInv'
<1> SUFFICES ASSUME SInv, [Next]_vars PROVE SocketsSound'
  BY NextInv DEF SInv
<1>1. ASSUME NEW c \in Conns, Peer(c) PROVE SocketsSound'
  BY <1>1, PeerSound
<1>2. CASE UNCHANGED vars
  <2>1. UNCHANGED <<link, inbox, replies, owned, releasing, client, holder>>
    BY <1>2 DEF vars, clientVars, tableVars, slabVars
  <2>2. ASSUME NEW c \in Conns PROVE SocketSound(c)'
    <3>1. SocketSound(c)
      BY DEF SInv, SocketsSound
    <3> QED
      BY <2>1, <3>1 DEF SocketSound, In, Out, HeldBy
  <2> QED
    BY <2>2 DEF SocketsSound
<1> QED
  BY <1>1, <1>2, ServerSound DEF Next, Peer

(* What is on the way between a client and the table agrees with both, in  *)
(* whichever of the four buffers between them it is.                       *)
THEOREM SocketInvariance == Spec => []SInv
BY SocketsInit, SocketsNext, PTL DEF Spec

LEMMA OwnerHolds == SInv => OwnersHold
<1> SUFFICES ASSUME SInv, NEW c \in Conns, NEW l \in Locks, l \in owned[c]
             PROVE  holder[l] = c
  BY DEF OwnersHold
<1>1. SocketSound(c)
  BY DEF SInv, SocketsSound
<1>2. Sound(In(c), Out(c), owned[c], releasing[c], HeldBy(c))
  BY <1>1 DEF SocketSound
<1> QED
  BY <1>2 DEF Sound, HeldBy

(* Whoever has read GRANTED and has not sent RELEASE since is the holder   *)
(* in the table, for any number of requests and replies on the way.        *)
THEOREM Ownership == Spec => []OwnersHold
BY SocketInvariance, OwnerHolds, PTL

-----------------------------------------------------------------------------
(* The lock service: every step of the loop or a client is one of it, or   *)
(* changes nothing the clients can tell                                    *)

ServiceStep == Service!Next \/ UNCHANGED Service!lockVars

LEMMA ServiceInit == Init => Service!Init
BY DEF Init, ClientsInit, Service!Init

(* The server grants the lock l from its free state.                       *)
LEMMA FreeGranted ==
  ASSUME IInv, NEW c \in Conns, NEW l \in Locks, holder[l] = None,
         holder' = [holder EXCEPT ![l] = c], UNCHANGED <<waiters, owned>>
  PROVE  ServiceStep
<1>1. waiters[l] = <<>>
  BY DEF IInv, QueuesLive
<1>2. Service!Grant(c, l)
  BY <1>1 DEF Service!Grant
<1> QED
  BY <1>2 DEF ServiceStep, Service!Next

(* disconnect_client is the end of a connection in the service.            *)
LEMMA DisconnectServes ==
  ASSUME SInv, NEW c \in clients, Disconnect(c)
  PROVE  ServiceStep
<1> DEFINE slab == clients \ {c}
           names == client[c].held
           q == [l \in Locks |-> Retain(waiters[l], Conns \ {c})]
           s == [client EXCEPT ![c] = Fresh]
<1>1. /\ TypeOK /\ c \in Conns /\ slab \in SUBSET Conns /\ names \in Seq(Locks)
      /\ waiters \in [Locks -> Seq(Conns)]
  BY DEF SInv, IInv, TypeOK, ClientState
<1>2. PromoteAndNotify(names, q, slab, s) /\ owned' = [owned EXCEPT ![c] = {}]
  BY DEF Disconnect
<1>3. ASSUME NEW l \in Locks
      PROVE  /\ q[l] \in Seq(Conns) /\ Range(q[l]) \subseteq slab
             /\ q[l] = Service!RemoveFirst(waiters[l], c)
  <2>1. /\ waiters[l] \in Seq(Conns) /\ Range(waiters[l]) \subseteq clients
        /\ IsInjective(waiters[l])
    BY <1>1 DEF SInv, IInv, QueuesLive
  <2>2. q[l] \in Seq(Conns) /\ Range(q[l]) = Range(waiters[l]) \cap (Conns \ {c})
    BY <2>1, Retained
  <2>3. Retain(waiters[l], Conns \ {c}) = RemoveFirst(waiters[l], c)
    BY <2>1, RetainOthers
  <2>4. RemoveFirst(waiters[l], c) = Service!RemoveFirst(waiters[l], c)
    <3>1. SelectInSeq(waiters[l], LAMBDA d : d = c) = Service!SelectInSeq(waiters[l], LAMBDA d : d = c)
      BY DEF SelectInSeq, Service!SelectInSeq, Min, Service!Min
    <3> QED
      BY <3>1 DEF RemoveFirst, RemoveAt, Service!RemoveFirst, Service!RemoveAt
  <2> QED
    BY <2>1, <2>2, <2>3, <2>4
<1>4. q \in [Locks -> Seq(Conns)]
  BY <1>3
<1>5. \A l \in Locks : l \in Range(names) <=> holder[l] = c
  BY <1>1 DEF SInv, IInv, HoldersKnow
<1> HIDE DEF q, s, names, slab
<1>6. Passes(names, q, slab, s)
  BY <1>1, <1>2, <1>3, <1>4, PromotionIs
<1>7. /\ holder' = [l \in Locks |-> IF holder[l] = c THEN Service!First(q[l]) ELSE holder[l]]
      /\ waiters' = [l \in Locks |-> IF holder[l] = c THEN Service!Rest(q[l]) ELSE q[l]]
  BY <1>5, <1>6 DEF Passes
<1>8. Service!Leave(c)
  BY <1>2, <1>3, <1>7 DEF Service!Leave
<1> QED
  BY <1>1, <1>8 DEF ServiceStep, Service!Next

LEMMA ServerServes ==
  ASSUME SInv, Server
  PROVE  ServiceStep
<1>0. /\ IInv /\ TypeOK /\ LoopRight
  BY DEF SInv, IInv
<1>1. CASE Poll \/ Accept \/ FlushAll
  <2>1. UNCHANGED <<holder, waiters, owned>>
    BY <1>1 DEF Poll, Accept, FlushAll, clientVars, tableVars
  <2> QED
    BY <2>1 DEF ServiceStep, Service!lockVars
<1> SUFFICES ASSUME NEW c \in Conns,
                    \/ Writable(c) \/ WriteError(c) \/ Refresh(c) \/ ReadError(c)
                    \/ AcquireRejected(c) \/ AcquireFree(c) \/ AcquireWait(c) \/ TryAcquire(c)
                    \/ ReleaseRejected(c) \/ Release(c) \/ Query(c) \/ SkipBlank(c)
                    \/ FrameError(c) \/ EndOfLines(c) \/ Drop(c)
             PROVE  ServiceStep
  BY <1>1 DEF Server
<1>2. CASE \/ Writable(c) \/ Refresh(c) \/ AcquireRejected(c) \/ ReleaseRejected(c)
           \/ Query(c) \/ SkipBlank(c) \/ EndOfLines(c)
  <2>1. UNCHANGED <<holder, waiters, owned>>
    BY <1>2 DEF Writable, Refresh, AcquireRejected, ReleaseRejected, Query, SkipBlank,
                EndOfLines, Becomes, tableVars, clientVars
  <2> QED
    BY <2>1 DEF ServiceStep, Service!lockVars
<1>3. CASE WriteError(c) \/ ReadError(c) \/ FrameError(c) \/ Drop(c)
  <2>1. /\ Disconnect(c)
        /\ batch[c] # {} \/ c \in doomed \/ NextLine(c, {"INVALID", "LONG"})
    BY <1>3 DEF WriteError, ReadError, CanRead, FrameError, Drop
  <2>2. c \in clients
    BY <1>0, <2>1, LineIs DEF LoopRight, TypeOK
  <2> QED
    BY <2>1, <2>2, DisconnectServes
<1>4. CASE AcquireFree(c)
  <2>1. /\ NextLine(c, {"ACQUIRE"}) /\ holder[Asked(c)] = None
        /\ holder' = [holder EXCEPT ![Asked(c)] = c] /\ waiters' = waiters /\ owned' = owned
    BY <1>4 DEF AcquireFree, Becomes, clientVars
  <2>2. Asked(c) \in Locks
    BY <1>0, <2>1, LineIs DEF Asks
  <2> QED
    BY <1>0, <2>1, <2>2, FreeGranted
<1>5. CASE AcquireWait(c)
  <2> DEFINE l == Asked(c)
  <2>1. /\ NextLine(c, {"ACQUIRE"}) /\ holder[l] \notin {None, c} /\ c \notin Range(waiters[l])
        /\ waiters' = [waiters EXCEPT ![l] = Append(@, c)] /\ holder' = holder /\ owned' = owned
    BY <1>5 DEF AcquireWait, Becomes, clientVars
  <2>2. l \in Locks
    BY <1>0, <2>1, LineIs DEF Asks
  <2>3. Service!Enqueue(c, l)
    BY <2>1, <2>2 DEF Service!Enqueue, Service!Range, Range
  <2> QED
    BY <2>2, <2>3 DEF ServiceStep, Service!Next
<1>6. CASE TryAcquire(c)
  <2> DEFINE l == Asked(c)
  <2>1. NextLine(c, {"TRY_ACQUIRE"}) /\ waiters' = waiters /\ owned' = owned
    BY <1>6 DEF TryAcquire, Becomes, clientVars
  <2>2. l \in Locks
    BY <1>0, <2>1, LineIs DEF Asks
  <2>3. CASE holder[l] = None
    <3>1. holder' = [holder EXCEPT ![l] = c]
      BY <1>6, <2>3 DEF TryAcquire
    <3> QED
      BY <1>0, <2>1, <2>2, <2>3, <3>1, FreeGranted
  <2>4. CASE holder[l] # None
    <3>1. holder' = holder
      BY <1>6, <2>4 DEF TryAcquire
    <3> QED
      BY <2>1, <3>1 DEF ServiceStep, Service!lockVars
  <2> QED
    BY <2>3, <2>4
<1>7. CASE Release(c)
  <2> DEFINE l == Asked(c)
             names == <<l>>
             s == [client EXCEPT ![c] = [Replied(c, "OK", l) EXCEPT !.held = Retain(@, Locks \ {l})]]
  <2>1. /\ NextLine(c, {"RELEASE"}) /\ holder[l] = c
        /\ PromoteAndNotify(names, waiters, clients, s) /\ owned' = owned
    BY <1>7 DEF Release, clientVars
  <2>2. l \in Locks /\ l \notin owned[c]
    BY <2>1, ReleasedNotOwned
  <2>3. names \in Seq(Locks) /\ Range(names) = {l}
    BY <2>2 DEF Range
  <2> HIDE DEF names, s, l
  <2>4. /\ clients \in SUBSET Conns /\ waiters \in [Locks -> Seq(Conns)]
        /\ \A m \in Locks : Range(waiters[m]) \subseteq clients
    BY <1>0 DEF IInv, TypeOK, QueuesLive
  <2>5. Passes(names, waiters, clients, s)
    BY <2>1, <2>3, <2>4, PromotionIs
  <2>6. /\ holder' = [m \in Locks |-> IF m \in {l} THEN Service!First(waiters[m]) ELSE holder[m]]
        /\ waiters' = [m \in Locks |-> IF m \in {l} THEN Service!Rest(waiters[m]) ELSE waiters[m]]
    BY <2>3, <2>5 DEF Passes
  <2>7. /\ holder' = [holder EXCEPT ![l] = Service!First(waiters[l])]
        /\ waiters' = [waiters EXCEPT ![l] = Service!Rest(@)]
    BY <1>0, <2>2, <2>6 DEF TypeOK
  <2>8. Service!PassOn(c, l)
    BY <2>1, <2>2, <2>7 DEF Service!PassOn
  <2> QED
    BY <2>2, <2>8 DEF ServiceStep, Service!Next
<1> QED
  BY <1>2, <1>3, <1>4, <1>5, <1>6, <1>7

LEMMA PeerServed ==
  ASSUME SInv, OwnersHold', NEW c \in Conns, Peer(c)
  PROVE  ServiceStep
<1>0. TypeOK /\ ClientsTypeOK
  BY DEF SInv, IInv, TypeOK
<1>1. holder' = holder /\ waiters' = waiters
  BY DEF Peer, Opens, SendsLine, Closes, Reads, tableVars
<1>2. ASSUME NEW S \in SUBSET Locks, owned' = [owned EXCEPT ![c] = @ \ S]
      PROVE  ServiceStep
  <2>1. Service!GiveUp(c, S)
    BY <1>1, <1>2 DEF Service!GiveUp
  <2> QED
    BY <2>1 DEF ServiceStep, Service!Next
<1>3. CASE Connect(c)
  BY <1>1, <1>3 DEF Connect, ServiceStep, Service!lockVars
<1>4. CASE HangUp(c)
  <2>1. owned' = [owned EXCEPT ![c] = @ \ Locks]
    BY <1>0, <1>4 DEF HangUp, ClientsTypeOK
  <2> QED
    BY <1>2, <2>1
<1>5. ASSUME NEW line \in Line, Send(c, line) PROVE ServiceStep
  <2> DEFINE gives == IF line.kind = "RELEASE" THEN {line.lock} ELSE {}
  <2>1. owned' = [owned EXCEPT ![c] = @ \ gives]
    BY <1>5 DEF Send
  <2>2. gives \in SUBSET Locks
    BY DEF Line, Others
  <2> HIDE DEF gives
  <2> QED
    BY <1>2, <2>1, <2>2
<1>6. CASE Receive(c)
  <2> DEFINE r == Head(replies[c])
             more == {l \in {r.lock} : r.kind = "GRANTED"} \ releasing[c]
  <2>1. /\ owned' = [owned EXCEPT ![c] = @ \cup more] /\ replies[c] # <<>>
    BY <1>6 DEF Receive
  <2>2. r \in Reply
    BY <1>0, <2>1, HeadTailProperties DEF ClientsTypeOK
  <2>3. CASE more = {}
    <3> HIDE DEF more
    <3>1. owned' = owned
      BY <1>0, <2>1, <2>3 DEF ClientsTypeOK
    <3> QED
      BY <1>1, <3>1 DEF ServiceStep, Service!lockVars
  <2>4. CASE more # {}
    <3>1. more = {r.lock} /\ r.kind = "GRANTED"
      BY <2>4
    <3>2. r.lock \in Locks
      BY <2>2, <3>1 DEF Reply
    <3> HIDE DEF more, r
    <3>3. r.lock \in owned'[c]
      BY <1>0, <2>1, <3>1 DEF ClientsTypeOK
    <3>4. holder'[r.lock] = c
      BY <3>2, <3>3 DEF OwnersHold
    <3>5. Service!Learn(c, r.lock)
      BY <1>1, <2>1, <3>1, <3>4 DEF Service!Learn
    <3> QED
      BY <3>2, <3>5 DEF ServiceStep, Service!Next
  <2> QED
    BY <2>3, <2>4
<1> QED
  BY <1>3, <1>4, <1>5, <1>6 DEF Peer, Opens, SendsLine, Closes, Reads

LEMMA ServiceNext == SInv /\ OwnersHold' /\ [Next]_vars => [Service!Next]_(Service!lockVars)
<1> SUFFICES ASSUME SInv, OwnersHold', [Next]_vars PROVE ServiceStep
  BY DEF ServiceStep
<1>1. CASE UNCHANGED vars
  BY <1>1 DEF vars, clientVars, tableVars, ServiceStep, Service!lockVars
<1>2. ASSUME NEW c \in Conns, Peer(c) PROVE ServiceStep
  BY <1>2, PeerServed
<1> QED
  BY <1>1, <1>2, ServerServes DEF Next, Peer

(* The event loop implements the lock service: the holders, the queues and *)
(* what the clients know change only as LockService allows.                *)
THEOREM Implementation == Spec => ImplementsLockService
BY SocketInvariance, Ownership, ServiceInit, ServiceNext, PTL DEF Spec, Service!Spec, ImplementsLockService
=============================================================================
