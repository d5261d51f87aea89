--------------------------- MODULE LineFramerProofs ---------------------------
(***************************************************************************)
(* The lines and the output of the LineFramer of src/locks/src/lib.rs are  *)
(* exact for every set of bytes, every limit on a line, and however the    *)
(* bytes come and go.                                                      *)
(***************************************************************************)
EXTENDS LineFramer, SequenceTheorems, FiniteSetTheorems, TLAPS

-----------------------------------------------------------------------------
(* Sets of positions *)

UpTo(K, i) == {j \in K : j <= i}

(* Positions are counted without a gap, and none twice.                    *)
LEMMA Counted ==
  ASSUME NEW n \in Nat, NEW K \in SUBSET (1 .. n)
  PROVE  /\ IsFiniteSet(K) /\ Cardinality(K) \in Nat
         /\ \A i : Cardinality(UpTo(K, i)) \in Nat /\ IsFiniteSet(UpTo(K, i))
         /\ \A i \in K : Cardinality(UpTo(K, i)) \in 1 .. Cardinality(K)
         /\ \A i, j \in K : Cardinality(UpTo(K, i)) = Cardinality(UpTo(K, j)) => i = j
         /\ \A k \in 1 .. Cardinality(K) : \E i \in K : Cardinality(UpTo(K, i)) = k
<1> DEFINE N == Cardinality(K)
           c(i) == Cardinality(UpTo(K, i))
<1>1. IsFiniteSet(K) /\ N \in Nat
  <2>1. IsFiniteSet(1 .. n)
    BY FS_Interval
  <2>2. IsFiniteSet(K)
    BY <2>1, FS_Subset
  <2> QED
    BY <2>2, FS_CardinalityType
<1>2. \A i : IsFiniteSet(UpTo(K, i)) /\ c(i) \in Nat /\ c(i) <= N
  <2> TAKE i
  <2>1. UpTo(K, i) \in SUBSET K
    BY DEF UpTo
  <2>2. IsFiniteSet(UpTo(K, i)) /\ c(i) <= N
    BY <1>1, <2>1, FS_Subset
  <2> QED
    BY <2>2, FS_CardinalityType
<1>3. \A i \in K : c(i) >= 1
  <2> TAKE i \in K
  <2>1. i \in UpTo(K, i)
    BY DEF UpTo
  <2>2. c(i) # 0
    BY <1>2, <2>1, FS_EmptySet
  <2>3. c(i) \in Nat
    BY <1>2
  <2> HIDE DEF c
  <2> QED
    BY <2>2, <2>3
<1>4. \A i, j \in K : i < j => c(i) # c(j)
  <2> SUFFICES ASSUME NEW i \in K, NEW j \in K, i < j, c(i) = c(j)
               PROVE  FALSE
    OBVIOUS
  <2>1. UpTo(K, i) \subseteq UpTo(K, j) /\ j \in UpTo(K, j) /\ j \notin UpTo(K, i)
    <3>1. \A k \in K : k \in Int
      OBVIOUS
    <3>2. \A k \in K : k <= i => k <= j
      BY <3>1
    <3>3. j <= j /\ ~(j <= i)
      BY <3>1
    <3> QED
      BY <3>2, <3>3 DEF UpTo
  <2>2. UpTo(K, j) = UpTo(K, i)
    BY <1>2, <2>1, FS_Subset
  <2> QED
    BY <2>1, <2>2
<1>5. \A i, j \in K : c(i) = c(j) => i = j
  <2> SUFFICES ASSUME NEW i \in K, NEW j \in K, i # j, c(i) = c(j)
               PROVE  FALSE
    OBVIOUS
  <2>1. i < j \/ j < i
    OBVIOUS
  <2> QED
    BY <1>4, <2>1
<1>6. \A i \in K : c(i) \in 1 .. N
  <2> HIDE DEF c, N
  <2> QED
    BY <1>1, <1>2, <1>3
<1> DEFINE rank == [i \in K |-> c(i)]
<1>7. rank \in Injection(K, 1 .. N)
  BY <1>5, <1>6 DEF Injection, IsInjective
<1>8. rank \in Surjection(K, 1 .. N)
  <2>1. IsFiniteSet(1 .. N) /\ Cardinality(1 .. N) = N
    BY <1>1, FS_Interval
  <2> QED
    BY <1>7, <2>1, FS_Injection
<1>9. \A k \in 1 .. N : \E i \in K : c(i) = k
  BY <1>8 DEF Surjection
<1> QED
  BY <1>1, <1>2, <1>5, <1>6, <1>9

(* A set of positions has a first one.                                     *)
LEMMA MinIs ==
  ASSUME NEW n \in Nat, NEW K \in SUBSET (1 .. n), K # {}
  PROVE  Min(K) \in K /\ \A i \in K : Min(K) <= i
<1> DEFINE N == Cardinality(K)
<1>1. N \in Nat /\ N # 0
  BY Counted, FS_EmptySet
<1>2. 1 \in 1 .. N
  <2> HIDE DEF N
  <2> QED
    BY <1>1
<1>3. PICK m \in K : Cardinality(UpTo(K, m)) = 1
  BY <1>2, Counted
<1>4. ASSUME NEW i \in K, i < m PROVE FALSE
  <2>1. i \in UpTo(K, m) /\ m \in UpTo(K, m) /\ IsFiniteSet(UpTo(K, m))
    BY <1>4, Counted DEF UpTo
  <2>2. PICK e : UpTo(K, m) = {e}
    BY <1>3, <2>1, FS_Singleton
  <2> QED
    BY <1>4, <2>1, <2>2
<1>5. \A i \in K : m <= i
  BY <1>4
<1>6. \E x \in K : \A y \in K : x <= y
  BY <1>5
<1> QED
  BY <1>6 DEF Min

-----------------------------------------------------------------------------
(* The ends of lines *)

Rank(s, i) == Cardinality(UpTo(LineEnds(s), i))

LEMMA EndsCounted ==
  ASSUME NEW s \in Seq(Bytes)
  PROVE  /\ Len(s) \in Nat /\ LineEnds(s) \in SUBSET (1 .. Len(s))
         /\ Cardinality(LineEnds(s)) \in Nat
         /\ \A i : Rank(s, i) \in Nat
         /\ \A i \in LineEnds(s) : Rank(s, i) \in 1 .. Cardinality(LineEnds(s))
         /\ \A i, j \in LineEnds(s) : Rank(s, i) = Rank(s, j) => i = j
         /\ Rank(s, 0) = 0
<1>1. Len(s) \in Nat /\ LineEnds(s) \in SUBSET (1 .. Len(s))
  BY LenProperties DEF LineEnds
<1>2. UpTo(LineEnds(s), 0) = {}
  BY <1>1 DEF UpTo
<1>3. Rank(s, 0) = 0
  BY <1>2, FS_EmptySet DEF Rank
<1> QED
  BY <1>1, <1>3, Counted DEF Rank

(* The end of the k-th line is the one with k ends up to it.               *)
LEMMA EndIs ==
  ASSUME NEW s \in Seq(Bytes), NEW i \in LineEnds(s), NEW k, k = Rank(s, i)
  PROVE  End(s, k) = i
<1>1. k # 0
  BY EndsCounted
<1>2. End(s, k) = CHOOSE j \in LineEnds(s) : Rank(s, j) = k
  BY <1>1 DEF End, Rank, UpTo
<1>3. \A j \in LineEnds(s) : Rank(s, j) = k => j = i
  BY EndsCounted
<1> QED
  BY <1>2, <1>3

(* One more byte leaves the ends before it what they are.                  *)
LEMMA EndsStay ==
  ASSUME NEW s \in Seq(Bytes), NEW b \in Bytes, NEW i \in LineEnds(s)
  PROVE  /\ i \in LineEnds(Append(s, b)) /\ Rank(Append(s, b), i) = Rank(s, i)
         /\ End(Append(s, b), Rank(s, i)) = i
<1> DEFINE t == Append(s, b)
<1>1. /\ t \in Seq(Bytes) /\ Len(t) = Len(s) + 1 /\ Len(s) \in Nat
      /\ \A j \in 1 .. Len(s) : t[j] = s[j]
      /\ DOMAIN s = 1 .. Len(s) /\ DOMAIN t = 1 .. Len(t)
  BY AppendProperties, LenProperties
<1> HIDE DEF t
<1>2. \A j \in 1 .. Len(s) : j \in LineEnds(t) <=> j \in LineEnds(s)
  BY <1>1 DEF LineEnds
<1>3. LineEnds(s) \subseteq 1 .. Len(s) /\ LineEnds(t) \subseteq 1 .. Len(t)
  BY <1>1 DEF LineEnds
<1>4. UpTo(LineEnds(t), i) = UpTo(LineEnds(s), i)
  <2>1. \A j : j \in LineEnds(t) /\ j <= i <=> j \in LineEnds(s) /\ j <= i
    BY <1>1, <1>2, <1>3
  <2> QED
    BY <2>1 DEF UpTo
<1>5. i \in LineEnds(t) /\ Rank(t, i) = Rank(s, i)
  BY <1>2, <1>3, <1>4 DEF Rank
<1>6. End(t, Rank(s, i)) = i
  BY <1>1, <1>5, EndIs
<1> QED
  BY <1>5, <1>6 DEF t

(* The next end, when there is none in between.                            *)
LEMMA NextEnd ==
  ASSUME NEW s \in Seq(Bytes), NEW i \in Nat, NEW d \in Nat \ {0},
         i + d \in LineEnds(s), \A j \in 1 .. d - 1 : i + j \notin LineEnds(s)
  PROVE  Rank(s, i + d) = Rank(s, i) + 1 /\ End(s, Rank(s, i) + 1) = i + d
<1> DEFINE K == LineEnds(s)
           e == i + d
<1>1. K \in SUBSET (1 .. Len(s)) /\ Len(s) \in Nat
  BY EndsCounted
<1>2. IsFiniteSet(UpTo(K, i)) /\ Cardinality(UpTo(K, i)) \in Nat
  BY <1>1, Counted
<1>3. e \notin UpTo(K, i)
  BY DEF UpTo
<1>4. UpTo(K, e) = UpTo(K, i) \cup {e}
  <2> HIDE DEF K
  <2>1. ASSUME NEW j \in K, j <= e, j # e PROVE j <= i
    <3>1. j \in Nat
      BY <1>1
    <3>2. j > i => j - i \in 1 .. d - 1 /\ i + (j - i) = j
      BY <2>1, <3>1
    <3> QED
      BY <2>1, <3>1, <3>2 DEF K
  <2>2. ASSUME NEW j \in K, j <= i PROVE j <= e
    BY <1>1, <2>2
  <2>3. e \in K
    BY DEF K
  <2> QED
    BY <2>1, <2>2, <2>3 DEF UpTo
<1>5. Cardinality(UpTo(K, e)) = Cardinality(UpTo(K, i)) + 1
  BY <1>2, <1>3, <1>4, FS_AddElement
<1>6. Rank(s, e) = Rank(s, i) + 1
  BY <1>5 DEF Rank
<1> QED
  BY <1>6, EndIs

-----------------------------------------------------------------------------
(* The reader *)

(* The m bytes of s after f are those of t after g.                        *)
Agree(s, f, t, g, m) == \A i \in 1 .. m : s[f + i] = t[g + i]

(* The k-th line ends at the k-th LF of the input, and is what is before.  *)
CutAt(k) ==
  /\ End(input, k) \in LineEnds(input) /\ Rank(input, End(input, k)) = k
  /\ End(input, k - 1) < End(input, k)
  /\ lines[k] = Line(input, End(input, k - 1), End(input, k))

(* What is not consumed in the buffer is the input after the last line     *)
(* returned, byte for byte.                                                *)
ReaderInv ==
  /\ buf \in Seq(Bytes) /\ input \in Seq(Bytes) /\ tail \in 0 .. Len(buf)
  /\ lines \in Seq(Seq(Bytes))
  /\ \A k \in 1 .. Len(lines) : CutAt(k)
  /\ Len(buf) - tail = Len(input) - End(input, Len(lines))
  /\ Agree(buf, tail, input, End(input, Len(lines)), Len(buf) - tail)

(* The x bytes of s after f.                                               *)
LEMMA PieceIs ==
  ASSUME NEW S, NEW s \in Seq(S), NEW f \in Nat, NEW x \in Nat, f + x <= Len(s),
         NEW first, first = f + 1, NEW last, last = f + x
  PROVE  /\ SubSeq(s, first, last) \in Seq(S) /\ Len(SubSeq(s, first, last)) = x
         /\ \A i \in 1 .. x : SubSeq(s, first, last)[i] = s[f + i] /\ f + i \in 1 .. Len(s)
<1> DEFINE p == SubSeq(s, first, last)
<1>1. Len(s) \in Nat /\ \A i \in 1 .. Len(s) : s[i] \in S
  BY LenProperties
<1>2. /\ first \in Int /\ last \in Int
      /\ \A i \in first .. last : i \in 1 .. Len(s)
  BY <1>1
<1>3. \A i \in first .. last : s[i] \in S
  BY <1>1, <1>2
<1>4. /\ p \in Seq(S) /\ Len(p) = IF first <= last THEN last - first + 1 ELSE 0
      /\ \A i \in 1 .. last - first + 1 : p[i] = s[first + i - 1]
  BY <1>2, <1>3, SubSeqProperties
<1> HIDE DEF p
<1>5. Len(p) = x /\ last - first + 1 = x
  BY <1>4
<1>6. ASSUME NEW i \in 1 .. x PROVE p[i] = s[f + i] /\ f + i \in 1 .. Len(s)
  <2>1. first + i - 1 = f + i /\ f + i \in 1 .. Len(s)
    BY <1>1
  <2> QED
    BY <1>4, <1>5, <2>1
<1> QED
  BY <1>4, <1>5, <1>6 DEF p

(* The same bytes are the same line.                                       *)
LEMMA SameLine ==
  ASSUME NEW s \in Seq(Bytes), NEW t \in Seq(Bytes), NEW f \in Nat, NEW g \in Nat,
         NEW m \in Nat \ {0}, f + m <= Len(s), g + m <= Len(t), Agree(s, f, t, g, m),
         NEW sEnd, sEnd = f + m, NEW tEnd, tEnd = g + m
  PROVE  Line(s, f, sEnd) = Line(t, g, tEnd) /\ Line(s, f, sEnd) \in Seq(Bytes)
<1> DEFINE x == IF m > 1 /\ s[f + (m - 1)] = CR THEN m - 2 ELSE m - 1
<1>1. x \in Nat /\ x <= m
  OBVIOUS
<1>2. m > 1 => s[f + (m - 1)] = t[g + (m - 1)]
  <2>1. \A i \in 1 .. m : s[f + i] = t[g + i]
    BY DEF Agree
  <2>2. m > 1 => m - 1 \in 1 .. m
    OBVIOUS
  <2> QED
    BY ONLY <2>1, <2>2
<1>3. Line(s, f, sEnd) = SubSeq(s, f + 1, f + x)
  <2>1. /\ sEnd - 1 > f <=> m > 1
        /\ sEnd - 1 = f + (m - 1) /\ sEnd - 2 = f + (m - 2)
    OBVIOUS
  <2> QED
    BY <2>1 DEF Line
<1>4. Line(t, g, tEnd) = SubSeq(t, g + 1, g + x)
  <2>1. /\ tEnd - 1 > g <=> m > 1
        /\ tEnd - 1 = g + (m - 1) /\ tEnd - 2 = g + (m - 2)
    OBVIOUS
  <2> QED
    BY <1>2, <2>1 DEF Line
<1> DEFINE sFirst == f + 1
           sLast == f + x
           tFirst == g + 1
           tLast == g + x
<1>5. sFirst = f + 1 /\ sLast = f + x /\ tFirst = g + 1 /\ tLast = g + x /\ m \in Nat
  OBVIOUS
<1> HIDE DEF x, sFirst, sLast, tFirst, tLast
<1>6. f + x <= Len(s) /\ g + x <= Len(t)
  BY <1>1, LenProperties
<1> DEFINE p == SubSeq(s, sFirst, sLast)
           q == SubSeq(t, tFirst, tLast)
<1>7. p \in Seq(Bytes) /\ Len(p) = x /\ \A i \in 1 .. x : p[i] = s[f + i]
  BY <1>1, <1>5, <1>6, PieceIs
<1>8. q \in Seq(Bytes) /\ Len(q) = x /\ \A i \in 1 .. x : q[i] = t[g + i]
  BY <1>1, <1>5, <1>6, PieceIs
<1>9. Line(s, f, sEnd) = p /\ Line(t, g, tEnd) = q
  BY <1>3, <1>4, <1>5
<1> HIDE DEF p, q
<1>10. \A i \in 1 .. x : p[i] = q[i]
  <2>1. \A i \in 1 .. x : i \in 1 .. m
    BY <1>1
  <2> QED
    BY <1>7, <1>8, <2>1 DEF Agree
<1>11. p = q
  BY <1>7, <1>8, <1>10, SeqEqual
<1> QED
  BY <1>7, <1>9, <1>11

(* Where the last line returned ends.                                      *)
LEMMA LastEnd ==
  ASSUME ReaderInv
  PROVE  /\ Len(lines) \in Nat /\ Len(buf) \in Nat /\ Len(input) \in Nat
         /\ End(input, Len(lines)) \in 0 .. Len(input)
         /\ Rank(input, End(input, Len(lines))) = Len(lines)
         /\ \A k \in 0 .. Len(lines) : End(input, k) \in 0 .. Len(input)
<1> DEFINE n == Len(lines)
<1>1. /\ n \in Nat /\ Len(buf) \in Nat /\ Len(input) \in Nat
      /\ LineEnds(input) \subseteq 1 .. Len(input) /\ Rank(input, 0) = 0
  BY LenProperties, EndsCounted DEF ReaderInv
<1>2. \A k \in 1 .. n : End(input, k) \in LineEnds(input) /\ Rank(input, End(input, k)) = k
  BY DEF ReaderInv, CutAt
<1>3. End(input, 0) = 0
  BY DEF End
<1> HIDE DEF n
<1>4. ASSUME NEW k \in 0 .. n
      PROVE  End(input, k) \in 0 .. Len(input) /\ Rank(input, End(input, k)) = k
  <2>1. CASE k = 0
    BY <1>1, <1>3, <2>1
  <2>2. CASE k # 0
    <3>1. k \in 1 .. n
      BY <1>1, <2>2
    <3> QED
      BY <1>1, <1>2, <3>1
  <2> QED
    BY <2>1, <2>2
<1>5. n \in 0 .. n
  BY <1>1
<1> QED
  BY <1>1, <1>4, <1>5 DEF n

(* A byte is read: it is the next of the buffer and of the input.          *)
LEMMA RefreshKeeps ==
  ASSUME ReaderInv, NEW b \in Bytes, Refresh(b)
  PROVE  ReaderInv'
<1> DEFINE n == Len(lines)
           e == End(input, n)
           r == Len(buf) - tail
<1>1. /\ buf \in Seq(Bytes) /\ input \in Seq(Bytes) /\ tail \in 0 .. Len(buf)
      /\ lines \in Seq(Seq(Bytes)) /\ \A k \in 1 .. n : CutAt(k)
      /\ r = Len(input) - e /\ \A i \in 1 .. r : buf[tail + i] = input[e + i]
  BY DEF ReaderInv, Agree
<1>2. /\ n \in Nat /\ Len(buf) \in Nat /\ Len(input) \in Nat /\ e \in 0 .. Len(input)
      /\ \A k \in 0 .. n : End(input, k) \in 0 .. Len(input)
  BY LastEnd
<1>3. buf' = Append(buf, b) /\ input' = Append(input, b) /\ tail' = tail /\ lines' = lines
  BY DEF Refresh
<1>4. /\ buf' \in Seq(Bytes) /\ Len(buf') = Len(buf) + 1 /\ buf'[Len(buf) + 1] = b
      /\ \A i \in 1 .. Len(buf) : buf'[i] = buf[i]
  BY <1>1, <1>3, AppendProperties
<1>5. /\ input' \in Seq(Bytes) /\ Len(input') = Len(input) + 1 /\ input'[Len(input) + 1] = b
      /\ \A i \in 1 .. Len(input) : input'[i] = input[i]
  BY <1>1, <1>3, AppendProperties
<1>6. \A k \in 1 .. n : End(input, k) \in LineEnds(input) /\ Rank(input, End(input, k)) = k
  BY <1>1 DEF CutAt
<1>7. \A k \in 1 .. n : /\ End(input', k) = End(input, k) /\ End(input, k) \in LineEnds(input')
                        /\ Rank(input', End(input, k)) = k
  <2> TAKE k \in 1 .. n
  <2> DEFINE i == End(input, k)
  <2>1. i \in LineEnds(input) /\ Rank(input, i) = k
    BY <1>6
  <2> HIDE DEF i
  <2>2. i \in LineEnds(input') /\ Rank(input', i) = Rank(input, i) /\ End(input', Rank(input, i)) = i
    BY <1>1, <1>3, <2>1, EndsStay
  <2> QED
    BY <2>1, <2>2 DEF i
<1>8. \A k \in 0 .. n : End(input', k) = End(input, k)
  <2>1. End(input', 0) = 0 /\ End(input, 0) = 0
    BY DEF End
  <2>2. \A k \in 0 .. n : k = 0 \/ k \in 1 .. n
    BY <1>2
  <2> QED
    BY <1>7, <2>1, <2>2
<1> HIDE DEF n
<1>9. ASSUME NEW k \in 1 .. n PROVE CutAt(k)'
  <2> DEFINE f == End(input, k - 1)
             g == End(input, k)
             m == g - f
  <2>1. k - 1 \in 0 .. n /\ k \in 0 .. n
    BY <1>2
  <2>2. /\ f \in 0 .. Len(input) /\ g \in 0 .. Len(input)
        /\ End(input', k - 1) = f /\ End(input', k) = g
    BY <1>2, <1>8, <2>1
  <2>3. f < g /\ lines[k] = Line(input, f, g)
    BY <1>1 DEF CutAt
  <2> HIDE DEF f, g
  <2>4. /\ f \in Nat /\ m \in Nat \ {0} /\ g = f + m /\ f + m <= Len(input) /\ f + m <= Len(input')
        /\ \A i \in 1 .. m : f + i \in 1 .. Len(input)
    BY <1>2, <1>5, <2>2, <2>3
  <2>5. Agree(input, f, input', f, m)
    BY <1>5, <2>4 DEF Agree
  <2> HIDE DEF m
  <2>6. Line(input, f, g) = Line(input', f, g)
    <3>1. input \in Seq(Bytes) /\ input' \in Seq(Bytes)
      BY <1>1, <1>5
    <3> QED
      BY <2>4, <2>5, <3>1, SameLine
  <2>7. lines'[k] = Line(input', f, g)
    BY <1>3, <2>3, <2>4, <2>6
  <2>8. g \in LineEnds(input') /\ Rank(input', g) = k
    BY <1>7 DEF g
  <2> QED
    BY <2>2, <2>3, <2>7, <2>8 DEF CutAt
<1>10. Len(lines') = n /\ End(input', n) = e
  BY <1>2, <1>3, <1>8 DEF n
<1> HIDE DEF e
<1>11. tail' \in 0 .. Len(buf') /\ Len(buf') - tail' = Len(input') - e
  BY <1>1, <1>2, <1>3, <1>4, <1>5
<1>12. ASSUME NEW i \in 1 .. Len(buf') - tail' PROVE buf'[tail' + i] = input'[e + i]
  <2>1. i \in 1 .. r \/ i = r + 1
    BY <1>1, <1>2, <1>3, <1>4
  <2>2. CASE i \in 1 .. r
    <3>1. buf[tail + i] = input[e + i] /\ tail + i \in 1 .. Len(buf) /\ e + i \in 1 .. Len(input)
      BY <1>1, <1>2, <2>2
    <3> QED
      BY <1>3, <1>4, <1>5, <3>1
  <2>3. CASE i = r + 1
    <3>1. tail + i = Len(buf) + 1 /\ e + i = Len(input) + 1
      <4>1. /\ r = Len(buf) - tail /\ r = Len(input) - e /\ tail \in Nat /\ e \in Nat
            /\ Len(buf) \in Nat /\ Len(input) \in Nat
        BY <1>1, <1>2
      <4> HIDE DEF r
      <4> QED
        BY <2>3, <4>1
    <3> QED
      BY <1>3, <1>4, <1>5, <3>1
  <2> QED
    BY <2>1, <2>2, <2>3
<1> QED
  BY <1>1, <1>3, <1>4, <1>5, <1>9, <1>10, <1>11, <1>12 DEF ReaderInv, Agree

(* A line is returned: the next one of the input. Compaction leaves what   *)
(* is not consumed as it is.                                               *)
LEMMA NextLineKeeps ==
  ASSUME ReaderInv, NextLine
  PROVE  ReaderInv'
<1> DEFINE n == Len(lines)
           e == End(input, n)
           t == Min(Ends)
           d == t - tail
           line == Line(buf, tail, t)
           r == Len(buf) - tail
<1>1. /\ buf \in Seq(Bytes) /\ input \in Seq(Bytes) /\ tail \in 0 .. Len(buf)
      /\ lines \in Seq(Seq(Bytes)) /\ \A k \in 1 .. n : CutAt(k)
      /\ r = Len(input) - e /\ \A i \in 1 .. r : buf[tail + i] = input[e + i]
  BY DEF ReaderInv, Agree
<1>2. /\ n \in Nat /\ Len(buf) \in Nat /\ Len(input) \in Nat /\ e \in 0 .. Len(input)
      /\ Rank(input, e) = n
  BY LastEnd
<1>3. /\ Ends # {} /\ lines' = Append(lines, line) /\ input' = input
      /\ IF Len(buf) \div 2 <= t
         THEN buf' = SubSeq(buf, t + 1, Len(buf)) /\ tail' = 0
         ELSE buf' = buf /\ tail' = t
  BY DEF NextLine, Compact
<1>4. /\ t \in Ends /\ \A i \in Ends : t <= i
  <2>1. Ends \in SUBSET (1 .. Len(buf))
    BY <1>1, <1>2 DEF Ends
  <2> QED
    BY <1>2, <1>3, <2>1, MinIs
<1>5. /\ t \in tail + 1 .. Len(buf) /\ buf[t] = LF
      /\ \A i \in tail + 1 .. Len(buf) : buf[i] = LF => t <= i
  BY <1>4 DEF Ends
<1> HIDE DEF t
<1>6. d \in Nat \ {0} /\ d <= r /\ t = tail + d /\ r \in Nat
  BY <1>1, <1>2, <1>5
<1> HIDE DEF n, e, d, line, r
<1>7. /\ e + d \in 1 .. Len(input) /\ \A i \in 1 .. r : e + i \in 1 .. Len(input) /\ tail + i \in tail + 1 .. Len(buf)
  <2>1. r = Len(input) - e /\ r = Len(buf) - tail /\ e \in Nat /\ tail \in Nat
    BY <1>1, <1>2 DEF r
  <2> QED
    BY <1>2, <1>6, <2>1
<1>8. e + d \in LineEnds(input)
  <2>1. input[e + d] = buf[tail + d]
    BY <1>1, <1>6
  <2> QED
    BY <1>1, <1>5, <1>6, <1>7, <2>1, LenProperties DEF LineEnds
<1>9. \A j \in 1 .. d - 1 : e + j \notin LineEnds(input)
  <2> TAKE j \in 1 .. d - 1
  <2>1. j \in 1 .. r /\ ~(t <= tail + j)
    BY <1>1, <1>6
  <2>2. buf[tail + j] # LF /\ input[e + j] = buf[tail + j]
    BY <1>1, <1>5, <1>7, <2>1
  <2> QED
    BY <2>2 DEF LineEnds
<1>10. Rank(input, e + d) = n + 1 /\ End(input, n + 1) = e + d
  <2>1. input \in Seq(Bytes) /\ e \in Nat /\ d \in Nat \ {0} /\ n \in Nat /\ Rank(input, e) = n
    BY <1>1, <1>2, <1>6
  <2> QED
    BY ONLY <1>8, <1>9, <2>1, NextEnd
<1>11. line = Line(input, e, e + d) /\ line \in Seq(Bytes)
  <2> DEFINE last == e + d
  <2>1. /\ last = e + d /\ last <= Len(input) /\ tail + d <= Len(buf)
        /\ tail \in Nat /\ e \in Nat
    BY <1>1, <1>2, <1>5, <1>6, <1>7
  <2>2. Agree(buf, tail, input, e, d)
    <3>1. \A i \in 1 .. d : i \in 1 .. r
      BY <1>6
    <3> QED
      BY <1>1, <3>1 DEF Agree
  <2> HIDE DEF last
  <2>3. buf \in Seq(Bytes) /\ input \in Seq(Bytes) /\ e + d <= Len(input)
    BY <1>1, <2>1
  <2>4. Line(buf, tail, t) = Line(input, e, last) /\ Line(buf, tail, t) \in Seq(Bytes)
    BY <1>6, <2>1, <2>2, <2>3, SameLine
  <2> QED
    BY <2>4 DEF line, last
<1>12. /\ lines' \in Seq(Seq(Bytes)) /\ Len(lines') = n + 1 /\ lines'[n + 1] = line
       /\ \A k \in 1 .. n : lines'[k] = lines[k]
  BY <1>1, <1>3, <1>11, AppendProperties DEF n
<1>13. ASSUME NEW k \in 1 .. Len(lines') PROVE CutAt(k)'
  <2>1. k \in 1 .. n \/ k = n + 1
    BY <1>2, <1>12
  <2>2. CASE k \in 1 .. n
    <3>1. CutAt(k) /\ lines'[k] = lines[k]
      BY <1>1, <1>12, <2>2
    <3> QED
      BY <1>3, <3>1 DEF CutAt
  <2>3. CASE k = n + 1
    <3>1. /\ k - 1 = n /\ End(input, k) = e + d /\ End(input, n) = e
      BY <1>2, <1>10, <2>3 DEF e
    <3>2. e < e + d /\ lines'[k] = Line(input, e, e + d)
      BY <1>2, <1>6, <1>11, <1>12, <2>3
    <3> QED
      BY <1>3, <1>8, <1>10, <2>3, <3>1, <3>2 DEF CutAt
  <2> QED
    BY <2>1, <2>2, <2>3
<1>14. /\ buf' \in Seq(Bytes) /\ tail' \in 0 .. Len(buf')
       /\ Len(buf') - tail' = Len(input) - (e + d)
       /\ \A i \in 1 .. r - d : buf'[tail' + i] = input[(e + d) + i]
  <2>1. /\ r = Len(input) - e /\ r = Len(buf) - tail /\ e \in Nat /\ tail \in Nat
        /\ Len(buf) \in Nat /\ Len(input) \in Nat
    BY <1>1, <1>2 DEF r
  <2>2. r - d = Len(input) - (e + d) /\ r - d = Len(buf) - t /\ r - d \in Nat
    BY <1>6, <2>1
  <2>3. ASSUME NEW i \in 1 .. r - d
        PROVE  buf[t + i] = input[(e + d) + i]
    <3>1. d + i \in 1 .. r /\ t + i = tail + (d + i) /\ (e + d) + i = e + (d + i)
      BY <1>6, <2>1
    <3> QED
      BY <1>1, <3>1
  <2>4. CASE Len(buf) \div 2 <= t
    <3>1. tail' = 0 /\ buf' = SubSeq(buf, t + 1, Len(buf))
      BY <1>3, <2>4
    <3> DEFINE first == t + 1
               x == r - d
    <3>2. /\ first = t + 1 /\ x \in Nat /\ t + x = Len(buf) /\ t + x <= Len(buf) /\ t \in Nat
      BY <1>6, <2>1, <2>2
    <3> HIDE DEF first, x
    <3>3. /\ SubSeq(buf, first, Len(buf)) \in Seq(Bytes) /\ Len(SubSeq(buf, first, Len(buf))) = x
          /\ \A i \in 1 .. x : SubSeq(buf, first, Len(buf))[i] = buf[t + i]
      BY <1>1, <3>2, PieceIs
    <3>4. buf' \in Seq(Bytes) /\ Len(buf') = r - d /\ \A i \in 1 .. r - d : buf'[i] = buf[t + i]
      BY <3>1, <3>2, <3>3 DEF x
    <3> QED
      BY <2>2, <2>3, <3>1, <3>4
  <2>5. CASE ~(Len(buf) \div 2 <= t)
    <3>1. tail' = t /\ buf' = buf
      BY <1>3, <2>5
    <3> QED
      BY <1>1, <1>5, <2>1, <2>2, <2>3, <3>1
  <2> QED
    BY <2>4, <2>5
<1>15. Len(buf') - tail' = r - d
  BY <1>1, <1>2, <1>6, <1>14
<1>16. End(input', Len(lines')) = e + d
  BY <1>3, <1>10, <1>12
<1> QED
  BY <1>1, <1>3, <1>12, <1>13, <1>14, <1>15, <1>16 DEF ReaderInv, Agree

(* Nothing was read and nothing is kept.                                   *)
LEMMA ReaderStart ==
  ASSUME buf = <<>>, tail = 0, input = <<>>, lines = <<>>
  PROVE  ReaderInv
<1>1. \A S : <<>> \in Seq(S)
  BY EmptySeq
<1>2. Len(<<>>) = 0 /\ End(<<>>, 0) = 0
  BY EmptySeq DEF End
<1> QED
  BY <1>1, <1>2 DEF ReaderInv, Agree

(* A line that is too long is forgotten with all there is.                 *)
LEMMA TooLongKeeps ==
  ASSUME LineTooLong
  PROVE  ReaderInv'
<1>1. buf' = <<>> /\ tail' = 0 /\ input' = <<>> /\ lines' = <<>>
  BY DEF LineTooLong
<1>2. \A S : <<>> \in Seq(S)
  BY EmptySeq
<1>3. Len(<<>>) = 0 /\ End(<<>>, 0) = 0
  BY EmptySeq DEF End
<1> QED
  BY <1>1, <1>2, <1>3 DEF ReaderInv, Agree

(* Every step keeps what the reader keeps.                                 *)
LEMMA ReaderNext == ReaderInv /\ [Next]_vars => ReaderInv'
<1> SUFFICES ASSUME ReaderInv, [Next]_vars PROVE ReaderInv'
  OBVIOUS
<1>1. CASE UNCHANGED reader
  BY <1>1 DEF reader, ReaderInv, CutAt
<1>2. CASE \/ Write(Len(written) + 1) \/ Swap \/ \E n \in 1 .. MaxOut : Drain(n)
           \/ UNCHANGED vars
  BY <1>1, <1>2 DEF Write, Swap, Drain, vars
<1> QED
  BY <1>2, RefreshKeeps, NextLineKeeps, TooLongKeeps DEF Next

(* The invariant of the reader says that its lines are exact.              *)
LEMMA ReaderExact == ReaderInv => LinesExact
<1> SUFFICES ASSUME ReaderInv PROVE LinesExact
  OBVIOUS
<1> DEFINE n == Len(lines)
           e == End(input, n)
           r == Len(buf) - tail
           p == SubSeq(buf, tail + 1, Len(buf))
           q == SubSeq(input, e + 1, Len(input))
<1>1. /\ buf \in Seq(Bytes) /\ input \in Seq(Bytes) /\ tail \in 0 .. Len(buf)
      /\ lines \in Seq(Seq(Bytes)) /\ \A k \in 1 .. n : CutAt(k)
      /\ r = Len(input) - e /\ \A i \in 1 .. r : buf[tail + i] = input[e + i]
  BY DEF ReaderInv, Agree
<1>2. /\ n \in Nat /\ Len(buf) \in Nat /\ Len(input) \in Nat /\ e \in 0 .. Len(input)
  BY LastEnd
<1>3. Len(lines) <= Cardinality(LineEnds(input))
  <2>1. CASE n = 0
    BY <1>1, <2>1, EndsCounted
  <2>2. CASE n # 0
    <3>1. e \in LineEnds(input) /\ Rank(input, e) = n
      BY <1>1, <1>2, <2>2 DEF CutAt
    <3>2. Rank(input, e) \in 1 .. Cardinality(LineEnds(input)) /\ Cardinality(LineEnds(input)) \in Nat
      BY <1>1, <3>1, EndsCounted
    <3> QED
      BY <3>1, <3>2
  <2> QED
    BY <2>1, <2>2
<1>4. \A k \in DOMAIN lines : lines[k] = Line(input, End(input, k - 1), End(input, k))
  BY <1>1, LenProperties DEF CutAt
<1>5. p = q
  <2> DEFINE pFirst == tail + 1
             qFirst == e + 1
             bl == Len(buf)
             il == Len(input)
  <2>1. /\ pFirst = tail + 1 /\ qFirst = e + 1 /\ r \in Nat /\ tail \in Nat /\ e \in Nat
        /\ bl = tail + r /\ il = e + r /\ tail + r <= Len(buf) /\ e + r <= Len(input)
    BY <1>1, <1>2
  <2>2. Agree(buf, tail, input, e, r)
    BY <1>1 DEF Agree
  <2>3. p = SubSeq(buf, pFirst, bl) /\ q = SubSeq(input, qFirst, il)
    OBVIOUS
  <2> HIDE DEF pFirst, qFirst, r, e, p, q, bl, il
  <2>4. p \in Seq(Bytes) /\ Len(p) = r /\ \A i \in 1 .. r : p[i] = buf[tail + i]
    <3>1. buf \in Seq(Bytes)
      BY <1>1
    <3>2. /\ SubSeq(buf, pFirst, bl) \in Seq(Bytes) /\ Len(SubSeq(buf, pFirst, bl)) = r
          /\ \A i \in 1 .. r : SubSeq(buf, pFirst, bl)[i] = buf[tail + i]
      BY ONLY <2>1, <3>1, PieceIs
    <3> QED
      BY <2>3, <3>2
  <2>5. q \in Seq(Bytes) /\ Len(q) = r /\ \A i \in 1 .. r : q[i] = input[e + i]
    <3>1. input \in Seq(Bytes)
      BY <1>1
    <3>2. /\ SubSeq(input, qFirst, il) \in Seq(Bytes) /\ Len(SubSeq(input, qFirst, il)) = r
          /\ \A i \in 1 .. r : SubSeq(input, qFirst, il)[i] = input[e + i]
      BY ONLY <2>1, <3>1, PieceIs
    <3> QED
      BY <2>3, <3>2
  <2>6. \A i \in 1 .. r : p[i] = q[i]
    BY <2>2, <2>4, <2>5 DEF Agree
  <2>7. Len(p) = Len(q) /\ \A i \in 1 .. Len(p) : p[i] = q[i]
    BY <2>4, <2>5, <2>6
  <2> QED
    BY <2>4, <2>5, <2>7, SeqEqual
<1>6. tail <= Len(buf)
  BY <1>1, <1>2
<1>7. /\ Len(lines) <= Cardinality(LineEnds(input))
      /\ \A k \in DOMAIN lines : lines[k] = Line(input, End(input, k - 1), End(input, k))
      /\ SubSeq(buf, tail + 1, Len(buf)) = SubSeq(input, End(input, Len(lines)) + 1, Len(input))
  BY <1>3, <1>4, <1>5
<1> QED
  BY ONLY <1>6, <1>7 DEF LinesExact

(* Whatever the reads and the compactions: the lines returned are those of *)
(* the input, in order, and nothing of the rest is lost.                   *)
THEOREM LinesRight == Spec => []LinesExact
<1>1. Init => ReaderInv
  BY ReaderStart DEF Init
<1> QED
  BY <1>1, ReaderNext, ReaderExact, PTL DEF Spec

-----------------------------------------------------------------------------
(* The writer *)

(* The bytes left to drain in the buffer d.                                *)
Pending(d) == SubSeq(bufs[d], cursor + 1, Len(bufs[d]))

(* The two buffers have one order, whichever of them drains: what is on    *)
(* the stream, what is left of one of them, then the other.                *)
WriterInv ==
  /\ bufs \in [{0, 1} -> Seq(Nat)] /\ active \in {0, 1}
  /\ cursor \in 0 .. Len(bufs[drain])
  /\ written \in Seq(Nat) /\ out \in Seq(Nat)
  /\ written = out \o Pending(drain) \o bufs[active]

(* What Pending is, in the terms the steps use.                            *)
LEMMA WriterFacts ==
  ASSUME WriterInv
  PROVE  /\ drain \in {0, 1} /\ drain # active /\ 1 - drain = active
         /\ bufs[drain] \in Seq(Nat) /\ bufs[active] \in Seq(Nat)
         /\ Len(bufs[drain]) \in Nat /\ cursor \in Nat
         /\ Pending(drain) \in Seq(Nat) /\ Len(Pending(drain)) = Len(bufs[drain]) - cursor
<1> DEFINE d == drain
           x == Len(bufs[d]) - cursor
           first == cursor + 1
           last == Len(bufs[d])
<1>1. d \in {0, 1} /\ d # active /\ 1 - d = active
  BY DEF WriterInv, drain
<1>2. bufs[d] \in Seq(Nat) /\ bufs[active] \in Seq(Nat) /\ cursor \in 0 .. Len(bufs[d])
  BY <1>1 DEF WriterInv
<1>3. Len(bufs[d]) \in Nat
  BY <1>2, LenProperties
<1>4. /\ x \in Nat /\ cursor \in Nat /\ cursor + x <= Len(bufs[d])
      /\ first = cursor + 1 /\ last = cursor + x
  BY <1>2, <1>3
<1>5. Pending(d) = SubSeq(bufs[d], first, last)
  BY DEF Pending
<1> HIDE DEF d, x, first, last
<1>6. SubSeq(bufs[d], first, last) \in Seq(Nat) /\ Len(SubSeq(bufs[d], first, last)) = x
  BY ONLY <1>2, <1>4, PieceIs
<1> QED
  BY <1>1, <1>2, <1>3, <1>4, <1>5, <1>6 DEF d, x

(* Two sequences in a row.                                                 *)
LEMMA Joined ==
  ASSUME NEW S, NEW p \in Seq(S), NEW q \in Seq(S)
  PROVE  p \o q \in Seq(S) /\ Len(p \o q) = Len(p) + Len(q)
BY ConcatProperties

(* A byte is written behind all of them.                                   *)
LEMMA WriteKeeps ==
  ASSUME WriterInv, Write(Len(written) + 1)
  PROVE  WriterInv'
<1> DEFINE b == Len(written) + 1
           d == drain
           p == out \o Pending(d)
           q == bufs[active]
<1>1. /\ bufs \in [{0, 1} -> Seq(Nat)] /\ active \in {0, 1}
      /\ written \in Seq(Nat) /\ out \in Seq(Nat) /\ cursor \in 0 .. Len(bufs[d])
      /\ written = p \o q
  BY DEF WriterInv
<1>2. /\ d \in {0, 1} /\ d # active /\ q \in Seq(Nat) /\ Pending(d) \in Seq(Nat)
  BY WriterFacts
<1>3. b \in Nat /\ p \in Seq(Nat)
  <2>1. Len(written) \in Nat
    BY <1>1, LenProperties
  <2> HIDE DEF d
  <2>2. out \in Seq(Nat) /\ Pending(d) \in Seq(Nat)
    BY <1>1, <1>2
  <2>3. p \in Seq(Nat)
    BY ONLY <2>2, Joined DEF p
  <2> QED
    BY <2>1, <2>3
<1>4. /\ bufs' = [bufs EXCEPT ![active] = Append(@, b)] /\ written' = Append(written, b)
      /\ active' = active /\ cursor' = cursor /\ out' = out
  BY DEF Write
<1>5. drain' = d
  BY <1>4 DEF drain
<1> HIDE DEF b
<1>6. Append(q, b) \in Seq(Nat) /\ Append(written, b) \in Seq(Nat)
  BY <1>1, <1>2, <1>3, AppendProperties
<1>7. /\ bufs'[active] = Append(q, b) /\ bufs'[d] = bufs[d]
      /\ bufs' \in [{0, 1} -> Seq(Nat)]
  BY <1>1, <1>2, <1>4, <1>6
<1>8. Pending(drain)' = Pending(d)
  BY <1>4, <1>5, <1>7 DEF Pending
<1> HIDE DEF d, p, q
<1>9. Append(p \o q, b) = p \o Append(q, b)
  <2> DEFINE one == <<b>>
  <2>1. q \in Seq(Nat) /\ one \in Seq(Nat) /\ p \o q \in Seq(Nat)
    BY <1>2, <1>3, Joined
  <2>2. Append(q, b) = q \o one /\ Append(p \o q, b) = (p \o q) \o one
    BY <1>3, <2>1, AppendIsConcat
  <2> HIDE DEF one
  <2>3. p \in Seq(Nat)
    BY <1>3
  <2>4. (p \o q) \o one = p \o (q \o one)
    BY ONLY <2>1, <2>3, ConcatAssociative, SMTT(30)
  <2> QED
    BY <2>2, <2>4
<1>10. written' = p \o bufs'[active]
  BY <1>1, <1>4, <1>7, <1>9
<1>11. written' = out' \o Pending(drain)' \o bufs'[active']
  BY <1>4, <1>8, <1>10 DEF p
<1>12. /\ active' \in {0, 1} /\ written' \in Seq(Nat) /\ out' \in Seq(Nat)
       /\ cursor' \in 0 .. Len(bufs'[drain'])
  BY <1>1, <1>4, <1>5, <1>6, <1>7 DEF d
<1> QED
  BY <1>7, <1>11, <1>12 DEF WriterInv

(* Nothing is left of the buffer that drains: the other takes its place.   *)
LEMMA SwapKeeps ==
  ASSUME WriterInv, Swap
  PROVE  WriterInv'
<1> DEFINE d == drain
           q == bufs[active]
<1>1. /\ bufs \in [{0, 1} -> Seq(Nat)] /\ active \in {0, 1}
      /\ written \in Seq(Nat) /\ out \in Seq(Nat) /\ cursor \in 0 .. Len(bufs[d])
      /\ written = out \o Pending(d) \o q
  BY DEF WriterInv
<1>2. /\ d \in {0, 1} /\ d # active /\ 1 - d = active /\ q \in Seq(Nat)
      /\ Pending(d) \in Seq(Nat)
      /\ Len(Pending(d)) = Len(bufs[d]) - cursor /\ Len(bufs[d]) \in Nat /\ cursor \in Nat
  BY WriterFacts
<1>3. /\ cursor >= Len(bufs[d]) /\ bufs' = [bufs EXCEPT ![d] = <<>>]
      /\ active' = d /\ cursor' = 0 /\ written' = written /\ out' = out
  BY DEF Swap
<1>4. drain' = active
  BY <1>2, <1>3 DEF drain
<1>5. Pending(d) = <<>>
  BY <1>1, <1>2, <1>3, EmptySeq
<1>6. <<>> \in Seq(Nat)
  BY EmptySeq
<1>7. bufs' \in [{0, 1} -> Seq(Nat)] /\ bufs'[d] = <<>> /\ bufs'[active] = q
  BY <1>1, <1>2, <1>3, <1>6
<1>8. Pending(drain)' = SubSeq(q, 1, Len(q))
  BY <1>3, <1>4, <1>7 DEF Pending
<1> HIDE DEF d, q
<1>9. SubSeq(q, 1, Len(q)) = q /\ Len(q) \in Nat
  BY <1>2, SubSeqFull, LenProperties
<1>10. out \o Pending(d) = out /\ (out \o q) \o <<>> = out \o q /\ out \o q \in Seq(Nat)
  BY <1>1, <1>2, <1>5, ConcatEmptySeq, ConcatProperties
<1>11. written' = out' \o Pending(drain)' \o bufs'[active']
  BY <1>1, <1>3, <1>7, <1>8, <1>9, <1>10
<1>12. /\ active' \in {0, 1} /\ written' \in Seq(Nat) /\ out' \in Seq(Nat)
       /\ cursor' \in 0 .. Len(bufs'[drain'])
  BY <1>1, <1>2, <1>3, <1>4, <1>7, <1>9
<1> QED
  BY <1>7, <1>11, <1>12 DEF WriterInv

(* What is drained goes behind what is on the stream.                      *)
LEMMA DrainKeeps ==
  ASSUME WriterInv, NEW n \in 1 .. MaxOut, Drain(n)
  PROVE  WriterInv'
<1> DEFINE d == drain
           q == bufs[active]
           s == bufs[d]
           c == cursor
           len == Len(s)
           m == c + n
           first == c + 1
           next == m + 1
           sent == SubSeq(s, first, m)
           rest == SubSeq(s, next, len)
<1>1. /\ bufs \in [{0, 1} -> Seq(Nat)] /\ active \in {0, 1}
      /\ written \in Seq(Nat) /\ out \in Seq(Nat) /\ cursor \in 0 .. len
      /\ written = out \o SubSeq(s, first, len) \o q
  BY DEF WriterInv, Pending
<1>2. d \in {0, 1} /\ s \in Seq(Nat) /\ q \in Seq(Nat) /\ len \in Nat /\ c \in Nat
  BY WriterFacts
<1>3. /\ c + n <= len /\ n \in Nat \ {0}
      /\ out' = out \o sent /\ cursor' = m
      /\ bufs' = bufs /\ active' = active /\ written' = written
  BY BoundsAssumption DEF Drain
<1>4. drain' = d
  BY <1>3 DEF drain
<1>5. Pending(drain)' = rest
  BY <1>3, <1>4 DEF Pending
<1>6. first = c + 1 /\ m = c + n /\ next = m + 1 /\ len = Len(s) /\ n \in Nat
  BY <1>3
<1> HIDE DEF len, m, s
<1> DEFINE y == len - m
<1>7. y \in Nat /\ len = m + y /\ m + y <= len /\ m \in Nat /\ m <= len
  BY <1>2, <1>3, <1>6
<1> HIDE DEF d, q, s, c, len, m, first, next, y
<1>8. sent \in Seq(Nat)
  <2>1. /\ s \in Seq(Nat) /\ c \in Nat /\ n \in Nat /\ c + n <= Len(s)
        /\ first = c + 1 /\ m = c + n
    BY <1>2, <1>3, <1>6
  <2>2. SubSeq(s, first, m) \in Seq(Nat)
    BY ONLY <2>1, PieceIs
  <2> QED
    BY <2>2
<1>9. rest \in Seq(Nat)
  <2>1. /\ s \in Seq(Nat) /\ m \in Nat /\ y \in Nat /\ m + y <= Len(s)
        /\ next = m + 1 /\ len = m + y
    BY <1>2, <1>6, <1>7
  <2>2. SubSeq(s, next, len) \in Seq(Nat)
    BY ONLY <2>1, PieceIs
  <2> QED
    BY <2>2
<1>10. sent \o rest = SubSeq(s, first, len)
  <2>1. first \in 1 .. Len(s) + 1 /\ m \in first - 1 .. Len(s) /\ len \in m .. Len(s)
    BY <1>2, <1>3, <1>6, <1>7
  <2>2. s \in Seq(Nat)
    BY <1>2
  <2>3. SubSeq(s, first, m) \o SubSeq(s, m + 1, len) = SubSeq(s, first, len)
    BY ONLY <2>1, <2>2, ConcatAdjacentSubSeq
  <2> QED
    BY <1>6, <2>3
<1> HIDE DEF sent, rest
<1>11. /\ out \o (sent \o rest) = (out \o sent) \o rest /\ out \o sent \in Seq(Nat)
  <2>1. out \in Seq(Nat)
    BY <1>1
  <2>2. out \o (sent \o rest) = (out \o sent) \o rest
    BY ONLY <2>1, <1>8, <1>9, ConcatAssociative, SMTT(30)
  <2>3. out \o sent \in Seq(Nat)
    BY ONLY <2>1, <1>8, Joined
  <2> QED
    BY <2>2, <2>3
<1>12. written' = out' \o Pending(drain)' \o bufs'[active']
  BY <1>1, <1>3, <1>5, <1>10, <1>11 DEF q
<1>13. m \in 0 .. len
  BY <1>2, <1>7
<1>14. /\ active' \in {0, 1} /\ written' \in Seq(Nat) /\ out' \in Seq(Nat)
       /\ cursor' \in 0 .. Len(bufs'[drain']) /\ bufs' \in [{0, 1} -> Seq(Nat)]
  BY <1>1, <1>3, <1>4, <1>11, <1>13 DEF s, len
<1> QED
  BY <1>12, <1>14 DEF WriterInv

(* Every step keeps what the writer keeps.                                 *)
LEMMA WriterNext == WriterInv /\ [Next]_vars => WriterInv'
<1> SUFFICES ASSUME WriterInv, [Next]_vars PROVE WriterInv'
  OBVIOUS
<1>1. CASE UNCHANGED writer
  BY <1>1 DEF writer, WriterInv, Pending, drain
<1>2. CASE (\E b \in Bytes : Refresh(b)) \/ NextLine \/ LineTooLong \/ UNCHANGED vars
  BY <1>1, <1>2 DEF Refresh, NextLine, LineTooLong, vars
<1> QED
  BY <1>2, WriteKeeps, SwapKeeps, DrainKeeps DEF Next

(* Nothing is left to write exactly when all is on the stream: it is a     *)
(* matter of the lengths.                                                  *)
LEMMA WriterExact == WriterInv => OutputExact
<1> SUFFICES ASSUME WriterInv PROVE OutputExact
  OBVIOUS
<1> DEFINE d == drain
           p == Pending(d)
           q == bufs[active]
<1>1. /\ out \in Seq(Nat) /\ written = out \o p \o q /\ cursor \in 0 .. Len(bufs[d])
  BY DEF WriterInv
<1>2. /\ p \in Seq(Nat) /\ q \in Seq(Nat) /\ Len(p) = Len(bufs[d]) - cursor
      /\ Len(bufs[d]) \in Nat /\ cursor \in Nat
  BY WriterFacts
<1>3. written = out \o SubSeq(bufs[d], cursor + 1, Len(bufs[d])) \o bufs[active]
  BY <1>1 DEF Pending
<1>4. write_buffer_empty <=> q = <<>> /\ cursor >= Len(bufs[d])
  BY DEF write_buffer_empty
<1> HIDE DEF d, p, q
<1>5. out \o p \in Seq(Nat) /\ Len(out \o p) = Len(out) + Len(p)
  BY <1>1, <1>2, ConcatProperties
<1>6. Len(written) = Len(out) + Len(p) + Len(q)
  <2>1. q \in Seq(Nat)
    BY <1>2
  <2>2. Len((out \o p) \o q) = Len(out \o p) + Len(q)
    BY ONLY <1>5, <2>1, Joined
  <2> QED
    BY <1>1, <1>5, <2>2
<1>7. Len(out) \in Nat /\ Len(p) \in Nat /\ Len(q) \in Nat
  BY <1>1, <1>2, LenProperties
<1>8. ASSUME q = <<>>, cursor >= Len(bufs[d]) PROVE out = written
  <2>1. p = <<>>
    BY <1>1, <1>2, <1>8, EmptySeq
  <2> QED
    BY <1>1, <1>8, <2>1, ConcatEmptySeq
<1>9. ASSUME out = written PROVE q = <<>> /\ cursor >= Len(bufs[d])
  <2>1. Len(p) = 0 /\ Len(q) = 0
    BY <1>6, <1>7, <1>9
  <2> QED
    BY <1>1, <1>2, <2>1, EmptySeq
<1>10. write_buffer_empty <=> out = written
  BY <1>4, <1>8, <1>9
<1> QED
  BY <1>3, <1>10 DEF OutputExact, d

(* Whenever the buffers swap and however much one write of the stream      *)
(* takes: the bytes leave in the order they were written, none is lost,    *)
(* and write_buffer_empty is the truth (flush_nonblocking).                *)
THEOREM OutputRight == Spec => []OutputExact
<1>1. Init => WriterInv
  <2>1. \A S : <<>> \in Seq(S)
    BY EmptySeq
  <2> SUFFICES ASSUME Init PROVE WriterInv
    OBVIOUS
  <2>2. /\ bufs = [i \in {0, 1} |-> <<>>] /\ active = 0 /\ cursor = 0 /\ drain = 1
        /\ written = <<>> /\ out = <<>>
    BY DEF Init, drain
  <2>3. bufs[0] = <<>> /\ bufs[1] = <<>> /\ Len(<<>>) = 0
    BY <2>2, EmptySeq
  <2>4. Pending(1) = <<>> /\ Len(bufs[1]) = 0
    BY <2>2, <2>3, SubSeqEmpty DEF Pending
  <2>5. <<>> \o <<>> \o <<>> = <<>>
    BY <2>1, ConcatEmptySeq
  <2> QED
    BY <2>1, <2>2, <2>3, <2>4, <2>5 DEF WriterInv
<1> QED
  BY <1>1, WriterNext, WriterExact, PTL DEF Spec
===============================================================================
