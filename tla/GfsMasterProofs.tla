-------------------------- MODULE GfsMasterProofs --------------------------
(***************************************************************************)
(* The master is right for every set of paths and addresses, every number  *)
(* of servers and chunks, every (even) range of rr_cursor, and among       *)
(* servers that report whatever they like.                                 *)
(***************************************************************************)
EXTENDS GfsMaster, FiniteSetTheorems, WellFoundedInduction, SequenceTheorems, TLAPS

(* rr_cursor is always at the first of the two picks of a chunk.           *)
CursorEven == cursor % 2 = 0

IInv == MasterTypeOK /\ CursorEven /\ ReplicasDistinct /\ NamespaceSound

-----------------------------------------------------------------------------
(* Remainders *)

(* What a remainder is, and that it is the only one.                       *)
LEMMA Division ==
  ASSUME NEW n \in Nat, n > 0, NEW x \in Nat
  PROVE  /\ (x % n) \in 0 .. n - 1
         /\ \E q \in Nat : x = n * q + (x % n)
<1>1. (x % n) \in 0 .. n - 1
  OBVIOUS
<1>2. (x \div n) \in Nat /\ x = n * (x \div n) + (x % n)
  OBVIOUS
<1> QED
  BY <1>1, <1>2

LEMMA Remainder ==
  ASSUME NEW n \in Nat, n > 0, NEW q \in Nat, NEW r \in 0 .. n - 1
  PROVE  ((n * q + r) % n) = r
<1> DEFINE x == n * q + r
<1>1. x \in Nat
  OBVIOUS
<1>2. PICK d \in Nat : x = n * d + (x % n)
  BY <1>1, Division
<1>3. (x % n) \in 0 .. n - 1
  BY <1>1, Division
<1>4. ASSUME d > q PROVE FALSE
  <2>1. PICK e \in Nat : d = q + 1 + e
    <3> d - q - 1 \in Nat /\ d = q + 1 + (d - q - 1)
      BY <1>4
    <3> QED
      OBVIOUS
  <2>2. n * d = n * q + n + n * e /\ n * e \in Nat /\ n * q \in Nat
    BY <2>1
  <2> QED
    BY <1>2, <1>3, <2>2
<1>5. ASSUME d < q PROVE FALSE
  <2>1. PICK e \in Nat : q = d + 1 + e
    <3> q - d - 1 \in Nat /\ q = d + 1 + (q - d - 1)
      BY <1>5
    <3> QED
      OBVIOUS
  <2>2. n * q = n * d + n + n * e /\ n * e \in Nat /\ n * d \in Nat
    BY <2>1
  <2> QED
    BY <1>2, <1>3, <2>2
<1>6. d = q
  BY <1>4, <1>5
<1>7. n * d \in Nat
  OBVIOUS
<1> QED
  BY <1>2, <1>3, <1>6, <1>7

(* The remainders of neighbours differ.                                    *)
LEMMA NeighboursDiffer ==
  ASSUME NEW n \in Nat, n >= 2, NEW x \in Nat
  PROVE  (x % n) # ((x + 1) % n)
<1>0. n > 0 /\ 0 \in 0 .. n - 1
  OBVIOUS
<1>1. PICK q \in Nat : x = n * q + (x % n)
  BY <1>0, Division
<1>2. (x % n) \in 0 .. n - 1
  BY <1>0, Division
<1>3. CASE (x % n) + 1 \in 0 .. n - 1
  <2>1. x + 1 = n * q + ((x % n) + 1)
    BY <1>1, <1>2
  <2>2. ((n * q + ((x % n) + 1)) % n) = (x % n) + 1
    BY <1>0, <1>3, Remainder
  <2> QED
    BY <1>2, <2>1, <2>2
<1>4. CASE (x % n) = n - 1
  <2>1. x + 1 = n * (q + 1) + 0 /\ q + 1 \in Nat
    BY <1>1, <1>4
  <2>2. ((n * (q + 1) + 0) % n) = 0
    BY <1>0, <2>1, Remainder
  <2> QED
    BY <1>0, <1>4, <2>1, <2>2
<1> QED
  BY <1>2, <1>3, <1>4

(* An even number has an even remainder in an even range, and its          *)
(* successor does not wrap.                                                *)
LEMMA EvenRemainder ==
  ASSUME NEW n \in Nat, n > 0, (n % 2) = 0, NEW x \in Nat, (x % 2) = 0
  PROVE  /\ ((x % n) % 2) = 0
         /\ ((x + 1) % n) = (x % n) + 1
<1>1. PICK q \in Nat : x = n * q + (x % n)
  BY Division
<1>2. (x % n) \in 0 .. n - 1
  BY Division
<1>3. PICK h \in Nat : n = 2 * h
  BY Division
<1>4. PICK y \in Nat : x = 2 * y
  BY Division
<1>5. h * q \in Nat /\ n * q = 2 * (h * q)
  BY <1>3
<1>6. (x % n) = 2 * (y - h * q) /\ y - h * q \in Nat
  BY <1>1, <1>2, <1>4, <1>5
<1>7. ((x % n) % 2) = 0
  BY <1>6
<1>8. (x % n) + 1 \in 0 .. n - 1
  BY <1>2, <1>3, <1>6
<1>9. x + 1 = n * q + ((x % n) + 1)
  BY <1>1, <1>2, <1>5
<1> QED
  BY <1>7, <1>8, <1>9, Remainder

-----------------------------------------------------------------------------
(* Picks *)

(* A set of numbers that is not empty has a least one.                     *)
LEMMA Least ==
  ASSUME NEW T \in SUBSET Nat, T # {}
  PROVE  \E m \in T : \A t \in T : m <= t
<1>1. PICK m \in T : \A t \in T : ~(<<t, m>> \in OpToRel(<, Nat))
  BY NatLessThanWellFounded, WFMin, Zenon
<1>2. \A t \in T : ~(t < m)
  BY <1>1, Zenon DEF OpToRel
<1> QED
  BY <1>2

(* Every position below the size of a set is somebody's.                   *)
LEMMA NthExists ==
  ASSUME NEW S \in SUBSET Nat, IsFiniteSet(S), NEW k \in Nat, k < Cardinality(S)
  PROVE  Nth(S, k) \in S /\ Cardinality({t \in S : t < Nth(S, k)}) = k
<1> DEFINE Below(s) == {t \in S : t < s}
           Bad == {i \in Nat : i < Cardinality(S) /\ \A s \in S : Cardinality(Below(s)) # i}
<1>1. ASSUME Bad # {} PROVE FALSE
  <2>1. PICK i \in Bad : \A j \in Bad : i <= j
    BY <1>1, Least
  <2>2. i \in Nat /\ i < Cardinality(S) /\ \A s \in S : Cardinality(Below(s)) # i
    OBVIOUS
  <2>3. CASE i = 0
    <3>1. S # {}
      BY <2>2, <2>3, FS_EmptySet
    <3>2. PICK m \in S : \A t \in S : m <= t
      BY <3>1, Least
    <3>3. Below(m) = {}
      <4> \A t \in S : ~(t < m)
        BY <3>2
      <4> QED
        OBVIOUS
    <3> QED
      BY <2>2, <2>3, <3>3, FS_EmptySet
  <2>4. CASE i > 0
    <3>1. i - 1 \in Nat /\ i - 1 < i
      BY <2>2, <2>4
    <3>2. i - 1 < Cardinality(S)
      BY <2>2, <3>1, FS_CardinalityType
    <3>3. i - 1 \notin Bad
      BY <2>1, <2>2, <3>1
    <3>4. PICK s \in S : Cardinality(Below(s)) = i - 1
      BY <3>1, <3>2, <3>3
    <3>5. IsFiniteSet(Below(s))
      BY FS_Subset
    <3>6. s \notin Below(s) /\ s \in Nat
      OBVIOUS
    <3>7. Cardinality(Below(s) \cup {s}) = i
      <4>1. Cardinality(Below(s) \cup {s}) = Cardinality(Below(s)) + 1
        BY <3>5, <3>6, FS_AddElement, Zenon
      <4> QED
        BY <2>2, <3>4, <4>1
    <3>8. {t \in S : t > s} # {}
      <4> SUFFICES ASSUME {t \in S : t > s} = {} PROVE FALSE
        OBVIOUS
      <4>1. \A t \in S : t < s \/ t = s
        BY <3>6
      <4>2. S = Below(s) \cup {s}
        BY <4>1
      <4> QED
        BY <2>2, <3>7, <4>2
    <3>9. PICK m \in {t \in S : t > s} : \A t \in {u \in S : u > s} : m <= t
      BY <3>8, Least
    <3>10. Below(m) = Below(s) \cup {s}
      <4>1. \A t \in S : t < m <=> t < s \/ t = s
        BY <3>9, <3>6
      <4> QED
        BY <3>6, <4>1
    <3> QED
      BY <2>2, <3>7, <3>9, <3>10
  <2> QED
    BY <2>2, <2>3, <2>4
<1>2. \E s \in S : Cardinality({t \in S : t < s}) = k
  BY <1>1
<1> QED
  BY <1>2, Zenon DEF Nth

(* Two places in a set are two elements of it.                             *)
LEMMA PlacesApart ==
  ASSUME NEW S \in SUBSET Nat, IsFiniteSet(S), NEW j \in Nat, NEW k \in Nat,
         j < Cardinality(S), k < Cardinality(S), j # k
  PROVE  Nth(S, j) # Nth(S, k)
<1>1. Cardinality({t \in S : t < Nth(S, j)}) = j
  BY NthExists
<1>2. Cardinality({t \in S : t < Nth(S, k)}) = k
  BY NthExists
<1> QED
  BY <1>1, <1>2

(* The servers that are online are finitely many numbers.                  *)
LEMMA OnlineFinite ==
  ASSUME MasterTypeOK
  PROVE  /\ Online \subseteq ServerIds /\ Online \in SUBSET Nat /\ IsFiniteSet(Online)
         /\ Cardinality(Online) \in Nat
<1>1. Len(servers) \in Nat
  BY LenProperties DEF MasterTypeOK
<1>2. IsFiniteSet(ServerIds)
  BY <1>1, FS_Interval DEF ServerIds
<1>3. Online \in SUBSET ServerIds /\ ServerIds \subseteq Nat
  BY <1>1 DEF Online, ServerIds
<1>4. IsFiniteSet(Online)
  BY <1>2, <1>3, FS_Subset
<1> QED
  BY <1>3, <1>4, FS_CardinalityType

(* A chunk is placed on two servers that are online.                       *)
LEMMA PlacedApart ==
  ASSUME MasterTypeOK, CursorEven, Cardinality(Online) >= ReplicationFactor, NEW k \in Nat
  PROVE  /\ Pick(2 * k) \in Online /\ Pick(2 * k + 1) \in Online
         /\ Pick(2 * k) # Pick(2 * k + 1)
         /\ Placed(k) \in ChunkInfo
         /\ Placed(k).primary # Placed(k).secondary
         /\ Placed(k).holders = {Placed(k).primary, Placed(k).secondary}
         /\ ~Placed(k).deleted
<1> DEFINE n == Cardinality(Online)
           x == cursor + 2 * k
           a == (x % WordSize)
<1>1. /\ n \in Nat /\ n >= 2 /\ n > 0
      /\ Online \subseteq ServerIds /\ Online \in SUBSET Nat /\ IsFiniteSet(Online)
  BY OnlineFinite DEF ReplicationFactor
<1>2. WordSize \in Nat /\ WordSize > 0 /\ (WordSize % 2) = 0 /\ cursor \in Nat
  BY WordAssumption DEF MasterTypeOK
<1>3. x \in Nat /\ (x % 2) = 0
  BY <1>2 DEF CursorEven
<1>4. a \in Nat /\ ((x + 1) % WordSize) = a + 1
  <2> HIDE DEF x
  <2> QED
    BY <1>2, <1>3, Division, EvenRemainder
<1>5. (a % n) # ((a + 1) % n) /\ (a % n) \in 0 .. n - 1 /\ ((a + 1) % n) \in 0 .. n - 1
  <2>1. a \in Nat /\ a + 1 \in Nat
    BY <1>4
  <2> HIDE DEF a, n
  <2>2. (a % n) # ((a + 1) % n)
    BY <1>1, <2>1, NeighboursDiffer
  <2>3. (a % n) \in 0 .. n - 1 /\ ((a + 1) % n) \in 0 .. n - 1
    BY <1>1, <2>1, Division
  <2> QED
    BY <2>2, <2>3
<1>6. Pick(2 * k) = Nth(Online, (a % n)) /\ Pick(2 * k + 1) = Nth(Online, ((a + 1) % n))
  <2>1. cursor + (2 * k + 1) = x + 1
    BY <1>2
  <2> QED
    BY <1>4, <2>1 DEF Pick
<1>7. /\ Pick(2 * k) \in Online /\ Pick(2 * k + 1) \in Online
      /\ Pick(2 * k) # Pick(2 * k + 1)
  <2> DEFINE i == (a % n)
             j == ((a + 1) % n)
  <2>1. i \in Nat /\ j \in Nat /\ i < n /\ j < n /\ i # j
    BY <1>1, <1>5
  <2> HIDE DEF i, j
  <2>2. Nth(Online, i) \in Online /\ Nth(Online, j) \in Online /\ Nth(Online, i) # Nth(Online, j)
    BY <1>1, <2>1, NthExists, PlacesApart
  <2> QED
    BY <1>6, <2>2 DEF i, j
<1> HIDE DEF n, x, a
<1> QED
  BY <1>1, <1>7 DEF Placed, ChunkInfo

-----------------------------------------------------------------------------
(* Initial state and steps *)

LEMMA InitIInv == MasterInit => IInv
<1> SUFFICES ASSUME MasterInit PROVE IInv
  OBVIOUS
<1>1. DOMAIN files = {} /\ DOMAIN chunks = {}
  BY DEF MasterInit
<1>2. MasterTypeOK
  BY <1>1, WordAssumption DEF MasterInit, MasterTypeOK
<1> QED
  BY <1>1, <1>2 DEF MasterInit, IInv, CursorEven, ReplicasDistinct, NamespaceSound

(* The chunks of a file were given out.                                    *)
LEMMA FileChunks ==
  ASSUME MasterTypeOK, NEW p \in DOMAIN files
  PROVE  Range(files[p]) \subseteq ChunkIds
<1>1. files[p] \in Seq(ChunkIds)
  BY DEF MasterTypeOK
<1> QED
  BY <1>1, LenProperties DEF Range

(* The chunks of a new file: fresh numbers, each once.                     *)
LEMMA NewChunks ==
  ASSUME NEW m \in Nat, NEW n \in Nat
  PROVE  LET new == [i \in 1 .. n |-> m + i - 1] IN
         /\ new \in Seq(0 .. m + n - 1)
         /\ Range(new) = m .. m + n - 1
         /\ IsInjective(new)
<1> DEFINE new == [i \in 1 .. n |-> m + i - 1]
<1>1. new \in Seq(0 .. m + n - 1)
  BY SeqDef
<1>2. DOMAIN new = 1 .. n /\ \A i \in 1 .. n : new[i] = m + i - 1
  OBVIOUS
<1> HIDE DEF new
<1>3. Range(new) = m .. m + n - 1
  <2>1. ASSUME NEW c \in Range(new) PROVE c \in m .. m + n - 1
    BY <1>2 DEF Range
  <2>2. ASSUME NEW c \in m .. m + n - 1 PROVE c \in Range(new)
    <3>1. c - m + 1 \in 1 .. n /\ m + (c - m + 1) - 1 = c
      OBVIOUS
    <3>2. new[c - m + 1] = c
      BY <1>2, <3>1
    <3> QED
      BY <1>2, <3>1, <3>2 DEF Range
  <2> QED
    BY <2>1, <2>2
<1>4. IsInjective(new)
  BY <1>2 DEF IsInjective
<1> QED
  BY <1>1, <1>3, <1>4 DEF new

(* What an allocation does, by file and by chunk.                          *)
LEMMA AllocateEffect ==
  ASSUME MasterTypeOK, NEW p \in Paths, NEW n \in Nat, Allocate(p, n)
  PROVE  /\ p \notin DOMAIN files /\ DOMAIN files' = DOMAIN files \cup {p}
         /\ \A q \in DOMAIN files : files'[q] = files[q]
         /\ Range(files'[p]) = nextChunk .. nextChunk + n - 1
         /\ IsInjective(files'[p])
         /\ files'[p] \in Seq(ChunkIds')
         /\ nextChunk' = nextChunk + n /\ nextChunk \in Nat
         /\ ChunkIds \subseteq ChunkIds'
         /\ DOMAIN chunks' = DOMAIN chunks \cup (nextChunk .. nextChunk + n - 1)
         /\ \A c \in DOMAIN chunks : chunks'[c] = chunks[c] /\ c < nextChunk
         /\ \A c \in nextChunk .. nextChunk + n - 1 :
               chunks'[c] = Placed(c - nextChunk) /\ c - nextChunk \in Nat
<1> DEFINE ids == nextChunk .. nextChunk + n - 1
           new == [i \in 1 .. n |-> nextChunk + i - 1]
<1>1. nextChunk \in Nat /\ DOMAIN chunks \subseteq ChunkIds
  BY DEF MasterTypeOK
<1>2. new \in Seq(0 .. nextChunk + n - 1) /\ Range(new) = ids /\ IsInjective(new)
  BY <1>1, NewChunks
<1>3. /\ p \notin DOMAIN files
      /\ files' = [q \in DOMAIN files \cup {p} |-> IF q = p THEN new ELSE files[q]]
      /\ chunks' = [c \in DOMAIN chunks \cup ids |->
                      IF c \in ids THEN Placed(c - nextChunk) ELSE chunks[c]]
      /\ nextChunk' = nextChunk + n
  BY DEF Allocate
<1> HIDE DEF new
<1>4. files'[p] = new /\ \A q \in DOMAIN files : files'[q] = files[q]
  BY <1>3
<1>5. ChunkIds' = 0 .. nextChunk + n - 1 /\ ChunkIds \subseteq ChunkIds'
  BY <1>1, <1>3 DEF ChunkIds
<1>6. \A c \in DOMAIN chunks : c < nextChunk /\ c \in Int
  BY <1>1 DEF ChunkIds
<1>7. \A c \in DOMAIN chunks : c \notin ids
  BY <1>1, <1>6
<1>8. \A c \in ids : c - nextChunk \in Nat
  BY <1>1
<1> HIDE DEF ids
<1>9. /\ DOMAIN files' = DOMAIN files \cup {p} /\ DOMAIN chunks' = DOMAIN chunks \cup ids
      /\ \A c \in DOMAIN chunks : chunks'[c] = chunks[c]
      /\ \A c \in ids : chunks'[c] = Placed(c - nextChunk)
  BY <1>3, <1>7
<1> QED
  BY <1>1, <1>2, <1>3, <1>4, <1>5, <1>6, <1>8, <1>9 DEF ids

LEMMA AllocateKeeps ==
  ASSUME IInv, NEW p \in Paths, NEW n \in Nat, Allocate(p, n)
  PROVE  IInv'
<1> DEFINE ids == nextChunk .. nextChunk + n - 1
<1>0. MasterTypeOK /\ CursorEven /\ ReplicasDistinct /\ NamespaceSound
  BY DEF IInv
<1>1. /\ p \notin DOMAIN files /\ DOMAIN files' = DOMAIN files \cup {p}
      /\ \A q \in DOMAIN files : files'[q] = files[q]
      /\ Range(files'[p]) = ids /\ IsInjective(files'[p]) /\ files'[p] \in Seq(ChunkIds')
  BY <1>0, AllocateEffect
<1>2. /\ DOMAIN chunks' = DOMAIN chunks \cup ids
      /\ \A c \in DOMAIN chunks : chunks'[c] = chunks[c] /\ c < nextChunk
      /\ \A c \in ids : chunks'[c] = Placed(c - nextChunk) /\ c - nextChunk \in Nat
      /\ nextChunk' = nextChunk + n /\ nextChunk \in Nat /\ ChunkIds \subseteq ChunkIds'
  BY <1>0, AllocateEffect
<1>3. /\ servers' = servers /\ Cardinality(Online) >= ReplicationFactor
      /\ cursor' = ((cursor + 2 * n) % WordSize)
  BY DEF Allocate, ReplicationFactor
<1>4. ServerIds' = ServerIds /\ ChunkInfo' = ChunkInfo
  BY <1>3 DEF ServerIds, ChunkInfo
<1>5. \A c \in ids : /\ chunks'[c] \in ChunkInfo
                     /\ chunks'[c].primary # chunks'[c].secondary
                     /\ chunks'[c].holders = {chunks'[c].primary, chunks'[c].secondary}
                     /\ ~chunks'[c].deleted
  BY <1>0, <1>2, <1>3, PlacedApart
<1>6. cursor' \in 0 .. WordSize - 1 /\ (cursor' % 2) = 0
  <2> DEFINE x == cursor + 2 * n
  <2>1. WordSize \in Nat /\ WordSize > 0 /\ (WordSize % 2) = 0 /\ cursor \in Nat
    BY <1>0, WordAssumption DEF MasterTypeOK
  <2>2. x \in Nat /\ (x % 2) = 0
    BY <1>0, <2>1 DEF CursorEven
  <2> HIDE DEF x
  <2>3. (x % WordSize) \in 0 .. WordSize - 1 /\ ((x % WordSize) % 2) = 0
    BY <2>1, <2>2, Division, EvenRemainder
  <2> QED
    BY <1>3, <2>3 DEF x
<1>7. MasterTypeOK'
  <2>1. ids \subseteq ChunkIds' /\ DOMAIN chunks \subseteq ChunkIds'
    <3>1. DOMAIN chunks \subseteq ChunkIds
      BY <1>0 DEF MasterTypeOK
    <3> QED
      BY <1>2, <3>1 DEF ChunkIds
  <2>2. \A q \in DOMAIN files : files[q] \in Seq(ChunkIds')
    <3>1. \A q \in DOMAIN files : files[q] \in Seq(ChunkIds)
      BY <1>0 DEF MasterTypeOK
    <3> QED
      BY <1>2, <3>1, SeqMonotonic
  <2>3. DOMAIN files' \subseteq Paths /\ \A q \in DOMAIN files' : files'[q] \in Seq(ChunkIds')
    <3>1. DOMAIN files \subseteq Paths
      BY <1>0 DEF MasterTypeOK
    <3> QED
      BY <1>1, <2>2, <3>1
  <2>4. DOMAIN chunks' \subseteq ChunkIds' /\ \A c \in DOMAIN chunks' : chunks'[c] \in ChunkInfo'
    <3>1. \A c \in DOMAIN chunks : chunks[c] \in ChunkInfo
      BY <1>0 DEF MasterTypeOK
    <3> QED
      BY <1>2, <1>4, <1>5, <2>1, <3>1
  <2>5. servers' \in Seq([addr : Addrs, online : BOOLEAN]) /\ nextChunk' \in Nat
    BY <1>0, <1>2, <1>3 DEF MasterTypeOK
  <2> QED
    BY <1>6, <2>3, <2>4, <2>5 DEF MasterTypeOK
<1>8. ReplicasDistinct'
  BY <1>0, <1>2, <1>5 DEF ReplicasDistinct
<1>9. NamespaceSound'
  <2>1. \A q \in DOMAIN files : Range(files[q]) \cap ids = {}
    <3>1. \A q \in DOMAIN files : Range(files[q]) \subseteq ChunkIds
      BY <1>0, FileChunks
    <3> QED
      BY <1>2, <3>1 DEF ChunkIds
  <2>2. \A q \in DOMAIN files' :
          /\ IsInjective(files'[q])
          /\ \A c \in Range(files'[q]) : c \in DOMAIN chunks' /\ ~chunks'[c].deleted
    BY <1>0, <1>1, <1>2, <1>5 DEF NamespaceSound
  <2>3. \A q, r \in DOMAIN files' : q # r => Range(files'[q]) \cap Range(files'[r]) = {}
    BY <1>0, <1>1, <2>1 DEF NamespaceSound
  <2>4. ASSUME NEW c \in DOMAIN chunks'
        PROVE  IF chunks'[c].deleted
               THEN chunks'[c].holders # {}
               ELSE /\ \E q \in DOMAIN files' : c \in Range(files'[q])
                    /\ chunks'[c].holders = {chunks'[c].primary, chunks'[c].secondary}
    <3>1. CASE c \in ids
      BY <1>1, <1>5, <3>1
    <3>2. CASE c \in DOMAIN chunks
      BY <1>0, <1>1, <1>2, <3>2 DEF NamespaceSound
    <3> QED
      BY <1>2, <3>1, <3>2
  <2> QED
    BY <2>2, <2>3, <2>4 DEF NamespaceSound
<1> QED
  BY <1>6, <1>7, <1>8, <1>9 DEF IInv, CursorEven

(* A deletion marks the chunks of one file, which nothing else has.        *)
LEMMA DeleteKeeps ==
  ASSUME IInv, NEW p \in Paths, Delete(p)
  PROVE  IInv'
<1>0. MasterTypeOK /\ CursorEven /\ ReplicasDistinct /\ NamespaceSound
  BY DEF IInv
<1>1. /\ p \in DOMAIN files /\ DOMAIN files' = DOMAIN files \ {p}
      /\ \A q \in DOMAIN files' : files'[q] = files[q]
      /\ UNCHANGED <<servers, nextChunk, cursor>>
  BY DEF Delete
<1>2. \A c \in DOMAIN chunks : chunks[c] \in ChunkInfo
  BY <1>0 DEF MasterTypeOK
<1>3. /\ DOMAIN chunks' = DOMAIN chunks
      /\ \A c \in DOMAIN chunks :
           /\ chunks'[c].primary = chunks[c].primary /\ chunks'[c].secondary = chunks[c].secondary
           /\ chunks'[c].holders = chunks[c].holders
           /\ chunks'[c].deleted = (chunks[c].deleted \/ c \in Range(files[p]))
           /\ chunks'[c] \in ChunkInfo
  <2>1. chunks' = [c \in DOMAIN chunks |->
                    IF c \in Range(files[p]) THEN [chunks[c] EXCEPT !.deleted = TRUE]
                                             ELSE chunks[c]]
    BY DEF Delete
  <2> SUFFICES ASSUME NEW c \in DOMAIN chunks
               PROVE  /\ chunks'[c].primary = chunks[c].primary
                      /\ chunks'[c].secondary = chunks[c].secondary
                      /\ chunks'[c].holders = chunks[c].holders
                      /\ chunks'[c].deleted = (chunks[c].deleted \/ c \in Range(files[p]))
                      /\ chunks'[c] \in ChunkInfo
    BY <2>1
  <2>2. CASE c \in Range(files[p])
    BY <1>2, <2>1, <2>2 DEF ChunkInfo
  <2>3. CASE c \notin Range(files[p])
    BY <1>2, <2>1, <2>3 DEF ChunkInfo
  <2> QED
    BY <2>2, <2>3
<1>4. ServerIds' = ServerIds /\ ChunkInfo' = ChunkInfo /\ ChunkIds' = ChunkIds
  BY <1>1 DEF ServerIds, ChunkInfo, ChunkIds
<1>5. MasterTypeOK'
  BY <1>0, <1>1, <1>3, <1>4 DEF MasterTypeOK
<1>6. ReplicasDistinct'
  BY <1>0, <1>3 DEF ReplicasDistinct
<1>7. NamespaceSound'
  <2>1. \A q \in DOMAIN files' : Range(files[q]) \cap Range(files[p]) = {} /\ q \in DOMAIN files
    BY <1>0, <1>1 DEF NamespaceSound
  <2>2. \A q \in DOMAIN files' :
          /\ IsInjective(files'[q])
          /\ \A c \in Range(files'[q]) : c \in DOMAIN chunks' /\ ~chunks'[c].deleted
    BY <1>0, <1>1, <1>3, <2>1 DEF NamespaceSound
  <2>3. \A q, r \in DOMAIN files' : q # r => Range(files'[q]) \cap Range(files'[r]) = {}
    BY <1>0, <1>1, <2>1 DEF NamespaceSound
  <2>4. ASSUME NEW c \in DOMAIN chunks'
        PROVE  IF chunks'[c].deleted
               THEN chunks'[c].holders # {}
               ELSE /\ \E q \in DOMAIN files' : c \in Range(files'[q])
                    /\ chunks'[c].holders = {chunks'[c].primary, chunks'[c].secondary}
    <3>1. c \in DOMAIN chunks /\ (chunks'[c].deleted <=> chunks[c].deleted \/ c \in Range(files[p]))
      BY <1>3
    <3>2. CASE chunks[c].deleted
      BY <1>0, <1>3, <3>1, <3>2 DEF NamespaceSound
    <3>3. CASE ~chunks[c].deleted
      <4>1. chunks[c].holders = {chunks[c].primary, chunks[c].secondary}
        BY <1>0, <3>1, <3>3 DEF NamespaceSound
      <4>2. PICK q \in DOMAIN files : c \in Range(files[q])
        BY <1>0, <3>1, <3>3 DEF NamespaceSound
      <4>3. CASE q = p
        BY <1>3, <3>1, <4>1, <4>2, <4>3
      <4>4. CASE q # p
        <5>1. q \in DOMAIN files' /\ c \in Range(files'[q])
          BY <1>1, <4>2, <4>4
        <5> QED
          BY <1>3, <3>1, <4>1, <5>1
      <4> QED
        BY <4>3, <4>4
    <3> QED
      BY <3>2, <3>3
  <2> QED
    BY <2>2, <2>3, <2>4 DEF NamespaceSound
<1> QED
  BY <1>0, <1>1, <1>5, <1>6, <1>7 DEF IInv, CursorEven

(* Servers that come, and servers that are marked.                         *)
LEMMA ServersKeep ==
  ASSUME IInv, UNCHANGED <<files, chunks, nextChunk, cursor>>,
         servers' \in Seq([addr : Addrs, online : BOOLEAN]),
         Len(servers') >= Len(servers)
  PROVE  IInv'
<1>0. MasterTypeOK /\ CursorEven /\ ReplicasDistinct /\ NamespaceSound
  BY DEF IInv
<1>1. Len(servers) \in Nat /\ Len(servers') \in Nat
  BY <1>0, LenProperties DEF MasterTypeOK
<1>2. ChunkIds' = ChunkIds /\ ServerIds \subseteq ServerIds'
  BY <1>1 DEF ChunkIds, ServerIds
<1>3. \A c \in DOMAIN chunks : chunks[c] \in ChunkInfo'
  BY <1>0, <1>2 DEF MasterTypeOK, ChunkInfo
<1>4. MasterTypeOK'
  BY <1>0, <1>2, <1>3 DEF MasterTypeOK
<1> QED
  BY <1>0, <1>4 DEF IInv, CursorEven, ReplicasDistinct, NamespaceSound

LEMMA RegisterKeeps ==
  ASSUME IInv, NEW a \in Addrs, Register(a)
  PROVE  IInv'
<1> DEFINE S == [addr : Addrs, online : BOOLEAN]
           e == [addr |-> a, online |-> TRUE]
<1>1. servers \in Seq(S) /\ e \in S
  BY DEF IInv, MasterTypeOK
<1>2. servers' = Append(servers, e) /\ UNCHANGED <<files, chunks, nextChunk, cursor>>
  BY DEF Register
<1>3. servers' \in Seq(S) /\ Len(servers') = Len(servers) + 1 /\ Len(servers) \in Nat
  <2> HIDE DEF S, e
  <2> QED
    BY <1>1, <1>2, AppendProperties, LenProperties
<1> QED
  BY <1>2, <1>3, ServersKeep

(* Marking a server online or offline.                                     *)
LEMMA MarkServer ==
  ASSUME MasterTypeOK, NEW s \in ServerIds, NEW b \in BOOLEAN,
         servers' = [servers EXCEPT ![s].online = b]
  PROVE  /\ servers' \in Seq([addr : Addrs, online : BOOLEAN])
         /\ Len(servers') = Len(servers)
         /\ \A t \in ServerIds : servers'[t].addr = servers[t].addr
<1> DEFINE S == [addr : Addrs, online : BOOLEAN]
           e == [servers[s] EXCEPT !.online = b]
<1>1. servers \in Seq(S) /\ s \in 1 .. Len(servers) /\ DOMAIN servers = 1 .. Len(servers)
  BY LenProperties DEF MasterTypeOK, ServerIds
<1>2. \A t \in ServerIds : servers[t] \in S
  BY <1>1, ElementOfSeq DEF ServerIds
<1>3. e \in S /\ e.addr = servers[s].addr
  BY <1>2
<1>4. servers' = [servers EXCEPT ![s] = e]
  OBVIOUS
<1> HIDE DEF S, e
<1>5. servers' \in Seq(S) /\ Len(servers') = Len(servers)
  BY <1>1, <1>3, <1>4, ExceptSeq
<1>6. \A t \in ServerIds : servers'[t] = IF t = s THEN e ELSE servers[t]
  BY <1>1, <1>4 DEF ServerIds
<1> QED
  BY <1>3, <1>5, <1>6 DEF S

LEMMA TimeOutKeeps ==
  ASSUME IInv, NEW s \in ServerIds, TimeOut(s)
  PROVE  IInv'
<1>1. servers' = [servers EXCEPT ![s].online = FALSE] /\ UNCHANGED <<files, chunks, nextChunk, cursor>>
  BY DEF TimeOut
<1>2. servers' \in Seq([addr : Addrs, online : BOOLEAN]) /\ Len(servers') = Len(servers)
  BY <1>1, MarkServer DEF IInv
<1>3. Len(servers) \in Nat
  BY LenProperties DEF IInv, MasterTypeOK
<1> QED
  BY <1>1, <1>2, <1>3, ServersKeep

(* What a heartbeat does to the chunk table: nothing to a chunk that is    *)
(* not deleted; a deleted one may lose the sender, and without a holder    *)
(* its entry.                                                              *)
LEMMA HeartbeatEffect ==
  ASSUME MasterTypeOK, NEW s \in ServerIds, NEW held, Heartbeat(s, held)
  PROVE  /\ DOMAIN chunks' \subseteq DOMAIN chunks
         /\ \A c \in DOMAIN chunks \ DOMAIN chunks' : chunks[c].deleted
         /\ \A c \in DOMAIN chunks' :
              /\ chunks'[c] \in ChunkInfo
              /\ chunks'[c].primary = chunks[c].primary
              /\ chunks'[c].secondary = chunks[c].secondary
              /\ chunks'[c].deleted = chunks[c].deleted
              /\ chunks'[c].holders \subseteq chunks[c].holders
              /\ ~chunks[c].deleted => chunks'[c].holders = chunks[c].holders
              /\ chunks[c].holders # {} => chunks'[c].holders # {}
<1> DEFINE left == Left(s, held)
           forget == {c \in left : chunks[c].holders \ {s} = {}}
<1>1. chunks' = [c \in DOMAIN chunks \ forget |->
                  IF c \in left THEN [chunks[c] EXCEPT !.holders = @ \ {s}] ELSE chunks[c]]
  BY DEF Heartbeat
<1>2. \A c \in DOMAIN chunks : chunks[c] \in ChunkInfo
  BY DEF MasterTypeOK
<1>3. \A c \in left : c \in DOMAIN chunks /\ chunks[c].deleted
  BY DEF Left
<1> HIDE DEF left
<1>4. /\ DOMAIN chunks' \subseteq DOMAIN chunks
      /\ \A c \in DOMAIN chunks \ DOMAIN chunks' : chunks[c].deleted
  BY <1>1, <1>3
<1> SUFFICES ASSUME NEW c \in DOMAIN chunks'
             PROVE  /\ chunks'[c] \in ChunkInfo
                    /\ chunks'[c].primary = chunks[c].primary
                    /\ chunks'[c].secondary = chunks[c].secondary
                    /\ chunks'[c].deleted = chunks[c].deleted
                    /\ chunks'[c].holders \subseteq chunks[c].holders
                    /\ ~chunks[c].deleted => chunks'[c].holders = chunks[c].holders
                    /\ chunks[c].holders # {} => chunks'[c].holders # {}
  BY <1>4
<1>5. chunks[c] \in ChunkInfo
  BY <1>2, <1>4
<1>6. CASE c \in left
  <2>1. chunks[c].holders \ {s} # {}
    BY <1>1, <1>6
  <2>2. chunks'[c] = [chunks[c] EXCEPT !.holders = @ \ {s}]
    BY <1>1, <1>6
  <2> QED
    BY <1>3, <1>5, <1>6, <2>1, <2>2 DEF ChunkInfo
<1>7. CASE c \notin left
  BY <1>1, <1>5, <1>7
<1> QED
  BY <1>6, <1>7

LEMMA HeartbeatKeeps ==
  ASSUME IInv, NEW s \in ServerIds, NEW held, Heartbeat(s, held)
  PROVE  IInv'
<1>0. MasterTypeOK /\ CursorEven /\ ReplicasDistinct /\ NamespaceSound
  BY DEF IInv
<1>1. servers' = [servers EXCEPT ![s].online = TRUE] /\ UNCHANGED <<files, nextChunk, cursor>>
  BY DEF Heartbeat
<1>2. servers' \in Seq([addr : Addrs, online : BOOLEAN]) /\ Len(servers') = Len(servers)
  BY <1>0, <1>1, MarkServer
<1>3. ServerIds' = ServerIds /\ ChunkInfo' = ChunkInfo /\ ChunkIds' = ChunkIds
  BY <1>1, <1>2 DEF ServerIds, ChunkInfo, ChunkIds
<1>4. /\ DOMAIN chunks' \subseteq DOMAIN chunks
      /\ \A c \in DOMAIN chunks \ DOMAIN chunks' : chunks[c].deleted
      /\ \A c \in DOMAIN chunks' :
           /\ chunks'[c] \in ChunkInfo
           /\ chunks'[c].primary = chunks[c].primary
           /\ chunks'[c].secondary = chunks[c].secondary
           /\ chunks'[c].deleted = chunks[c].deleted
           /\ ~chunks[c].deleted => chunks'[c].holders = chunks[c].holders
           /\ chunks[c].holders # {} => chunks'[c].holders # {}
  BY <1>0, HeartbeatEffect
<1>5. MasterTypeOK'
  BY <1>0, <1>1, <1>2, <1>3, <1>4 DEF MasterTypeOK
<1>6. ReplicasDistinct'
  BY <1>0, <1>4 DEF ReplicasDistinct
<1>7. NamespaceSound'
  <2>1. \A q \in DOMAIN files : \A c \in Range(files[q]) :
           c \in DOMAIN chunks' /\ ~chunks'[c].deleted
    BY <1>0, <1>4 DEF NamespaceSound
  <2>2. ASSUME NEW c \in DOMAIN chunks'
        PROVE  IF chunks'[c].deleted
               THEN chunks'[c].holders # {}
               ELSE /\ \E q \in DOMAIN files' : c \in Range(files'[q])
                    /\ chunks'[c].holders = {chunks'[c].primary, chunks'[c].secondary}
    BY <1>0, <1>1, <1>4 DEF NamespaceSound
  <2> QED
    BY <1>0, <1>1, <2>1, <2>2 DEF NamespaceSound
<1> QED
  BY <1>0, <1>1, <1>5, <1>6, <1>7 DEF IInv, CursorEven

(* Servers and chunk numbers only become more, and addresses stay.         *)
LEMMA MasterGrows ==
  ASSUME IInv, [MasterNext]_masterVars
  PROVE  /\ ServerIds \subseteq ServerIds' /\ ChunkIds \subseteq ChunkIds'
         /\ Len(servers) \in Nat /\ ServerIds = 1 .. Len(servers)
         /\ \A s \in ServerIds : AddrOf(s)' = AddrOf(s)
<1>0. /\ servers \in Seq([addr : Addrs, online : BOOLEAN]) /\ nextChunk \in Nat
      /\ Len(servers) \in Nat /\ MasterTypeOK
  BY LenProperties DEF IInv, MasterTypeOK
<1>1. ASSUME NEW p \in Paths, Delete(p)
      PROVE  ServerIds' = ServerIds /\ ChunkIds' = ChunkIds /\ servers' = servers
  BY <1>1 DEF Delete, ServerIds, ChunkIds
<1>2. ASSUME NEW p \in Paths, NEW n \in 0 .. MaxChunks, Allocate(p, n)
      PROVE  ServerIds' = ServerIds /\ ChunkIds \subseteq ChunkIds' /\ servers' = servers
  <2>1. nextChunk' = nextChunk + n /\ servers' = servers /\ n \in Nat
    BY <1>2, ChunksAssumption DEF Allocate
  <2> QED
    BY <1>0, <2>1 DEF ServerIds, ChunkIds
<1>3. ASSUME NEW a \in Addrs, Register(a)
      PROVE  /\ ServerIds \subseteq ServerIds' /\ ChunkIds' = ChunkIds
             /\ \A s \in ServerIds : servers'[s] = servers[s]
  <2> DEFINE e == [addr |-> a, online |-> TRUE]
  <2>1. servers' = Append(servers, e) /\ nextChunk' = nextChunk
    BY <1>3 DEF Register
  <2>2. e \in [addr : Addrs, online : BOOLEAN]
    OBVIOUS
  <2> HIDE DEF e
  <2>3. Len(servers') = Len(servers) + 1 /\ \A s \in 1 .. Len(servers) : servers'[s] = servers[s]
    BY <1>0, <2>1, <2>2, AppendProperties
  <2> QED
    BY <1>0, <2>1, <2>3 DEF ServerIds, ChunkIds
<1>4. ASSUME NEW t \in ServerIds, TimeOut(t) \/ \E held \in SUBSET ChunkIds : Heartbeat(t, held)
      PROVE  /\ ServerIds' = ServerIds /\ ChunkIds' = ChunkIds
             /\ \A s \in ServerIds : servers'[s].addr = servers[s].addr
  <2>1. PICK b \in BOOLEAN : servers' = [servers EXCEPT ![t].online = b]
    BY <1>4 DEF TimeOut, Heartbeat
  <2>2. nextChunk' = nextChunk
    BY <1>4 DEF TimeOut, Heartbeat
  <2>3. Len(servers') = Len(servers) /\ \A s \in ServerIds : servers'[s].addr = servers[s].addr
    BY <1>0, <2>1, MarkServer
  <2> QED
    BY <2>2, <2>3 DEF ServerIds, ChunkIds
<1>5. CASE UNCHANGED masterVars
  BY <1>0, <1>5 DEF masterVars, ServerIds, ChunkIds, AddrOf
<1> QED
  BY <1>0, <1>1, <1>2, <1>3, <1>4, <1>5 DEF MasterNext, AddrOf, ServerIds

-----------------------------------------------------------------------------
(* Theorems *)

(* Every step of the master keeps all of it.                               *)
LEMMA StepKeeps == IInv /\ [MasterNext]_masterVars => IInv'
<1> SUFFICES ASSUME IInv, [MasterNext]_masterVars PROVE IInv'
  OBVIOUS
<1>1. ASSUME NEW p \in Paths, Delete(p) PROVE IInv'
  BY <1>1, DeleteKeeps
<1>2. ASSUME NEW p \in Paths, NEW n \in 0 .. MaxChunks, Allocate(p, n) PROVE IInv'
  <2>1. n \in Nat
    BY ChunksAssumption
  <2> QED
    BY <1>2, <2>1, AllocateKeeps
<1>3. ASSUME NEW a \in Addrs, Register(a) PROVE IInv'
  BY <1>3, RegisterKeeps
<1>4. ASSUME NEW s \in ServerIds, TimeOut(s) PROVE IInv'
  BY <1>4, TimeOutKeeps
<1>5. ASSUME NEW s \in ServerIds, NEW held \in SUBSET ChunkIds, Heartbeat(s, held) PROVE IInv'
  BY <1>5, HeartbeatKeeps
<1>6. CASE UNCHANGED masterVars
  BY <1>6 DEF masterVars, IInv, MasterTypeOK, CursorEven, ReplicasDistinct, NamespaceSound,
              ChunkIds, ServerIds, ChunkInfo
<1> QED
  BY <1>1, <1>2, <1>3, <1>4, <1>5, <1>6 DEF MasterNext

LEMMA Invariance == MasterSpec => []IInv
<1> QED
  BY InitIInv, StepKeeps, PTL DEF MasterSpec

(* Files, chunks and servers stay what they are in master.rs, and          *)
(* rr_cursor never leaves its word.                                        *)
THEOREM TypeCorrect == MasterSpec => []MasterTypeOK
<1>1. IInv => MasterTypeOK
  BY DEF IInv
<1> QED
  BY <1>1, Invariance, PTL

(* The namespace and the chunk table always agree: allocate, delete and    *)
(* heartbeat, in any order and with any reports.                           *)
THEOREM NamespaceAlwaysSound == MasterSpec => []NamespaceSound
<1>1. IInv => NamespaceSound
  BY DEF IInv
<1> QED
  BY <1>1, Invariance, PTL

(* The two replicas of a chunk are two servers, for every number of them   *)
(* and wherever rr_cursor wraps (allocate).                                *)
THEOREM ReplicasAlwaysDistinct == MasterSpec => []ReplicasDistinct
<1>1. IInv => ReplicasDistinct
  BY DEF IInv
<1> QED
  BY <1>1, Invariance, PTL

(* No step makes the master want a chunk that it does not want (any more). *)
LEMMA StepUnwanted ==
  IInv /\ [MasterNext]_masterVars =>
    [\A c \in ChunkIds, s \in ServerIds : ~Wanted(s, c) => ~Wanted(s, c)']_masterVars
<1> SUFFICES ASSUME IInv, MasterNext, NEW c \in ChunkIds, NEW s \in ServerIds, Wanted(s, c)'
             PROVE  Wanted(s, c)
  OBVIOUS
<1>0. MasterTypeOK
  BY DEF IInv
<1>w. c \in DOMAIN chunks' /\ ~chunks'[c].deleted /\ s \in chunks'[c].holders
  BY DEF Wanted
<1>1. ASSUME NEW p \in Paths, Delete(p) PROVE Wanted(s, c)
  <2>1. \A d \in DOMAIN chunks : chunks[d] \in ChunkInfo
    BY <1>0 DEF MasterTypeOK
  <2>2. chunks' = [d \in DOMAIN chunks |->
                    IF d \in Range(files[p]) THEN [chunks[d] EXCEPT !.deleted = TRUE]
                                             ELSE chunks[d]]
    BY <1>1 DEF Delete
  <2>3. c \in DOMAIN chunks /\ chunks[c] \in ChunkInfo
    BY <1>w, <2>1, <2>2
  <2>4. c \notin Range(files[p])
    BY <1>w, <2>2, <2>3 DEF ChunkInfo
  <2> QED
    BY <1>w, <2>2, <2>3, <2>4 DEF Wanted
<1>2. ASSUME NEW p \in Paths, NEW n \in 0 .. MaxChunks, Allocate(p, n) PROVE Wanted(s, c)
  <2>1. n \in Nat
    BY ChunksAssumption
  <2>2. /\ DOMAIN chunks' = DOMAIN chunks \cup (nextChunk .. nextChunk + n - 1)
        /\ \A d \in DOMAIN chunks : chunks'[d] = chunks[d]
        /\ nextChunk \in Nat
    BY <1>0, <1>2, <2>1, AllocateEffect
  <2>3. c \notin nextChunk .. nextChunk + n - 1
    BY <2>1, <2>2 DEF ChunkIds
  <2> QED
    BY <1>w, <2>2, <2>3 DEF Wanted
<1>3. ASSUME UNCHANGED chunks PROVE Wanted(s, c)
  BY <1>3, <1>w DEF Wanted
<1>4. ASSUME NEW t \in ServerIds, NEW held, Heartbeat(t, held) PROVE Wanted(s, c)
  <2>1. c \in DOMAIN chunks /\ chunks'[c].deleted = chunks[c].deleted
        /\ chunks'[c].holders \subseteq chunks[c].holders
    BY <1>0, <1>4, <1>w, HeartbeatEffect
  <2> QED
    BY <1>w, <2>1 DEF Wanted
<1> QED
  BY <1>1, <1>2, <1>3, <1>4 DEF MasterNext, Register, TimeOut

(* A chunk that the master does not want on a server it never wants there  *)
(* again (heartbeat, delete): a drop order that comes late is still right. *)
THEOREM NeverWantedAgain == MasterSpec => UnwantedForGood
<1> QED
  BY Invariance, StepUnwanted, PTL DEF MasterSpec, UnwantedForGood

=============================================================================
