--------------------------- MODULE WalStoreProofs ---------------------------
(***************************************************************************)
(* The store of wal/src/lib.rs survives the crashes it can survive, for    *)
(* every number of keys, values, updates, compactions and crashes.         *)
(***************************************************************************)
EXTENDS WalStore, FiniteSetTheorems, SequenceTheorems, WellFoundedInduction, TLAPS

Item  == Frame \cup Junk
Entry == [db : Inodes \cup {None}, tmp : Inodes \cup {None}]

-----------------------------------------------------------------------------
(* Numbers *)

LEMMA Least ==
  ASSUME NEW T \in SUBSET Nat, T # {}
  PROVE  \E m \in T : \A t \in T : m <= t
<1>1. PICK m \in T : \A t \in T : ~(<<t, m>> \in OpToRel(<, Nat))
  BY NatLessThanWellFounded, WFMin, Zenon
<1>2. \A t \in T : ~(t < m)
  BY <1>1, Zenon DEF OpToRel
<1> QED
  BY <1>2

LEMMA Greatest ==
  ASSUME NEW n \in Nat, NEW T \in SUBSET (1 .. n), T # {}
  PROVE  \E m \in T : \A t \in T : t <= m
<1> DEFINE U == {u \in Nat : \E t \in T : u = n - t}
<1>1. \A t \in T : n - t \in Nat
  OBVIOUS
<1>2. U # {} /\ U \in SUBSET Nat
  BY <1>1
<1>3. PICK u \in U : \A w \in U : u <= w
  BY <1>2, Least
<1>4. PICK m \in T : u = n - m
  OBVIOUS
<1>5. ASSUME NEW t \in T PROVE t <= m
  <2>1. u <= n - t
    BY <1>1, <1>3
  <2> QED
    BY <1>4, <2>1
<1> QED
  BY <1>5

-----------------------------------------------------------------------------
(* Logs *)

LEMMA ReadableFrame ==
  ASSUME NEW item \in Item, Readable(item)
  PROVE  item \in Frame
BY DEF Item, Frame, Junk, Readable, IsFrame

LEMMA PrefixFacts ==
  ASSUME NEW log \in Seq(Item)
  PROVE  /\ Prefix(log) \in 0 .. Len(log)
         /\ \A i \in 1 .. Prefix(log) : Readable(log[i]) /\ log[i] \in Frame
         /\ Prefix(log) < Len(log) => ~Readable(log[Prefix(log) + 1])
<1>1. Len(log) \in Nat /\ \A i \in 1 .. Len(log) : log[i] \in Item
  BY LenProperties, ElementOfSeq
<1>2. Stops(log) \in SUBSET Nat /\ Stops(log) \subseteq 1 .. Len(log)
  BY DEF Stops
<1>3. CASE Stops(log) = {}
  <2>1. Prefix(log) = Len(log) /\ \A i \in 1 .. Len(log) : Readable(log[i])
    BY <1>3 DEF Prefix, Stops
  <2> QED
    BY <1>1, <2>1, ReadableFrame
<1>4. CASE Stops(log) # {}
  <2> DEFINE P(m) == m \in Stops(log) /\ \A j \in Stops(log) : m <= j
  <2>1. \E m : P(m)
    BY <1>2, <1>4, Least
  <2>2. PICK m : P(m) /\ m = CHOOSE i \in Stops(log) : \A j \in Stops(log) : i <= j
    BY <2>1
  <2>3. Prefix(log) = m - 1 /\ m \in 1 .. Len(log)
    BY <1>2, <1>4, <2>2 DEF Prefix
  <2>4. ~Readable(log[m]) /\ \A i \in 1 .. m - 1 : Readable(log[i])
    <3>1. \A i \in 1 .. m - 1 : i \in 1 .. Len(log) /\ ~(m <= i)
      BY <2>3
    <3> QED
      BY <2>2, <3>1 DEF Stops
  <2> QED
    BY <1>1, <2>3, <2>4, ReadableFrame
<1> QED
  BY <1>3, <1>4

(* And nothing else is like it.                                            *)
LEMMA PrefixIs ==
  ASSUME NEW log \in Seq(Item), NEW n \in 0 .. Len(log),
         \A i \in 1 .. n : Readable(log[i]),
         n < Len(log) => ~Readable(log[n + 1])
  PROVE  Prefix(log) = n
<1>1. Len(log) \in Nat
  BY LenProperties
<1>2. PICK p \in 0 .. Len(log) :
        /\ p = Prefix(log) /\ \A i \in 1 .. p : Readable(log[i])
        /\ p < Len(log) => ~Readable(log[p + 1])
  BY PrefixFacts
<1>3. ~(p < n)
  <2>1. p < n => p + 1 \in 1 .. n /\ p < Len(log)
    BY <1>1
  <2> QED
    BY <1>2, <2>1
<1>4. ~(n < p)
  <2>1. n < p => n + 1 \in 1 .. p /\ n < Len(log)
    BY <1>1
  <2> QED
    BY <1>2, <2>1
<1> QED
  BY <1>1, <1>2, <1>3, <1>4

(* The frame that decides the value of a key.                              *)
LEMMA Decides ==
  ASSUME NEW log, NEW n \in Nat, NEW k, About(log, n, k) # {}
  PROVE  \E i \in About(log, n, k) :
            (\A j \in About(log, n, k) : j <= i) /\ ValueIn(log, n, k) = log[i].value
<1> DEFINE A == About(log, n, k)
<1>1. A \in SUBSET (1 .. n)
  BY DEF About
<1>2. \E m \in A : \A t \in A : t <= m
  <2> HIDE DEF A
  <2> QED
    BY <1>1, Greatest DEF A
<1> HIDE DEF A
<1>3. PICK i : i \in A /\ (\A j \in A : j <= i) /\ i = CHOOSE x \in A : \A j \in A : j <= x
  BY <1>2
<1> QED
  BY <1>3 DEF ValueIn, A

LEMMA ValueInTyped ==
  ASSUME NEW log, NEW n \in Nat, \A i \in 1 .. n : log[i] \in Frame, NEW k
  PROVE  ValueIn(log, n, k) \in Value
<1>1. CASE About(log, n, k) = {}
  BY <1>1 DEF ValueIn, Value
<1>2. CASE About(log, n, k) # {}
  BY <1>2, Decides DEF About, Frame
<1> QED
  BY <1>1, <1>2

(* Only the items up to n count.                                           *)
LEMMA ValueInAgree ==
  ASSUME NEW log, NEW other, NEW n \in Nat, NEW k, \A i \in 1 .. n : other[i] = log[i]
  PROVE  ValueIn(other, n, k) = ValueIn(log, n, k)
<1>1. About(other, n, k) = About(log, n, k)
  BY DEF About
<1>2. CASE About(log, n, k) = {}
  BY <1>1, <1>2 DEF ValueIn
<1>3. CASE About(log, n, k) # {}
  <2>1. PICK i \in About(log, n, k) :
           (\A j \in About(log, n, k) : j <= i) /\ ValueIn(log, n, k) = log[i].value
    BY <1>3, Decides
  <2>2. PICK h \in About(log, n, k) :
           (\A j \in About(log, n, k) : j <= h) /\ ValueIn(other, n, k) = other[h].value
    BY <1>1, <1>3, Decides
  <2>3. i = h /\ i \in 1 .. n
    BY <2>1, <2>2 DEF About
  <2> QED
    BY <2>1, <2>2, <2>3
<1> QED
  BY <1>2, <1>3

LEMMA ValueInEmpty ==
  ASSUME NEW log, NEW k
  PROVE  ValueIn(log, 0, k) = None
BY DEF ValueIn, About

(* One frame more.                                                         *)
LEMMA ValueInNext ==
  ASSUME NEW log, NEW n \in Nat, NEW k
  PROVE  ValueIn(log, n + 1, k) =
           IF log[n + 1].key = k THEN log[n + 1].value ELSE ValueIn(log, n, k)
<1> DEFINE A == About(log, n, k)
           B == About(log, n + 1, k)
<1>1. CASE log[n + 1].key = k
  <2>1. n + 1 \in B /\ \A j \in B : j <= n + 1
    BY <1>1 DEF About
  <2>2. PICK i \in B : (\A j \in B : j <= i) /\ ValueIn(log, n + 1, k) = log[i].value
    BY <2>1, Decides
  <2>3. i = n + 1
    BY <2>1, <2>2 DEF About
  <2> QED
    BY <1>1, <2>2, <2>3
<1>2. CASE log[n + 1].key # k
  <2>1. B = A
    BY <1>2 DEF About
  <2>2. CASE A = {}
    BY <1>2, <2>1, <2>2 DEF ValueIn
  <2>3. CASE A # {}
    <3>1. PICK i \in A : (\A j \in A : j <= i) /\ ValueIn(log, n, k) = log[i].value
      BY <2>3, Decides
    <3>2. PICK h \in B : (\A j \in B : j <= h) /\ ValueIn(log, n + 1, k) = log[h].value
      BY <2>1, <2>3, Decides
    <3>3. i \in Nat /\ h \in Nat /\ i <= h /\ h <= i
      BY <2>1, <3>1, <3>2 DEF About
    <3> QED
      BY <1>2, <3>1, <3>2, <3>3
  <2> QED
    BY <2>2, <2>3
<1> QED
  BY <1>1, <1>2

-----------------------------------------------------------------------------
(* What the calls of write do to a log *)

Appended(new, log, item) ==
  /\ new \in Seq(Item) /\ new # <<>> /\ Len(new) = Len(log) + 1
  /\ \A i \in 1 .. Len(log) : new[i] = log[i]
  /\ new[Len(log) + 1] = item
  /\ \A m \in 0 .. Len(log) : \A k : ValueIn(new, m, k) = ValueIn(log, m, k)
  /\ ~Readable(item) \/ Prefix(log) < Len(log) => Prefix(new) = Prefix(log)
  /\ Readable(item) /\ Prefix(log) = Len(log) => Prefix(new) = Len(log) + 1

Cut(new, log, m) ==
  /\ new \in Seq(Item) /\ Len(new) = m
  /\ \A i \in 1 .. m : new[i] = log[i]
  /\ \A l \in 0 .. m : \A k : ValueIn(new, l, k) = ValueIn(log, l, k)
  /\ Prefix(new) = IF m <= Prefix(log) THEN m ELSE Prefix(log)

Replaced(new, log, item) ==
  /\ new \in Seq(Item) /\ new # <<>> /\ Len(new) = Len(log) /\ Len(log) \in Nat \ {0}
  /\ new[Len(log)] = item
  /\ \A m \in 0 .. Len(log) - 1 : \A k : ValueIn(new, m, k) = ValueIn(log, m, k)
  /\ Prefix(log) >= Len(log) - 1 =>
       Prefix(new) = IF Readable(item) THEN Len(log) ELSE Len(log) - 1

LEMMA AppendedLog ==
  ASSUME NEW log \in Seq(Item), NEW item \in Item, NEW new, new = Append(log, item)
  PROVE  Appended(new, log, item)
<1>1. /\ new \in Seq(Item) /\ new # <<>> /\ Len(new) = Len(log) + 1
      /\ \A i \in 1 .. Len(log) : new[i] = log[i]
      /\ new[Len(log) + 1] = item
  BY AppendProperties
<1>2. Len(log) \in Nat
  BY LenProperties
<1>3. ASSUME NEW m \in 0 .. Len(log), NEW k PROVE ValueIn(new, m, k) = ValueIn(log, m, k)
  <2>1. m \in Nat /\ (\A i \in 1 .. m : new[i] = log[i])
    BY <1>1, <1>2
  <2> QED
    BY <2>1, ValueInAgree, Zenon
<1>4. PICK p \in 0 .. Len(log) :
        /\ p = Prefix(log) /\ \A i \in 1 .. p : Readable(log[i])
        /\ p < Len(log) => ~Readable(log[p + 1])
  BY PrefixFacts
<1>5. p \in 0 .. Len(new) /\ \A i \in 1 .. p : Readable(new[i])
  BY <1>1, <1>2, <1>4
<1>6. ASSUME ~Readable(item) \/ p < Len(log) PROVE Prefix(new) = p
  <2>1. ~Readable(new[p + 1])
    BY <1>1, <1>2, <1>4, <1>6
  <2> QED
    BY <1>1, <1>5, <2>1, PrefixIs
<1>7. ASSUME Readable(item), p = Len(log) PROVE Prefix(new) = Len(new)
  <2>1. \A i \in 1 .. Len(new) : Readable(new[i])
    BY <1>1, <1>2, <1>5, <1>7
  <2>2. Len(new) \in 0 .. Len(new) /\ ~(Len(new) < Len(new))
    BY <1>1, <1>2
  <2> QED
    BY <1>1, <2>1, <2>2, PrefixIs
<1> QED
  BY <1>1, <1>3, <1>4, <1>6, <1>7 DEF Appended

(* The beginning of a log.                                                 *)
LEMMA CutLog ==
  ASSUME NEW log \in Seq(Item), NEW m \in 0 .. Len(log), NEW new, new = SubSeq(log, 1, m)
  PROVE  Cut(new, log, m)
<1>1. Len(log) \in Nat /\ \A i \in 1 .. m : log[i] \in Item
  BY LenProperties, ElementOfSeq
<1>2. new \in Seq(Item) /\ Len(new) = m /\ \A i \in 1 .. m : new[i] = log[i]
  BY <1>1, SubSeqProperties
<1>3. ASSUME NEW l \in 0 .. m, NEW k PROVE ValueIn(new, l, k) = ValueIn(log, l, k)
  <2>1. l \in Nat /\ \A i \in 1 .. l : new[i] = log[i]
    BY <1>1, <1>2
  <2> QED
    BY <2>1, ValueInAgree, Zenon
<1>4. PICK p \in 0 .. Len(log) :
        /\ p = Prefix(log) /\ \A i \in 1 .. p : Readable(log[i])
        /\ p < Len(log) => ~Readable(log[p + 1])
  BY PrefixFacts
<1>5. CASE m <= p
  <2>1. \A i \in 1 .. m : Readable(new[i])
    BY <1>1, <1>2, <1>4, <1>5
  <2>2. m \in 0 .. Len(new) /\ ~(m < Len(new))
    BY <1>1, <1>2
  <2>3. Prefix(new) = m
    BY <1>2, <2>1, <2>2, PrefixIs
  <2> QED
    BY <1>2, <1>3, <1>4, <1>5, <2>3 DEF Cut
<1>6. CASE p < m
  <2>1. p \in 0 .. Len(new) /\ (\A i \in 1 .. p : Readable(new[i])) /\ ~Readable(new[p + 1])
    BY <1>1, <1>2, <1>4, <1>6
  <2>2. Prefix(new) = p
    BY <1>2, <2>1, PrefixIs
  <2>3. ~(m <= p)
    BY <1>1, <1>4, <1>6
  <2> QED
    BY <1>2, <1>3, <1>4, <2>2, <2>3 DEF Cut
<1> QED
  BY <1>1, <1>4, <1>5, <1>6

LEMMA ReplacedLog ==
  ASSUME NEW log \in Seq(Item), log # <<>>, NEW item \in Item,
         NEW new, new = Append(Front(log), item)
  PROVE  Replaced(new, log, item)
<1>1. Len(log) \in Nat \ {0}
  BY EmptySeq
<1>2. PICK n \in Nat : n = Len(log) - 1
  BY <1>1
<1>3. PICK front : front = SubSeq(log, 1, n)
  OBVIOUS
<1>4. n \in 0 .. Len(log)
  BY <1>1, <1>2
<1>5. Cut(front, log, n)
  BY <1>3, <1>4, CutLog, Zenon
<1>6. front \in Seq(Item) /\ new = Append(front, item)
  BY <1>2, <1>3, <1>5 DEF Front, Cut
<1>7. Appended(new, front, item)
  BY <1>6, AppendedLog, Zenon
<1> QED
  BY <1>1, <1>2, <1>5, <1>7 DEF Cut, Appended, Replaced

-----------------------------------------------------------------------------
(* Directories *)

LEMMA Listed ==
  ASSUME NEW s \in Seq(Entry), s # <<>>
  PROVE  s[Len(s)] \in ToSet(s) /\ ToSet(s) \subseteq Entry
<1>1. Len(s) \in Nat \ {0} /\ DOMAIN s = 1 .. Len(s) /\ \A i \in 1 .. Len(s) : s[i] \in Entry
  BY EmptySeq, LenProperties, ElementOfSeq
<1> QED
  BY <1>1 DEF ToSet

LEMMA ListedNext ==
  ASSUME NEW s \in Seq(Entry), NEW e \in Entry, NEW new, new = Append(s, e)
  PROVE  /\ new \in Seq(Entry) /\ new # <<>> /\ new[Len(new)] = e
         /\ ToSet(new) = ToSet(s) \cup {e}
<1>1. /\ new \in Seq(Entry) /\ new # <<>> /\ Len(new) = Len(s) + 1
      /\ \A i \in 1 .. Len(s) : new[i] = s[i]
      /\ new[Len(s) + 1] = e
  BY AppendProperties
<1>2. Len(s) \in Nat /\ DOMAIN s = 1 .. Len(s) /\ DOMAIN new = 1 .. Len(s) + 1
  BY <1>1, LenProperties
<1>3. 1 .. Len(s) + 1 = (1 .. Len(s)) \cup {Len(s) + 1}
  BY <1>2
<1>4. ToSet(new) = ToSet(s) \cup {e}
  BY <1>1, <1>2, <1>3 DEF ToSet
<1> QED
  BY <1>1, <1>4

LEMMA ListedOne ==
  ASSUME NEW e \in Entry, NEW new, new = <<e>>
  PROVE  new \in Seq(Entry) /\ new # <<>> /\ new[Len(new)] = e /\ ToSet(new) = {e}
<1>1. /\ new \in Seq(Entry) /\ new # <<>> /\ Len(new) = 1 /\ new[1] = e /\ DOMAIN new = {1}
  OBVIOUS
<1> QED
  BY <1>1 DEF ToSet

-----------------------------------------------------------------------------
(* Type correctness *)

Writing == {"length", "checksum", "payload", "sync", "apply"}

Typed ==
  /\ data \in [Inodes -> Seq(Item)]
  /\ synced \in [Inodes -> Nat] /\ \A i \in Inodes : synced[i] <= Len(data[i])
  /\ dirs \in Seq(Entry) /\ dirs # <<>>
  /\ file \in Inodes \cup {None} /\ (file = None <=> pc \in {"down", "opening"})
  /\ kv \in [Keys -> Value]
  /\ pc \in {"down", "opening", "failed", "idle", "length", "checksum", "payload", "sync", "apply",
             "snapshot", "sync_tmp", "rename", "fsync_dir", "reopen"}
  /\ op \in [key : Keys \cup {None}, value : Value]
  /\ maybe \in [Keys -> SUBSET Value]
  /\ buried \in BOOLEAN
  /\ kills \in Nat

(* What the methods have in their hands.                                   *)
Held ==
  /\ pc \in Writing => op.key \in Keys
  /\ pc \in {"checksum", "payload"} => data[file] # <<>>
  /\ pc \in {"snapshot", "sync_tmp", "rename"} => Dir.tmp \in Inodes
  /\ pc = "snapshot" => synced[Dir.tmp] = 0
  /\ pc \in {"fsync_dir", "reopen"} => Dir.db \in Inodes

TypeInv == Typed /\ Held

LEMMA Handle ==
  ASSUME WalAssumption, TypeInv
  PROVE  /\ Dir \in ToSet(dirs) /\ Dir \in Entry /\ ToSet(dirs) \subseteq Entry
         /\ Dir.db \in Inodes \cup {None} /\ Dir.tmp \in Inodes \cup {None}
         /\ pc \notin {"down", "opening"} => file \in Inodes
         /\ None \notin Inodes /\ None \notin Keys /\ None \in Value
<1>1. Dir \in ToSet(dirs) /\ ToSet(dirs) \subseteq Entry
  BY Listed DEF TypeInv, Typed, Dir
<1> QED
  BY <1>1 DEF WalAssumption, TypeInv, Typed, Entry, Value

LEMMA TypeOKHolds ==
  ASSUME WalAssumption, TypeInv
  PROVE  TypeOK
<1>1. \A i \in Inodes : synced[i] \in 0 .. Len(data[i])
  BY LenProperties DEF TypeInv, Typed
<1> QED
  BY <1>1, Handle DEF TypeInv, Typed, TypeOK, Item, Entry

LEMMA Synced ==
  ASSUME WalAssumption, TypeInv, NEW i \in Inodes, SyncFile(i)
  PROVE  /\ synced' \in [Inodes -> Nat]
         /\ synced'[i] = Len(data[i]) /\ \A j \in Inodes \ {i} : synced'[j] = synced[j]
         /\ dirs' \in Seq(Entry) /\ dirs' # <<>> /\ Dir' = Dir
         /\ ToSet(dirs') \subseteq ToSet(dirs)
         /\ SyncsEntry /\ i \in {Dir.db, Dir.tmp} => ToSet(dirs') = {Dir}
<1>1. Dir \in ToSet(dirs) /\ Dir \in Entry
  BY Handle
<1>2. /\ synced' \in [Inodes -> Nat]
      /\ synced'[i] = Len(data[i]) /\ \A j \in Inodes \ {i} : synced'[j] = synced[j]
  BY LenProperties DEF TypeInv, Typed, SyncFile
<1>3. CASE dirs' = dirs /\ ~(SyncsEntry /\ i \in {Dir.db, Dir.tmp})
  BY <1>2, <1>3 DEF Dir, TypeInv, Typed
<1>4. CASE dirs' = <<Dir>>
  <2>1. PICK e : e = Dir
    OBVIOUS
  <2>2. dirs' \in Seq(Entry) /\ dirs' # <<>> /\ dirs'[Len(dirs')] = e /\ ToSet(dirs') = {e}
    BY <1>1, <1>4, <2>1, ListedOne
  <2> QED
    BY <1>1, <1>2, <2>1, <2>2 DEF Dir
<1> QED
  BY <1>3, <1>4 DEF SyncFile

(* The snapshot holds one frame for every key of the map.                  *)
LEMMA SnapshotLog ==
  ASSUME WalAssumption, Typed
  PROVE  /\ Snapshot \in Seq(Item)
         /\ BigValues = {} => /\ Prefix(Snapshot) = Len(Snapshot)
                              /\ \A k \in Keys : ValueIn(Snapshot, Len(Snapshot), k) = kv[k]
<1> DEFINE n == Cardinality(Present)
           keys == SetToSeq(Present)
           log == Snapshot
<1>1. IsFiniteSet(Present) /\ n \in Nat
  <2>1. Present \in SUBSET Keys
    BY DEF Present
  <2> QED
    BY <2>1, FS_Subset, FS_CardinalityType DEF WalAssumption
<1>2. \E f \in [1 .. n -> Present] : IsInjective(f)
  <2>1. ExistsBijection(1 .. n, Present)
    BY <1>1, FS_CardinalityType
  <2> QED
    BY <2>1 DEF ExistsBijection, Bijection, Injection
<1>3. keys \in [1 .. n -> Present] /\ IsInjective(keys)
  BY <1>2 DEF SetToSeq
<1>4. \A k \in Present : \E i \in 1 .. n : keys[i] = k
  <2>1. PICK f : f = keys /\ f \in Injection(1 .. n, Present)
    BY <1>3 DEF Injection
  <2>2. IsFiniteSet(1 .. n) /\ Cardinality(1 .. n) = n
    BY <1>1, FS_Interval
  <2>3. f \in Surjection(1 .. n, Present)
    BY <1>1, <2>1, <2>2, FS_Injection
  <2> QED
    BY <2>1, <2>3 DEF Surjection
<1> HIDE DEF keys
<1>5. Len(keys) = n
  BY <1>1, <1>3
<1>6. log = [i \in 1 .. n |-> Update(keys[i], kv[keys[i]])]
  BY <1>5 DEF Snapshot, keys
<1> HIDE DEF n, log
<1>7. \A i \in 1 .. n : /\ log[i].key = keys[i] /\ log[i].value = kv[keys[i]]
                        /\ log[i] \in Frame /\ log[i] \in Item
  <2>1. \A i \in 1 .. n : keys[i] \in Keys /\ kv[keys[i]] \in Value
    BY <1>3 DEF Present, Typed
  <2> QED
    BY <1>6, <2>1 DEF Update, Frame, Item
<1>8. log \in Seq(Item) /\ Len(log) = n
  <2>1. log \in [1 .. n -> Item]
    BY <1>6, <1>7
  <2> QED
    BY <1>1, <2>1
<1>9. ASSUME BigValues = {}
      PROVE  Prefix(log) = Len(log) /\ \A k \in Keys : ValueIn(log, Len(log), k) = kv[k]
  <2>1. \A i \in 1 .. n : Readable(log[i])
    BY <1>7, <1>9 DEF Readable, IsFrame, Frame
  <2>2. n \in 0 .. n /\ ~(n < n)
    BY <1>1 DEF n
  <2>3. Prefix(log) = n
    BY <1>8, <2>1, <2>2, PrefixIs
  <2>4. ASSUME NEW k \in Keys, k \in Present PROVE ValueIn(log, n, k) = kv[k]
    <3>1. PICK i \in 1 .. n : keys[i] = k
      BY <1>4, <2>4
    <3>2. i \in About(log, n, k)
      BY <1>7, <3>1 DEF About
    <3>3. PICK j \in About(log, n, k) : ValueIn(log, n, k) = log[j].value
      BY <1>1, <3>2, Decides DEF n
    <3> QED
      BY <1>7, <3>3 DEF About
  <2>5. ASSUME NEW k \in Keys, k \notin Present PROVE ValueIn(log, n, k) = kv[k]
    <3>1. About(log, n, k) = {}
      BY <1>3, <1>7, <2>5 DEF About
    <3> QED
      BY <2>5, <3>1 DEF ValueIn, Present
  <2> QED
    BY <1>8, <2>3, <2>4, <2>5
<1> QED
  BY <1>8, <1>9 DEF log

LEMMA DirChanged ==
  ASSUME Typed, NEW e \in Entry, ChangeDir(e)
  PROVE  dirs' \in Seq(Entry) /\ dirs' # <<>> /\ Dir' = e /\ ToSet(dirs') = ToSet(dirs) \cup {e}
BY ListedNext DEF Typed, ChangeDir, Dir

LEMMA DirFlushed ==
  ASSUME NEW e \in Entry, dirs' = <<e>>
  PROVE  dirs' \in Seq(Entry) /\ dirs' # <<>> /\ Dir' = e /\ ToSet(dirs') = {e}
BY ListedOne DEF Dir

LEMMA OpeningTyped ==
  ASSUME WalAssumption, TypeInv, Opening
  PROVE  TypeInv'
<1> USE DEF TypeInv
<1> USE Handle
<1>1. CASE RemoveTmp
  <2>1. dirs' \in Seq(Entry) /\ dirs' # <<>>
    <3>1. [Dir EXCEPT !.tmp = None] \in Entry
      BY DEF Entry
    <3> QED
      BY <1>1, <3>1, DirChanged DEF RemoveTmp, Typed
  <2> QED
    BY <1>1, <2>1 DEF RemoveTmp, Typed, Held, Writing, counts
<1>2. CASE Open
  <2>1. /\ pc = "opening" /\ UNCHANGED <<op, maybe, buried, counts>> /\ OpenOrCreate
        /\ pc' \in {"failed", "idle"} /\ kv' \in {kv, Replay(data'[file'])}
    BY <1>2 DEF Open
  <2>2. /\ data' \in [Inodes -> Seq(Item)]
        /\ synced' \in [Inodes -> Nat] /\ \A i \in Inodes : synced'[i] <= Len(data'[i])
        /\ dirs' \in Seq(Entry) /\ dirs' # <<>> /\ file' \in Inodes
    <3>1. CASE Dir.db # None
      BY <2>1, <3>1 DEF OpenOrCreate, disk, Typed
    <3>2. CASE Dir.db = None
      <4>1. PICK i \in Inodes : /\ file' = i
                                /\ data' = [data EXCEPT ![i] = <<>>]
                                /\ synced' = [synced EXCEPT ![i] = 0]
                                /\ ChangeDir([Dir EXCEPT !.db = i])
        BY <2>1, <3>2 DEF OpenOrCreate, Unused
      <4>2. [Dir EXCEPT !.db = i] \in Entry
        BY DEF Entry
      <4>3. <<>> \in Seq(Item) /\ Len(<<>>) = 0
        OBVIOUS
      <4> QED
        BY <4>1, <4>2, <4>3, DirChanged DEF Typed
    <3> QED
      BY <3>1, <3>2
  <2>3. kv' \in [Keys -> Value]
    <3>1. PICK log \in Seq(Item) : log = data'[file']
      BY <2>2
    <3>2. Prefix(log) \in Nat /\ \A i \in 1 .. Prefix(log) : log[i] \in Frame
      BY PrefixFacts, LenProperties
    <3>3. \A k \in Keys : ValueIn(log, Prefix(log), k) \in Value
      BY <3>2, ValueInTyped
    <3> QED
      BY <2>1, <3>1, <3>3 DEF Replay, Typed
  <2> QED
    BY <2>1, <2>2, <2>3 DEF Typed, Held, Writing, counts
<1>3. CASE Retry
  BY <1>3 DEF Retry, Typed, Held, Writing, disk, counts
<1> QED
  BY <1>1, <1>2, <1>3 DEF Opening

LEMMA UpdatingTyped ==
  ASSUME WalAssumption, TypeInv, Updating
  PROVE  TypeInv'
<1> USE DEF TypeInv
<1> USE Handle
<1>1. ASSUME NEW k \in Keys, NEW v \in Value, Begin(k, v)
      PROVE  TypeInv'
  BY <1>1 DEF Begin, Typed, Held, Writing, disk, Dir, Value
<1>2. CASE WriteLength
  <2>1. Part("short") \in Item
    BY DEF Part, Junk, Item
  <2>2. PICK new : new = Append(data[file], Part("short"))
    OBVIOUS
  <2>3. Appended(new, data[file], Part("short")) /\ data[file] \in Seq(Item)
    BY <1>2, <2>1, <2>2, AppendedLog DEF WriteLength, Typed
  <2>4. new \in Seq(Item) /\ new # <<>> /\ Len(new) = Len(data[file]) + 1 /\ Len(data[file]) \in Nat
    BY <2>3, LenProperties DEF Appended
  <2>5. data' = [data EXCEPT ![file] = new]
    BY <1>2, <2>2 DEF WriteLength, AppendItem
  <2> QED
    BY <1>2, <2>4, <2>5 DEF WriteLength, Buries, Typed, Held, Writing, counts, Dir
<1>3. ASSUME NEW item \in Item, pc \in {"checksum", "payload"}, ReplaceLast(item)
      PROVE  /\ data' \in [Inodes -> Seq(Item)] /\ data'[file] # <<>>
             /\ \A i \in Inodes : synced[i] <= Len(data'[i])
  <2>1. PICK log : log = data[file] /\ log \in Seq(Item) /\ log # <<>>
    BY <1>3 DEF Typed, Held
  <2>2. PICK new : new = Append(Front(log), item)
    OBVIOUS
  <2>3. Replaced(new, log, item)
    BY <2>1, <2>2, ReplacedLog
  <2>4. data' = [data EXCEPT ![file] = new]
    BY <1>3, <2>1, <2>2 DEF ReplaceLast
  <2> QED
    BY <1>3, <2>1, <2>3, <2>4 DEF Typed, Replaced
<1>4. CASE WriteChecksum
  <2>1. Part("torn") \in Item
    BY DEF Part, Junk, Item
  <2> QED
    BY <1>3, <1>4, <2>1 DEF WriteChecksum, Typed, Held, Writing, counts, Dir
<1>5. CASE WritePayload
  <2>1. Update(op.key, op.value) \in Item
    BY <1>5 DEF WritePayload, Update, Frame, Item, Typed, Held, Writing
  <2> QED
    BY <1>3, <1>5, <2>1 DEF WritePayload, Typed, Held, Writing, counts, Dir
<1>6. CASE Sync
  <2>1. file \in Inodes /\ SyncFile(file) /\ UNCHANGED <<data, file, kv, op, maybe, buried, counts>>
        /\ pc = "sync" /\ pc' = "apply"
    BY <1>6 DEF Sync
  <2>2. /\ synced' \in [Inodes -> Nat] /\ dirs' \in Seq(Entry) /\ dirs' # <<>>
        /\ synced'[file] = Len(data[file]) /\ \A j \in Inodes \ {file} : synced'[j] = synced[j]
    BY <2>1, Synced
  <2>3. ASSUME NEW j \in Inodes PROVE synced'[j] <= Len(data[j])
    <3>1. Len(data[file]) \in Nat
      BY <2>1, LenProperties DEF Typed
    <3>2. CASE j = file
      BY <2>2, <3>1, <3>2
    <3>3. CASE j # file
      BY <2>2, <3>3 DEF Typed
    <3> QED
      BY <3>2, <3>3
  <2> QED
    BY <2>1, <2>2, <2>3 DEF Typed, Held, Writing, counts
<1>7. CASE Acknowledge
  BY <1>7 DEF Acknowledge, Typed, Held, Writing, Idle, counts, disk, Dir
<1>8. CASE WriteFails
  <2>1. Part("short") \in Item
    BY DEF Part, Junk, Item
  <2>2. PICK new : new = Append(data[file], Part("short"))
    OBVIOUS
  <2>3. Appended(new, data[file], Part("short")) /\ data[file] \in Seq(Item)
    BY <1>8, <2>1, <2>2, AppendedLog DEF WriteFails, Typed
  <2>4. new \in Seq(Item) /\ Len(new) = Len(data[file]) + 1 /\ Len(data[file]) \in Nat
    BY <2>3, LenProperties DEF Appended
  <2>5. data' = data \/ data' = [data EXCEPT ![file] = new]
    BY <1>8, <2>2 DEF WriteFails, AppendItem
  <2>6. data' \in [Inodes -> Seq(Item)] /\ \A i \in Inodes : synced[i] <= Len(data'[i])
    <3>1. file \in Inodes
      BY <1>8 DEF WriteFails
    <3>2. CASE data' = data
      BY <3>2 DEF Typed
    <3>3. CASE data' = [data EXCEPT ![file] = new]
      BY <2>4, <3>1, <3>3 DEF Typed
    <3> QED
      BY <2>5, <3>2, <3>3
  <2> QED
    BY <1>8, <2>6 DEF WriteFails, Buries, Typed, Held, Writing, Idle, counts, Dir
<1>9. CASE SyncFails
  BY <1>9 DEF SyncFails, Typed, Held, Writing, Idle, counts, disk, Dir
<1> QED
  BY <1>1, <1>2, <1>4, <1>5, <1>6, <1>7, <1>8, <1>9 DEF Updating

LEMMA CompactingTyped ==
  ASSUME WalAssumption, TypeInv, Compacting
  PROVE  TypeInv'
<1> USE DEF TypeInv
<1> USE Handle
<1>0. <<>> \in Seq(Item) /\ Len(<<>>) = 0
  OBVIOUS
<1>1. CASE CreateTmp
  <2>1. PICK i \in Inodes : /\ data' = [data EXCEPT ![i] = <<>>]
                            /\ synced' = [synced EXCEPT ![i] = 0]
                            /\ IF Dir.tmp = i THEN UNCHANGED dirs
                                              ELSE ChangeDir([Dir EXCEPT !.tmp = i])
    BY <1>1 DEF CreateTmp, Unused
  <2>2. dirs' \in Seq(Entry) /\ dirs' # <<>> /\ Dir'.tmp = i
    <3>1. [Dir EXCEPT !.tmp = i] \in Entry /\ [Dir EXCEPT !.tmp = i].tmp = i
      BY DEF Entry
    <3>2. CASE Dir.tmp = i
      BY <2>1, <3>2 DEF Typed, Dir
    <3>3. CASE Dir.tmp # i
      BY <2>1, <3>1, <3>3, DirChanged
    <3> QED
      BY <3>2, <3>3
  <2>3. /\ data' \in [Inodes -> Seq(Item)] /\ synced' \in [Inodes -> Nat]
        /\ \A j \in Inodes : synced'[j] <= Len(data'[j])
        /\ synced'[i] = 0
    BY <1>0, <2>1 DEF Typed
  <2>4. /\ pc = "idle" /\ pc' = "snapshot"
        /\ UNCHANGED <<file, kv, op, maybe, buried, updates, kills, losses>>
    BY <1>1 DEF CreateTmp
  <2>5. Typed'
    BY <2>2, <2>3, <2>4 DEF Typed
  <2>6. Dir.tmp' \in Inodes /\ synced'[Dir.tmp'] = 0
    BY <2>2, <2>3
  <2>7. Held'
    BY <2>4, <2>6 DEF Held, Writing
  <2> QED
    BY <2>5, <2>7
<1>2. CASE WriteTmp
  <2>1. PICK log \in Seq(Item) : log = Snapshot
    BY SnapshotLog
  <2>2. PICK i \in Inodes : i = Dir.tmp /\ data' = [data EXCEPT ![i] = log] /\ Dir' = Dir
    BY <1>2, <2>1 DEF WriteTmp, Held, Dir
  <2>3. data' \in [Inodes -> Seq(Item)] /\ \A j \in Inodes : synced[j] <= Len(data'[j])
    <3>1. Len(log) \in Nat /\ synced[i] = 0
      BY <1>2, <2>2, LenProperties DEF WriteTmp, Held
    <3> QED
      BY <2>2, <3>1 DEF Typed
  <2>4. /\ pc = "snapshot" /\ pc' = "sync_tmp"
        /\ UNCHANGED <<synced, dirs, file, kv, op, maybe, buried, counts>>
    BY <1>2 DEF WriteTmp
  <2>5. Typed'
    BY <2>3, <2>4 DEF Typed, counts
  <2>6. Held'
    BY <2>2, <2>4 DEF Held, Writing
  <2> QED
    BY <2>5, <2>6
<1>3. CASE SyncTmp
  <2>1. /\ Dir.tmp \in Inodes /\ SyncFile(Dir.tmp) /\ pc = "sync_tmp" /\ pc' = "rename"
        /\ UNCHANGED <<data, file, kv, op, maybe, buried, counts>>
    BY <1>3 DEF SyncTmp, Held
  <2>2. PICK i \in Inodes : i = Dir.tmp
    BY <2>1
  <2>3. /\ synced' \in [Inodes -> Nat] /\ dirs' \in Seq(Entry) /\ dirs' # <<>> /\ Dir' = Dir
        /\ synced'[i] = Len(data[i]) /\ \A j \in Inodes \ {i} : synced'[j] = synced[j]
    BY <2>1, <2>2, Synced
  <2>4. ASSUME NEW j \in Inodes PROVE synced'[j] <= Len(data[j])
    <3>1. Len(data[i]) \in Nat
      BY LenProperties DEF Typed
    <3>2. CASE j = i
      BY <2>3, <3>1, <3>2
    <3>3. CASE j # i
      BY <2>3, <3>3 DEF Typed
    <3> QED
      BY <3>2, <3>3
  <2> QED
    BY <2>1, <2>3, <2>4 DEF Typed, Held, Writing, counts
<1>4. CASE Rename
  <2>1. /\ [db |-> Dir.tmp, tmp |-> None] \in Entry
        /\ [db |-> Dir.tmp, tmp |-> None].db = Dir.tmp /\ Dir.tmp \in Inodes
    BY <1>4 DEF Rename, Held, Entry
  <2>2. dirs' \in Seq(Entry) /\ dirs' # <<>> /\ Dir'.db \in Inodes
    BY <1>4, <2>1, DirChanged DEF Rename
  <2> QED
    BY <1>4, <2>2 DEF Rename, Typed, Held, Writing, counts
<1>5. CASE FsyncDir
  <2>1. dirs' \in Seq(Entry) /\ dirs' # <<>> /\ Dir' = Dir
    BY <1>5, DirFlushed DEF FsyncDir
  <2> QED
    BY <1>5, <2>1 DEF FsyncDir, Typed, Held, Writing, counts
<1>6. CASE Reopen
  BY <1>6 DEF Reopen, Typed, Held, Writing, disk, counts
<1>7. CASE CompactFails
  <2>1. pc \in {"snapshot", "sync_tmp", "rename", "fsync_dir", "reopen"}
    BY <1>7 DEF CompactFails, FailsIn, WalAssumption
  <2> QED
    BY <1>7, <2>1 DEF CompactFails, Typed, Held, Writing, disk, counts
<1> QED
  BY <1>1, <1>2, <1>3, <1>4, <1>5, <1>6, <1>7 DEF Compacting

-----------------------------------------------------------------------------
(* What a loss of power leaves of a log *)

(* How much replay reads of the first m items.                             *)
Reach(log, m) == IF m <= Prefix(log) THEN m ELSE Prefix(log)

(* Whatever survives, as long as the first n items do, replays to values   *)
(* that may be.                                                            *)
Safe(log, n, may) ==
  \A m \in n .. Len(log) : \A k \in Keys : ValueIn(log, Reach(log, m), k) \in may[k]

(* Only the last item of a log may be one that replay cannot read.         *)
Nearly(log) == Len(log) - 1 <= Prefix(log)

LEMMA ImageOf ==
  ASSUME NEW log \in Seq(Item), NEW n \in Nat, n <= Len(log), NEW image \in Images(log, n)
  PROVE  /\ image \in Seq(Item)
         /\ \E m \in n .. Len(log) : /\ Prefix(image) = Reach(log, m)
                                     /\ Prefix(image) \in 0 .. Len(image)
                                     /\ \A k : ValueIn(image, Prefix(image), k)
                                                 = ValueIn(log, Reach(log, m), k)
         /\ Nearly(log) => Nearly(image)
<1>1. Len(log) \in Nat
  BY LenProperties
<1>2. PICK p \in 0 .. Len(log) : p = Prefix(log)
  BY PrefixFacts
<1>3. PICK m \in n .. Len(log), junk \in Junk :
        \/ image = SubSeq(log, 1, m)
        \/ image = Append(SubSeq(log, 1, m), junk) /\ m < Len(log)
  <2> DEFINE cuts  == {SubSeq(log, 1, m) : m \in {l \in n .. Len(log) :
                                                    MayTear \/ Whole(SubSeq(log, n + 1, l))}}
             tears == {Append(SubSeq(log, 1, m), junk) : m \in n .. Len(log) - 1, junk \in Junk}
  <2>1. CASE image \in cuts
    <3>1. [kind |-> "short"] \in Junk
      BY DEF Junk
    <3> QED
      BY <2>1, <3>1
  <2>2. CASE image \in tears
    <3>1. PICK m \in n .. Len(log) - 1, junk \in Junk : image = Append(SubSeq(log, 1, m), junk)
      BY <2>2
    <3>2. m \in n .. Len(log) /\ m < Len(log)
      BY <1>1, <3>1
    <3> QED
      BY <3>1, <3>2
  <2>3. Images(log, n) = cuts \cup (IF MayTear THEN tears ELSE {})
    BY DEF Images
  <2> HIDE DEF cuts, tears
  <2> QED
    BY <2>1, <2>2, <2>3
<1>4. m \in 0 .. Len(log) /\ m \in Nat
  BY <1>1
<1>5. PICK cut : /\ cut = SubSeq(log, 1, m)
                 /\ image = cut \/ (image = Append(cut, junk) /\ m < Len(log))
  BY <1>3
<1>6. Cut(cut, log, m)
  BY <1>5, <1>4, CutLog, Zenon
<1>7. cut \in Seq(Item) /\ Prefix(cut) = Reach(log, m) /\ Reach(log, m) \in 0 .. m /\ Len(cut) = m
  BY <1>2, <1>4, <1>6 DEF Cut, Reach
<1>8. \A k : ValueIn(cut, Reach(log, m), k) = ValueIn(log, Reach(log, m), k)
  BY <1>6, <1>7 DEF Cut
<1>9. CASE image = cut
  <2>1. Nearly(log) => Nearly(image)
    BY <1>1, <1>2, <1>4, <1>7, <1>9 DEF Nearly, Reach
  <2> QED
    BY <1>7, <1>8, <1>9, <2>1
<1>10. CASE image = Append(cut, junk) /\ m < Len(log)
  <2>1. junk \in Item /\ ~Readable(junk)
    BY DEF Junk, Item, Readable, IsFrame
  <2>2. Appended(image, cut, junk)
    BY <1>7, <1>10, <2>1, AppendedLog, Zenon
  <2>3. /\ image \in Seq(Item) /\ Prefix(image) = Reach(log, m) /\ Len(image) = m + 1
        /\ \A k : ValueIn(image, Reach(log, m), k) = ValueIn(cut, Reach(log, m), k)
    BY <1>7, <2>1, <2>2 DEF Appended
  <2>4. Prefix(image) \in 0 .. Len(image)
    BY <1>4, <1>7, <2>3
  <2>5. Nearly(log) => Nearly(image)
    BY <1>1, <1>2, <1>4, <1>10, <2>3 DEF Nearly, Reach
  <2> QED
    BY <1>8, <2>3, <2>4, <2>5
<1> QED
  BY <1>5, <1>9, <1>10

LEMMA ImageSafe ==
  ASSUME NEW log \in Seq(Item), NEW n \in Nat, n <= Len(log), NEW image \in Images(log, n),
         NEW may, Safe(log, n, may)
  PROVE  Safe(image, Len(image), may) /\ \A k \in Keys : Replay(image)[k] \in may[k]
<1>1. PICK m \in n .. Len(log) : /\ Prefix(image) = Reach(log, m)
                                 /\ Prefix(image) \in 0 .. Len(image)
                                 /\ \A k : ValueIn(image, Prefix(image), k)
                                             = ValueIn(log, Reach(log, m), k)
  BY ImageOf
<1>2. \A k \in Keys : ValueIn(image, Prefix(image), k) \in may[k]
  BY <1>1 DEF Safe
<1>3. image \in Seq(Item) /\ Len(image) \in Nat
  BY ImageOf, LenProperties
<1>4. Reach(image, Len(image)) = Prefix(image)
  BY <1>1, <1>3 DEF Reach
<1>5. \A m2 \in Len(image) .. Len(image) : m2 = Len(image)
  BY <1>3
<1> QED
  BY <1>2, <1>4, <1>5 DEF Safe, Replay

(* The files after a loss of power in the directory d.                     *)
Left(d, log) ==
  /\ dirs' = <<d>>
  /\ data' = [i \in Inodes |-> IF i = d.db THEN log ELSE <<>>]
  /\ synced' = [i \in Inodes |-> IF i = d.db THEN Len(log) ELSE 0]

LEMMA LossLeaves ==
  ASSUME WalAssumption, TypeInv, PowerLoss
  PROVE  \E d \in ToSet(dirs), log \in Seq(Item) :
           Left(d, log) /\ (d.db # None => log \in Images(data[d.db], synced[d.db]))
<1>1. PICK d \in ToSet(dirs) :
        \E log \in IF d.db = None THEN {<<>>} ELSE Images(data[d.db], synced[d.db]) : Left(d, log)
  BY DEF PowerLoss, Left
<1>2. d \in Entry
  BY Handle
<1>3. CASE d.db = None
  <2>1. <<>> \in Seq(Item) /\ Left(d, <<>>)
    BY <1>1, <1>3
  <2> QED
    BY <1>3, <2>1
<1>4. CASE d.db # None
  <2>1. PICK log \in Images(data[d.db], synced[d.db]) : Left(d, log)
    BY <1>1, <1>4
  <2>2. data[d.db] \in Seq(Item) /\ synced[d.db] \in Nat /\ synced[d.db] <= Len(data[d.db])
    BY <1>2, <1>4 DEF Entry, TypeInv, Typed
  <2> QED
    BY <2>1, <2>2, ImageOf
<1> QED
  BY <1>3, <1>4

LEMMA CrashTyped ==
  ASSUME WalAssumption, TypeInv, Kill \/ PowerLoss
  PROVE  TypeInv'
<1> USE DEF TypeInv
<1>1. CASE Kill
  BY <1>1 DEF Kill, Die, Typed, Held, Writing, Idle, disk, Value
<1>2. CASE PowerLoss
  <2>1. PICK d \in ToSet(dirs), log \in Seq(Item) : Left(d, log)
    BY <1>2, LossLeaves
  <2>2. dirs' \in Seq(Entry) /\ dirs' # <<>>
    BY <2>1, Handle, DirFlushed DEF Left
  <2>3. /\ data' \in [Inodes -> Seq(Item)] /\ synced' \in [Inodes -> Nat]
        /\ \A i \in Inodes : synced'[i] <= Len(data'[i])
    <3>1. <<>> \in Seq(Item) /\ Len(<<>>) = 0 /\ Len(log) \in Nat
      BY LenProperties
    <3> QED
      BY <2>1, <3>1 DEF Left
  <2>4. /\ pc' = "down" /\ file' = None /\ op' = Idle
        /\ UNCHANGED <<kv, maybe, buried, updates, compacts, kills>>
    BY <1>2 DEF PowerLoss, Die
  <2> QED
    BY <2>2, <2>3, <2>4 DEF Typed, Held, Writing, Idle, Value
<1> QED
  BY <1>1, <1>2

LEMMA TypeInvStep ==
  ASSUME WalAssumption, TypeInv, [Next]_vars
  PROVE  TypeInv'
<1>1. CASE UNCHANGED vars
  BY <1>1 DEF vars, disk, counts, TypeInv, Typed, Held, Writing, Dir
<1> QED
  BY <1>1, OpeningTyped, UpdatingTyped, CompactingTyped, CrashTyped DEF Next

LEMMA TypeInvInit ==
  ASSUME WalAssumption, Init
  PROVE  TypeInv
<1>1. PICK e : e = [db |-> IF Fresh THEN None ELSE CHOOSE i \in Inodes : TRUE, tmp |-> None]
  OBVIOUS
<1>2. e \in Entry /\ dirs = <<e>>
  BY <1>1 DEF Init, Entry, WalAssumption
<1>3. dirs \in Seq(Entry) /\ dirs # <<>>
  BY <1>2
<1>4. data \in [Inodes -> Seq(Item)] /\ synced \in [Inodes -> Nat]
      /\ \A i \in Inodes : synced[i] <= Len(data[i])
  BY DEF Init
<1> QED
  BY <1>3, <1>4 DEF Init, TypeInv, Typed, Held, Writing, Idle, Value, WalAssumption

(* Every variable keeps its type: in particular a log is never empty when  *)
(* a write replaces its last item, and there is a snapshot to rename.      *)
THEOREM Typing == Spec => []TypeOK
<1>1. Init => TypeInv
  BY WalAssumption, TypeInvInit
<1>2. TypeInv /\ [Next]_vars => TypeInv'
  BY WalAssumption, TypeInvStep
<1>3. TypeInv => TypeOK
  BY WalAssumption, TypeOKHolds
<1> QED
  BY <1>1, <1>2, <1>3, PTL DEF Spec

-----------------------------------------------------------------------------
(* Names and files *)

(* What the crash theorems ask of the build and of the system: no value is *)
(* too long to be read back, a rename that took effect is followed to the  *)
(* end, and either syncing a file makes its name durable, or the store's   *)
(* name is durable from the start and only power is lost, never the        *)
(* process alone.                                                          *)
Durable ==
  /\ BigValues = {}
  /\ "fsync_dir" \notin Faults /\ "reopen" \notin Faults
  /\ SyncsEntry \/ (~Fresh /\ MaxKills = 0)

(* A snapshot is never the store's file in a directory that may survive,   *)
(* and the handle is on the store's file, in every such directory when an  *)
(* update is about to be acknowledged.                                     *)
Names ==
  /\ \A d \in ToSet(dirs) : d.tmp # None => d.tmp # d.db
  /\ Dir.tmp # None => \A d \in ToSet(dirs) : d.db # Dir.tmp
  /\ pc \notin {"down", "opening", "failed", "fsync_dir", "reopen"} => file = Dir.db
  /\ pc = "apply" => \A d \in ToSet(dirs) : d.db = file
  /\ ~SyncsEntry => /\ \A d \in ToSet(dirs) : d.db # None
                    /\ pc # "fsync_dir" => \A d \in ToSet(dirs) : d.db = Dir.db

LEMMA NamesInit ==
  ASSUME WalAssumption, Durable, Init
  PROVE  Names
<1>1. PICK e : e = [db |-> IF Fresh THEN None ELSE CHOOSE i \in Inodes : TRUE, tmp |-> None]
  OBVIOUS
<1>2. /\ e \in Entry /\ dirs = <<e>> /\ e.tmp = None /\ pc = "down"
      /\ ~Fresh => e.db \in Inodes
  BY <1>1 DEF Init, Entry, WalAssumption
<1>3. ToSet(dirs) = {e} /\ Dir = e
  BY <1>2, ListedOne DEF Dir
<1> QED
  BY <1>2, <1>3 DEF Names, Durable, WalAssumption

LEMMA NamesStep ==
  ASSUME WalAssumption, Durable, TypeInv, Names, [Next]_vars
  PROVE  Names'
<1> USE Handle
<1>1. CASE RemoveTmp
  <2>1. pc = "down" /\ pc' = "opening"
    BY <1>1 DEF RemoveTmp
  <2>2. CASE Dir.tmp = None
    BY <1>1, <2>1, <2>2 DEF RemoveTmp, Names, Dir
  <2>3. CASE Dir.tmp # None
    <3>1. PICK e : e = [Dir EXCEPT !.tmp = None]
      OBVIOUS
    <3>2. e \in Entry /\ e.tmp = None /\ e.db = Dir.db
      BY <3>1 DEF Entry
    <3>3. Dir' = e /\ ToSet(dirs') = ToSet(dirs) \cup {e}
      BY <1>1, <2>3, <3>1, <3>2, DirChanged DEF RemoveTmp, TypeInv
    <3> QED
      BY <2>1, <3>2, <3>3 DEF Names
  <2> QED
    BY <2>2, <2>3
<1>2. CASE Open
  <2>1. pc = "opening" /\ pc' \in {"failed", "idle"} /\ OpenOrCreate
    BY <1>2 DEF Open
  <2>2. CASE Dir.db # None
    BY <2>1, <2>2 DEF OpenOrCreate, Names, Dir, disk
  <2>3. CASE Dir.db = None
    <3>1. PICK i \in Unused : file' = i /\ ChangeDir([Dir EXCEPT !.db = i])
      BY <2>1, <2>3 DEF OpenOrCreate
    <3>2. i \in Inodes /\ \A d \in ToSet(dirs) : d.db # i /\ d.tmp # i
      BY <3>1 DEF Unused
    <3>3. PICK e : e = [Dir EXCEPT !.db = i]
      OBVIOUS
    <3>4. e \in Entry /\ e.tmp = Dir.tmp /\ e.db = i
      BY <3>2, <3>3 DEF Entry
    <3>5. Dir' = e /\ ToSet(dirs') = ToSet(dirs) \cup {e}
      BY <3>1, <3>3, <3>4, DirChanged DEF TypeInv
    <3> QED
      BY <2>1, <2>3, <3>1, <3>2, <3>4, <3>5 DEF Names
  <2> QED
    BY <2>2, <2>3
<1>3. CASE Retry
  BY <1>3 DEF Retry, Names, disk, Dir
<1>4. ASSUME NEW k \in Keys, NEW v \in Value, Begin(k, v)
      PROVE  Names'
  BY <1>4 DEF Begin, Names, disk, Dir
<1>5. CASE WriteLength \/ WriteChecksum \/ WritePayload \/ WriteFails
  BY <1>5 DEF WriteLength, WriteChecksum, WritePayload, WriteFails, Names, Dir
<1>6. CASE Sync
  <2>1. file \in Inodes /\ SyncFile(file) /\ pc = "sync" /\ pc' = "apply" /\ file' = file
    BY <1>6 DEF Sync
  <2>2. /\ Dir' = Dir /\ ToSet(dirs') \subseteq ToSet(dirs)
        /\ SyncsEntry /\ file \in {Dir.db, Dir.tmp} => ToSet(dirs') = {Dir}
    BY <2>1, Synced
  <2> QED
    BY <2>1, <2>2 DEF Names
<1>7. CASE Acknowledge \/ SyncFails
  BY <1>7 DEF Acknowledge, SyncFails, Names, disk, Dir
<1>8. CASE CreateTmp
  <2>1. pc = "idle" /\ pc' = "snapshot" /\ file' = file
    BY <1>8 DEF CreateTmp
  <2>2. PICK i \in Inodes :
          \/ Dir.tmp = i /\ dirs' = dirs
          \/ i \in Unused /\ ChangeDir([Dir EXCEPT !.tmp = i])
    BY <1>8 DEF CreateTmp, Unused
  <2>3. CASE Dir.tmp = i /\ dirs' = dirs
    BY <2>1, <2>3 DEF Names, Dir
  <2>4. CASE i \in Unused /\ ChangeDir([Dir EXCEPT !.tmp = i])
    <3>1. PICK e : e = [Dir EXCEPT !.tmp = i]
      OBVIOUS
    <3>2. e \in Entry /\ e.tmp = i /\ e.db = Dir.db
      BY <3>1 DEF Entry
    <3>3. Dir' = e /\ ToSet(dirs') = ToSet(dirs) \cup {e}
      BY <2>4, <3>1, <3>2, DirChanged DEF TypeInv
    <3>4. \A d \in ToSet(dirs') : d.db # i
      BY <2>4, <3>2, <3>3 DEF Unused
    <3> QED
      BY <2>1, <3>2, <3>3, <3>4 DEF Names
  <2> QED
    BY <2>2, <2>3, <2>4
<1>9. CASE WriteTmp
  BY <1>9 DEF WriteTmp, Names, Dir
<1>10. CASE SyncTmp
  <2>1. /\ Dir.tmp \in Inodes /\ SyncFile(Dir.tmp) /\ pc = "sync_tmp" /\ pc' = "rename"
        /\ file' = file
    BY <1>10 DEF SyncTmp, TypeInv, Held
  <2>2. Dir' = Dir /\ ToSet(dirs') \subseteq ToSet(dirs)
    BY <2>1, Synced
  <2> QED
    BY <2>1, <2>2 DEF Names
<1>11. CASE Rename
  <2>1. pc = "rename" /\ pc' = "fsync_dir" /\ Dir.tmp \in Inodes
    BY <1>11 DEF Rename, TypeInv, Held
  <2>2. PICK e : e = [db |-> Dir.tmp, tmp |-> None]
    OBVIOUS
  <2>3. e \in Entry /\ e.tmp = None /\ e.db = Dir.tmp
    BY <2>2 DEF Entry
  <2>4. Dir' = e /\ ToSet(dirs') = ToSet(dirs) \cup {e}
    BY <1>11, <2>2, <2>3, DirChanged DEF Rename, TypeInv
  <2> QED
    BY <2>1, <2>3, <2>4 DEF Names
<1>12. CASE FsyncDir
  <2>1. pc = "fsync_dir" /\ pc' = "reopen" /\ Dir' = Dir /\ ToSet(dirs') = {Dir}
    BY <1>12, DirFlushed DEF FsyncDir
  <2> QED
    BY <2>1 DEF Names
<1>13. CASE Reopen
  BY <1>13 DEF Reopen, Names, disk, Dir
<1>14. CASE CompactFails
  <2>1. pc \in {"snapshot", "sync_tmp", "rename"} /\ pc' = "idle" /\ UNCHANGED <<dirs, file>>
    BY <1>14 DEF CompactFails, FailsIn, WalAssumption, Durable, disk
  <2> QED
    BY <2>1 DEF Names, Dir
<1>15. CASE Kill
  <2>1. pc' = "down" /\ dirs' = dirs /\ SyncsEntry
    BY <1>15 DEF Kill, Die, disk, Durable, TypeInv, Typed
  <2> QED
    BY <2>1 DEF Names, Dir
<1>16. CASE PowerLoss
  <2>1. PICK d \in ToSet(dirs), log \in Seq(Item) : Left(d, log)
    BY <1>16, LossLeaves
  <2>2. pc' = "down" /\ Dir' = d /\ ToSet(dirs') = {d}
    BY <1>16, <2>1, DirFlushed DEF PowerLoss, Die, Left
  <2> QED
    BY <2>2 DEF Names
<1>17. CASE UNCHANGED vars
  BY <1>17 DEF vars, disk, Names, Dir
<1> QED
  BY <1>1, <1>2, <1>3, <1>4, <1>5, <1>6, <1>7, <1>8, <1>9, <1>10, <1>11, <1>12, <1>13, <1>14,
     <1>15, <1>16, <1>17 DEF Next, Opening, Updating, Compacting

-----------------------------------------------------------------------------
(* What survives *)

(* Replay of what survives in any directory that may survive.              *)
Stored ==
  \A d \in ToSet(dirs) : IF d.db = None THEN \A k \in Keys : None \in maybe[k]
                                        ELSE Safe(data[d.db], synced[d.db], maybe)

Served ==
  /\ IsOpen => \A k \in Keys : kv[k] \in maybe[k]
  /\ pc \in Writing => op.value \in maybe[op.key]

(* The end of the log during an update ...                                 *)
Ending ==
  /\ pc \in {"checksum", "payload"} => Prefix(data[file]) = Len(data[file]) - 1
  /\ pc \in {"sync", "apply"} => /\ Prefix(data[file]) = Len(data[file]) /\ data[file] # <<>>
                                 /\ data[file][Len(data[file])] = Update(op.key, op.value)
  /\ pc = "apply" => synced[file] = Len(data[file])

(* ... and the snapshot during a compaction.                               *)
Replays(log, map) ==
  Prefix(log) = Len(log) /\ \A k \in Keys : ValueIn(log, Len(log), k) = map[k]

Ready ==
  /\ pc \in {"sync_tmp", "rename"} => Replays(data[Dir.tmp], kv)
  /\ pc = "rename" => synced[Dir.tmp] = Len(data[Dir.tmp])

Kept == ~buried => Stored /\ Served /\ Ending /\ Ready

LEMMA SafeMore ==
  ASSUME NEW log, NEW n \in Nat, NEW n2 \in Nat, n <= n2, NEW may, NEW may2,
         \A k \in Keys : may[k] \subseteq may2[k], Safe(log, n, may)
  PROVE  Safe(log, n2, may2)
<1> SUFFICES ASSUME NEW m \in n2 .. Len(log), NEW k \in Keys
             PROVE  ValueIn(log, Reach(log, m), k) \in may2[k]
  BY DEF Safe
<1>1. m \in n .. Len(log)
  OBVIOUS
<1> QED
  BY <1>1 DEF Safe

(* Once all of a log is on disk, only the whole of it counts.              *)
LEMMA SafeWhole ==
  ASSUME NEW log \in Seq(Item), NEW may, \A k \in Keys : ValueIn(log, Prefix(log), k) \in may[k]
  PROVE  Safe(log, Len(log), may)
<1>1. Len(log) \in Nat /\ Prefix(log) \in 0 .. Len(log)
  BY LenProperties, PrefixFacts
<1>2. \A m \in Len(log) .. Len(log) : m = Len(log)
  BY <1>1
<1>3. Reach(log, Len(log)) = Prefix(log)
  BY <1>1 DEF Reach
<1> QED
  BY <1>2, <1>3 DEF Safe

LEMMA EmptyLog ==
  \E log \in Seq(Item) : log = <<>> /\ Len(log) = 0 /\ Prefix(log) = 0
<1>1. PICK log : log = <<>>
  OBVIOUS
<1>2. log \in Seq(Item) /\ Len(log) = 0
  BY <1>1
<1>3. Prefix(log) \in 0 .. Len(log)
  BY <1>2, PrefixFacts
<1>4. Prefix(log) = 0
  BY <1>2, <1>3
<1> QED
  BY <1>1, <1>2, <1>4, Zenon

LEMMA SafeReplay ==
  ASSUME NEW log \in Seq(Item), NEW n \in Nat, n <= Len(log), NEW may, Safe(log, n, may)
  PROVE  \A k \in Keys : ValueIn(log, Prefix(log), k) \in may[k]
<1>1. Len(log) \in Nat /\ Prefix(log) \in 0 .. Len(log)
  BY LenProperties, PrefixFacts
<1>2. Reach(log, Len(log)) = Prefix(log) /\ Len(log) \in n .. Len(log)
  BY <1>1 DEF Reach
<1> QED
  BY <1>2 DEF Safe

LEMMA SafeJunk ==
  ASSUME NEW log \in Seq(Item), NEW n \in Nat, n <= Len(log), NEW may, Safe(log, n, may),
         NEW item \in Item, ~Readable(item), NEW new, Appended(new, log, item)
  PROVE  Safe(new, n, may)
<1>1. PICK l, p : l = Len(log) /\ p = Prefix(log) /\ l \in Nat /\ p \in 0 .. l
  BY LenProperties, PrefixFacts
<1>2. /\ Len(new) = l + 1 /\ Prefix(new) = p
      /\ \A m \in 0 .. l : \A k : ValueIn(new, m, k) = ValueIn(log, m, k)
  BY <1>1 DEF Appended
<1> SUFFICES ASSUME NEW m \in n .. l + 1, NEW k \in Keys
             PROVE  ValueIn(new, Reach(new, m), k) \in may[k]
  BY <1>2 DEF Safe
<1>3. PICK m2 \in n .. l : Reach(new, m) = Reach(log, m2) /\ Reach(log, m2) \in 0 .. l
  <2>1. CASE m <= l
    BY <1>1, <1>2, <2>1 DEF Reach
  <2>2. CASE m = l + 1
    <3>1. Reach(new, m) = p /\ Reach(log, l) = p
      BY <1>1, <1>2, <2>2 DEF Reach
    <3>2. l \in n .. l /\ p \in 0 .. l
      BY <1>1
    <3> QED
      BY <3>1, <3>2
  <2> QED
    BY <1>1, <2>1, <2>2
<1> QED
  BY <1>1, <1>2, <1>3 DEF Safe

LEMMA SafeReplaced ==
  ASSUME NEW log \in Seq(Item), NEW n \in Nat, n <= Len(log), NEW may, Safe(log, n, may),
         NEW item \in Item, NEW new, Replaced(new, log, item), Prefix(log) = Len(log) - 1,
         Readable(item) => item.value \in may[item.key]
  PROVE  Safe(new, n, may)
<1>1. PICK q \in Nat : q = Len(log) - 1 /\ Len(log) = q + 1
  <2>1. Len(log) \in Nat \ {0}
    BY DEF Replaced
  <2> QED
    BY <2>1
<1>2. /\ Prefix(log) = q /\ Len(new) = q + 1 /\ new[q + 1] = item
      /\ \A m \in 0 .. q : \A k : ValueIn(new, m, k) = ValueIn(log, m, k)
      /\ Prefix(new) = IF Readable(item) THEN q + 1 ELSE q
  BY <1>1 DEF Replaced
<1> SUFFICES ASSUME NEW m \in n .. q + 1, NEW k \in Keys
             PROVE  ValueIn(new, Reach(new, m), k) \in may[k]
  BY <1>2 DEF Safe
<1>3. ValueIn(log, Reach(log, m), k) \in may[k]
  BY <1>1 DEF Safe
<1>4. CASE m <= q
  <2>1. Reach(new, m) = m /\ Reach(log, m) = m
    BY <1>2, <1>4 DEF Reach
  <2> QED
    BY <1>2, <1>3, <1>4, <2>1
<1>5. CASE m = q + 1
  <2>1. Reach(log, m) = q /\ ValueIn(new, q, k) \in may[k]
    <3>1. Reach(log, m) = q
      BY <1>2, <1>5 DEF Reach
    <3> QED
      BY <1>2, <1>3, <3>1
  <2>2. CASE Readable(item)
    <3>1. Reach(new, m) = q + 1
      BY <1>2, <1>5, <2>2 DEF Reach
    <3>2. ValueIn(new, q + 1, k) = IF item.key = k THEN item.value ELSE ValueIn(new, q, k)
      BY <1>2, ValueInNext
    <3> QED
      BY <2>1, <2>2, <3>1, <3>2
  <2>3. CASE ~Readable(item)
    <3>1. Reach(new, m) = q
      BY <1>2, <1>5, <2>3 DEF Reach
    <3> QED
      BY <2>1, <3>1
  <2> QED
    BY <2>2, <2>3
<1> QED
  BY <1>4, <1>5

LEMMA StoredStays ==
  ASSUME Typed, Stored, \A k \in Keys : maybe[k] \subseteq maybe'[k],
         \A d \in ToSet(dirs') :
           \/ d.db # None /\ Safe(data'[d.db], synced'[d.db], maybe')
           \/ \E c \in ToSet(dirs) :
                /\ c.db = d.db
                /\ d.db # None => /\ d.db \in Inodes /\ data'[d.db] = data[d.db]
                                  /\ synced'[d.db] \in Nat /\ synced[d.db] <= synced'[d.db]
  PROVE  Stored'
<1> SUFFICES ASSUME NEW d \in ToSet(dirs'), NEW c \in ToSet(dirs),
                    c.db = d.db,
                    d.db # None => /\ d.db \in Inodes /\ data'[d.db] = data[d.db]
                                   /\ synced'[d.db] \in Nat /\ synced[d.db] <= synced'[d.db]
             PROVE  IF d.db = None THEN \A k \in Keys : None \in maybe'[k]
                                   ELSE Safe(data'[d.db], synced'[d.db], maybe')
  BY DEF Stored
<1>1. CASE d.db = None
  BY <1>1 DEF Stored
<1>2. CASE d.db # None
  <2>1. PICK log, n, n2 :
          /\ n \in Nat /\ n2 \in Nat /\ log = data[d.db] /\ n = synced[d.db] /\ n2 = synced'[d.db] /\ n <= n2
          /\ data'[d.db] = log
    BY <1>2 DEF Typed
  <2>2. Safe(log, n, maybe)
    BY <1>2, <2>1 DEF Stored
  <2>3. Safe(log, n2, maybe')
    BY <2>1, <2>2, SafeMore
  <2> QED
    BY <1>2, <2>1, <2>3
<1> QED
  BY <1>1, <1>2

LEMMA BuriedForGood ==
  ASSUME [Next]_vars, ~buried'
  PROVE  ~buried
<1>1. CASE Opening
  BY <1>1 DEF Opening, RemoveTmp, Open, Retry
<1>2. CASE Updating
  BY <1>2 DEF Updating, Begin, WriteLength, WriteChecksum, WritePayload, Sync, Acknowledge,
              WriteFails, SyncFails, Buries
<1>3. CASE Compacting
  BY <1>3 DEF Compacting, CreateTmp, WriteTmp, SyncTmp, Rename, FsyncDir, Reopen, CompactFails
<1>4. CASE Kill \/ PowerLoss
  BY <1>4 DEF Kill, PowerLoss, Die
<1>5. CASE UNCHANGED vars
  BY <1>5 DEF vars
<1> QED
  BY <1>1, <1>2, <1>3, <1>4, <1>5 DEF Next

LEMMA KeptInit ==
  ASSUME WalAssumption, Init
  PROVE  Kept
<1>1. PICK e : e = [db |-> IF Fresh THEN None ELSE CHOOSE i \in Inodes : TRUE, tmp |-> None]
  OBVIOUS
<1>2. e \in Entry /\ dirs = <<e>> /\ pc = "down"
  BY <1>1 DEF Init, Entry, WalAssumption
<1>3. ToSet(dirs) = {e}
  BY <1>2, ListedOne
<1>4. ASSUME e.db # None PROVE Safe(data[e.db], synced[e.db], maybe)
  <2>1. e.db \in Inodes
    BY <1>2, <1>4 DEF Entry
  <2>2. PICK log \in Seq(Item) : log = <<>> /\ Len(log) = 0 /\ Prefix(log) = 0
    BY EmptyLog
  <2>3. data[e.db] = log /\ synced[e.db] = Len(log) /\ maybe = [k \in Keys |-> {None}]
    BY <2>1, <2>2 DEF Init
  <2>5. \A k \in Keys : ValueIn(log, Prefix(log), k) \in maybe[k]
    BY <2>2, <2>3, ValueInEmpty
  <2> QED
    BY <2>3, <2>5, SafeWhole
<1>5. \A k \in Keys : None \in maybe[k]
  BY DEF Init
<1> QED
  BY <1>2, <1>3, <1>4, <1>5 DEF Kept, Stored, Served, Ending, Ready, Writing, IsOpen

LEMMA OpeningKept ==
  ASSUME WalAssumption, Durable, TypeInv, Names, Stored, Served, Ending, Ready, Opening
  PROVE  Stored' /\ Served' /\ Ending' /\ Ready'
<1> USE Handle DEF TypeInv
<1>1. CASE RemoveTmp
  <2>1. /\ pc' = "opening" /\ UNCHANGED <<data, synced, maybe>>
        /\ dirs' = dirs \/ ChangeDir([Dir EXCEPT !.tmp = None])
    BY <1>1 DEF RemoveTmp
  <2>2. \A d \in ToSet(dirs') : \E c \in ToSet(dirs) : c.db = d.db
    <3>1. PICK e : e = [Dir EXCEPT !.tmp = None]
      OBVIOUS
    <3>2. e \in Entry /\ e.db = Dir.db
      BY <3>1 DEF Entry
    <3>3. CASE dirs' = dirs
      BY <3>3
    <3>4. CASE ChangeDir(e)
      BY <3>2, <3>4, DirChanged
    <3> QED
      BY <2>1, <3>1, <3>3, <3>4
  <2>3. \A d \in ToSet(dirs) : d.db # None =>
            d.db \in Inodes /\ synced'[d.db] \in Nat /\ synced[d.db] <= synced'[d.db]
    BY <2>1 DEF Entry, Typed
  <2>4. Stored'
    BY <2>1, <2>2, <2>3, StoredStays
  <2> QED
    BY <2>1, <2>4 DEF Served, Ending, Ready, Writing, IsOpen
<1>2. CASE Open
  <2>1. /\ pc = "opening" /\ UNCHANGED <<op, maybe, buried, counts>> /\ OpenOrCreate
        /\ pc' = "failed" \/ (pc' = "idle" /\ kv' = Replay(data'[file']))
    BY <1>2 DEF Open
  <2>2. CASE Dir.db # None
    <3>1. file' = Dir.db /\ UNCHANGED disk /\ Dir.db \in Inodes
      BY <2>1, <2>2 DEF OpenOrCreate
    <3>2. Stored'
      BY <2>1, <3>1 DEF Stored, disk
    <3>3. PICK log, n : log = data[Dir.db] /\ n = synced[Dir.db]
      OBVIOUS
    <3>4. log \in Seq(Item) /\ n \in Nat /\ n <= Len(log) /\ Safe(log, n, maybe)
      BY <2>2, <3>1, <3>3 DEF Typed, Stored
    <3>5. \A k \in Keys : ValueIn(log, Prefix(log), k) \in maybe[k]
      BY <3>4, SafeReplay
    <3>6. pc' = "idle" => \A k \in Keys : kv'[k] \in maybe[k]
      BY <2>1, <3>1, <3>3, <3>5 DEF Replay, disk
    <3> QED
      BY <2>1, <3>2, <3>6 DEF Served, Ending, Ready, Writing, IsOpen
  <2>3. CASE Dir.db = None
    <3>1. PICK i \in Unused : /\ file' = i /\ data' = [data EXCEPT ![i] = <<>>]
                              /\ synced' = [synced EXCEPT ![i] = 0]
                              /\ ChangeDir([Dir EXCEPT !.db = i])
      BY <2>1, <2>3 DEF OpenOrCreate
    <3>2. i \in Inodes /\ \A d \in ToSet(dirs) : d.db # i
      BY <3>1 DEF Unused
    <3>3. PICK e : e = [Dir EXCEPT !.db = i]
      OBVIOUS
    <3>4. e \in Entry /\ e.db = i
      BY <3>2, <3>3 DEF Entry
    <3>5. ToSet(dirs') = ToSet(dirs) \cup {e}
      BY <3>1, <3>3, <3>4, DirChanged
    <3>6. PICK log \in Seq(Item) : log = <<>> /\ Len(log) = 0 /\ Prefix(log) = 0
      BY EmptyLog
    <3>7. data'[i] = log /\ synced'[i] = Len(log)
      BY <3>1, <3>2, <3>6 DEF Typed
    <3>9. \A k \in Keys : ValueIn(log, Prefix(log), k) = None /\ None \in maybe[k]
      BY <2>3, <3>6, ValueInEmpty DEF Stored
    <3>10. Safe(log, Len(log), maybe)
      BY <3>9, SafeWhole
    <3>11. Stored'
      <4>1. \A d \in ToSet(dirs) : d.db # None =>
              /\ d.db \in Inodes /\ data'[d.db] = data[d.db]
              /\ synced'[d.db] \in Nat /\ synced[d.db] <= synced'[d.db]
        <5>1. \A d \in ToSet(dirs) : d.db # None => d.db \in Inodes /\ d.db # i
          BY <3>2 DEF Entry
        <5>2. \A j \in Inodes : j # i => /\ data'[j] = data[j] /\ synced'[j] = synced[j]
                                         /\ synced[j] \in Nat /\ synced[j] <= synced[j]
          BY <3>1 DEF Typed
        <5> QED
          BY <5>1, <5>2
      <4>2. e.db # None /\ Safe(data'[e.db], synced'[e.db], maybe')
        BY <2>1, <3>2, <3>4, <3>7, <3>10
      <4> QED
        BY <2>1, <3>5, <4>1, <4>2, StoredStays
    <3>12. pc' = "idle" => \A k \in Keys : kv'[k] \in maybe[k]
      BY <2>1, <3>1, <3>7, <3>9 DEF Replay
    <3> QED
      BY <2>1, <3>11, <3>12 DEF Served, Ending, Ready, Writing, IsOpen
  <2> QED
    BY <2>2, <2>3
<1>3. CASE Retry
  BY <1>3 DEF Retry, Stored, Served, Ending, Ready, Writing, IsOpen, disk
<1> QED
  BY <1>1, <1>2, <1>3 DEF Opening

(* A call of write on the log leaves everything as it was in every         *)
(* directory, if what the log has become is safe.                          *)
LEMMA WrittenStored ==
  ASSUME WalAssumption, TypeInv, Stored, file \in Inodes, UNCHANGED <<dirs, synced, maybe>>,
         NEW new, data' = [data EXCEPT ![file] = new],
         Safe(data[file], synced[file], maybe) => Safe(new, synced[file], maybe)
  PROVE  Stored'
<1>1. ASSUME NEW d \in ToSet(dirs'), d.db # None
      PROVE  \/ d.db # None /\ Safe(data'[d.db], synced'[d.db], maybe')
             \/ /\ d.db \in Inodes /\ data'[d.db] = data[d.db]
                /\ synced'[d.db] \in Nat /\ synced[d.db] <= synced'[d.db]
  <2>1. d \in ToSet(dirs) /\ d.db \in Inodes
    BY <1>1, Handle DEF Entry
  <2>2. CASE d.db = file
    <3>1. Safe(data[file], synced[file], maybe)
      BY <2>1, <2>2, <1>1 DEF Stored
    <3>2. data'[file] = new
      BY DEF TypeInv, Typed
    <3> QED
      BY <1>1, <2>2, <3>1, <3>2
  <2>3. CASE d.db # file
    BY <2>1, <2>3 DEF TypeInv, Typed
  <2> QED
    BY <2>2, <2>3
<1> QED
  BY <1>1, StoredStays DEF TypeInv

LEMMA UpdatingKept ==
  ASSUME WalAssumption, Durable, TypeInv, Names, Stored, Served, Ending, Ready, Updating, ~buried'
  PROVE  Stored' /\ Served' /\ Ending' /\ Ready'
<1> USE Handle DEF TypeInv
<1>0. \A d \in ToSet(dirs) : d.db # None =>
        d.db \in Inodes /\ synced[d.db] \in Nat /\ synced[d.db] <= synced[d.db]
  BY DEF Entry, Typed
<1>1. ASSUME NEW k \in Keys, NEW v \in Value, Begin(k, v)
      PROVE  Stored' /\ Served' /\ Ending' /\ Ready'
  <2>1. /\ pc = "idle" /\ pc' = "length" /\ UNCHANGED <<data, synced, dirs, kv>>
        /\ op' = [key |-> k, value |-> v] /\ maybe' = [maybe EXCEPT ![k] = @ \cup {v}]
    BY <1>1 DEF Begin, disk
  <2>2. (\A j \in Keys : maybe[j] \subseteq maybe'[j]) /\ v \in maybe'[k]
    BY <2>1 DEF Typed
  <2>3. Stored'
    BY <1>0, <2>1, <2>2, StoredStays
  <2>4. Served'
    BY <2>1, <2>2 DEF Served, IsOpen
  <2> QED
    BY <2>1, <2>3, <2>4 DEF Ending, Ready
<1>2. ASSUME NEW new, file \in Inodes, Appended(new, data[file], Part("short")),
             data' = [data EXCEPT ![file] = new], UNCHANGED <<dirs, synced, maybe>>
      PROVE  Stored'
  <2>1. PICK log, n : log = data[file] /\ n = synced[file]
    OBVIOUS
  <2>2. log \in Seq(Item) /\ n \in Nat /\ n <= Len(log)
    BY <1>2, <2>1 DEF Typed
  <2>3. Part("short") \in Item /\ ~Readable(Part("short"))
    BY DEF Part, Junk, Item, Readable, IsFrame
  <2>4. Safe(log, n, maybe) => Safe(new, n, maybe)
    BY <1>2, <2>1, <2>2, <2>3, SafeJunk
  <2> QED
    BY <1>2, <2>1, <2>4, WrittenStored
<1>3. ASSUME NEW item, AppendItem(item), item = Part("short"), file \in Inodes,
             UNCHANGED <<dirs, synced, maybe>>
      PROVE  Stored' /\ (Prefix(data[file]) = Len(data[file])
                           => Prefix(data'[file]) = Len(data'[file]) - 1)
  <2>1. item \in Item /\ ~Readable(item)
    BY <1>3 DEF Part, Junk, Item, Readable, IsFrame
  <2>2. PICK new : new = Append(data[file], item)
    OBVIOUS
  <2>3. data[file] \in Seq(Item)
    BY <1>3 DEF Typed
  <2>4. Appended(new, data[file], item)
    BY <2>1, <2>2, <2>3, AppendedLog
  <2>5. data' = [data EXCEPT ![file] = new] /\ data'[file] = new
    BY <1>3, <2>2 DEF AppendItem, Typed
  <2>6. Stored'
    BY <1>2, <1>3, <2>4, <2>5
  <2>7. Len(new) = Len(data[file]) + 1 /\ Prefix(new) = Prefix(data[file]) /\ Len(data[file]) \in Nat
    BY <2>1, <2>3, <2>4, LenProperties DEF Appended
  <2> QED
    BY <2>5, <2>6, <2>7
<1>4. ASSUME NEW item \in Item, pc \in {"checksum", "payload"}, ReplaceLast(item), file \in Inodes,
             Readable(item) => item.value \in maybe[item.key], UNCHANGED <<dirs, synced, maybe>>
      PROVE  /\ Stored' /\ data'[file] # <<>> /\ data'[file][Len(data'[file])] = item
             /\ Prefix(data'[file]) =
                  IF Readable(item) THEN Len(data'[file]) ELSE Len(data'[file]) - 1
  <2>1. PICK log, n : log = data[file] /\ n = synced[file]
    OBVIOUS
  <2>2. /\ log \in Seq(Item) /\ n \in Nat /\ n <= Len(log) /\ log # <<>>
        /\ Prefix(log) = Len(log) - 1
    BY <1>4, <2>1 DEF Typed, Held, Ending
  <2>3. PICK new : new = Append(Front(log), item)
    OBVIOUS
  <2>4. Replaced(new, log, item)
    BY <2>2, <2>3, ReplacedLog
  <2>5. Safe(log, n, maybe) => Safe(new, n, maybe)
    BY <1>4, <2>2, <2>4, SafeReplaced
  <2>6. data' = [data EXCEPT ![file] = new] /\ data'[file] = new
    BY <1>4, <2>1, <2>3 DEF ReplaceLast, Typed
  <2>7. Stored'
    BY <1>4, <2>1, <2>5, <2>6, WrittenStored
  <2>8. /\ new # <<>> /\ Len(new) = Len(log) /\ new[Len(new)] = item
        /\ Prefix(new) = IF Readable(item) THEN Len(new) ELSE Len(new) - 1
    BY <2>2, <2>4 DEF Replaced
  <2> QED
    BY <2>6, <2>7, <2>8
<1>5. CASE WriteLength
  <2>1. /\ pc = "length" /\ pc' = "checksum" /\ file \in Inodes /\ file' = file
        /\ UNCHANGED <<synced, dirs, kv, op, maybe>>
        /\ AppendItem(Part("short")) /\ ~(Prefix(data[file]) < Len(data[file]))
    BY <1>5 DEF WriteLength, Buries
  <2>2. Prefix(data[file]) = Len(data[file])
    <3>1. Len(data[file]) \in Nat /\ Prefix(data[file]) \in 0 .. Len(data[file])
      BY <2>1, LenProperties, PrefixFacts DEF Typed
    <3> QED
      BY <2>1, <3>1
  <2>3. Stored' /\ Prefix(data'[file]) = Len(data'[file]) - 1
    BY <1>3, <2>1, <2>2
  <2> QED
    BY <2>1, <2>3 DEF Served, Ending, Ready, Writing, IsOpen
<1>6. CASE WriteChecksum
  <2>1. /\ pc = "checksum" /\ pc' = "payload" /\ file \in Inodes /\ file' = file
        /\ UNCHANGED <<synced, dirs, kv, op, maybe>> /\ ReplaceLast(Part("torn"))
    BY <1>6 DEF WriteChecksum
  <2>2. Part("torn") \in Item /\ ~Readable(Part("torn"))
    BY DEF Part, Junk, Item, Readable, IsFrame
  <2>3. Stored' /\ Prefix(data'[file]) = Len(data'[file]) - 1
    BY <1>4, <2>1, <2>2
  <2> QED
    BY <2>1, <2>3 DEF Served, Ending, Ready, Writing, IsOpen
<1>7. CASE WritePayload
  <2>1. /\ pc = "payload" /\ pc' = "sync" /\ file \in Inodes /\ file' = file
        /\ UNCHANGED <<synced, dirs, kv, op, maybe>>
    BY <1>7 DEF WritePayload
  <2>2. PICK item : item = Update(op.key, op.value)
    OBVIOUS
  <2>3. ReplaceLast(item)
    BY <1>7, <2>2 DEF WritePayload
  <2>4. item \in Item /\ Readable(item) /\ item.value \in maybe[item.key]
    BY <2>1, <2>2 DEF Update, Frame, Item, Readable, IsFrame, Typed, Held, Served, Writing, Durable
  <2>5. /\ Stored' /\ data'[file] # <<>> /\ data'[file][Len(data'[file])] = item
        /\ Prefix(data'[file]) = Len(data'[file])
    BY <1>4, <2>1, <2>3, <2>4
  <2> QED
    BY <2>1, <2>2, <2>5 DEF Served, Ending, Ready, Writing, IsOpen
<1>8. CASE Sync
  <2>1. /\ pc = "sync" /\ pc' = "apply" /\ file \in Inodes /\ SyncFile(file)
        /\ UNCHANGED <<data, file, kv, op, maybe>>
    BY <1>8 DEF Sync
  <2>2. /\ synced' \in [Inodes -> Nat] /\ ToSet(dirs') \subseteq ToSet(dirs)
        /\ synced'[file] = Len(data[file]) /\ \A j \in Inodes \ {file} : synced'[j] = synced[j]
    BY <2>1, Synced
  <2>3. \A i \in Inodes : synced[i] <= synced'[i]
    <3>1. synced[file] <= synced'[file]
      BY <2>1, <2>2 DEF Typed
    <3>2. \A i \in Inodes \ {file} : synced[i] <= synced'[i]
      BY <2>2 DEF Typed
    <3> QED
      BY <3>1, <3>2
  <2>4. Stored'
    BY <1>0, <2>1, <2>2, <2>3, StoredStays
  <2> QED
    BY <2>1, <2>2, <2>4 DEF Served, Ending, Ready, Writing, IsOpen
<1>9. CASE Acknowledge
  <2>1. /\ pc = "apply" /\ pc' = "idle" /\ UNCHANGED <<data, synced, dirs, file>>
        /\ kv' = [kv EXCEPT ![op.key] = op.value]
        /\ maybe' = [maybe EXCEPT ![op.key] = {op.value}] /\ op.key \in Keys /\ file \in Inodes
    BY <1>9 DEF Acknowledge, disk, Held, Writing
  <2>2. PICK log \in Seq(Item) : log = data[file]
    BY <2>1 DEF Typed
  <2>3. PICK q \in Nat : q = Len(log) - 1 /\ Len(log) = q + 1
    <3>1. Len(log) \in Nat \ {0}
      BY <2>1, <2>2, EmptySeq DEF Ending
    <3> QED
      BY <3>1
  <2>4. /\ Prefix(log) = q + 1 /\ log[q + 1] = Update(op.key, op.value)
        /\ synced[file] = q + 1 /\ \A d \in ToSet(dirs) : d.db = file
    BY <2>1, <2>2, <2>3 DEF Ending, Names
  <2>5. Safe(log, q + 1, maybe)
    <3>1. Dir \in ToSet(dirs) /\ file # None
      BY <2>1
    <3> QED
      BY <2>2, <2>4, <3>1 DEF Stored
  <2>6. \A k \in Keys : ValueIn(log, q + 1, k) \in maybe'[k]
    <3>1. \A k \in Keys : ValueIn(log, q + 1, k) \in maybe[k]
      BY <2>2, <2>3, <2>4, <2>5, SafeReplay
    <3>2. ValueIn(log, q + 1, op.key) = op.value
      <4>1. log[q + 1].key = op.key /\ log[q + 1].value = op.value
        BY <2>4 DEF Update
      <4> QED
        BY <4>1, ValueInNext
    <3> QED
      BY <2>1, <3>1, <3>2 DEF Typed
  <2>7. Safe(log, Len(log), maybe')
    BY <2>3, <2>4, <2>6, SafeWhole
  <2>8. Stored'
    BY <2>1, <2>2, <2>3, <2>4, <2>7 DEF Stored
  <2>9. \A k \in Keys : kv'[k] \in maybe'[k]
    BY <2>1 DEF Served, IsOpen, Typed
  <2> QED
    BY <2>1, <2>8, <2>9 DEF Served, Ending, Ready, Writing, IsOpen
<1>10. CASE WriteFails
  <2>1. /\ pc \in {"length", "checksum", "payload"} /\ pc' = "idle" /\ file \in Inodes
        /\ UNCHANGED <<synced, dirs, kv, maybe>>
        /\ AppendItem(Part("short")) \/ data' = data
    BY <1>10 DEF WriteFails
  <2>2. Stored'
    <3>1. CASE AppendItem(Part("short"))
      <4>1. PICK item : item = Part("short")
        OBVIOUS
      <4> QED
        BY <1>3, <2>1, <3>1, <4>1
    <3>2. CASE data' = data
      BY <2>1, <3>2 DEF Stored
    <3> QED
      BY <2>1, <3>1, <3>2
  <2> QED
    BY <2>1, <2>2 DEF Served, Ending, Ready, Writing, IsOpen
<1>11. CASE SyncFails
  BY <1>11 DEF SyncFails, Stored, Served, Ending, Ready, Writing, IsOpen, disk
<1> QED
  BY <1>1, <1>5, <1>6, <1>7, <1>8, <1>9, <1>10, <1>11 DEF Updating

(* A file that no directory has under the store's name can be changed.     *)
LEMMA OtherStored ==
  ASSUME WalAssumption, TypeInv, Stored, UNCHANGED maybe, NEW i \in Inodes,
         \A d \in ToSet(dirs) : d.db # i,
         \A j \in Inodes \ {i} : data'[j] = data[j] /\ synced'[j] = synced[j],
         \A d \in ToSet(dirs') : \E c \in ToSet(dirs) : c.db = d.db
  PROVE  Stored'
<1>1. ASSUME NEW d \in ToSet(dirs), d.db # None
      PROVE  /\ d.db \in Inodes /\ data'[d.db] = data[d.db]
             /\ synced'[d.db] \in Nat /\ synced[d.db] <= synced'[d.db]
  <2>1. d.db \in Inodes \ {i}
    BY <1>1, Handle DEF Entry
  <2> QED
    BY <2>1 DEF TypeInv, Typed
<1> QED
  BY <1>1, StoredStays DEF TypeInv

LEMMA CompactingKept ==
  ASSUME WalAssumption, Durable, TypeInv, Names, Stored, Served, Ending, Ready, Compacting
  PROVE  Stored' /\ Served' /\ Ending' /\ Ready'
<1> USE Handle DEF TypeInv
<1>1. CASE CreateTmp
  <2>1. pc = "idle" /\ pc' = "snapshot" /\ UNCHANGED <<file, kv, op, maybe>>
    BY <1>1 DEF CreateTmp
  <2>2. PICK i \in Inodes : /\ i = Dir.tmp \/ i \in Unused
                            /\ data' = [data EXCEPT ![i] = <<>>]
                            /\ synced' = [synced EXCEPT ![i] = 0]
                            /\ dirs' = dirs \/ ChangeDir([Dir EXCEPT !.tmp = i])
    BY <1>1 DEF CreateTmp, Unused
  <2>3. \A d \in ToSet(dirs) : d.db # i
    BY <2>2 DEF Names, Unused
  <2>4. \A d \in ToSet(dirs') : \E c \in ToSet(dirs) : c.db = d.db
    <3>1. PICK e : e = [Dir EXCEPT !.tmp = i]
      OBVIOUS
    <3>2. e \in Entry /\ e.db = Dir.db
      BY <3>1 DEF Entry
    <3>3. CASE dirs' = dirs
      BY <3>3
    <3>4. CASE ChangeDir(e)
      BY <3>2, <3>4, DirChanged
    <3> QED
      BY <2>2, <3>1, <3>3, <3>4
  <2>5. \A j \in Inodes \ {i} : data'[j] = data[j] /\ synced'[j] = synced[j]
    BY <2>2 DEF Typed
  <2>6. Stored'
    BY <2>1, <2>3, <2>4, <2>5, OtherStored
  <2> QED
    BY <2>1, <2>6 DEF Served, Ending, Ready, Writing, IsOpen
<1>2. CASE WriteTmp
  <2>1. /\ pc = "snapshot" /\ pc' = "sync_tmp" /\ UNCHANGED <<synced, dirs, file, kv, op, maybe>>
        /\ Dir.tmp \in Inodes /\ data' = [data EXCEPT ![Dir.tmp] = Snapshot]
    BY <1>2 DEF WriteTmp, Held
  <2>2. PICK i \in Inodes : i = Dir.tmp
    BY <2>1
  <2>3. /\ \A d \in ToSet(dirs) : d.db # i
        /\ \A j \in Inodes \ {i} : data'[j] = data[j] /\ synced'[j] = synced[j]
        /\ data'[i] = Snapshot /\ Dir'.tmp = i
    BY <2>1, <2>2 DEF Names, Typed, Dir
  <2>4. Stored'
    BY <2>1, <2>3, OtherStored
  <2>5. Replays(data'[i], kv)
    BY <2>3, SnapshotLog DEF Replays, Durable
  <2> QED
    BY <2>1, <2>3, <2>4, <2>5 DEF Served, Ending, Ready, Writing, IsOpen
<1>3. CASE SyncTmp
  <2>1. /\ pc = "sync_tmp" /\ pc' = "rename" /\ SyncFile(Dir.tmp)
        /\ UNCHANGED <<data, file, kv, op, maybe>>
    BY <1>3 DEF SyncTmp
  <2>2. PICK i \in Inodes : i = Dir.tmp
    BY <2>1 DEF Held
  <2>3. /\ ToSet(dirs') \subseteq ToSet(dirs) /\ Dir' = Dir
        /\ synced'[i] = Len(data[i]) /\ \A j \in Inodes \ {i} : synced'[j] = synced[j]
    BY <2>1, <2>2, Synced
  <2>4. \A d \in ToSet(dirs) : d.db # i
    BY <2>2 DEF Names
  <2>5. Stored'
    BY <2>1, <2>3, <2>4, OtherStored
  <2> QED
    BY <2>1, <2>2, <2>3, <2>5 DEF Served, Ending, Ready, Writing, IsOpen
<1>4. CASE Rename
  <2>1. /\ pc = "rename" /\ pc' = "fsync_dir" /\ UNCHANGED <<data, synced, file, kv, op, maybe>>
        /\ ChangeDir([db |-> Dir.tmp, tmp |-> None])
    BY <1>4 DEF Rename
  <2>2. PICK i \in Inodes : i = Dir.tmp
    BY <2>1 DEF Held
  <2>3. PICK e : e = [db |-> i, tmp |-> None]
    OBVIOUS
  <2>4. e \in Entry /\ e.db = i
    BY <2>3 DEF Entry
  <2>5. ToSet(dirs') = ToSet(dirs) \cup {e}
    BY <2>1, <2>2, <2>3, <2>4, DirChanged
  <2>6. PICK log \in Seq(Item) : log = data[i]
    BY DEF Typed
  <2>7. Replays(log, kv) /\ synced[i] = Len(log)
    BY <2>1, <2>2, <2>6 DEF Ready
  <2>8. \A k \in Keys : ValueIn(log, Prefix(log), k) \in maybe[k]
    BY <2>1, <2>7 DEF Replays, Served, IsOpen
  <2>9. Safe(log, Len(log), maybe)
    BY <2>8, SafeWhole
  <2>10. e.db # None /\ Safe(data'[e.db], synced'[e.db], maybe')
    BY <2>1, <2>4, <2>6, <2>7, <2>9
  <2>11. \A d \in ToSet(dirs) : d.db # None =>
           /\ d.db \in Inodes /\ data'[d.db] = data[d.db]
           /\ synced'[d.db] \in Nat /\ synced[d.db] <= synced'[d.db]
    BY <2>1 DEF Typed, Entry
  <2>12. Stored'
    BY <2>1, <2>5, <2>10, <2>11, StoredStays
  <2> QED
    BY <2>1, <2>12 DEF Served, Ending, Ready, Writing, IsOpen
<1>5. CASE FsyncDir
  <2>1. ToSet(dirs') = {Dir}
    BY <1>5, DirFlushed DEF FsyncDir
  <2>2. Stored'
    BY <1>5, <2>1 DEF FsyncDir, Stored
  <2> QED
    BY <1>5, <2>2 DEF FsyncDir, Served, Ending, Ready, Writing, IsOpen
<1>6. CASE Reopen
  BY <1>6 DEF Reopen, Stored, Served, Ending, Ready, Writing, IsOpen, disk
<1>7. CASE CompactFails
  <2>1. pc \in {"snapshot", "sync_tmp", "rename", "fsync_dir", "reopen"}
    BY <1>7 DEF CompactFails, FailsIn, WalAssumption
  <2> QED
    BY <1>7, <2>1 DEF CompactFails, Stored, Served, Ending, Ready, Writing, IsOpen, disk
<1> QED
  BY <1>1, <1>2, <1>3, <1>4, <1>5, <1>6, <1>7 DEF Compacting

LEMMA CrashKept ==
  ASSUME WalAssumption, TypeInv, Stored, Kill \/ PowerLoss
  PROVE  Stored' /\ Served' /\ Ending' /\ Ready'
<1>1. pc' = "down"
  BY DEF Kill, PowerLoss, Die
<1>2. ASSUME Kill PROVE Stored'
  BY <1>2 DEF Kill, Die, Stored, disk
<1>3. ASSUME PowerLoss PROVE Stored'
  <2>1. PICK d \in ToSet(dirs), log \in Seq(Item) :
          Left(d, log) /\ (d.db # None => log \in Images(data[d.db], synced[d.db]))
    BY <1>3, LossLeaves
  <2>2. d \in Entry /\ ToSet(dirs') = {d} /\ maybe' = maybe
    BY <1>3, <2>1, Handle, DirFlushed DEF Left, PowerLoss, Die
  <2>3. CASE d.db = None
    BY <2>2, <2>3 DEF Stored
  <2>4. CASE d.db # None
    <3>1. PICK old, n : old = data[d.db] /\ n = synced[d.db]
      OBVIOUS
    <3>2. /\ old \in Seq(Item) /\ n \in Nat /\ n <= Len(old) /\ Safe(old, n, maybe)
          /\ log \in Images(old, n) /\ data'[d.db] = log /\ synced'[d.db] = Len(log)
      BY <2>1, <2>2, <2>4, <3>1 DEF TypeInv, Typed, Entry, Stored, Left
    <3>3. Safe(log, Len(log), maybe)
      BY <3>2, ImageSafe
    <3> QED
      BY <2>2, <2>4, <3>2, <3>3 DEF Stored
  <2> QED
    BY <2>3, <2>4
<1> QED
  BY <1>1, <1>2, <1>3 DEF Served, Ending, Ready, Writing, IsOpen

LEMMA KeptStep ==
  ASSUME WalAssumption, Durable, TypeInv, Names, Kept, [Next]_vars
  PROVE  Kept'
<1> SUFFICES ASSUME ~buried'
             PROVE  Stored' /\ Served' /\ Ending' /\ Ready'
  BY DEF Kept
<1>1. Stored /\ Served /\ Ending /\ Ready
  BY BuriedForGood DEF Kept
<1>2. CASE UNCHANGED vars
  BY <1>1, <1>2 DEF vars, disk, Stored, Served, Ending, Ready, IsOpen, Dir
<1> QED
  BY <1>1, <1>2, OpeningKept, UpdatingKept, CompactingKept, CrashKept DEF Next

(* Until something is buried, every log that may survive ends with the     *)
(* first item that replay cannot read.                                     *)
NearlyWhole == ~buried => \A d \in ToSet(dirs) : d.db # None => Nearly(data[d.db])

LEMMA NearlyWholeInit ==
  ASSUME WalAssumption, Init
  PROVE  NearlyWhole
<1>1. PICK e : e = [db |-> IF Fresh THEN None ELSE CHOOSE i \in Inodes : TRUE, tmp |-> None]
  OBVIOUS
<1>2. e \in Entry /\ dirs = <<e>>
  BY <1>1 DEF Init, Entry, WalAssumption
<1>3. ToSet(dirs) = {e}
  BY <1>2, ListedOne
<1>4. ASSUME e.db # None PROVE Nearly(data[e.db])
  <2>1. PICK log \in Seq(Item) : log = <<>> /\ Len(log) = 0 /\ Prefix(log) = 0
    BY EmptyLog
  <2>2. data[e.db] = log
    BY <1>2, <1>4, <2>1 DEF Init, Entry
  <2> QED
    BY <2>1, <2>2 DEF Nearly
<1> QED
  BY <1>3, <1>4 DEF NearlyWhole

LEMMA NearlyWholeStep ==
  ASSUME WalAssumption, TypeInv, Names, Kept, Kept', NearlyWhole, [Next]_vars
  PROVE  NearlyWhole'
<1> USE Handle DEF TypeInv
<1> SUFFICES ASSUME ~buried' PROVE NearlyWhole'
  BY DEF NearlyWhole
<1>0. ~buried /\ \A d \in ToSet(dirs) : d.db \in Inodes \cup {None}
  BY BuriedForGood DEF Entry
<1>1. ASSUME NEW i, \A j \in Inodes \ {i} : data'[j] = data[j],
             \A d \in ToSet(dirs') : \/ d.db = i /\ Nearly(data'[i])
                                     \/ d.db # i /\ \E c \in ToSet(dirs) : c.db = d.db
      PROVE  NearlyWhole'
  <2> SUFFICES ASSUME NEW d \in ToSet(dirs'), d.db # None, d.db # i,
                      NEW c \in ToSet(dirs), c.db = d.db
               PROVE  Nearly(data'[d.db])
    BY <1>1 DEF NearlyWhole
  <2>1. d.db \in Inodes \ {i} /\ data'[d.db] = data[d.db]
    BY <1>0, <1>1
  <2>2. Nearly(data[d.db])
    BY <1>0 DEF NearlyWhole
  <2> QED
    BY <2>1, <2>2
<1>2. ASSUME data' = data, \A d \in ToSet(dirs') : \E c \in ToSet(dirs) : c.db = d.db
      PROVE  NearlyWhole'
  BY <1>0, <1>2 DEF NearlyWhole
<1>3. ASSUME NEW e \in Entry, e.db = Dir.db, dirs' = dirs \/ ChangeDir(e)
      PROVE  \A d \in ToSet(dirs') : \E c \in ToSet(dirs) : c.db = d.db
  BY <1>3, DirChanged
<1>4. CASE RemoveTmp
  <2>1. PICK e : e = [Dir EXCEPT !.tmp = None]
    OBVIOUS
  <2>2. e \in Entry /\ e.db = Dir.db
    BY <2>1 DEF Entry
  <2>3. data' = data /\ (dirs' = dirs \/ ChangeDir(e))
    BY <1>4, <2>1 DEF RemoveTmp
  <2> QED
    BY <1>2, <1>3, <2>2, <2>3
<1>5. CASE Open
  <2>1. OpenOrCreate
    BY <1>5 DEF Open
  <2>2. CASE Dir.db # None
    BY <1>2, <2>1, <2>2 DEF OpenOrCreate, disk
  <2>3. CASE Dir.db = None
    <3>1. PICK i \in Inodes : /\ data' = [data EXCEPT ![i] = <<>>]
                              /\ ChangeDir([Dir EXCEPT !.db = i])
                              /\ \A d \in ToSet(dirs) : d.db # i
      BY <2>1, <2>3 DEF OpenOrCreate, Unused
    <3>2. PICK e : e = [Dir EXCEPT !.db = i]
      OBVIOUS
    <3>3. e \in Entry /\ e.db = i
      BY <3>2 DEF Entry
    <3>4. ToSet(dirs') = ToSet(dirs) \cup {e}
      BY <3>1, <3>2, <3>3, DirChanged
    <3>5. PICK log \in Seq(Item) : log = <<>> /\ Len(log) = 0 /\ Prefix(log) = 0
      BY EmptyLog
    <3>6. data'[i] = log /\ Nearly(log) /\ \A j \in Inodes \ {i} : data'[j] = data[j]
      BY <3>1, <3>5 DEF Typed, Nearly
    <3> QED
      BY <1>1, <3>1, <3>3, <3>4, <3>6
  <2> QED
    BY <2>2, <2>3
<1>6. ASSUME NEW new, file \in Inodes, data' = [data EXCEPT ![file] = new], dirs' = dirs, Nearly(new)
      PROVE  NearlyWhole'
  <2>1. data'[file] = new /\ \A j \in Inodes \ {file} : data'[j] = data[j]
    BY <1>6 DEF Typed
  <2> QED
    BY <1>1, <1>6, <2>1
<1>7. ASSUME NEW item, item = Part("short"), AppendItem(item), file \in Inodes, dirs' = dirs,
             ~(Prefix(data[file]) < Len(data[file]))
      PROVE  NearlyWhole'
  <2>1. item \in Item /\ ~Readable(item)
    BY <1>7 DEF Part, Junk, Item, Readable, IsFrame
  <2>2. PICK log, new : log = data[file] /\ new = Append(log, item)
    OBVIOUS
  <2>3. log \in Seq(Item) /\ Prefix(log) = Len(log) /\ Len(log) \in Nat
    <3>1. log \in Seq(Item)
      BY <1>7, <2>2 DEF Typed
    <3>2. Len(log) \in Nat /\ Prefix(log) \in 0 .. Len(log)
      BY <3>1, LenProperties, PrefixFacts
    <3> QED
      BY <1>7, <2>2, <3>1, <3>2
  <2>4. Appended(new, log, item)
    BY <2>1, <2>2, <2>3, AppendedLog
  <2>5. Nearly(new)
    BY <2>1, <2>3, <2>4 DEF Appended, Nearly
  <2> QED
    BY <1>6, <1>7, <2>2, <2>5 DEF AppendItem
<1>8. ASSUME NEW item \in Item, pc \in {"checksum", "payload"}, ReplaceLast(item), dirs' = dirs
      PROVE  NearlyWhole'
  <2>1. PICK log, new : log = data[file] /\ new = Append(Front(log), item)
    OBVIOUS
  <2>2. /\ file \in Inodes /\ log \in Seq(Item) /\ log # <<>> /\ Prefix(log) = Len(log) - 1
        /\ data' = [data EXCEPT ![file] = new]
    BY <1>0, <1>8, <2>1 DEF Typed, Held, Kept, Ending, ReplaceLast
  <2>3. Replaced(new, log, item)
    BY <2>1, <2>2, ReplacedLog
  <2>4. Nearly(new)
    BY <2>2, <2>3 DEF Replaced, Nearly
  <2> QED
    BY <1>6, <1>8, <2>2, <2>4
<1>9. CASE Updating
  <2>1. ASSUME NEW k \in Keys, NEW v \in Value, Begin(k, v) PROVE NearlyWhole'
    BY <1>2, <2>1 DEF Begin, disk
  <2>2. CASE WriteLength \/ (WriteFails /\ data' # data)
    <3>1. /\ AppendItem(Part("short")) /\ file \in Inodes /\ dirs' = dirs
          /\ ~(Prefix(data[file]) < Len(data[file]))
      BY <2>2 DEF WriteLength, WriteFails, Buries
    <3>2. PICK item : item = Part("short")
      OBVIOUS
    <3> QED
      BY <1>7, <3>1, <3>2
  <2>3. CASE WriteChecksum
    <3>1. Part("torn") \in Item
      BY DEF Part, Junk, Item
    <3> QED
      BY <1>8, <2>3, <3>1 DEF WriteChecksum
  <2>4. CASE WritePayload
    <3>1. Update(op.key, op.value) \in Item
      BY <2>4 DEF WritePayload, Update, Frame, Item, Typed, Held, Writing
    <3> QED
      BY <1>8, <2>4, <3>1 DEF WritePayload
  <2>5. CASE Sync
    <3>1. data' = data /\ file \in Inodes /\ SyncFile(file)
      BY <2>5 DEF Sync
    <3>2. ToSet(dirs') \subseteq ToSet(dirs)
      BY <3>1, Synced
    <3> QED
      BY <1>2, <3>1, <3>2
  <2>6. CASE Acknowledge \/ SyncFails \/ (WriteFails /\ data' = data)
    BY <1>2, <2>6 DEF Acknowledge, SyncFails, WriteFails, disk
  <2> QED
    BY <1>9, <2>1, <2>2, <2>3, <2>4, <2>5, <2>6 DEF Updating
<1>10. CASE CreateTmp
  <2>1. PICK i \in Inodes : /\ i = Dir.tmp \/ i \in Unused
                            /\ data' = [data EXCEPT ![i] = <<>>]
                            /\ dirs' = dirs \/ ChangeDir([Dir EXCEPT !.tmp = i])
    BY <1>10 DEF CreateTmp, Unused
  <2>2. \A d \in ToSet(dirs) : d.db # i
    BY <2>1 DEF Names, Unused
  <2>3. PICK e : e = [Dir EXCEPT !.tmp = i]
    OBVIOUS
  <2>4. e \in Entry /\ e.db = Dir.db
    BY <2>3 DEF Entry
  <2>5. \A d \in ToSet(dirs') : \E c \in ToSet(dirs) : c.db = d.db
    BY <1>3, <2>1, <2>3, <2>4
  <2>6. \A j \in Inodes \ {i} : data'[j] = data[j]
    BY <2>1 DEF Typed
  <2> QED
    BY <1>1, <2>2, <2>5, <2>6
<1>11. CASE WriteTmp
  <2>1. /\ dirs' = dirs /\ Dir.tmp \in Inodes /\ \A d \in ToSet(dirs) : d.db # Dir.tmp
        /\ \A j \in Inodes \ {Dir.tmp} : data'[j] = data[j]
    BY <1>11 DEF WriteTmp, Held, Names, Typed
  <2> QED
    BY <1>1, <2>1
<1>12. CASE SyncTmp
  <2>1. data' = data /\ Dir.tmp \in Inodes /\ SyncFile(Dir.tmp)
    BY <1>12 DEF SyncTmp, Held
  <2>2. ToSet(dirs') \subseteq ToSet(dirs)
    BY <2>1, Synced
  <2> QED
    BY <1>2, <2>1, <2>2
<1>13. CASE Rename
  <2>1. data' = data /\ Dir.tmp \in Inodes /\ ChangeDir([db |-> Dir.tmp, tmp |-> None])
    BY <1>13 DEF Rename, Held
  <2>2. PICK e : e = [db |-> Dir.tmp, tmp |-> None]
    OBVIOUS
  <2>3. e \in Entry /\ e.db = Dir.tmp
    BY <2>2 DEF Entry
  <2>4. ToSet(dirs') = ToSet(dirs) \cup {e}
    BY <2>1, <2>2, <2>3, DirChanged
  <2>5. Nearly(data[Dir.tmp])
    <3>1. Prefix(data[Dir.tmp]) = Len(data[Dir.tmp]) /\ Len(data[Dir.tmp]) \in Nat
      BY <1>0, <1>13, <2>1, LenProperties DEF Rename, Kept, Ready, Replays, Typed
    <3> QED
      BY <3>1 DEF Nearly
  <2> QED
    BY <1>1, <2>1, <2>3, <2>4, <2>5
<1>14. CASE FsyncDir
  <2>1. data' = data /\ ToSet(dirs') = {Dir}
    BY <1>14, DirFlushed DEF FsyncDir
  <2> QED
    BY <1>2, <2>1
<1>15. CASE Retry \/ Reopen \/ CompactFails \/ Kill \/ UNCHANGED vars
  BY <1>2, <1>15 DEF Retry, Reopen, CompactFails, Kill, vars, disk
<1>16. CASE PowerLoss
  <2>1. PICK d \in ToSet(dirs), log \in Seq(Item) :
          Left(d, log) /\ (d.db # None => log \in Images(data[d.db], synced[d.db]))
    BY <1>16, LossLeaves
  <2>2. d \in Entry /\ ToSet(dirs') = {d}
    BY <2>1, DirFlushed DEF Left
  <2>3. ASSUME d.db # None PROVE Nearly(data'[d.db])
    <3>1. PICK old, n : old = data[d.db] /\ n = synced[d.db]
      OBVIOUS
    <3>2. old \in Seq(Item) /\ n \in Nat /\ n <= Len(old) /\ log \in Images(old, n) /\ Nearly(old)
      BY <1>0, <2>1, <2>2, <2>3, <3>1 DEF Typed, Entry, NearlyWhole
    <3>3. Nearly(log)
      BY <3>2, ImageOf
    <3> QED
      BY <2>1, <2>2, <2>3, <3>3 DEF Left, Entry
  <2> QED
    BY <2>2, <2>3 DEF NearlyWhole
<1> QED
  BY <1>4, <1>5, <1>9, <1>10, <1>11, <1>12, <1>13, <1>14, <1>15, <1>16
     DEF Next, Opening, Compacting

(* Replay of such a log fails where its last frame is cut in its payload.  *)
LEMMA NearlyReplayed ==
  ASSUME BigValues = {}, NEW log \in Seq(Item), Nearly(log)
  PROVE  ReplayFails(log) = {EndsTorn(log)}
<1>1. PICK l, p : /\ l = Len(log) /\ p = Prefix(log) /\ l \in Nat /\ p \in 0 .. l /\ l - 1 <= p
                  /\ \A i \in 1 .. p : Readable(log[i])
                  /\ p < l => ~Readable(log[p + 1])
  BY LenProperties, PrefixFacts DEF Nearly
<1>2. log # <<>> <=> l > 0
  BY <1>1, EmptySeq
<1>3. CASE p = l
  <2>1. ReplayFails(log) = {FALSE}
    <3>1. Prefix(log) + 1 > Len(log)
      BY <1>1, <1>3
    <3> QED
      BY <3>1, Zenon DEF ReplayFails
  <2>2. ~EndsTorn(log)
    <3>1. l > 0 => Readable(log[l])
      BY <1>1, <1>3
    <3> QED
      BY <1>1, <1>2, <3>1 DEF EndsTorn, Last, Readable, IsFrame, Part
  <2>3. EndsTorn(log) = FALSE
    BY <2>2 DEF EndsTorn
  <2> QED
    BY <2>1, <2>3
<1>4. CASE p + 1 = l
  <2>1. PICK item \in Item : item = log[l] /\ ~Readable(item)
    BY <1>1, <1>4, ElementOfSeq
  <2>2. item \in Junk
    BY <2>1 DEF Item, Frame, Readable, IsFrame
  <2>3. EndsTorn(log) <=> item.kind = "torn"
    <3>1. item = Part("torn") <=> item.kind = "torn"
      BY <2>2 DEF Junk, Part
    <3>2. EndsTorn(log) <=> item = Part("torn")
      BY <1>1, <1>2, <1>4, <2>1 DEF EndsTorn, Last
    <3> QED
      BY <3>1, <3>2
  <2>4. item.kind \in {"short", "torn", "bad"}
    BY <2>2 DEF Junk
  <2>5. ReplayFails(log) =
          IF item.kind \in {"frame", "bad"} THEN {FALSE} ELSE {item.kind = "torn"}
    <3>1. /\ ~(Prefix(log) + 1 > Len(log)) /\ ~(Prefix(log) + 1 < Len(log))
          /\ log[Prefix(log) + 1] = item
      BY <1>1, <1>4, <2>1
    <3>2. PICK n : n = Prefix(log) + 1
      OBVIOUS
    <3>3. ReplayFails(log) =
            IF n > Len(log) \/ log[n].kind \in {"frame", "bad"} THEN {FALSE}
            ELSE IF n < Len(log) THEN BOOLEAN ELSE {log[n].kind = "torn"}
      BY <3>2, Zenon DEF ReplayFails
    <3> QED
      BY <3>1, <3>2, <3>3
  <2>6. EndsTorn(log) \in BOOLEAN
    BY DEF EndsTorn
  <2>7. CASE item.kind = "torn"
    <3>1. EndsTorn(log) = TRUE /\ ReplayFails(log) = {TRUE}
      BY <2>3, <2>5, <2>6, <2>7
    <3> QED
      BY <3>1
  <2>8. CASE item.kind # "torn"
    <3>1. EndsTorn(log) = FALSE /\ ReplayFails(log) = {FALSE}
      BY <2>3, <2>4, <2>5, <2>6, <2>8
    <3> QED
      BY <3>1
  <2> QED
    BY <2>7, <2>8
<1> QED
  BY <1>1, <1>3, <1>4

LEMMA CrashSafeInv ==
  ASSUME WalAssumption, Durable, TypeInv, Kept, NearlyWhole
  PROVE  CrashSafe
<1> SUFFICES ASSUME ~buried, NEW d \in ToSet(dirs),
                    NEW log \in IF d.db = None THEN {<<>>} ELSE Images(data[d.db], synced[d.db])
             PROVE  /\ \A k \in Keys : Replay(log)[k] \in maybe[k]
                    /\ ReplayFails(log) = {EndsTorn(log)}
  BY DEF CrashSafe, AfterLoss
<1>1. CASE d.db = None
  <2>1. PICK empty \in Seq(Item) : empty = <<>> /\ Len(empty) = 0 /\ Prefix(empty) = 0
    BY EmptyLog
  <2>2. \A k \in Keys : ValueIn(empty, Prefix(empty), k) = None /\ None \in maybe[k]
    BY <1>1, <2>1, ValueInEmpty DEF Kept, Stored
  <2>3. ReplayFails(empty) = {EndsTorn(empty)}
    <3>1. Nearly(empty)
      BY <2>1 DEF Nearly
    <3> QED
      BY <3>1, NearlyReplayed DEF Durable
  <2> QED
    BY <1>1, <2>1, <2>2, <2>3 DEF Replay
<1>2. CASE d.db # None
  <2>1. d.db \in Inodes
    BY <1>2, Handle DEF Entry
  <2>2. PICK old, n : old = data[d.db] /\ n = synced[d.db]
    OBVIOUS
  <2>3. /\ old \in Seq(Item) /\ n \in Nat /\ n <= Len(old) /\ Safe(old, n, maybe)
        /\ log \in Images(old, n) /\ Nearly(old)
    BY <1>2, <2>1, <2>2 DEF TypeInv, Typed, Kept, Stored, NearlyWhole
  <2>4. log \in Seq(Item) /\ Nearly(log)
    BY <2>3, ImageOf
  <2> QED
    BY <2>3, <2>4, ImageSafe, NearlyReplayed DEF Durable
<1> QED
  BY <1>1, <1>2

(* Set and delete sync the log before they change the map, compact syncs   *)
(* the snapshot before the rename and the directory after it: whatever a   *)
(* loss of power leaves, and whichever of the directories, its readable    *)
(* frames have every acknowledged update, and open refuses it exactly when *)
(* its last frame is cut in its payload. Durable leaves out four ways to   *)
(* break this: a value longer than MAX_RECORD; a name of the store that is *)
(* not durable; a failing reopen; and a failing sync of the directory,     *)
(* which is every compaction of a store whose path has no directory part,  *)
(* as the shell's default has none.                                        *)
THEOREM CrashSafety ==
  ASSUME Durable
  PROVE  Spec => []CrashSafe
<1>1. Init => TypeInv /\ Names /\ Kept /\ NearlyWhole
  BY WalAssumption, TypeInvInit, NamesInit, KeptInit, NearlyWholeInit
<1>2. /\ TypeInv /\ Names /\ Kept /\ NearlyWhole /\ [Next]_vars
      => (TypeInv /\ Names /\ Kept /\ NearlyWhole)'
  BY WalAssumption, TypeInvStep, NamesStep, KeptStep, NearlyWholeStep
<1>3. TypeInv /\ Kept /\ NearlyWhole => CrashSafe
  BY WalAssumption, CrashSafeInv
<1> QED
  BY <1>1, <1>2, <1>3, PTL DEF Spec

(* Under the same conditions an open store serves every acknowledged       *)
(* update, or a later one of its key, after any sequence of crashes, until *)
(* something is written behind a tail that replay cannot read.             *)
THEOREM AcknowledgedUntilBuried ==
  ASSUME Durable
  PROVE  Spec => [](~buried => AcknowledgedSurvives)
<1>1. Init => TypeInv /\ Names /\ Kept
  BY WalAssumption, TypeInvInit, NamesInit, KeptInit
<1>2. TypeInv /\ Names /\ Kept /\ [Next]_vars => (TypeInv /\ Names /\ Kept)'
  BY WalAssumption, TypeInvStep, NamesStep, KeptStep
<1>3. Kept => (~buried => AcknowledgedSurvives)
  BY DEF Kept, Served, AcknowledgedSurvives
<1> QED
  BY <1>1, <1>2, <1>3, PTL DEF Spec

-----------------------------------------------------------------------------
(* The map and the log *)

(* A log on which only the last frame may be ahead of the map.             *)
Matches(log, n, map) == \A k \in Keys : ValueIn(log, n, k) = map[k]

Current ==
  ~buried /\ IsOpen =>
    IF pc \in {"sync", "apply"}
      THEN Matches(data[file], Len(data[file]) - 1, kv)
      ELSE Matches(data[Dir.db], Prefix(data[Dir.db]), kv)

LEMMA OpeningCurrent ==
  ASSUME WalAssumption, TypeInv, Opening
  PROVE  Current'
<1> USE Handle
<1>1. CASE RemoveTmp \/ Retry
  BY <1>1 DEF RemoveTmp, Retry, Current, IsOpen
<1>2. CASE Open
  <2>1. /\ pc = "opening" /\ OpenOrCreate
        /\ pc' = "failed" \/ (pc' = "idle" /\ kv' = Replay(data'[file']))
    BY <1>2 DEF Open
  <2>2. file' = Dir'.db
    <3>1. CASE Dir.db # None
      BY <2>1, <3>1 DEF OpenOrCreate, disk, Dir
    <3>2. CASE Dir.db = None
      <4>1. PICK i \in Inodes : file' = i /\ ChangeDir([Dir EXCEPT !.db = i])
        BY <2>1, <3>2 DEF OpenOrCreate, Unused
      <4>2. PICK e : e = [Dir EXCEPT !.db = i]
        OBVIOUS
      <4>3. e \in Entry /\ e.db = i
        BY <4>2 DEF Entry
      <4> QED
        BY <4>1, <4>2, <4>3, DirChanged DEF TypeInv
    <3> QED
      BY <3>1, <3>2
  <2> QED
    BY <2>1, <2>2 DEF Current, Matches, Replay, IsOpen
<1> QED
  BY <1>1, <1>2 DEF Opening

LEMMA UpdatingCurrent ==
  ASSUME WalAssumption, Durable, "sync" \notin Faults, TypeInv, Names, Kept, Current, Updating,
         ~buried, ~buried'
  PROVE  Current'
<1> USE Handle DEF TypeInv
<1>1. ASSUME pc \in {"idle", "length", "checksum", "payload"}
      PROVE  /\ file = Dir.db /\ file \in Inodes /\ data[file] \in Seq(Item)
             /\ Matches(data[file], Prefix(data[file]), kv)
  <2>1. file = Dir.db /\ file \in Inodes
    BY <1>1 DEF Names
  <2> QED
    BY <1>1, <2>1 DEF Current, IsOpen, Typed
<1>2. ASSUME AppendItem(Part("short")), pc \in {"length", "checksum", "payload"}
      PROVE  Matches(data'[file], Prefix(data'[file]), kv)
  <2>1. PICK item : item = Part("short")
    OBVIOUS
  <2>2. item \in Item /\ ~Readable(item)
    BY <2>1 DEF Part, Junk, Item, Readable, IsFrame
  <2>3. PICK log, new : log = data[file] /\ new = Append(log, item)
    OBVIOUS
  <2>4. log \in Seq(Item) /\ Matches(log, Prefix(log), kv) /\ data'[file] = new
    BY <1>1, <1>2, <2>1, <2>3 DEF AppendItem, Typed
  <2>5. Appended(new, log, item)
    BY <2>2, <2>3, <2>4, AppendedLog
  <2>6. /\ Prefix(new) = Prefix(log) /\ Prefix(log) \in 0 .. Len(log)
        /\ \A m \in 0 .. Len(log) : \A k : ValueIn(new, m, k) = ValueIn(log, m, k)
    BY <2>2, <2>4, <2>5, PrefixFacts DEF Appended
  <2> QED
    BY <2>4, <2>6 DEF Matches
<1>3. ASSUME NEW item \in Item, ReplaceLast(item), pc \in {"checksum", "payload"}
      PROVE  /\ Matches(data'[file], Len(data'[file]) - 1, kv)
             /\ ~Readable(item) => Prefix(data'[file]) = Len(data'[file]) - 1
  <2>1. PICK log, new : log = data[file] /\ new = Append(Front(log), item)
    OBVIOUS
  <2>2. /\ log \in Seq(Item) /\ log # <<>> /\ Matches(log, Prefix(log), kv)
        /\ Prefix(log) = Len(log) - 1 /\ data'[file] = new
    BY <1>1, <1>3, <2>1 DEF ReplaceLast, Typed, Held, Kept, Ending
  <2>3. Replaced(new, log, item)
    BY <2>1, <2>2, ReplacedLog
  <2>4. PICK q : q = Len(log) - 1 /\ q \in Nat /\ Len(log) = q + 1
    <3>1. Len(log) \in Nat \ {0}
      BY <2>3 DEF Replaced
    <3> QED
      BY <3>1
  <2>5. /\ Len(new) - 1 = q /\ (~Readable(item) => Prefix(new) = q)
        /\ \A k : ValueIn(new, q, k) = ValueIn(log, q, k)
    BY <2>2, <2>3, <2>4 DEF Replaced
  <2> QED
    BY <2>2, <2>4, <2>5 DEF Matches
<1>4. ASSUME NEW k \in Keys, NEW v \in Value, Begin(k, v)
      PROVE  Current'
  BY <1>4 DEF Begin, Current, IsOpen, disk, Dir
<1>5. CASE WriteLength
  <2>1. /\ pc = "length" /\ pc' = "checksum" /\ UNCHANGED <<dirs, file, kv>>
        /\ AppendItem(Part("short"))
    BY <1>5 DEF WriteLength
  <2>2. Matches(data'[file], Prefix(data'[file]), kv) /\ Dir'.db = file
    BY <1>1, <1>2, <2>1 DEF Dir
  <2> QED
    BY <2>1, <2>2 DEF Current
<1>6. CASE WriteChecksum
  <2>1. /\ pc = "checksum" /\ pc' = "payload" /\ UNCHANGED <<dirs, file, kv>>
        /\ ReplaceLast(Part("torn"))
    BY <1>6 DEF WriteChecksum
  <2>2. PICK item : item = Part("torn")
    OBVIOUS
  <2>3. item \in Item /\ ~Readable(item)
    BY <2>2 DEF Part, Junk, Item, Readable, IsFrame
  <2>4. Matches(data'[file], Prefix(data'[file]), kv) /\ Dir'.db = file
    BY <1>1, <1>3, <2>1, <2>2, <2>3 DEF Dir
  <2> QED
    BY <2>1, <2>4 DEF Current
<1>7. CASE WritePayload
  <2>1. pc = "payload" /\ pc' = "sync" /\ UNCHANGED <<dirs, file, kv>>
    BY <1>7 DEF WritePayload
  <2>2. PICK item : item = Update(op.key, op.value)
    OBVIOUS
  <2>3. item \in Item /\ ReplaceLast(item)
    BY <1>7, <2>1, <2>2 DEF WritePayload, Update, Frame, Item, Typed, Held, Writing
  <2>4. Matches(data'[file], Len(data'[file]) - 1, kv)
    BY <1>3, <2>1, <2>3
  <2> QED
    BY <2>1, <2>4 DEF Current
<1>8. CASE Sync
  BY <1>8 DEF Sync, Current, IsOpen
<1>9. CASE Acknowledge
  <2>1. /\ pc = "apply" /\ pc' = "idle" /\ UNCHANGED <<data, dirs, file>>
        /\ kv' = [kv EXCEPT ![op.key] = op.value] /\ op.key \in Keys
        /\ file \in Inodes /\ file = Dir.db
    BY <1>9 DEF Acknowledge, disk, Held, Writing, Names
  <2>2. PICK log \in Seq(Item) : log = data[file]
    BY <2>1 DEF Typed
  <2>3. PICK q : q = Len(log) - 1 /\ q \in Nat /\ Len(log) = q + 1
    <3>1. Len(log) \in Nat \ {0}
      BY <2>1, <2>2, EmptySeq DEF Kept, Ending
    <3> QED
      BY <3>1
  <2>4. /\ Prefix(log) = q + 1 /\ log[q + 1].key = op.key /\ log[q + 1].value = op.value
        /\ Matches(log, q, kv)
    BY <2>1, <2>2, <2>3 DEF Kept, Ending, Update, Current, IsOpen
  <2>5. Matches(log, q + 1, kv')
    <3>1. \A k \in Keys : kv'[k] = IF op.key = k THEN op.value ELSE kv[k]
      BY <2>1 DEF Typed
    <3>2. ASSUME NEW k \in Keys
          PROVE  ValueIn(log, q + 1, k) = IF op.key = k THEN op.value ELSE ValueIn(log, q, k)
      <4>1. ValueIn(log, q + 1, k) = IF log[q + 1].key = k THEN log[q + 1].value
                                                           ELSE ValueIn(log, q, k)
        BY <2>3, ValueInNext
      <4> QED
        BY <2>4, <4>1
    <3> QED
      BY <2>4, <3>1, <3>2 DEF Matches
  <2>6. Dir' = Dir
    BY <2>1 DEF Dir
  <2> QED
    BY <2>1, <2>2, <2>4, <2>5, <2>6 DEF Current
<1>10. CASE WriteFails
  <2>1. /\ pc \in {"length", "checksum", "payload"} /\ pc' = "idle" /\ UNCHANGED <<dirs, file, kv>>
        /\ AppendItem(Part("short")) \/ data' = data
    BY <1>10 DEF WriteFails
  <2>2. Matches(data'[file], Prefix(data'[file]), kv) /\ Dir'.db = file
    BY <1>1, <1>2, <2>1 DEF Dir
  <2> QED
    BY <2>1, <2>2 DEF Current
<1>11. CASE SyncFails
  BY <1>11 DEF SyncFails
<1> QED
  BY <1>1, <1>4, <1>5, <1>6, <1>7, <1>8, <1>9, <1>10, <1>11 DEF Updating

LEMMA CompactingCurrent ==
  ASSUME WalAssumption, TypeInv, Names, Kept, Current, Compacting, ~buried
  PROVE  Current'
<1> USE Handle DEF TypeInv
<1>1. CASE CreateTmp
  <2>1. pc = "idle" /\ pc' = "snapshot" /\ kv' = kv
    BY <1>1 DEF CreateTmp
  <2>2. PICK i \in Inodes : /\ i = Dir.tmp \/ i \in Unused
                            /\ data' = [data EXCEPT ![i] = <<>>]
                            /\ dirs' = dirs \/ ChangeDir([Dir EXCEPT !.tmp = i])
    BY <1>1 DEF CreateTmp, Unused
  <2>3. \A d \in ToSet(dirs) : d.db # i
    BY <2>2 DEF Names, Unused
  <2>4. Dir'.db = Dir.db
    <3>1. PICK e : e = [Dir EXCEPT !.tmp = i]
      OBVIOUS
    <3>2. e \in Entry /\ e.db = Dir.db
      BY <3>1 DEF Entry
    <3>3. CASE dirs' = dirs
      BY <3>3 DEF Dir
    <3>4. CASE ChangeDir(e)
      BY <3>2, <3>4, DirChanged
    <3> QED
      BY <2>2, <3>1, <3>3, <3>4
  <2>5. data'[Dir.db] = data[Dir.db]
    BY <2>1, <2>2, <2>3 DEF Typed, Names
  <2> QED
    BY <2>1, <2>4, <2>5 DEF Current, IsOpen
<1>2. CASE WriteTmp
  <2>1. /\ pc = "snapshot" /\ pc' = "sync_tmp" /\ UNCHANGED <<dirs, kv>>
        /\ Dir.tmp \in Inodes /\ data' = [data EXCEPT ![Dir.tmp] = Snapshot]
    BY <1>2 DEF WriteTmp, Held
  <2>2. Dir.db # Dir.tmp /\ Dir.db \in Inodes /\ Dir' = Dir
    BY <2>1 DEF Names, Dir
  <2>3. data'[Dir.db] = data[Dir.db]
    BY <2>1, <2>2 DEF Typed
  <2> QED
    BY <2>1, <2>2, <2>3 DEF Current, IsOpen
<1>3. CASE SyncTmp
  <2>1. /\ pc = "sync_tmp" /\ pc' = "rename" /\ SyncFile(Dir.tmp) /\ Dir.tmp \in Inodes
        /\ UNCHANGED <<data, kv>>
    BY <1>3 DEF SyncTmp, Held
  <2>2. Dir' = Dir
    BY <2>1, Synced
  <2> QED
    BY <2>1, <2>2 DEF Current, IsOpen
<1>4. CASE Rename
  <2>1. /\ pc = "rename" /\ pc' = "fsync_dir" /\ UNCHANGED <<data, kv>> /\ Dir.tmp \in Inodes
        /\ ChangeDir([db |-> Dir.tmp, tmp |-> None])
    BY <1>4 DEF Rename, Held
  <2>2. PICK e : e = [db |-> Dir.tmp, tmp |-> None]
    OBVIOUS
  <2>3. e \in Entry /\ e.db = Dir.tmp
    BY <2>2 DEF Entry
  <2>4. Dir'.db = Dir.tmp
    BY <2>1, <2>2, <2>3, DirChanged
  <2>5. Matches(data[Dir.tmp], Prefix(data[Dir.tmp]), kv)
    BY <2>1 DEF Kept, Ready, Replays, Matches
  <2> QED
    BY <2>1, <2>4, <2>5 DEF Current
<1>5. CASE FsyncDir
  <2>1. /\ pc = "fsync_dir" /\ pc' = "reopen" /\ UNCHANGED <<data, kv>> /\ Dir' = Dir
    BY <1>5, DirFlushed DEF FsyncDir
  <2> QED
    BY <2>1 DEF Current, IsOpen
<1>6. CASE Reopen
  BY <1>6 DEF Reopen, Current, IsOpen, disk, Dir
<1>7. CASE CompactFails
  <2>1. pc \in {"snapshot", "sync_tmp", "rename", "fsync_dir", "reopen"}
    BY <1>7 DEF CompactFails, FailsIn, WalAssumption
  <2> QED
    BY <1>7, <2>1 DEF CompactFails, Current, IsOpen, disk, Dir
<1> QED
  BY <1>1, <1>2, <1>3, <1>4, <1>5, <1>6, <1>7 DEF Compacting

LEMMA CurrentStep ==
  ASSUME WalAssumption, Durable, "sync" \notin Faults, TypeInv, Names, Kept, Current, [Next]_vars
  PROVE  Current'
<1> SUFFICES ASSUME ~buried' PROVE Current'
  BY DEF Current
<1>1. ~buried
  BY BuriedForGood
<1>2. CASE Kill \/ PowerLoss
  BY <1>2 DEF Kill, PowerLoss, Die, Current, IsOpen
<1>3. CASE UNCHANGED vars
  BY <1>3 DEF vars, disk, Current, IsOpen, Dir
<1> QED
  BY <1>1, <1>2, <1>3, OpeningCurrent, UpdatingCurrent, CompactingCurrent DEF Next

(* Between two calls the map is the replay of the file that has the        *)
(* store's name and is the handle's: set and delete change the map only    *)
(* after the log, and compact follows the rename with its handle. A failed *)
(* sync_all leaves the two apart, and so does each thing that Durable      *)
(* leaves out.                                                             *)
THEOREM MemoryIsLog ==
  ASSUME Durable, "sync" \notin Faults
  PROVE  Spec => []MemoryMatchesLog
<1>1. Init => TypeInv /\ Names /\ Kept /\ Current
  <2>1. Init => Current
    BY DEF Init, Current, IsOpen
  <2> QED
    BY <2>1, WalAssumption, TypeInvInit, NamesInit, KeptInit
<1>2. /\ TypeInv /\ Names /\ Kept /\ Current /\ [Next]_vars
      => (TypeInv /\ Names /\ Kept /\ Current)'
  BY WalAssumption, TypeInvStep, NamesStep, KeptStep, CurrentStep
<1>3. TypeInv /\ Names /\ Current => MemoryMatchesLog
  <2> SUFFICES ASSUME TypeInv, Names, Current, pc = "idle", ~buried
               PROVE  file = Dir.db /\ kv = Replay(data[file])
    BY DEF MemoryMatchesLog
  <2>1. file = Dir.db
    BY DEF Names
  <2>2. \A k \in Keys : kv[k] = ValueIn(data[file], Prefix(data[file]), k)
    BY <2>1 DEF Current, IsOpen, Matches
  <2>3. kv \in [Keys -> Value]
    BY DEF TypeInv, Typed
  <2> QED
    BY <2>1, <2>2, <2>3 DEF Replay
<1> QED
  BY <1>1, <1>2, <1>3, PTL DEF Spec

-----------------------------------------------------------------------------
(* Without torn frames the store is the abstract one *)

(* A log ends with its last frame, except where an update is being written *)
(* and what it has written so far is not on disk.                          *)
Clean ==
  /\ ~buried
  /\ \A d \in ToSet(dirs) : d.db # None =>
       IF pc \in {"checksum", "payload"} /\ d.db = file
         THEN synced[file] < Len(data[file])
         ELSE Prefix(data[d.db]) = Len(data[d.db])
  /\ pc \notin Writing => op = Idle
  /\ pc # "failed"

Tearless == Durable /\ MayTear = FALSE /\ "write" \notin Faults

LEMMA WholeImage ==
  ASSUME BigValues = {}, MayTear = FALSE, NEW log \in Seq(Item), NEW n \in Nat, n <= Len(log),
         NEW image \in Images(log, n),
         Prefix(log) = Len(log) \/ (Prefix(log) = Len(log) - 1 /\ n < Len(log))
  PROVE  Prefix(image) = Len(image)
<1>1. PICK m \in n .. Len(log) : image = SubSeq(log, 1, m) /\ Whole(SubSeq(log, n + 1, m))
  BY DEF Images
<1>2. Len(log) \in Nat /\ m \in 0 .. Len(log)
  BY LenProperties
<1>3. Cut(image, log, m)
  BY <1>1, <1>2, CutLog, Zenon
<1>4. Len(image) = m /\ Prefix(image) = IF m <= Prefix(log) THEN m ELSE Prefix(log)
  BY <1>3 DEF Cut
<1>5. CASE m <= Prefix(log)
  BY <1>4, <1>5
<1>6. CASE ~(m <= Prefix(log))
  <2>1. m = Len(log) /\ n < Len(log) /\ Prefix(log) = Len(log) - 1
    BY <1>2, <1>6
  <2>2. PICK l : l = Len(log) /\ l \in Nat /\ 1 <= l - n /\ l - n = m - (n + 1) + 1
    BY <1>2, <2>1
  <2>3. \A i \in n + 1 .. m : log[i] \in Item
    <3>1. \A i \in n + 1 .. m : i \in 1 .. Len(log)
      BY <1>2
    <3> QED
      BY <3>1, ElementOfSeq
  <2>4. PICK rest : rest = SubSeq(log, n + 1, m)
    OBVIOUS
  <2>5. Len(rest) = l - n /\ rest[l - n] = log[l]
    BY <2>1, <2>2, <2>3, <2>4, SubSeqProperties
  <2>6. IsFrame(log[l])
    <3>1. l - n \in 1 .. Len(rest)
      BY <2>2, <2>5
    <3> QED
      BY <1>1, <2>4, <2>5, <3>1 DEF Whole
  <2>7. ~Readable(log[l])
    BY <2>1, <2>2, PrefixFacts
  <2> QED
    BY <2>6, <2>7 DEF Readable
<1> QED
  BY <1>5, <1>6

LEMMA CleanInit ==
  ASSUME WalAssumption, Init
  PROVE  Clean
<1>1. PICK e : e = [db |-> IF Fresh THEN None ELSE CHOOSE i \in Inodes : TRUE, tmp |-> None]
  OBVIOUS
<1>2. e \in Entry /\ dirs = <<e>> /\ pc = "down" /\ op = Idle /\ ~buried
  BY <1>1 DEF Init, Entry, WalAssumption
<1>3. ToSet(dirs) = {e}
  BY <1>2, ListedOne
<1>4. ASSUME e.db # None PROVE Prefix(data[e.db]) = Len(data[e.db])
  <2>1. PICK log \in Seq(Item) : log = <<>> /\ Len(log) = 0 /\ Prefix(log) = 0
    BY EmptyLog
  <2>2. data[e.db] = log
    BY <1>2, <1>4, <2>1 DEF Init, Entry
  <2> QED
    BY <2>1, <2>2
<1> QED
  BY <1>2, <1>3, <1>4 DEF Clean

LEMMA CleanStep ==
  ASSUME WalAssumption, Tearless, TypeInv, Names, Kept, Kept', Clean, [Next]_vars
  PROVE  Clean'
<1> USE Handle DEF TypeInv
<1>0. \A d \in ToSet(dirs) : d.db \in Inodes \cup {None}
  BY DEF Entry
<1>1. ASSUME NEW i, pc \notin {"checksum", "payload"}, pc' \notin {"checksum", "payload"},
             \A j \in Inodes \ {i} : data'[j] = data[j],
             \A d \in ToSet(dirs') : \/ d.db = i /\ Prefix(data'[i]) = Len(data'[i])
                                     \/ d.db # i /\ \E c \in ToSet(dirs) : c.db = d.db
      PROVE  \A d \in ToSet(dirs') : d.db # None =>
               IF pc' \in {"checksum", "payload"} /\ d.db = file'
                 THEN synced'[file'] < Len(data'[file']) ELSE Prefix(data'[d.db]) = Len(data'[d.db])
  <2> SUFFICES ASSUME NEW d \in ToSet(dirs'), d.db # None, d.db # i,
                      NEW c \in ToSet(dirs), c.db = d.db
               PROVE  Prefix(data'[d.db]) = Len(data'[d.db])
    BY <1>1
  <2>1. d.db \in Inodes \ {i} /\ data'[d.db] = data[d.db]
    BY <1>0, <1>1
  <2>2. Prefix(data[d.db]) = Len(data[d.db])
    BY <1>1 DEF Clean
  <2> QED
    BY <2>1, <2>2
<1>2. CASE RemoveTmp
  <2>1. /\ pc = "down" /\ pc' = "opening" /\ UNCHANGED <<data, op, buried>>
        /\ dirs' = dirs \/ ChangeDir([Dir EXCEPT !.tmp = None])
    BY <1>2 DEF RemoveTmp
  <2>2. \A d \in ToSet(dirs') : \E c \in ToSet(dirs) : c.db = d.db
    <3>1. PICK e : e = [Dir EXCEPT !.tmp = None]
      OBVIOUS
    <3>2. e \in Entry /\ e.db = Dir.db
      BY <3>1 DEF Entry
    <3>3. CASE dirs' = dirs
      BY <3>3
    <3>4. CASE ChangeDir(e)
      BY <3>2, <3>4, DirChanged
    <3> QED
      BY <2>1, <3>1, <3>3, <3>4
  <2> QED
    BY <2>1, <2>2 DEF Clean, Writing
<1>3. CASE Open
  <2>1. /\ pc = "opening" /\ OpenOrCreate /\ UNCHANGED <<op, buried>>
        /\ \E fails \in ReplayFails(data'[file']) : pc' = IF fails THEN "failed" ELSE "idle"
    BY <1>3 DEF Open
  <2>0. ASSUME NEW log \in Seq(Item), data'[file'] = log, Prefix(log) = Len(log) PROVE pc' = "idle"
    <3>1. Prefix(log) + 1 > Len(log)
      BY <2>0, LenProperties
    <3>2. ReplayFails(log) = {FALSE}
      BY <3>1, Zenon DEF ReplayFails
    <3> QED
      BY <2>0, <2>1, <3>2
  <2>2. CASE Dir.db # None
    <3>1. file' = Dir.db /\ UNCHANGED <<data, synced, dirs>>
      BY <2>1, <2>2 DEF OpenOrCreate, disk
    <3>2. pc' = "idle"
      <4>1. PICK log : log = data[Dir.db] /\ log \in Seq(Item) /\ Prefix(log) = Len(log)
        BY <2>1, <2>2 DEF Clean, Typed
      <4> QED
        BY <2>0, <3>1, <4>1
    <3> QED
      BY <2>1, <3>1, <3>2 DEF Clean, Writing
  <2>3. CASE Dir.db = None
    <3>1. PICK i \in Inodes : /\ data' = [data EXCEPT ![i] = <<>>] /\ file' = i
                              /\ ChangeDir([Dir EXCEPT !.db = i])
                              /\ \A d \in ToSet(dirs) : d.db # i
      BY <2>1, <2>3 DEF OpenOrCreate, Unused
    <3>2. PICK e : e = [Dir EXCEPT !.db = i]
      OBVIOUS
    <3>3. e \in Entry /\ e.db = i
      BY <3>2 DEF Entry
    <3>4. ToSet(dirs') = ToSet(dirs) \cup {e}
      BY <3>1, <3>2, <3>3, DirChanged
    <3>5. PICK log \in Seq(Item) : log = <<>> /\ Len(log) = 0 /\ Prefix(log) = 0
      BY EmptyLog
    <3>6. data'[i] = log /\ \A j \in Inodes \ {i} : data'[j] = data[j]
      BY <3>1, <3>5 DEF Typed
    <3>7. pc' = "idle"
      BY <2>0, <3>1, <3>5, <3>6
    <3> QED
      BY <1>1, <2>1, <3>1, <3>3, <3>4, <3>5, <3>6, <3>7 DEF Clean, Writing
  <2> QED
    BY <2>2, <2>3
<1>4. CASE Retry
  BY <1>4 DEF Retry, Clean, Writing, disk
<1>5. ASSUME NEW k \in Keys, NEW v \in Value, Begin(k, v)
      PROVE  Clean'
  BY <1>5 DEF Begin, Clean, Writing, disk
<1>6. CASE WriteLength
  <2>1. /\ pc = "length" /\ pc' = "checksum" /\ UNCHANGED <<synced, dirs, file>>
        /\ file \in Inodes /\ file = Dir.db /\ AppendItem(Part("short"))
        /\ buried' = (buried \/ Prefix(data[file]) < Len(data[file]))
    BY <1>6 DEF WriteLength, Buries, Names
  <2>2. PICK log, item, new : log = data[file] /\ item = Part("short") /\ new = Append(log, item)
    OBVIOUS
  <2>3. /\ log \in Seq(Item) /\ item \in Item /\ data' = [data EXCEPT ![file] = new]
        /\ Prefix(log) = Len(log) /\ Len(log) \in Nat
    BY <2>1, <2>2, LenProperties DEF Typed, Clean, AppendItem, Part, Junk, Item
  <2>4. Appended(new, log, item)
    BY <2>2, <2>3, AppendedLog
  <2>5. Len(new) = Len(log) + 1 /\ synced[file] <= Len(log) /\ synced[file] \in Nat
    BY <2>1, <2>2, <2>4 DEF Appended, Typed
  <2>6. data'[file] = new /\ synced[file] < Len(new) /\ ~buried'
    BY <2>1, <2>2, <2>3, <2>5 DEF Typed, Clean
  <2>7. \A d \in ToSet(dirs) : d.db # None /\ d.db # file => data'[d.db] = data[d.db]
    BY <1>0, <2>3 DEF Typed
  <2> QED
    BY <2>1, <2>6, <2>7 DEF Clean, Writing
<1>7. ASSUME NEW item \in Item, pc \in {"checksum", "payload"}, ReplaceLast(item)
      PROVE  /\ Len(data'[file]) = Len(data[file])
             /\ \A d \in ToSet(dirs) : d.db # None /\ d.db # file => data'[d.db] = data[d.db]
  <2>1. PICK log, new : log = data[file] /\ new = Append(Front(log), item)
    OBVIOUS
  <2>2. log \in Seq(Item) /\ log # <<>> /\ data' = [data EXCEPT ![file] = new] /\ data'[file] = new
    BY <1>7, <2>1 DEF Typed, Held, ReplaceLast
  <2>3. Replaced(new, log, item)
    BY <2>1, <2>2, ReplacedLog
  <2> QED
    BY <1>0, <2>1, <2>2, <2>3 DEF Replaced, Typed
<1>8. CASE WriteChecksum
  <2>1. /\ pc = "checksum" /\ pc' = "payload" /\ UNCHANGED <<synced, dirs, file, buried>>
        /\ ReplaceLast(Part("torn")) /\ Part("torn") \in Item /\ file = Dir.db /\ file # None
    BY <1>8 DEF WriteChecksum, Part, Junk, Item, Names
  <2>2. /\ Len(data'[file]) = Len(data[file])
        /\ \A d \in ToSet(dirs) : d.db # None /\ d.db # file => data'[d.db] = data[d.db]
    BY <1>7, <2>1
  <2> QED
    BY <2>1, <2>2 DEF Clean, Writing
<1>9. CASE WritePayload
  <2>1. /\ pc = "payload" /\ pc' = "sync" /\ UNCHANGED <<synced, dirs, file, buried>>
        /\ ReplaceLast(Update(op.key, op.value)) /\ Update(op.key, op.value) \in Item
    BY <1>9 DEF WritePayload, Update, Frame, Item, Typed, Held, Writing
  <2>2. \A d \in ToSet(dirs) : d.db # None /\ d.db # file => data'[d.db] = data[d.db]
    BY <1>7, <2>1
  <2>3. Prefix(data'[file]) = Len(data'[file])
    BY <2>1 DEF Clean, Kept, Ending
  <2> QED
    BY <2>1, <2>2, <2>3 DEF Clean, Writing
<1>10. CASE Sync
  <2>1. /\ pc = "sync" /\ pc' = "apply" /\ UNCHANGED <<data, buried>> /\ file \in Inodes
        /\ SyncFile(file)
    BY <1>10 DEF Sync
  <2>2. ToSet(dirs') \subseteq ToSet(dirs)
    BY <2>1, Synced
  <2> QED
    BY <2>1, <2>2 DEF Clean, Writing
<1>11. CASE Acknowledge \/ SyncFails
  BY <1>11 DEF Acknowledge, SyncFails, Clean, Writing, disk
<1>12. CASE CreateTmp
  <2>1. pc = "idle" /\ pc' = "snapshot" /\ UNCHANGED <<op, buried>>
    BY <1>12 DEF CreateTmp
  <2>2. PICK i \in Inodes : /\ i = Dir.tmp \/ i \in Unused
                            /\ data' = [data EXCEPT ![i] = <<>>]
                            /\ dirs' = dirs \/ ChangeDir([Dir EXCEPT !.tmp = i])
    BY <1>12 DEF CreateTmp, Unused
  <2>3. \A d \in ToSet(dirs) : d.db # i
    BY <2>2 DEF Names, Unused
  <2>4. \A d \in ToSet(dirs') : d.db # i /\ \E c \in ToSet(dirs) : c.db = d.db
    <3>1. PICK e : e = [Dir EXCEPT !.tmp = i]
      OBVIOUS
    <3>2. e \in Entry /\ e.db = Dir.db
      BY <3>1 DEF Entry
    <3>3. CASE dirs' = dirs
      BY <2>3, <3>3
    <3>4. CASE ChangeDir(e)
      BY <2>3, <3>2, <3>4, DirChanged
    <3> QED
      BY <2>2, <3>1, <3>3, <3>4
  <2>5. \A j \in Inodes \ {i} : data'[j] = data[j]
    BY <2>2 DEF Typed
  <2> QED
    BY <1>1, <2>1, <2>4, <2>5 DEF Clean, Writing
<1>13. CASE WriteTmp
  <2>1. /\ pc = "snapshot" /\ pc' = "sync_tmp" /\ UNCHANGED <<dirs, op, buried>>
        /\ Dir.tmp \in Inodes /\ data' = [data EXCEPT ![Dir.tmp] = Snapshot]
    BY <1>13 DEF WriteTmp, Held
  <2>2. /\ \A d \in ToSet(dirs) : d.db # Dir.tmp
        /\ \A j \in Inodes \ {Dir.tmp} : data'[j] = data[j]
    BY <2>1 DEF Names, Typed
  <2> QED
    BY <1>1, <2>1, <2>2 DEF Clean, Writing
<1>14. CASE SyncTmp
  <2>1. /\ pc = "sync_tmp" /\ pc' = "rename" /\ SyncFile(Dir.tmp) /\ Dir.tmp \in Inodes
        /\ UNCHANGED <<data, op, buried>>
    BY <1>14 DEF SyncTmp, Held
  <2>2. ToSet(dirs') \subseteq ToSet(dirs)
    BY <2>1, Synced
  <2> QED
    BY <2>1, <2>2 DEF Clean, Writing
<1>15. CASE Rename
  <2>1. /\ pc = "rename" /\ pc' = "fsync_dir" /\ UNCHANGED <<data, op, buried>>
        /\ Dir.tmp \in Inodes /\ ChangeDir([db |-> Dir.tmp, tmp |-> None])
    BY <1>15 DEF Rename, Held
  <2>2. PICK e : e = [db |-> Dir.tmp, tmp |-> None]
    OBVIOUS
  <2>3. e \in Entry /\ e.db = Dir.tmp
    BY <2>2 DEF Entry
  <2>4. ToSet(dirs') = ToSet(dirs) \cup {e}
    BY <2>1, <2>2, <2>3, DirChanged
  <2>5. Prefix(data[Dir.tmp]) = Len(data[Dir.tmp])
    BY <2>1 DEF Clean, Kept, Ready, Replays
  <2> QED
    BY <2>1, <2>3, <2>4, <2>5 DEF Clean, Writing
<1>16. CASE FsyncDir
  <2>1. ToSet(dirs') = {Dir}
    BY <1>16, DirFlushed DEF FsyncDir
  <2> QED
    BY <1>16, <2>1 DEF FsyncDir, Clean, Writing
<1>17. CASE Reopen
  BY <1>17 DEF Reopen, Clean, Writing, disk
<1>18. CASE CompactFails
  <2>1. pc \in {"snapshot", "sync_tmp", "rename", "fsync_dir", "reopen"}
    BY <1>18 DEF CompactFails, FailsIn, WalAssumption
  <2> QED
    BY <1>18, <2>1 DEF CompactFails, Clean, Writing, disk
<1>19. CASE Kill
  <2>1. /\ pc \notin {"checksum", "payload"} /\ pc' = "down" /\ op' = Idle
        /\ UNCHANGED <<data, dirs, buried>>
    BY <1>19 DEF Kill, Die, disk, Tearless
  <2> QED
    BY <2>1 DEF Clean
<1>20. CASE PowerLoss
  <2>1. PICK d \in ToSet(dirs), log \in Seq(Item) :
          Left(d, log) /\ (d.db # None => log \in Images(data[d.db], synced[d.db]))
    BY <1>20, LossLeaves
  <2>2. d \in Entry /\ ToSet(dirs') = {d} /\ pc' = "down" /\ op' = Idle /\ buried' = buried
    BY <1>20, <2>1, DirFlushed DEF Left, PowerLoss, Die
  <2>3. ASSUME d.db # None PROVE Prefix(log) = Len(log)
    <3>1. PICK old, n : old = data[d.db] /\ n = synced[d.db]
      OBVIOUS
    <3>2. /\ old \in Seq(Item) /\ n \in Nat /\ n <= Len(old) /\ log \in Images(old, n)
      BY <2>1, <2>2, <2>3, <3>1 DEF Typed, Entry
    <3>3. Prefix(old) = Len(old) \/ (Prefix(old) = Len(old) - 1 /\ n < Len(old))
      BY <2>3, <3>1 DEF Clean, Kept, Ending
    <3> QED
      BY <3>2, <3>3, WholeImage DEF Tearless, Durable
  <2>4. d.db # None => data'[d.db] = log
    BY <2>1, <2>2 DEF Left, Entry
  <2> QED
    BY <2>2, <2>3, <2>4 DEF Clean
<1>21. CASE UNCHANGED vars
  BY <1>21 DEF vars, disk, Clean
<1>22. ~WriteFails
  BY DEF WriteFails, Tearless
<1> QED
  BY <1>2, <1>3, <1>4, <1>5, <1>6, <1>8, <1>9, <1>10, <1>11, <1>12, <1>13, <1>14, <1>15, <1>16,
     <1>17, <1>18, <1>19, <1>20, <1>21, <1>22 DEF Next, Opening, Updating, Compacting

LEMMA StepImplements ==
  ASSUME WalAssumption, Tearless, TypeInv, Kept, Kept', TypeInv', Clean, Clean', [Next]_vars
  PROVE  [Store!Next]_Store!kvVars
<1> USE Handle DEF TypeInv
<1> DEFINE Same == UNCHANGED <<kv, maybe, op>> /\ IsOpen' = IsOpen
<1>0. Same => UNCHANGED Store!kvVars
  BY DEF Store!kvVars
<1>1. CASE Opening
  <2>1. CASE RemoveTmp \/ Retry
    <3>1. Same
      BY <2>1 DEF RemoveTmp, Retry, IsOpen
    <3> QED
      BY <1>0, <3>1
  <2>2. CASE Open
    <3>1. /\ pc = "opening" /\ UNCHANGED <<op, maybe>> /\ pc' \in {"failed", "idle"}
          /\ pc' = "failed" => kv' = kv
      BY <2>2 DEF Open
    <3>2. CASE pc' = "failed"
      BY <1>0, <3>1, <3>2 DEF IsOpen
    <3>3. CASE pc' = "idle"
      <4>1. /\ kv' \in [Keys -> Value] /\ \A k \in Keys : kv'[k] \in maybe[k]
            /\ ~IsOpen /\ IsOpen'
        BY <3>1, <3>3 DEF Typed, Kept, Clean, Served, IsOpen
      <4>2. Store!Start
        BY <3>1, <4>1 DEF Store!Start, Store!Value, Value
      <4> QED
        BY <4>2 DEF Store!Next
    <3> QED
      BY <3>1, <3>2, <3>3
  <2> QED
    BY <1>1, <2>1, <2>2 DEF Opening
<1>2. CASE Updating
  <2>1. ASSUME NEW k \in Keys, NEW v \in Value, Begin(k, v)
        PROVE  Store!Next
    <3>1. Store!Begin(k, v)
      BY <2>1 DEF Begin, Store!Begin, Clean, Writing, IsOpen, Idle, Store!Idle
    <3> QED
      BY <3>1 DEF Store!Next, Store!Value, Value
  <2>2. CASE WriteLength \/ WriteChecksum \/ WritePayload \/ Sync
    <3>1. Same
      BY <2>2 DEF WriteLength, WriteChecksum, WritePayload, Sync, IsOpen
    <3> QED
      BY <1>0, <3>1
  <2>3. ASSUME pc \in Writing PROVE op # Store!Idle /\ IsOpen
    BY <2>3 DEF Held, Writing, Store!Idle, IsOpen
  <2>4. CASE Acknowledge
    <3>1. Store!Acknowledge
      BY <2>3, <2>4 DEF Acknowledge, Store!Acknowledge, Writing, IsOpen, Idle, Store!Idle
    <3> QED
      BY <3>1 DEF Store!Next
  <2>5. CASE WriteFails \/ SyncFails
    <3>1. Store!Fail
      BY <2>3, <2>5 DEF WriteFails, SyncFails, Store!Fail, Writing, IsOpen, Idle, Store!Idle
    <3> QED
      BY <3>1 DEF Store!Next
  <2> QED
    BY <1>2, <2>1, <2>2, <2>4, <2>5 DEF Updating
<1>3. CASE Compacting
  <2>1. pc \in {"idle", "snapshot", "sync_tmp", "rename", "fsync_dir", "reopen"}
        /\ pc' \in {"idle", "snapshot", "sync_tmp", "rename", "fsync_dir", "reopen"}
        /\ UNCHANGED <<kv, maybe, op>>
    BY <1>3 DEF Compacting, CreateTmp, WriteTmp, SyncTmp, Rename, FsyncDir, Reopen,
                CompactFails, FailsIn, WalAssumption
  <2> QED
    BY <1>0, <2>1 DEF IsOpen
<1>4. CASE Kill \/ PowerLoss
  <2>1. pc' = "down" /\ op' = Idle /\ UNCHANGED <<kv, maybe>> /\ ~IsOpen'
    BY <1>4 DEF Kill, PowerLoss, Die, IsOpen
  <2>2. CASE IsOpen
    <3>1. Store!Stop
      BY <2>1, <2>2 DEF Store!Stop, Idle, Store!Idle
    <3> QED
      BY <3>1 DEF Store!Next
  <2>3. CASE ~IsOpen
    <3>1. op = Idle
      BY <2>3 DEF Clean, Writing, IsOpen
    <3>2. op' = op /\ UNCHANGED <<kv, maybe>> /\ IsOpen' = IsOpen
      <4>1. IsOpen \in BOOLEAN /\ IsOpen' \in BOOLEAN
        BY DEF IsOpen
      <4> QED
        BY <2>1, <2>3, <3>1, <4>1
    <3> QED
      BY <1>0, <3>2
  <2> QED
    BY <2>2, <2>3
<1>5. CASE UNCHANGED vars
  BY <1>0, <1>5 DEF vars, disk, IsOpen
<1> QED
  BY <1>1, <1>2, <1>3, <1>4, <1>5 DEF Next

(* Where a crash cuts no frame in two, no write fails and Durable holds,   *)
(* the store is the abstract one: each open serves, for every key, the     *)
(* last acknowledged value or a later one, and an update is seen when its  *)
(* method returns, not before.                                             *)
THEOREM StoreImplemented ==
  ASSUME Tearless
  PROVE  Spec => ImplementsKvStore
<1>1. Init => TypeInv /\ Names /\ Kept /\ Clean
  BY WalAssumption, TypeInvInit, NamesInit, KeptInit, CleanInit DEF Tearless
<1>2. /\ TypeInv /\ Names /\ Kept /\ Clean /\ [Next]_vars
      => (TypeInv /\ Names /\ Kept /\ Clean)'
  BY WalAssumption, TypeInvStep, NamesStep, KeptStep, CleanStep DEF Tearless
<1>3. Init => Store!Init
  BY DEF Init, Store!Init, Idle, Store!Idle, IsOpen
<1>4. /\ TypeInv /\ Kept /\ Clean /\ TypeInv' /\ Kept' /\ Clean' /\ [Next]_vars
      => [Store!Next]_Store!kvVars
  BY WalAssumption, StepImplements
<1> QED
  BY <1>1, <1>2, <1>3, <1>4, PTL DEF Spec, ImplementsKvStore, Store!Spec

(* What the docs of open, set and compact promise holds there: every open  *)
(* succeeds, and serves every acknowledged update or a later one of its    *)
(* key. TLC finds it broken without each hypothesis, under the             *)
(* configuration named: a crash that cuts a frame (wal_torn_tail,          *)
(* wal_refused), a failed write (wal_failed_write), a value longer than    *)
(* MAX_RECORD (wal_big_value), a directory that could not be synced        *)
(* (wal_relative_path; a reopen that fails leaves the same state), a name  *)
(* that is not durable (wal_new_file, wal_killed_compaction).              *)
THEOREM AcknowledgedKept ==
  ASSUME Tearless
  PROVE  Spec => [](AcknowledgedSurvives /\ EntriesSurvive)
<1>1. Init => TypeInv /\ Names /\ Kept /\ Clean
  BY WalAssumption, TypeInvInit, NamesInit, KeptInit, CleanInit DEF Tearless
<1>2. /\ TypeInv /\ Names /\ Kept /\ Clean /\ [Next]_vars
      => (TypeInv /\ Names /\ Kept /\ Clean)'
  BY WalAssumption, TypeInvStep, NamesStep, KeptStep, CleanStep DEF Tearless
<1>3. Kept /\ Clean => AcknowledgedSurvives /\ EntriesSurvive
  BY DEF Kept, Clean, Served, AcknowledgedSurvives, EntriesSurvive, IsOpen
<1> QED
  BY <1>1, <1>2, <1>3, PTL DEF Spec
=============================================================================
