--------------------------- MODULE SpscRingProofs ---------------------------
(***************************************************************************)
(* The safety of the ring for every capacity, every number of sends and    *)
(* every set of panicking destructors, with counters that wrap around the  *)
(* machine word as often as they like if the capacity divides its size,    *)
(* and for any capacity as long as they do not wrap.                       *)
(***************************************************************************)
EXTENDS SpscRing, FiniteSetTheorems, SequenceTheorems, TLAPS

(* When a counter wraps, its slot follows on only if the word is a whole   *)
(* number of laps.                                                         *)
WholeLaps == MaxSends < WordSize \/ \E k \in Nat : WordSize = k * Cap

InFlight == IF InCall("p") THEN 1 ELSE 0
Holds(t) == IF At(t, "gone") THEN 0 ELSE 1

ProducerInv ==
  /\ producer_alive <=> pc.p \notin {"drop", "gone"}
  /\ prod.taken = prod.tail
  /\ head <= prod.tail + Cap
  /\ pc.p \in {"fill", "publish"} => head < prod.tail + Cap
  /\ pc.p \in {"space", "fill", "publish"} => ~prod.closed
  /\ ~prod.closed => calls = head + InFlight
  /\ calls >= head + InFlight
  /\ returned = head .. calls - 1 - InFlight

ConsumerInv ==
  /\ consumer_alive <=> pc.c \notin {"drop", "gone"}
  /\ cons.filled = cons.head
  /\ ring = "live" => tail <= cons.head
  /\ pc.c \in {"take", "advance"} => tail < cons.head
  /\ At("c", "advance") => cons.value = tail
  /\ cons.closed => ~producer_alive /\ cons.head = head
  /\ At("c", "last") => cons.closed
  /\ recv_failed => ~producer_alive /\ Len(received) = head

(* The slots from tail up to head hold their messages, the others nothing. *)
SlotInv ==
  /\ \A q \in tail .. head - 1 :
        slots[q % Cap] = q \/ (q = tail /\ At("c", "advance"))
  /\ At("p", "publish") => slots[head % Cap] = head
  /\ \A q \in head .. tail + Cap - 1 :
        slots[q % Cap] = Uninit \/ (q = head /\ At("p", "publish"))
  /\ At("c", "advance") => slots[tail % Cap] = Uninit

RingInv ==
  /\ refs = Holds("p") + Holds("c")
  /\ ring # "live" <=> At("p", "gone") /\ At("c", "gone")
  /\ ring = "live" => dropped = <<>>
  /\ ring \in {"freed", "unwound"} => tail = head
  /\ Len(received) + Len(dropped) = tail

IInv == TypeOK /\ ProducerInv /\ ConsumerInv /\ SlotInv /\ RingInv /\ InOrder

-----------------------------------------------------------------------------
(* Arithmetic of the slots *)

(* A number below the modulus is its own remainder.                        *)
LEMMA SmallMod ==
  ASSUME NEW w \in Nat \ {0}, NEW n \in Nat, n < w
  PROVE  n % w = n
OBVIOUS

(* Quotient and remainder.                                                 *)
LEMMA DivMod ==
  ASSUME NEW w \in Nat \ {0}, NEW n \in Nat
  PROVE  /\ n = w * (n \div w) + (n % w)
         /\ n \div w \in Nat
         /\ n % w \in 0 .. w - 1
OBVIOUS

(* Different multiples of w are at least w apart.                          *)
LEMMA MultiplesApart ==
  ASSUME NEW w \in Nat \ {0}, NEW a \in Nat, NEW b \in Nat, a < b
  PROVE  w * b >= w * a + w
<1> DEFINE d == b - a - 1
<1>1. d \in Nat /\ b = d + a + 1
  OBVIOUS
<1>2. w * b = w * d + w * a + w
  BY <1>1
<1>3. w * d >= 0
  BY <1>1
<1> QED
  BY <1>2, <1>3

(* Positions less than one lap apart lie in different slots.               *)
LEMMA DistinctSlots ==
  ASSUME NEW w \in Nat \ {0}, NEW a \in Nat, NEW b \in Nat,
         a < b, b < a + w
  PROVE  a % w # b % w
<1> DEFINE x == a \div w
           y == b \div w
           r == a % w
           s == b % w
<1>1. /\ x \in Nat /\ y \in Nat /\ r \in 0 .. w - 1 /\ s \in 0 .. w - 1
      /\ a = w * x + r /\ b = w * y + s
  BY DivMod
<1>2. SUFFICES ASSUME r = s PROVE FALSE
  OBVIOUS
<1> HIDE DEF x, y, r, s
<1>3. CASE x = y
  BY <1>1, <1>2, <1>3
<1>4. CASE x < y
  BY <1>1, <1>2, <1>4, MultiplesApart
<1>5. CASE y < x
  BY <1>1, <1>2, <1>5, MultiplesApart
<1> QED
  BY <1>1, <1>3, <1>4, <1>5

(* One lap further is the same slot.                                       *)
LEMMA SameSlotNextLap ==
  ASSUME NEW w \in Nat \ {0}, NEW n \in Nat
  PROVE  (n + w) % w = n % w
<1> DEFINE x == n \div w
           y == (n + w) \div w
           r == n % w
           s == (n + w) % w
<1>0. n + w \in Nat
  OBVIOUS
<1>1. /\ x \in Nat /\ y \in Nat /\ r \in 0 .. w - 1 /\ s \in 0 .. w - 1
      /\ n = w * x + r /\ n + w = w * y + s
  BY <1>0, DivMod
<1> HIDE DEF x, y, r, s
<1>2. w * (x + 1) = w * x + w
  BY <1>1
<1>3. CASE y = x + 1
  BY <1>1, <1>2, <1>3 DEF r, s
<1>4. CASE y < x + 1
  <2>1. w * (x + 1) >= w * y + w
    BY <1>1, <1>4, MultiplesApart
  <2> QED
    BY <1>1, <1>2, <2>1
<1>5. CASE x + 1 < y
  <2>1. w * y >= w * (x + 1) + w
    BY <1>1, <1>5, MultiplesApart
  <2> QED
    BY <1>1, <1>2, <2>1
<1> QED
  BY <1>1, <1>3, <1>4, <1>5

(* Different positions within a lap of each other, whichever comes first.  *)
LEMMA OtherSlot ==
  ASSUME NEW w \in Nat \ {0}, NEW a \in Nat, NEW b \in Nat,
         a # b, a < b + w, b < a + w
  PROVE  a % w # b % w /\ a % w \in 0 .. w - 1
<1>1. CASE a < b
  BY <1>1, DistinctSlots, DivMod
<1>2. CASE b < a
  BY <1>2, DistinctSlots, DivMod
<1> QED
  BY <1>1, <1>2

(* A number has one remainder.                                             *)
LEMMA OneRemainder ==
  ASSUME NEW w \in Nat \ {0}, NEW x \in Nat, NEW y \in Nat,
         NEW r \in 0 .. w - 1, NEW s \in 0 .. w - 1, w * x + r = w * y + s
  PROVE  r = s
<1>1. CASE x = y
  BY <1>1
<1>2. CASE x < y
  BY <1>2, MultiplesApart
<1>3. CASE y < x
  BY <1>3, MultiplesApart
<1> QED
  BY <1>1, <1>2, <1>3

(* The slot of a counter, wrapped or not.                                  *)
LEMMA SlotIs ==
  ASSUME WholeLaps, NEW n \in 0 .. MaxSends
  PROVE  Slot(n) = n % Cap /\ Slot(n) \in 0 .. Cap - 1
<1>1. Cap \in Nat \ {0} /\ WordSize \in Nat \ {0} /\ MaxSends \in Nat
  BY RingAssumption DEF Cap
<1>2. n \in Nat /\ n % Cap \in 0 .. Cap - 1
  BY <1>1, DivMod
<1>3. CASE MaxSends < WordSize
  <2>1. n % WordSize = n
    BY <1>1, <1>3, SmallMod
  <2> QED
    BY <1>2, <2>1 DEF Slot
<1>4. ASSUME NEW k \in Nat, WordSize = k * Cap PROVE Slot(n) = n % Cap
  <2> DEFINE a == n \div WordSize
             m == n % WordSize
             b == m \div Cap
             r == m % Cap
             x == n \div Cap
             s == n % Cap
  <2>1. n = WordSize * a + m /\ a \in Nat /\ m \in Nat
    BY <1>1, <1>2, DivMod
  <2>2. n = Cap * x + s /\ x \in Nat /\ s \in 0 .. Cap - 1
    BY <1>1, <1>2, DivMod
  <2> HIDE DEF m
  <2>3. m = Cap * b + r /\ b \in Nat /\ r \in 0 .. Cap - 1
    BY <1>1, <2>1, DivMod
  <2> HIDE DEF a, b, r, x, s
  <2>4. WordSize * a = Cap * (k * a)
    BY <1>1, <1>4, <2>1
  <2> DEFINE y == k * a + b
  <2>5. y \in Nat /\ Cap * y = Cap * (k * a) + Cap * b
    BY <1>1, <2>1, <2>3
  <2>6. Cap * x + s = Cap * y + r
    BY <1>1, <2>1, <2>2, <2>3, <2>4, <2>5
  <2> HIDE DEF y
  <2>7. r = s
    BY <1>1, <2>2, <2>3, <2>5, <2>6, OneRemainder
  <2> QED
    BY <2>7 DEF r, m, s, Slot
<1> QED
  BY <1>2, <1>3, <1>4 DEF WholeLaps

(* Two counters at most one lap apart differ exactly when their words do.  *)
LEMMA SameWord ==
  ASSUME NEW a \in Nat, NEW b \in Nat, a <= b, b <= a + Cap
  PROVE  a % WordSize = b % WordSize <=> a = b
<1>1. Cap \in Nat \ {0} /\ WordSize \in Nat \ {0} /\ Cap < WordSize
  BY RingAssumption DEF Cap
<1>2. ASSUME a # b PROVE a % WordSize # b % WordSize
  <2>1. a < b /\ b < a + WordSize
    BY <1>1, <1>2
  <2> QED
    BY <1>1, <2>1, DistinctSlots
<1> QED
  BY <1>2

-----------------------------------------------------------------------------
(* The inductive invariant *)

LEMMA CapPositive == Cap \in Nat \ {0} /\ WordSize \in Nat \ {0} /\ MaxSends \in Nat
BY RingAssumption DEF Cap

(* The initial state satisfies the inductive invariant.                    *)
LEMMA InitInv == Init => IInv
<1> SUFFICES ASSUME Init PROVE IInv
  OBVIOUS
<1> USE CapPositive
<1>1. TypeOK
  <2>1. slots \in [0 .. Cap - 1 -> Element \cup {Uninit}]
    BY DEF Init
  <2>2. head \in 0 .. MaxSends /\ tail \in 0 .. head /\ calls \in 0 .. MaxSends
    BY DEF Init
  <2>3. prod \in [tail : 0 .. tail, taken : 0 .. tail, closed : BOOLEAN]
    BY DEF Init
  <2>4. cons \in [head : 0 .. head, filled : 0 .. head, closed : BOOLEAN,
                  value : Element \cup {Uninit}]
    BY DEF Init
  <2>5. pc \in [p : {"idle", "check", "space", "fill", "publish", "drop", "gone"},
              c : {"idle", "look", "check", "last", "take", "advance", "drop", "gone"}]
    BY DEF Init
  <2>6. received \in Seq(Element) /\ dropped \in Seq(Element) /\ returned \subseteq Element
    BY DEF Init
  <2>7. /\ producer_alive \in BOOLEAN /\ consumer_alive \in BOOLEAN /\ recv_failed \in BOOLEAN
        /\ refs \in 0 .. 2
        /\ ring \in {"live", "dropping", "guard", "freed", "unwound", "aborted"}
    BY DEF Init
  <2> QED
    BY <2>1, <2>2, <2>3, <2>4, <2>5, <2>6, <2>7 DEF TypeOK
<1>2. ProducerInv
  BY DEF Init, ProducerInv, InFlight, InCall
<1>3. ConsumerInv
  BY DEF Init, ConsumerInv, At
<1>4. SlotInv
  <2>1. \A q \in head .. tail + Cap - 1 : q % Cap \in 0 .. Cap - 1
    BY DivMod DEF Init
  <2>2. \A q \in head .. tail + Cap - 1 : slots[q % Cap] = Uninit
    BY <2>1 DEF Init
  <2>3. tail .. head - 1 = {}
    BY DEF Init
  <2> QED
    BY <2>2, <2>3 DEF Init, SlotInv, At
<1>5. RingInv
  BY DEF Init, RingInv, Holds, At
<1>6. InOrder
  BY DEF Init, InOrder
<1> QED
  BY <1>1, <1>2, <1>3, <1>4, <1>5, <1>6 DEF IInv

(* Every step preserves the inductive invariant.                           *)
LEMMA StepInv ==
  ASSUME WholeLaps, IInv, [Next]_vars
  PROVE  IInv'
<1> USE CapPositive DEF IInv
<1>1. CASE Send
  <2>1. TypeOK'
    <3>1. calls' \in 0 .. MaxSends
      BY <1>1 DEF Send, TypeOK
    <3> QED
      BY <1>1, <3>1 DEF Send, TypeOK, shared, At, Goto
  <2>2. ProducerInv'
    BY <1>1 DEF Send, TypeOK, ProducerInv, shared, At, Goto, InFlight, InCall
  <2>3. ConsumerInv'
    BY <1>1 DEF Send, TypeOK, ConsumerInv, shared, At, Goto
  <2>4. SlotInv'
    BY <1>1 DEF Send, TypeOK, SlotInv, shared, At, Goto
  <2>5. RingInv' /\ InOrder'
    BY <1>1 DEF Send, TypeOK, RingInv, InOrder, Holds, shared, At, Goto
  <2> QED
    BY <2>1, <2>2, <2>3, <2>4, <2>5
<1>2. CASE SeeConsumer
  <2>1. TypeOK'
    BY <1>2 DEF SeeConsumer, TypeOK, shared, history, At, Goto
  <2>2. ProducerInv'
    BY <1>2 DEF SeeConsumer, TypeOK, ProducerInv, shared, history, At, Goto, InFlight, InCall
  <2>3. ConsumerInv'
    BY <1>2 DEF SeeConsumer, TypeOK, ConsumerInv, shared, history, At, Goto
  <2>4. SlotInv'
    BY <1>2 DEF SeeConsumer, TypeOK, SlotInv, shared, history, At, Goto
  <2>5. RingInv' /\ InOrder'
    BY <1>2 DEF SeeConsumer, TypeOK, RingInv, InOrder, Holds, shared, history, At, Goto
  <2> QED
    BY <2>1, <2>2, <2>3, <2>4, <2>5
<1>3. CASE SendFails
  <2>1. calls - 1 \in Element /\ calls - 1 \in Int
    <3>1. calls >= head + 1 /\ calls \in 0 .. MaxSends /\ head \in Nat
      BY <1>3 DEF SendFails, TypeOK, ProducerInv, InFlight, InCall, At
    <3> QED
      BY <3>1 DEF Element
  <2>2. TypeOK'
    BY <1>3, <2>1 DEF SendFails, TypeOK, shared, At, Goto
  <2>3. returned' = head .. calls - 1
    <3>1. /\ returned = head .. calls - 2 /\ head <= calls - 1
          /\ head \in Nat /\ calls \in Nat
      BY <1>3 DEF SendFails, TypeOK, ProducerInv, InFlight, InCall, At
    <3>2. head .. calls - 1 = (head .. calls - 2) \cup {calls - 1}
      BY <3>1
    <3> QED
      BY <1>3, <3>1, <3>2 DEF SendFails
  <2>4. ProducerInv'
    <3>1. /\ pc.p = "check" /\ pc'.p = "idle" /\ calls \in Nat /\ head \in Nat
          /\ UNCHANGED <<head, producer_alive, calls>>
      BY <1>3 DEF SendFails, TypeOK, shared, At, Goto
    <3>2. prod'.tail = prod.tail /\ prod'.taken = prod.taken /\ prod'.closed = TRUE
      BY <1>3 DEF SendFails, TypeOK
    <3>3. InFlight = 1 /\ InFlight' = 0
      BY <3>1 DEF InFlight, InCall
    <3> QED
      BY <2>1, <2>3, <3>1, <3>2, <3>3 DEF ProducerInv
  <2>5. ConsumerInv'
    BY <1>3 DEF SendFails, TypeOK, ConsumerInv, shared, At, Goto
  <2>6. SlotInv'
    BY <1>3 DEF SendFails, TypeOK, SlotInv, shared, At, Goto
  <2>7. RingInv' /\ InOrder'
    BY <1>3 DEF SendFails, TypeOK, RingInv, InOrder, Holds, shared, At, Goto
  <2> QED
    BY <2>2, <2>4, <2>5, <2>6, <2>7
<1>4. ASSUME NEW t \in prod.tail .. tail, LoadTail(t) PROVE IInv'
  <2>1. /\ t \in Nat /\ t <= tail /\ prod.tail <= t /\ prod.tail \in Nat
        /\ head \in 0 .. MaxSends /\ tail \in 0 .. head
    BY DEF TypeOK
  <2>2. prod' = [tail |-> t, taken |-> t, closed |-> prod.closed]
    <3>1. /\ prod = [tail |-> prod.tail, taken |-> prod.taken, closed |-> prod.closed]
          /\ prod.taken = prod.tail
      BY DEF TypeOK, ProducerInv
    <3>2. Join(prod.taken, TailMessage(t)) = t
      BY <2>1, <3>1 DEF Join, TailMessage
    <3>3. prod' = [prod EXCEPT !.tail = t, !.taken = t]
      BY <1>4, <3>2 DEF LoadTail
    <3> QED
      BY <3>1, <3>3
  <2>3. HasSpace(t) <=> head < t + Cap
    <3>1. head - t \in 0 .. Cap /\ Cap < WordSize
      BY <2>1, RingAssumption DEF ProducerInv
    <3>2. (head - t) % WordSize = head - t
      BY <3>1, SmallMod
    <3> QED
      BY <2>1, <3>2 DEF HasSpace
  <2>4. TypeOK'
    <3>1. prod' \in [tail : 0 .. tail, taken : 0 .. tail, closed : BOOLEAN]
      BY <2>1, <2>2 DEF TypeOK
    <3> QED
      BY <1>4, <3>1 DEF LoadTail, TypeOK, shared, history, At, Goto
  <2>5. ProducerInv'
    <3>1. /\ pc.p = "space" /\ pc' = [pc EXCEPT !.p = IF HasSpace(t) THEN "fill" ELSE "check"]
          /\ UNCHANGED <<head, producer_alive, calls, returned>>
      BY <1>4 DEF LoadTail, shared, history, At, Goto
    <3>2. pc'.p \in {"fill", "check"} /\ (pc'.p = "fill" => head < t + Cap)
      BY <2>3, <3>1 DEF TypeOK
    <3>3. InFlight = 1 /\ InFlight' = 1
      BY <3>1, <3>2 DEF InFlight, InCall
    <3>4. prod'.tail = t /\ prod'.taken = t /\ prod'.closed = prod.closed
      BY <2>2
    <3> QED
      BY <2>1, <3>1, <3>2, <3>3, <3>4 DEF ProducerInv
  <2>6. ConsumerInv'
    BY <1>4 DEF LoadTail, TypeOK, ConsumerInv, shared, history, At, Goto
  <2>7. SlotInv'
    BY <1>4 DEF LoadTail, TypeOK, SlotInv, shared, history, At, Goto
  <2>8. RingInv' /\ InOrder'
    BY <1>4 DEF LoadTail, TypeOK, RingInv, InOrder, Holds, shared, history, At, Goto
  <2> QED
    BY <2>4, <2>5, <2>6, <2>7, <2>8
<1>5. CASE Fill
  <2>1. /\ head \in 0 .. MaxSends /\ tail \in 0 .. head /\ calls = head + 1 /\ calls \in 0 .. MaxSends
        /\ head < tail + Cap
    BY <1>5 DEF Fill, TypeOK, ProducerInv, InFlight, InCall, At
  <2>2. Slot(head) = head % Cap /\ Slot(head) \in 0 .. Cap - 1
    BY <2>1, SlotIs
  <2>3. slots' = [slots EXCEPT ![head % Cap] = head]
    BY <1>5, <2>1, <2>2 DEF Fill
  <2>4. TypeOK'
    <3>1. head \in Element
      BY <2>1 DEF Element
    <3>2. slots' \in [0 .. Cap - 1 -> Element \cup {Uninit}]
      BY <2>3, <3>1 DEF TypeOK
    <3> QED
      BY <1>5, <3>2 DEF Fill, TypeOK, history, At, Goto
  <2>5. ProducerInv'
    BY <1>5 DEF Fill, TypeOK, ProducerInv, history, At, Goto, InFlight, InCall
  <2>6. ConsumerInv'
    BY <1>5 DEF Fill, TypeOK, ConsumerInv, history, At, Goto
  <2>7. SlotInv'
    <3>1. ASSUME NEW q \in tail .. tail + Cap - 1, q # head
          PROVE  slots'[q % Cap] = slots[q % Cap]
      <4>1. q \in Nat /\ head \in Nat /\ head < q + Cap /\ q < head + Cap
        BY <2>1
      <4>2. slots \in [0 .. Cap - 1 -> Element \cup {Uninit}]
        BY DEF TypeOK
      <4>3. q % Cap # head % Cap /\ q % Cap \in 0 .. Cap - 1
        BY <3>1, <4>1, OtherSlot
      <4> QED
        BY <2>3, <4>2, <4>3
    <3>1a. /\ \A q \in tail .. head - 1 : q \in tail .. tail + Cap - 1 /\ q # head
          /\ \A q \in head .. tail + Cap - 1 : q \in tail .. tail + Cap - 1
      BY ONLY <2>1, CapPositive
    <3>2. \A q \in tail .. head - 1 : slots'[q % Cap] = slots[q % Cap]
      BY ONLY <3>1, <3>1a, Zenon
    <3>3. \A q \in head .. tail + Cap - 1 : q # head => slots'[q % Cap] = slots[q % Cap]
      BY ONLY <3>1, <3>1a, Zenon
    <3>4. slots'[head % Cap] = head
      BY <2>2, <2>3 DEF TypeOK
    <3>5. At("c", "advance") => tail < head /\ slots'[tail % Cap] = slots[tail % Cap]
      <4>1. At("c", "advance") => tail < head
        BY <2>1 DEF ConsumerInv, TypeOK, At
      <4> QED
        BY <2>1, <3>2, <4>1
    <3>6. pc'.c = pc.c /\ pc'.p = "publish" /\ head' = head /\ tail' = tail
      BY <1>5 DEF Fill, TypeOK, At, Goto
    <3> QED
      BY <1>5, <3>2, <3>3, <3>4, <3>5, <3>6 DEF Fill, SlotInv, At
  <2>8. RingInv' /\ InOrder'
    BY <1>5 DEF Fill, TypeOK, RingInv, InOrder, Holds, history, At, Goto
  <2> QED
    BY <2>4, <2>5, <2>6, <2>7, <2>8
<1>6. CASE Publish
  <2>1. /\ head \in 0 .. MaxSends /\ tail \in 0 .. head /\ calls = head + 1 /\ calls \in 0 .. MaxSends
        /\ head < tail + Cap /\ producer_alive
    <3>1. pc.p = "publish" /\ InFlight = 1
      BY <1>6 DEF Publish, InFlight, InCall, At
    <3>2. /\ ~prod.closed /\ producer_alive
          /\ prod.tail \in 0 .. tail /\ head < prod.tail + Cap
      BY <3>1 DEF TypeOK, ProducerInv
    <3>3. calls = head + 1
      BY <3>1, <3>2 DEF ProducerInv
    <3> QED
      BY <3>2, <3>3 DEF TypeOK
  <2>2. TypeOK'
    <3>1. head' \in 0 .. MaxSends /\ tail' \in 0 .. head'
      BY <1>6, <2>1 DEF Publish
    <3>2. cons' \in [head : 0 .. head', filled : 0 .. head', closed : BOOLEAN,
                     value : Element \cup {Uninit}]
      BY <1>6, <2>1 DEF Publish, TypeOK
    <3> QED
      BY <1>6, <3>1, <3>2 DEF Publish, TypeOK, history, At, Goto
  <2>3. ProducerInv'
    BY <1>6, <2>1 DEF Publish, TypeOK, ProducerInv, history, At, Goto, InFlight, InCall
  <2>4. ConsumerInv'
    BY <1>6, <2>1 DEF Publish, TypeOK, ConsumerInv, history, At, Goto
  <2>5. SlotInv'
    <3>1. pc'.c = pc.c /\ pc'.p = "idle" /\ head' = head + 1 /\ tail' = tail /\ slots' = slots
      BY <1>6 DEF Publish, TypeOK, At, Goto
    <3>2. \A q \in tail .. head' - 1 : q = head \/ q \in tail .. head - 1
      BY <2>1, <3>1
    <3>3. \A q \in head' .. tail + Cap - 1 : q # head /\ q \in head .. tail + Cap - 1
      BY <2>1, <3>1
    <3> QED
      BY <1>6, <3>1, <3>2, <3>3 DEF Publish, SlotInv, At
  <2>6. RingInv' /\ InOrder'
    BY <1>6, <2>1 DEF Publish, TypeOK, RingInv, InOrder, Holds, history, At, Goto
  <2> QED
    BY <2>2, <2>3, <2>4, <2>5, <2>6
<1>7. CASE DropProducer
  <2>1. TypeOK'
    BY <1>7 DEF DropProducer, TypeOK, history, At, Goto
  <2>2. ProducerInv'
    BY <1>7 DEF DropProducer, TypeOK, ProducerInv, history, At, Goto, InFlight, InCall
  <2>3. ConsumerInv'
    BY <1>7 DEF DropProducer, TypeOK, ConsumerInv, history, At, Goto
  <2>4. SlotInv'
    BY <1>7 DEF DropProducer, TypeOK, SlotInv, history, At, Goto
  <2>5. RingInv' /\ InOrder'
    BY <1>7 DEF DropProducer, TypeOK, RingInv, InOrder, Holds, history, At, Goto
  <2> QED
    BY <2>1, <2>2, <2>3, <2>4, <2>5
<1>8. CASE Recv
  <2>1. TypeOK'
    BY <1>8 DEF Recv, TypeOK, shared, history, At, Goto
  <2>2. ProducerInv'
    BY <1>8 DEF Recv, TypeOK, ProducerInv, shared, history, At, Goto, InFlight, InCall
  <2>3. ConsumerInv'
    BY <1>8 DEF Recv, TypeOK, ConsumerInv, shared, history, At, Goto
  <2>4. SlotInv'
    BY <1>8 DEF Recv, TypeOK, SlotInv, shared, history, At, Goto
  <2>5. RingInv' /\ InOrder'
    BY <1>8 DEF Recv, TypeOK, RingInv, InOrder, Holds, shared, history, At, Goto
  <2> QED
    BY <2>1, <2>2, <2>3, <2>4, <2>5
<1>9. ASSUME NEW h \in cons.head .. head, LoadHead(h) PROVE IInv'
  <2>1. /\ h \in Nat /\ h <= head /\ cons.head <= h /\ cons.head \in Nat
        /\ head \in 0 .. MaxSends /\ tail \in 0 .. head /\ tail <= cons.head
    BY <1>9 DEF LoadHead, TypeOK, ConsumerInv, RingInv, At
  <2>2. Differs(h) <=> h # tail
    <3>1. head <= tail + Cap
      BY <2>1 DEF ProducerInv, TypeOK
    <3>2. h \in Nat /\ tail \in Nat /\ tail <= h /\ h <= tail + Cap
      BY <2>1, <3>1
    <3> QED
      BY <3>2, SameWord DEF Differs
  <2>3. cons' = [head |-> h, filled |-> h, closed |-> cons.closed, value |-> cons.value]
    <3>1. Join(cons.filled, HeadMessage(h)) = h
      BY <2>1 DEF Join, HeadMessage, ConsumerInv
    <3>2. cons' = [cons EXCEPT !.head = h, !.filled = h]
      BY <1>9, <3>1 DEF LoadHead, SeeHead
    <3> QED
      BY <3>2 DEF TypeOK
  <2>4. TypeOK'
    <3>1. cons' \in [head : 0 .. head, filled : 0 .. head, closed : BOOLEAN,
                     value : Element \cup {Uninit}]
      BY <2>1, <2>3 DEF TypeOK
    <3> QED
      BY <1>9, <3>1 DEF LoadHead, TypeOK, shared, history, At, Goto
  <2>5. ProducerInv'
    BY <1>9 DEF LoadHead, TypeOK, ProducerInv, shared, history, At, Goto, InFlight, InCall
  <2>6. ConsumerInv'
    BY <1>9, <2>1, <2>2, <2>3 DEF LoadHead, TypeOK, ConsumerInv, shared, history, At, Goto
  <2>7. SlotInv'
    BY <1>9 DEF LoadHead, TypeOK, SlotInv, shared, history, At, Goto
  <2>8. RingInv' /\ InOrder'
    BY <1>9 DEF LoadHead, TypeOK, RingInv, InOrder, Holds, shared, history, At, Goto
  <2> QED
    BY <2>4, <2>5, <2>6, <2>7, <2>8
<1>10. CASE SeeProducer
  <2>1. TypeOK'
    BY <1>10 DEF SeeProducer, TypeOK, shared, history, At, Goto
  <2>2. ProducerInv'
    BY <1>10 DEF SeeProducer, TypeOK, ProducerInv, shared, history, At, Goto, InFlight, InCall
  <2>3. ConsumerInv'
    BY <1>10 DEF SeeProducer, TypeOK, ConsumerInv, shared, history, At, Goto
  <2>4. SlotInv'
    BY <1>10 DEF SeeProducer, TypeOK, SlotInv, shared, history, At, Goto
  <2>5. RingInv' /\ InOrder'
    BY <1>10 DEF SeeProducer, TypeOK, RingInv, InOrder, Holds, shared, history, At, Goto
  <2> QED
    BY <2>1, <2>2, <2>3, <2>4, <2>5
<1>11. CASE SeeProducerGone
  <2>1. cons' = [head |-> head, filled |-> head, closed |-> TRUE, value |-> cons.value]
    <3>1. cons.head \in 0 .. head /\ cons.filled = cons.head /\ head \in Nat
      BY DEF TypeOK, ConsumerInv
    <3>2. Join(cons.head, ProducerDropMessage) = head /\ Join(cons.filled, ProducerDropMessage) = head
      BY <3>1 DEF Join, ProducerDropMessage
    <3>3. cons' = [cons EXCEPT !.closed = TRUE, !.head = head, !.filled = head]
      BY <1>11, <3>2 DEF SeeProducerGone
    <3> QED
      BY <3>3 DEF TypeOK
  <2>2. TypeOK'
    <3>1. cons' \in [head : 0 .. head, filled : 0 .. head, closed : BOOLEAN,
                     value : Element \cup {Uninit}]
      BY <2>1 DEF TypeOK
    <3> QED
      BY <1>11, <3>1 DEF SeeProducerGone, TypeOK, shared, history, At, Goto
  <2>3. ProducerInv'
    BY <1>11 DEF SeeProducerGone, TypeOK, ProducerInv, shared, history, At, Goto, InFlight, InCall
  <2>4. ConsumerInv'
    <3>1. /\ pc.c = "check" /\ pc'.c = "last" /\ ~producer_alive /\ tail <= head
          /\ UNCHANGED <<head, tail, producer_alive, consumer_alive, ring, received, recv_failed>>
      BY <1>11 DEF SeeProducerGone, TypeOK, shared, history, At, Goto
    <3>2. cons'.head = head /\ cons'.filled = head /\ cons'.closed = TRUE
      BY <2>1
    <3> QED
      BY <3>1, <3>2 DEF ConsumerInv, At
  <2>5. SlotInv'
    BY <1>11 DEF SeeProducerGone, TypeOK, SlotInv, shared, history, At, Goto
  <2>6. RingInv' /\ InOrder'
    BY <1>11 DEF SeeProducerGone, TypeOK, RingInv, InOrder, Holds, shared, history, At, Goto
  <2> QED
    BY <2>2, <2>3, <2>4, <2>5, <2>6
<1>12. ASSUME NEW h \in cons.head .. head, LoadHeadAgain(h) PROVE IInv'
  <2>1. /\ h = head /\ cons.head = head /\ cons.filled = head /\ ~producer_alive /\ tail <= head
        /\ head \in 0 .. MaxSends /\ tail \in 0 .. head
        /\ ring = "live" /\ dropped = <<>> /\ Len(received) = tail
    BY <1>12 DEF LoadHeadAgain, TypeOK, ConsumerInv, RingInv, At
  <2>2. Differs(h) <=> head # tail
    <3>1. head <= tail + Cap
      BY <2>1 DEF ProducerInv, TypeOK
    <3>2. head \in Nat /\ tail \in Nat /\ tail <= head /\ h = head
      BY <2>1
    <3> QED
      BY <3>1, <3>2, SameWord DEF Differs
  <2>3. cons' = cons
    <3>1. Join(cons.filled, HeadMessage(h)) = head
      BY <2>1 DEF Join, HeadMessage
    <3>2. cons' = [cons EXCEPT !.head = head, !.filled = head]
      BY <1>12, <2>1, <3>1 DEF LoadHeadAgain, SeeHead
    <3> QED
      BY <2>1, <3>2 DEF TypeOK
  <2>4. TypeOK'
    BY <1>12, <2>3 DEF LoadHeadAgain, TypeOK, shared, At, Goto
  <2>5. ProducerInv'
    BY <1>12 DEF LoadHeadAgain, TypeOK, ProducerInv, shared, At, Goto, InFlight, InCall
  <2>6. ConsumerInv'
    BY <1>12, <2>1, <2>2, <2>3 DEF LoadHeadAgain, TypeOK, ConsumerInv, shared, At, Goto
  <2>7. SlotInv'
    BY <1>12 DEF LoadHeadAgain, TypeOK, SlotInv, shared, At, Goto
  <2>8. RingInv' /\ InOrder'
    BY <1>12 DEF LoadHeadAgain, TypeOK, RingInv, InOrder, Holds, shared, At, Goto
  <2> QED
    BY <2>4, <2>5, <2>6, <2>7, <2>8
<1>13. CASE Take
  <2>1. /\ head \in 0 .. MaxSends /\ tail \in 0 .. head /\ tail < head /\ ring = "live"
        /\ cons.head <= head /\ cons.head \in Nat /\ head <= tail + Cap
    BY <1>13 DEF Take, TypeOK, ConsumerInv, ProducerInv, RingInv, At
  <2>2. Slot(tail) = tail % Cap /\ tail % Cap \in 0 .. Cap - 1
    <3>1. tail \in 0 .. MaxSends
      BY <2>1
    <3> QED
      BY <3>1, SlotIs
  <2>3. slots[tail % Cap] = tail
    BY <1>13, <2>1 DEF Take, SlotInv, At
  <2>4. /\ slots' = [slots EXCEPT ![tail % Cap] = Uninit]
        /\ cons' = [cons EXCEPT !.value = tail]
    BY <1>13, <2>2, <2>3 DEF Take
  <2>5. TypeOK'
    <3>1. slots' \in [0 .. Cap - 1 -> Element \cup {Uninit}]
      BY <2>4 DEF TypeOK
    <3>2. tail \in Element
      BY <2>1 DEF Element
    <3>3. cons' \in [head : 0 .. head, filled : 0 .. head, closed : BOOLEAN,
                     value : Element \cup {Uninit}]
      BY <2>4, <3>2 DEF TypeOK
    <3> QED
      BY <1>13, <3>1, <3>3 DEF Take, TypeOK, history, At, Goto
  <2>6. ProducerInv'
    BY <1>13 DEF Take, TypeOK, ProducerInv, history, At, Goto, InFlight, InCall
  <2>7. ConsumerInv'
    BY <1>13, <2>4 DEF Take, TypeOK, ConsumerInv, history, At, Goto
  <2>8. SlotInv'
    <3>1. ASSUME NEW q \in tail .. tail + Cap - 1, q # tail
          PROVE  slots'[q % Cap] = slots[q % Cap]
      <4>1. q \in Nat /\ tail \in Nat /\ q < tail + Cap /\ tail < q + Cap
        BY <2>1
      <4>2. q % Cap # tail % Cap /\ q % Cap \in 0 .. Cap - 1
        BY <3>1, <4>1, OtherSlot
      <4> QED
        BY <2>4, <4>2 DEF TypeOK
    <3>2. ASSUME NEW q \in tail .. head - 1, q # tail
          PROVE  slots'[q % Cap] = slots[q % Cap]
      <4>1. q \in tail .. tail + Cap - 1
        BY <2>1
      <4> QED
        BY <3>1, <3>2, <4>1
    <3>3. \A q \in head .. tail + Cap - 1 : slots'[q % Cap] = slots[q % Cap]
      BY <2>1, <3>1
    <3>4. slots'[tail % Cap] = Uninit
      BY <2>2, <2>4 DEF TypeOK
    <3>5. At("p", "publish") => slots'[head % Cap] = slots[head % Cap]
      <4>1. At("p", "publish") => head < tail + Cap
        BY DEF ProducerInv, TypeOK, At
      <4> QED
        BY <2>1, <3>3, <4>1
    <3>6. pc'.c = "advance" /\ pc'.p = pc.p /\ head' = head /\ tail' = tail
      BY <1>13 DEF Take, TypeOK, At, Goto
    <3> QED
      BY <3>2, <3>3, <3>4, <3>5, <3>6 DEF SlotInv, At
  <2>9. RingInv' /\ InOrder'
    BY <1>13 DEF Take, TypeOK, RingInv, InOrder, Holds, history, At, Goto
  <2> QED
    BY <2>5, <2>6, <2>7, <2>8, <2>9
<1>14. CASE Advance
  <2>1. /\ head \in 0 .. MaxSends /\ tail \in 0 .. head /\ tail < cons.head /\ cons.head <= head
        /\ cons.head \in Nat /\ ring = "live" /\ dropped = <<>> /\ Len(received) = tail
        /\ cons.value = tail /\ head <= tail + Cap /\ ~recv_failed
    BY <1>14 DEF Advance, TypeOK, ConsumerInv, ProducerInv, RingInv, At
  <2>2. tail' = tail + 1 /\ received' = Append(received, tail) /\ tail \in Element
    BY <1>14, <2>1 DEF Advance, Element
  <2>3. /\ received' \in Seq(Element) /\ Len(received') = Len(received) + 1
        /\ \A i \in 1 .. Len(received) : received'[i] = received[i]
        /\ received'[Len(received) + 1] = tail
    BY <2>2 DEF TypeOK
  <2>4. TypeOK'
    <3>1. tail' \in 0 .. head /\ prod' \in [tail : 0 .. tail', taken : 0 .. tail', closed : BOOLEAN]
      BY <1>14, <2>1, <2>2 DEF Advance, TypeOK
    <3>2. cons' \in [head : 0 .. head, filled : 0 .. head, closed : BOOLEAN,
                     value : Element \cup {Uninit}]
      BY <1>14 DEF Advance, TypeOK
    <3> QED
      BY <1>14, <2>3, <3>1, <3>2 DEF Advance, TypeOK, At, Goto
  <2>5. ProducerInv'
    BY <1>14 DEF Advance, TypeOK, ProducerInv, At, Goto, InFlight, InCall
  <2>6. ConsumerInv'
    BY <1>14, <2>1, <2>2 DEF Advance, TypeOK, ConsumerInv, At, Goto
  <2>7. SlotInv'
    <3>1. /\ pc.c = "advance" /\ pc'.c = "idle" /\ pc'.p = pc.p
          /\ head' = head /\ slots' = slots
      BY <1>14 DEF Advance, TypeOK, At, Goto
    <3>2. \A q \in tail' .. head - 1 : q \in tail .. head - 1 /\ q # tail
      BY <2>1, <2>2
    <3>3. slots[(tail + Cap) % Cap] = Uninit
      <4>1. tail \in Nat
        BY <2>1
      <4>2. (tail + Cap) % Cap = tail % Cap
        BY <4>1, SameSlotNextLap
      <4> QED
        BY <3>1, <4>2 DEF SlotInv, At
    <3>4. \A q \in head .. tail' + Cap - 1 : q = tail + Cap \/ q \in head .. tail + Cap - 1
      BY <2>1, <2>2
    <3> QED
      BY <3>1, <3>2, <3>3, <3>4 DEF SlotInv, At
  <2>8. RingInv'
    BY <1>14, <2>1, <2>2, <2>3 DEF Advance, TypeOK, RingInv, Holds, At, Goto
  <2>9. InOrder'
    BY <1>14, <2>1, <2>3 DEF Advance, InOrder
  <2> QED
    BY <2>4, <2>5, <2>6, <2>7, <2>8, <2>9
<1>15. CASE DropConsumer
  <2>1. TypeOK'
    BY <1>15 DEF DropConsumer, TypeOK, history, At, Goto
  <2>2. ProducerInv'
    BY <1>15 DEF DropConsumer, TypeOK, ProducerInv, history, At, Goto, InFlight, InCall
  <2>3. ConsumerInv'
    BY <1>15 DEF DropConsumer, TypeOK, ConsumerInv, history, At, Goto
  <2>4. SlotInv'
    BY <1>15 DEF DropConsumer, TypeOK, SlotInv, history, At, Goto
  <2>5. RingInv' /\ InOrder'
    BY <1>15 DEF DropConsumer, TypeOK, RingInv, InOrder, Holds, history, At, Goto
  <2> QED
    BY <2>1, <2>2, <2>3, <2>4, <2>5
<1>16. ASSUME NEW t \in {"p", "c"}, ReleaseArc(t) PROVE IInv'
  <2>1. /\ ring = "live" /\ ring' \in {"live", "dropping"} /\ refs \in 1 .. 2 /\ refs' = refs - 1
        /\ ring' = "dropping" <=> refs = 1
    BY <1>16 DEF ReleaseArc, TypeOK, RingInv, Holds, At
  <2>2. TypeOK'
    <3>1. pc' = [pc EXCEPT ![t] = "gone"]
      BY <1>16 DEF ReleaseArc, Goto
    <3>2. pc' \in [p : {"idle", "check", "space", "fill", "publish", "drop", "gone"},
                   c : {"idle", "look", "check", "last", "take", "advance", "drop", "gone"}]
      <4>1. CASE t = "p"
        BY <3>1, <4>1 DEF TypeOK
      <4>2. CASE t = "c"
        BY <3>1, <4>2 DEF TypeOK
      <4> QED
        BY <4>1, <4>2
    <3>3. refs' \in 0 .. 2 /\ ring' \in {"live", "dropping"}
      BY <2>1
    <3> QED
      BY <1>16, <3>2, <3>3 DEF ReleaseArc, TypeOK, history
  <2>3. ProducerInv'
    BY <1>16 DEF ReleaseArc, TypeOK, ProducerInv, history, At, Goto, InFlight, InCall
  <2>4. ConsumerInv'
    BY <1>16, <2>1 DEF ReleaseArc, TypeOK, ConsumerInv, history, At, Goto
  <2>5. SlotInv'
    BY <1>16 DEF ReleaseArc, TypeOK, SlotInv, history, At, Goto
  <2>6. RingInv' /\ InOrder'
    BY <1>16, <2>1 DEF ReleaseArc, TypeOK, RingInv, InOrder, Holds, history, At, Goto
  <2> QED
    BY <2>2, <2>3, <2>4, <2>5, <2>6
<1>17. CASE DropNext \/ GuardDropNext
  <2>1. PICK state \in {"dropping", "guard"}, afterPanic \in {"guard", "aborted"} :
          DropElement(state, afterPanic)
    BY <1>17 DEF DropNext, GuardDropNext
  <2>2. /\ head \in 0 .. MaxSends /\ tail \in 0 .. head /\ tail < head
        /\ ring # "live" /\ At("p", "gone") /\ At("c", "gone")
        /\ Len(received) + Len(dropped) = tail
    <3>1. head \in 0 .. MaxSends /\ tail \in 0 .. head /\ tail \in 0 .. MaxSends
      BY DEF TypeOK
    <3>2. head % WordSize # tail % WordSize
      BY <2>1 DEF DropElement, Left
    <3>3. tail # head
      BY <3>2
    <3> QED
      BY <2>1, <3>1, <3>3 DEF DropElement, RingInv
  <2>3. Slot(tail) = tail % Cap /\ tail % Cap \in 0 .. Cap - 1 /\ slots[tail % Cap] = tail
    <3>1. tail \in 0 .. MaxSends
      BY <2>2
    <3>2. Slot(tail) = tail % Cap /\ tail % Cap \in 0 .. Cap - 1
      BY <3>1, SlotIs
    <3> QED
      BY <2>2, <3>2 DEF SlotInv, At
  <2>4. /\ slots' = [slots EXCEPT ![tail % Cap] = Uninit]
        /\ tail' = tail + 1 /\ dropped' = Append(dropped, tail) /\ tail \in Element
        /\ ring' \in {"dropping", "guard", "aborted"}
        /\ UNCHANGED <<head, producer_alive, consumer_alive, refs, pc, prod, cons,
                       calls, received, returned, recv_failed>>
    BY <2>1, <2>2, <2>3 DEF DropElement, Element
  <2>5. /\ dropped' \in Seq(Element) /\ Len(dropped') = Len(dropped) + 1
        /\ \A i \in 1 .. Len(dropped) : dropped'[i] = dropped[i]
        /\ dropped'[Len(dropped) + 1] = tail
    BY <2>4 DEF TypeOK
  <2>6. TypeOK'
    <3>1. slots' \in [0 .. Cap - 1 -> Element \cup {Uninit}]
      BY <2>4 DEF TypeOK
    <3>2. tail' \in 0 .. head /\ prod \in [tail : 0 .. tail', taken : 0 .. tail', closed : BOOLEAN]
      BY <2>2, <2>4 DEF TypeOK
    <3> QED
      BY <2>4, <2>5, <3>1, <3>2 DEF TypeOK
  <2>7. ProducerInv'
    BY <2>4 DEF ProducerInv, InFlight, InCall
  <2>8. ConsumerInv'
    BY <2>2, <2>4 DEF ConsumerInv, At
  <2>9. SlotInv'
    <3>1. head <= tail + Cap
      BY <2>2 DEF ProducerInv, TypeOK
    <3>2. ASSUME NEW q \in tail .. tail + Cap - 1, q # tail
          PROVE  slots'[q % Cap] = slots[q % Cap]
      <4>1. q \in Nat /\ tail \in Nat /\ q < tail + Cap /\ tail < q + Cap
        BY <2>2
      <4>2. q % Cap # tail % Cap /\ q % Cap \in 0 .. Cap - 1
        BY <3>2, <4>1, OtherSlot
      <4> QED
        BY <2>4, <4>2 DEF TypeOK
    <3>3. \A q \in tail' .. head - 1 : slots'[q % Cap] = q
      <4> TAKE q \in tail' .. head - 1
      <4>1. q \in tail .. tail + Cap - 1 /\ q # tail /\ q \in tail .. head - 1
        BY <2>2, <2>4, <3>1
      <4> QED
        BY <2>2, <3>2, <4>1 DEF SlotInv, At
    <3>4. slots'[(tail + Cap) % Cap] = Uninit
      <4>1. (tail + Cap) % Cap = tail % Cap
        <5>1. tail \in Nat
          BY <2>2
        <5> QED
          BY <5>1, SameSlotNextLap
      <4> QED
        BY <2>3, <2>4, <4>1 DEF TypeOK
    <3>5. \A q \in head .. tail' + Cap - 1 : slots'[q % Cap] = Uninit
      <4> TAKE q \in head .. tail' + Cap - 1
      <4>1. CASE q = tail + Cap
        BY <3>4, <4>1
      <4>2. CASE q # tail + Cap
        <5>1. q \in tail .. tail + Cap - 1 /\ q # tail /\ q \in head .. tail + Cap - 1
          BY <2>2, <2>4, <4>2
        <5> QED
          BY <2>2, <3>2, <5>1 DEF SlotInv, At
      <4> QED
        BY <4>1, <4>2
    <3> QED
      BY <2>2, <2>4, <3>3, <3>5 DEF SlotInv, At
  <2>10. RingInv'
    BY <2>2, <2>4, <2>5 DEF RingInv, Holds, At, TypeOK
  <2>11. InOrder'
    <3>1. InOrder /\ Len(received) \in Nat /\ Len(dropped) \in Nat
      BY DEF TypeOK
    <3>2. received' = received
      BY <2>4
    <3>3. tail = Len(received) + (Len(dropped) + 1) - 1
      BY <2>2, <3>1
    <3>4. \A i \in 1 .. Len(dropped') : i \in 1 .. Len(dropped) \/ i = Len(dropped) + 1
      BY <2>5, <3>1
    <3>5. \A i \in 1 .. Len(dropped') : dropped'[i] = Len(received) + i - 1
      BY <2>5, <3>1, <3>3, <3>4 DEF InOrder
    <3> QED
      BY <3>1, <3>2, <3>5 DEF InOrder
  <2> QED
    BY <2>6, <2>7, <2>8, <2>9, <2>10, <2>11
<1>18. CASE Free
  <2>1. tail = head /\ ring # "live" /\ ring' \in {"unwound", "freed"}
    <3>1. head \in Nat /\ tail \in Nat /\ tail <= head /\ head <= tail + Cap
      BY DEF TypeOK, ProducerInv
    <3>2. head % WordSize = tail % WordSize /\ ring # "live" /\ ring' \in {"unwound", "freed"}
      BY <1>18 DEF Free, Left
    <3> QED
      BY <3>1, <3>2, SameWord
  <2>2. TypeOK'
    BY <1>18, <2>1 DEF Free, TypeOK, shared, history
  <2>3. ProducerInv'
    BY <1>18 DEF Free, ProducerInv, shared, history, InFlight, InCall
  <2>4. ConsumerInv' /\ SlotInv'
    BY <1>18, <2>1 DEF Free, ConsumerInv, SlotInv, shared, history, At
  <2>5. RingInv' /\ InOrder'
    BY <1>18, <2>1 DEF Free, RingInv, InOrder, Holds, shared, history, At
  <2> QED
    BY <2>2, <2>3, <2>4, <2>5
<1>19. CASE Terminated \/ UNCHANGED vars
  <2>1. UNCHANGED <<shared, pc, prod, cons, history, ring>>
    BY <1>19 DEF Terminated, vars
  <2>2. TypeOK'
    BY <2>1 DEF TypeOK, shared, history
  <2>3. ProducerInv' /\ ConsumerInv'
    BY <2>1 DEF ProducerInv, ConsumerInv, shared, history, InFlight, InCall, At
  <2>4. SlotInv' /\ RingInv' /\ InOrder'
    BY <2>1 DEF SlotInv, RingInv, InOrder, shared, history, Holds, At
  <2> QED
    BY <2>2, <2>3, <2>4
<1> QED
  BY <1>1, <1>2, <1>3, <1>4, <1>5, <1>6, <1>7, <1>8, <1>9, <1>10, <1>11, <1>12, <1>13, <1>14,
     <1>15, <1>16, <1>17, <1>18, <1>19 DEF Next, ProducerStep, ConsumerStep, Teardown

(* The strengthened invariant holds of every reachable state.              *)
THEOREM Invariance ==
  ASSUME WholeLaps
  PROVE  Spec => []IInv
<1>1. Init => IInv
  BY InitInv
<1>2. IInv /\ [Next]_vars => IInv'
  BY StepInv
<1> QED
  BY <1>1, <1>2, PTL DEF Spec

-----------------------------------------------------------------------------
(* The properties of the ring *)

(* Every variable keeps its type, in particular tail never passes head.    *)
THEOREM Typing ==
  ASSUME WholeLaps
  PROVE  Spec => []TypeOK
<1>1. IInv => TypeOK
  BY DEF IInv
<1> QED
  BY <1>1, Invariance, PTL

(* What is at an earlier position of the slot about to be filled was taken *)
(* in the producer's past: it lies at least one lap back.                  *)
LEMMA NoDataRaceInv ==
  ASSUME WholeLaps, IInv
  PROVE  NoDataRace
<1> USE CapPositive
<1>1. head \in 0 .. MaxSends /\ prod.tail \in Nat /\ prod.taken = prod.tail
  BY DEF IInv, TypeOK, ProducerInv
<1>2. ASSUME At("p", "fill"), NEW q \in 0 .. head - 1, Slot(q) = Slot(head)
      PROVE  q < prod.taken
  <2>1. q \in Nat /\ head \in Nat /\ q < head /\ q \in 0 .. MaxSends
    BY <1>1
  <2>2. q % Cap = head % Cap
    BY <1>1, <1>2, <2>1, SlotIs
  <2>3. q + Cap <= head
    <3>1. SUFFICES ASSUME head < q + Cap PROVE FALSE
      BY <2>1
    <3> QED
      BY <2>1, <2>2, <3>1, DistinctSlots
  <2>4. head < prod.tail + Cap
    BY <1>2 DEF IInv, ProducerInv, At
  <2> QED
    BY <1>1, <2>1, <2>3, <2>4
<1>3. At("c", "take") => tail < cons.filled
  BY DEF IInv, ConsumerInv, At
<1> QED
  BY <1>2, <1>3 DEF NoDataRace

(* No slot is filled or taken while the other side may still access it.    *)
THEOREM RaceFreedom ==
  ASSUME WholeLaps
  PROVE  Spec => []NoDataRace
BY NoDataRaceInv, Invariance, PTL

(* The contract of RingBuffer::write holds at its only call.               *)
THEOREM EmptySlots ==
  ASSUME WholeLaps
  PROVE  Spec => []WritesToEmptySlot
<1>1. IInv => WritesToEmptySlot
  <2> SUFFICES ASSUME IInv, At("p", "fill") PROVE slots[Slot(head)] = Uninit
    BY DEF WritesToEmptySlot
  <2>1. /\ head \in 0 .. MaxSends /\ tail \in 0 .. head /\ prod.tail \in 0 .. tail
        /\ head < prod.tail + Cap
    BY DEF IInv, TypeOK, ProducerInv, At
  <2>2. Slot(head) = head % Cap /\ head \in head .. tail + Cap - 1
    BY <2>1, SlotIs, CapPositive
  <2> QED
    BY <2>2 DEF IInv, SlotInv, At
<1> QED
  BY <1>1, Invariance, PTL

(* Messages come out in order, none lost, none twice, whatever was dropped *)
(* with the ring and whichever destructor panicked.                        *)
THEOREM Fifo ==
  ASSUME WholeLaps
  PROVE  Spec => []InOrder
<1>1. IInv => InOrder
  BY DEF IInv
<1> QED
  BY <1>1, Invariance, PTL

(* recv never reports the end of the channel while a message is left.      *)
THEOREM DrainBeforeError ==
  ASSUME WholeLaps
  PROVE  Spec => []FailsOnlyWhenDrained
<1>1. IInv => FailsOnlyWhenDrained
  BY DEF IInv, ConsumerInv, FailsOnlyWhenDrained
<1> QED
  BY <1>1, Invariance, PTL

(* Once the ring is gone every element has met exactly one fate.           *)
THEOREM Accounting ==
  ASSUME WholeLaps
  PROVE  Spec => []EveryElementOnce
<1>1. IInv => EveryElementOnce
  <2> SUFFICES ASSUME IInv, ring \in {"freed", "unwound"}
               PROVE  /\ ToSet(received) \cup ToSet(dropped) \cup returned = 0 .. calls - 1
                      /\ Len(received) + Len(dropped) + Cardinality(returned) = calls
    BY DEF EveryElementOnce
  <2>1. /\ head \in Nat /\ calls \in Nat /\ calls >= head /\ tail = head
        /\ returned = head .. calls - 1
    BY CapPositive DEF IInv, TypeOK, ProducerInv, RingInv, InFlight, InCall, At
  <2>2. /\ received \in Seq(Element) /\ dropped \in Seq(Element)
        /\ Len(received) + Len(dropped) = head
        /\ Len(received) \in Nat /\ Len(dropped) \in Nat
    BY <2>1 DEF IInv, TypeOK, RingInv
  <2>3. ToSet(received) = 0 .. Len(received) - 1
    <3>1. ToSet(received) = {received[i] : i \in 1 .. Len(received)}
      BY <2>2 DEF ToSet
    <3>2. \A i \in 1 .. Len(received) : received[i] = i - 1
      BY DEF IInv, InOrder
    <3>3. ASSUME NEW n \in 0 .. Len(received) - 1
          PROVE  \E i \in 1 .. Len(received) : received[i] = n
      <4>1. n + 1 \in 1 .. Len(received) /\ received[n + 1] = n
        BY <2>2, <3>2
      <4> QED
        BY <4>1
    <3>4. \A i \in 1 .. Len(received) : received[i] \in 0 .. Len(received) - 1
      BY <2>2, <3>2
    <3> QED
      BY <3>1, <3>3, <3>4
  <2>4. ToSet(dropped) = Len(received) .. head - 1
    <3>1. ToSet(dropped) = {dropped[i] : i \in 1 .. Len(dropped)}
      BY <2>2 DEF ToSet
    <3>2. \A i \in 1 .. Len(dropped) : dropped[i] = Len(received) + i - 1
      BY DEF IInv, InOrder
    <3>3. ASSUME NEW n \in Len(received) .. head - 1
          PROVE  \E i \in 1 .. Len(dropped) : dropped[i] = n
      <4>1. n + 1 - Len(received) \in 1 .. Len(dropped)
        BY <2>2
      <4>2. dropped[n + 1 - Len(received)] = n
        BY <2>2, <3>2, <4>1
      <4> QED
        BY <4>1, <4>2
    <3>4. \A i \in 1 .. Len(dropped) : dropped[i] \in Len(received) .. head - 1
      BY <2>2, <3>2
    <3> QED
      BY <3>1, <3>3, <3>4
  <2>5. ToSet(received) \cup ToSet(dropped) \cup returned = 0 .. calls - 1
    BY <2>1, <2>2, <2>3, <2>4
  <2>6. Cardinality(returned) = calls - head
    <3>1. head \in Int /\ calls - 1 \in Int
      BY <2>1
    <3>2. Cardinality(head .. calls - 1) = IF head > calls - 1 THEN 0 ELSE calls - 1 - head + 1
      BY <3>1, FS_Interval
    <3> QED
      BY <2>1, <3>2
  <2> QED
    BY <2>1, <2>2, <2>5, <2>6
<1> QED
  BY <1>1, Invariance, PTL

-----------------------------------------------------------------------------
(* The ring implements the channel *)

(* The messages from t up to h, in order.                                  *)
Messages(t, h) == [i \in 1 .. h - t |-> t + i - 1]

(* They are a queue: the oldest is its head, the newest its end.           *)
LEMMA MessagesIs ==
  ASSUME NEW t \in Nat, NEW h \in Nat, t <= h
  PROVE  /\ Messages(t, h) \in Seq(Nat) /\ Len(Messages(t, h)) = h - t
         /\ \A i \in 1 .. h - t : Messages(t, h)[i] = t + i - 1
<1> DEFINE n == h - t
<1>1. n \in Nat
  OBVIOUS
<1>2. \A i \in 1 .. n : t + i - 1 \in Nat
  OBVIOUS
<1>3. Messages(t, h) = [i \in 1 .. n |-> t + i - 1]
  BY DEF Messages
<1> HIDE DEF n
<1>4. Messages(t, h) \in [1 .. n -> Nat]
  BY <1>2, <1>3
<1>5. Messages(t, h) \in Seq(Nat) /\ Len(Messages(t, h)) = n
  BY <1>1, <1>3, <1>4, SeqDef
<1> QED
  BY <1>3, <1>5 DEF n

(* A message is published behind the others.                               *)
LEMMA MessagesAppend ==
  ASSUME NEW t \in Nat, NEW h \in Nat, t <= h
  PROVE  Messages(t, h + 1) = Append(Messages(t, h), h)
<1> DEFINE m == Messages(t, h)
           a == Append(m, h)
           x == Messages(t, h + 1)
<1>1. /\ m \in Seq(Nat) /\ Len(m) = h - t /\ \A i \in 1 .. h - t : m[i] = t + i - 1
  BY MessagesIs
<1>2. h + 1 \in Nat /\ t <= h + 1 /\ (h + 1) - t = (h - t) + 1 /\ h - t \in Nat
  OBVIOUS
<1>3. x \in Seq(Nat) /\ Len(x) = (h - t) + 1 /\ \A i \in 1 .. (h - t) + 1 : x[i] = t + i - 1
  <2> DEFINE g == h + 1
  <2>1. g \in Nat /\ t <= g /\ x = Messages(t, g) /\ g - t = (h - t) + 1
    BY <1>2
  <2> HIDE DEF g, x
  <2> QED
    BY <2>1, MessagesIs
<1> HIDE DEF m, x
<1>4. /\ a \in Seq(Nat) /\ Len(a) = (h - t) + 1 /\ a[(h - t) + 1] = h
      /\ \A i \in 1 .. h - t : a[i] = m[i]
  BY <1>1, AppendProperties
<1>5. ASSUME NEW i \in 1 .. (h - t) + 1 PROVE x[i] = a[i]
  <2>1. i \in 1 .. h - t \/ (i = (h - t) + 1 /\ t + i - 1 = h)
    BY <1>2
  <2> QED
    BY <1>1, <1>3, <1>4, <2>1
<1> HIDE DEF a
<1>6. x = a
  BY <1>3, <1>4, <1>5, SeqEqual
<1> QED
  BY <1>6 DEF a, m, x

(* The oldest message is the first to go.                                  *)
LEMMA MessagesTail ==
  ASSUME NEW t \in Nat, NEW h \in Nat, t < h
  PROVE  /\ Messages(t, h) # <<>> /\ Head(Messages(t, h)) = t
         /\ Tail(Messages(t, h)) = Messages(t + 1, h)
<1> DEFINE m == Messages(t, h)
           b == Tail(m)
           x == Messages(t + 1, h)
           n == h - t
<1>1. /\ m \in Seq(Nat) /\ Len(m) = n /\ \A i \in 1 .. n : m[i] = t + i - 1
  BY MessagesIs
<1>2. n \in Nat \ {0} /\ t + 1 \in Nat /\ t + 1 <= h /\ h - (t + 1) = n - 1
  OBVIOUS
<1>3. x \in Seq(Nat) /\ Len(x) = n - 1 /\ \A i \in 1 .. n - 1 : x[i] = t + i
  <2> DEFINE s == t + 1
  <2>1. s \in Nat /\ s <= h /\ x = Messages(s, h) /\ h - s = n - 1
    BY <1>2
  <2>2. \A i \in 1 .. n - 1 : s + i - 1 = t + i
    BY <1>2
  <2>3. h \in Nat
    OBVIOUS
  <2> HIDE DEF s, x, n
  <2>4. x \in Seq(Nat) /\ Len(x) = n - 1 /\ \A i \in 1 .. n - 1 : x[i] = s + i - 1
    <3>1. /\ Messages(s, h) \in Seq(Nat) /\ Len(Messages(s, h)) = h - s
          /\ \A i \in 1 .. h - s : Messages(s, h)[i] = s + i - 1
      BY <2>1, <2>3, MessagesIs, Zenon
    <3> QED
      BY <2>1, <3>1, Zenon
  <2> QED
    BY <2>2, <2>4, SMTT(30)
<1> HIDE DEF m, x, n
<1>4. m # <<>>
  BY <1>1, <1>2, EmptySeq
<1>5. Head(m) = m[1] /\ b \in Seq(Nat) /\ Len(b) = n - 1 /\ \A i \in 1 .. n - 1 : b[i] = m[i + 1]
  BY <1>1, <1>2, <1>4, HeadTailProperties
<1>6. m[1] = t
  BY <1>1, <1>2
<1>7. ASSUME NEW i \in 1 .. n - 1 PROVE x[i] = b[i]
  <2>1. i + 1 \in 1 .. n /\ t + (i + 1) - 1 = t + i
    BY <1>2
  <2>2. m[i + 1] = t + i
    BY <1>1, <2>1
  <2> QED
    BY <1>3, <1>5, <2>2
<1> HIDE DEF b
<1>8. x = b
  BY <1>3, <1>5, <1>7, SeqEqual
<1> QED
  BY <1>4, <1>5, <1>6, <1>8 DEF m, b, x

(* The queue of the channel.                                               *)
Queue == [i \in 1 .. head - tail |-> ContentAt(tail + i - 1)]

QueueExact == Queue = Messages(tail, head)

(* The slots hold the messages of their positions, so the queue is what    *)
(* was published and not taken.                                            *)
LEMMA QueueIs ==
  ASSUME WholeLaps, IInv
  PROVE  QueueExact
<1>1. /\ head \in 0 .. MaxSends /\ tail \in 0 .. head /\ MaxSends \in Nat
      /\ \A q \in tail .. head - 1 : slots[q % Cap] = q \/ (q = tail /\ At("c", "advance"))
      /\ At("c", "advance") => cons.value = tail
  BY CapPositive DEF IInv, TypeOK, SlotInv, ConsumerInv
<1>2. ASSUME NEW i \in 1 .. head - tail PROVE ContentAt(tail + i - 1) = tail + i - 1
  <2> DEFINE q == tail + i - 1
  <2>1. q \in tail .. head - 1 /\ q \in 0 .. MaxSends
    BY <1>1
  <2> HIDE DEF q
  <2>2. Slot(q) = q % Cap
    BY <2>1, SlotIs
  <2>3. ContentAt(q) = q
    BY <1>1, <2>1, <2>2 DEF ContentAt
  <2> QED
    BY <2>3 DEF q
<1> QED
  BY <1>2 DEF QueueExact, Queue, Messages

(* Every step of the ring is one of the channel: a store to head accepts a *)
(* message, a store to tail hands one out.                                 *)
LEMMA ChannelStep ==
  ASSUME WholeLaps, IInv, [Next]_vars, QueueExact'
  PROVE  [Channel!Next]_(Channel!channelVars)
<1> USE CapPositive
<1>1. /\ head \in Nat /\ tail \in Nat /\ tail <= head /\ head <= tail + Cap
      /\ head - tail \in Nat /\ Cap \in Nat
  BY DEF IInv, TypeOK, ProducerInv
<1>2. /\ pc \in [p : {"idle", "check", "space", "fill", "publish", "drop", "gone"},
                c : {"idle", "look", "check", "last", "take", "advance", "drop", "gone"}]
      /\ producer_alive \in BOOLEAN /\ consumer_alive \in BOOLEAN
  BY DEF IInv, TypeOK
<1>3. producer_alive = (pc.p \notin {"drop", "gone"})
  BY <1>2 DEF IInv, ProducerInv
<1>4. consumer_alive = (pc.c \notin {"drop", "gone"})
  BY <1>2 DEF IInv, ConsumerInv
<1>5. Queue = Messages(tail, head) /\ Queue' = Messages(tail', head')
  BY QueueIs DEF QueueExact
<1> DEFINE inside == <<calls, InCall("p"), InCall("c"), producer_alive, consumer_alive,
                       received, returned, dropped>>
<1>6. ASSUME UNCHANGED <<head, tail, inside>> PROVE UNCHANGED Channel!channelVars
  BY <1>5, <1>6 DEF Channel!channelVars, Queue
<1>7. CASE Send
  <2>1. /\ pc.p = "idle" /\ pc'.p = "check" /\ pc'.c = pc.c /\ calls < MaxSends /\ calls' = calls + 1
        /\ UNCHANGED <<head, tail, producer_alive, consumer_alive, received, returned, dropped>>
    BY <1>2, <1>7 DEF Send, shared, At, Goto
  <2>2. Queue' = Queue
    BY <1>5, <2>1
  <2>3. Channel!Send
    BY <1>3, <2>1, <2>2 DEF Channel!Send, InCall, Queue
  <2> QED
    BY <2>3 DEF Channel!Next
<1>8. CASE SendFails
  <2>1. /\ pc.p = "check" /\ pc'.p = "idle" /\ pc'.c = pc.c /\ ~consumer_alive
        /\ returned' = returned \cup {calls - 1}
        /\ UNCHANGED <<head, tail, producer_alive, consumer_alive, calls, received, dropped>>
    BY <1>2, <1>8 DEF SendFails, shared, At, Goto
  <2>2. Queue' = Queue
    BY <1>5, <2>1
  <2>3. Channel!SendFails
    BY <2>1, <2>2 DEF Channel!SendFails, InCall, Queue
  <2> QED
    BY <2>3 DEF Channel!Next
<1>9. CASE Publish
  <2>1. /\ pc.p = "publish" /\ pc'.p = "idle" /\ pc'.c = pc.c /\ head' = head + 1
        /\ UNCHANGED <<tail, producer_alive, consumer_alive, calls, received, returned, dropped>>
    BY <1>2, <1>9 DEF Publish, history, At, Goto
  <2>2. calls - 1 = head /\ head < tail + Cap
    BY <2>1 DEF IInv, TypeOK, ProducerInv, InFlight, InCall, At
  <2>3. Queue' = Append(Queue, calls - 1)
    BY <1>1, <1>5, <2>1, <2>2, MessagesAppend
  <2>4. Len(Queue) < Cap
    <3>1. Len(Queue) = head - tail
      BY <1>1, <1>5, MessagesIs
    <3> QED
      BY <1>1, <2>2, <3>1
  <2>5. Channel!SendOk
    BY <2>1, <2>3, <2>4 DEF Channel!SendOk, InCall, Queue
  <2> QED
    BY <2>5 DEF Channel!Next
<1>10. CASE Recv
  <2>1. /\ pc.c = "idle" /\ pc'.c = "look" /\ pc'.p = pc.p
        /\ UNCHANGED <<head, tail, producer_alive, consumer_alive, calls, received, returned, dropped>>
    BY <1>2, <1>10 DEF Recv, shared, history, At, Goto
  <2>2. Queue' = Queue
    BY <1>5, <2>1
  <2>3. Channel!Recv
    BY <1>4, <2>1, <2>2 DEF Channel!Recv, InCall, Queue
  <2> QED
    BY <2>3 DEF Channel!Next
<1>11. CASE Advance
  <2>1. /\ pc.c = "advance" /\ pc'.c = "idle" /\ pc'.p = pc.p /\ tail' = tail + 1
        /\ received' = Append(received, cons.value)
        /\ UNCHANGED <<head, producer_alive, consumer_alive, calls, returned, dropped>>
    BY <1>2, <1>11 DEF Advance, At, Goto
  <2>2. cons.value = tail /\ tail < head
    BY <1>1, <2>1 DEF IInv, TypeOK, ConsumerInv, At
  <2>3. Queue # <<>> /\ Head(Queue) = tail /\ Queue' = Tail(Queue)
    BY <1>1, <1>5, <2>1, <2>2, MessagesTail
  <2>4. received' = Append(received, Head(Queue))
    BY <2>1, <2>2, <2>3
  <2>5. Channel!RecvOk
    BY <2>1, <2>3, <2>4 DEF Channel!RecvOk, InCall, Queue
  <2> QED
    BY <2>5 DEF Channel!Next
<1>12. ASSUME NEW h \in cons.head .. head, LoadHeadAgain(h)
       PROVE  Channel!RecvFails \/ UNCHANGED Channel!channelVars
  <2>1. /\ pc.c = "last" /\ pc'.p = pc.p
        /\ pc'.c = IF Differs(h) THEN "take" ELSE "idle"
        /\ UNCHANGED <<head, tail, producer_alive, consumer_alive, calls, received, returned, dropped>>
    BY <1>2, <1>12 DEF LoadHeadAgain, shared, At, Goto
  <2>2. h = head /\ ~producer_alive
    BY <1>1, <2>1 DEF IInv, TypeOK, ConsumerInv, At
  <2>3. Queue' = Queue
    BY <1>5, <2>1
  <2>4. CASE Differs(h)
    BY <1>6, <2>1, <2>4 DEF InCall
  <2>5. CASE ~Differs(h)
    <3>1. head = tail
      BY <1>1, <2>2, <2>5, SameWord DEF Differs
    <3>2. Queue = <<>>
      BY <1>1, <3>1 DEF Queue
    <3>3. Channel!RecvFails
      BY <2>1, <2>2, <2>3, <2>5, <3>2 DEF Channel!RecvFails, InCall, Queue
    <3> QED
      BY <3>3
  <2> QED
    BY <2>4, <2>5
<1>13. CASE DropProducer
  <2>1. /\ pc.p = "idle" /\ pc'.p = "drop" /\ pc'.c = pc.c /\ producer_alive' = FALSE
        /\ UNCHANGED <<head, tail, consumer_alive, calls, received, returned, dropped>>
    BY <1>2, <1>13 DEF DropProducer, history, At, Goto
  <2>2. Queue' = Queue
    BY <1>5, <2>1
  <2>3. Channel!CloseProducer
    BY <1>3, <2>1, <2>2 DEF Channel!CloseProducer, InCall, Queue
  <2> QED
    BY <2>3 DEF Channel!Next
<1>14. CASE DropConsumer
  <2>1. /\ pc.c = "idle" /\ pc'.c = "drop" /\ pc'.p = pc.p /\ consumer_alive' = FALSE
        /\ UNCHANGED <<head, tail, producer_alive, calls, received, returned, dropped>>
    BY <1>2, <1>14 DEF DropConsumer, history, At, Goto
  <2>2. Queue' = Queue
    BY <1>5, <2>1
  <2>3. Channel!CloseConsumer
    BY <1>4, <2>1, <2>2 DEF Channel!CloseConsumer, InCall, Queue
  <2> QED
    BY <2>3 DEF Channel!Next
<1>15. CASE DropNext \/ GuardDropNext
  <2>1. /\ ring # "live" /\ head % WordSize # tail % WordSize /\ tail' = tail + 1
        /\ dropped' = Append(dropped, slots[Slot(tail)])
        /\ UNCHANGED <<head, pc, producer_alive, consumer_alive, calls, received, returned>>
    BY <1>15 DEF DropNext, GuardDropNext, DropElement, Left
  <2>2. tail < head /\ pc.p = "gone" /\ pc.c = "gone"
    BY <1>1, <2>1 DEF IInv, RingInv, At
  <2>3. slots[Slot(tail)] = tail
    <3>1. tail \in 0 .. MaxSends /\ tail \in tail .. head - 1
      BY <1>1, <2>2 DEF IInv, TypeOK
    <3>2. Slot(tail) = tail % Cap
      BY <3>1, SlotIs
    <3> QED
      BY <2>2, <3>1, <3>2 DEF IInv, SlotInv, At
  <2>4. Queue # <<>> /\ Head(Queue) = tail /\ Queue' = Tail(Queue)
    BY <1>1, <1>5, <2>1, <2>2, MessagesTail
  <2>5. dropped' = Append(dropped, Head(Queue))
    BY <2>1, <2>3, <2>4
  <2>6. Channel!Discard
    BY <1>3, <1>4, <2>1, <2>2, <2>4, <2>5 DEF Channel!Discard, InCall, Queue
  <2> QED
    BY <2>6 DEF Channel!Next
<1>16. CASE SeeConsumer \/ (\E t \in prod.tail .. tail : LoadTail(t)) \/ Fill
  <2>1. /\ pc.p \in {"check", "space", "fill"} /\ pc'.p \in {"check", "space", "fill", "publish"}
        /\ pc'.c = pc.c /\ UNCHANGED <<head, tail, producer_alive, consumer_alive, history>>
    BY <1>2, <1>16 DEF SeeConsumer, LoadTail, Fill, shared, At, Goto
  <2> QED
    BY <1>6, <2>1 DEF InCall, history
<1>17. CASE \/ \E h \in cons.head .. head : LoadHead(h)
            \/ SeeProducer \/ SeeProducerGone \/ Take
  <2>1. /\ pc.c \in {"look", "check", "take"} /\ pc'.c \in {"look", "check", "last", "take", "advance"}
        /\ pc'.p = pc.p /\ UNCHANGED <<head, tail, producer_alive, consumer_alive, history>>
    BY <1>2, <1>17 DEF LoadHead, SeeProducer, SeeProducerGone, Take, shared, At, Goto
  <2> QED
    BY <1>6, <2>1 DEF InCall, history
<1>18. CASE \E t \in {"p", "c"} : ReleaseArc(t)
  <2>1. PICK t \in {"p", "c"} : ReleaseArc(t)
    BY <1>18
  <2>2. /\ pc[t] = "drop" /\ pc' = [pc EXCEPT ![t] = "gone"]
        /\ UNCHANGED <<head, tail, producer_alive, consumer_alive, history>>
    BY <2>1 DEF ReleaseArc, At, Goto
  <2>3. InCall("p")' = InCall("p") /\ InCall("c")' = InCall("c")
    <3>1. CASE t = "p"
      BY <1>2, <2>2, <3>1 DEF InCall
    <3>2. CASE t = "c"
      BY <1>2, <2>2, <3>2 DEF InCall
    <3> QED
      BY <3>1, <3>2
  <2> QED
    BY <1>6, <2>2, <2>3 DEF history
<1>19. CASE Free \/ Terminated \/ UNCHANGED vars
  <2>1. UNCHANGED <<shared, pc, history>>
    BY <1>19 DEF Free, Terminated, vars
  <2> QED
    BY <1>6, <2>1 DEF shared, history, InCall
<1> QED
  BY <1>7, <1>8, <1>9, <1>10, <1>11, <1>12, <1>13, <1>14, <1>15, <1>16, <1>17, <1>18, <1>19
  DEF Next, ProducerStep, ConsumerStep, Teardown, Channel!Next

(* The ring is a bounded first-in first-out channel, as the docs of        *)
(* Producer::send and Consumer::recv promise it.                           *)
THEOREM Implementation ==
  ASSUME WholeLaps
  PROVE  Spec => ImplementsChannel
<1>1. Init => Channel!Init
  <2> SUFFICES ASSUME Init PROVE Channel!Init
    OBVIOUS
  <2>1. head - tail = 0 /\ pc.p = "idle" /\ pc.c = "idle"
    BY DEF Init
  <2>2. Queue = <<>>
    BY <2>1 DEF Queue
  <2> QED
    BY <2>1, <2>2 DEF Init, Channel!Init, InCall, Queue
<1>2. IInv /\ IInv' /\ [Next]_vars => [Channel!Next]_(Channel!channelVars)
  <2>1. IInv => QueueExact
    BY QueueIs
  <2>2. IInv' => QueueExact'
    BY <2>1, PTL
  <2> QED
    BY <2>2, ChannelStep
<1> QED
  BY <1>1, <1>2, Invariance, PTL DEF Spec, ImplementsChannel, Channel!Spec
=============================================================================
