------------------------- MODULE ThreadServerProofs -------------------------
(***************************************************************************)
(* The table of the thread server is right for every set of connections    *)
(* and locks, every kind and number of lines, and every room in the        *)
(* sockets.                                                                *)
(***************************************************************************)
EXTENDS ThreadServer, LockClientsProofs

(* A thread sleeps for a lock whose name it knows.                         *)
SleepersNamed == \A c \in Conns : pc[c] = "parked" => wake[c].lock \in Locks

IInv == TypeOK /\ SleepersNamed /\ HoldersKnow /\ QueuesExact

-----------------------------------------------------------------------------
(* Promotion *)

(* A connection c that does not wait gives up locks S that it holds: the   *)
(* new holders are those at the front of the queues, and table, queues and *)
(* threads go on to agree.                                                 *)
LEMMA PromotionKeeps ==
  ASSUME IInv,
         NEW c \in Conns, pc[c] # "parked",
         NEW S \in SUBSET Locks, \A l \in S : holder[l] = c,
         PromoteNext(S, waiters),
         held' = [held EXCEPT ![c] = @ \ S],
         \A d \in Conns : pc'[d] = "parked" <=> pc[d] = "parked"
  PROVE  /\ holder' \in [Locks -> Conns \cup {None}]
         /\ waiters' \in [Locks -> Seq(Conns)]
         /\ wake' \in [Conns -> [lock : Locks \cup {None},
                                 state : {"Waiting", "Granted", "Evicted"}]]
         /\ SleepersNamed' /\ HoldersKnow' /\ QueuesExact'
<1> DEFINE Waits(l) == l \in S /\ waiters[l] # <<>>
           Next1(l) == IF waiters[l] = <<>> THEN None ELSE Head(waiters[l])
           Lucky(d) == \E l \in S : Next1(l) = d
<1>1. /\ None \notin Conns /\ None \notin Locks
      /\ holder \in [Locks -> Conns \cup {None}]
      /\ waiters \in [Locks -> Seq(Conns)]
      /\ wake \in [Conns -> [lock : Locks \cup {None},
                             state : {"Waiting", "Granted", "Evicted"}]]
      /\ held \in [Conns -> SUBSET Locks]
  BY ClientsAssumption DEF IInv, TypeOK
<1>2. \A l \in Locks :
        /\ \A d \in Conns : d \in Range(waiters[l]) <=> pc[d] = "parked" /\ wake[d] = Asleep(l)
        /\ IsInjective(waiters[l])
        /\ holder[l] \in Range(waiters[l]) \cup {None} => waiters[l] = <<>>
  BY DEF IInv, QueuesExact
<1>3. \A d \in Conns, l \in Locks :
        holder[l] = d <=> \/ l \in held[d]
                          \/ pc[d] = "parked" /\ wake[d] = [lock |-> l, state |-> "Granted"]
  BY DEF IInv, HoldersKnow
<1>4. \A l \in Locks : waiters[l] # <<>> =>
        /\ Head(waiters[l]) \in Conns /\ Head(waiters[l]) \in Range(waiters[l])
        /\ Tail(waiters[l]) \in Seq(Conns)
        /\ Range(Tail(waiters[l])) = Range(waiters[l]) \ {Head(waiters[l])}
        /\ IsInjective(Tail(waiters[l]))
  BY <1>1, <1>2, TailQueue
<1>5. \A l \in S, d \in Conns : Next1(l) = d =>
        /\ waiters[l] # <<>> /\ d = Head(waiters[l])
        /\ pc[d] = "parked" /\ wake[d] = [lock |-> l, state |-> "Waiting"]
  BY <1>1, <1>2, <1>4 DEF Asleep
<1>6. /\ \A l \in Locks : holder'[l] = IF l \in S THEN Next1(l) ELSE holder[l]
      /\ \A l \in Locks : waiters'[l] = IF Waits(l) THEN Tail(waiters[l]) ELSE waiters[l]
      /\ \A d \in Conns : wake'[d] = IF Lucky(d) THEN [wake[d] EXCEPT !.state = "Granted"]
                                                 ELSE wake[d]
      /\ holder' = [l \in Locks |-> holder'[l]]
      /\ waiters' = [l \in Locks |-> waiters'[l]]
      /\ wake' = [d \in Conns |-> wake'[d]]
  <2>1. /\ holder' = [l \in Locks |-> IF l \in S THEN Next1(l) ELSE holder[l]]
        /\ waiters' = [l \in Locks |-> IF Waits(l) THEN Tail(waiters[l]) ELSE waiters[l]]
        /\ wake' = [d \in Conns |-> IF Lucky(d) THEN [wake[d] EXCEPT !.state = "Granted"]
                                                ELSE wake[d]]
    BY Zenon DEF PromoteNext
  <2> HIDE DEF Next1, Waits, Lucky
  <2> QED
    BY <2>1
<1>7. \A l \in S, d \in Conns :
        Next1(l) = d => wake'[d] = [lock |-> l, state |-> "Granted"]
  <2> TAKE l \in S, d \in Conns
  <2> HAVE Next1(l) = d
  <2>1. wake[d] = [lock |-> l, state |-> "Waiting"] /\ Lucky(d)
    BY <1>5
  <2>2. wake'[d] = [wake[d] EXCEPT !.state = "Granted"]
    BY <1>6, <2>1
  <2> QED
    BY <2>1, <2>2
<1>8. \A d \in Conns : ~Lucky(d) => wake'[d] = wake[d]
  BY <1>6
<1>9. \A d \in Conns : Lucky(d) => \E l \in S : Next1(l) = d
  OBVIOUS
<1>10. \A l \in Locks : Waits(l) => Next1(l) = Head(waiters[l]) /\ Lucky(Head(waiters[l]))
  OBVIOUS
<1>11. \A l \in S : waiters[l] = <<>> => Next1(l) = None
  OBVIOUS
<1>12. \A l \in Locks : Waits(l) <=> l \in S /\ waiters[l] # <<>>
  OBVIOUS
<1> HIDE DEF Next1, Waits, Lucky
<1>20. holder' \in [Locks -> Conns \cup {None}]
  <2>1. \A l \in Locks : holder'[l] \in Conns \cup {None}
    BY <1>1, <1>4, <1>6, <1>10, <1>11, <1>12
  <2> QED
    BY <1>6, <2>1
<1>21. waiters' \in [Locks -> Seq(Conns)]
  <2>1. ASSUME NEW l \in Locks PROVE waiters'[l] \in Seq(Conns)
    <3>1. CASE Waits(l)
      BY <1>4, <1>6, <1>12, <3>1
    <3>2. CASE ~Waits(l)
      BY <1>1, <1>6, <3>2
    <3> QED
      BY <3>1, <3>2
  <2> QED
    BY <1>6, <2>1
<1>22. wake' \in [Conns -> [lock : Locks \cup {None},
                            state : {"Waiting", "Granted", "Evicted"}]]
  <2>1. ASSUME NEW d \in Conns
        PROVE  wake'[d] \in [lock : Locks \cup {None},
                             state : {"Waiting", "Granted", "Evicted"}]
    <3>1. CASE Lucky(d)
      <4>1. PICK l \in S : wake'[d] = [lock |-> l, state |-> "Granted"]
        BY <1>7, <1>9, <3>1
      <4> QED
        BY <4>1
    <3>2. CASE ~Lucky(d)
      BY <1>1, <1>8, <3>2
    <3> QED
      BY <3>1, <3>2
  <2> QED
    BY <1>6, <2>1
<1>23. SleepersNamed'
  <2> SUFFICES ASSUME NEW d \in Conns, pc'[d] = "parked"
               PROVE  wake'[d].lock \in Locks
    BY DEF SleepersNamed
  <2>1. CASE Lucky(d)
    <3>1. PICK l \in S : wake'[d] = [lock |-> l, state |-> "Granted"]
      BY <1>7, <1>9, <2>1
    <3> QED
      BY <3>1
  <2>2. CASE ~Lucky(d)
    BY <1>8, <2>2 DEF IInv, SleepersNamed
  <2> QED
    BY <2>1, <2>2
<1>24. HoldersKnow'
  <2> SUFFICES ASSUME NEW d \in Conns, NEW l \in Locks
               PROVE  holder'[l] = d <=>
                        \/ l \in held'[d]
                        \/ pc'[d] = "parked" /\ wake'[d] = [lock |-> l, state |-> "Granted"]
    BY DEF HoldersKnow
  <2>1. held'[d] = IF d = c THEN held[d] \ S ELSE held[d]
    BY <1>1
  <2>2. CASE l \in S
    <3>1. holder'[l] = Next1(l) /\ holder[l] = c
      BY <1>6, <2>2
    <3>2. l \notin held'[d]
      <4>1. CASE d = c
        BY <2>1, <2>2, <4>1
      <4>2. CASE d # c
        <5>1. l \notin held[d]
          BY <1>3, <3>1, <4>2
        <5> QED
          BY <2>1, <4>2, <5>1
      <4> QED
        BY <4>1, <4>2
    <3>3. CASE Next1(l) = d
      BY <1>5, <1>7, <2>2, <3>1, <3>3
    <3>4. CASE Next1(l) # d
      <4>1. CASE Lucky(d)
        <5>1. PICK m \in S : Next1(m) = d
          BY <1>9, <4>1
        <5>2. wake'[d] = [lock |-> m, state |-> "Granted"] /\ m # l
          BY <1>7, <3>4, <5>1
        <5> QED
          BY <3>1, <3>2, <3>4, <5>2
      <4>2. CASE ~Lucky(d)
        <5>1. ~(pc[d] = "parked" /\ wake[d] = [lock |-> l, state |-> "Granted"])
          BY <1>3, <3>1
        <5> QED
          BY <1>8, <3>1, <3>2, <3>4, <4>2, <5>1
      <4> QED
        BY <4>1, <4>2
    <3> QED
      BY <3>3, <3>4
  <2>3. CASE l \notin S
    <3>1. holder'[l] = holder[l] /\ (l \in held'[d] <=> l \in held[d])
      BY <1>6, <2>1, <2>3
    <3>2. CASE Lucky(d)
      <4>1. PICK m \in S : Next1(m) = d
        BY <1>9, <3>2
      <4>2. /\ wake'[d] = [lock |-> m, state |-> "Granted"] /\ m # l
            /\ wake[d] = [lock |-> m, state |-> "Waiting"]
        BY <1>5, <1>7, <2>3, <4>1
      <4>3. /\ wake'[d] # [lock |-> l, state |-> "Granted"]
            /\ wake[d] # [lock |-> l, state |-> "Granted"]
        BY <4>2
      <4> QED
        BY <1>3, <3>1, <4>3
    <3>3. CASE ~Lucky(d)
      BY <1>3, <1>8, <3>1, <3>3
    <3> QED
      BY <3>2, <3>3
  <2> QED
    BY <2>2, <2>3
<1>25. QueuesExact'
  <2> SUFFICES ASSUME NEW l \in Locks
               PROVE  /\ \A d \in Conns : d \in Range(waiters'[l]) <=>
                                            pc'[d] = "parked" /\ wake'[d] = Asleep(l)
                      /\ IsInjective(waiters'[l])
                      /\ holder'[l] \in Range(waiters'[l]) \cup {None} => waiters'[l] = <<>>
    BY DEF QueuesExact
  <2>1. \A d \in Conns : Lucky(d) => wake'[d] # Asleep(l)
    <3> SUFFICES ASSUME NEW d \in Conns, Lucky(d) PROVE wake'[d] # Asleep(l)
      OBVIOUS
    <3>1. PICK m \in S : wake'[d] = [lock |-> m, state |-> "Granted"]
      BY <1>7, <1>9
    <3> QED
      BY <3>1 DEF Asleep
  <2>2. \A d \in Conns : Lucky(d) /\ Next1(l) # d => d \notin Range(waiters[l])
    <3> SUFFICES ASSUME NEW d \in Conns, Lucky(d), Next1(l) # d
                 PROVE  d \notin Range(waiters[l])
      OBVIOUS
    <3>1. PICK m \in S : Next1(m) = d
      BY <1>9
    <3>2. wake[d] = [lock |-> m, state |-> "Waiting"] /\ m # l
      BY <1>5, <3>1
    <3>3. wake[d].lock # Asleep(l).lock
      BY <3>2 DEF Asleep
    <3> QED
      BY <1>2, <3>3
  <2>3. CASE Waits(l)
    <3>1. /\ waiters'[l] = Tail(waiters[l]) /\ holder'[l] = Head(waiters[l])
          /\ Next1(l) = Head(waiters[l]) /\ Lucky(Head(waiters[l]))
      BY <1>6, <1>10, <1>12, <2>3
    <3>2. /\ Range(waiters'[l]) = Range(waiters[l]) \ {Head(waiters[l])}
          /\ Head(waiters[l]) \in Conns /\ IsInjective(waiters'[l])
      BY <1>4, <1>12, <2>3, <3>1
    <3>3. ASSUME NEW d \in Conns
          PROVE  d \in Range(waiters'[l]) <=> pc'[d] = "parked" /\ wake'[d] = Asleep(l)
      BY <1>2, <1>8, <2>1, <2>2, <3>1, <3>2
    <3> QED
      BY <1>1, <3>1, <3>2, <3>3
  <2>4. CASE ~Waits(l)
    <3>1. waiters'[l] = waiters[l]
      BY <1>6, <2>4
    <3>2. \A d \in Conns : Lucky(d) => d \notin Range(waiters[l])
      <4> SUFFICES ASSUME NEW d \in Conns, Lucky(d), d \in Range(waiters[l])
                   PROVE  FALSE
        OBVIOUS
      <4>1. PICK m \in S : Next1(m) = d
        BY <1>9
      <4>2. wake[d] = [lock |-> m, state |-> "Waiting"] /\ waiters[m] # <<>>
        BY <1>5, <4>1
      <4>3. wake[d] = Asleep(l)
        BY <1>2
      <4>4. wake[d].lock = m /\ Asleep(l).lock = l
        BY <4>2 DEF Asleep
      <4> QED
        BY <1>12, <2>4, <4>2, <4>3, <4>4
    <3>3. ASSUME NEW d \in Conns
          PROVE  d \in Range(waiters'[l]) <=> pc'[d] = "parked" /\ wake'[d] = Asleep(l)
      BY <1>2, <1>8, <2>1, <3>1, <3>2
    <3>4. holder'[l] \in Range(waiters'[l]) \cup {None} => waiters'[l] = <<>>
      <4>1. CASE l \in S
        BY <1>12, <2>4, <3>1, <4>1
      <4>2. CASE l \notin S
        BY <1>2, <1>6, <3>1, <4>2
      <4> QED
        BY <4>1, <4>2
    <3> QED
      BY <1>2, <3>1, <3>3, <3>4
  <2> QED
    BY <2>3, <2>4
<1> QED
  BY <1>20, <1>21, <1>22, <1>23, <1>24, <1>25

-----------------------------------------------------------------------------
(* Steps that leave the table alone, and a free lock taken                 *)

LEMMA TableUntouched ==
  ASSUME IInv, UNCHANGED <<tableVars, held>>,
         \A d \in Conns : pc'[d] = "parked" <=> pc[d] = "parked"
  PROVE  SleepersNamed' /\ HoldersKnow' /\ QueuesExact'
<1>1. holder' = holder /\ waiters' = waiters /\ wake' = wake /\ held' = held
  BY DEF tableVars
<1>2. SleepersNamed'
  BY <1>1 DEF IInv, SleepersNamed
<1>3. HoldersKnow'
  BY <1>1 DEF IInv, HoldersKnow
<1>4. QueuesExact'
  BY <1>1 DEF IInv, QueuesExact
<1> QED
  BY <1>2, <1>3, <1>4

(* Nobody waits for a free lock, so that its taker is its only user.       *)
LEMMA FreeLockTaken ==
  ASSUME IInv, NEW c \in Conns, pc[c] # "parked", NEW l \in Locks, holder[l] = None,
         holder' = [holder EXCEPT ![l] = c],
         held' = [held EXCEPT ![c] = @ \cup {l}],
         UNCHANGED <<waiters, wake>>,
         \A d \in Conns : pc'[d] = "parked" <=> pc[d] = "parked"
  PROVE  /\ holder' \in [Locks -> Conns \cup {None}]
         /\ held' \in [Conns -> SUBSET Locks]
         /\ SleepersNamed' /\ HoldersKnow' /\ QueuesExact'
<1>1. /\ None \notin Conns
      /\ holder \in [Locks -> Conns \cup {None}] /\ held \in [Conns -> SUBSET Locks]
  BY ClientsAssumption DEF IInv, TypeOK
<1>2. holder' \in [Locks -> Conns \cup {None}] /\ held' \in [Conns -> SUBSET Locks]
  BY <1>1
<1>3. SleepersNamed'
  BY DEF IInv, SleepersNamed
<1>4. HoldersKnow'
  <2> SUFFICES ASSUME NEW d \in Conns, NEW m \in Locks
               PROVE  holder'[m] = d <=>
                        \/ m \in held'[d]
                        \/ pc'[d] = "parked" /\ wake'[d] = [lock |-> m, state |-> "Granted"]
    BY DEF HoldersKnow
  <2>1. holder[m] = d <=> \/ m \in held[d]
                          \/ pc[d] = "parked" /\ wake[d] = [lock |-> m, state |-> "Granted"]
    BY DEF IInv, HoldersKnow
  <2>2. CASE m = l
    <3>1. holder'[m] = c /\ holder[m] # d
      BY <1>1, <2>2
    <3>2. m \in held'[d] <=> d = c
      BY <1>1, <2>1, <2>2, <3>1
    <3> QED
      BY <2>1, <3>1, <3>2
  <2>3. CASE m # l
    BY <1>1, <2>1, <2>3
  <2> QED
    BY <2>2, <2>3
<1>5. QueuesExact'
  <2> SUFFICES ASSUME NEW m \in Locks
               PROVE  /\ \A d \in Conns : d \in Range(waiters'[m]) <=>
                                            pc'[d] = "parked" /\ wake'[d] = Asleep(m)
                      /\ IsInjective(waiters'[m])
                      /\ holder'[m] \in Range(waiters'[m]) \cup {None} => waiters'[m] = <<>>
    BY DEF QueuesExact
  <2>1. /\ \A d \in Conns : d \in Range(waiters[m]) <=> pc[d] = "parked" /\ wake[d] = Asleep(m)
        /\ IsInjective(waiters[m])
        /\ holder[m] \in Range(waiters[m]) \cup {None} => waiters[m] = <<>>
    BY DEF IInv, QueuesExact
  <2>2. holder'[m] \in Range(waiters[m]) \cup {None} => waiters[m] = <<>>
    BY <1>1, <2>1
  <2> QED
    BY <2>1, <2>2
<1> QED
  BY <1>2, <1>3, <1>4, <1>5

-----------------------------------------------------------------------------
(* Lines and replies *)

LEMMA ReadLine ==
  ASSUME TypeOK, NEW c \in Conns, NEW kinds, Reads(c, kinds)
  PROVE  /\ ClientsTypeOK' /\ pc[c] = "read"
         /\ kinds \subseteq Asks => Asked(c) \in Locks
<1>1. /\ inbox \in [Conns -> Seq(Line)] /\ inbox[c] # <<>>
      /\ inbox' = [inbox EXCEPT ![c] = Tail(@)]
      /\ Head(inbox[c]).kind \in kinds /\ pc[c] = "read"
      /\ UNCHANGED <<link, replies, owned, releasing, sends>>
  BY DEF TypeOK, ClientsTypeOK, Reads
<1>2. Head(inbox[c]) \in Line /\ Tail(inbox[c]) \in Seq(Line)
  BY <1>1, HeadTailProperties
<1>3. ClientsTypeOK'
  BY <1>1, <1>2 DEF TypeOK, ClientsTypeOK
<1>4. kinds \subseteq Asks => Asked(c) \in Locks
  BY <1>1, <1>2 DEF Asked, Line, Asks, Others
<1> QED
  BY <1>1, <1>3, <1>4

LEMMA ReplyTyped ==
  ASSUME TypeOK, NEW c \in Conns, NEW kind, NEW l,
         \/ l \in Locks /\ kind \in {"GRANTED", "DENIED", "OK", "ALREADY_HELD", "NOT_HELD"}
         \/ l = None /\ kind = "INFO",
         Answers(c, kind, l)
  PROVE  /\ pc' \in [Conns -> {"read", "answer", "parked", "ended"}]
         /\ answer' \in [Conns -> Reply]
         /\ pc[c] # "parked" => \A d \in Conns : pc'[d] = "parked" <=> pc[d] = "parked"
<1>1. [kind |-> kind, lock |-> l] \in Reply
  BY DEF Reply
<1> QED
  BY <1>1 DEF Answers, TypeOK

-----------------------------------------------------------------------------
(* The steps *)

LEMMA InitInv == Init => IInv
<1> SUFFICES ASSUME Init PROVE IInv
  OBVIOUS
<1> USE DEF Init
<1>1. ClientsTypeOK
  BY EmptySeq, ClientsAssumption DEF ClientsInit, ClientsTypeOK
<1>2. TypeOK
  BY <1>1, EmptySeq DEF TypeOK, Asleep, NoReply, Reply
<1>3. SleepersNamed /\ HoldersKnow
  BY ClientsAssumption DEF SleepersNamed, HoldersKnow
<1>4. QueuesExact
  BY EmptyQueue DEF QueuesExact
<1> QED
  BY <1>2, <1>3, <1>4 DEF IInv

LEMMA ThreadKeeps ==
  ASSUME IInv, NEW c \in Conns, Thread(c)
  PROVE  IInv'
<1> USE DEF IInv
<1>0. TypeOK
  OBVIOUS
<1>1. CASE AcquireRejected(c)
  <2>1. /\ ClientsTypeOK' /\ pc[c] = "read" /\ Asked(c) \in Locks
    BY <1>0, <1>1, ReadLine DEF AcquireRejected, Asks
  <2>2. Answers(c, "ALREADY_HELD", Asked(c)) /\ UNCHANGED <<tableVars, held>> /\ mutex' = c
    BY <1>1 DEF AcquireRejected
  <2> QED
    BY <1>0, <2>1, <2>2, ReplyTyped, TableUntouched DEF TypeOK, tableVars
<1>2. CASE AcquireFree(c)
  <2>1. /\ ClientsTypeOK' /\ pc[c] = "read" /\ Asked(c) \in Locks
    BY <1>0, <1>2, ReadLine DEF AcquireFree, Asks
  <2>2. /\ Answers(c, "GRANTED", Asked(c)) /\ holder[Asked(c)] = None
        /\ holder' = [holder EXCEPT ![Asked(c)] = c]
        /\ held' = [held EXCEPT ![c] = @ \cup {Asked(c)}]
        /\ UNCHANGED <<waiters, wake, mutex>>
    BY <1>2 DEF AcquireFree
  <2>3. /\ pc' \in [Conns -> {"read", "answer", "parked", "ended"}]
        /\ answer' \in [Conns -> Reply]
        /\ \A d \in Conns : pc'[d] = "parked" <=> pc[d] = "parked"
    BY <1>0, <2>1, <2>2, ReplyTyped
  <2>4. /\ holder' \in [Locks -> Conns \cup {None}] /\ held' \in [Conns -> SUBSET Locks]
        /\ SleepersNamed' /\ HoldersKnow' /\ QueuesExact'
    BY <2>1, <2>2, <2>3, FreeLockTaken
  <2> QED
    BY <1>0, <2>1, <2>2, <2>3, <2>4 DEF TypeOK
<1>3. CASE AcquireWait(c)
  <2> DEFINE l == Asked(c)
  <2>1. /\ ClientsTypeOK' /\ pc[c] = "read" /\ l \in Locks
    BY <1>0, <1>3, ReadLine DEF AcquireWait, Asks
  <2>2. /\ holder[l] # None /\ holder[l] # c /\ c \notin Range(waiters[l])
        /\ waiters' = [waiters EXCEPT ![l] = Append(@, c)]
        /\ wake' = [wake EXCEPT ![c] = Asleep(l)]
        /\ pc' = [pc EXCEPT ![c] = "parked"]
        /\ UNCHANGED <<holder, held, mutex, answer>>
    BY <1>3 DEF AcquireWait
  <2> HIDE DEF l
  <2>3. /\ pc \in [Conns -> {"read", "answer", "parked", "ended"}]
        /\ waiters \in [Locks -> Seq(Conns)]
        /\ wake \in [Conns -> [lock : Locks \cup {None},
                               state : {"Waiting", "Granted", "Evicted"}]]
    BY <1>0 DEF TypeOK
  <2>4. /\ Append(waiters[l], c) \in Seq(Conns)
        /\ Range(Append(waiters[l], c)) = Range(waiters[l]) \cup {c}
        /\ IsInjective(Append(waiters[l], c))
    BY <2>1, <2>2, <2>3, AppendQueue DEF QueuesExact
  <2>5. TypeOK'
    <3>1. waiters' \in [Locks -> Seq(Conns)]
      BY <2>2, <2>3, <2>4
    <3>2. Asleep(l) \in [lock : Locks \cup {None}, state : {"Waiting", "Granted", "Evicted"}]
      BY <2>1 DEF Asleep
    <3>3. wake' \in [Conns -> [lock : Locks \cup {None},
                               state : {"Waiting", "Granted", "Evicted"}]]
      BY <2>2, <2>3, <3>2
    <3>4. pc' \in [Conns -> {"read", "answer", "parked", "ended"}]
      BY <2>2, <2>3
    <3> QED
      BY <1>0, <2>1, <2>2, <3>1, <3>3, <3>4 DEF TypeOK
  <2>6. SleepersNamed'
    BY <2>1, <2>2, <2>3 DEF SleepersNamed, Asleep
  <2>7. HoldersKnow'
    <3> SUFFICES ASSUME NEW d \in Conns, NEW m \in Locks
                 PROVE  holder'[m] = d <=>
                          \/ m \in held'[d]
                          \/ pc'[d] = "parked" /\ wake'[d] = [lock |-> m, state |-> "Granted"]
      BY DEF HoldersKnow
    <3>1. Asleep(l) # [lock |-> m, state |-> "Granted"]
      BY DEF Asleep
    <3> QED
      BY <2>1, <2>2, <2>3, <3>1 DEF HoldersKnow
  <2>8. QueuesExact'
    <3> SUFFICES ASSUME NEW m \in Locks
                 PROVE  /\ \A d \in Conns : d \in Range(waiters'[m]) <=>
                                              pc'[d] = "parked" /\ wake'[d] = Asleep(m)
                        /\ IsInjective(waiters'[m])
                        /\ holder[m] \in Range(waiters'[m]) \cup {None} => waiters'[m] = <<>>
      BY <2>2 DEF QueuesExact
    <3>1. /\ \A d \in Conns : d \in Range(waiters[m]) <=> pc[d] = "parked" /\ wake[d] = Asleep(m)
          /\ IsInjective(waiters[m])
          /\ holder[m] \in Range(waiters[m]) \cup {None} => waiters[m] = <<>>
      BY DEF QueuesExact
    <3>2. pc'[c] = "parked" /\ wake'[c] = Asleep(l)
      BY <2>2, <2>3
    <3>3. \A d \in Conns : d # c => pc'[d] = pc[d] /\ wake'[d] = wake[d]
      BY <2>2, <2>3
    <3>4. CASE m = l
      <4>1. waiters'[m] = Append(waiters[l], c)
        BY <2>1, <2>2, <2>3, <3>4
      <4>2. holder[m] \notin Range(waiters'[m]) \cup {None}
        <5>1. holder[m] \notin Range(waiters[m])
          <6>1. CASE waiters[m] = <<>>
            BY <6>1, EmptyQueue
          <6>2. CASE waiters[m] # <<>>
            BY <3>1, <6>2
          <6> QED
            BY <6>1, <6>2
        <5> QED
          BY <2>2, <2>4, <3>4, <4>1, <5>1
      <4> QED
        BY <2>4, <3>1, <3>2, <3>3, <3>4, <4>1, <4>2
    <3>5. CASE m # l
      <4>1. waiters'[m] = waiters[m]
        BY <2>2, <2>3, <3>5
      <4>2. Asleep(l) # Asleep(m)
        <5>1. Asleep(l).lock = l /\ Asleep(m).lock = m
          BY DEF Asleep
        <5> QED
          BY <3>5, <5>1
      <4>3. c \notin Range(waiters[m])
        BY <2>1, <3>1
      <4> QED
        BY <3>1, <3>2, <3>3, <4>1, <4>2, <4>3
    <3> QED
      BY <3>4, <3>5
  <2> QED
    BY <2>5, <2>6, <2>7, <2>8
<1>4. CASE Wake(c)
  <2> DEFINE granted == wake[c].state = "Granted"
             l == wake[c].lock
  <2>1. /\ pc[c] = "parked" /\ wake[c].state # "Waiting"
        /\ held' = [held EXCEPT ![c] = IF granted THEN @ \cup {l} ELSE @]
        /\ pc' = [pc EXCEPT ![c] = IF granted THEN "answer" ELSE "read"]
        /\ answer' = [answer EXCEPT ![c] = [kind |-> "GRANTED", lock |-> l]]
        /\ UNCHANGED <<clientVars, tableVars, mutex>>
    BY <1>4 DEF Wake
  <2>2. /\ l \in Locks
        /\ wake[c] \in [lock : Locks \cup {None}, state : {"Waiting", "Granted", "Evicted"}]
        /\ granted <=> wake[c] = [lock |-> l, state |-> "Granted"]
    BY <1>0, <2>1 DEF TypeOK, SleepersNamed
  <2>3. TypeOK'
    <3>1. ClientsTypeOK'
      BY <1>0, <2>1 DEF TypeOK, ClientsTypeOK, clientVars
    <3>2. [kind |-> "GRANTED", lock |-> l] \in Reply
      BY <2>2 DEF Reply
    <3>3. answer' \in [Conns -> Reply]
      BY <1>0, <2>1, <3>2 DEF TypeOK
    <3>4. held' \in [Conns -> SUBSET Locks]
      BY <1>0, <2>1, <2>2 DEF TypeOK
    <3>5. pc' \in [Conns -> {"read", "answer", "parked", "ended"}]
      BY <1>0, <2>1 DEF TypeOK
    <3> QED
      BY <1>0, <2>1, <3>1, <3>3, <3>4, <3>5 DEF TypeOK, tableVars
  <2>4. /\ holder' = holder /\ waiters' = waiters /\ wake' = wake
        /\ pc'[c] # "parked" /\ \A d \in Conns : d # c => pc'[d] = pc[d] /\ held'[d] = held[d]
        /\ held'[c] = IF granted THEN held[c] \cup {l} ELSE held[c]
    BY <1>0, <2>1 DEF tableVars, TypeOK
  <2> HIDE DEF granted, l
  <2>5. SleepersNamed'
    BY <2>4 DEF SleepersNamed
  <2>6. HoldersKnow'
    <3> SUFFICES ASSUME NEW d \in Conns, NEW m \in Locks
                 PROVE  holder'[m] = d <=>
                          \/ m \in held'[d]
                          \/ pc'[d] = "parked" /\ wake'[d] = [lock |-> m, state |-> "Granted"]
      BY DEF HoldersKnow
    <3>1. holder[m] = d <=> \/ m \in held[d]
                            \/ pc[d] = "parked" /\ wake[d] = [lock |-> m, state |-> "Granted"]
      BY DEF HoldersKnow
    <3>2. CASE d # c
      BY <2>4, <3>1, <3>2
    <3>3. CASE d = c
      <4>1. wake[c] = [lock |-> m, state |-> "Granted"] <=> granted /\ m = l
        BY <2>2 DEF granted, l
      <4> QED
        BY <2>1, <2>4, <3>1, <3>3, <4>1
    <3> QED
      BY <3>2, <3>3
  <2>7. QueuesExact'
    <3>1. \A m \in Locks : wake[c] # Asleep(m)
      BY <2>1 DEF Asleep
    <3> QED
      BY <2>4, <3>1 DEF QueuesExact
  <2> QED
    BY <2>3, <2>5, <2>6, <2>7
<1>5. CASE TryAcquire(c)
  <2> DEFINE l == Asked(c)
             free == holder[l] = None
  <2>1. /\ ClientsTypeOK' /\ pc[c] = "read" /\ l \in Locks
    BY <1>0, <1>5, ReadLine DEF TryAcquire, Asks
  <2>2. /\ Answers(c, IF free THEN "GRANTED" ELSE "DENIED", l)
        /\ holder' = [holder EXCEPT ![l] = IF free THEN c ELSE @]
        /\ held' = [held EXCEPT ![c] = IF free THEN @ \cup {l} ELSE @]
        /\ UNCHANGED <<waiters, wake, mutex>>
    BY <1>5 DEF TryAcquire
  <2> HIDE DEF l
  <2>3. /\ pc' \in [Conns -> {"read", "answer", "parked", "ended"}]
        /\ answer' \in [Conns -> Reply]
        /\ \A d \in Conns : pc'[d] = "parked" <=> pc[d] = "parked"
    BY <1>0, <2>1, <2>2, ReplyTyped
  <2>4. CASE free
    <3>1. /\ holder' \in [Locks -> Conns \cup {None}] /\ held' \in [Conns -> SUBSET Locks]
          /\ SleepersNamed' /\ HoldersKnow' /\ QueuesExact'
      BY <2>1, <2>2, <2>3, <2>4, FreeLockTaken
    <3> QED
      BY <1>0, <2>1, <2>2, <2>3, <3>1 DEF TypeOK
  <2>5. CASE ~free
    <3>1. UNCHANGED <<tableVars, held>>
      BY <1>0, <2>2, <2>5 DEF TypeOK, tableVars
    <3>2. SleepersNamed' /\ HoldersKnow' /\ QueuesExact'
      BY <2>3, <3>1, TableUntouched
    <3> QED
      BY <1>0, <2>1, <2>2, <2>3, <3>1, <3>2 DEF TypeOK, tableVars
  <2> QED
    BY <2>4, <2>5
<1>6. CASE ReleaseRejected(c)
  <2>1. /\ ClientsTypeOK' /\ pc[c] = "read" /\ Asked(c) \in Locks
    BY <1>0, <1>6, ReadLine DEF ReleaseRejected, Asks
  <2>2. Answers(c, "NOT_HELD", Asked(c)) /\ UNCHANGED <<tableVars, held, mutex>>
    BY <1>6 DEF ReleaseRejected
  <2> QED
    BY <1>0, <2>1, <2>2, ReplyTyped, TableUntouched DEF TypeOK, tableVars
<1>7. CASE Release(c)
  <2> DEFINE l == Asked(c)
  <2>1. /\ ClientsTypeOK' /\ pc[c] = "read" /\ l \in Locks
    BY <1>0, <1>7, ReadLine DEF Release, Asks
  <2>2. /\ Answers(c, "OK", l) /\ holder[l] = c /\ PromoteNext({l}, waiters)
        /\ held' = [held EXCEPT ![c] = @ \ {l}] /\ mutex' = mutex
    BY <1>7 DEF Release
  <2> HIDE DEF l
  <2>3. /\ pc' \in [Conns -> {"read", "answer", "parked", "ended"}]
        /\ answer' \in [Conns -> Reply]
        /\ \A d \in Conns : pc'[d] = "parked" <=> pc[d] = "parked"
    BY <1>0, <2>1, <2>2, ReplyTyped
  <2>4. /\ holder' \in [Locks -> Conns \cup {None}]
        /\ waiters' \in [Locks -> Seq(Conns)]
        /\ wake' \in [Conns -> [lock : Locks \cup {None},
                                state : {"Waiting", "Granted", "Evicted"}]]
        /\ SleepersNamed' /\ HoldersKnow' /\ QueuesExact'
    <3>1. {l} \in SUBSET Locks /\ \A m \in {l} : holder[m] = c
      BY <2>1, <2>2
    <3> QED
      BY <2>1, <2>2, <2>3, <3>1, PromotionKeeps
  <2>5. held' \in [Conns -> SUBSET Locks]
    BY <1>0, <2>2 DEF TypeOK
  <2> QED
    BY <1>0, <2>1, <2>2, <2>3, <2>4, <2>5 DEF TypeOK
<1>8. CASE Query(c) \/ Unknown(c)
  <2>1. ClientsTypeOK' /\ pc[c] = "read"
    BY <1>0, <1>8, ReadLine DEF Query, Unknown
  <2>2. Answers(c, "INFO", None) /\ UNCHANGED <<tableVars, held, mutex>>
    BY <1>8 DEF Query, Unknown
  <2> QED
    BY <1>0, <2>1, <2>2, ReplyTyped, TableUntouched DEF TypeOK, tableVars
<1>9. CASE SkipBlank(c)
  <2>1. ClientsTypeOK'
    BY <1>0, <1>9, ReadLine DEF SkipBlank
  <2>2. UNCHANGED <<tableVars, threadVars>>
    BY <1>9 DEF SkipBlank
  <2> QED
    BY <1>0, <2>1, <2>2, TableUntouched DEF TypeOK, tableVars, threadVars
<1>10. CASE WriteReply(c)
  <2>1. /\ pc[c] = "answer"
        /\ replies' = [replies EXCEPT ![c] = Sent(c, <<answer[c]>>)]
        /\ pc' = [pc EXCEPT ![c] = "read"]
        /\ answer' = [answer EXCEPT ![c] = NoReply]
        /\ mutex' = (IF mutex = c THEN None ELSE mutex)
        /\ UNCHANGED <<link, inbox, owned, releasing, sends, tableVars, held>>
    BY <1>10 DEF WriteReply
  <2>2. Sent(c, <<answer[c]>>) \in Seq(Reply)
    <3>1. replies[c] \in Seq(Reply) /\ <<answer[c]>> \in Seq(Reply) /\ <<>> \in Seq(Reply)
      BY <1>0 DEF TypeOK, ClientsTypeOK
    <3> QED
      BY <3>1, ConcatProperties DEF Sent
  <2>3. ClientsTypeOK'
    BY <1>0, <2>1, <2>2 DEF TypeOK, ClientsTypeOK
  <2>4. /\ pc' \in [Conns -> {"read", "answer", "parked", "ended"}]
        /\ answer' \in [Conns -> Reply] /\ mutex' \in Conns \cup {None}
        /\ \A d \in Conns : pc'[d] = "parked" <=> pc[d] = "parked"
    BY <1>0, <2>1 DEF TypeOK, NoReply, Reply
  <2> QED
    BY <1>0, <2>1, <2>3, <2>4, TableUntouched DEF TypeOK, tableVars
<1>11. CASE EndOfFile(c) \/ ReadError(c)
  <2> DEFINE stay == [l \in Locks |-> RemoveFirst(waiters[l], c)]
             mine == {l \in held[c] : holder[l] = c}
  <2>1. pc[c] = "read" /\ Cleanup(c)
    BY <1>11 DEF EndOfFile, ReadError
  <2>2. stay = waiters
    <3>1. \A l \in Locks : RemoveFirst(waiters[l], c) = waiters[l]
      <4> TAKE l \in Locks
      <4>1. waiters[l] \in Seq(Conns) /\ c \notin Range(waiters[l])
        BY <1>0, <2>1 DEF TypeOK, QueuesExact
      <4> QED
        BY <4>1, RemoveAbsent
    <3> QED
      BY <1>0, <3>1 DEF TypeOK
  <2>3. mine = held[c] /\ held[c] \in SUBSET Locks
    BY <1>0 DEF TypeOK, HoldersKnow
  <2>4. /\ PromoteNext(held[c], waiters)
        /\ held' = [held EXCEPT ![c] = {}]
        /\ pc' = [pc EXCEPT ![c] = "ended"]
        /\ link' = Dropped(c)
        /\ inbox' = [inbox EXCEPT ![c] = <<>>]
        /\ owned' = [owned EXCEPT ![c] = {}]
        /\ UNCHANGED <<replies, releasing, sends, mutex, answer>>
    BY <2>1, <2>2, <2>3 DEF Cleanup
  <2>5. /\ held' = [held EXCEPT ![c] = @ \ held[c]]
        /\ held' \in [Conns -> SUBSET Locks]
        /\ pc' \in [Conns -> {"read", "answer", "parked", "ended"}]
        /\ \A d \in Conns : pc'[d] = "parked" <=> pc[d] = "parked"
    BY <1>0, <2>1, <2>4 DEF TypeOK
  <2>6. \A l \in held[c] : holder[l] = c
    BY <2>3
  <2>7. /\ holder' \in [Locks -> Conns \cup {None}]
        /\ waiters' \in [Locks -> Seq(Conns)]
        /\ wake' \in [Conns -> [lock : Locks \cup {None},
                                state : {"Waiting", "Granted", "Evicted"}]]
        /\ SleepersNamed' /\ HoldersKnow' /\ QueuesExact'
    <3> HIDE DEF stay, mine, IInv
    <3>1. IInv /\ pc[c] # "parked"
      BY <2>1 DEF IInv
    <3> QED
      BY <2>3, <2>4, <2>5, <2>6, <3>1, PromotionKeeps
  <2>8. ClientsTypeOK'
    <3>1. link' \in [Conns -> {"new", "up", "closed", "dropped"}]
      BY <1>0, <2>4 DEF TypeOK, ClientsTypeOK, Dropped
    <3>2. inbox' \in [Conns -> Seq(Line)] /\ owned' \in [Conns -> SUBSET Locks]
      BY <1>0, <2>4 DEF TypeOK, ClientsTypeOK
    <3> QED
      BY <1>0, <2>4, <3>1, <3>2 DEF TypeOK, ClientsTypeOK
  <2> QED
    BY <1>0, <2>4, <2>5, <2>7, <2>8 DEF TypeOK
<1> QED
  BY <1>1, <1>2, <1>3, <1>4, <1>5, <1>6, <1>7, <1>8, <1>9, <1>10, <1>11 DEF Thread

LEMMA NextInv == IInv /\ [Next]_vars => IInv'
<1> SUFFICES ASSUME IInv, [Next]_vars PROVE IInv'
  OBVIOUS
<1>1. ASSUME NEW c \in Conns, Thread(c) PROVE IInv'
  BY <1>1, ThreadKeeps
<1>2. ASSUME NEW c \in Conns, Client(c) PROVE IInv'
  <2>1. ClientsTypeOK' /\ UNCHANGED <<tableVars, threadVars>>
    BY <1>2, ClientTyped DEF Client, IInv, TypeOK
  <2>2. SleepersNamed' /\ HoldersKnow' /\ QueuesExact'
    BY <2>1, TableUntouched DEF threadVars
  <2> QED
    BY <2>1, <2>2 DEF IInv, TypeOK, tableVars, threadVars
<1>3. CASE UNCHANGED vars
  <2>1. UNCHANGED <<clientVars, tableVars, threadVars>>
    BY <1>3 DEF vars
  <2>2. SleepersNamed' /\ HoldersKnow' /\ QueuesExact'
    BY <2>1, TableUntouched DEF threadVars
  <2> QED
    BY <2>1, <2>2 DEF IInv, TypeOK, ClientsTypeOK, clientVars, tableVars, threadVars
<1> QED
  BY <1>1, <1>2, <1>3 DEF Next

-----------------------------------------------------------------------------
(* The invariant holds in every reachable state.                           *)
THEOREM TableInvariance == Spec => []IInv
BY InitInv, NextInv, PTL DEF Spec

(* The variables of the server and of the sockets keep their types.        *)
THEOREM TableTyping == Spec => []TypeOK
<1>1. IInv => TypeOK
  BY DEF IInv
<1> QED
  BY <1>1, TableInvariance, PTL

(* LockEntry.holder and handle_client's held agree: whatever a thread      *)
(* holds it will release, and whatever the table gives away has an owner.  *)
THEOREM HoldersAgree == Spec => []HoldersKnow
<1>1. IInv => HoldersKnow
  BY DEF IInv
<1> QED
  BY <1>1, TableInvariance, PTL

(* The queues of the table are the threads asleep, each once; nobody       *)
(* sleeps for a free lock or for its own.                                  *)
THEOREM QueuesAgree == Spec => []QueuesExact
<1>1. IInv => QueuesExact
  BY DEF IInv
<1> QED
  BY <1>1, TableInvariance, PTL

-----------------------------------------------------------------------------
-----------------------------------------------------------------------------
(***************************************************************************)
(* The thread server implements the lock service that its clients see, for *)
(* every set of connections and locks, every kind and number of lines and  *)
(* every room in the sockets. The heart of it is what a client may         *)
(* conclude from the replies it reads late, with requests of its own still *)
(* on the way.                                                             *)
(***************************************************************************)

(* The replies on the way to a client, with the one its thread writes.     *)
Out(c) == IF pc[c] = "answer" THEN Append(replies[c], answer[c]) ELSE replies[c]

HeldBy(c) == {l \in Locks : holder[l] = c}

(* A connection is new and silent, or up with a sound socket; no other     *)
(* connection owns anything.                                               *)
SocketSound(c) ==
  /\ link[c] = "new" => /\ inbox[c] = <<>> /\ replies[c] = <<>> /\ pc[c] = "read"
                        /\ releasing[c] = {}
  /\ link[c] = "up" => Sound(inbox[c], Out(c), owned[c], releasing[c], HeldBy(c))
  /\ link[c] # "up" => owned[c] = {}

SocketsSound == \A c \in Conns : SocketSound(c)

SInv == IInv /\ SocketsSound

-----------------------------------------------------------------------------
(* The steps of the threads                                                *)

(* What thread c does leaves the other sockets sound, as long as it takes  *)
(* locks from itself only.                                                 *)
LEMMA OthersSound ==
  ASSUME SInv, NEW c \in Conns, NEW d \in Conns, d # c,
         link'[d] = link[d], inbox'[d] = inbox[d], replies'[d] = replies[d],
         owned'[d] = owned[d], releasing'[d] = releasing[d],
         pc'[d] = pc[d], answer'[d] = answer[d],
         \A l \in Locks : holder'[l] = holder[l] \/ holder[l] \in {None, c}
  PROVE  SocketSound(d)'
<1>1. Out(d)' = Out(d)
  BY DEF Out
<1>2. HeldBy(d) \subseteq HeldBy(d)'
  BY ClientsAssumption DEF HeldBy
<1>3. SocketSound(d)
  BY DEF SInv, SocketsSound
<1>4. link[d] = "up" => Sound(inbox[d], Out(d), owned[d], releasing[d], HeldBy(d)')
  BY <1>2, <1>3, MoreHeld DEF SocketSound
<1> QED
  BY <1>1, <1>3, <1>4 DEF SocketSound

(* A thread that takes a line and answers it.                              *)
LEMMA AnswerSound ==
  ASSUME SInv, NEW c \in Conns, NEW kinds, Reads(c, kinds),
         NEW kind, NEW l, [kind |-> kind, lock |-> l] \in Reply,
         Answers(c, kind, l),
         kind \in {"OK", "NOT_HELD"} => Releases(Head(inbox[c]), l),
         kind = "GRANTED" => holder'[l] = c,
         \A m \in Locks : \/ holder'[m] = holder[m] \/ holder[m] = None
                          \/ holder[m] = c /\ m = l /\ kind = "OK"
  PROVE  SocketsSound'
<1> DEFINE r == [kind |-> kind, lock |-> l]
<1>1. /\ TypeOK /\ ClientsTypeOK
      /\ inbox[c] # <<>> /\ pc[c] = "read" /\ inbox' = [inbox EXCEPT ![c] = Tail(@)]
      /\ UNCHANGED <<link, replies, owned, releasing>>
      /\ pc' = [pc EXCEPT ![c] = "answer"]
      /\ answer' = [answer EXCEPT ![c] = r]
  BY DEF SInv, IInv, TypeOK, Reads, Answers
<1>2. /\ inbox[c] \in Seq(Line) /\ replies[c] \in Seq(Reply)
      /\ inbox'[c] = Tail(inbox[c]) /\ pc'[c] = "answer" /\ answer'[c] = r
      /\ \A d \in Conns : d # c => inbox'[d] = inbox[d] /\ pc'[d] = pc[d] /\ answer'[d] = answer[d]
  BY <1>1 DEF TypeOK, ClientsTypeOK
<1>3. ASSUME NEW d \in Conns, d # c PROVE SocketSound(d)'
  <2>1. \A m \in Locks : holder'[m] = holder[m] \/ holder[m] \in {None, c}
    OBVIOUS
  <2> QED
    BY <1>1, <1>2, <1>3, <2>1, OthersSound
<1>4. SocketSound(c)'
  <2>1. SocketSound(c)
    BY DEF SInv, SocketsSound
  <2>2. Out(c) = replies[c] /\ Out(c)' = Append(replies[c], r)
    BY <1>1, <1>2 DEF Out
  <2>3. ASSUME link[c] = "up"
        PROVE  Sound(Tail(inbox[c]), Append(replies[c], r), owned[c], releasing[c], HeldBy(c)')
    <3>1. Sound(inbox[c], replies[c], owned[c], releasing[c], HeldBy(c))
      BY <2>1, <2>2, <2>3 DEF SocketSound
    <3>2. \A m \in Locks : AnswersRelease(r, m) => Releases(Head(inbox[c]), m)
      BY DEF AnswersRelease
    <3>3. \A m \in Locks : IsGrant(r, m) => m \in HeldBy(c)'
      BY DEF IsGrant, HeldBy
    <3>4. \A m \in HeldBy(c) \ HeldBy(c)' : AnswersRelease(r, m)
      BY ClientsAssumption DEF HeldBy, AnswersRelease
    <3>5. HeldBy(c) \subseteq Locks
      BY DEF HeldBy
    <3> HIDE DEF r
    <3> QED
      BY <1>1, <1>2, <3>1, <3>2, <3>3, <3>4, <3>5, LineAnswered DEF r
  <2> QED
    BY <1>1, <1>2, <2>1, <2>2, <2>3 DEF SocketSound
<1> QED
  BY <1>3, <1>4 DEF SocketsSound

(* A thread that takes a line and does not answer it.                      *)
LEMMA SilenceSound ==
  ASSUME SInv, NEW c \in Conns, NEW kinds, Reads(c, kinds),
         UNCHANGED <<holder, answer>>,
         \A d \in Conns : pc'[d] = pc[d] \/ (d = c /\ pc'[d] = "parked")
  PROVE  SocketsSound'
<1>1. /\ TypeOK /\ ClientsTypeOK
      /\ inbox[c] # <<>> /\ pc[c] = "read" /\ inbox' = [inbox EXCEPT ![c] = Tail(@)]
      /\ UNCHANGED <<link, replies, owned, releasing>>
  BY DEF SInv, IInv, TypeOK, Reads
<1>2. /\ inbox[c] \in Seq(Line) /\ inbox'[c] = Tail(inbox[c])
      /\ \A d \in Conns : d # c => inbox'[d] = inbox[d]
  BY <1>1 DEF TypeOK, ClientsTypeOK
<1>3. ASSUME NEW d \in Conns, d # c PROVE SocketSound(d)'
  BY <1>1, <1>2, <1>3, OthersSound
<1>4. SocketSound(c)'
  <2>1. SocketSound(c)
    BY DEF SInv, SocketsSound
  <2>2. Out(c) = replies[c] /\ Out(c)' = replies[c] /\ HeldBy(c)' = HeldBy(c)
    BY <1>1, <1>2 DEF Out, HeldBy
  <2>3. link[c] = "up" =>
          Sound(Tail(inbox[c]), replies[c], owned[c], releasing[c], HeldBy(c))
    BY <1>1, <1>2, <2>1, <2>2, LineTaken DEF SocketSound
  <2> QED
    BY <1>1, <1>2, <2>1, <2>2, <2>3 DEF SocketSound
<1> QED
  BY <1>3, <1>4 DEF SocketsSound

(* The line read when the client asks for something is what it says.       *)
LEMMA ReadRelease ==
  ASSUME NEW c, Reads(c, {"RELEASE"})
  PROVE  Releases(Head(inbox[c]), Asked(c))
BY DEF Reads, Releases, Asked

LEMMA ThreadSound ==
  ASSUME SInv, NEW c \in Conns, Thread(c)
  PROVE  SocketsSound'
<1>0. IInv /\ TypeOK /\ SocketSound(c)
  BY DEF SInv, IInv, SocketsSound
<1>1. CASE AcquireRejected(c)
  <2>1. Reads(c, {"ACQUIRE"}) /\ Answers(c, "ALREADY_HELD", Asked(c)) /\ holder' = holder
    BY <1>1 DEF AcquireRejected, tableVars
  <2>2. [kind |-> "ALREADY_HELD", lock |-> Asked(c)] \in Reply
    BY <1>0, <2>1, ReadLine DEF Reply, Asks
  <2> QED
    BY <2>1, <2>2, AnswerSound
<1>2. CASE AcquireFree(c)
  <2>1. /\ Reads(c, {"ACQUIRE"}) /\ Answers(c, "GRANTED", Asked(c))
        /\ holder[Asked(c)] = None /\ holder' = [holder EXCEPT ![Asked(c)] = c]
    BY <1>2 DEF AcquireFree
  <2>2. Asked(c) \in Locks
    BY <1>0, <2>1, ReadLine DEF Asks
  <2>3. [kind |-> "GRANTED", lock |-> Asked(c)] \in Reply
    BY <2>2 DEF Reply
  <2>4. /\ holder'[Asked(c)] = c
        /\ \A m \in Locks : holder'[m] = holder[m] \/ holder[m] = None
    BY <1>0, <2>1, <2>2 DEF TypeOK
  <2> QED
    BY <2>1, <2>3, <2>4, AnswerSound
<1>3. CASE AcquireWait(c)
  <2>1. /\ Reads(c, {"ACQUIRE"}) /\ UNCHANGED <<holder, answer>>
        /\ pc' = [pc EXCEPT ![c] = "parked"]
    BY <1>3 DEF AcquireWait
  <2>2. \A d \in Conns : pc'[d] = pc[d] \/ (d = c /\ pc'[d] = "parked")
    BY <1>0, <2>1 DEF TypeOK
  <2> QED
    BY <2>1, <2>2, SilenceSound
<1>4. CASE Wake(c)
  <2> DEFINE r == [kind |-> "GRANTED", lock |-> wake[c].lock]
             granted == wake[c].state = "Granted"
  <2>1. /\ pc[c] = "parked" /\ wake[c].lock \in Locks /\ holder' = holder
        /\ pc' = [pc EXCEPT ![c] = IF granted THEN "answer" ELSE "read"]
        /\ answer' = [answer EXCEPT ![c] = r]
        /\ UNCHANGED <<link, inbox, replies, owned, releasing>>
    BY <1>0, <1>4 DEF Wake, tableVars, clientVars, IInv, SleepersNamed
  <2>2. /\ pc'[c] = (IF granted THEN "answer" ELSE "read") /\ answer'[c] = r
        /\ \A d \in Conns : d # c => pc'[d] = pc[d] /\ answer'[d] = answer[d]
    BY <1>0, <2>1 DEF TypeOK
  <2>3. granted => holder[wake[c].lock] = c
    <3> SUFFICES ASSUME granted PROVE holder[wake[c].lock] = c
      OBVIOUS
    <3>1. wake[c] = [lock |-> wake[c].lock, state |-> "Granted"]
      BY <1>0 DEF TypeOK
    <3> QED
      BY <1>0, <2>1, <3>1 DEF IInv, HoldersKnow
  <2>4. ASSUME NEW d \in Conns, d # c PROVE SocketSound(d)'
    BY <2>1, <2>2, <2>4, OthersSound
  <2>5. SocketSound(c)'
    <3>1. Out(c) = replies[c] /\ HeldBy(c)' = HeldBy(c)
      BY <2>1 DEF Out, HeldBy
    <3>2. Out(c)' = IF granted THEN Append(replies[c], r) ELSE replies[c]
      BY <2>1, <2>2 DEF Out
    <3>3. link[c] = "up" /\ granted =>
            Sound(inbox[c], Append(replies[c], r), owned[c], releasing[c], HeldBy(c))
      <4>1. /\ r \in Reply /\ replies[c] \in Seq(Reply)
            /\ \A l \in Locks : ~AnswersRelease(r, l)
        BY <1>0, <2>1 DEF TypeOK, ClientsTypeOK, Reply, AnswersRelease
      <4>2. granted => \A l \in Locks : IsGrant(r, l) => l \in HeldBy(c)
        BY <2>3 DEF IsGrant, HeldBy
      <4> HIDE DEF r
      <4> QED
        BY <1>0, <3>1, <4>1, <4>2, ReplyWritten DEF SocketSound
    <3> HIDE DEF r, granted
    <3> QED
      BY <1>0, <2>1, <2>2, <3>1, <3>2, <3>3 DEF SocketSound
  <2> QED
    BY <2>4, <2>5 DEF SocketsSound
<1>5. CASE TryAcquire(c)
  <2> DEFINE free == holder[Asked(c)] = None
             kind == IF free THEN "GRANTED" ELSE "DENIED"
  <2>1. /\ Reads(c, {"TRY_ACQUIRE"}) /\ Answers(c, kind, Asked(c))
        /\ holder' = [holder EXCEPT ![Asked(c)] = IF free THEN c ELSE @]
    BY <1>5 DEF TryAcquire
  <2>2. Asked(c) \in Locks
    BY <1>0, <2>1, ReadLine DEF Asks
  <2>3. [kind |-> kind, lock |-> Asked(c)] \in Reply /\ kind \notin {"OK", "NOT_HELD"}
    BY <2>2 DEF Reply
  <2>4. /\ kind = "GRANTED" => holder'[Asked(c)] = c
        /\ \A m \in Locks : holder'[m] = holder[m] \/ holder[m] = None
    BY <1>0, <2>1, <2>2 DEF TypeOK
  <2> HIDE DEF kind
  <2> QED
    BY <2>1, <2>3, <2>4, AnswerSound
<1>6. CASE ReleaseRejected(c)
  <2>1. Reads(c, {"RELEASE"}) /\ Answers(c, "NOT_HELD", Asked(c)) /\ holder' = holder
    BY <1>6 DEF ReleaseRejected, tableVars
  <2>2. [kind |-> "NOT_HELD", lock |-> Asked(c)] \in Reply
    BY <1>0, <2>1, ReadLine DEF Reply, Asks
  <2> QED
    BY <2>1, <2>2, ReadRelease, AnswerSound
<1>7. CASE Release(c)
  <2>1. /\ Reads(c, {"RELEASE"}) /\ Answers(c, "OK", Asked(c)) /\ holder[Asked(c)] = c
        /\ PromoteNext({Asked(c)}, waiters)
    BY <1>7 DEF Release
  <2>2. [kind |-> "OK", lock |-> Asked(c)] \in Reply
    BY <1>0, <2>1, ReadLine DEF Reply, Asks
  <2>3. \A m \in Locks : holder'[m] = holder[m] \/ (holder[m] = c /\ m = Asked(c))
    BY <2>1 DEF PromoteNext
  <2> QED
    BY <2>1, <2>2, <2>3, ReadRelease, AnswerSound
<1>8. CASE Query(c) \/ Unknown(c)
  <2>1. /\ Reads(c, {"QUERY"}) \/ Reads(c, {"LONG"})
        /\ Answers(c, "INFO", None) /\ holder' = holder
    BY <1>8 DEF Query, Unknown, tableVars
  <2>2. [kind |-> "INFO", lock |-> None] \in Reply
    BY DEF Reply
  <2> QED
    BY <2>1, <2>2, AnswerSound
<1>9. CASE SkipBlank(c)
  <2>1. Reads(c, {"BLANK"}) /\ UNCHANGED <<holder, answer, pc>>
    BY <1>9 DEF SkipBlank, tableVars, threadVars
  <2> QED
    BY <2>1, SilenceSound
<1>10. CASE WriteReply(c)
  <2>1. /\ pc[c] = "answer" /\ replies' = [replies EXCEPT ![c] = Sent(c, <<answer[c]>>)]
        /\ pc' = [pc EXCEPT ![c] = "read"] /\ answer' = [answer EXCEPT ![c] = NoReply]
        /\ UNCHANGED <<link, inbox, owned, releasing, holder>>
    BY <1>10 DEF WriteReply, tableVars
  <2>2. /\ replies'[c] = Sent(c, <<answer[c]>>) /\ pc'[c] = "read"
        /\ replies[c] \in Seq(Reply) /\ answer[c] \in Reply
        /\ \A d \in Conns : d # c =>
             replies'[d] = replies[d] /\ pc'[d] = pc[d] /\ answer'[d] = answer[d]
    BY <1>0, <2>1 DEF TypeOK, ClientsTypeOK
  <2>3. ASSUME NEW d \in Conns, d # c PROVE SocketSound(d)'
    BY <2>1, <2>2, <2>3, OthersSound
  <2>4. SocketSound(c)'
    <3>1. Out(c) = Append(replies[c], answer[c]) /\ Out(c)' = replies'[c] /\ HeldBy(c)' = HeldBy(c)
      BY <2>1, <2>2 DEF Out, HeldBy
    <3>2. link[c] = "up" => replies'[c] = Append(replies[c], answer[c])
      BY <2>2, AppendIsConcat DEF Sent
    <3> QED
      BY <1>0, <2>1, <2>2, <3>1, <3>2 DEF SocketSound
  <2> QED
    BY <2>3, <2>4 DEF SocketsSound
<1>11. CASE EndOfFile(c) \/ ReadError(c)
  <2>1. Cleanup(c) /\ (link[c] = "closed" \/ inbox[c] # <<>>)
    BY <1>11 DEF EndOfFile, ReadError
  <2>2. /\ link' = Dropped(c)
        /\ pc' = [pc EXCEPT ![c] = "ended"]
        /\ inbox' = [inbox EXCEPT ![c] = <<>>]
        /\ owned' = [owned EXCEPT ![c] = {}]
        /\ UNCHANGED <<replies, releasing, answer>>
        /\ \A m \in Locks : holder'[m] = holder[m] \/ holder[m] = c
    BY <2>1 DEF Cleanup, PromoteNext
  <2>3. /\ link'[c] \notin {"new", "up"} /\ owned'[c] = {}
        /\ \A d \in Conns : d # c => /\ link'[d] = link[d] /\ pc'[d] = pc[d]
                                     /\ inbox'[d] = inbox[d] /\ owned'[d] = owned[d]
    BY <1>0, <2>1, <2>2 DEF Dropped, TypeOK, ClientsTypeOK, SocketSound
  <2>4. ASSUME NEW d \in Conns, d # c PROVE SocketSound(d)'
    BY <2>2, <2>3, <2>4, OthersSound
  <2>5. SocketSound(c)'
    BY <2>3 DEF SocketSound
  <2> QED
    BY <2>4, <2>5 DEF SocketsSound
<1> QED
  BY <1>1, <1>2, <1>3, <1>4, <1>5, <1>6, <1>7, <1>8, <1>9, <1>10, <1>11 DEF Thread

-----------------------------------------------------------------------------
(* The steps of the clients                                                *)

LEMMA ClientSound ==
  ASSUME SInv, NEW c \in Conns, Client(c)
  PROVE  SocketsSound'
<1>0. TypeOK /\ ClientsTypeOK /\ SocketSound(c)
  BY DEF SInv, IInv, TypeOK, SocketsSound
<1>1. holder' = holder /\ pc' = pc /\ answer' = answer /\ HeldBy(c)' = HeldBy(c)
  BY DEF Client, tableVars, threadVars, HeldBy
<1>2. /\ inbox[c] \in Seq(Line) /\ replies[c] \in Seq(Reply) /\ answer[c] \in Reply
      /\ Out(c) \in Seq(Reply)
  BY <1>0, AppendProperties DEF TypeOK, ClientsTypeOK, Out
<1>3. CASE Connect(c)
  <2>1. /\ link[c] = "new" /\ link'[c] = "up"
        /\ \A d \in Conns : d # c => link'[d] = link[d]
        /\ UNCHANGED <<inbox, replies, owned, releasing>>
    BY <1>0, <1>3 DEF Connect, ClientsTypeOK
  <2>2. /\ inbox[c] = <<>> /\ Out(c)' = <<>> /\ releasing[c] = {} /\ owned[c] = {}
    BY <1>0, <1>1, <2>1 DEF SocketSound, Out
  <2>3. SocketSound(c)'
    BY <2>1, <2>2, SilentSocket DEF SocketSound
  <2>4. ASSUME NEW d \in Conns, d # c PROVE SocketSound(d)'
    BY <1>1, <2>1, <2>4, OthersSound
  <2> QED
    BY <2>3, <2>4 DEF SocketsSound
<1>4. CASE Receive(c)
  <2> DEFINE r == Head(replies[c])
             more == owned[c] \cup ({l \in {r.lock} : r.kind = "GRANTED"} \ releasing[c])
             less == releasing[c] \ {l \in {r.lock} : r.kind \in {"OK", "NOT_HELD"}}
  <2>1. /\ link[c] = "up" /\ replies[c] # <<>>
        /\ owned' = [owned EXCEPT ![c] = more] /\ releasing' = [releasing EXCEPT ![c] = less]
        /\ replies' = [replies EXCEPT ![c] = Tail(@)]
        /\ UNCHANGED <<link, inbox>>
    BY <1>4 DEF Receive
  <2>2. /\ owned'[c] = more /\ releasing'[c] = less /\ replies'[c] = Tail(replies[c])
        /\ \A d \in Conns : d # c => /\ owned'[d] = owned[d] /\ releasing'[d] = releasing[d]
                                     /\ replies'[d] = replies[d]
    BY <1>0, <2>1 DEF ClientsTypeOK
  <2>3. /\ Out(c)' = Tail(Out(c)) /\ Head(Out(c)) = r /\ Out(c) # <<>>
    <3>1. CASE pc[c] = "answer"
      <4>1. /\ Out(c) = Append(replies[c], answer[c])
            /\ Out(c)' = Append(Tail(replies[c]), answer[c])
        BY <1>1, <2>2, <3>1 DEF Out
      <4>2. Append(replies[c], answer[c]) # <<>>
        BY <1>2, AppendProperties
      <4> QED
        BY <1>2, <2>1, <4>1, <4>2, TailAppend
    <3>2. CASE pc[c] # "answer"
      BY <1>1, <2>1, <2>2, <3>2 DEF Out
    <3> QED
      BY <3>1, <3>2
  <2>4. Sound(inbox[c], Out(c), owned[c], releasing[c], HeldBy(c))
    BY <1>0, <2>1 DEF SocketSound
  <2>5. Sound(inbox[c], Tail(Out(c)), more, less, HeldBy(c))
    BY <1>2, <2>3, <2>4, ReplyRead
  <2>6. SocketSound(c)'
    <3> HIDE DEF more, less, r
    <3> QED
      BY <1>1, <2>1, <2>2, <2>3, <2>5 DEF SocketSound
  <2>7. ASSUME NEW d \in Conns, d # c PROVE SocketSound(d)'
    BY <1>1, <2>1, <2>2, <2>7, OthersSound
  <2> QED
    BY <2>6, <2>7 DEF SocketsSound
<1>5. CASE HangUp(c)
  <2>1. /\ link' = [link EXCEPT ![c] = "closed"] /\ owned' = [owned EXCEPT ![c] = {}]
        /\ replies' = [replies EXCEPT ![c] = <<>>] /\ releasing' = [releasing EXCEPT ![c] = {}]
        /\ inbox' = inbox
    BY <1>5 DEF HangUp
  <2>2. /\ link'[c] = "closed" /\ owned'[c] = {}
        /\ \A d \in Conns : d # c => /\ link'[d] = link[d] /\ owned'[d] = owned[d]
                                     /\ replies'[d] = replies[d] /\ releasing'[d] = releasing[d]
    BY <1>0, <2>1 DEF ClientsTypeOK
  <2>3. SocketSound(c)'
    BY <2>2 DEF SocketSound
  <2>4. ASSUME NEW d \in Conns, d # c PROVE SocketSound(d)'
    BY <1>1, <2>1, <2>2, <2>4, OthersSound
  <2> QED
    BY <2>3, <2>4 DEF SocketsSound
<1>6. ASSUME NEW line \in Line, Send(c, line) PROVE SocketsSound'
  <2> DEFINE gives == IF line.kind = "RELEASE" THEN {line.lock} ELSE {}
  <2>1. /\ link[c] = "up" /\ inbox' = [inbox EXCEPT ![c] = Append(@, line)]
        /\ line.kind = "RELEASE" => line.lock \notin releasing[c]
        /\ owned' = [owned EXCEPT ![c] = @ \ gives]
        /\ releasing' = [releasing EXCEPT ![c] = @ \cup gives]
        /\ UNCHANGED <<link, replies>>
    BY <1>6 DEF Send
  <2>2. /\ inbox'[c] = Append(inbox[c], line)
        /\ owned'[c] = owned[c] \ gives /\ releasing'[c] = releasing[c] \cup gives
        /\ \A d \in Conns : d # c => /\ inbox'[d] = inbox[d] /\ owned'[d] = owned[d]
                                     /\ releasing'[d] = releasing[d]
    BY <1>0, <2>1 DEF ClientsTypeOK
  <2>3. Out(c)' = Out(c)
    BY <1>1, <2>1 DEF Out
  <2>4. Sound(inbox[c], Out(c), owned[c], releasing[c], HeldBy(c))
    BY <1>0, <2>1 DEF SocketSound
  <2>5. /\ \A l \in Locks : l \in gives <=> Releases(line, l)
        /\ gives \cap releasing[c] = {}
    BY <2>1 DEF Releases
  <2> HIDE DEF gives
  <2>6. Sound(inbox'[c], Out(c), owned'[c], releasing'[c], HeldBy(c))
    <3>1. Sound(Append(inbox[c], line), Out(c), owned[c] \ gives,
                releasing[c] \cup gives, HeldBy(c))
      BY <1>2, <2>4, <2>5, LineSent
    <3> QED
      BY <2>2, <3>1
  <2>7. SocketSound(c)'
    BY <1>1, <2>1, <2>3, <2>6 DEF SocketSound
  <2>8. ASSUME NEW d \in Conns, d # c PROVE SocketSound(d)'
    BY <1>1, <2>1, <2>2, <2>8, OthersSound
  <2> QED
    BY <2>7, <2>8 DEF SocketsSound
<1> QED
  BY <1>3, <1>4, <1>5, <1>6 DEF Client

-----------------------------------------------------------------------------
LEMMA SocketsInit == Init => SInv
<1> SUFFICES ASSUME Init PROVE SInv
  OBVIOUS
<1>1. ASSUME NEW c \in Conns PROVE SocketSound(c)
  BY DEF Init, ClientsInit, SocketSound
<1> QED
  BY <1>1, InitInv DEF SInv, SocketsSound

LEMMA SocketsNext == SInv /\ [Next]_vars => SInv'
<1> SUFFICES ASSUME SInv, [Next]_vars PROVE SocketsSound'
  BY NextInv DEF SInv
<1>1. ASSUME NEW c \in Conns, Thread(c) PROVE SocketsSound'
  BY <1>1, ThreadSound
<1>2. ASSUME NEW c \in Conns, Client(c) PROVE SocketsSound'
  BY <1>2, ClientSound
<1>3. CASE UNCHANGED vars
  <2>1. UNCHANGED <<link, inbox, replies, owned, releasing, pc, answer, holder>>
    BY <1>3 DEF vars, clientVars, tableVars, threadVars
  <2>2. ASSUME NEW c \in Conns PROVE SocketSound(c)'
    <3>1. SocketSound(c)
      BY DEF SInv, SocketsSound
    <3> QED
      BY <2>1, <3>1 DEF SocketSound, Out, HeldBy
  <2> QED
    BY <2>2 DEF SocketsSound
<1> QED
  BY <1>1, <1>2, <1>3 DEF Next

THEOREM SocketInvariance == Spec => []SInv
BY SocketsInit, SocketsNext, PTL DEF Spec

LEMMA OwnerHolds == SInv => OwnersHold
<1> SUFFICES ASSUME SInv, NEW c \in Conns, NEW l \in Locks, l \in owned[c]
             PROVE  holder[l] = c
  BY DEF OwnersHold
<1>1. SocketSound(c)
  BY DEF SInv, SocketsSound
<1>2. Sound(inbox[c], Out(c), owned[c], releasing[c], HeldBy(c))
  BY <1>1 DEF SocketSound
<1> QED
  BY <1>2 DEF Sound, HeldBy

(* Whoever has read GRANTED and has not sent RELEASE since is the holder   *)
(* in the table, for any number of requests and replies on the way.        *)
THEOREM Ownership == Spec => []OwnersHold
BY SocketInvariance, OwnerHolds, PTL

-----------------------------------------------------------------------------
(* The lock service: every step of a thread or a client is one of it, or   *)
(* changes nothing the clients can tell                                    *)

ServiceStep == Service!Next \/ UNCHANGED Service!lockVars

LEMMA ServiceInit == Init => Service!Init
BY DEF Init, ClientsInit, Service!Init

(* A thread that takes the lock l from its free state.                     *)
LEMMA FreeGranted ==
  ASSUME IInv, NEW c \in Conns, NEW l \in Locks, holder[l] = None,
         holder' = [holder EXCEPT ![l] = c], UNCHANGED <<waiters, owned>>
  PROVE  ServiceStep
<1>1. waiters[l] = <<>>
  BY DEF IInv, QueuesExact
<1>2. Service!Grant(c, l)
  BY <1>1 DEF Service!Grant
<1> QED
  BY <1>2 DEF ServiceStep, Service!Next

(* What PromoteNext does to the holders and the queues, in the words of    *)
(* the service.                                                            *)
LEMMA Promoted ==
  ASSUME NEW S \in SUBSET Locks, NEW q, PromoteNext(S, q)
  PROVE  /\ holder' = [l \in Locks |-> IF l \in S THEN Service!First(q[l]) ELSE holder[l]]
         /\ waiters' = [l \in Locks |-> IF l \in S THEN Service!Rest(q[l]) ELSE q[l]]
<1> DEFINE next == [l \in S |-> IF q[l] = <<>> THEN None ELSE Head(q[l])]
<1>1. /\ holder' = [l \in Locks |-> IF l \in S THEN next[l] ELSE holder[l]]
      /\ waiters' = [l \in Locks |-> IF l \in S /\ q[l] # <<>> THEN Tail(q[l]) ELSE q[l]]
  BY DEF PromoteNext
<1>2. \A l \in S : next[l] = Service!First(q[l])
  BY DEF Service!First
<1>3. \A l \in S : Service!Rest(q[l]) = IF q[l] # <<>> THEN Tail(q[l]) ELSE q[l]
  BY DEF Service!Rest
<1> HIDE DEF next
<1> QED
  BY <1>1, <1>2, <1>3

LEMMA ThreadServes ==
  ASSUME SInv, NEW c \in Conns, Thread(c)
  PROVE  ServiceStep
<1>0. IInv /\ TypeOK /\ ClientsTypeOK /\ SocketSound(c)
  BY DEF SInv, IInv, TypeOK, SocketsSound
<1>1. CASE \/ AcquireRejected(c) \/ Wake(c) \/ ReleaseRejected(c) \/ Query(c)
           \/ Unknown(c) \/ SkipBlank(c) \/ WriteReply(c)
  <2>1. UNCHANGED <<holder, waiters, owned>>
    BY <1>1 DEF AcquireRejected, Wake, ReleaseRejected, Query, Unknown, SkipBlank,
                WriteReply, Reads, tableVars, clientVars
  <2> QED
    BY <2>1 DEF ServiceStep, Service!lockVars
<1>2. CASE AcquireFree(c)
  <2>1. /\ Reads(c, {"ACQUIRE"}) /\ holder[Asked(c)] = None
        /\ holder' = [holder EXCEPT ![Asked(c)] = c] /\ waiters' = waiters
    BY <1>2 DEF AcquireFree
  <2>2. Asked(c) \in Locks /\ owned' = owned
    BY <1>0, <2>1, ReadLine DEF Asks, Reads
  <2> QED
    BY <1>0, <2>1, <2>2, FreeGranted
<1>3. CASE AcquireWait(c)
  <2> DEFINE l == Asked(c)
  <2>1. /\ Reads(c, {"ACQUIRE"}) /\ holder[l] \notin {None, c} /\ c \notin Range(waiters[l])
        /\ waiters' = [waiters EXCEPT ![l] = Append(@, c)] /\ holder' = holder
    BY <1>3 DEF AcquireWait
  <2>2. l \in Locks /\ owned' = owned
    BY <1>0, <2>1, ReadLine DEF Asks, Reads
  <2>3. Service!Enqueue(c, l)
    BY <2>1, <2>2 DEF Service!Enqueue, Service!Range, Range
  <2> QED
    BY <2>2, <2>3 DEF ServiceStep, Service!Next
<1>4. CASE TryAcquire(c)
  <2> DEFINE l == Asked(c)
             free == holder[l] = None
  <2>1. /\ Reads(c, {"TRY_ACQUIRE"}) /\ waiters' = waiters
        /\ holder' = [holder EXCEPT ![l] = IF free THEN c ELSE @]
    BY <1>4 DEF TryAcquire
  <2>2. l \in Locks /\ owned' = owned
    BY <1>0, <2>1, ReadLine DEF Asks, Reads
  <2>3. CASE free
    BY <1>0, <2>1, <2>2, <2>3, FreeGranted
  <2>4. CASE ~free
    <3>1. holder' = holder
      BY <1>0, <2>1, <2>2, <2>4 DEF TypeOK
    <3> QED
      BY <2>1, <2>2, <3>1 DEF ServiceStep, Service!lockVars
  <2> QED
    BY <2>3, <2>4
<1>5. CASE Release(c)
  <2> DEFINE l == Asked(c)
  <2>1. /\ Reads(c, {"RELEASE"}) /\ holder[l] = c /\ PromoteNext({l}, waiters)
    BY <1>5 DEF Release
  <2>2. l \in Locks /\ owned' = owned
    BY <1>0, <2>1, ReadLine DEF Asks, Reads
  <2>3. l \notin owned[c]
    <3>1. CASE link[c] = "up"
      <4>1. 1 \in 1 .. Len(inbox[c]) /\ Head(inbox[c]) = inbox[c][1]
        BY <1>0, <2>1, LenProperties, EmptySeq DEF ClientsTypeOK, Reads
      <4>2. Releases(inbox[c][1], l)
        BY <2>1, <4>1, ReadRelease
      <4>3. Sound(inbox[c], Out(c), owned[c], releasing[c], HeldBy(c))
        BY <1>0, <3>1 DEF SocketSound
      <4> QED
        BY <2>2, <4>1, <4>2, <4>3 DEF Sound
    <3>2. CASE link[c] # "up"
      BY <1>0, <3>2 DEF SocketSound
    <3> QED
      BY <3>1, <3>2
  <2> HIDE DEF l
  <2>4. /\ holder' = [m \in Locks |-> IF m \in {l} THEN Service!First(waiters[m]) ELSE holder[m]]
        /\ waiters' = [m \in Locks |-> IF m \in {l} THEN Service!Rest(waiters[m]) ELSE waiters[m]]
    BY <2>1, <2>2, Promoted
  <2>5. /\ holder' = [holder EXCEPT ![l] = Service!First(waiters[l])]
        /\ waiters' = [waiters EXCEPT ![l] = Service!Rest(@)]
    BY <1>0, <2>2, <2>4 DEF TypeOK
  <2>6. Service!PassOn(c, l)
    BY <2>1, <2>2, <2>3, <2>5 DEF Service!PassOn
  <2> QED
    BY <2>2, <2>6 DEF ServiceStep, Service!Next
<1>6. CASE EndOfFile(c) \/ ReadError(c)
  <2> DEFINE stay == [l \in Locks |-> RemoveFirst(waiters[l], c)]
             mine == {l \in held[c] : holder[l] = c}
  <2>1. /\ pc[c] = "read" /\ PromoteNext(mine, stay)
        /\ owned' = [owned EXCEPT ![c] = {}]
    BY <1>6 DEF EndOfFile, ReadError, Cleanup
  <2>2. mine \in SUBSET Locks /\ \A l \in Locks : l \in mine <=> holder[l] = c
    BY <1>0, <2>1 DEF TypeOK, IInv, HoldersKnow
  <2>3. \A l \in Locks : stay[l] = Service!RemoveFirst(waiters[l], c)
    <3> TAKE l \in Locks
    <3>1. waiters[l] \in Seq(Conns) /\ c \notin Range(waiters[l])
      BY <1>0, <2>1 DEF TypeOK, IInv, QueuesExact
    <3>2. ~ \E i \in 1 .. Len(waiters[l]) : waiters[l][i] = c
      BY <3>1, LenProperties DEF Range
    <3>3. Service!RemoveFirst(waiters[l], c) = waiters[l]
      BY <3>2 DEF Service!RemoveFirst
    <3> QED
      BY <3>1, <3>3, RemoveAbsent
  <2> HIDE DEF stay, mine
  <2>4. /\ holder' = [l \in Locks |-> IF l \in mine THEN Service!First(stay[l]) ELSE holder[l]]
        /\ waiters' = [l \in Locks |-> IF l \in mine THEN Service!Rest(stay[l]) ELSE stay[l]]
    BY <2>1, <2>2, Promoted
  <2>5. Service!Leave(c)
    BY <2>1, <2>2, <2>3, <2>4 DEF Service!Leave
  <2> QED
    BY <2>5 DEF ServiceStep, Service!Next
<1> QED
  BY <1>1, <1>2, <1>3, <1>4, <1>5, <1>6 DEF Thread

LEMMA ClientServed ==
  ASSUME SInv, OwnersHold', NEW c \in Conns, Client(c)
  PROVE  ServiceStep
<1>0. TypeOK /\ ClientsTypeOK
  BY DEF SInv, IInv, TypeOK
<1>1. holder' = holder /\ waiters' = waiters
  BY DEF Client, tableVars
<1>2. ASSUME NEW S \in SUBSET Locks, owned' = [owned EXCEPT ![c] = @ \ S]
      PROVE  ServiceStep
  <2>1. Service!GiveUp(c, S)
    BY <1>1, <1>2 DEF Service!GiveUp
  <2> QED
    BY <2>1 DEF ServiceStep, Service!Next
<1>3. CASE Connect(c)
  BY <1>1, <1>3 DEF Connect, ServiceStep, Service!lockVars
<1>4. CASE HangUp(c)
  <2>1. owned' = [owned EXCEPT ![c] = @ \ Locks]
    BY <1>0, <1>4 DEF HangUp, ClientsTypeOK
  <2> QED
    BY <1>2, <2>1
<1>5. ASSUME NEW line \in Line, Send(c, line) PROVE ServiceStep
  <2> DEFINE gives == IF line.kind = "RELEASE" THEN {line.lock} ELSE {}
  <2>1. owned' = [owned EXCEPT ![c] = @ \ gives]
    BY <1>5 DEF Send
  <2>2. gives \in SUBSET Locks
    BY DEF Line, Others
  <2> HIDE DEF gives
  <2> QED
    BY <1>2, <2>1, <2>2
<1>6. CASE Receive(c)
  <2> DEFINE r == Head(replies[c])
             more == {l \in {r.lock} : r.kind = "GRANTED"} \ releasing[c]
  <2>1. /\ owned' = [owned EXCEPT ![c] = @ \cup more] /\ replies[c] # <<>>
    BY <1>6 DEF Receive
  <2>2. r \in Reply
    BY <1>0, <2>1, HeadTailProperties DEF ClientsTypeOK
  <2>3. CASE more = {}
    <3> HIDE DEF more
    <3>1. owned' = owned
      BY <1>0, <2>1, <2>3 DEF ClientsTypeOK
    <3> QED
      BY <1>1, <3>1 DEF ServiceStep, Service!lockVars
  <2>4. CASE more # {}
    <3>1. more = {r.lock} /\ r.kind = "GRANTED"
      BY <2>4
    <3>2. r.lock \in Locks
      BY <2>2, <3>1 DEF Reply
    <3> HIDE DEF more, r
    <3>3. r.lock \in owned'[c]
      BY <1>0, <2>1, <3>1 DEF ClientsTypeOK
    <3>4. holder'[r.lock] = c
      BY <3>2, <3>3 DEF OwnersHold
    <3>5. Service!Learn(c, r.lock)
      BY <1>1, <2>1, <3>1, <3>4 DEF Service!Learn
    <3> QED
      BY <3>2, <3>5 DEF ServiceStep, Service!Next
  <2> QED
    BY <2>3, <2>4
<1> QED
  BY <1>3, <1>4, <1>5, <1>6 DEF Client

LEMMA ServiceNext == SInv /\ OwnersHold' /\ [Next]_vars => [Service!Next]_(Service!lockVars)
<1> SUFFICES ASSUME SInv, OwnersHold', [Next]_vars PROVE ServiceStep
  BY DEF ServiceStep
<1>1. CASE UNCHANGED vars
  BY <1>1 DEF vars, clientVars, tableVars, ServiceStep, Service!lockVars
<1> QED
  BY <1>1, ThreadServes, ClientServed DEF Next

(* The threads implement the lock service: the holders, the queues and     *)
(* what the clients know change only as LockService allows.                *)
THEOREM Implementation == Spec => ImplementsLockService
BY SocketInvariance, Ownership, ServiceInit, ServiceNext, PTL DEF Spec, Service!Spec, ImplementsLockService
=============================================================================
