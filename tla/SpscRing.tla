------------------------------ MODULE SpscRing ------------------------------
(***************************************************************************)
(* The ring buffer of spsc/src/lib.rs, one action per access to shared     *)
(* memory, under the release/acquire memory model its orderings ask for.   *)
(*                                                                         *)
(* head and tail count the stores to the two atomics; the machine word of  *)
(* such a count n is n % WordSize (a build without overflow checks).       *)
(* A load may return any value between the last one its thread has seen of *)
(* that atomic and the newest. Each thread keeps a record of what it has   *)
(* seen, and what is known to happen before its next step: the producer,   *)
(* the slots that were taken; the consumer, the slots that were filled.    *)
(* An acquire load learns the message of the release store it reads from.  *)
(***************************************************************************)
EXTENDS Integers, FiniteSets, SequencesExt

CONSTANTS Capacity,   \* the argument of channel()
          WordSize,   \* number of values of a usize
          MaxSends,   \* bound: number of calls of send
          Bombs       \* elements whose destructor panics

Cap == IF Capacity = 0 THEN 1 ELSE Capacity

ASSUME RingAssumption ==
  /\ Capacity \in Nat /\ WordSize \in Nat /\ MaxSends \in Nat
  /\ Cap < WordSize
  /\ Bombs \subseteq Nat

VARIABLES slots,          \* contents of the ring
          head,           \* messages published
          tail,           \* messages taken
          producer_alive,
          consumer_alive,
          refs,           \* strong count of the Arc
          pc,             \* where the producer and the consumer are
          prod,           \* what the producer knows
          cons,           \* what the consumer knows
          calls,          \* calls of send so far; call n carries element n - 1
          received,       \* results of the successful calls of recv
          returned,       \* elements given back by SendError
          dropped,        \* elements dropped with the ring, in order
          recv_failed,    \* some call of recv returned RecvError
          ring            \* the allocation: live, being dropped, gone

shared  == <<slots, head, tail, producer_alive, consumer_alive, refs>>
history == <<calls, received, returned, dropped, recv_failed>>
vars    == <<shared, pc, prod, cons, history, ring>>

Uninit == -1
Element == 0 .. MaxSends - 1

Slot(n) == (n % WordSize) % Cap
Join(a, b) == IF a < b THEN b ELSE a

(* What the stores publish: head.store(h, Release) comes after the slots   *)
(* below h were filled, tail.store(t, Release) after those below t were    *)
(* taken, and dropping the producer after its last store to head.          *)
HeadMessageRelaxed(h) == 0               \* mutant: head.store(.., Relaxed)
HeadMessage(h) == h
TailMessage(t) == t
ProducerDropMessageRelaxed == 0          \* mutant: producer_alive.store(.., Relaxed)
ProducerDropMessage == head

Init ==
  /\ slots = [s \in 0 .. Cap - 1 |-> Uninit]
  /\ head = 0 /\ tail = 0
  /\ producer_alive = TRUE /\ consumer_alive = TRUE /\ refs = 2
  /\ pc = [p |-> "idle", c |-> "idle"]
  /\ prod = [tail |-> 0, taken |-> 0, closed |-> FALSE]
  /\ cons = [head |-> 0, filled |-> 0, closed |-> FALSE, value |-> Uninit]
  /\ calls = 0 /\ received = <<>> /\ returned = {} /\ dropped = <<>>
  /\ recv_failed = FALSE
  /\ ring = "live"

At(t, l) == pc[t] = l
Goto(t, l) == pc' = [pc EXCEPT ![t] = l]

-----------------------------------------------------------------------------
(* Producer *)

Send ==
  /\ At("p", "idle") /\ calls < MaxSends
  /\ calls' = calls + 1
  /\ Goto("p", "check")
  /\ UNCHANGED <<shared, prod, cons, received, returned, dropped, recv_failed, ring>>

(* A load of consumer_alive that still reads true.                         *)
SeeConsumer ==
  /\ At("p", "check") /\ ~prod.closed
  /\ Goto("p", "space")
  /\ UNCHANGED <<shared, prod, cons, history, ring>>

SendFails ==
  /\ At("p", "check") /\ ~consumer_alive
  /\ prod' = [prod EXCEPT !.closed = TRUE]
  /\ returned' = returned \cup {calls - 1}
  /\ Goto("p", "idle")
  /\ UNCHANGED <<shared, cons, calls, received, dropped, recv_failed, ring>>

HasSpaceOffByOne(t) == (head - t) % WordSize <= Cap   \* mutant: <= for <
HasSpace(t) == (head - t) % WordSize < Cap

LoadTail(t) ==
  /\ At("p", "space") /\ t \in prod.tail .. tail
  /\ prod' = [prod EXCEPT !.tail = t, !.taken = Join(@, TailMessage(t))]
  /\ Goto("p", IF HasSpace(t) THEN "fill" ELSE "check")
  /\ UNCHANGED <<shared, cons, history, ring>>

Fill ==
  /\ At("p", "fill")
  /\ slots' = [slots EXCEPT ![Slot(head)] = calls - 1]
  /\ Goto("p", "publish")
  /\ UNCHANGED <<head, tail, producer_alive, consumer_alive, refs, prod, cons, history, ring>>

Publish ==
  /\ At("p", "publish")
  /\ head' = head + 1
  /\ Goto("p", "idle")
  /\ UNCHANGED <<slots, tail, producer_alive, consumer_alive, refs, prod, cons, history, ring>>

DropProducerSilently ==                 \* mutant: the flag is not stored
  /\ At("p", "idle")
  /\ Goto("p", "drop")
  /\ UNCHANGED <<shared, prod, cons, history, ring>>

DropProducer ==
  /\ At("p", "idle")
  /\ producer_alive' = FALSE
  /\ Goto("p", "drop")
  /\ UNCHANGED <<slots, head, tail, consumer_alive, refs, prod, cons, history, ring>>

-----------------------------------------------------------------------------
(* Consumer *)

Recv ==
  /\ At("c", "idle")
  /\ Goto("c", "look")
  /\ UNCHANGED <<shared, prod, cons, history, ring>>

DiffersOrSame(h) == h % WordSize >= tail % WordSize   \* mutant: >= for #
Differs(h) == h % WordSize # tail % WordSize

SeeHead(h) == cons' = [cons EXCEPT !.head = h, !.filled = Join(@, HeadMessage(h))]

LoadHead(h) ==
  /\ At("c", "look") /\ h \in cons.head .. head
  /\ SeeHead(h)
  /\ Goto("c", IF Differs(h) THEN "take" ELSE "check")
  /\ UNCHANGED <<shared, prod, history, ring>>

(* A load of producer_alive that still reads true.                         *)
SeeProducer ==
  /\ At("c", "check") /\ ~cons.closed
  /\ Goto("c", "look")
  /\ UNCHANGED <<shared, prod, cons, history, ring>>

SeeProducerGoneAtOnce ==                \* mutant: no last look at head
  /\ At("c", "check") /\ ~producer_alive
  /\ cons' = [cons EXCEPT !.closed = TRUE]
  /\ recv_failed' = TRUE
  /\ Goto("c", "idle")
  /\ UNCHANGED <<shared, prod, calls, received, returned, dropped, ring>>

SeeProducerGone ==
  /\ At("c", "check") /\ ~producer_alive
  /\ cons' = [cons EXCEPT !.closed = TRUE,
                          !.head = Join(@, ProducerDropMessage),
                          !.filled = Join(@, ProducerDropMessage)]
  /\ Goto("c", "last")
  /\ UNCHANGED <<shared, prod, history, ring>>

LoadHeadAgain(h) ==
  /\ At("c", "last") /\ h \in cons.head .. head
  /\ SeeHead(h)
  /\ Goto("c", IF Differs(h) THEN "take" ELSE "idle")
  /\ recv_failed' = (recv_failed \/ ~Differs(h))
  /\ UNCHANGED <<shared, prod, calls, received, returned, dropped, ring>>

Take ==
  /\ At("c", "take")
  /\ cons' = [cons EXCEPT !.value = slots[Slot(tail)]]
  /\ slots' = [slots EXCEPT ![Slot(tail)] = Uninit]
  /\ Goto("c", "advance")
  /\ UNCHANGED <<head, tail, producer_alive, consumer_alive, refs, prod, history, ring>>

Advance ==
  /\ At("c", "advance")
  /\ tail' = tail + 1
  /\ received' = Append(received, cons.value)
  /\ cons' = [cons EXCEPT !.value = Uninit]
  /\ Goto("c", "idle")
  /\ UNCHANGED <<slots, head, producer_alive, consumer_alive, refs, prod,
                 calls, returned, dropped, recv_failed, ring>>

DropConsumerSilently ==                 \* mutant: the flag is not stored
  /\ At("c", "idle")
  /\ Goto("c", "drop")
  /\ UNCHANGED <<shared, prod, cons, history, ring>>

DropConsumer ==
  /\ At("c", "idle")
  /\ consumer_alive' = FALSE
  /\ Goto("c", "drop")
  /\ UNCHANGED <<slots, head, tail, producer_alive, refs, prod, cons, history, ring>>

-----------------------------------------------------------------------------
(* The end of the ring: whoever gives up the last Arc drops it.            *)

ReleaseArc(t) ==
  /\ At(t, "drop")
  /\ refs' = refs - 1
  /\ ring' = IF refs = 1 THEN "dropping" ELSE ring
  /\ Goto(t, "gone")
  /\ UNCHANGED <<slots, head, tail, producer_alive, consumer_alive, prod, cons, history>>

Left == head % WordSize # tail % WordSize

(* tail is stored before the destructor runs, so that whatever drops the   *)
(* rest starts after this element. After a first panic the PanicGuard      *)
(* drops the rest; a second panic, while unwinding, aborts the process.    *)
DropElement(state, afterPanic) ==
  /\ ring = state /\ Left
  /\ tail' = tail + 1
  /\ dropped' = Append(dropped, slots[Slot(tail)])
  /\ slots' = [slots EXCEPT ![Slot(tail)] = Uninit]
  /\ ring' = IF slots[Slot(tail)] \in Bombs THEN afterPanic ELSE state
  /\ UNCHANGED <<head, producer_alive, consumer_alive, refs, pc, prod, cons,
                 calls, received, returned, recv_failed>>

DropNextLate ==                         \* mutant: tail is stored after the destructor
  /\ ring = "dropping" /\ Left
  /\ dropped' = Append(dropped, slots[Slot(tail)])
  /\ IF slots[Slot(tail)] \in Bombs
       THEN tail' = tail /\ ring' = "guard"
       ELSE tail' = tail + 1 /\ ring' = ring
  /\ UNCHANGED <<slots, head, producer_alive, consumer_alive, refs, pc, prod, cons,
                 calls, received, returned, recv_failed>>
DropNextUnguarded == DropElement("dropping", "unwound")  \* mutant: no PanicGuard

DropNext == DropElement("dropping", "guard")
GuardDropNext == DropElement("guard", "aborted")

Free ==
  /\ ring \in {"dropping", "guard"} /\ ~Left
  /\ ring' = IF ring = "guard" THEN "unwound" ELSE "freed"
  /\ UNCHANGED <<shared, pc, prod, cons, history>>

Terminated ==
  /\ ring \in {"freed", "unwound", "aborted"}
  /\ UNCHANGED vars

-----------------------------------------------------------------------------

ProducerStep == \/ SeeConsumer \/ SendFails
                \/ \E t \in prod.tail .. tail : LoadTail(t)
                \/ Fill \/ Publish

ConsumerStep == \/ \E h \in cons.head .. head : LoadHead(h)
                \/ SeeProducer \/ SeeProducerGone
                \/ \E h \in cons.head .. head : LoadHeadAgain(h)
                \/ Take \/ Advance

Teardown == \/ \E t \in {"p", "c"} : ReleaseArc(t)
            \/ DropNext \/ GuardDropNext \/ Free

Next == \/ Send \/ ProducerStep \/ DropProducer
        \/ Recv \/ ConsumerStep \/ DropConsumer
        \/ Teardown \/ Terminated

Spec == Init /\ [][Next]_vars

(* Both threads keep running inside a call, and a store becomes visible in *)
(* finite time: a spinning thread does not read the old value for ever.    *)
Fairness ==
  /\ WF_vars(ProducerStep) /\ WF_vars(ConsumerStep) /\ WF_vars(Teardown)
  /\ SF_vars(SendFails) /\ SF_vars(LoadTail(tail))
  /\ SF_vars(LoadHead(head)) /\ SF_vars(SeeProducerGone)

FairSpec == Spec /\ Fairness

-----------------------------------------------------------------------------
(* Properties *)

TypeOK ==
  /\ slots \in [0 .. Cap - 1 -> Element \cup {Uninit}]
  /\ head \in 0 .. MaxSends /\ tail \in 0 .. head
  /\ producer_alive \in BOOLEAN /\ consumer_alive \in BOOLEAN
  /\ refs \in 0 .. 2
  /\ pc \in [p : {"idle", "check", "space", "fill", "publish", "drop", "gone"},
             c : {"idle", "look", "check", "last", "take", "advance", "drop", "gone"}]
  /\ prod \in [tail : 0 .. tail, taken : 0 .. tail, closed : BOOLEAN]
  /\ cons \in [head : 0 .. head, filled : 0 .. head, closed : BOOLEAN,
               value : Element \cup {Uninit}]
  /\ calls \in 0 .. MaxSends
  /\ received \in Seq(Element) /\ dropped \in Seq(Element)
  /\ returned \subseteq Element
  /\ recv_failed \in BOOLEAN
  /\ ring \in {"live", "dropping", "guard", "freed", "unwound", "aborted"}

(* The two unsafe accesses are ordered by happens-before: when the producer *)
(* is about to fill a slot, whatever was there before has been taken in its *)
(* past, and when the consumer is about to take a slot, it was filled in    *)
(* its past (RingBuffer::write and read, whose callers promise this).       *)
NoDataRace ==
  /\ At("p", "fill") =>
       \A q \in 0 .. head - 1 : Slot(q) = Slot(head) => q < prod.taken
  /\ At("c", "take") => tail < cons.filled

(* The contract of RingBuffer::write, "the slot at idx is currently empty", *)
(* when head and tail wrap around the machine word.                         *)
WritesToEmptySlot == At("p", "fill") => slots[Slot(head)] = Uninit

(* First in, first out, nothing lost, nothing twice: the messages received, *)
(* then those dropped with the ring, are the messages sent, in order, even  *)
(* when destructors panic.                                                  *)
InOrder ==
  /\ \A i \in 1 .. Len(received) : received[i] = i - 1
  /\ \A i \in 1 .. Len(dropped) : dropped[i] = Len(received) + i - 1

(* recv reports the end of the channel only when the producer is gone and   *)
(* every message it published was received, however stale the loads were.   *)
FailsOnlyWhenDrained ==
  recv_failed => ~producer_alive /\ Len(received) = head

(* When the ring is gone, without an abort, every element passed to send    *)
(* was received, given back by SendError or dropped, exactly once.          *)
EveryElementOnce ==
  ring \in {"freed", "unwound"} =>
    /\ ToSet(received) \cup ToSet(dropped) \cup returned = 0 .. calls - 1
    /\ Len(received) + Len(dropped) + Cardinality(returned) = calls

(* A call of send returns when the consumer is dropped, even if it was      *)
(* spinning on a full ring.                                                 *)
DropReleasesSender == (pc.c = "gone" /\ pc.p = "check") ~> pc.p \in {"idle", "drop"}

(* A call of recv returns when the producer is dropped, even if it was      *)
(* spinning on an empty ring.                                               *)
DropReleasesReceiver == (pc.p = "gone" /\ pc.c = "look") ~> pc.c \in {"idle", "drop"}

-----------------------------------------------------------------------------
(* The ring implements the channel: its queue is what lies from tail up to  *)
(* head; a message is accepted when head is stored and received when tail   *)
(* is stored.                                                               *)

InCall(t) == pc[t] \notin {"idle", "drop", "gone"}

ContentAt(n) == IF n = tail /\ At("c", "advance") THEN cons.value ELSE slots[Slot(n)]

Channel == INSTANCE SpscChannel WITH
  Limit        <- Cap,
  queue        <- [i \in 1 .. head - tail |-> ContentAt(tail + i - 1)],
  sending      <- InCall("p"),
  receiving    <- InCall("c"),
  producerOpen <- producer_alive,
  consumerOpen <- consumer_alive

ImplementsChannel == Channel!Spec
=============================================================================
