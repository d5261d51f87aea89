---------------------------- MODULE SpscChannel ----------------------------
(***************************************************************************)
(* What the channel of spsc/src/lib.rs promises to its two users: a        *)
(* bounded first-in first-out queue with one sender and one receiver.      *)
(*                                                                         *)
(* The promises are those of the doc comments of Producer::send and        *)
(* Consumer::recv: a send blocks while the queue is full and gives its     *)
(* value back once the consumer is gone; a recv blocks while the queue is  *)
(* empty and fails only when the producer is gone and nothing is left.     *)
(* Elements are the numbers of the send calls, in call order.              *)
(***************************************************************************)
EXTENDS Naturals, Sequences

CONSTANTS Limit,        \* messages the channel may hold
          MaxSends      \* bound: number of calls of send

VARIABLES queue,        \* accepted messages, oldest first
          calls,        \* calls of send so far; call n carries element n - 1
          sending,      \* a call of send has not returned
          receiving,    \* a call of recv has not returned
          producerOpen, \* the producer has not been dropped
          consumerOpen, \* the consumer has not been dropped
          received,     \* results of the successful calls of recv
          returned,     \* elements given back by SendError
          dropped       \* elements dropped with the channel

channelVars == <<queue, calls, sending, receiving, producerOpen, consumerOpen,
                 received, returned, dropped>>

Init ==
  /\ queue = <<>> /\ received = <<>> /\ dropped = <<>>
  /\ calls = 0 /\ returned = {}
  /\ sending = FALSE /\ receiving = FALSE
  /\ producerOpen = TRUE /\ consumerOpen = TRUE

Send ==
  /\ producerOpen /\ ~sending /\ calls < MaxSends
  /\ calls' = calls + 1
  /\ sending' = TRUE
  /\ UNCHANGED <<queue, receiving, producerOpen, consumerOpen, received, returned, dropped>>

(* A send that found the consumer alive may still be accepted after the    *)
(* consumer is gone: its message is then dropped with the channel.         *)
SendOk ==
  /\ sending /\ Len(queue) < Limit
  /\ queue' = Append(queue, calls - 1)
  /\ sending' = FALSE
  /\ UNCHANGED <<calls, receiving, producerOpen, consumerOpen, received, returned, dropped>>

SendFails ==
  /\ sending /\ ~consumerOpen
  /\ returned' = returned \cup {calls - 1}
  /\ sending' = FALSE
  /\ UNCHANGED <<queue, calls, receiving, producerOpen, consumerOpen, received, dropped>>

Recv ==
  /\ consumerOpen /\ ~receiving
  /\ receiving' = TRUE
  /\ UNCHANGED <<queue, calls, sending, producerOpen, consumerOpen, received, returned, dropped>>

RecvOk ==
  /\ receiving /\ queue # <<>>
  /\ received' = Append(received, Head(queue))
  /\ queue' = Tail(queue)
  /\ receiving' = FALSE
  /\ UNCHANGED <<calls, sending, producerOpen, consumerOpen, returned, dropped>>

RecvFails ==
  /\ receiving /\ queue = <<>> /\ ~producerOpen
  /\ receiving' = FALSE
  /\ UNCHANGED <<queue, calls, sending, producerOpen, consumerOpen, received, returned, dropped>>

CloseProducer ==
  /\ producerOpen /\ ~sending
  /\ producerOpen' = FALSE
  /\ UNCHANGED <<queue, calls, sending, receiving, consumerOpen, received, returned, dropped>>

CloseConsumer ==
  /\ consumerOpen /\ ~receiving
  /\ consumerOpen' = FALSE
  /\ UNCHANGED <<queue, calls, sending, receiving, producerOpen, received, returned, dropped>>

(* With both sides gone the messages left are dropped, oldest first.       *)
Discard ==
  /\ ~producerOpen /\ ~consumerOpen /\ queue # <<>>
  /\ dropped' = Append(dropped, Head(queue))
  /\ queue' = Tail(queue)
  /\ UNCHANGED <<calls, sending, receiving, producerOpen, consumerOpen, received, returned>>

Next == \/ Send \/ SendOk \/ SendFails
        \/ Recv \/ RecvOk \/ RecvFails
        \/ CloseProducer \/ CloseConsumer \/ Discard

Spec == Init /\ [][Next]_channelVars
=============================================================================
