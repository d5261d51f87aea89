---------------------------- MODULE LockService ----------------------------
(***************************************************************************)
(* What the servers in locks/src/bin promise, whatever their threads,      *)
(* events and sockets do: a lock has one holder, it passes to those who    *)
(* asked for it in the order in which they asked, and the server takes it  *)
(* back only from a client that has given it up or left. A client owns a   *)
(* lock from reading GRANTED to sending RELEASE.                           *)
(***************************************************************************)
EXTENDS SequencesExt

CONSTANTS Conns,        \* the connections; each stands for its ClientId
          Locks,        \* the lock names
          None          \* the holder of a free lock

VARIABLES holder,       \* per lock, the connection it was granted to
          queue,        \* per lock, the connections waiting, oldest first
          owned         \* per connection, the locks its client owns

lockVars == <<holder, queue, owned>>

First(q) == IF q = <<>> THEN None ELSE Head(q)
Rest(q) == IF q = <<>> THEN q ELSE Tail(q)

Init ==
  /\ holder = [l \in Locks |-> None]
  /\ queue = [l \in Locks |-> <<>>]
  /\ owned = [c \in Conns |-> {}]

(* A free lock, which nobody waits for, is granted at once.                *)
Grant(c, l) ==
  /\ holder[l] = None /\ queue[l] = <<>>
  /\ holder' = [holder EXCEPT ![l] = c]
  /\ UNCHANGED <<queue, owned>>

Enqueue(c, l) ==
  /\ holder[l] \notin {None, c}
  /\ c \notin Range(queue[l])
  /\ queue' = [queue EXCEPT ![l] = Append(@, c)]
  /\ UNCHANGED <<holder, owned>>

(* The client reads GRANTED.                                               *)
Learn(c, l) ==
  /\ holder[l] = c
  /\ owned' = [owned EXCEPT ![c] = @ \cup {l}]
  /\ UNCHANGED <<holder, queue>>

(* The client sends RELEASE, or hangs up.                                  *)
GiveUp(c, S) ==
  /\ owned' = [owned EXCEPT ![c] = @ \ S]
  /\ UNCHANGED <<holder, queue>>

(* The server passes the lock on to the oldest waiter.                     *)
PassOn(c, l) ==
  /\ holder[l] = c /\ l \notin owned[c]
  /\ holder' = [holder EXCEPT ![l] = First(queue[l])]
  /\ queue' = [queue EXCEPT ![l] = Rest(@)]
  /\ UNCHANGED owned

(* The server is done with a connection: nothing of it is left behind.     *)
Leave(c) ==
  LET stay(l) == RemoveFirst(queue[l], c) IN
  /\ holder' = [l \in Locks |-> IF holder[l] = c THEN First(stay(l)) ELSE holder[l]]
  /\ queue' = [l \in Locks |-> IF holder[l] = c THEN Rest(stay(l)) ELSE stay(l)]
  /\ owned' = [owned EXCEPT ![c] = {}]

Next ==
  \E c \in Conns :
     \/ \E l \in Locks : Grant(c, l) \/ Enqueue(c, l) \/ Learn(c, l) \/ PassOn(c, l)
     \/ \E S \in SUBSET Locks : GiveUp(c, S)
     \/ Leave(c)

Spec == Init /\ [][Next]_lockVars
=============================================================================
