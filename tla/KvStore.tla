------------------------------ MODULE KvStore ------------------------------
(***************************************************************************)
(* What wal/src/lib.rs promises: a map whose acknowledged updates survive  *)
(* every crash. After a crash each key holds the value of its last         *)
(* acknowledged update or that of a later update which was not             *)
(* acknowledged, because it was cut short by the crash or failed.          *)
(***************************************************************************)
CONSTANTS Keys, Values,
          None          \* the value of a key that is not in the map

Value == Values \cup {None}

VARIABLES kv,           \* the map the methods serve
          maybe,        \* per key, the values a crash may leave
          update,       \* the call of set or delete that has not returned
          running       \* the store is open

kvVars == <<kv, maybe, update, running>>

Idle == [key |-> None, value |-> None]

Init ==
  /\ kv = [k \in Keys |-> None]
  /\ maybe = [k \in Keys |-> {None}]
  /\ update = Idle
  /\ running = FALSE

(* set(k, v), or delete(k) when v is None.                                 *)
Begin(k, v) ==
  /\ running /\ update = Idle
  /\ update' = [key |-> k, value |-> v]
  /\ maybe' = [maybe EXCEPT ![k] = @ \cup {v}]
  /\ UNCHANGED <<kv, running>>

Acknowledge ==
  /\ running /\ update # Idle
  /\ kv' = [kv EXCEPT ![update.key] = update.value]
  /\ maybe' = [maybe EXCEPT ![update.key] = {update.value}]
  /\ update' = Idle
  /\ UNCHANGED running

Fail ==
  /\ running /\ update # Idle
  /\ update' = Idle
  /\ UNCHANGED <<kv, maybe, running>>

Stop ==
  /\ running
  /\ running' = FALSE
  /\ update' = Idle
  /\ UNCHANGED <<kv, maybe>>

Start ==
  /\ ~running
  /\ running' = TRUE
  /\ kv' \in [Keys -> Value] /\ \A k \in Keys : kv'[k] \in maybe[k]
  /\ UNCHANGED <<maybe, update>>

Next == \/ \E k \in Keys, v \in Value : Begin(k, v)
        \/ Acknowledge \/ Fail \/ Stop \/ Start

Spec == Init /\ [][Next]_kvVars
=============================================================================
