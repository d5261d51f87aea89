----------------------------- MODULE MCWalStore -----------------------------
(* The store for TLC. One or two keys with one or two values are enough to *)
(* tell an old value, a lost one and a deleted one apart; three inodes are *)
(* the log, the log being replaced and the snapshot of a compaction.       *)
EXTENDS WalStore
=============================================================================
