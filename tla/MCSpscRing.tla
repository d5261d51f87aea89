----------------------------- MODULE MCSpscRing -----------------------------
(* The ring for TLC. Five sends lap a ring of two slots twice and wrap a   *)
(* machine word of four values; the destructors of elements 1 and 3 panic, *)
(* so that dropping the ring meets no panic, one, or a second while        *)
(* unwinding, depending on what was received before.                       *)
EXTENDS SpscRing

MCBombs == {1, 3}
=============================================================================
