--------------------------- MODULE MCThreadServer ---------------------------
(* The threads for TLC. The connections are interchangeable, and so are    *)
(* the locks.                                                              *)
EXTENDS ThreadServer, TLC

Symmetry == Permutations(Conns) \cup Permutations(Locks)
=============================================================================
