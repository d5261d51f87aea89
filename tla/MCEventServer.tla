---------------------------- MODULE MCEventServer ----------------------------
(* The event loop for TLC. The connections are interchangeable, and so are *)
(* the locks.                                                              *)
EXTENDS EventServer, TLC

Symmetry == Permutations(Conns) \cup Permutations(Locks)
=============================================================================
