------------------------ MODULE MCThreadPoolManager ------------------------
(* A small instance of ThreadPoolManager for TLC. *)
EXTENDS ThreadPoolManager, TLC

Symmetry == Permutations(Clients)
=============================================================================
