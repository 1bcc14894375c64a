---------------------------- MODULE MCThreadPool ----------------------------
(* Small instances of ThreadPool for TLC. *)
EXTENDS ThreadPool, TLC

(* Workers, clients and tasks are interchangeable: nothing compares them.    *)
(* Only safety runs use this; TLC's liveness check needs the full graph.     *)
Symmetry == Permutations(Workers) \cup Permutations(Clients) \cup Permutations(Tasks)
=============================================================================
