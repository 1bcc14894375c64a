--------------------------- MODULE MCCentralCache ---------------------------
(* Two size classes; the blocks of the larger one are more than half of      *)
(* MaxAllocBytes, so that their spans are above LargePages, as with the real *)
(* numbers.                                                                  *)
EXTENDS CentralCache, TLC

TwoRanges == <<[limit |-> 1, align |-> 1], [limit |-> MaxAllocBytes, align |-> MaxAllocBytes]>>
OneGroup == <<1>>

(* What follows is the question of central_mixed. *)
NotBroken == ~broken

Symmetry == Permutations(Threads) \cup Permutations(Spans)
=============================================================================
