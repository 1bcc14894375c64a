---------------------------- MODULE MCAllocEntry ----------------------------
(* The real table of size classes. *)
EXTENDS AllocEntry

RealRanges ==
  <<[limit |-> 128, align |-> 8],
    [limit |-> 1024, align |-> 16],
    [limit |-> 8 * 1024, align |-> 128],
    [limit |-> 64 * 1024, align |-> 1024],
    [limit |-> 256 * 1024, align |-> 8 * 1024]>>

RealGroups == <<16, 56, 56, 56>>

ASSUME RealValues == RealTable

(* Every size served by the thread caches, and the borders between page      *)
(* cache and mmap above them.                                                *)
AllSizes ==
  1 .. 256 * 1024 + 4096 + 1
    \cup {n * 4096 + d : n \in 126 .. 130, d \in -1 .. 1}
=============================================================================
