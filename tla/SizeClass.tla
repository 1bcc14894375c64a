----------------------------- MODULE SizeClass -----------------------------
(***************************************************************************)
(* The arithmetic of the memory pool (common.h, central_cache.cpp): which   *)
(* block size a request is rounded up to, which free list serves it, how    *)
(* many blocks and pages are asked for at a time.                           *)
(*                                                                          *)
(* The numbers of details::constant and the five ranges of RoundUp and      *)
(* Index are parameters, so that the same definitions serve the real table  *)
(* (MCAllocEntry) and the small one of the concurrent models.               *)
(***************************************************************************)
EXTENDS Integers, Sequences

CONSTANTS
  Ranges,         \* the ranges of sizes: the largest size and the alignment of each
  group_array,    \* how many lists each range but the last has, as Index counts them
  MaxAllocBytes,  \* MAX_ALLOC_BYTES
  PageBytes,      \* 1 << PAGE_SHIFT
  MinBlocks,      \* the bounds of BlockThreshHold
  MaxBlocks

ASSUME SizeClassAssumption ==
  /\ Ranges \in Seq([limit : Nat \ {0}, align : Nat \ {0}]) /\ Ranges # <<>>
  /\ \A i \in 2 .. Len(Ranges) : Ranges[i - 1].limit < Ranges[i].limit
  /\ MaxAllocBytes = Ranges[Len(Ranges)].limit
  /\ group_array \in Seq(Nat) /\ Len(group_array) = Len(Ranges) - 1
  /\ PageBytes \in Nat \ {0}
  /\ MinBlocks \in Nat \ {0} /\ MaxBlocks \in Nat /\ MinBlocks <= MaxBlocks

(* _RoundUp: the mask of the code is the division by a power of two. *)
RoundUpTo(size, align) == ((size + align - 1) \div align) * align

(* The first range whose limit is not below size. *)
RangeOf(size) ==
  CHOOSE i \in DOMAIN Ranges :
    size <= Ranges[i].limit /\ \A j \in 1 .. i - 1 : Ranges[j].limit < size

(* Requests above MAX_ALLOC_BYTES are rounded up to whole pages. *)
RoundUp(size) ==
  IF size <= MaxAllocBytes
  THEN RoundUpTo(size, Ranges[RangeOf(size)].align)
  ELSE RoundUpTo(size, PageBytes)

(* Lists in the ranges before the i-th. *)
ListsBefore[i \in DOMAIN Ranges] ==
  IF i = 1 THEN 0 ELSE ListsBefore[i - 1] + group_array[i - 1]

(* _Index: the number of the list inside a range that begins after start. *)
IndexInNoMinusOne(size, align) == (size + align - 1) \div align
IndexIn(size, align) == (size + align - 1) \div align - 1

Index(size) ==
  LET i == RangeOf(size)
      start == IF i = 1 THEN 0 ELSE Ranges[i - 1].limit
  IN IndexIn(size - start, Ranges[i].align) + ListsBefore[i]

(* A list serves one size of blocks, and a block of that size goes into it    *)
(* again (deallocate looks for the list of the rounded size).                *)
ClassesSound(sizes) ==
  \A m, n \in sizes :
    /\ RoundUp(n) \in Nat \ {0}
    /\ Index(RoundUp(n)) = Index(n)
    /\ Index(m) = Index(n) => RoundUp(m) = RoundUp(n)

(* Blocks of one size a thread may ask for at a time. *)
BlockThreshHoldUncapped(align_size) ==
  LET n == MaxAllocBytes \div align_size
  IN IF n < MinBlocks THEN MinBlocks ELSE n

BlockThreshHold(align_size) ==
  LET n == MaxAllocBytes \div align_size
  IN IF n > MaxBlocks THEN MaxBlocks ELSE IF n < MinBlocks THEN MinBlocks ELSE n

(* Pages of the span that is cut into blocks of that size. *)
PageThreshHold(align_size) ==
  LET n == (BlockThreshHold(align_size) * align_size) \div PageBytes
  IN IF n = 0 THEN 1 ELSE n

(* How many blocks _m_get_span links in a span of that many pages: one for    *)
(* every multiple of align_size below the end of the span.                   *)
Carved(pages, align_size) == (pages * PageBytes + align_size - 1) \div align_size
=============================================================================
