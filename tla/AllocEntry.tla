----------------------------- MODULE AllocEntry -----------------------------
(***************************************************************************)
(* tnc_malloc and tnc_free (alloc.h), and with them the operators new and   *)
(* delete, the STL allocator and the pmr resource (tnc_malloc.h): one       *)
(* request on its way to the cache that serves it and back.  tnc_free is    *)
(* told neither the size nor where the memory came from; it decides by the  *)
(* number of pages of the span the address lies in.                         *)
(*                                                                          *)
(* PageRouteOffByOne, and IndexInNoMinusOne and BlockThreshHoldUncapped of  *)
(* SizeClass, are seeded faults that show what the properties detect; Next  *)
(* uses none of them.                                                       *)
(***************************************************************************)
EXTENDS SizeClass

CONSTANTS
  MaxPages,    \* MAX_PAGE_COUNT
  LargePages,  \* tnc_free takes a span of more pages for a large allocation
  ListCount,   \* FREE_LIST_SIZE
  Sizes        \* the requests that are made

ASSUME AllocAssumption ==
  /\ MaxPages \in Nat /\ LargePages \in Nat /\ ListCount \in Nat
  /\ Sizes \subseteq Nat \ {0}

(* The values in the source: details::constant, the ranges and group_array   *)
(* of RoundUp and Index, the bounds of BlockThreshHold, and the 64 pages of  *)
(* tnc_free.                                                                 *)
RealTable ==
  /\ Ranges = <<[limit |-> 128, align |-> 8], [limit |-> 1024, align |-> 16],
                [limit |-> 8192, align |-> 128], [limit |-> 65536, align |-> 1024],
                [limit |-> 262144, align |-> 8192]>>
  /\ group_array = <<16, 56, 56, 56>>
  /\ MaxAllocBytes = 262144 /\ PageBytes = 4096
  /\ MinBlocks = 2 /\ MaxBlocks = 512
  /\ MaxPages = 128 /\ LargePages = 64 /\ ListCount = 208

VARIABLES
  size,      \* the request
  from,      \* who served it: "none" before tnc_malloc
  list,      \* ThreadCache: the list it was taken from
  block,     \* Span::_block_size of its span, 0 when it is not set
  pages,     \* Span::_page_size of its span
  backTo,    \* who got it back: "none" before tnc_free
  backList   \* ThreadCache: the list it was put into

vars == <<size, from, list, block, pages, backTo, backList>>

(* A request arrives: operator new, TncAllocator and TncMemRe pass the number *)
(* of bytes on as it is.                                                     *)
Init ==
  /\ size \in Sizes
  /\ from = "none" /\ backTo = "none"
  /\ list = 0 /\ backList = 0
  /\ block = 0 /\ pages = 0

(* Up to MAX_ALLOC_BYTES: ThreadCache::allocate takes a block of the rounded *)
(* size from the list of the size asked for.                                 *)
MallocSmall ==
  /\ from = "none"
  /\ size <= MaxAllocBytes
  /\ from' = "thread_cache"
  /\ list' = Index(size)
  /\ block' = RoundUp(size)
  /\ pages' = PageThreshHold(RoundUp(size))
  /\ UNCHANGED <<size, backTo, backList>>

(* Above: a span of its own, from the page cache or, when it is too large    *)
(* for that, from mmap; only the latter sets _block_size.                    *)
PageRouteOffByOne(n) == IF n < MaxPages THEN "page_cache" ELSE "mmap"
PageRoute(n) == IF n <= MaxPages THEN "page_cache" ELSE "mmap"

MallocLarge ==
  /\ from = "none"
  /\ size > MaxAllocBytes
  /\ LET n == RoundUp(size) \div PageBytes IN
       /\ pages' = n
       /\ from' = PageRoute(n)
       /\ block' = IF n > MaxPages THEN MaxAllocBytes + 1 ELSE 0
  /\ UNCHANGED <<size, list, backTo, backList>>

(* The span goes back as a whole, to mmap when it is too large for the page  *)
(* cache (recover_span_to_page_cache).                                       *)
FreeLarge ==
  /\ from # "none" /\ backTo = "none"
  /\ pages > LargePages
  /\ backTo' = IF pages > MaxPages THEN "mmap" ELSE "page_cache"
  /\ UNCHANGED <<size, from, list, block, pages, backList>>

(* ThreadCache::deallocate of a block of the span's _block_size. *)
FreeSmall ==
  /\ from # "none" /\ backTo = "none"
  /\ pages <= LargePages
  /\ backTo' = "thread_cache"
  /\ backList' = Index(block)
  /\ UNCHANGED <<size, from, list, block, pages>>

Done == backTo # "none" /\ UNCHANGED vars

Next == MallocSmall \/ MallocLarge \/ FreeLarge \/ FreeSmall \/ Done

Spec == Init /\ [][Next]_vars
-----------------------------------------------------------------------------
(* The table in thread_cache.h:34-40: the size of the blocks in list i. *)
TableSize(i) ==
  IF i < 16 THEN 8 * (i + 1)
  ELSE IF i < 72 THEN 128 + 16 * (i - 15)
  ELSE IF i < 128 THEN 1024 + 128 * (i - 71)
  ELSE IF i < 184 THEN 8 * 1024 + 1024 * (i - 127)
  ELSE 64 * 1024 + 8 * 1024 * (i - 183)

(* RoundUp and Index agree with the documented table for every size: the     *)
(* list exists, its blocks are the smallest that hold the request, and the   *)
(* block goes back to the list it was taken from, although one lookup uses   *)
(* the size asked for and the other the rounded one.                         *)
TableKept ==
  from = "thread_cache" =>
    /\ list \in 0 .. ListCount - 1
    /\ block = TableSize(list)
    /\ size <= block /\ (list > 0 => size > TableSize(list - 1))
    /\ backTo = "thread_cache" => backList = list

(* The span of every size class is one the page cache can cut (not one of    *)
(* mmap, whose inner pages are not in the page map), and holds between two   *)
(* and MaxBlocks whole blocks.  Blocks of at most 512 bytes all lie inside   *)
(* it.  Above, the loop of _m_get_span (central_cache.cpp:155) may link a    *)
(* last block that begins in the span and ends beyond it, because            *)
(* PageThreshHold rounds down.                                               *)
SpanServes ==
  from = "thread_cache" =>
    /\ pages \in 1 .. MaxPages
    /\ (pages * PageBytes) \div block \in MinBlocks .. MaxBlocks
    /\ block <= 512 => Carved(pages, block) * block <= pages * PageBytes

(* Every request returns to the cache that served it, with one exception:    *)
(* the span of a block of more than half of MAX_ALLOC_BYTES has more than    *)
(* LargePages pages, and one block is freed with the whole span.             *)
FreedWhereAllocated ==
  backTo # "none" =>
    (backTo = from <=> ~(MaxAllocBytes \div 2 < size /\ size <= MaxAllocBytes))
=============================================================================
