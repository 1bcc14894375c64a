----------------------------- MODULE PageCache -----------------------------
(***************************************************************************)
(* PageCache of the memory pool (memory_pool/): spans of pages are cut from *)
(* larger ones for the central cache and for large allocations, and merged  *)
(* with their neighbours when they come back.  Neighbours are found through *)
(* _m_page_span_map alone.                                                  *)
(*                                                                          *)
(* The callers hold _m_mtx around create_pc_span and                        *)
(* recover_span_to_page_cache.  The loops inside them are steps of the      *)
(* thread that holds the lock: phase is "idle" while nobody does.           *)
(*                                                                          *)
(* Memory comes from the heap in three calls: ptr = sbrk(0), sbrk(0) again, *)
(* and brk() to n pages above what the second has returned.  The pool of    *)
(* the ThreadCache objects (alloc.h) grows the same way under a lock of its *)
(* own, so the two may interleave, and brk() with an old value takes the    *)
(* heap back below pages the other has been granted.  raced is a history    *)
(* variable: one has moved the break between the other's calls.  What the   *)
(* page cache guarantees it guarantees until then.                          *)
(*                                                                          *)
(* MapAllForgotten, MapEndsOnlyFirst, FitsIgnoringUse, MergedSubtracts,     *)
(* ListOfMerged, RestTooLong and NewBreakShort are seeded faults that show  *)
(* what the properties detect; Next uses none of them.                      *)
(***************************************************************************)
EXTENDS Integers, Sequences, FiniteSetsExt

CONSTANTS
  MaxPages,      \* MAX_PAGE_COUNT
  CentralSizes,  \* page counts the central cache asks for
  LargeSizes,    \* page counts tnc_malloc asks for above MAX_ALLOC_BYTES
  HugeSizes,     \* those above MAX_PAGE_COUNT, served by mmap
  Spans,         \* bound: the Span objects of _m_span_pool
  MaxBrk,        \* bound: pages the heap may grow to
  TcPages,       \* pages tc_pool takes from the heap at a time
  MmapStarts,    \* where mmap may place a huge span, above MaxBrk
  NoSpan

ASSUME PageCacheAssumption ==
  /\ MaxPages \in Nat \ {0}
  /\ CentralSizes \subseteq 1 .. MaxPages
  /\ LargeSizes \subseteq 1 .. MaxPages
  /\ HugeSizes \subseteq Nat /\ \A k \in HugeSizes : k > MaxPages
  /\ MaxBrk \in Nat /\ TcPages \in Nat \ {0}
  /\ MmapStarts \subseteq Nat /\ \A p \in MmapStarts : p > MaxBrk + 1
  /\ NoSpan \notin Spans

VARIABLES
  page_id,    \* Span::_page_id
  page_size,  \* Span::_page_size
  is_use,     \* Span::_is_use
  status,     \* who has the Span object: see SpanStates
  lists,      \* _m_span_lists, by page count
  map,        \* _m_page_span_map
  heap,       \* the pages SystemAlloc has taken from the heap
  phase,      \* what the holder of _m_mtx is doing
  want,       \* create_pc_span: its page_count
  by,         \* create_pc_span: "central" or "large"
  cur,        \* recover_span_to_page_cache: its span
  break,      \* the first page beyond the heap
  ptr,        \* SystemAlloc: what sbrk(0) has returned, for each pool; 0 outside
  top,        \* SystemAlloc: what the second sbrk(0) has returned; 0 before
  tcHeap,     \* the pages tc_pool has taken from the heap
  raced       \* history: see above

lockVars == <<phase, want, by, cur>>
osVars == <<break, ptr, top, tcHeap, raced>>
vars == <<page_id, page_size, is_use, status, lists, map, heap, lockVars, osVars>>

SpanStates ==
  {"none",     \* in _m_span_pool
   "free",     \* in one of the lists
   "out",      \* handed out
   "merging"}  \* being given back

Pages(s) == page_id[s] .. page_id[s] + page_size[s] - 1

Init ==
  /\ page_id = [s \in Spans |-> 0]
  /\ page_size = [s \in Spans |-> 0]
  /\ is_use = [s \in Spans |-> FALSE]
  /\ status = [s \in Spans |-> "none"]
  /\ lists = [n \in 1 .. MaxPages |-> <<>>]
  /\ map = [p \in {} |-> NoSpan]
  /\ heap = {}
  /\ phase = "idle"
  /\ want = 1
  /\ by = "central"
  /\ cur = NoSpan
  /\ break = 1
  /\ ptr = [pool \in {"pc", "tc"} |-> 0]
  /\ top = [pool \in {"pc", "tc"} |-> 0]
  /\ tcHeap = {}
  /\ raced = FALSE

(* FixedMemPool::New: any object that is not in use.  Delete leaves          *)
(* _page_size and _is_use of the dead object as they are.  When this pool    *)
(* itself takes pages from the heap, that is a step like TcAlloc.            *)
NewSpan(s) == status[s] = "none"

(* find_span_by_address, which has no answer for a page that is not mapped. *)
FindSpan(p) == IF p \in DOMAIN map THEN map[p] ELSE NoSpan

(* _m_page_span_map[p] = s for every p in ps. *)
MapTo(ps, s) == [p \in DOMAIN map \cup ps |-> IF p \in ps THEN s ELSE map[p]]

(* Every page of a span that is handed out, both ends of one that comes back. *)
MapAllForgotten(s) == map
MapAll(s) == MapTo(Pages(s), s)
MapEndsOnlyFirst(s) == MapTo({page_id[s]}, s)
MapEnds(s) == MapTo({page_id[s], page_id[s] + page_size[s] - 1}, s)

(* SpanList: pop_front and push_front on list n; erase, by which a merged    *)
(* neighbour leaves it: the nodes around s are linked to each other.         *)
Unlink(l, s) ==
  IF \E i \in DOMAIN l : l[i] = s
  THEN LET i == CHOOSE j \in DOMAIN l : l[j] = s
       IN SubSeq(l, 1, i - 1) \o SubSeq(l, i + 1, Len(l))
  ELSE l

PopFront(n) == [lists EXCEPT ![n] = Tail(@)]
PushFront(ls, n, s) == [ls EXCEPT ![n] = <<s>> \o @]
Erase(n, s) == [lists EXCEPT ![n] = Unlink(@, s)]
-----------------------------------------------------------------------------
(* create_pc_span for at most MAX_PAGE_COUNT pages.                          *)
Create(kind, k) ==
  /\ phase = "idle"
  /\ phase' = "create"
  /\ want' = k
  /\ by' = kind
  /\ UNCHANGED <<page_id, page_size, is_use, status, lists, map, heap, cur, osVars>>

(* The caller releases the lock with s.  Only the central cache marks it.    *)
HandOut(s) ==
  /\ is_use' = [is_use EXCEPT ![s] = (by = "central")]
  /\ phase' = "idle"
  /\ want' = 1
  /\ by' = "central"
  /\ UNCHANGED <<heap, cur, osVars>>

Exact ==
  /\ phase = "create"
  /\ lists[want] # <<>>
  /\ LET s == Head(lists[want]) IN
       /\ lists' = PopFront(want)
       /\ status' = [status EXCEPT ![s] = "out"]
       /\ map' = MapAll(s)
       /\ HandOut(s)
  /\ UNCHANGED <<page_id, page_size>>

(* The smallest larger span is cut: a new object takes the front of it, and  *)
(* the rest stays free.                                                      *)
RestTooLong(n) == n - want + 1
Rest(n) == n - want

Split(n, t) ==
  /\ phase = "create"
  /\ lists[want] = <<>>
  /\ n > want /\ lists[n] # <<>>
  /\ \A m \in want .. n - 1 : lists[m] = <<>>
  /\ NewSpan(t)
  /\ LET s == Head(lists[n])
         rest == Rest(n)
         first == page_id[s]
     IN /\ page_id' = [page_id EXCEPT ![t] = first, ![s] = first + want]
        /\ page_size' = [page_size EXCEPT ![t] = want, ![s] = rest]
        /\ lists' = PushFront(PopFront(n), rest, s)
        /\ map' = [p \in DOMAIN map \cup (first .. first + want - 1)
                         \cup {first + want, first + n - 1} |->
                     IF p \in first .. first + want - 1 THEN t
                     ELSE IF p \in {first + want, first + n - 1} THEN s
                     ELSE map[p]]
  /\ status' = [status EXCEPT ![t] = "out"]
  /\ HandOut(t)

(* SystemAlloc: sbrk(0), sbrk(0) again, and brk, which sets the break to     *)
(* what it is given, higher or lower.                                        *)
Sbrk(pool) ==
  /\ ptr[pool] = 0
  /\ ptr' = [ptr EXCEPT ![pool] = break]
  /\ UNCHANGED <<break, top, raced>>

SbrkAgain(pool) ==
  /\ ptr[pool] # 0 /\ top[pool] = 0
  /\ top' = [top EXCEPT ![pool] = break]
  /\ UNCHANGED <<break, ptr, raced>>

NewBreakShort(pool, n) == top[pool] + n - 1
NewBreak(pool, n) == top[pool] + n

Brk(pool, n) ==
  /\ top[pool] # 0
  /\ NewBreak(pool, n) <= MaxBrk + 1
  /\ break' = NewBreak(pool, n)
  /\ ptr' = [ptr EXCEPT ![pool] = 0]
  /\ top' = [top EXCEPT ![pool] = 0]
  /\ raced' = (raced \/ \E other \in DOMAIN ptr \ {pool} : ptr[other] # 0)

(* Nothing fits: the heap grows by MAX_PAGE_COUNT pages and the search       *)
(* starts again.  The pages are not entered into the map.                    *)
NothingFits == phase = "create" /\ \A m \in want .. MaxPages : lists[m] = <<>>

SystemAllocPtr ==
  /\ NothingFits
  /\ Sbrk("pc")
  /\ UNCHANGED <<page_id, page_size, is_use, status, lists, map, heap, lockVars, tcHeap>>

SystemAllocTop ==
  /\ NothingFits
  /\ SbrkAgain("pc")
  /\ UNCHANGED <<page_id, page_size, is_use, status, lists, map, heap, lockVars, tcHeap>>

SystemAlloc(t) ==
  LET first == ptr["pc"] IN
    /\ NothingFits
    /\ Brk("pc", MaxPages)
    /\ NewSpan(t)
    /\ page_id' = [page_id EXCEPT ![t] = first]
    /\ page_size' = [page_size EXCEPT ![t] = MaxPages]
    /\ is_use' = [is_use EXCEPT ![t] = FALSE]
    /\ status' = [status EXCEPT ![t] = "free"]
    /\ lists' = PushFront(lists, MaxPages, t)
    /\ heap' = heap \cup (first .. first + MaxPages - 1)
    /\ UNCHANGED <<map, lockVars, tcHeap>>

(* tc_pool.New() of tnc_malloc, when the pool is empty: its own lock, the    *)
(* same heap.                                                                *)
TcAllocPtr ==
  /\ Sbrk("tc")
  /\ UNCHANGED <<page_id, page_size, is_use, status, lists, map, heap, lockVars, tcHeap>>

TcAllocTop ==
  /\ SbrkAgain("tc")
  /\ UNCHANGED <<page_id, page_size, is_use, status, lists, map, heap, lockVars, tcHeap>>

TcAlloc ==
  /\ Brk("tc", TcPages)
  /\ tcHeap' = tcHeap \cup (ptr["tc"] .. ptr["tc"] + TcPages - 1)
  /\ UNCHANGED <<page_id, page_size, is_use, status, lists, map, heap, lockVars>>

(* More than MAX_PAGE_COUNT pages come from mmap; only both ends are mapped. *)
CreateHuge(k, t, start) ==
  /\ phase = "idle"
  /\ NewSpan(t)
  /\ \A s \in Spans : status[s] = "out" => Pages(s) \cap (start .. start + k - 1) = {}
  /\ page_id' = [page_id EXCEPT ![t] = start]
  /\ page_size' = [page_size EXCEPT ![t] = k]
  /\ is_use' = [is_use EXCEPT ![t] = FALSE]
  /\ status' = [status EXCEPT ![t] = "out"]
  /\ map' = MapTo({start, start + k - 1}, t)
  /\ UNCHANGED <<lists, heap, lockVars, osVars>>
-----------------------------------------------------------------------------
(* recover_span_to_page_cache.                                               *)
Recover(s) ==
  /\ phase = "idle"
  /\ status[s] = "out"
  /\ \/ /\ page_size[s] > MaxPages
        /\ status' = [status EXCEPT ![s] = "none"]
        /\ UNCHANGED lockVars
     \/ /\ page_size[s] <= MaxPages
        /\ status' = [status EXCEPT ![s] = "merging"]
        /\ cur' = s
        /\ phase' = "left"
        /\ UNCHANGED <<want, by>>
  /\ UNCHANGED <<page_id, page_size, is_use, lists, map, heap, osVars>>

(* The neighbour at page p is there, not in use, and small enough. *)
FitsIgnoringUse(p) ==
  /\ p \in DOMAIN map
  /\ page_size[map[p]] + page_size[cur] <= MaxPages

Fits(p) ==
  /\ p \in DOMAIN map
  /\ ~is_use[map[p]]
  /\ page_size[map[p]] + page_size[cur] <= MaxPages

(* The size of cur with its neighbour s, and the list s is taken from. *)
MergedSubtracts(s) == page_size[cur] - page_size[s]
Merged(s) == page_size[cur] + page_size[s]
ListOfMerged(s) == page_size[cur] + page_size[s]
ListOf(s) == page_size[s]

MergeLeft ==
  LET p == page_id[cur] - 1
      s == map[p]
  IN /\ phase = "left"
     /\ Fits(p)
     /\ page_id' = [page_id EXCEPT ![cur] = page_id[s]]
     /\ page_size' = [page_size EXCEPT ![cur] = Merged(s)]
     /\ lists' = Erase(ListOf(s), s)
     /\ status' = [status EXCEPT ![s] = "none"]
     /\ UNCHANGED <<is_use, map, heap, lockVars, osVars>>

LeftDone ==
  /\ phase = "left"
  /\ ~Fits(page_id[cur] - 1)
  /\ phase' = "right"
  /\ UNCHANGED <<page_id, page_size, is_use, status, lists, map, heap, want, by, cur, osVars>>

MergeRight ==
  LET p == page_id[cur] + page_size[cur]
      s == map[p]
  IN /\ phase = "right"
     /\ Fits(p)
     /\ page_size' = [page_size EXCEPT ![cur] = Merged(s)]
     /\ lists' = Erase(ListOf(s), s)
     /\ status' = [status EXCEPT ![s] = "none"]
     /\ UNCHANGED <<page_id, is_use, map, heap, lockVars, osVars>>

(* The merged span enters its list, and both its ends enter the map.  The    *)
(* inner entries keep pointing to objects that may be gone.                  *)
Recovered ==
  /\ phase = "right"
  /\ ~Fits(page_id[cur] + page_size[cur])
  /\ lists' = PushFront(lists, page_size[cur], cur)
  /\ is_use' = [is_use EXCEPT ![cur] = FALSE]
  /\ status' = [status EXCEPT ![cur] = "free"]
  /\ map' = MapEnds(cur)
  /\ phase' = "idle"
  /\ cur' = NoSpan
  /\ UNCHANGED <<page_id, page_size, heap, want, by, osVars>>
-----------------------------------------------------------------------------
CreateNext ==
  \/ \E k \in CentralSizes : Create("central", k)
  \/ \E k \in LargeSizes : Create("large", k)
  \/ Exact
  \/ \E n \in 1 .. MaxPages, t \in Spans : Split(n, t)
  \/ SystemAllocPtr
  \/ SystemAllocTop
  \/ \E t \in Spans : SystemAlloc(t)
  \/ \E k \in HugeSizes, t \in Spans, p \in MmapStarts : CreateHuge(k, t, p)

RecoverNext ==
  \/ \E s \in Spans : Recover(s)
  \/ MergeLeft
  \/ LeftDone
  \/ MergeRight
  \/ Recovered

Next == CreateNext \/ RecoverNext \/ TcAllocPtr \/ TcAllocTop \/ TcAlloc

Spec == Init /\ [][Next]_vars
-----------------------------------------------------------------------------
(* Every variable of the page cache has the type its declaration gives it. *)
TypeOK ==
  /\ page_id \in [Spans -> Nat]
  /\ page_size \in [Spans -> Nat]
  /\ is_use \in [Spans -> BOOLEAN]
  /\ status \in [Spans -> SpanStates]
  /\ lists \in [1 .. MaxPages -> Seq(Spans)]
  /\ DOMAIN map \subseteq Nat /\ \A p \in DOMAIN map : map[p] \in Spans
  /\ heap \subseteq Nat
  /\ phase \in {"idle", "create", "left", "right"}
  /\ want \in 1 .. MaxPages
  /\ by \in {"central", "large"}
  /\ cur \in Spans \cup {NoSpan}
  /\ break \in 1 .. MaxBrk + 1
  /\ ptr \in [{"pc", "tc"} -> 0 .. MaxBrk + 1]
  /\ top \in [{"pc", "tc"} -> 0 .. MaxBrk + 1]
  /\ tcHeap \subseteq Nat
  /\ raced \in BOOLEAN

(* Whatever was split and merged, every page taken from the heap belongs to  *)
(* exactly one span: none is lost, and memory that is handed out is never at *)
(* the same time free, part of another span, or part of one being merged.    *)
(* This holds until the break is moved between the calls of the other user   *)
(* of the heap; from then on two grants may overlap.                         *)
EachPageOnce ==
  ~raced =>
    /\ \A s, t \in Spans :
         status[s] # "none" /\ status[t] # "none" /\ s # t => Pages(s) \cap Pages(t) = {}
    /\ heap \subseteq UNION {Pages(s) : s \in {t \in Spans : status[t] # "none"}}

(* find_span_by_address leads every page the central cache was given, and    *)
(* the first page of every large allocation, back to its own span, however   *)
(* many stale entries merging has left in the map; an overlapping grant      *)
(* would overwrite them.                                                     *)
FindsOwner ==
  ~raced =>
    \A s \in Spans : status[s] = "out" =>
      \A p \in (IF is_use[s] THEN Pages(s) ELSE {page_id[s]}) :
        FindSpan(p) = s

(* Between calls list n holds exactly the free spans of n pages, each once:  *)
(* merging takes a neighbour out of the list it really is in.  It finds the  *)
(* neighbour through the map, so this, too, needs grants that are apart.     *)
ListsExact ==
  phase = "idle" /\ ~raced =>
    \A n \in 1 .. MaxPages :
      /\ {lists[n][i] : i \in DOMAIN lists[n]} =
           {s \in Spans : status[s] = "free" /\ page_size[s] = n}
      /\ \A i, j \in DOMAIN lists[n] : lists[n][i] = lists[n][j] => i = j

(* recover_span_to_page_cache never reads a Span object that was given back  *)
(* to _m_span_pool: the inner pages of a merged span leave stale entries in  *)
(* the map, and no merge may meet one at its border, as long as the grants   *)
(* are apart.                                                                *)
NeighboursAlive ==
  ~raced =>
    /\ phase = "left" /\ page_id[cur] - 1 \in DOMAIN map =>
         status[map[page_id[cur] - 1]] # "none"
    /\ phase = "right" /\ page_id[cur] + page_size[cur] \in DOMAIN map =>
         status[map[page_id[cur] + page_size[cur]]] # "none"

(* As long as no other thread has moved the break between the calls of       *)
(* SystemAlloc, the memory of the spans and of the ThreadCache objects are   *)
(* apart, and both lie below the break.                                      *)
HeapApart ==
  ~raced => heap \cap tcHeap = {} /\ heap \cup tcHeap \subseteq 1 .. break - 1

(* A span that is handed out keeps its pages until it is given back: no      *)
(* merge of a neighbour moves its bounds or takes its object away, as long   *)
(* as the grants of the heap are apart.                                      *)
OutStable ==
  [][\A s \in Spans : status[s] = "out" /\ phase # "idle" /\ ~raced =>
       status'[s] = "out" /\ page_id'[s] = page_id[s] /\ page_size'[s] = page_size[s]]_vars

(* What the users of the page cache see of it: the ranges handed out.        *)
PS == INSTANCE PageService
        WITH ranges <- {Pages(s) : s \in {t \in Spans : status[t] = "out"}},
             merging <- phase \in {"left", "right"}

(* PageCache implements PageService: however spans are cut and merged, every *)
(* range handed out is apart from the others, and leaves only when its user  *)
(* returns it, never in the middle of a merge on behalf of another.  After a *)
(* race for the break nothing is claimed: a range may be given twice.        *)
Service == PS!Init /\ [][PS!Next \/ raced]_(PS!svars)
=============================================================================
