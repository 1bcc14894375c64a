---------------------------- MODULE CentralCache ----------------------------
(***************************************************************************)
(* Blocks of the memory pool: the thread caches (ThreadCache, Freelist),    *)
(* the central cache with a locked list of spans for each size class, and   *)
(* tnc_malloc / tnc_free above them.  The page cache below is used by what  *)
(* it promises: PageService, and PageCache!FindsOwner for                   *)
(* find_span_by_address.                                                    *)
(*                                                                          *)
(* Memory is counted in units; next[a] is the pointer GetNextAddr reads at  *)
(* address a, 0 while a user has the block.  What runs under the lock of a  *)
(* list is one action, except the loop of recover_blocks_to_spans, which is *)
(* one for each block ("loop" holds the lock); what a thread does with      *)
(* memory only it can reach belongs to the action before.                   *)
(*                                                                          *)
(* broken is a history variable: recover_blocks_to_spans has left in a span *)
(* that stays the address of a block of another span, or tnc_free has given *)
(* back a span that is in a list of the central cache.  A behaviour ends    *)
(* once memory is used that is no longer the user's (~Sane): what the code  *)
(* does then depends on what the new owner has written there.               *)
(*                                                                          *)
(* PushRangeCountsFirst, CutForgotten and LastBlockLate are seeded faults    *)
(* that show what the properties detect; Next uses none.                    *)
(***************************************************************************)
EXTENDS SizeClass, FiniteSetsExt

CONSTANTS
  Threads,
  Requests,    \* sizes the threads ask for
  Spans,       \* bound: the Span objects
  HeapPages,   \* bound: the pages the page cache has to give
  LargePages,  \* tnc_free gives a span of more pages back as a whole
  NoSpan

ASSUME CentralAssumption ==
  /\ Requests \subseteq 1 .. MaxAllocBytes
  /\ HeapPages \in Nat /\ LargePages \in Nat
  /\ NoSpan \notin Spans
  /\ ClassesSound(Requests)

VARIABLES
  next,     \* the pointer at the start of each block
  span,     \* the Span objects: _page_id (0: not handed out), _block_size,
            \* _freelist_header, _use_count
  lists,    \* CentralCache::_m_span_lists
  tc,       \* each thread's Freelists: _m_freelist_header, _m_apply_count, _m_size
  made,     \* threads that have a ThreadCache
  used,     \* blocks in the hands of users
  call,     \* where each thread is (at), and the locals of its call: align_size,
            \* block_count, span, start
  broken    \* history: see above

vars == <<next, span, lists, tc, made, used, call, broken>>

Pages == 1 .. HeapPages
Addresses == PageBytes .. (HeapPages + 1) * PageBytes - 1
Lists == {Index(n) : n \in Requests}

NewSpan == [page |-> 0, block |-> 0, header |-> 0, use |-> 0]
Idle == [at |-> "idle", align |-> 1, count |-> 0, span |-> NoSpan, start |-> 0]

Init ==
  /\ next = [a \in Addresses |-> 0]
  /\ span = [s \in Spans |-> NewSpan]
  /\ lists = [i \in Lists |-> <<>>]
  /\ tc = [t \in Threads |-> [i \in Lists |-> [header |-> 0, apply |-> 1, size |-> 0]]]
  /\ made = {}
  /\ used = {}
  /\ call = [t \in Threads |-> Idle]
  /\ broken = FALSE

Given == {s \in Spans : span[s].page # 0}
PagesOf(s) == span[s].page .. span[s].page + PageThreshHold(span[s].block) - 1

(* The addresses of a span that is handed out. *)
BlocksOf(s) ==
  LET pages == IF s \in Given THEN PagesOf(s) ELSE {}
  IN {b \in Addresses : b \div PageBytes \in pages}

(* find_span_by_address for a block of a span that is handed out. *)
OwnerOf(b) == CHOOSE s \in Given : b \div PageBytes \in PagesOf(s)

ListOf(t) == Index(call[t].align)
LockFree(t) == \A u \in Threads : ~(call[u].at = "loop" /\ ListOf(u) = ListOf(t))

(* The block behind b; the k-th block of the list that begins at a, 0 beyond *)
(* its end; the first n blocks, and how many there are; all of it (no list   *)
(* is longer than the memory).                                               *)
Behind(b) == IF b = 0 THEN 0 ELSE next[b]
Nth(a, k) ==
  LET at[j \in 1 .. k] == IF j = 1 THEN a ELSE Behind(at[j - 1])
  IN at[k]
First(a, n) == {Nth(a, k) : k \in 1 .. n} \ {0}
FirstLen(a, n) == Cardinality({k \in 1 .. n : Nth(a, k) # 0})
Chain(a) == IF a = 0 THEN {} ELSE First(a, Cardinality(Addresses))

(* Freelist: what each operation leaves of list l.  pop_range is told where  *)
(* the list goes on after the apply_count blocks it takes.                   *)
PopFront(l) == [l EXCEPT !.header = next[@], !.size = @ - 1]
PushFront(l, b) == [l EXCEPT !.header = b, !.size = @ + 1]
PushRangeCountsFirst(l, start, n) == [l EXCEPT !.header = start, !.size = @ + n + 1]
PushRange(l, start, n) == [l EXCEPT !.header = start, !.size = @ + n]
PopRange(l, rest) == [l EXCEPT !.header = rest, !.size = @ - l.apply]
Increment(l) == [l EXCEPT !.apply = @ + 1]
-----------------------------------------------------------------------------
(* tnc_malloc and ThreadCache::allocate: a block of the thread's own list is *)
(* handed out at once.                                                       *)
MallocCached(t, n) ==
  LET i == Index(n)
      b == tc[t][i].header
  IN /\ call[t].at = "idle"
     /\ b # 0
     /\ tc' = [tc EXCEPT ![t][i] = PopFront(@)]
     /\ used' = used \cup {b}
     /\ next' = [next EXCEPT ![b] = 0]
     /\ UNCHANGED <<span, lists, made, call, broken>>

(* Otherwise _m_alloc_from_central asks for apply_count blocks, but not for  *)
(* more than BlockThreshHold, and next time for one more.  The first call of *)
(* a thread makes its cache.                                                 *)
BlockCount(apply, limit) == Min({apply, limit})

MallocCentral(t, n) ==
  LET i == Index(n)
      m == BlockCount(tc[t][i].apply, BlockThreshHold(RoundUp(n)))
  IN /\ call[t].at = "idle"
     /\ tc[t][i].header = 0
     /\ made' = made \cup {t}
     /\ call' = [call EXCEPT ![t] = [@ EXCEPT !.at = "alloc", !.align = RoundUp(n), !.count = m]]
     /\ tc' = [tc EXCEPT ![t][i] = IF m = @.apply THEN Increment(@) ELSE @]
     /\ UNCHANGED <<next, span, lists, used, broken>>

(* GetNextAddr(end) = nullptr: what is taken from a list ends there.         *)
CutForgotten(last) == next
Cut(last) == [next EXCEPT ![last] = 0]

(* The end of _m_alloc_from_central: the first of the n blocks goes to the   *)
(* user, the others into the thread's list, which is empty.                  *)
ToThread(t, i, first, n) ==
  /\ used' = used \cup {first}
  /\ tc' = [tc EXCEPT ![t][i] = IF n = 1 THEN @ ELSE PushRange(@, next[first], n - 1)]

(* The rest of alloc_to_thread, under the lock and with a span that has a    *)
(* block.                                                                    *)
Take(t, s) ==
  LET first == span[s].header
      n == FirstLen(first, call[t].count)
      last == Nth(first, n)
  IN /\ span' = [span EXCEPT ![s] = [@ EXCEPT !.header = next[last], !.use = span[s].use + n]]
     /\ ToThread(t, ListOf(t), first, n)
     /\ next' = [Cut(last) EXCEPT ![first] = 0]
     /\ call' = [call EXCEPT ![t] = Idle]
     /\ UNCHANGED <<made, broken>>

HasBlock(l) == {k \in DOMAIN l : span[l[k]].header # 0}

AllocFound(t) ==
  LET l == lists[ListOf(t)] IN
    /\ call[t].at = "alloc"
    /\ LockFree(t)
    /\ HasBlock(l) # {}
    /\ Take(t, l[Min(HasBlock(l))])
    /\ UNCHANGED lists

(* _m_get_span finds none and releases the lock. *)
AllocMissed(t) ==
  /\ call[t].at = "alloc"
  /\ LockFree(t)
  /\ HasBlock(lists[ListOf(t)]) = {}
  /\ call' = [call EXCEPT ![t].at = "span"]
  /\ UNCHANGED <<next, span, lists, tc, made, used, broken>>

(* It gets a span of PageThreshHold pages (create_pc_span: any object, any   *)
(* pages nobody else has) and links its blocks.                              *)
CreateSpan(t, s, p) ==
  LET a == call[t].align
      k == PageThreshHold(a)
      block(j) == p * PageBytes + (j - 1) * a
      m == Carved(k, a)
  IN /\ call[t].at = "span"
     /\ s \notin Given
     /\ p + k - 1 <= HeapPages
     /\ \A u \in Given : PagesOf(u) \cap (p .. p + k - 1) = {}
     /\ span' = [span EXCEPT ![s] = [@ EXCEPT !.page = p, !.block = a, !.header = block(1)]]
     /\ next' = [b \in Addresses |->
                   IF \E j \in 1 .. m : b = block(j)
                   THEN IF b = block(m) THEN 0 ELSE b + a
                   ELSE next[b]]
     /\ call' = [call EXCEPT ![t] = [@ EXCEPT !.at = "insert", !.span = s]]
     /\ UNCHANGED <<lists, tc, made, used, broken>>

(* span_list.insert at the front, and the rest of alloc_to_thread. *)
InsertTake(t) ==
  /\ call[t].at = "insert"
  /\ LockFree(t)
  /\ lists' = [lists EXCEPT ![ListOf(t)] = <<call[t].span>> \o @]
  /\ Take(t, call[t].span)
-----------------------------------------------------------------------------
(* tnc_free.  A span of more than 64 pages is taken for a large allocation   *)
(* and given back as a whole, although it may be one of the central cache.   *)
FreeWhole(t, b) ==
  LET s == OwnerOf(b) IN
    /\ call[t].at = "idle"
    /\ b \in used
    /\ PageThreshHold(span[s].block) > LargePages
    /\ used' = used \ {b}
    /\ span' = [span EXCEPT ![s].page = 0]
    /\ broken' = TRUE
    /\ UNCHANGED <<next, lists, tc, made, call>>

(* A thread that has not allocated has no ThreadCache: deallocate is called  *)
(* through a null pointer.                                                   *)
FreeNoCache(t, b) ==
  /\ call[t].at = "idle"
  /\ b \in used
  /\ PageThreshHold(span[OwnerOf(b)].block) <= LargePages
  /\ t \notin made
  /\ call' = [call EXCEPT ![t].at = "crashed"]
  /\ UNCHANGED <<next, span, lists, tc, made, used, broken>>

(* _m_release_block: apply_count blocks, b being the first, leave list i of  *)
(* thread t and are returned.                                                *)
ReleaseBlock(t, i, b) ==
  LET l == tc[t][i]
      last == IF l.apply = 1 THEN b ELSE Nth(l.header, l.apply - 1)
      rest == IF l.apply = 1 THEN l.header ELSE next[last]
  IN /\ next' = [next EXCEPT ![b] = l.header, ![last] = 0]
     /\ tc' = [tc EXCEPT ![t][i] = PopRange(PushFront(@, b), rest)]
     /\ call' = [call EXCEPT ![t] =
                   [@ EXCEPT !.at = "recover", !.align = span[OwnerOf(b)].block, !.start = b]]

(* ThreadCache::deallocate: b enters its list, which is relieved once it has *)
(* apply_count blocks.                                                       *)
Release(l) == l.size >= l.apply

FreeCached(t, b) ==
  LET a == span[OwnerOf(b)].block
      i == Index(a)
      l == PushFront(tc[t][i], b)
  IN /\ call[t].at = "idle"
     /\ b \in used
     /\ PageThreshHold(a) <= LargePages
     /\ t \in made
     /\ used' = used \ {b}
     /\ \/ Release(l) /\ ReleaseBlock(t, i, b)
        \/ /\ ~Release(l)
           /\ next' = [next EXCEPT ![b] = tc[t][i].header]
           /\ tc' = [tc EXCEPT ![t][i] = l]
           /\ UNCHANGED call
     /\ UNCHANGED <<span, lists, made, broken>>

(* recover_blocks_to_spans takes the lock, at first and after each span it   *)
(* has given back.                                                           *)
RecoverLock(t) ==
  /\ call[t].at = "recover"
  /\ LockFree(t)
  /\ call' = [call EXCEPT ![t].at = "loop"]
  /\ UNCHANGED <<next, span, lists, tc, made, used, broken>>

(* One block.  It is linked before the free blocks of its span, and then     *)
(* _freelist_header is set to the NEXT block of the list that is returned.   *)
(* The last user's block takes the span out of the list.                     *)
LastBlockLate(s) == span[s].use = 2
LastBlock(s) == span[s].use = 1

(* SpanList::erase of a span that is in the list: what is behind it moves up. *)
Erase(l, s) ==
  [k \in 1 .. Len(l) - 1 |-> IF \E j \in 1 .. k : l[j] = s THEN l[k + 1] ELSE l[k]]

RecoverBlock(t) ==
  LET b == call[t].start
      s == OwnerOf(b)
      rest == next[b]
      last == LastBlock(s)
  IN /\ call[t].at = "loop"
     /\ b # 0
     /\ next' = [next EXCEPT ![b] = span[s].header]
     /\ span' = [span EXCEPT ![s] =
                   [@ EXCEPT !.header = IF last THEN 0 ELSE rest, !.use = span[s].use - 1]]
     /\ IF last
        THEN /\ lists' = [lists EXCEPT ![ListOf(t)] = Erase(@, s)]
             /\ call' = [call EXCEPT ![t] =
                           [@ EXCEPT !.at = "giveback", !.start = rest, !.span = s]]
        ELSE /\ call' = [call EXCEPT ![t].start = rest]
             /\ UNCHANGED lists
     /\ broken' = (broken \/ (~last /\ rest # 0 /\ OwnerOf(rest) # s))
     /\ UNCHANGED <<tc, made, used>>

(* recover_span_to_page_cache, without the lock of the list.  What the pages  *)
(* contain is forgotten with it.                                             *)
GiveBack(t) ==
  /\ call[t].at = "giveback"
  /\ next' = [b \in Addresses |-> IF b \in BlocksOf(call[t].span) THEN 0 ELSE next[b]]
  /\ span' = [span EXCEPT ![call[t].span] = NewSpan]
  /\ call' = [call EXCEPT ![t] = [@ EXCEPT !.at = "recover", !.span = NoSpan]]
  /\ UNCHANGED <<lists, tc, made, used, broken>>

RecoverDone(t) ==
  /\ call[t].at = "loop"
  /\ call[t].start = 0
  /\ call' = [call EXCEPT ![t] = Idle]
  /\ UNCHANGED <<next, span, lists, tc, made, used, broken>>
-----------------------------------------------------------------------------
(* Blocks that are not free in a span: a thread's list, the list it returns. *)
CachedBy(t) == UNION {Chain(tc[t][i].header) : i \in Lists}
ReturnedBy(t) == Chain(call[t].start)
Held == used \cup UNION {CachedBy(t) \cup ReturnedBy(t) : t \in Threads}

(* No block is with two of them, and _m_size counts the blocks of each list. *)
HandsDisjoint ==
  \A t \in Threads :
    LET cached == CachedBy(t)
        returned == ReturnedBy(t)
        hands == cached \cup returned
    IN /\ hands \cap used = {} /\ cached \cap returned = {}
       /\ \A u \in Threads \ {t} : hands \cap (CachedBy(u) \cup ReturnedBy(u)) = {}
SizesExact ==
  \A t \in Threads : \A i \in Lists : tc[t][i].size = Cardinality(Chain(tc[t][i].header))

(* "use_count is 0: all the blocks of the span have been returned"           *)
(* (central_cache.cpp:81): a span that goes back to the page cache has no    *)
(* block that someone still has.                                             *)
Complete ==
  \A t \in Threads :
    call[t].at = "giveback" => BlocksOf(call[t].span) \cap Held = {}

Sane ==
  /\ \A t \in Threads : call[t].at # "crashed"
  /\ \A i \in Lists : \A k \in DOMAIN lists[i] : lists[i][k] \in Given
  /\ Held \subseteq UNION {BlocksOf(s) : s \in {u \in Given : span[u].use > 0}}
  /\ HandsDisjoint /\ SizesExact

MallocNext(t) ==
  \/ \E n \in Requests : MallocCached(t, n) \/ MallocCentral(t, n)
  \/ AllocFound(t)
  \/ AllocMissed(t)
  \/ \E s \in Spans, p \in Pages : CreateSpan(t, s, p)
  \/ InsertTake(t)

FreeNext(t) ==
  \/ \E b \in used : FreeWhole(t, b) \/ FreeNoCache(t, b) \/ FreeCached(t, b)
  \/ RecoverLock(t)
  \/ RecoverBlock(t)
  \/ GiveBack(t)
  \/ RecoverDone(t)

Next == Sane /\ \E t \in Threads : MallocNext(t) \/ FreeNext(t)

Spec == Init /\ [][Next]_vars
-----------------------------------------------------------------------------
(* While nothing is broken, _use_count is the number of the span's           *)
(* blocks that users, thread caches and returns under way have, whatever the *)
(* order in which threads pass blocks of a span to each other; so none of    *)
(* these blocks lies in pages that went back to the page cache.              *)
UseCountExact ==
  ~broken => LET held == Held IN
    /\ \A s \in Given : span[s].use = Cardinality(BlocksOf(s) \cap held)
    /\ held \subseteq UNION {BlocksOf(s) : s \in Given}

(* The blocks a span was cut into. *)
CarvedBlocks(s) ==
  LET a == span[s].block
  IN {span[s].page * PageBytes + (j - 1) * a : j \in 1 .. Carved(PageThreshHold(a), a)}

(* While nothing is broken, no block is in two places: with a user, in one   *)
(* thread's list, in one return, or free in its own span; and as long as a   *)
(* span has a free block, each block it was cut into is in one of them.      *)
(* Only the return of a block loses blocks (RecoverBlock overwrites          *)
(* _freelist_header), and it leaves its span without a free one.             *)
OnePlace ==
  ~broken => LET held == Held IN
    /\ HandsDisjoint
    /\ \A s \in Given :
         \/ \E t \in Threads : call[t].at = "loop" /\ ListOf(t) = Index(span[s].block)
         \/ LET free == Chain(span[s].header) IN
              /\ free \subseteq BlocksOf(s) \ held
              /\ span[s].header # 0 => CarvedBlocks(s) \subseteq free \cup held

(* _m_size counts the blocks of the list, so that pop_range finds as many as *)
(* it takes (freelist.cpp:48), and a thread keeps fewer than apply_count,    *)
(* which never exceeds the threshold by more than one.                       *)
CacheBounded ==
  ~broken =>
    /\ SizesExact
    /\ \A t \in Threads, n \in Requests :
         LET l == tc[t][Index(n)] IN
           l.size < l.apply /\ l.apply <= BlockThreshHold(RoundUp(n)) + 1
=============================================================================
