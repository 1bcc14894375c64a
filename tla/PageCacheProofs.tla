-------------------------- MODULE PageCacheProofs --------------------------
(***************************************************************************)
(* Proofs about PageCache for every number of pages and span objects.       *)
(***************************************************************************)
EXTENDS PageCache, SequenceTheorems, TLAPS

(* What the two users of the heap know of each other.  Whoever has the second *)
(* answer of sbrk(0) has the first; and until a race each of them knows the   *)
(* break as it is, and their pages are apart and below it.                    *)
HeapTypes ==
  /\ break \in 1 .. MaxBrk + 1
  /\ ptr \in [{"pc", "tc"} -> 0 .. MaxBrk + 1]
  /\ top \in [{"pc", "tc"} -> 0 .. MaxBrk + 1]
  /\ heap \subseteq Nat
  /\ tcHeap \subseteq Nat
  /\ raced \in BOOLEAN

Settled ==
  /\ heap \cup tcHeap \subseteq 1 .. break - 1
  /\ \A pool \in {"pc", "tc"} : ptr[pool] \in {0, break} /\ top[pool] \in {0, break}
  /\ heap \cap tcHeap = {}

HeapInv ==
  /\ \A pool \in {"pc", "tc"} : top[pool] # 0 => ptr[pool] # 0
  /\ ~raced => Settled

LEMMA HeapBelow ==
  ASSUME HeapTypes, Settled, NEW p \in heap
  PROVE  p \in 1 .. MaxBrk
PROOF
  <1>1. p \in 1 .. break - 1
    BY DEF Settled
  <1> QED
    BY <1>1, PageCacheAssumption DEF HeapTypes

LEMMA SbrkHeap ==
  ASSUME HeapTypes, HeapInv, NEW pool \in {"pc", "tc"},
         Sbrk(pool) \/ SbrkAgain(pool), UNCHANGED <<heap, tcHeap>>
  PROVE  HeapTypes' /\ HeapInv'
PROOF
  <1>1. /\ ptr' \in [{"pc", "tc"} -> 0 .. MaxBrk + 1]
        /\ top' \in [{"pc", "tc"} -> 0 .. MaxBrk + 1]
        /\ UNCHANGED <<break, raced>>
    BY PageCacheAssumption DEF Sbrk, SbrkAgain, HeapTypes
  <1>2. /\ \A x \in {"pc", "tc"} : ptr'[x] = ptr[x] \/ (x = pool /\ ptr'[x] = break)
        /\ \A x \in {"pc", "tc"} :
             top'[x] = top[x] \/ (x = pool /\ top'[x] = break /\ ptr'[x] # 0)
        /\ \A x \in {"pc", "tc"} : ptr[x] # 0 => ptr'[x] # 0
    BY DEF Sbrk, SbrkAgain, HeapTypes
  <1>3. HeapTypes'
    BY <1>1 DEF HeapTypes
  <1>4. ASSUME Settled PROVE Settled'
    <2>1. \A x \in {"pc", "tc"} : ptr'[x] \in {0, break'} /\ top'[x] \in {0, break'}
      BY <1>1, <1>2, <1>4 DEF Settled
    <2> QED
      BY <1>1, <1>4, <2>1 DEF Settled
  <1> QED
    BY <1>1, <1>2, <1>3, <1>4 DEF HeapInv

LEMMA BrkHeap ==
  ASSUME HeapTypes, HeapInv, NEW pool \in {"pc", "tc"}, NEW n \in Nat \ {0},
         Brk(pool, n),
         heap' = IF pool = "pc" THEN heap \cup (ptr["pc"] .. ptr["pc"] + n - 1) ELSE heap,
         tcHeap' = IF pool = "tc" THEN tcHeap \cup (ptr["tc"] .. ptr["tc"] + n - 1)
                                  ELSE tcHeap
  PROVE  HeapTypes' /\ HeapInv'
PROOF
  <1> DEFINE new == ptr[pool] .. ptr[pool] + n - 1
  <1>1. /\ break' = top[pool] + n /\ break' <= MaxBrk + 1 /\ top[pool] # 0 /\ ptr[pool] # 0
        /\ top[pool] \in Nat /\ ptr[pool] \in Nat /\ break \in Nat /\ MaxBrk \in Nat
        /\ \A x \in {"pc", "tc"} : ptr'[x] = IF x = pool THEN 0 ELSE ptr[x]
        /\ \A x \in {"pc", "tc"} : top'[x] = IF x = pool THEN 0 ELSE top[x]
    BY PageCacheAssumption DEF Brk, NewBreak, HeapTypes, HeapInv
  <1>2. raced' \in BOOLEAN
    BY Zenon DEF Brk, HeapTypes
  <1>3. HeapTypes'
    <2>1. break' \in 1 .. MaxBrk + 1
      BY <1>1
    <2>2. /\ ptr' \in [{"pc", "tc"} -> 0 .. MaxBrk + 1]
          /\ top' \in [{"pc", "tc"} -> 0 .. MaxBrk + 1]
      BY PageCacheAssumption DEF Brk, HeapTypes
    <2>3. heap' \subseteq Nat /\ tcHeap' \subseteq Nat
      <3>1. \A p \in new : p \in Nat
        BY <1>1
      <3>2. heap' \subseteq heap \cup new /\ tcHeap' \subseteq tcHeap \cup new
        OBVIOUS
      <3> QED
        BY <3>1, <3>2 DEF HeapTypes
    <2> QED
      BY <1>2, <2>1, <2>2, <2>3 DEF HeapTypes
  <1>4. ~raced' => ~raced /\ \A x \in {"pc", "tc"} \ {pool} : ptr[x] = 0
    BY DEF Brk, HeapTypes
  <1>5. ASSUME ~raced' PROVE Settled'
    <2>1. Settled /\ \A x \in {"pc", "tc"} : x # pool => ptr[x] = 0 /\ top[x] = 0
      BY <1>4, <1>5 DEF HeapInv, HeapTypes
    <2>2. ptr[pool] = break /\ break' = break + n
      BY <1>1, <2>1 DEF Settled
    <2>3. /\ \A p \in new : p \in 1 .. break' - 1 /\ p \notin 1 .. break - 1
          /\ \A p \in 1 .. break - 1 : p \in 1 .. break' - 1
      BY <1>1, <2>2
    <2>4. \A x \in {"pc", "tc"} : ptr'[x] = 0 /\ top'[x] = 0
      BY <1>1, <2>1
    <2>5. heap' \cup tcHeap' \subseteq 1 .. break' - 1
      BY <2>1, <2>3 DEF Settled
    <2>6. heap' \cap tcHeap' = {}
      BY <2>1, <2>3 DEF Settled
    <2> QED
      BY <2>4, <2>5, <2>6 DEF Settled
  <1>6. \A x \in {"pc", "tc"} : top'[x] # 0 => ptr'[x] # 0
    BY <1>1 DEF HeapInv
  <1> QED
    BY <1>3, <1>5, <1>6 DEF HeapInv

(* Only Brk moves the break, and a race is never forgotten. *)
LEMMA HeapStep ==
  ASSUME HeapTypes, HeapInv, [Next]_vars
  PROVE  HeapTypes' /\ HeapInv' /\ (~raced' => ~raced)
PROOF
  <1>1. CASE SystemAllocPtr \/ SystemAllocTop \/ TcAllocPtr \/ TcAllocTop
    <2>1. HeapTypes' /\ HeapInv'
      BY <1>1, SbrkHeap DEF SystemAllocPtr, SystemAllocTop, TcAllocPtr, TcAllocTop
    <2>2. raced' = raced
      BY <1>1 DEF SystemAllocPtr, SystemAllocTop, TcAllocPtr, TcAllocTop, Sbrk, SbrkAgain
    <2> QED
      BY <2>1, <2>2
  <1>2. ASSUME NEW t \in Spans, SystemAlloc(t)
        PROVE  HeapTypes' /\ HeapInv' /\ (~raced' => ~raced)
    <2>1. HeapTypes' /\ HeapInv'
      BY <1>2, BrkHeap, PageCacheAssumption DEF SystemAlloc
    <2> QED
      BY <1>2, <2>1 DEF SystemAlloc, Brk
  <1>3. CASE TcAlloc
    <2>1. HeapTypes' /\ HeapInv'
      BY <1>3, BrkHeap, PageCacheAssumption DEF TcAlloc
    <2> QED
      BY <1>3, <2>1 DEF TcAlloc, Brk
  <1>4. CASE UNCHANGED <<heap, osVars>>
    BY <1>4 DEF osVars, HeapTypes, HeapInv, Settled
  <1>5. CASE \/ \E k \in CentralSizes : Create("central", k)
             \/ \E k \in LargeSizes : Create("large", k)
             \/ Exact
             \/ \E n \in 1 .. MaxPages, t \in Spans : Split(n, t)
             \/ \E k \in HugeSizes, t \in Spans, p \in MmapStarts : CreateHuge(k, t, p)
             \/ RecoverNext \/ UNCHANGED vars
    <2>1. UNCHANGED <<heap, osVars>>
      BY <1>5 DEF Create, Exact, Split, HandOut, CreateHuge, RecoverNext, Recover,
                  MergeLeft, LeftDone, MergeRight, Recovered, vars
    <2> QED
      BY <1>4, <2>1
  <1> QED
    BY <1>1, <1>2, <1>3, <1>5 DEF Next, CreateNext

LEMMA InitHeap == Init => HeapTypes /\ HeapInv
PROOF
  <1> SUFFICES ASSUME Init PROVE HeapTypes /\ HeapInv
    OBVIOUS
  <1>1. raced \in BOOLEAN
    BY Zenon DEF Init
  <1> QED
    BY <1>1, PageCacheAssumption DEF Init, HeapTypes, HeapInv, Settled

(* The pages of the spans and those of the ThreadCache objects stay apart as *)
(* long as neither user of the heap has moved the break between the three    *)
(* calls of the other, whatever is allocated.                                *)
THEOREM HeapsApart == Spec => []HeapApart
PROOF
  <1>1. HeapTypes /\ HeapInv /\ [Next]_vars => HeapTypes' /\ HeapInv'
    BY HeapStep
  <1>2. HeapTypes /\ HeapInv => HeapApart
    BY DEF HeapInv, Settled, HeapApart
  <1> QED
    BY InitHeap, <1>1, <1>2, PTL DEF Spec
-----------------------------------------------------------------------------
(* What the operations of SpanList do to the spans a list holds. *)
Holds(l, x) == \E i \in DOMAIN l : l[i] = x
Distinct(l) == \A i, j \in DOMAIN l : l[i] = l[j] => i = j

LEMMA TailHolds ==
  ASSUME NEW S, NEW l \in Seq(S), l # <<>>, Distinct(l)
  PROVE  /\ Head(l) \in S /\ Holds(l, Head(l))
         /\ Tail(l) \in Seq(S) /\ Distinct(Tail(l))
         /\ \A x \in S : Holds(Tail(l), x) <=> Holds(l, x) /\ x # Head(l)
PROOF
  <1>1. /\ Len(l) \in Nat \ {0} /\ DOMAIN l = 1 .. Len(l) /\ Head(l) = l[1] /\ Head(l) \in S
        /\ Tail(l) \in Seq(S) /\ DOMAIN Tail(l) = 1 .. Len(l) - 1
        /\ \A i \in 1 .. Len(l) - 1 : Tail(l)[i] = l[i + 1]
    OBVIOUS
  <1>2. Holds(l, Head(l)) /\ Distinct(Tail(l))
    BY <1>1 DEF Holds, Distinct
  <1>3. ASSUME NEW x \in S PROVE Holds(Tail(l), x) <=> Holds(l, x) /\ x # Head(l)
    <2>1. ASSUME Holds(l, x), x # Head(l) PROVE Holds(Tail(l), x)
      <3>1. PICK i \in 1 .. Len(l) : l[i] = x
        BY <1>1, <2>1 DEF Holds
      <3>2. i - 1 \in 1 .. Len(l) - 1 /\ Tail(l)[i - 1] = x
        BY <1>1, <2>1, <3>1
      <3> QED
        BY <1>1, <3>2 DEF Holds
    <2>2. ASSUME Holds(Tail(l), x) PROVE Holds(l, x) /\ x # Head(l)
      <3>1. PICK i \in 1 .. Len(l) - 1 : Tail(l)[i] = x
        BY <1>1, <2>2 DEF Holds
      <3>2. i + 1 \in 1 .. Len(l) /\ l[i + 1] = x /\ i + 1 # 1 /\ 1 \in 1 .. Len(l)
        BY <1>1, <3>1
      <3> QED
        BY <1>1, <3>2 DEF Holds, Distinct
    <2> QED
      BY <2>1, <2>2
  <1> QED
    BY <1>1, <1>2, <1>3

LEMMA ConsHolds ==
  ASSUME NEW S, NEW l \in Seq(S), Distinct(l), NEW s \in S, ~Holds(l, s)
  PROVE  /\ <<s>> \o l \in Seq(S) /\ Distinct(<<s>> \o l)
         /\ \A x \in S : Holds(<<s>> \o l, x) <=> Holds(l, x) \/ x = s
PROOF
  <1> DEFINE m == <<s>> \o l
  <1>1. /\ Len(l) \in Nat /\ DOMAIN l = 1 .. Len(l) /\ m \in Seq(S)
        /\ DOMAIN m = 1 .. Len(l) + 1 /\ m[1] = s
        /\ \A i \in 1 .. Len(l) : m[i + 1] = l[i]
    OBVIOUS
  <1> HIDE DEF m
  <1>2. \A i \in 1 .. Len(l) + 1 : i = 1 \/ (i - 1 \in 1 .. Len(l) /\ m[i] = l[i - 1])
    BY <1>1
  <1>3. Distinct(m)
    <2>1. SUFFICES ASSUME NEW i \in 1 .. Len(l) + 1, NEW j \in 1 .. Len(l) + 1, m[i] = m[j]
                   PROVE  i = j
      BY <1>1 DEF Distinct
    <2>4. ASSUME NEW q \in 1 .. Len(l) + 1, q # 1 PROVE m[q] # s
      BY <1>1, <1>2, <2>4 DEF Holds
    <2>2. CASE i = 1 \/ j = 1
      BY <1>1, <2>1, <2>2, <2>4
    <2>3. CASE i # 1 /\ j # 1
      <3>1. i - 1 \in DOMAIN l /\ j - 1 \in DOMAIN l /\ l[i - 1] = l[j - 1]
        BY <1>1, <1>2, <2>1, <2>3
      <3>2. i - 1 = j - 1
        BY <3>1 DEF Distinct
      <3> QED
        BY <3>2
    <2> QED
      BY <2>2, <2>3
  <1>4. ASSUME NEW x \in S PROVE Holds(m, x) <=> Holds(l, x) \/ x = s
    <2>1. ASSUME Holds(l, x) PROVE Holds(m, x)
      <3>1. PICK i \in 1 .. Len(l) : l[i] = x
        BY <1>1, <2>1 DEF Holds
      <3>2. i + 1 \in 1 .. Len(l) + 1 /\ m[i + 1] = x
        BY <1>1, <3>1
      <3> QED
        BY <1>1, <3>2 DEF Holds
    <2>2. Holds(m, s)
      BY <1>1 DEF Holds
    <2>3. Holds(m, x) => Holds(l, x) \/ x = s
      BY <1>1, <1>2 DEF Holds
    <2> QED
      BY <2>1, <2>2, <2>3
  <1> QED
    BY <1>1, <1>3, <1>4 DEF m

LEMMA UnlinkHolds ==
  ASSUME NEW S, NEW l \in Seq(S), Distinct(l), NEW s \in S, Holds(l, s)
  PROVE  /\ Unlink(l, s) \in Seq(S) /\ Distinct(Unlink(l, s))
         /\ \A x \in S : Holds(Unlink(l, s), x) <=> Holds(l, x) /\ x # s
PROOF
  <1> DEFINE k == CHOOSE j \in DOMAIN l : l[j] = s
             a == SubSeq(l, 1, k - 1)
             b == SubSeq(l, k + 1, Len(l))
             m == a \o b
             n == Len(l)
  <1>1. k \in DOMAIN l /\ l[k] = s
    BY DEF Holds
  <1>2. Unlink(l, s) = m
    BY DEF Unlink, Holds
  <1>3. n \in Nat /\ DOMAIN l = 1 .. n /\ k \in 1 .. n
    BY <1>1
  <1> HIDE DEF k
  <1>4. /\ a \in Seq(S) /\ Len(a) = k - 1 /\ \A i \in 1 .. k - 1 : a[i] = l[i]
    BY <1>3, SubSeqProperties
  <1>5. /\ b \in Seq(S) /\ Len(b) = n - k /\ \A i \in 1 .. n - k : b[i] = l[k + i]
    <2>1. k + 1 \in Int /\ n \in Int /\ \A i \in k + 1 .. n : l[i] \in S
      BY <1>3
    <2> HIDE DEF n
    <2>2. /\ SubSeq(l, k + 1, n) \in Seq(S)
          /\ Len(SubSeq(l, k + 1, n)) = IF k + 1 <= n THEN n - (k + 1) + 1 ELSE 0
          /\ \A i \in 1 .. n - (k + 1) + 1 : SubSeq(l, k + 1, n)[i] = l[k + 1 + i - 1]
      BY ONLY <2>1, SubSeqProperties
    <2>3. b = SubSeq(l, k + 1, n)
      BY DEF n
    <2> HIDE DEF b
    <2>4. \A i \in 1 .. n - k : b[i] = l[k + i]
      <3> SUFFICES ASSUME NEW i \in 1 .. n - k PROVE b[i] = l[k + i]
        OBVIOUS
      <3>1. i \in 1 .. n - (k + 1) + 1 /\ k + 1 + i - 1 = k + i
        BY <1>3
      <3>2. b[i] = l[k + 1 + i - 1]
        BY <2>2, <2>3, <3>1
      <3> QED
        BY <3>1, <3>2
    <2> QED
      BY <1>3, <2>2, <2>3, <2>4
  <1> HIDE DEF a, b, n
  <1>6. /\ m \in Seq(S) /\ DOMAIN m = 1 .. n - 1
        /\ \A i \in 1 .. n - 1 : m[i] = IF i < k THEN l[i] ELSE l[i + 1]
    <2>1. /\ m \in Seq(S) /\ Len(m) = n - 1 /\ DOMAIN m = 1 .. Len(m)
          /\ \A i \in 1 .. n - 1 : m[i] = IF i <= k - 1 THEN a[i] ELSE b[i - (k - 1)]
      <3>1. /\ m \in Seq(S) /\ Len(m) = Len(a) + Len(b)
            /\ \A i \in 1 .. Len(a) + Len(b) : m[i] =
                 IF i <= Len(a) THEN a[i] ELSE b[i - Len(a)]
        BY <1>4, <1>5, ConcatProperties
      <3>2. Len(a) + Len(b) = n - 1
        BY <1>3, <1>4, <1>5
      <3>3. DOMAIN m = 1 .. Len(m)
        BY <3>1
      <3> QED
        BY <1>4, <3>1, <3>2, <3>3
    <2>2. ASSUME NEW i \in 1 .. n - 1, ~(i < k) PROVE m[i] = l[i + 1]
      <3>1. i - (k - 1) \in 1 .. n - k /\ k + (i - (k - 1)) = i + 1 /\ ~(i <= k - 1)
        BY <1>3, <2>2
      <3>2. b[i - (k - 1)] = l[k + (i - (k - 1))]
        BY <1>5, <3>1
      <3> QED
        BY <2>1, <3>1, <3>2
    <2>3. ASSUME NEW i \in 1 .. n - 1, i < k PROVE m[i] = l[i]
      BY <1>3, <1>4, <2>1, <2>3
    <2> QED
      BY <2>1, <2>2, <2>3
  <1> HIDE DEF m
  <1>7. Distinct(m)
    <2> SUFFICES ASSUME NEW i \in 1 .. n - 1, NEW j \in 1 .. n - 1, m[i] = m[j]
                 PROVE  i = j
      BY <1>6 DEF Distinct
    <2>1. PICK f \in 1 .. n : f = (IF i < k THEN i ELSE i + 1) /\ l[f] = m[i]
      BY <1>3, <1>6
    <2>2. PICK g \in 1 .. n : g = (IF j < k THEN j ELSE j + 1) /\ l[g] = m[j]
      BY <1>3, <1>6
    <2>3. f = g
      BY <1>3, <2>1, <2>2 DEF Distinct
    <2> QED
      BY <1>3, <2>1, <2>2, <2>3
  <1>8. ASSUME NEW x \in S PROVE Holds(m, x) <=> Holds(l, x) /\ x # s
    <2>1. ASSUME Holds(m, x) PROVE Holds(l, x) /\ x # s
      <3>1. PICK i \in 1 .. n - 1 : m[i] = x
        BY <1>6, <2>1 DEF Holds
      <3>2. PICK j \in 1 .. n : j # k /\ l[j] = x
        <4>1. CASE i < k
          <5>1. i \in 1 .. n /\ i # k /\ l[i] = x
            BY <1>3, <1>6, <3>1, <4>1
          <5> QED
            BY <5>1
        <4>2. CASE ~(i < k)
          <5>1. i + 1 \in 1 .. n /\ i + 1 # k /\ l[i + 1] = x
            BY <1>3, <1>6, <3>1, <4>2
          <5> QED
            BY <5>1
        <4> QED
          BY <4>1, <4>2
      <3> QED
        BY <1>1, <1>3, <3>2 DEF Holds, Distinct
    <2>2. ASSUME Holds(l, x), x # s PROVE Holds(m, x)
      <3>1. PICK j \in 1 .. n : l[j] = x /\ j # k
        BY <1>1, <1>3, <2>2 DEF Holds
      <3>2. \E i \in 1 .. n - 1 : m[i] = x
        <4>1. CASE j < k
          <5>1. j \in 1 .. n - 1 /\ m[j] = x
            BY <1>3, <1>6, <3>1, <4>1
          <5> QED
            BY <5>1
        <4>2. CASE j > k
          <5>1. j - 1 \in 1 .. n - 1 /\ m[j - 1] = x
            BY <1>3, <1>6, <3>1, <4>2
          <5> QED
            BY <5>1
        <4> QED
          BY <1>3, <3>1, <4>1, <4>2
      <3> QED
        BY <1>6, <3>2 DEF Holds
    <2> QED
      BY <2>1, <2>2
  <1> QED
    BY <1>2, <1>6, <1>7, <1>8
-----------------------------------------------------------------------------
(* The inductive invariant of the page cache, in parts.                      *)
SpanTypes ==
  /\ page_id \in [Spans -> Nat]
  /\ page_size \in [Spans -> Nat]
  /\ is_use \in [Spans -> BOOLEAN]
  /\ status \in [Spans -> SpanStates]
  /\ lists \in [1 .. MaxPages -> Seq(Spans)]
  /\ DOMAIN map \subseteq Nat /\ \A p \in DOMAIN map : map[p] \in Spans
  /\ phase \in {"idle", "create", "left", "right"}
  /\ want \in 1 .. MaxPages
  /\ by \in {"central", "large"}
  /\ cur \in Spans \cup {NoSpan}

(* A span in use lies in the heap and is small, or it came from mmap; of     *)
(* those handed out only the small ones are marked.                          *)
ShapeInv ==
  \A s \in Spans : status[s] # "none" =>
    /\ page_size[s] >= 1
    /\ \/ page_size[s] <= MaxPages /\ \A p \in Pages(s) : p \in heap
       \/ page_size[s] > MaxPages /\ page_id[s] > MaxBrk + 1 /\ status[s] = "out"
    /\ status[s] = "out" => (is_use[s] <=> page_size[s] <= MaxPages)

(* One of two spans ends before the other begins, and every page has one. *)
ApartInv ==
  \A s, t \in Spans : status[s] # "none" /\ status[t] # "none" /\ s # t =>
    \/ page_id[s] + page_size[s] <= page_id[t]
    \/ page_id[t] + page_size[t] <= page_id[s]

CoverInv == \A p \in heap : \E s \in Spans : status[s] # "none" /\ p \in Pages(s)

ListInv ==
  \A n \in 1 .. MaxPages :
    /\ Distinct(lists[n])
    /\ \A s \in Spans : Holds(lists[n], s) <=> status[s] = "free" /\ page_size[s] = n

LockInv ==
  /\ by = "central"
  /\ \A s \in Spans : status[s] = "merging" <=> s = cur
  /\ cur # NoSpan <=> phase \in {"left", "right"}

(* The one free span that create_pc_span has just taken from the heap, whose *)
(* pages are not in the map yet.  It is the one the search will find next.   *)
Fresh(s) ==
  /\ phase = "create"
  /\ lists[MaxPages] = <<s>>
  /\ \A m \in want .. MaxPages - 1 : lists[m] = <<>>

(* What the map can be trusted for: every page of a span in use, the first   *)
(* of a large one, both ends of a free one, and nothing outside the heap     *)
(* except what mmap has returned.  Pages inside a free span may lead anywhere. *)
MapInv ==
  /\ \A p \in DOMAIN map : p \in heap \/ p > MaxBrk + 1
  /\ \A s \in Spans : status[s] = "out" =>
       /\ page_id[s] \in DOMAIN map /\ map[page_id[s]] = s
       /\ is_use[s] => \A p \in Pages(s) : p \in DOMAIN map /\ map[p] = s
  /\ \A s \in Spans : status[s] = "free" /\ ~Fresh(s) =>
       \A p \in {page_id[s], page_id[s] + page_size[s] - 1} :
         p \in DOMAIN map /\ map[p] = s

SpanInv == SpanTypes /\ ShapeInv /\ ApartInv /\ CoverInv /\ ListInv /\ LockInv /\ MapInv

(* The head of list n is a free span of n pages. *)
LEMMA ListHead ==
  ASSUME SpanTypes, ListInv, NEW n \in 1 .. MaxPages, lists[n] # <<>>
  PROVE  /\ Head(lists[n]) \in Spans
         /\ status[Head(lists[n])] = "free" /\ page_size[Head(lists[n])] = n
PROOF
  <1>1. lists[n] \in Seq(Spans) /\ Distinct(lists[n])
    BY DEF SpanTypes, ListInv
  <1>2. Head(lists[n]) \in Spans /\ Holds(lists[n], Head(lists[n]))
    BY <1>1, TailHolds
  <1> QED
    BY <1>2 DEF ListInv

(* Both ends of a span are among its pages, and no page of another one is. *)
LEMMA OwnPages ==
  ASSUME SpanTypes, ShapeInv, ApartInv, NEW s \in Spans, status[s] # "none"
  PROVE  /\ Pages(s) \in SUBSET Nat
         /\ page_id[s] \in Pages(s) /\ page_id[s] + page_size[s] - 1 \in Pages(s)
         /\ \A t \in Spans \ {s} : status[t] # "none" => \A p \in Pages(t) : p \notin Pages(s)
PROOF
  <1>1. \A t \in Spans : page_id[t] \in Nat /\ page_size[t] \in Nat
    BY DEF SpanTypes
  <1>2. page_size[s] >= 1
    BY DEF ShapeInv
  <1>3. Pages(s) \in SUBSET Nat
    BY <1>1 DEF Pages
  <1>4. page_id[s] \in Pages(s) /\ page_id[s] + page_size[s] - 1 \in Pages(s)
    BY <1>1, <1>2 DEF Pages
  <1>5. ASSUME NEW t \in Spans \ {s}, status[t] # "none", NEW p \in Pages(t)
        PROVE  p \notin Pages(s)
    BY <1>1, <1>5 DEF ApartInv, Pages
  <1> QED
    BY <1>3, <1>4, <1>5

(* Entering the pages of span s into the map hides no other span.            *)
LEMMA MapToKeeps ==
  ASSUME SpanTypes, ShapeInv, ApartInv, NEW s \in Spans, status[s] # "none",
         NEW ps \in SUBSET Pages(s), map' = MapTo(ps, s)
  PROVE  /\ DOMAIN map' = DOMAIN map \cup ps
         /\ DOMAIN map' \subseteq Nat /\ \A p \in DOMAIN map' : map'[p] \in Spans
         /\ \A p \in ps : map'[p] = s
         /\ \A t \in Spans \ {s} : status[t] # "none" =>
              \A p \in Pages(t) : p \in DOMAIN map /\ map[p] = t =>
                                    p \in DOMAIN map' /\ map'[p] = t
PROOF
  <1>1. /\ DOMAIN map' = DOMAIN map \cup ps
        /\ \A p \in DOMAIN map' : map'[p] = IF p \in ps THEN s ELSE map[p]
    BY DEF MapTo
  <1> QED
    BY <1>1, OwnPages DEF SpanTypes

(* Only a span that has just come from the heap is free and not in the map,  *)
(* and it is the only one the search can find.                               *)
LEMMA FreshIsFound ==
  ASSUME SpanTypes, ListInv, NEW n \in 1 .. MaxPages, want <= n, lists[n] # <<>>,
         NEW x \in Spans, Fresh(x)
  PROVE  Head(lists[n]) = x
PROOF
  <1>1. n = MaxPages
    BY PageCacheAssumption DEF Fresh, SpanTypes
  <1> QED
    BY <1>1 DEF Fresh

LEMMA CreateSpans ==
  ASSUME SpanInv, NEW k \in CentralSizes, Create("central", k)
  PROVE  SpanInv'
PROOF
  <1>1. UNCHANGED <<page_id, page_size, is_use, status, lists, map, heap, cur>>
    BY DEF Create
  <1>2. phase = "idle" /\ phase' = "create" /\ want' = k /\ by' = "central"
    BY DEF Create
  <1>3. SpanTypes'
    BY <1>1, <1>2, PageCacheAssumption DEF SpanInv, SpanTypes
  <1>4. ShapeInv' /\ ApartInv' /\ CoverInv' /\ ListInv' /\ LockInv'
    BY <1>1, <1>2 DEF SpanInv, ShapeInv, ApartInv, CoverInv, ListInv, LockInv, Pages
  <1>5. MapInv'
    BY <1>1, <1>2 DEF SpanInv, MapInv, Pages, FindSpan, Fresh
  <1> QED
    BY <1>3, <1>4, <1>5 DEF SpanInv

LEMMA ExactSpans ==
  ASSUME SpanInv, Exact
  PROVE  SpanInv'
PROOF
  <1> USE DEF SpanInv
  <1>1. PICK s \in Spans : s = Head(lists[want]) /\ status[s] = "free" /\ page_size[s] = want
    BY ListHead DEF Exact, SpanTypes
  <1>2. /\ phase = "create" /\ lists[want] # <<>> /\ want \in 1 .. MaxPages
        /\ lists' = [lists EXCEPT ![want] = Tail(@)]
        /\ status' = [status EXCEPT ![s] = "out"] /\ map' = MapTo(Pages(s), s)
        /\ is_use' = [is_use EXCEPT ![s] = TRUE]
        /\ phase' = "idle" /\ want' = 1 /\ by' = "central"
        /\ UNCHANGED <<page_id, page_size, heap, cur>>
    BY <1>1 DEF Exact, HandOut, PopFront, MapAll, LockInv, SpanTypes
  <1>3. ASSUME NEW x \in Spans, x # s PROVE ~Fresh(x)
    BY <1>1, <1>2, <1>3, FreshIsFound DEF SpanTypes
  <1>4. lists[want] \in Seq(Spans) /\ Distinct(lists[want])
    BY <1>2 DEF SpanTypes, ListInv
  <1>5. /\ Tail(lists[want]) \in Seq(Spans) /\ Distinct(Tail(lists[want]))
        /\ \A x \in Spans : Holds(Tail(lists[want]), x) <=> Holds(lists[want], x) /\ x # s
    BY <1>1, <1>2, <1>4, TailHolds
  <1>6. /\ \A x \in Spans : status'[x] = IF x = s THEN "out" ELSE status[x]
        /\ is_use'[s] = TRUE /\ \A x \in Spans \ {s} : is_use'[x] = is_use[x]
        /\ \A n \in 1 .. MaxPages : lists'[n] = IF n = want THEN Tail(lists[want]) ELSE lists[n]
    BY <1>2 DEF SpanTypes
  <1>7. \A x \in Spans : Pages(x)' = Pages(x)
    BY <1>2 DEF Pages
  <1>8. /\ DOMAIN map' = DOMAIN map \cup Pages(s)
        /\ DOMAIN map' \subseteq Nat /\ \A p \in DOMAIN map' : map'[p] \in Spans
        /\ \A p \in Pages(s) : map'[p] = s
        /\ \A t \in Spans \ {s} : status[t] # "none" =>
             \A p \in Pages(t) : p \in DOMAIN map /\ map[p] = t =>
                                   p \in DOMAIN map' /\ map'[p] = t
    BY <1>1, <1>2, MapToKeeps
  <1>9. SpanTypes'
    BY <1>2, <1>5, <1>8, PageCacheAssumption DEF SpanTypes, SpanStates
  <1>10. ShapeInv'
    BY <1>1, <1>2, <1>6, <1>7 DEF ShapeInv
  <1>11. ApartInv' /\ CoverInv'
    BY <1>1, <1>2, <1>6, <1>7 DEF ApartInv, CoverInv
  <1>12. ListInv'
    BY <1>1, <1>2, <1>5, <1>6 DEF ListInv
  <1>13. LockInv'
    BY <1>1, <1>2, <1>6, PageCacheAssumption DEF LockInv
  <1>14. MapInv'
    <2>1. \A p \in DOMAIN map' : p \in heap' \/ p > MaxBrk + 1
      BY <1>1, <1>2, <1>8 DEF MapInv, ShapeInv
    <2>2. ASSUME NEW x \in Spans, status'[x] = "out"
          PROVE  /\ page_id[x] \in DOMAIN map' /\ map'[page_id[x]] = x
                 /\ is_use'[x] => \A p \in Pages(x) : p \in DOMAIN map' /\ map'[p] = x
      <3>1. CASE x = s
        BY <1>1, <1>8, <3>1, OwnPages
      <3>2. CASE x # s
        BY <1>6, <1>8, <2>2, <3>2, OwnPages DEF MapInv
      <3> QED
        BY <3>1, <3>2
    <2>3. ASSUME NEW x \in Spans, status'[x] = "free",
                 NEW p \in {page_id[x], page_id[x] + page_size[x] - 1}
          PROVE  p \in DOMAIN map' /\ map'[p] = x
      BY <1>3, <1>6, <1>8, <2>3, OwnPages DEF MapInv
    <2> QED
      BY <1>2, <1>7, <2>1, <2>2, <2>3 DEF MapInv
  <1> QED
    BY <1>9, <1>10, <1>11, <1>12, <1>13, <1>14
-----------------------------------------------------------------------------
(* The front of span s becomes span t; s keeps the rest. *)
LEMMA SplitSpans ==
  ASSUME SpanInv, NEW n \in 1 .. MaxPages, NEW t \in Spans, Split(n, t)
  PROVE  SpanInv'
PROOF
  <1> USE DEF SpanInv
  <1>1. PICK s \in Spans, first \in Nat, k \in 1 .. MaxPages :
          /\ s = Head(lists[n]) /\ status[s] = "free" /\ page_size[s] = n
          /\ first = page_id[s] /\ k = want
    BY ListHead DEF Split, SpanTypes
  <1> DEFINE rest == n - k
  <1>2. /\ phase = "create" /\ lists[n] # <<>> /\ n > k
        /\ status[t] = "none" /\ t # s
        /\ phase' = "idle" /\ want' = 1 /\ by' = "central" /\ UNCHANGED <<heap, cur>>
    BY <1>1 DEF Split, HandOut, NewSpan
  <1>3. /\ page_id' = [page_id EXCEPT ![t] = first, ![s] = first + k]
         /\ page_size' = [page_size EXCEPT ![t] = k, ![s] = rest]
         /\ status' = [status EXCEPT ![t] = "out"]
         /\ is_use' = [is_use EXCEPT ![t] = TRUE]
    BY <1>1 DEF Split, Rest, HandOut, LockInv
  <1>4. lists' = [[lists EXCEPT ![n] = Tail(@)] EXCEPT ![rest] = <<s>> \o @]
    BY <1>1 DEF Split, PushFront, PopFront, Rest
  <1>5. map' = [p \in DOMAIN map \cup (first .. first + k - 1)
                         \cup {first + k, first + n - 1} |->
                     IF p \in first .. first + k - 1 THEN t
                     ELSE IF p \in {first + k, first + n - 1} THEN s
                     ELSE map[p]]
    BY <1>1 DEF Split
  <1>6. /\ rest \in 1 .. MaxPages /\ rest # n /\ k + rest = n /\ k >= 1
        /\ \A x \in Spans : page_id[x] \in Nat /\ page_size[x] \in Nat
    BY <1>2, PageCacheAssumption DEF SpanTypes
  <1>7. ASSUME NEW x \in Spans, x # s PROVE ~Fresh(x)
    BY <1>1, <1>2, <1>7, FreshIsFound DEF SpanTypes
  <1>8. /\ \A x \in Spans : status'[x] = IF x = t THEN "out" ELSE status[x]
        /\ is_use'[t] = TRUE /\ \A x \in Spans \ {t} : is_use'[x] = is_use[x]
        /\ page_id'[t] = first /\ page_id'[s] = first + k
        /\ page_size'[t] = k /\ page_size'[s] = rest
        /\ \A x \in Spans \ {s, t} : page_id'[x] = page_id[x] /\ page_size'[x] = page_size[x]
    BY <1>2, <1>3 DEF SpanTypes
  <1> HIDE DEF rest
  <1>9. /\ Pages(s) = first .. first + n - 1
        /\ Pages(t)' = first .. first + k - 1
        /\ Pages(s)' = first + k .. first + n - 1
        /\ \A x \in Spans \ {s, t} : Pages(x)' = Pages(x)
    <2>1. first + k + rest - 1 = first + n - 1
      BY <1>6
    <2> QED
      BY <1>1, <1>8, <2>1 DEF Pages
  <1>10. \A p \in Pages(s) : p \in heap
    BY <1>1, <1>6 DEF ShapeInv
  <1>11. /\ lists' \in [1 .. MaxPages -> Seq(Spans)] /\ ListInv'
    <2>1. /\ lists[n] \in Seq(Spans) /\ Distinct(lists[n])
          /\ lists[rest] \in Seq(Spans) /\ Distinct(lists[rest]) /\ ~Holds(lists[rest], s)
      BY <1>1, <1>6 DEF SpanTypes, ListInv
    <2>2. /\ Tail(lists[n]) \in Seq(Spans) /\ Distinct(Tail(lists[n]))
          /\ \A x \in Spans : Holds(Tail(lists[n]), x) <=> Holds(lists[n], x) /\ x # s
      BY <1>1, <1>2, <2>1, TailHolds
    <2>3. /\ <<s>> \o lists[rest] \in Seq(Spans) /\ Distinct(<<s>> \o lists[rest])
          /\ \A x \in Spans : Holds(<<s>> \o lists[rest], x) <=> Holds(lists[rest], x) \/ x = s
      BY <2>1, ConsHolds
    <2>4. /\ \A m \in 1 .. MaxPages : lists'[m] =
                IF m = n THEN Tail(lists[n])
                ELSE IF m = rest THEN <<s>> \o lists[rest] ELSE lists[m]
          /\ lists' \in [1 .. MaxPages -> Seq(Spans)]
      BY <1>6, <1>4, <2>2, <2>3 DEF SpanTypes
    <2>5. \A x \in Spans, m \in 1 .. MaxPages :
            status'[x] = "free" /\ page_size'[x] = m <=>
              IF x = s THEN m = rest ELSE status[x] = "free" /\ page_size[x] = m
      BY <1>1, <1>2, <1>8
    <2>6. \A x \in Spans, m \in 1 .. MaxPages :
            Holds(lists'[m], x) <=>
              IF x = s THEN m = rest ELSE Holds(lists[m], x)
      <3> SUFFICES ASSUME NEW x \in Spans, NEW m \in 1 .. MaxPages
                   PROVE  Holds(lists'[m], x) <=>
                            IF x = s THEN m = rest ELSE Holds(lists[m], x)
        OBVIOUS
      <3>1. CASE m = n
        BY <1>6, <2>2, <2>4, <3>1
      <3>2. CASE m = rest
        BY <1>6, <2>3, <2>4, <3>2
      <3>3. CASE m # n /\ m # rest
        <4>1. ~Holds(lists[m], s)
          BY <1>1, <3>3 DEF ListInv
        <4> QED
          BY <2>4, <3>3, <4>1
      <3> QED
        BY <3>1, <3>2, <3>3
    <2>7. \A m \in 1 .. MaxPages : Distinct(lists'[m])
      BY <2>2, <2>3, <2>4 DEF ListInv
    <2> QED
      BY <2>4, <2>5, <2>6, <2>7 DEF ListInv
  <1>12. /\ \A p \in DOMAIN map' : p \in DOMAIN map \/ p \in Pages(s)
         /\ \A p \in DOMAIN map : p \in DOMAIN map'
         /\ \A p \in first .. first + k - 1 : p \in DOMAIN map' /\ map'[p] = t
         /\ \A p \in {first + k, first + n - 1} : p \in DOMAIN map' /\ map'[p] = s
         /\ \A p \in DOMAIN map : p \in Pages(s) \/ map'[p] = map[p]
         /\ \A p \in DOMAIN map' : map'[p] \in Spans
    <2>1. \A p \in (first .. first + k - 1) \cup {first + k, first + n - 1} : p \in Pages(s)
      BY <1>2, <1>9
    <2>2. \A p \in {first + k, first + n - 1} : p \notin first .. first + k - 1
      BY <1>2
    <2> QED
      BY <1>5, <2>1, <2>2 DEF SpanTypes
  <1>13. SpanTypes'
    <2>1. DOMAIN map' \subseteq Nat
      BY <1>1, <1>12, OwnPages DEF SpanTypes
    <2>2. page_id' \in [Spans -> Nat] /\ page_size' \in [Spans -> Nat]
      <3>1. first \in Nat /\ first + k \in Nat /\ k \in Nat /\ rest \in Nat
        BY <1>6
      <3> QED
        BY <1>3, <3>1 DEF SpanTypes
    <2>3. is_use' \in [Spans -> BOOLEAN] /\ status' \in [Spans -> SpanStates]
      BY <1>3 DEF SpanTypes, SpanStates
    <2>4. want' \in 1 .. MaxPages
      BY <1>2, PageCacheAssumption
    <2>5. \A p \in DOMAIN map' : map'[p] \in Spans
      BY <1>12
    <2>6. /\ phase' \in {"idle", "create", "left", "right"}
          /\ by' \in {"central", "large"} /\ cur' \in Spans \cup {NoSpan}
      BY <1>2 DEF SpanTypes
    <2>7. lists' \in [1 .. MaxPages -> Seq(Spans)]
      BY <1>11
    <2> QED
      BY ONLY <2>7, <2>1, <2>2, <2>3, <2>4, <2>5, <2>6 DEF SpanTypes
  <1>14. ShapeInv'
    <2>1. ASSUME NEW x \in Spans, status'[x] # "none", x # s, x # t
          PROVE  /\ page_size'[x] = page_size[x] /\ page_id'[x] = page_id[x]
                 /\ is_use'[x] = is_use[x] /\ status'[x] = status[x]
      BY <1>8, <2>1
    <2>2. \A p \in Pages(t)' : p \in heap'
      BY <1>2, <1>9, <1>10
    <2>3. \A p \in Pages(s)' : p \in heap'
      BY <1>2, <1>9, <1>10
    <2>4. page_size'[s] >= 1 /\ page_size'[s] <= MaxPages /\ status'[s] = "free"
      BY <1>1, <1>2, <1>6, <1>8, PageCacheAssumption
    <2>5. page_size'[t] >= 1 /\ page_size'[t] <= MaxPages /\ is_use'[t] = TRUE
      BY <1>6, <1>8, PageCacheAssumption
    <2>6. ASSUME NEW x \in Spans, status'[x] # "none", x # s, x # t
          PROVE  /\ page_size'[x] >= 1
                 /\ \/ page_size'[x] <= MaxPages /\ \A p \in Pages(x)' : p \in heap'
                    \/ page_size'[x] > MaxPages /\ page_id'[x] > MaxBrk + 1 /\ status'[x] = "out"
                 /\ status'[x] = "out" => (is_use'[x] <=> page_size'[x] <= MaxPages)
      BY <1>2, <1>9, <2>1, <2>6 DEF ShapeInv
    <2> QED
      BY <2>2, <2>3, <2>4, <2>5, <2>6 DEF ShapeInv
  <1>15. ApartInv'
    <2>1. ASSUME NEW x \in Spans, status'[x] # "none", x # s, x # t
          PROVE  /\ page_id[x] + page_size[x] <= first \/ first + n <= page_id[x]
                 /\ status[x] # "none"
      BY <1>1, <1>8, <2>1 DEF ApartInv
    <2>2. page_id'[s] + page_size'[s] = first + n /\ page_id'[t] + page_size'[t] = page_id'[s]
      BY <1>6, <1>8
    <2>3. ASSUME NEW x \in Spans, NEW y \in Spans, x # y,
                 status'[x] # "none", status'[y] # "none"
          PROVE  \/ page_id'[x] + page_size'[x] <= page_id'[y]
                 \/ page_id'[y] + page_size'[y] <= page_id'[x]
      <3>1. CASE x \notin {s, t} /\ y \notin {s, t}
        BY <1>8, <2>1, <2>3, <3>1 DEF ApartInv
      <3>2. CASE x \in {s, t} /\ y \in {s, t}
        BY <1>8, <2>2, <2>3, <3>2
      <3>3. CASE x \in {s, t} /\ y \notin {s, t}
        BY <1>6, <1>8, <2>1, <2>2, <2>3, <3>3
      <3>4. CASE x \notin {s, t} /\ y \in {s, t}
        BY <1>6, <1>8, <2>1, <2>2, <2>3, <3>4
      <3> QED
        BY <3>1, <3>2, <3>3, <3>4
    <2> QED
      BY <2>3 DEF ApartInv
  <1>16. CoverInv'
    <2>1. SUFFICES ASSUME NEW p \in heap
                   PROVE  \E x \in Spans : status'[x] # "none" /\ p \in Pages(x)'
      BY <1>2 DEF CoverInv
    <2>2. PICK x \in Spans : status[x] # "none" /\ p \in Pages(x)
      BY DEF CoverInv
    <2>3. CASE x = s
      BY <1>1, <1>8, <1>9, <2>2, <2>3
    <2>4. CASE x # s
      BY <1>2, <1>8, <1>9, <2>2, <2>4
    <2> QED
      BY <2>3, <2>4
  <1>17. LockInv'
    BY <1>1, <1>2, <1>8, PageCacheAssumption DEF LockInv
  <1>18. MapInv'
    <2>1. \A p \in DOMAIN map' : p \in heap' \/ p > MaxBrk + 1
      BY <1>2, <1>10, <1>12 DEF MapInv
    <2>2. ASSUME NEW x \in Spans, status'[x] # "none", x # s, x # t,
                 NEW p \in Pages(x), p \in DOMAIN map, map[p] = x
          PROVE  p \in DOMAIN map' /\ map'[p] = x
      BY <1>1, <1>8, <1>12, <2>2, OwnPages
    <2>3. ASSUME NEW x \in Spans, status'[x] = "out"
          PROVE  /\ page_id'[x] \in DOMAIN map' /\ map'[page_id'[x]] = x
                 /\ is_use'[x] => \A p \in Pages(x)' : p \in DOMAIN map' /\ map'[p] = x
      <3>1. CASE x = t
        <4>1. page_id'[t] \in first .. first + k - 1
          BY <1>2, <1>6, <1>8
        <4>2. \A p \in first .. first + k - 1 : p \in DOMAIN map' /\ map'[p] = t
          BY <1>12
        <4> QED
          BY <1>9, <3>1, <4>1, <4>2
      <3>2. CASE x # t
        <4>1. x # s /\ status[x] = "out" /\ page_id'[x] = page_id[x]
          BY <1>1, <1>8, <2>3, <3>2
        <4> QED
          BY <1>8, <1>9, <2>2, <2>3, <3>2, <4>1, OwnPages DEF MapInv
      <3> QED
        BY <3>1, <3>2
    <2>4. ASSUME NEW x \in Spans, status'[x] = "free",
                 NEW p \in {page_id'[x], page_id'[x] + page_size'[x] - 1}
          PROVE  p \in DOMAIN map' /\ map'[p] = x
      <3>1. CASE x = s
        <4>1. page_id'[s] = first + k /\ page_id'[s] + page_size'[s] - 1 = first + n - 1
          BY <1>6, <1>8
        <4>2. p \in {first + k, first + n - 1}
          BY <2>4, <3>1, <4>1
        <4>3. \A q \in {first + k, first + n - 1} : q \in DOMAIN map' /\ map'[q] = s
          BY <1>12
        <4> QED
          BY <3>1, <4>2, <4>3
      <3>2. CASE x # s
        <4>1. /\ x # t /\ status[x] = "free" /\ ~Fresh(x)
              /\ page_id'[x] = page_id[x] /\ page_size'[x] = page_size[x]
          BY <1>7, <1>8, <2>4, <3>2
        <4> QED
          BY <2>2, <2>4, <3>2, <4>1, OwnPages DEF MapInv
      <3> QED
        BY <3>1, <3>2
    <2> QED
      BY <2>1, <2>3, <2>4 DEF MapInv
  <1> QED
    BY <1>11, <1>13, <1>14, <1>15, <1>16, <1>17, <1>18
-----------------------------------------------------------------------------
(* A span from the heap: above every page the page cache has had before, as  *)
(* long as the break is where sbrk(0) has found it.                          *)
LEMMA SystemAllocSpans ==
  ASSUME HeapTypes, HeapInv, Settled, SpanInv, NEW t \in Spans, SystemAlloc(t)
  PROVE  SpanInv'
PROOF
  <1> USE DEF SpanInv
  <1>1. PICK first \in Nat \ {0} : first = ptr["pc"]
    BY DEF SystemAlloc, Brk, HeapTypes, HeapInv
  <1>2. /\ NothingFits /\ status[t] = "none"
        /\ first = break /\ break + MaxPages <= MaxBrk + 1 /\ break \in Nat
        /\ heap' = heap \cup (first .. first + MaxPages - 1)
        /\ UNCHANGED <<map, phase, want, by, cur>>
    BY <1>1 DEF SystemAlloc, Brk, NewBreak, NewSpan, HeapInv, Settled, HeapTypes, lockVars
  <1>3. /\ page_id' = [page_id EXCEPT ![t] = first]
        /\ page_size' = [page_size EXCEPT ![t] = MaxPages]
        /\ is_use' = [is_use EXCEPT ![t] = FALSE]
        /\ status' = [status EXCEPT ![t] = "free"]
    BY <1>1 DEF SystemAlloc
  <1>4. lists' = [lists EXCEPT ![MaxPages] = <<t>> \o @]
    BY DEF SystemAlloc, PushFront
  <1>5. /\ \A x \in Spans : status'[x] = IF x = t THEN "free" ELSE status[x]
        /\ \A x \in Spans \ {t} : is_use'[x] = is_use[x]
        /\ page_id'[t] = first /\ page_size'[t] = MaxPages
        /\ \A x \in Spans \ {t} : page_id'[x] = page_id[x] /\ page_size'[x] = page_size[x]
    BY <1>3 DEF SpanTypes
  <1>6. /\ Pages(t)' = first .. first + MaxPages - 1
        /\ \A x \in Spans \ {t} : Pages(x)' = Pages(x)
    BY <1>5 DEF Pages
  <1>7. MaxPages \in Nat \ {0} /\ MaxPages \in 1 .. MaxPages /\ MaxBrk \in Nat
    BY PageCacheAssumption
  <1>8. /\ phase = "create" /\ lists[MaxPages] = <<>>
        /\ \A m \in want .. MaxPages - 1 : lists[m] = <<>>
    BY <1>2, <1>7 DEF NothingFits, SpanTypes
  <1>9. /\ <<t>> \o lists[MaxPages] = <<t>> /\ <<t>> \in Seq(Spans) /\ Distinct(<<t>>)
        /\ \A x \in Spans : Holds(<<t>>, x) <=> x = t
        /\ \A x \in Spans : ~Holds(lists[MaxPages], x)
    BY <1>8 DEF Distinct, Holds
  <1>10. /\ lists' \in [1 .. MaxPages -> Seq(Spans)] /\ lists'[MaxPages] = <<t>>
         /\ \A m \in 1 .. MaxPages \ {MaxPages} : lists'[m] = lists[m]
    BY <1>4, <1>7, <1>9 DEF SpanTypes
  <1>11. SpanTypes'
    <2>1. /\ page_id' \in [Spans -> Nat] /\ page_size' \in [Spans -> Nat]
          /\ is_use' \in [Spans -> BOOLEAN] /\ status' \in [Spans -> SpanStates]
      BY <1>3, <1>7 DEF SpanTypes, SpanStates
    <2> QED
      BY <1>2, <1>10, <2>1 DEF SpanTypes
  <1>12. ShapeInv'
    <2>1. page_size'[t] >= 1 /\ page_size'[t] <= MaxPages /\ \A p \in Pages(t)' : p \in heap'
      BY <1>2, <1>5, <1>6, <1>7
    <2>2. ASSUME NEW x \in Spans, x # t, status'[x] # "none"
          PROVE  /\ page_size'[x] >= 1
                 /\ \/ page_size'[x] <= MaxPages /\ \A p \in Pages(x)' : p \in heap'
                    \/ page_size'[x] > MaxPages /\ page_id'[x] > MaxBrk + 1 /\ status'[x] = "out"
                 /\ status'[x] = "out" => (is_use'[x] <=> page_size'[x] <= MaxPages)
      BY <1>2, <1>5, <1>6, <2>2 DEF ShapeInv
    <2>3. status'[t] # "out"
      BY <1>5
    <2> QED
      BY <2>1, <2>2, <2>3 DEF ShapeInv
  <1>13. ApartInv'
    <2>1. ASSUME NEW x \in Spans, x # t, status'[x] # "none"
          PROVE  page_id[x] + page_size[x] <= first \/ first + MaxPages <= page_id[x]
      <3>1. page_id[x] \in Nat /\ page_size[x] \in Nat /\ page_size[x] >= 1
            /\ status[x] # "none"
        BY <1>5, <2>1 DEF ShapeInv, SpanTypes
      <3>2. CASE \A p \in Pages(x) : p \in heap
        <4>1. page_id[x] + page_size[x] - 1 \in heap
          BY <3>1, <3>2 DEF Pages
        <4>2. page_id[x] + page_size[x] - 1 < first
          BY <1>2, <4>1 DEF Settled
        <4> QED
          BY <3>1, <4>2
      <3>3. CASE page_id[x] > MaxBrk + 1
        BY <1>2, <1>7, <3>1, <3>3
      <3> QED
        BY <3>1, <3>2, <3>3 DEF ShapeInv
    <2> QED
      BY <1>5, <2>1 DEF ApartInv
  <1>14. CoverInv'
    <2>1. SUFFICES ASSUME NEW p \in heap'
                   PROVE  \E x \in Spans : status'[x] # "none" /\ p \in Pages(x)'
      BY DEF CoverInv
    <2>2. CASE p \in heap
      <3>1. PICK x \in Spans : status[x] # "none" /\ p \in Pages(x)
        BY <2>2 DEF CoverInv
      <3> QED
        BY <1>2, <1>5, <1>6, <3>1
    <2>3. CASE p \in first .. first + MaxPages - 1
      BY <1>5, <1>6, <2>3
    <2> QED
      BY <1>2, <2>2, <2>3
  <1>15. ListInv'
    <2>1. ASSUME NEW m \in 1 .. MaxPages, NEW x \in Spans
          PROVE  Holds(lists'[m], x) <=> status'[x] = "free" /\ page_size'[x] = m
      <3>1. CASE m = MaxPages
        <4>1. x # t => ~(status[x] = "free" /\ page_size[x] = MaxPages)
          BY <1>7, <1>9 DEF ListInv
        <4> QED
          BY <1>5, <1>9, <1>10, <3>1, <4>1
      <3>2. CASE m # MaxPages
        <4>1. x = t => ~Holds(lists[m], x)
          BY <1>2 DEF ListInv
        <4> QED
          BY <1>5, <1>10, <3>2, <4>1 DEF ListInv
      <3> QED
        BY <3>1, <3>2
    <2>2. \A m \in 1 .. MaxPages : Distinct(lists'[m])
      BY <1>9, <1>10 DEF ListInv
    <2> QED
      BY <2>1, <2>2 DEF ListInv
  <1>16. LockInv'
    BY <1>2, <1>5, PageCacheAssumption DEF LockInv
  <1>17. MapInv'
    <2>1. Fresh(t)'
      <3>1. \A m \in want .. MaxPages - 1 : m \in 1 .. MaxPages \ {MaxPages}
        BY <1>7 DEF SpanTypes
      <3> QED
        BY <1>2, <1>8, <1>10, <3>1 DEF Fresh
    <2>2. ASSUME NEW x \in Spans PROVE ~Fresh(x)
      BY <1>8 DEF Fresh
    <2>3. \A p \in DOMAIN map' : p \in heap' \/ p > MaxBrk + 1
      BY <1>2 DEF MapInv
    <2>4. ASSUME NEW x \in Spans, status'[x] = "out"
          PROVE  /\ page_id'[x] \in DOMAIN map' /\ map'[page_id'[x]] = x
                 /\ is_use'[x] => \A p \in Pages(x)' : p \in DOMAIN map' /\ map'[p] = x
      BY <1>2, <1>5, <1>6, <2>4 DEF MapInv
    <2>5. ASSUME NEW x \in Spans, x # t, status'[x] = "free",
                 NEW p \in {page_id'[x], page_id'[x] + page_size'[x] - 1}
          PROVE  p \in DOMAIN map' /\ map'[p] = x
      BY <1>2, <1>5, <2>2, <2>5 DEF MapInv
    <2> QED
      BY <2>1, <2>3, <2>4, <2>5 DEF MapInv
  <1> QED
    BY <1>11, <1>12, <1>13, <1>14, <1>15, <1>16, <1>17

(* A huge span: mmap has placed it above the heap and apart from the others. *)
LEMMA CreateHugeSpans ==
  ASSUME HeapTypes, Settled, SpanInv, NEW k \in HugeSizes, NEW t \in Spans, NEW start \in MmapStarts,
         CreateHuge(k, t, start)
  PROVE  SpanInv'
PROOF
  <1> USE DEF SpanInv
  <1>1. /\ phase = "idle" /\ status[t] = "none"
        /\ UNCHANGED <<lists, heap, phase, want, by, cur>>
    BY DEF CreateHuge, NewSpan, lockVars
  <1>2. /\ page_id' = [page_id EXCEPT ![t] = start]
        /\ page_size' = [page_size EXCEPT ![t] = k]
        /\ is_use' = [is_use EXCEPT ![t] = FALSE]
        /\ status' = [status EXCEPT ![t] = "out"]
        /\ map' = MapTo({start, start + k - 1}, t)
    BY DEF CreateHuge
  <1>3. /\ k \in Nat /\ k > MaxPages /\ MaxPages \in Nat \ {0} /\ start \in Nat
        /\ start > MaxBrk + 1 /\ MaxBrk \in Nat /\ start + k - 1 > MaxBrk + 1
    BY PageCacheAssumption
  <1>4. /\ \A x \in Spans : status'[x] = IF x = t THEN "out" ELSE status[x]
        /\ is_use'[t] = FALSE /\ \A x \in Spans \ {t} : is_use'[x] = is_use[x]
        /\ page_id'[t] = start /\ page_size'[t] = k
        /\ \A x \in Spans \ {t} : page_id'[x] = page_id[x] /\ page_size'[x] = page_size[x]
    BY <1>2 DEF SpanTypes
  <1>5. \A x \in Spans \ {t} : Pages(x)' = Pages(x)
    BY <1>4 DEF Pages
  <1>6. ASSUME NEW x \in Spans, x # t, status[x] # "none"
        PROVE  page_id[x] + page_size[x] <= start \/ start + k <= page_id[x]
    <2>1. page_id[x] \in Nat /\ page_size[x] \in Nat /\ page_size[x] >= 1
      BY <1>6 DEF ShapeInv, SpanTypes
    <2>2. CASE \A p \in Pages(x) : p \in heap
      <3>1. page_id[x] + page_size[x] - 1 \in heap
        BY <2>1, <2>2 DEF Pages
      <3>2. page_id[x] + page_size[x] - 1 \in 1 .. MaxBrk
        BY <3>1, HeapBelow
      <3> QED
        BY <1>3, <2>1, <3>2
    <2>3. CASE status[x] = "out"
      <3>1. Pages(x) \cap (start .. start + k - 1) = {}
        BY <2>3 DEF CreateHuge
      <3>2. page_id[x] \notin start .. start + k - 1 /\ start \notin Pages(x)
        BY <1>3, <2>1, <3>1 DEF Pages
      <3> QED
        BY <1>3, <2>1, <3>2 DEF Pages
    <2> QED
      BY <1>6, <2>2, <2>3 DEF ShapeInv
  <1>7. /\ DOMAIN map' = DOMAIN map \cup {start, start + k - 1}
        /\ \A p \in DOMAIN map' : map'[p] = IF p \in {start, start + k - 1} THEN t ELSE map[p]
    BY <1>2 DEF MapTo
  <1>8. SpanTypes'
    <2>1. /\ page_id' \in [Spans -> Nat] /\ page_size' \in [Spans -> Nat]
          /\ is_use' \in [Spans -> BOOLEAN] /\ status' \in [Spans -> SpanStates]
      BY <1>2, <1>3 DEF SpanTypes, SpanStates
    <2>2. DOMAIN map' \subseteq Nat /\ \A p \in DOMAIN map' : map'[p] \in Spans
      BY <1>3, <1>7 DEF SpanTypes
    <2> QED
      BY <1>1, <2>1, <2>2 DEF SpanTypes
  <1>9. ShapeInv'
    <2>1. page_size'[t] >= 1 /\ page_size'[t] > MaxPages /\ page_id'[t] > MaxBrk + 1
      BY <1>3, <1>4
    <2>2. ~(page_size'[t] <= MaxPages)
      BY <1>3, <1>4
    <2>3. ASSUME NEW x \in Spans, x # t, status'[x] # "none"
          PROVE  /\ page_size'[x] >= 1
                 /\ \/ page_size'[x] <= MaxPages /\ \A p \in Pages(x)' : p \in heap'
                    \/ page_size'[x] > MaxPages /\ page_id'[x] > MaxBrk + 1 /\ status'[x] = "out"
                 /\ status'[x] = "out" => (is_use'[x] <=> page_size'[x] <= MaxPages)
      BY <1>1, <1>4, <1>5, <2>3 DEF ShapeInv
    <2> QED
      BY <1>4, <2>1, <2>2, <2>3 DEF ShapeInv
  <1>10. ApartInv'
    BY <1>4, <1>6 DEF ApartInv
  <1>11. CoverInv'
    BY <1>1, <1>4, <1>5 DEF CoverInv
  <1>12. ListInv' /\ LockInv'
    BY <1>1, <1>4, PageCacheAssumption DEF ListInv, LockInv
  <1>13. MapInv'
    <2>1. \A p \in DOMAIN map' : p \in heap' \/ p > MaxBrk + 1
      BY <1>1, <1>3, <1>7 DEF MapInv
    <2>2. ASSUME NEW x \in Spans, x # t, status[x] # "none", NEW p \in Pages(x),
                 p \in DOMAIN map, map[p] = x
          PROVE  p \in DOMAIN map' /\ map'[p] = x
      <3>1. p \notin {start, start + k - 1}
        <4>1. page_id[x] \in Nat /\ page_size[x] \in Nat
          BY DEF SpanTypes
        <4>2. page_id[x] + page_size[x] <= start \/ start + k <= page_id[x]
          BY <1>6, <2>2
        <4>3. p \in Int /\ p >= page_id[x] /\ p < page_id[x] + page_size[x]
          BY <2>2, <4>1 DEF Pages
        <4> QED
          BY <1>3, <4>1, <4>2, <4>3
      <3> QED
        BY <1>7, <2>2, <3>1
    <2>3. ASSUME NEW x \in Spans, x # t, status'[x] = "out"
          PROVE  /\ page_id'[x] \in DOMAIN map' /\ map'[page_id'[x]] = x
                 /\ is_use'[x] => \A p \in Pages(x)' : p \in DOMAIN map' /\ map'[p] = x
      BY <1>4, <1>5, <2>2, <2>3, OwnPages DEF MapInv
    <2>4. page_id'[t] \in DOMAIN map' /\ map'[page_id'[t]] = t /\ ~is_use'[t]
      BY <1>4, <1>7
    <2>5. ASSUME NEW x \in Spans, status'[x] = "free",
                 NEW p \in {page_id'[x], page_id'[x] + page_size'[x] - 1}
          PROVE  p \in DOMAIN map' /\ map'[p] = x
      <3>1. x # t /\ status[x] = "free" /\ ~Fresh(x)
        BY <1>1, <1>4, <2>5 DEF Fresh
      <3> QED
        BY <1>4, <2>2, <2>5, <3>1, OwnPages DEF MapInv
    <2> QED
      BY <2>1, <2>3, <2>4, <2>5 DEF MapInv
  <1> QED
    BY <1>8, <1>9, <1>10, <1>11, <1>12, <1>13
-----------------------------------------------------------------------------
(* A huge span goes back to the system, a small one starts to merge. *)
LEMMA RecoverSpans ==
  ASSUME HeapTypes, Settled, SpanInv, NEW s \in Spans, Recover(s)
  PROVE  SpanInv'
PROOF
  <1> USE DEF SpanInv
  <1>1. /\ phase = "idle" /\ status[s] = "out" /\ cur = NoSpan
        /\ UNCHANGED <<page_id, page_size, is_use, lists, map, heap, want, by>>
        /\ \/ page_size[s] > MaxPages /\ status' = [status EXCEPT ![s] = "none"]
              /\ phase' = "idle" /\ cur' = NoSpan
           \/ page_size[s] <= MaxPages /\ status' = [status EXCEPT ![s] = "merging"]
              /\ phase' = "left" /\ cur' = s
    BY DEF Recover, lockVars, LockInv
  <1>2. /\ \A x \in Spans \ {s} : status'[x] = status[x]
        /\ status'[s] = IF page_size[s] <= MaxPages THEN "merging" ELSE "none"
        /\ status' \in [Spans -> SpanStates]
    <2>1. page_size[s] \in Nat /\ MaxPages \in Nat
      BY PageCacheAssumption DEF SpanTypes
    <2>2. CASE page_size[s] > MaxPages /\ status' = [status EXCEPT ![s] = "none"]
      BY <2>1, <2>2 DEF SpanTypes, SpanStates
    <2>3. CASE page_size[s] <= MaxPages /\ status' = [status EXCEPT ![s] = "merging"]
      BY <2>1, <2>3 DEF SpanTypes, SpanStates
    <2> QED
      BY <1>1, <2>2, <2>3
  <1>3. \A x \in Spans : Pages(x)' = Pages(x)
    BY <1>1 DEF Pages
  <1>4. SpanTypes'
    BY <1>1, <1>2 DEF SpanTypes
  <1>5. ShapeInv' /\ ApartInv'
    <2>1. \A x \in Spans : status'[x] # "none" => status[x] # "none"
      BY <1>1, <1>2
    <2>2. status'[s] # "none" => page_size[s] <= MaxPages
      BY <1>2
    <2>3. page_size[s] <= MaxPages => ~(page_size[s] > MaxPages)
      BY PageCacheAssumption DEF SpanTypes
    <2>4. ShapeInv'
      BY <1>1, <1>2, <1>3, <2>1, <2>2, <2>3 DEF ShapeInv
    <2>5. ApartInv'
      BY <1>1, <2>1 DEF ApartInv
    <2> QED
      BY <2>4, <2>5
  <1>6. CoverInv'
    <2>1. SUFFICES ASSUME NEW p \in heap
                   PROVE  \E x \in Spans : status'[x] # "none" /\ p \in Pages(x)
      BY <1>1, <1>3 DEF CoverInv
    <2>2. PICK x \in Spans : status[x] # "none" /\ p \in Pages(x)
      BY DEF CoverInv
    <2>3. ~(page_id[x] > MaxBrk + 1)
      BY <2>2, PageCacheAssumption DEF Pages, Settled, HeapTypes, SpanTypes
    <2>4. page_size[x] <= MaxPages
      BY <2>2, <2>3 DEF ShapeInv
    <2> QED
      BY <1>2, <2>2, <2>4
  <1>7. ListInv'
    BY <1>1, <1>2 DEF ListInv
  <1>8. LockInv'
    BY <1>1, <1>2, PageCacheAssumption DEF LockInv, SpanTypes
  <1>9. MapInv'
    <2>1. ASSUME NEW x \in Spans PROVE ~Fresh(x)
      BY <1>1 DEF Fresh
    <2> QED
      BY <1>1, <1>2, <1>3, <2>1 DEF MapInv
  <1> QED
    BY <1>4, <1>5, <1>6, <1>7, <1>8, <1>9

(* What the map says of the page before or behind the span being merged: it  *)
(* has no entry, or it leads to the live span that ends or begins there.  No *)
(* stale entry is ever met.                                                  *)
LEMMA Neighbour ==
  ASSUME HeapTypes, Settled, SpanInv, phase \in {"left", "right"}, NEW p \in DOMAIN map,
         p = page_id[cur] - 1 \/ p = page_id[cur] + page_size[cur]
  PROVE  /\ cur \in Spans /\ status[cur] = "merging"
         /\ map[p] \in Spans \ {cur} /\ status[map[p]] \in {"free", "out"}
         /\ p = page_id[cur] - 1 => page_id[map[p]] + page_size[map[p]] = page_id[cur]
         /\ p = page_id[cur] + page_size[cur] => page_id[map[p]] = p
PROOF
  <1> USE DEF SpanInv
  <1>1. PICK c \in Spans : c = cur
    BY PageCacheAssumption DEF LockInv, SpanTypes
  <1>2. status[c] = "merging" /\ phase # "create"
    BY <1>1 DEF LockInv
  <1>3. /\ page_size[c] >= 1 /\ \A q \in Pages(c) : q \in heap
        /\ page_id[c] \in Nat /\ page_size[c] \in Nat
    BY <1>2 DEF ShapeInv, SpanTypes
  <1>4. p \in heap
    <2>1. page_id[c] + page_size[c] - 1 \in heap
      BY <1>3 DEF Pages
    <2>2. page_id[c] + page_size[c] - 1 \in 1 .. MaxBrk
      BY <2>1, HeapBelow
    <2>3. ~(p > MaxBrk + 1)
      BY <1>1, <1>3, <2>2, PageCacheAssumption
    <2> QED
      BY <2>3 DEF MapInv
  <1>5. PICK s \in Spans : status[s] # "none" /\ p \in Pages(s)
    BY <1>4 DEF CoverInv
  <1>6. /\ page_id[s] \in Nat /\ page_size[s] \in Nat /\ p \in Int
        /\ page_id[s] <= p /\ p < page_id[s] + page_size[s]
    BY <1>5 DEF Pages, SpanTypes
  <1>7. s # c
    BY <1>1, <1>3, <1>6
  <1>8. \/ page_id[s] + page_size[s] <= page_id[c]
        \/ page_id[c] + page_size[c] <= page_id[s]
    BY <1>2, <1>5, <1>7 DEF ApartInv
  <1>9. /\ p = page_id[c] - 1 => p = page_id[s] + page_size[s] - 1
        /\ p = page_id[c] + page_size[c] => p = page_id[s]
    BY <1>3, <1>6, <1>8
  <1>10. status[s] \in {"free", "out"}
    BY <1>1, <1>5, <1>7 DEF LockInv, SpanTypes, SpanStates
  <1>11. map[p] = s
    <2>1. CASE status[s] = "free"
      <3>1. ~Fresh(s)
        BY <1>2 DEF Fresh
      <3> QED
        BY <1>1, <1>9, <2>1, <3>1 DEF MapInv
    <2>2. CASE status[s] = "out"
      <3>1. p \in 1 .. MaxBrk
        BY <1>4, HeapBelow
      <3>2. ~(page_id[s] > MaxBrk + 1)
        BY <1>6, <3>1, PageCacheAssumption
      <3>3. is_use[s]
        BY <2>2, <3>2 DEF ShapeInv
      <3> QED
        BY <1>5, <2>2, <3>3 DEF MapInv
    <2> QED
      BY <1>10, <2>1, <2>2
  <1> QED
    BY <1>1, <1>2, <1>3, <1>6, <1>7, <1>9, <1>10, <1>11

(* What Fits accepts at a border is free, although Fits has only looked at   *)
(* the mark and the size.                                                    *)
LEMMA MergesFree ==
  ASSUME HeapTypes, Settled, SpanInv, phase \in {"left", "right"}, NEW p \in DOMAIN map,
         p = page_id[cur] - 1 \/ p = page_id[cur] + page_size[cur], Fits(p)
  PROVE  /\ cur \in Spans /\ status[cur] = "merging"
         /\ map[p] \in Spans \ {cur} /\ status[map[p]] = "free"
PROOF
  <1>1. PICK c \in Spans, s \in Spans :
          /\ c = cur /\ s = map[p] /\ s # c /\ status[c] = "merging"
          /\ status[s] \in {"free", "out"}
    BY Neighbour
  <1>2. ~is_use[s] /\ page_size[s] + page_size[c] <= MaxPages
    BY <1>1 DEF Fits
  <1>3. page_size[s] \in Nat /\ page_size[c] \in Nat /\ MaxPages \in Nat
    BY PageCacheAssumption DEF SpanInv, SpanTypes
  <1>4. page_size[s] <= MaxPages
    BY <1>2, <1>3
  <1>5. status[s] = "free"
    BY <1>1, <1>2, <1>4 DEF SpanInv, ShapeInv
  <1> QED
    BY <1>1, <1>5

(* The span being merged takes over a neighbour.  Fits has only looked at    *)
(* is_use and the size; that the neighbour is free follows.                  *)
LEMMA MergeSpans ==
  ASSUME SpanInv, NEW c \in Spans, c = cur, status[c] = "merging",
         NEW s \in Spans \ {c}, status[s] \in {"free", "out"}, ~is_use[s],
         page_size[s] + page_size[c] <= MaxPages,
         NEW q \in Nat,
         \/ q = page_id[s] /\ page_id[s] + page_size[s] = page_id[c]
         \/ q = page_id[c] /\ page_id[c] + page_size[c] = page_id[s],
         page_id' = [page_id EXCEPT ![c] = q],
         page_size' = [page_size EXCEPT ![c] = page_size[c] + page_size[s]],
         lists' = Erase(page_size[s], s),
         status' = [status EXCEPT ![s] = "none"],
         UNCHANGED <<is_use, map, heap, phase, want, by, cur>>
  PROVE  SpanInv'
PROOF
  <1> USE DEF SpanInv
  <1> DEFINE n == page_size[s]
             k == page_size[c]
  <1>1. /\ \A x \in Spans : page_id[x] \in Nat /\ page_size[x] \in Nat
        /\ n >= 1 /\ k >= 1 /\ n \in Nat /\ k \in Nat /\ MaxPages \in Nat
    BY PageCacheAssumption DEF SpanTypes, ShapeInv
  <1>2. status[s] = "free" /\ n \in 1 .. MaxPages
    BY <1>1 DEF ShapeInv
  <1>3. phase # "create"
    BY PageCacheAssumption DEF LockInv
  <1>4. /\ \A x \in Spans : status'[x] = IF x = s THEN "none" ELSE status[x]
        /\ page_id'[c] = q /\ page_size'[c] = k + n
        /\ \A x \in Spans \ {c} : page_id'[x] = page_id[x] /\ page_size'[x] = page_size[x]
    BY DEF SpanTypes
  <1>5. \A x \in Spans \ {c} : Pages(x)' = Pages(x)
    BY <1>4 DEF Pages
  <1>6. /\ \A p \in Pages(c)' : p \in Pages(c) \/ p \in Pages(s)
        /\ \A p \in Pages(c) : p \in Pages(c)'
        /\ \A p \in Pages(s) : p \in Pages(c)'
    BY <1>1, <1>4 DEF Pages
  <1>7. lists' \in [1 .. MaxPages -> Seq(Spans)] /\ ListInv'
    <2>1. lists[n] \in Seq(Spans) /\ Distinct(lists[n]) /\ Holds(lists[n], s)
      BY <1>2 DEF SpanTypes, ListInv
    <2>2. /\ Unlink(lists[n], s) \in Seq(Spans) /\ Distinct(Unlink(lists[n], s))
          /\ \A x \in Spans : Holds(Unlink(lists[n], s), x) <=> Holds(lists[n], x) /\ x # s
      BY <2>1, UnlinkHolds
    <2>3. /\ lists' \in [1 .. MaxPages -> Seq(Spans)]
          /\ \A m \in 1 .. MaxPages : lists'[m] = IF m = n THEN Unlink(lists[n], s) ELSE lists[m]
      BY <1>2, <2>2 DEF Erase, SpanTypes
    <2> HIDE DEF n, k
    <2>4. ASSUME NEW m \in 1 .. MaxPages, NEW x \in Spans
          PROVE  Holds(lists'[m], x) <=> status'[x] = "free" /\ page_size'[x] = m
      <3>1. Holds(lists'[m], x) <=> Holds(lists[m], x) /\ x # s
        <4>1. m # n => ~Holds(lists[m], s)
          BY DEF ListInv, n
        <4> QED
          BY <2>2, <2>3, <4>1
      <3>2. status'[x] = "free" /\ page_size'[x] = m <=>
              x # s /\ status[x] = "free" /\ page_size[x] = m
        BY <1>4
      <3> QED
        BY <3>1, <3>2 DEF ListInv
    <2>5. \A m \in 1 .. MaxPages : Distinct(lists'[m])
      BY <2>2, <2>3 DEF ListInv
    <2> QED
      BY <2>3, <2>4, <2>5 DEF ListInv
  <1>8. SpanTypes'
    <2>1. page_id' \in [Spans -> Nat] /\ page_size' \in [Spans -> Nat]
      BY <1>1 DEF SpanTypes
    <2>2. status' \in [Spans -> SpanStates]
      BY DEF SpanTypes, SpanStates
    <2> QED
      BY <1>7, <2>1, <2>2 DEF SpanTypes
  <1>9. ShapeInv'
    <2>1. page_size'[c] >= 1 /\ page_size'[c] <= MaxPages
      BY <1>1, <1>4
    <2>2. \A p \in Pages(c)' : p \in heap'
      BY <1>1, <1>2, <1>6 DEF ShapeInv
    <2>3. status'[c] = "merging"
      BY <1>4
    <2>4. ASSUME NEW x \in Spans, x # c, status'[x] # "none"
          PROVE  /\ page_size'[x] >= 1
                 /\ \/ page_size'[x] <= MaxPages /\ \A p \in Pages(x)' : p \in heap'
                    \/ page_size'[x] > MaxPages /\ page_id'[x] > MaxBrk + 1 /\ status'[x] = "out"
                 /\ status'[x] = "out" => (is_use'[x] <=> page_size'[x] <= MaxPages)
      BY <1>4, <1>5, <2>4 DEF ShapeInv
    <2> QED
      BY <2>1, <2>2, <2>3, <2>4 DEF ShapeInv
  <1>10. ApartInv'
    <2>1. ASSUME NEW x \in Spans, x # c, status'[x] # "none"
          PROVE  \/ page_id[x] + page_size[x] <= q
                 \/ q + (k + n) <= page_id[x]
      <3>1. x # s /\ status[x] # "none" /\ status[s] # "none"
        BY <1>2, <1>4, <2>1
      <3>2. page_id[x] + page_size[x] <= page_id[s] \/ page_id[s] + n <= page_id[x]
        BY <3>1 DEF ApartInv
      <3>3. page_id[x] + page_size[x] <= page_id[c] \/ page_id[c] + k <= page_id[x]
        BY <2>1, <3>1 DEF ApartInv
      <3>4. page_size[x] >= 1
        BY <3>1 DEF ShapeInv
      <3> QED
        BY <1>1, <3>2, <3>3, <3>4
    <2> QED
      BY <1>4, <2>1 DEF ApartInv
  <1>11. CoverInv'
    <2>1. SUFFICES ASSUME NEW p \in heap
                   PROVE  \E x \in Spans : status'[x] # "none" /\ p \in Pages(x)'
      BY DEF CoverInv
    <2>2. PICK x \in Spans : status[x] # "none" /\ p \in Pages(x)
      BY DEF CoverInv
    <2>3. CASE x \in {s, c}
      BY <1>4, <1>6, <2>2, <2>3
    <2>4. CASE x \notin {s, c}
      BY <1>4, <1>5, <2>2, <2>4
    <2> QED
      BY <2>3, <2>4
  <1>12. LockInv'
    BY <1>2, <1>4 DEF LockInv
  <1>13. MapInv'
    <2>1. ASSUME NEW x \in Spans PROVE ~Fresh(x)
      BY <1>3 DEF Fresh
    <2>2. \A x \in Spans : status'[x] \in {"free", "out"} =>
            x # c /\ status'[x] = status[x]
      BY <1>4
    <2> QED
      BY <1>4, <1>5, <2>1, <2>2 DEF MapInv
  <1> QED
    BY <1>7, <1>8, <1>9, <1>10, <1>11, <1>12, <1>13

LEMMA MergeLeftSpans ==
  ASSUME HeapTypes, Settled, SpanInv, MergeLeft
  PROVE  SpanInv'
PROOF
  <1>1. /\ phase = "left" /\ page_id[cur] - 1 \in DOMAIN map
        /\ Fits(page_id[cur] - 1)
    BY DEF MergeLeft, Fits
  <1>2. PICK p \in DOMAIN map : p = page_id[cur] - 1
    BY <1>1
  <1>3. PICK c \in Spans, s \in Spans :
          /\ c = cur /\ s = map[p] /\ s # c /\ status[c] = "merging"
          /\ status[s] \in {"free", "out"} /\ page_id[s] + page_size[s] = page_id[c]
    BY <1>1, <1>2, Neighbour
  <1>4. PICK q \in Nat : q = page_id[s]
    BY DEF SpanInv, SpanTypes
  <1>5. ~is_use[s] /\ page_size[s] + page_size[c] <= MaxPages
    BY <1>1, <1>2, <1>3 DEF Fits
  <1>6. /\ page_id' = [page_id EXCEPT ![c] = q]
        /\ page_size' = [page_size EXCEPT ![c] = page_size[c] + page_size[s]]
        /\ lists' = Erase(page_size[s], s)
        /\ status' = [status EXCEPT ![s] = "none"]
        /\ UNCHANGED <<is_use, map, heap, phase, want, by, cur>>
    BY <1>2, <1>3, <1>4 DEF MergeLeft, Merged, ListOf, lockVars
  <1> QED
    BY <1>3, <1>4, <1>5, <1>6, MergeSpans

LEMMA MergeRightSpans ==
  ASSUME HeapTypes, Settled, SpanInv, MergeRight
  PROVE  SpanInv'
PROOF
  <1>1. /\ phase = "right" /\ page_id[cur] + page_size[cur] \in DOMAIN map
        /\ Fits(page_id[cur] + page_size[cur])
    BY DEF MergeRight, Fits
  <1>2. PICK p \in DOMAIN map : p = page_id[cur] + page_size[cur]
    BY <1>1
  <1>3. PICK c \in Spans, s \in Spans :
          /\ c = cur /\ s = map[p] /\ s # c /\ status[c] = "merging"
          /\ status[s] \in {"free", "out"} /\ page_id[s] = page_id[c] + page_size[c]
    BY <1>1, <1>2, Neighbour
  <1>4. PICK q \in Nat : q = page_id[c]
    BY DEF SpanInv, SpanTypes
  <1>5. ~is_use[s] /\ page_size[s] + page_size[c] <= MaxPages
    BY <1>1, <1>2, <1>3 DEF Fits
  <1>6. /\ page_size' = [page_size EXCEPT ![c] = page_size[c] + page_size[s]]
        /\ lists' = Erase(page_size[s], s)
        /\ status' = [status EXCEPT ![s] = "none"]
        /\ UNCHANGED <<page_id, is_use, map, heap, phase, want, by, cur>>
    BY <1>2, <1>3 DEF MergeRight, Merged, ListOf, lockVars
  <1>7. page_id' = [page_id EXCEPT ![c] = q]
    BY <1>4, <1>6 DEF SpanInv, SpanTypes
  <1> QED
    BY <1>3, <1>4, <1>5, <1>6, <1>7, MergeSpans

LEMMA RecoveredSpans ==
  ASSUME SpanInv, Recovered
  PROVE  SpanInv'
PROOF
  <1> USE DEF SpanInv
  <1>1. PICK c \in Spans : c = cur /\ status[c] = "merging"
    BY PageCacheAssumption DEF Recovered, LockInv, SpanTypes
  <1>2. PICK n \in 1 .. MaxPages : n = page_size[c]
    <2>1. page_size[c] \in Nat /\ page_size[c] >= 1 /\ page_size[c] <= MaxPages
      BY <1>1 DEF ShapeInv, SpanTypes
    <2> QED
      BY <2>1, PageCacheAssumption
  <1>3. /\ phase = "right" /\ phase' = "idle" /\ cur' = NoSpan
        /\ UNCHANGED <<page_id, page_size, heap, want, by>>
        /\ is_use' = [is_use EXCEPT ![c] = FALSE]
        /\ status' = [status EXCEPT ![c] = "free"]
    BY <1>1 DEF Recovered
  <1>4. lists' = [lists EXCEPT ![n] = <<c>> \o @]
    BY <1>1, <1>2 DEF Recovered, PushFront
  <1>5. map' = MapTo({page_id[c], page_id[c] + page_size[c] - 1}, c)
    BY <1>1 DEF Recovered, MapEnds
  <1>6. /\ \A x \in Spans : status'[x] = IF x = c THEN "free" ELSE status[x]
        /\ \A x \in Spans \ {c} : is_use'[x] = is_use[x]
        /\ is_use' \in [Spans -> BOOLEAN] /\ status' \in [Spans -> SpanStates]
    BY <1>3 DEF SpanTypes, SpanStates
  <1>7. \A x \in Spans : Pages(x)' = Pages(x)
    BY <1>3 DEF Pages
  <1>8. /\ DOMAIN map' = DOMAIN map \cup {page_id[c], page_id[c] + page_size[c] - 1}
        /\ DOMAIN map' \subseteq Nat /\ \A p \in DOMAIN map' : map'[p] \in Spans
        /\ \A p \in {page_id[c], page_id[c] + page_size[c] - 1} : map'[p] = c
        /\ \A t \in Spans \ {c} : status[t] # "none" =>
             \A p \in Pages(t) : p \in DOMAIN map /\ map[p] = t =>
                                   p \in DOMAIN map' /\ map'[p] = t
    <2>0. page_id[c] \in Pages(c) /\ page_id[c] + page_size[c] - 1 \in Pages(c)
      BY <1>1, OwnPages
    <2>1. PICK ps \in SUBSET Pages(c) : ps = {page_id[c], page_id[c] + page_size[c] - 1}
      BY <2>0
    <2>2. map' = MapTo(ps, c) /\ status[c] # "none"
      BY <1>1, <1>5, <2>1
    <2>3. /\ DOMAIN map' = DOMAIN map \cup ps
          /\ DOMAIN map' \subseteq Nat /\ \A p \in DOMAIN map' : map'[p] \in Spans
          /\ \A p \in ps : map'[p] = c
          /\ \A t \in Spans \ {c} : status[t] # "none" =>
               \A p \in Pages(t) : p \in DOMAIN map /\ map[p] = t =>
                                     p \in DOMAIN map' /\ map'[p] = t
      BY <2>2, MapToKeeps
    <2> QED
      BY <2>1, <2>3
  <1>9. lists' \in [1 .. MaxPages -> Seq(Spans)] /\ ListInv'
    <2>1. lists[n] \in Seq(Spans) /\ Distinct(lists[n]) /\ ~Holds(lists[n], c)
      BY <1>1 DEF SpanTypes, ListInv
    <2>2. /\ <<c>> \o lists[n] \in Seq(Spans) /\ Distinct(<<c>> \o lists[n])
          /\ \A x \in Spans : Holds(<<c>> \o lists[n], x) <=> Holds(lists[n], x) \/ x = c
      BY <2>1, ConsHolds
    <2>3. /\ lists' \in [1 .. MaxPages -> Seq(Spans)]
          /\ \A m \in 1 .. MaxPages : lists'[m] = IF m = n THEN <<c>> \o lists[n] ELSE lists[m]
      BY <1>4, <2>2 DEF SpanTypes
    <2>4. ASSUME NEW m \in 1 .. MaxPages, NEW x \in Spans
          PROVE  Holds(lists'[m], x) <=> status'[x] = "free" /\ page_size'[x] = m
      <3>1. Holds(lists'[m], x) <=> IF x = c THEN m = n ELSE Holds(lists[m], x)
        <4>1. ~Holds(lists[m], c)
          BY <1>1 DEF ListInv
        <4> QED
          BY <2>2, <2>3, <4>1
      <3>2. status'[x] = "free" /\ page_size'[x] = m <=>
              IF x = c THEN m = n ELSE status[x] = "free" /\ page_size[x] = m
        BY <1>2, <1>3, <1>6
      <3> QED
        BY <3>1, <3>2 DEF ListInv
    <2>5. \A m \in 1 .. MaxPages : Distinct(lists'[m])
      BY <2>2, <2>3 DEF ListInv
    <2> QED
      BY <2>3, <2>4, <2>5 DEF ListInv
  <1>10. SpanTypes'
    BY <1>3, <1>6, <1>8, <1>9 DEF SpanTypes
  <1>11. ShapeInv'
    BY <1>1, <1>3, <1>6, <1>7 DEF ShapeInv
  <1>12. ApartInv' /\ CoverInv'
    BY <1>1, <1>3, <1>6, <1>7 DEF ApartInv, CoverInv
  <1>13. LockInv'
    BY <1>1, <1>3, <1>6, PageCacheAssumption DEF LockInv
  <1>14. MapInv'
    <2>1. \A p \in DOMAIN map' : p \in heap' \/ p > MaxBrk + 1
      BY <1>1, <1>3, <1>8, OwnPages DEF MapInv, ShapeInv
    <2>2. ASSUME NEW x \in Spans, status'[x] = "out"
          PROVE  /\ page_id[x] \in DOMAIN map' /\ map'[page_id[x]] = x
                 /\ is_use'[x] => \A p \in Pages(x) : p \in DOMAIN map' /\ map'[p] = x
      BY <1>6, <1>8, <2>2, OwnPages DEF MapInv
    <2>3. ASSUME NEW x \in Spans, status'[x] = "free",
                 NEW p \in {page_id[x], page_id[x] + page_size[x] - 1}
          PROVE  p \in DOMAIN map' /\ map'[p] = x
      <3>1. CASE x = c
        BY <1>8, <2>3, <3>1
      <3>2. CASE x # c
        <4>1. status[x] = "free" /\ ~Fresh(x)
          BY <1>3, <1>6, <2>3, <3>2 DEF Fresh
        <4> QED
          BY <1>8, <2>3, <3>2, <4>1, OwnPages DEF MapInv
      <3> QED
        BY <3>1, <3>2
    <2> QED
      BY <1>3, <1>7, <2>1, <2>2, <2>3 DEF MapInv
  <1> QED
    BY <1>9, <1>10, <1>11, <1>12, <1>13, <1>14

(* Steps that leave the spans alone. *)
LEMMA SameSpans ==
  ASSUME SpanInv,
         UNCHANGED <<page_id, page_size, is_use, status, lists, map, heap, want, by, cur>>,
         phase' = phase \/ (phase = "left" /\ phase' = "right")
  PROVE  SpanInv'
PROOF
  <1>1. SpanTypes' /\ ShapeInv' /\ ApartInv' /\ CoverInv' /\ ListInv' /\ LockInv'
    BY DEF SpanInv, SpanTypes, ShapeInv, ApartInv, CoverInv, ListInv, LockInv, Pages
  <1>2. \A s \in Spans : Fresh(s) => Fresh(s)'
    BY DEF Fresh
  <1>3. MapInv'
    BY <1>2 DEF SpanInv, MapInv, Pages
  <1> QED
    BY <1>1, <1>3 DEF SpanInv

LEMMA SpanStep ==
  ASSUME LargeSizes = {}, HeapTypes, HeapInv, Settled, SpanInv, [Next]_vars
  PROVE  SpanInv'
PROOF
  <1>1. CASE CreateNext
    <2>1. CASE SystemAllocPtr \/ SystemAllocTop
      BY <2>1, SameSpans DEF SystemAllocPtr, SystemAllocTop, lockVars
    <2> QED
      BY <1>1, <2>1, CreateSpans, ExactSpans, SplitSpans, SystemAllocSpans, CreateHugeSpans
      DEF CreateNext
  <1>2. CASE RecoverNext
    <2>1. CASE LeftDone
      BY <2>1, SameSpans DEF LeftDone
    <2> QED
      BY <1>2, <2>1, RecoverSpans, MergeLeftSpans, MergeRightSpans, RecoveredSpans
      DEF RecoverNext
  <1>3. CASE TcAllocPtr \/ TcAllocTop \/ TcAlloc \/ UNCHANGED vars
    BY <1>3, SameSpans DEF TcAllocPtr, TcAllocTop, TcAlloc, lockVars, vars
  <1> QED
    BY <1>1, <1>2, <1>3 DEF Next

LEMMA InitSpans == Init => SpanInv
PROOF
  <1> SUFFICES ASSUME Init PROVE SpanInv
    OBVIOUS
  <1>1. SpanTypes
    <2>1. /\ page_id \in [Spans -> Nat] /\ page_size \in [Spans -> Nat]
          /\ is_use \in [Spans -> BOOLEAN] /\ status \in [Spans -> SpanStates]
      BY DEF Init, SpanStates
    <2>2. lists \in [1 .. MaxPages -> Seq(Spans)]
      BY DEF Init
    <2>3. DOMAIN map = {}
      BY DEF Init
    <2> QED
      BY <2>1, <2>2, <2>3, PageCacheAssumption DEF Init, SpanTypes
  <1>2. \A s \in Spans : status[s] = "none"
    BY DEF Init
  <1>3. ListInv
    <2>1. \A n \in 1 .. MaxPages : lists[n] = <<>>
      BY DEF Init
    <2> QED
      BY <1>2, <2>1 DEF ListInv, Holds, Distinct
  <1>4. LockInv
    BY <1>2, PageCacheAssumption DEF Init, LockInv
  <1>5. DOMAIN map = {} /\ heap = {}
    BY DEF Init
  <1> QED
    BY <1>1, <1>2, <1>3, <1>4, <1>5 DEF SpanInv, ShapeInv, ApartInv, CoverInv, MapInv
-----------------------------------------------------------------------------
(* What follows from the invariant in every state. *)
LEMMA SpanFacts ==
  ASSUME HeapTypes, Settled, SpanInv
  PROVE  EachPageOnce /\ FindsOwner /\ ListsExact /\ NeighboursAlive
PROOF
  <1> USE DEF SpanInv
  <1>2. EachPageOnce
    <2>1. ASSUME NEW s \in Spans, NEW t \in Spans,
                 status[s] # "none", status[t] # "none", s # t
          PROVE  Pages(s) \cap Pages(t) = {}
      BY <2>1, OwnPages
    <2>2. heap \subseteq UNION {Pages(s) : s \in {t \in Spans : status[t] # "none"}}
      BY DEF CoverInv
    <2> QED
      BY <2>1, <2>2 DEF EachPageOnce
  <1>3. FindsOwner
    BY DEF FindsOwner, FindSpan, MapInv
  <1>4. ListsExact
    <2>1. ASSUME NEW n \in 1 .. MaxPages
          PROVE  {lists[n][i] : i \in DOMAIN lists[n]} =
                   {s \in Spans : status[s] = "free" /\ page_size[s] = n}
      <3>1. \A i \in DOMAIN lists[n] : lists[n][i] \in Spans
        <4>1. lists[n] \in Seq(Spans)
          BY DEF SpanTypes
        <4> QED
          BY <4>1, LenProperties, ElementOfSeq
      <3>2. \A s \in Spans : (\E i \in DOMAIN lists[n] : lists[n][i] = s) <=>
                               status[s] = "free" /\ page_size[s] = n
        BY DEF ListInv, Holds
      <3> QED
        BY <3>1, <3>2
    <2> QED
      BY <2>1 DEF ListsExact, ListInv, Distinct
  <1>5. NeighboursAlive
    <2>1. ASSUME phase = "left", page_id[cur] - 1 \in DOMAIN map
          PROVE  status[map[page_id[cur] - 1]] # "none"
      BY <2>1, Neighbour
    <2>2. ASSUME phase = "right", page_id[cur] + page_size[cur] \in DOMAIN map
          PROVE  status[map[page_id[cur] + page_size[cur]]] # "none"
      BY <2>2, Neighbour
    <2> QED
      BY <2>1, <2>2 DEF NeighboursAlive
  <1> QED
    BY <1>2, <1>3, <1>4, <1>5

(* Until a race for the break the invariant holds as long as everybody who   *)
(* takes a span of at most MAX_PAGE_COUNT pages marks it, as the central     *)
(* cache does.                                                               *)
PageInv == HeapTypes /\ HeapInv /\ (~raced => SpanInv)

LEMMA PageInvariant ==
  ASSUME LargeSizes = {}
  PROVE  Spec => []PageInv
PROOF
  <1>1. Init => PageInv
    BY InitHeap, InitSpans DEF PageInv
  <1>2. PageInv /\ [Next]_vars => PageInv'
    <2> SUFFICES ASSUME PageInv, [Next]_vars PROVE PageInv'
      OBVIOUS
    <2>1. HeapTypes' /\ HeapInv' /\ (~raced' => ~raced)
      BY HeapStep DEF PageInv
    <2>2. ASSUME ~raced' PROVE SpanInv'
      BY <2>1, <2>2, SpanStep DEF PageInv, HeapInv
    <2> QED
      BY <2>1, <2>2 DEF PageInv
  <1> QED
    BY <1>1, <1>2, PTL DEF Spec

LEMMA PageFacts ==
  ASSUME PageInv
  PROVE  EachPageOnce /\ FindsOwner /\ ListsExact /\ NeighboursAlive
PROOF
  <1>1. CASE ~raced
    BY <1>1, SpanFacts DEF PageInv, HeapInv
  <1>2. CASE raced
    BY <1>2 DEF EachPageOnce, FindsOwner, ListsExact, NeighboursAlive
  <1> QED
    BY <1>1, <1>2

(* Until the break has been moved between another user's calls, every page   *)
(* taken from the heap belongs to exactly one span.                          *)
THEOREM PagesOwnedOnce ==
  ASSUME LargeSizes = {}
  PROVE  Spec => []EachPageOnce
  BY PageInvariant, PageFacts, PTL

(* Until then find_span_by_address finds the owner of every page handed to   *)
(* the central cache and of the first page of every huge span.               *)
THEOREM AddressesFound ==
  ASSUME LargeSizes = {}
  PROVE  Spec => []FindsOwner
  BY PageInvariant, PageFacts, PTL

(* Until then list n holds, between calls, exactly the free spans of n       *)
(* pages, each once.                                                         *)
THEOREM ListsHoldFreeSpans ==
  ASSUME LargeSizes = {}
  PROVE  Spec => []ListsExact
  BY PageInvariant, PageFacts, PTL

(* Until then recover_span_to_page_cache never follows a map entry to a Span *)
(* object that was given back, although merging leaves such entries.         *)
THEOREM NoStaleNeighbour ==
  ASSUME LargeSizes = {}
  PROVE  Spec => []NeighboursAlive
  BY PageInvariant, PageFacts, PTL
-----------------------------------------------------------------------------
(* The refinement: what is handed out, as PageService sees it. *)
Ranges == {Pages(s) : s \in {t \in Spans : status[t] = "out"}}
Merging == phase \in {"left", "right"}

(* Nothing changes hands. *)
LEMMA SameRanges ==
  ASSUME \A x \in Spans : status'[x] = "out" <=> status[x] = "out",
         \A x \in Spans : status[x] = "out" => Pages(x)' = Pages(x)
  PROVE  Ranges' = Ranges
  BY DEF Ranges

(* Span t is handed out: a new range, apart from the others. *)
LEMMA GiveRange ==
  ASSUME SpanInv, SpanInv', NEW t \in Spans, status[t] # "out", status'[t] = "out",
         \A x \in Spans \ {t} : status'[x] = "out" <=> status[x] = "out",
         \A x \in Spans \ {t} : status[x] = "out" => Pages(x)' = Pages(x),
         ~Merging, ~Merging'
  PROVE  PS!Give
PROOF
  <1> DEFINE r == Pages(t)'
  <1>1. /\ page_id'[t] \in Nat /\ page_size'[t] \in Nat /\ page_size'[t] >= 1
        /\ r = page_id'[t] .. page_id'[t] + page_size'[t] - 1
    BY DEF SpanInv, SpanTypes, ShapeInv, Pages
  <1>2. \E first, last \in r : r = first .. last
    <2>1. page_id'[t] \in r /\ page_id'[t] + page_size'[t] - 1 \in r
      BY <1>1
    <2> QED
      BY <1>1, <2>1
  <1>3. ASSUME NEW x \in Spans, status[x] = "out" PROVE Pages(x) \cap r = {}
    <2>1. x # t /\ Pages(x)' = Pages(x) /\ status'[x] = "out"
      BY <1>3
    <2>2. /\ page_id'[x] \in Nat /\ page_size'[x] \in Nat
          /\ Pages(x) = page_id'[x] .. page_id'[x] + page_size'[x] - 1
      BY <2>1 DEF SpanInv, SpanTypes, Pages
    <2>3. \/ page_id'[x] + page_size'[x] <= page_id'[t]
          \/ page_id'[t] + page_size'[t] <= page_id'[x]
      BY <2>1 DEF SpanInv, ApartInv
    <2> QED
      BY <1>1, <2>2, <2>3
  <1> HIDE DEF r
  <1>4. \A q \in Ranges : q \cap r = {}
    BY <1>3 DEF Ranges
  <1>5. Ranges' = Ranges \cup {r}
    BY DEF Ranges, r
  <1>6. r \in Ranges' \ Ranges
    <2>1. r # {}
      BY <1>2
    <2> QED
      BY <1>4, <1>5, <2>1
  <1> QED
    BY <1>2, <1>4, <1>5, <1>6 DEF PS!Give, Ranges, Merging

(* Span s comes back: its range, and no other, is gone. *)
LEMMA TakeBackRange ==
  ASSUME SpanInv, NEW s \in Spans, status[s] = "out", status'[s] # "out",
         \A x \in Spans \ {s} : status'[x] = status[x],
         UNCHANGED <<page_id, page_size>>, ~Merging
  PROVE  PS!TakeBack
PROOF
  <1>1. \A x \in Spans : Pages(x)' = Pages(x)
    BY DEF Pages
  <1>2. ASSUME NEW x \in Spans, x # s, status[x] = "out" PROVE Pages(x) # Pages(s)
    BY <1>2, OwnPages DEF SpanInv
  <1>3. Ranges' = Ranges \ {Pages(s)}
    BY <1>1, <1>2 DEF Ranges
  <1>4. Pages(s) \in Ranges
    BY DEF Ranges
  <1>5. Merging' \in BOOLEAN
    BY DEF Merging
  <1> QED
    BY <1>3, <1>4, <1>5 DEF PS!TakeBack, Ranges, Merging

LEMMA ServiceStep ==
  ASSUME LargeSizes = {}, HeapTypes, Settled, SpanInv, SpanInv', [Next]_vars
  PROVE  [PS!Next]_<<Ranges, Merging>>
PROOF
  <1>1. ASSUME Ranges' = Ranges, Merging' = Merging
        PROVE  [PS!Next]_<<Ranges, Merging>>
    BY <1>1
  <1>2. ASSUME UNCHANGED <<page_id, page_size, status>>, phase' = phase
        PROVE  [PS!Next]_<<Ranges, Merging>>
    <2>1. \A x \in Spans : Pages(x)' = Pages(x)
      BY <1>2 DEF Pages
    <2> QED
      BY <1>1, <1>2, <2>1, SameRanges DEF Merging
  <1>3. ASSUME PS!Give \/ PS!TakeBack \/ PS!PutAway
        PROVE  [PS!Next]_<<Ranges, Merging>>
    BY <1>3 DEF PS!Next
  <1>4. CASE Exact
    <2>1. PICK s \in Spans : s = Head(lists[want]) /\ status[s] = "free"
      BY <1>4, ListHead DEF Exact, SpanInv, SpanTypes
    <2>2. /\ phase = "create" /\ phase' = "idle" /\ UNCHANGED <<page_id, page_size>>
          /\ status' = [status EXCEPT ![s] = "out"]
      BY <1>4, <2>1 DEF Exact, HandOut
    <2>3. \A x \in Spans : status'[x] = IF x = s THEN "out" ELSE status[x]
      BY <2>2 DEF SpanInv, SpanTypes
    <2>4. PS!Give
      BY <2>1, <2>2, <2>3, GiveRange DEF Merging, Pages
    <2> QED
      BY <1>3, <2>4
  <1>5. ASSUME NEW n \in 1 .. MaxPages, NEW t \in Spans, Split(n, t)
        PROVE  [PS!Next]_<<Ranges, Merging>>
    <2>1. PICK s \in Spans : s = Head(lists[n]) /\ status[s] = "free"
      BY <1>5, ListHead DEF Split, SpanInv
    <2>2. /\ phase = "create" /\ phase' = "idle" /\ status[t] = "none"
          /\ page_id' = [page_id EXCEPT ![t] = page_id[s], ![s] = page_id[s] + want]
          /\ page_size' = [page_size EXCEPT ![t] = want, ![s] = n - want]
          /\ status' = [status EXCEPT ![t] = "out"]
      BY <1>5, <2>1 DEF Split, Rest, HandOut, NewSpan
    <2>3. \A x \in Spans : status'[x] = IF x = t THEN "out" ELSE status[x]
      BY <2>2 DEF SpanInv, SpanTypes
    <2>4. \A x \in Spans \ {s, t} : Pages(x)' = Pages(x)
      BY <2>2 DEF SpanInv, SpanTypes, Pages
    <2>5. PS!Give
      BY <2>1, <2>2, <2>3, <2>4, GiveRange DEF Merging
    <2> QED
      BY <1>3, <2>5
  <1>6. ASSUME NEW k \in HugeSizes, NEW t \in Spans, NEW p \in MmapStarts, CreateHuge(k, t, p)
        PROVE  [PS!Next]_<<Ranges, Merging>>
    <2>1. /\ phase = "idle" /\ phase' = "idle" /\ status[t] = "none"
          /\ page_id' = [page_id EXCEPT ![t] = p]
          /\ page_size' = [page_size EXCEPT ![t] = k]
          /\ status' = [status EXCEPT ![t] = "out"]
      BY <1>6 DEF CreateHuge, NewSpan, lockVars
    <2>2. \A x \in Spans : status'[x] = IF x = t THEN "out" ELSE status[x]
      BY <2>1 DEF SpanInv, SpanTypes
    <2>3. \A x \in Spans \ {t} : Pages(x)' = Pages(x)
      BY <2>1 DEF SpanInv, SpanTypes, Pages
    <2>4. PS!Give
      BY <2>1, <2>2, <2>3, GiveRange DEF Merging
    <2> QED
      BY <1>3, <2>4
  <1>7. ASSUME NEW t \in Spans, SystemAlloc(t)
        PROVE  [PS!Next]_<<Ranges, Merging>>
    <2>1. /\ phase' = phase /\ status[t] = "none"
          /\ page_id' = [page_id EXCEPT ![t] = ptr["pc"]]
          /\ page_size' = [page_size EXCEPT ![t] = MaxPages]
          /\ status' = [status EXCEPT ![t] = "free"]
      BY <1>7 DEF SystemAlloc, NewSpan, lockVars
    <2>2. \A x \in Spans : status'[x] = IF x = t THEN "free" ELSE status[x]
      BY <2>1 DEF SpanInv, SpanTypes
    <2>3. \A x \in Spans \ {t} : Pages(x)' = Pages(x)
      BY <2>1 DEF SpanInv, SpanTypes, Pages
    <2> QED
      BY <1>1, <2>1, <2>2, <2>3, SameRanges DEF Merging
  <1>8. ASSUME NEW s \in Spans, Recover(s)
        PROVE  [PS!Next]_<<Ranges, Merging>>
    <2>1. /\ phase = "idle" /\ status[s] = "out" /\ UNCHANGED <<page_id, page_size>>
          /\ status' = [status EXCEPT ![s] = "none"] \/ status' = [status EXCEPT ![s] = "merging"]
      BY <1>8 DEF Recover
    <2>2. status'[s] # "out" /\ \A x \in Spans \ {s} : status'[x] = status[x]
      BY <2>1 DEF SpanInv, SpanTypes
    <2>3. PS!TakeBack
      BY <2>1, <2>2, TakeBackRange DEF Merging
    <2> QED
      BY <1>3, <2>3
  <1>9. CASE MergeLeft \/ MergeRight
    <2>1. PICK p \in DOMAIN map :
            /\ (phase = "left" /\ p = page_id[cur] - 1)
                 \/ (phase = "right" /\ p = page_id[cur] + page_size[cur])
            /\ Fits(p) /\ status' = [status EXCEPT ![map[p]] = "none"]
      BY <1>9 DEF MergeLeft, MergeRight, Fits
    <2>2. PICK c \in Spans, s \in Spans :
            /\ c = cur /\ s = map[p] /\ s # c /\ status[c] = "merging"
            /\ status[s] = "free"
      BY <2>1, MergesFree
    <2>3. /\ phase' = phase
          /\ \A x \in Spans : status'[x] = IF x = s THEN "none" ELSE status[x]
      BY <1>9, <2>1, <2>2 DEF MergeLeft, MergeRight, lockVars, SpanInv, SpanTypes
    <2>4. \A x \in Spans \ {c} : page_id'[x] = page_id[x] /\ page_size'[x] = page_size[x]
      BY <1>9, <2>2 DEF MergeLeft, MergeRight, SpanInv, SpanTypes
    <2>5. \A x \in Spans : status[x] = "out" => Pages(x)' = Pages(x)
      BY <2>2, <2>4 DEF Pages
    <2> QED
      BY <1>1, <2>2, <2>3, <2>5, SameRanges DEF Merging
  <1>10. CASE LeftDone
    <2>1. \A x \in Spans : Pages(x)' = Pages(x)
      BY <1>10 DEF LeftDone, Pages
    <2> QED
      BY <1>1, <1>10, <2>1, SameRanges DEF Merging, LeftDone
  <1>11. CASE Recovered
    <2>1. PICK c \in Spans : c = cur /\ status[c] = "merging"
      BY <1>11, PageCacheAssumption DEF Recovered, SpanInv, LockInv, SpanTypes
    <2>2. /\ phase = "right" /\ phase' = "idle" /\ UNCHANGED <<page_id, page_size>>
          /\ status' = [status EXCEPT ![c] = "free"]
      BY <1>11, <2>1 DEF Recovered
    <2>3. \A x \in Spans : status'[x] = IF x = c THEN "free" ELSE status[x]
      BY <2>2 DEF SpanInv, SpanTypes
    <2>4. Ranges' = Ranges
      BY <2>1, <2>2, <2>3, SameRanges DEF Pages
    <2>5. PS!PutAway
      BY <2>2, <2>4 DEF PS!PutAway, Ranges
    <2> QED
      BY <1>3, <2>5
  <1>12. ASSUME NEW k \in CentralSizes, Create("central", k)
         PROVE  [PS!Next]_<<Ranges, Merging>>
    <2>1. \A x \in Spans : Pages(x)' = Pages(x)
      BY <1>12 DEF Create, Pages
    <2> QED
      BY <1>1, <1>12, <2>1, SameRanges DEF Merging, Create
  <1>13. CASE \/ SystemAllocPtr \/ SystemAllocTop
              \/ TcAllocPtr \/ TcAllocTop \/ TcAlloc \/ UNCHANGED vars
    BY <1>2, <1>13 DEF SystemAllocPtr, SystemAllocTop, TcAllocPtr, TcAllocTop, TcAlloc,
                       lockVars, vars
  <1> QED
    BY <1>4, <1>5, <1>6, <1>7, <1>8, <1>9, <1>10, <1>11, <1>12, <1>13
    DEF Next, CreateNext, RecoverNext

LEMMA InitService == Init => PS!Init
PROOF
  <1> SUFFICES ASSUME Init PROVE PS!Init
    OBVIOUS
  <1>1. Ranges = {} /\ ~Merging
    BY DEF Init, Ranges, Merging
  <1> QED
    BY <1>1 DEF PS!Init, Ranges, Merging

(* A race for the break leaves SpanInv' open, and its step is one that       *)
(* hands nothing out.                                                        *)
LEMMA RacingStep ==
  ASSUME HeapTypes, SpanInv, [Next]_vars, raced' # raced
  PROVE  Ranges' = Ranges /\ Merging' = Merging
PROOF
  <1>1. CASE TcAlloc
    <2>1. UNCHANGED <<page_id, page_size, status, phase>>
      BY <1>1 DEF TcAlloc, lockVars
    <2>2. \A x \in Spans : Pages(x)' = Pages(x)
      BY <2>1 DEF Pages
    <2> QED
      BY <2>1, <2>2, SameRanges DEF Merging
  <1>2. ASSUME NEW t \in Spans, SystemAlloc(t)
        PROVE  Ranges' = Ranges /\ Merging' = Merging
    <2>1. /\ phase' = phase /\ status[t] = "none"
          /\ page_id' = [page_id EXCEPT ![t] = ptr["pc"]]
          /\ page_size' = [page_size EXCEPT ![t] = MaxPages]
          /\ status' = [status EXCEPT ![t] = "free"]
      BY <1>2 DEF SystemAlloc, NewSpan, lockVars
    <2>2. \A x \in Spans : status'[x] = IF x = t THEN "free" ELSE status[x]
      BY <2>1 DEF SpanInv, SpanTypes
    <2>3. \A x \in Spans \ {t} : Pages(x)' = Pages(x)
      BY <2>1 DEF SpanInv, SpanTypes, Pages
    <2> QED
      BY <2>1, <2>2, <2>3, SameRanges DEF Merging
  <1>3. ASSUME ~TcAlloc, \A t \in Spans : ~SystemAlloc(t)
        PROVE  raced' = raced
    BY <1>3 DEF Next, CreateNext, RecoverNext, Create, Exact, Split, HandOut,
                SystemAllocPtr, SystemAllocTop, TcAllocPtr, TcAllocTop, Sbrk, SbrkAgain,
                CreateHuge, Recover, MergeLeft, LeftDone, MergeRight, Recovered, osVars, vars
  <1> QED
    BY <1>1, <1>2, <1>3

(* Until a race for the break the page cache implements PageService: a range *)
(* handed out is apart from all others and leaves only when its user returns *)
(* it.                                                                       *)
THEOREM PageCacheImplementsService ==
  ASSUME LargeSizes = {}
  PROVE  Spec => Service
PROOF
  <1> DEFINE svars == <<Ranges, Merging>>
  <1>1. PageInv /\ PageInv' /\ [Next]_vars => [PS!Next \/ raced]_svars
    <2> SUFFICES ASSUME PageInv, PageInv', [Next]_vars, ~raced PROVE [PS!Next]_svars
      OBVIOUS
    <2>1. HeapTypes /\ Settled /\ SpanInv
      BY DEF PageInv, HeapInv
    <2>2. CASE raced' # raced
      BY <2>1, <2>2, RacingStep
    <2>3. CASE raced' = raced
      <3>1. SpanInv'
        BY <2>3 DEF PageInv
      <3> QED
        BY <2>1, <3>1, ServiceStep
    <2> QED
      BY <2>2, <2>3
  <1> QED
    BY <1>1, PageInvariant, InitService, PTL
    DEF Spec, Service, PS!svars, Ranges, Merging
-----------------------------------------------------------------------------
(* A span that is out is not touched by the work the lock protects. *)
LEMMA OutStep ==
  ASSUME HeapTypes, Settled, SpanInv, [Next]_vars, phase # "idle", NEW x \in Spans, status[x] = "out"
  PROVE  status'[x] = "out" /\ page_id'[x] = page_id[x] /\ page_size'[x] = page_size[x]
PROOF
  <1> USE DEF SpanInv
  <1>1. CASE Exact
    <2>1. status[Head(lists[want])] = "free"
      BY <1>1, ListHead DEF Exact, SpanTypes
    <2> QED
      BY <1>1, <2>1 DEF Exact, SpanTypes
  <1>2. ASSUME NEW n \in 1 .. MaxPages, NEW t \in Spans, Split(n, t)
        PROVE  status'[x] = "out" /\ page_id'[x] = page_id[x] /\ page_size'[x] = page_size[x]
    <2>1. PICK s \in Spans : s = Head(lists[n]) /\ status[s] = "free"
      BY <1>2, ListHead DEF Split
    <2>2. /\ status[t] = "none"
          /\ page_id' = [page_id EXCEPT ![t] = page_id[s], ![s] = page_id[s] + want]
          /\ page_size' = [page_size EXCEPT ![t] = want, ![s] = n - want]
          /\ status' = [status EXCEPT ![t] = "out"]
      BY <1>2, <2>1 DEF Split, Rest, NewSpan
    <2> QED
      BY <2>1, <2>2 DEF SpanTypes
  <1>3. ASSUME NEW t \in Spans, SystemAlloc(t)
        PROVE  status'[x] = "out" /\ page_id'[x] = page_id[x] /\ page_size'[x] = page_size[x]
    BY <1>3 DEF SystemAlloc, NewSpan, SpanTypes
  <1>4. CASE MergeLeft \/ MergeRight
    <2>1. PICK p \in DOMAIN map :
            /\ (phase = "left" /\ p = page_id[cur] - 1)
                 \/ (phase = "right" /\ p = page_id[cur] + page_size[cur])
            /\ Fits(p) /\ status' = [status EXCEPT ![map[p]] = "none"]
      BY <1>4 DEF MergeLeft, MergeRight, Fits
    <2>2. /\ cur \in Spans /\ status[cur] = "merging"
          /\ map[p] \in Spans /\ status[map[p]] = "free"
      BY <2>1, MergesFree
    <2> QED
      BY <1>4, <2>1, <2>2 DEF MergeLeft, MergeRight, SpanTypes
  <1>5. CASE Recovered
    <2>1. cur \in Spans /\ status[cur] = "merging"
      BY <1>5, PageCacheAssumption DEF Recovered, LockInv, SpanTypes
    <2> QED
      BY <1>5, <2>1 DEF Recovered, SpanTypes
  <1>6. CASE \/ SystemAllocPtr \/ SystemAllocTop \/ TcAllocPtr \/ TcAllocTop \/ TcAlloc
             \/ LeftDone \/ UNCHANGED vars
    BY <1>6 DEF SystemAllocPtr, SystemAllocTop, TcAllocPtr, TcAllocTop, TcAlloc, LeftDone, vars
  <1> QED
    BY <1>1, <1>2, <1>3, <1>4, <1>5, <1>6
    DEF Next, CreateNext, RecoverNext, Create, Recover, CreateHuge

(* Until a race for the break large allocations are the only reason why      *)
(* OutStable fails: without them no merge moves the bounds of a span that    *)
(* somebody has, or frees it.                                                *)
THEOREM HandedOutStable ==
  ASSUME LargeSizes = {}
  PROVE  Spec => OutStable
PROOF
  <1> DEFINE Stable == \A s \in Spans : status[s] = "out" /\ phase # "idle" /\ ~raced =>
       status'[s] = "out" /\ page_id'[s] = page_id[s] /\ page_size'[s] = page_size[s]
  <1>1. PageInv /\ [Next]_vars => [Stable]_vars
    <2> SUFFICES ASSUME PageInv, [Next]_vars,
                        NEW s \in Spans, status[s] = "out", phase # "idle", ~raced
                 PROVE  /\ status'[s] = "out"
                        /\ page_id'[s] = page_id[s] /\ page_size'[s] = page_size[s]
      OBVIOUS
    <2> QED
      BY OutStep DEF PageInv, HeapInv
  <1>2. [][Stable]_vars => OutStable
    BY DEF OutStable
  <1> HIDE DEF Stable
  <1> QED
    BY <1>1, <1>2, PageInvariant, PTL DEF Spec
-----------------------------------------------------------------------------
(* Types hold whatever happens, a race and large allocations included.  For  *)
(* the pages at the ends of a span to be numbers it must not be empty, so    *)
(* the invariant says who is never empty.                                    *)
SizeInv ==
  \A s \in Spans : page_size[s] = 0 =>
    status[s] = "none" /\ s # cur /\ \A n \in 1 .. MaxPages : ~Holds(lists[n], s)

TypeInv == SpanTypes /\ SizeInv /\ (cur # NoSpan <=> phase \in {"left", "right"})

LEMMA TailMembers ==
  ASSUME NEW S, NEW l \in Seq(S), l # <<>>
  PROVE  /\ Head(l) \in S /\ Holds(l, Head(l)) /\ Tail(l) \in Seq(S)
         /\ \A x : Holds(Tail(l), x) => Holds(l, x)
PROOF
  <1>1. /\ Len(l) \in Nat \ {0} /\ DOMAIN l = 1 .. Len(l) /\ Head(l) = l[1] /\ Head(l) \in S
        /\ Tail(l) \in Seq(S) /\ DOMAIN Tail(l) = 1 .. Len(l) - 1
        /\ \A i \in 1 .. Len(l) - 1 : i + 1 \in 1 .. Len(l) /\ Tail(l)[i] = l[i + 1]
    OBVIOUS
  <1> QED
    BY <1>1 DEF Holds

LEMMA ConsMembers ==
  ASSUME NEW S, NEW l \in Seq(S), NEW s \in S
  PROVE  /\ <<s>> \o l \in Seq(S)
         /\ \A x : Holds(<<s>> \o l, x) => Holds(l, x) \/ x = s
PROOF
  <1> DEFINE m == <<s>> \o l
  <1>1. /\ Len(l) \in Nat /\ DOMAIN l = 1 .. Len(l) /\ m \in Seq(S)
        /\ DOMAIN m = 1 .. Len(l) + 1 /\ m[1] = s
        /\ \A i \in 1 .. Len(l) : m[i + 1] = l[i]
    OBVIOUS
  <1> HIDE DEF m
  <1>2. \A i \in 1 .. Len(l) + 1 : i = 1 \/ (i - 1 \in 1 .. Len(l) /\ m[i] = l[i - 1])
    BY <1>1
  <1>3. ASSUME NEW x, Holds(m, x), x # s PROVE Holds(l, x)
    <2>1. PICK i \in 1 .. Len(l) + 1 : m[i] = x
      BY <1>1, <1>3 DEF Holds
    <2>2. i - 1 \in DOMAIN l /\ l[i - 1] = x
      BY <1>1, <1>2, <1>3, <2>1
    <2> QED
      BY <2>2 DEF Holds
  <1> QED
    BY <1>1, <1>3 DEF m

LEMMA UnlinkMembers ==
  ASSUME NEW S, NEW l \in Seq(S), NEW s
  PROVE  /\ Unlink(l, s) \in Seq(S)
         /\ \A x : Holds(Unlink(l, s), x) => Holds(l, x)
PROOF
  <1>1. CASE ~\E i \in DOMAIN l : l[i] = s
    BY <1>1 DEF Unlink
  <1>2. CASE \E i \in DOMAIN l : l[i] = s
    <2> DEFINE k == CHOOSE j \in DOMAIN l : l[j] = s
               n == Len(l)
               a == SubSeq(l, 1, k - 1)
               b == SubSeq(l, k + 1, n)
    <2>1. k \in 1 .. n /\ n \in Nat /\ DOMAIN l = 1 .. n
      BY <1>2
    <2>2. Unlink(l, s) = a \o b
      BY <1>2 DEF Unlink
    <2> HIDE DEF k, n
    <2>3. /\ a \in Seq(S) /\ Len(a) = k - 1 /\ \A i \in 1 .. k - 1 : a[i] = l[i]
      BY <2>1, SubSeqProperties
    <2>4. /\ b \in Seq(S) /\ Len(b) = n - k
          /\ \A i \in 1 .. n - k : b[i] = l[k + 1 + i - 1]
      <3>1. k + 1 \in Int /\ n \in Int /\ \A i \in k + 1 .. n : l[i] \in S
        BY <2>1
      <3>2. /\ b \in Seq(S)
            /\ Len(b) = IF k + 1 <= n THEN n - (k + 1) + 1 ELSE 0
            /\ \A i \in 1 .. n - (k + 1) + 1 : b[i] = l[k + 1 + i - 1]
        BY ONLY <3>1, SubSeqProperties
      <3>3. n - (k + 1) + 1 = n - k
        BY <2>1
      <3> QED
        BY <2>1, <3>2, <3>3
    <2> HIDE DEF a, b
    <2>5. /\ a \o b \in Seq(S) /\ DOMAIN (a \o b) = 1 .. k - 1 + (n - k)
          /\ \A i \in 1 .. k - 1 + (n - k) :
               (a \o b)[i] = IF i <= k - 1 THEN a[i] ELSE b[i - (k - 1)]
      <3>1. /\ a \o b \in Seq(S) /\ Len(a \o b) = Len(a) + Len(b)
            /\ \A i \in 1 .. Len(a) + Len(b) :
                 (a \o b)[i] = IF i <= Len(a) THEN a[i] ELSE b[i - Len(a)]
        BY <2>3, <2>4, ConcatProperties
      <3>2. DOMAIN (a \o b) = 1 .. Len(a \o b)
        BY <3>1
      <3> QED
        BY <2>3, <2>4, <3>1, <3>2
    <2>6. ASSUME NEW i \in 1 .. k - 1 + (n - k)
          PROVE  \E j \in 1 .. n : (a \o b)[i] = l[j]
      <3>1. CASE i <= k - 1
        BY <2>1, <2>3, <2>5, <3>1
      <3>2. CASE ~(i <= k - 1)
        <4>1. i - (k - 1) \in 1 .. n - k /\ k + 1 + (i - (k - 1)) - 1 \in 1 .. n
          BY <2>1, <3>2
        <4>2. (a \o b)[i] = l[k + 1 + (i - (k - 1)) - 1]
          BY <2>4, <2>5, <3>2, <4>1
        <4> QED
          BY <4>1, <4>2
      <3> QED
        BY <3>1, <3>2
    <2> QED
      BY <2>1, <2>2, <2>5, <2>6 DEF Holds
  <1> QED
    BY <1>1, <1>2

(* What the lists hold after a step, for each of the things a step does.     *)
LEMMA ListTypes ==
  ASSUME SpanTypes, NEW n, NEW s \in Spans
  PROVE  /\ PushFront(lists, n, s) \in [1 .. MaxPages -> Seq(Spans)]
         /\ \A m \in 1 .. MaxPages, x \in Spans :
              Holds(PushFront(lists, n, s)[m], x) => Holds(lists[m], x) \/ x = s
         /\ Erase(n, s) \in [1 .. MaxPages -> Seq(Spans)]
         /\ \A m \in 1 .. MaxPages, x \in Spans : Holds(Erase(n, s)[m], x) => Holds(lists[m], x)
PROOF
  <1>1. \A m \in 1 .. MaxPages : lists[m] \in Seq(Spans)
    BY DEF SpanTypes
  <1>2. \A m \in 1 .. MaxPages :
          /\ <<s>> \o lists[m] \in Seq(Spans)
          /\ \A x \in Spans : Holds(<<s>> \o lists[m], x) => Holds(lists[m], x) \/ x = s
    BY <1>1, ConsMembers
  <1>3. \A m \in 1 .. MaxPages :
          /\ Unlink(lists[m], s) \in Seq(Spans)
          /\ \A x \in Spans : Holds(Unlink(lists[m], s), x) => Holds(lists[m], x)
    BY <1>1, UnlinkMembers
  <1>4. /\ PushFront(lists, n, s) =
             [m \in 1 .. MaxPages |-> IF m = n THEN <<s>> \o lists[m] ELSE lists[m]]
        /\ Erase(n, s) =
             [m \in 1 .. MaxPages |-> IF m = n THEN Unlink(lists[m], s) ELSE lists[m]]
    BY DEF PushFront, Erase, SpanTypes
  <1> QED
    BY <1>1, <1>2, <1>3, <1>4

LEMMA MapTypes ==
  ASSUME SpanTypes, NEW s \in Spans, NEW ps \in SUBSET Nat, map' = MapTo(ps, s)
  PROVE  DOMAIN map' \subseteq Nat /\ \A p \in DOMAIN map' : map'[p] \in Spans
  BY DEF MapTo, SpanTypes

LEMMA CreateTypes ==
  ASSUME HeapTypes, TypeInv, CreateNext
  PROVE  TypeInv'
PROOF
  <1> USE DEF TypeInv
  <1>0. MaxPages \in Nat \ {0}
    BY PageCacheAssumption
  <1>1. ASSUME NEW k \in CentralSizes \cup LargeSizes, NEW kind \in {"central", "large"},
               Create(kind, k)
        PROVE  TypeInv'
    <2>1. k \in 1 .. MaxPages
      BY PageCacheAssumption
    <2> QED
      BY <1>1, <2>1 DEF Create, SpanTypes, SizeInv
  <1>2. CASE Exact
    <2>1. PICK s : s = Head(lists[want])
      OBVIOUS
    <2>2. /\ s \in Spans /\ Holds(lists[want], s) /\ Tail(lists[want]) \in Seq(Spans)
          /\ \A x : Holds(Tail(lists[want]), x) => Holds(lists[want], x)
      <3>1. want \in 1 .. MaxPages /\ lists[want] \in Seq(Spans) /\ lists[want] # <<>>
        BY <1>2 DEF Exact, SpanTypes
      <3> QED
        BY <2>1, <3>1, TailMembers
    <2>3. /\ phase = "create" /\ phase' = "idle" /\ want' = 1 /\ by' = "central"
          /\ lists' = PopFront(want) /\ status' = [status EXCEPT ![s] = "out"]
          /\ map' = MapTo(Pages(s), s)
          /\ is_use' = [is_use EXCEPT ![s] = (by = "central")]
          /\ UNCHANGED <<page_id, page_size, cur>>
      BY <1>2, <2>1 DEF Exact, HandOut, MapAll
    <2>4. Pages(s) \in SUBSET Nat
      BY <2>2 DEF Pages, SpanTypes
    <2>5. DOMAIN map' \subseteq Nat /\ \A p \in DOMAIN map' : map'[p] \in Spans
      BY <2>2, <2>3, <2>4, MapTypes
    <2>6. /\ lists' \in [1 .. MaxPages -> Seq(Spans)]
          /\ \A m \in 1 .. MaxPages, x \in Spans : Holds(lists'[m], x) => Holds(lists[m], x)
      BY <2>2, <2>3 DEF PopFront, SpanTypes
    <2>7. is_use' \in [Spans -> BOOLEAN] /\ status' \in [Spans -> SpanStates]
      BY <2>2, <2>3 DEF SpanTypes, SpanStates
    <2>8. SpanTypes'
      BY <1>0, <2>3, <2>5, <2>6, <2>7 DEF SpanTypes
    <2>9. SizeInv'
      BY <2>2, <2>3, <2>6 DEF SizeInv, SpanTypes
    <2> QED
      BY <2>3, <2>8, <2>9
  <1>3. ASSUME NEW n \in 1 .. MaxPages, NEW t \in Spans, Split(n, t) PROVE TypeInv'
    <2>1. PICK s : s = Head(lists[n])
      OBVIOUS
    <2>2. /\ s \in Spans /\ Holds(lists[n], s) /\ Tail(lists[n]) \in Seq(Spans)
          /\ \A x : Holds(Tail(lists[n]), x) => Holds(lists[n], x)
      <3>1. lists[n] \in Seq(Spans) /\ lists[n] # <<>>
        BY <1>3 DEF Split, SpanTypes
      <3> QED
        BY <2>1, <3>1, TailMembers
    <2>3. PICK rest \in 1 .. MaxPages, first \in Nat, k \in 1 .. MaxPages :
            rest = n - want /\ first = page_id[s] /\ k = want
      <3>1. n > want /\ want \in 1 .. MaxPages /\ page_id[s] \in Nat
        BY <1>3, <2>2 DEF Split, SpanTypes
      <3>2. n - want \in 1 .. MaxPages
        BY <1>0, <3>1
      <3> QED
        BY <3>1, <3>2
    <2>4. /\ phase = "create" /\ phase' = "idle" /\ want' = 1 /\ by' = "central"
          /\ page_id' = [page_id EXCEPT ![t] = first, ![s] = first + k]
          /\ page_size' = [page_size EXCEPT ![t] = k, ![s] = rest]
          /\ status' = [status EXCEPT ![t] = "out"]
          /\ is_use' = [is_use EXCEPT ![t] = (by = "central")]
          /\ lists' = [[lists EXCEPT ![n] = Tail(@)] EXCEPT ![rest] = <<s>> \o @]
          /\ UNCHANGED cur
      BY <1>3, <2>1, <2>3 DEF Split, Rest, HandOut, PushFront, PopFront
    <2>5. map' = [p \in DOMAIN map \cup (first .. first + k - 1)
                           \cup {first + k, first + n - 1} |->
                       IF p \in first .. first + k - 1 THEN t
                       ELSE IF p \in {first + k, first + n - 1} THEN s
                       ELSE map[p]]
      BY <1>3, <2>1, <2>3 DEF Split
    <2>6. DOMAIN map' \subseteq Nat /\ \A p \in DOMAIN map' : map'[p] \in Spans
      <3>1. first .. first + k - 1 \subseteq Nat /\ {first + k, first + n - 1} \subseteq Nat
        BY <1>0, <2>3
      <3> QED
        BY <2>2, <2>5, <3>1 DEF SpanTypes
    <2>7. \A m \in 1 .. MaxPages : lists[m] \in Seq(Spans)
      BY DEF SpanTypes
    <2>8. /\ <<s>> \o lists[rest] \in Seq(Spans)
          /\ \A x : Holds(<<s>> \o lists[rest], x) => Holds(lists[rest], x) \/ x = s
      BY <2>2, <2>7, ConsMembers
    <2>9. rest # n
      BY <2>3
    <2>10. \A m \in 1 .. MaxPages : lists'[m] =
             IF m = rest THEN <<s>> \o lists[rest] ELSE IF m = n THEN Tail(lists[n]) ELSE lists[m]
      BY <2>4, <2>9 DEF SpanTypes
    <2>11. /\ lists' \in [1 .. MaxPages -> Seq(Spans)]
           /\ \A m \in 1 .. MaxPages, x \in Spans :
                Holds(lists'[m], x) => Holds(lists[m], x) \/ x = s
      <3>1. \A m \in 1 .. MaxPages : lists'[m] \in Seq(Spans)
        BY <2>2, <2>7, <2>8, <2>10
      <3>2. lists' = [m \in 1 .. MaxPages |-> lists'[m]]
        BY <2>4 DEF SpanTypes
      <3> QED
        BY <2>2, <2>8, <2>10, <3>1, <3>2
    <2>12. /\ page_id' \in [Spans -> Nat] /\ page_size' \in [Spans -> Nat]
           /\ is_use' \in [Spans -> BOOLEAN] /\ status' \in [Spans -> SpanStates]
      <3>1. first \in Nat /\ first + k \in Nat /\ k \in Nat /\ rest \in Nat
        BY <1>0, <2>3
      <3>2. page_id' \in [Spans -> Nat] /\ page_size' \in [Spans -> Nat]
        BY <2>4, <3>1 DEF SpanTypes
      <3>3. is_use' \in [Spans -> BOOLEAN]
        BY <2>4 DEF SpanTypes
      <3>4. status' \in [Spans -> SpanStates]
        BY <2>4 DEF SpanTypes, SpanStates
      <3> QED
        BY <3>2, <3>3, <3>4
    <2>13. SpanTypes'
      <3>1. /\ want' \in 1 .. MaxPages /\ phase' \in {"idle", "create", "left", "right"}
            /\ by' \in {"central", "large"} /\ cur' \in Spans \cup {NoSpan}
        BY <1>0, <2>4 DEF SpanTypes
      <3> QED
        BY ONLY <2>6, <2>11, <2>12, <3>1 DEF SpanTypes
    <2>14. SizeInv'
      <3>1. \A x \in Spans : page_size'[x] = 0 => x # t /\ x # s /\ page_size[x] = 0
        <4>1. k # 0 /\ rest # 0
          BY <2>3
        <4>2. \A x \in Spans : page_size'[x] =
                IF x = s THEN rest ELSE IF x = t THEN k ELSE page_size[x]
          BY <2>2, <2>4 DEF SpanTypes
        <4> QED
          BY <4>1, <4>2
      <3>2. \A x \in Spans : x # t => status'[x] = status[x]
        BY <2>4 DEF SpanTypes
      <3> QED
        BY <2>4, <2>11, <3>1, <3>2 DEF SizeInv
    <2> QED
      BY <2>4, <2>13, <2>14
  <1>4. CASE SystemAllocPtr \/ SystemAllocTop
    BY <1>4 DEF SystemAllocPtr, SystemAllocTop, lockVars, SpanTypes, SizeInv
  <1>5. ASSUME NEW t \in Spans, SystemAlloc(t) PROVE TypeInv'
    <2>1. /\ page_id' = [page_id EXCEPT ![t] = ptr["pc"]]
          /\ page_size' = [page_size EXCEPT ![t] = MaxPages]
          /\ is_use' = [is_use EXCEPT ![t] = FALSE]
          /\ status' = [status EXCEPT ![t] = "free"]
          /\ lists' = PushFront(lists, MaxPages, t)
          /\ UNCHANGED <<map, phase, want, by, cur>>
      BY <1>5 DEF SystemAlloc, lockVars
    <2>2. ptr["pc"] \in Nat
      BY PageCacheAssumption DEF HeapTypes
    <2>3. /\ lists' \in [1 .. MaxPages -> Seq(Spans)]
          /\ \A m \in 1 .. MaxPages, x \in Spans : Holds(lists'[m], x) => Holds(lists[m], x) \/ x = t
      BY <2>1, ListTypes
    <2>4. /\ page_id' \in [Spans -> Nat] /\ page_size' \in [Spans -> Nat]
          /\ is_use' \in [Spans -> BOOLEAN] /\ status' \in [Spans -> SpanStates]
      BY <1>0, <2>1, <2>2 DEF SpanTypes, SpanStates
    <2>5. SpanTypes'
      BY <2>1, <2>3, <2>4 DEF SpanTypes
    <2>6. \A x \in Spans : page_size'[x] = 0 =>
            x # t /\ page_size[x] = 0 /\ status'[x] = status[x]
      BY <1>0, <2>1 DEF SpanTypes
    <2>7. SizeInv'
      BY <2>1, <2>3, <2>6 DEF SizeInv
    <2> QED
      BY <2>1, <2>5, <2>7
  <1>6. ASSUME NEW k \in HugeSizes, NEW t \in Spans, NEW p \in MmapStarts, CreateHuge(k, t, p)
        PROVE  TypeInv'
    <2>1. k \in Nat /\ k > 0 /\ p \in Nat /\ {p, p + k - 1} \in SUBSET Nat
      BY PageCacheAssumption
    <2>2. /\ page_id' = [page_id EXCEPT ![t] = p]
          /\ page_size' = [page_size EXCEPT ![t] = k]
          /\ is_use' = [is_use EXCEPT ![t] = FALSE]
          /\ status' = [status EXCEPT ![t] = "out"]
          /\ map' = MapTo({p, p + k - 1}, t)
          /\ UNCHANGED <<lists, phase, want, by, cur>>
      BY <1>6 DEF CreateHuge, lockVars
    <2>3. DOMAIN map' \subseteq Nat /\ \A q \in DOMAIN map' : map'[q] \in Spans
      BY <2>1, <2>2, MapTypes
    <2>4. /\ page_id' \in [Spans -> Nat] /\ page_size' \in [Spans -> Nat]
          /\ is_use' \in [Spans -> BOOLEAN] /\ status' \in [Spans -> SpanStates]
      BY <2>1, <2>2 DEF SpanTypes, SpanStates
    <2>5. SpanTypes'
      BY <2>2, <2>3, <2>4 DEF SpanTypes
    <2>6. \A x \in Spans : page_size'[x] = 0 =>
            x # t /\ page_size[x] = 0 /\ status'[x] = status[x]
      BY <2>1, <2>2 DEF SpanTypes
    <2>7. SizeInv'
      BY <2>2, <2>6 DEF SizeInv
    <2> QED
      BY <2>2, <2>5, <2>7
  <1> QED
    BY <1>1, <1>2, <1>3, <1>4, <1>5, <1>6 DEF CreateNext

LEMMA RecoverTypes ==
  ASSUME TypeInv, RecoverNext
  PROVE  TypeInv'
PROOF
  <1> USE DEF TypeInv
  <1>1. ASSUME NEW s \in Spans, Recover(s) PROVE TypeInv'
    <2>1. /\ phase = "idle" /\ status[s] = "out" /\ cur = NoSpan
          /\ UNCHANGED <<page_id, page_size, is_use, lists, map, want, by>>
          /\ \/ status' = [status EXCEPT ![s] = "none"] /\ phase' = "idle" /\ cur' = NoSpan
             \/ status' = [status EXCEPT ![s] = "merging"] /\ phase' = "left" /\ cur' = s
      BY <1>1 DEF Recover, lockVars
    <2>2. status' \in [Spans -> SpanStates] /\ \A x \in Spans \ {s} : status'[x] = status[x]
      BY <2>1 DEF SpanTypes, SpanStates
    <2>3. SpanTypes'
      BY <2>1, <2>2 DEF SpanTypes
    <2>4. SizeInv'
      BY <2>1, <2>2 DEF SizeInv, SpanTypes
    <2> QED
      BY <2>1, <2>3, <2>4, PageCacheAssumption
  <1>2. CASE MergeLeft \/ MergeRight
    <2>1. PICK p \in DOMAIN map :
            /\ lists' = Erase(page_size[map[p]], map[p])
            /\ status' = [status EXCEPT ![map[p]] = "none"]
            /\ page_id' \in {page_id, [page_id EXCEPT ![cur] = page_id[map[p]]]}
            /\ page_size' = [page_size EXCEPT ![cur] = page_size[cur] + page_size[map[p]]]
            /\ UNCHANGED <<is_use, map, phase, want, by, cur>> /\ phase \in {"left", "right"}
      BY <1>2 DEF MergeLeft, MergeRight, Fits, Merged, ListOf, lockVars
    <2>2. PICK s \in Spans, c \in Spans : s = map[p] /\ c = cur
      BY <2>1, PageCacheAssumption DEF SpanTypes
    <2>3. /\ lists' \in [1 .. MaxPages -> Seq(Spans)]
          /\ \A m \in 1 .. MaxPages, x \in Spans : Holds(lists'[m], x) => Holds(lists[m], x)
      BY <2>1, <2>2, ListTypes
    <2>4. /\ page_id' \in [Spans -> Nat] /\ page_size' \in [Spans -> Nat]
          /\ status' \in [Spans -> SpanStates]
      BY <2>1, <2>2 DEF SpanTypes, SpanStates
    <2>5. SpanTypes'
      BY <2>1, <2>3, <2>4 DEF SpanTypes
    <2>6. \A x \in Spans : /\ page_size'[x] = 0 => page_size[x] = 0
                           /\ status'[x] # "none" => status[x] # "none"
      BY <2>1, <2>2 DEF SpanTypes
    <2>7. SizeInv'
      BY <2>1, <2>3, <2>6 DEF SizeInv
    <2> QED
      BY <2>1, <2>5, <2>7
  <1>3. CASE LeftDone
    BY <1>3 DEF LeftDone, SpanTypes, SizeInv
  <1>4. CASE Recovered
    <2>1. PICK c \in Spans : c = cur
      BY <1>4, PageCacheAssumption DEF Recovered, SpanTypes
    <2>2. /\ lists' = PushFront(lists, page_size[c], c)
          /\ is_use' = [is_use EXCEPT ![c] = FALSE]
          /\ status' = [status EXCEPT ![c] = "free"]
          /\ map' = MapTo({page_id[c], page_id[c] + page_size[c] - 1}, c)
          /\ phase' = "idle" /\ cur' = NoSpan
          /\ UNCHANGED <<page_id, page_size, want, by>>
      BY <1>4, <2>1 DEF Recovered, MapEnds
    <2>3. page_size[c] # 0 /\ {page_id[c], page_id[c] + page_size[c] - 1} \in SUBSET Nat
      BY <2>1 DEF SizeInv, SpanTypes
    <2>4. DOMAIN map' \subseteq Nat /\ \A p \in DOMAIN map' : map'[p] \in Spans
      BY <2>2, <2>3, MapTypes
    <2>5. /\ lists' \in [1 .. MaxPages -> Seq(Spans)]
          /\ \A m \in 1 .. MaxPages, x \in Spans : Holds(lists'[m], x) => Holds(lists[m], x) \/ x = c
      BY <2>2, ListTypes
    <2>6. is_use' \in [Spans -> BOOLEAN] /\ status' \in [Spans -> SpanStates]
      BY <2>2 DEF SpanTypes, SpanStates
    <2>7. SpanTypes'
      BY <2>2, <2>4, <2>5, <2>6 DEF SpanTypes
    <2>8. SizeInv'
      BY <2>2, <2>3, <2>5, PageCacheAssumption DEF SizeInv, SpanTypes
    <2> QED
      BY <2>2, <2>7, <2>8
  <1> QED
    BY <1>1, <1>2, <1>3, <1>4 DEF RecoverNext

(* Every variable of the page cache keeps its type, whatever is allocated    *)
(* and given back and whatever the other user of the heap does.              *)
THEOREM PageCacheTypes == Spec => []TypeOK
PROOF
  <1>1. Init => TypeInv
    <2> SUFFICES ASSUME Init PROVE TypeInv
      OBVIOUS
    <2>1. SpanTypes
      BY InitSpans DEF SpanInv
    <2>2. /\ \A s \in Spans : status[s] = "none" /\ s # cur
          /\ \A n \in 1 .. MaxPages : lists[n] = <<>>
          /\ cur = NoSpan /\ phase = "idle"
      BY PageCacheAssumption DEF Init
    <2>3. SizeInv
      BY <2>2 DEF SizeInv, Holds
    <2> QED
      BY <2>1, <2>2, <2>3 DEF TypeInv
  <1>2. HeapTypes /\ TypeInv /\ [Next]_vars => TypeInv'
    <2>1. CASE TcAllocPtr \/ TcAllocTop \/ TcAlloc \/ UNCHANGED vars
      BY <2>1 DEF TcAllocPtr, TcAllocTop, TcAlloc, lockVars, vars, TypeInv, SpanTypes, SizeInv
    <2> QED
      BY <2>1, CreateTypes, RecoverTypes DEF Next
  <1>3. HeapTypes /\ HeapInv /\ [Next]_vars => HeapTypes' /\ HeapInv'
    BY HeapStep
  <1>4. HeapTypes /\ TypeInv => TypeOK
    BY DEF HeapTypes, TypeInv, SpanTypes, TypeOK
  <1> QED
    BY InitHeap, <1>1, <1>2, <1>3, <1>4, PTL DEF Spec
=============================================================================
