------------------------- MODULE CentralCacheProofs -------------------------
(***************************************************************************)
(* While nothing is broken, the use counts are exact, every block is in one *)
(* place and the thread caches are bounded: for every number of threads,    *)
(* spans and pages, and every table of size classes that is sound.          *)
(*                                                                          *)
(* The lists of blocks are kept in the memory they administer, and the      *)
(* properties speak of them by following pointers (Nth, Chain).  The        *)
(* invariant does not: it says that there is a function place from the      *)
(* addresses to the lists (and to the users), and a function rank that      *)
(* counts the blocks from each one to the end of its list, with which the   *)
(* pointers agree.  ListChain leads from there to the chains.               *)
(***************************************************************************)
EXTENDS CentralCache, FiniteSetTheorems, TLAPS

(* Where a block can be. *)
None == <<"none", 0, 0>>
User == <<"user", 0, 0>>
Cache(t, i) == <<"cache", t, i>>
Return(t) == <<"return", t, 0>>
Free(s) == <<"free", s, 0>>

ListPlaces ==
  {Cache(t, i) : t \in Threads, i \in Lists} \cup {Return(t) : t \in Threads}
    \cup {Free(s) : s \in Spans}
HeldPlaces ==
  {User} \cup {Cache(t, i) : t \in Threads, i \in Lists} \cup {Return(t) : t \in Threads}
Places == {None, User} \cup ListPlaces

PlaceType(place, rank) ==
  /\ place \in [Addresses -> Places]
  /\ rank \in [Addresses -> Nat \ {0}]

(* A block in a list points to the block behind it, the last one to none. *)
Linked(place, rank) ==
  \A b \in Addresses : place[b] \in ListPlaces =>
    \/ rank[b] = 1 /\ next[b] = 0
    \/ /\ rank[b] > 1 /\ next[b] \in Addresses
       /\ place[next[b]] = place[b] /\ rank[next[b]] = rank[b] - 1

(* A rank is that of one block of a list only. *)
Ranked(place, rank) ==
  \A b, c \in Addresses :
    place[b] \in ListPlaces /\ place[b] = place[c] /\ rank[b] = rank[c] => b = c

(* a is the first block of list x, or 0 when the list is empty. *)
Begins(place, rank, x, a) ==
  \/ a = 0 /\ \A b \in Addresses : place[b] # x
  \/ /\ a \in Addresses /\ place[a] = x
     /\ \A b \in Addresses : place[b] = x => rank[b] <= rank[a]

(* The case in which _freelist_header is not the head of a free list:        *)
(* recover_blocks_to_spans has set it to the next block it returns, of the   *)
(* same span. The block is linked into its span in the next step.            *)
Aliased(place, s) ==
  \E t \in Threads :
    /\ call[t].at = "loop" /\ call[t].start \in BlocksOf(s)
    /\ span[s].header = call[t].start
    /\ \A b \in Addresses : place[b] # Free(s)

Heads(place, rank) ==
  /\ \A t \in Threads, i \in Lists : Begins(place, rank, Cache(t, i), tc[t][i].header)
  /\ \A t \in Threads : Begins(place, rank, Return(t), call[t].start)
  /\ \A s \in Spans : Begins(place, rank, Free(s), span[s].header) \/ Aliased(place, s)
  /\ used = {b \in Addresses : place[b] = User}

(* A block that is anywhere is a block of a span, a free one of its own; a   *)
(* thread keeps it in the list of its size.                                  *)
Owned(place) ==
  \A b \in Addresses :
    /\ place[b] # None => \E s \in Spans : b \in BlocksOf(s)
    /\ \A s \in Spans : place[b] = Free(s) => b \in BlocksOf(s)
    /\ \A s \in Spans : b \in BlocksOf(s) =>
         \A t \in Threads :
           /\ \A i \in Lists : place[b] = Cache(t, i) => Index(span[s].block) = i
           /\ place[b] = Return(t) => span[s].block = call[t].align

PagesDisjoint ==
  \A s, u \in Given : s # u => PagesOf(s) \cap PagesOf(u) = {}

HeldOf(place, s) == {b \in BlocksOf(s) : place[b] \in HeldPlaces}
(* What UseCountExact says, in terms of place. *)
Counted(place) == \A s \in Spans : span[s].use = Cardinality(HeldOf(place, s))

Aligns == {RoundUp(n) : n \in Requests}
CallType == [at : {"idle", "alloc", "span", "insert", "recover", "loop", "giveback", "crashed"},
             align : Nat, count : Nat, span : Spans \cup {NoSpan}, start : Addresses \cup {0}]
SpanType == [page : Nat, block : Nat, header : Addresses \cup {0}, use : Nat]
CacheType == [header : Addresses \cup {0}, apply : Nat, size : Nat]

Types ==
  /\ next \in [Addresses -> Addresses \cup {0}]
  /\ span \in [Spans -> SpanType]
  /\ \A s \in Spans : \/ span[s].page \in Pages /\ span[s].block \in Aligns
                      \/ span[s] = NewSpan
  /\ lists \in [Lists -> Seq(Spans)]
  /\ tc \in [Threads -> [Lists -> CacheType]]
  /\ call \in [Threads -> CallType]

(* The rank of the first block is the length of the list. *)
LenFrom(rank, a) == IF a = 0 THEN 0 ELSE rank[a]
Sized(rank) ==
  \A t \in Threads, i \in Lists :
    LET l == tc[t][i] IN
      /\ l.size = LenFrom(rank, l.header) /\ l.size < l.apply
      /\ \A n \in Requests : Index(n) = i => l.apply <= BlockThreshHold(RoundUp(n)) + 1

(* What the position of a thread implies: alloc_to_thread is entered with an *)
(* empty list; a span between the page cache and the lists of spans belongs  *)
(* to one call and has no block outside.                                     *)
CallOf(place, t) ==
  LET c == call[t] IN
    /\ c.at \notin {"idle", "crashed"} => c.align \in Aligns
    /\ c.at \in {"alloc", "span", "insert"} =>
         /\ tc[t][ListOf(t)].header = 0
         /\ 1 <= c.count /\ c.count < tc[t][ListOf(t)].apply
    /\ c.at \notin {"recover", "loop", "giveback"} => c.start = 0
    /\ c.at \in {"insert", "giveback"} =>
         /\ c.span \in Given
         /\ \A i \in Lists : \A k \in DOMAIN lists[i] : lists[i][k] # c.span
         /\ \A b \in BlocksOf(c.span) : place[b] \notin HeldPlaces
    /\ c.at = "insert" => span[c.span].header # 0 /\ span[c.span].block = c.align
    /\ c.at = "giveback" => \A b \in BlocksOf(c.span) : place[b] = None
Calls(place) == \A t \in Threads : CallOf(place, t)

(* Two calls have different spans on the way, and one lock each. *)
CallsApart ==
  \A t, u \in Threads : t # u =>
    /\ call[t].at \in {"insert", "giveback"} /\ call[u].at \in {"insert", "giveback"}
         => call[t].span # call[u].span
    /\ call[t].at = "loop" /\ call[u].at = "loop" => ListOf(t) # ListOf(u)

(* The lists of spans hold spans of their class, each once. *)
Listed ==
  \A i \in Lists :
    /\ \A k \in DOMAIN lists[i] : lists[i][k] \in Given /\ Index(span[lists[i][k]].block) = i
    /\ \A j, k \in DOMAIN lists[i] : lists[i][j] = lists[i][k] => j = k

(* While a span has a free block, none of those it was cut into is lost; in  *)
(* the loop of recover_blocks_to_spans its header is not a free block.       *)
SpanWhole(place, s) ==
  /\ CarvedBlocks(s) \subseteq BlocksOf(s)
  /\ \/ span[s].header = 0
     \/ \E t \in Threads : call[t].at = "loop" /\ call[t].start = span[s].header
     \/ \A b \in CarvedBlocks(s) : place[b] # None
Whole(place) == \A s \in Given : SpanWhole(place, s)

Good(place, rank) ==
  /\ Types
  /\ PlaceType(place, rank) /\ Linked(place, rank) /\ Ranked(place, rank)
  /\ Heads(place, rank)
  /\ Owned(place) /\ PagesDisjoint /\ Counted(place)
  /\ Sized(rank) /\ Calls(place) /\ CallsApart /\ Listed
  /\ Whole(place)

CentralInv == ~broken => \E place, rank : Good(place, rank)
-----------------------------------------------------------------------------
(* The constants. *)
LEMMA AddressFacts ==
  /\ Addresses \subseteq Nat \ {0} /\ IsFiniteSet(Addresses)
  /\ PageBytes \in Nat \ {0} /\ HeapPages \in Nat
PROOF
  <1>1. PageBytes \in Nat \ {0} /\ HeapPages \in Nat
    BY SizeClassAssumption, CentralAssumption
  <1>2. PageBytes \in Int /\ (HeapPages + 1) * PageBytes - 1 \in Int
    BY <1>1
  <1>3. IsFiniteSet(PageBytes .. (HeapPages + 1) * PageBytes - 1)
    BY <1>2, FS_Interval
  <1> QED
    BY <1>1, <1>3 DEF Addresses

(* What the sizes the lists are made for have in common. *)
LEMMA ClassFacts ==
  ASSUME NEW a \in Aligns
  PROVE  /\ a \in Nat \ {0} /\ Index(a) \in Lists
         /\ BlockThreshHold(a) \in Nat \ {0} /\ PageThreshHold(a) \in Nat \ {0}
         /\ \A c \in Aligns : Index(c) = Index(a) => c = a
PROOF
  <1>1. PICK n \in Requests : a = RoundUp(n)
    BY DEF Aligns
  <1>2. a \in Nat \ {0} /\ Index(a) = Index(n)
    BY <1>1, CentralAssumption DEF ClassesSound
  <1>3. Index(a) \in Lists
    BY <1>2 DEF Lists
  <1>4. \A c \in Aligns : Index(c) = Index(a) => c = a
    BY <1>1, <1>2, CentralAssumption DEF ClassesSound, Aligns
  <1>5. /\ MinBlocks \in Nat \ {0} /\ MaxBlocks \in Nat /\ MinBlocks <= MaxBlocks
        /\ MaxAllocBytes \in Nat /\ PageBytes \in Nat \ {0}
    <2> DEFINE R == [limit : Nat \ {0}, align : Nat \ {0}]
    <2>1. Ranges \in Seq(R) /\ Ranges # <<>>
      BY SizeClassAssumption
    <2>2. Ranges[Len(Ranges)] \in R
      <3> HIDE DEF R
      <3> QED
        BY <2>1
    <2> QED
      BY <2>2, SizeClassAssumption
  <1>6. MaxAllocBytes \div a \in Nat
    BY <1>2, <1>5
  <1>7. BlockThreshHold(a) \in Nat \ {0}
    BY <1>5, <1>6 DEF BlockThreshHold
  <1>8. BlockThreshHold(a) * a \in Nat
    BY <1>2, <1>7
  <1>9. (BlockThreshHold(a) * a) \div PageBytes \in Nat
    BY <1>5, <1>8
  <1>10. PageThreshHold(a) \in Nat \ {0}
    BY <1>9 DEF PageThreshHold
  <1> QED
    BY <1>2, <1>3, <1>4, <1>7, <1>10

(* A request belongs to the class of its rounded size. *)
LEMMA RequestFacts ==
  ASSUME NEW n \in Requests
  PROVE  /\ RoundUp(n) \in Aligns /\ Index(n) \in Lists /\ Index(RoundUp(n)) = Index(n)
         /\ \A m \in Requests : Index(m) = Index(n) => RoundUp(m) = RoundUp(n)
  BY CentralAssumption DEF ClassesSound, Aligns, Lists

(* Places are told apart by their names. *)
LEMMA PlaceFacts ==
  /\ \A t, u, i, j : Cache(t, i) = Cache(u, j) => t = u /\ i = j
  /\ \A t, u : Return(t) = Return(u) => t = u
  /\ \A s, v : Free(s) = Free(v) => s = v
  /\ \A t, i, u : Cache(t, i) # Return(u)
  /\ \A t, i, s : Cache(t, i) # Free(s)
  /\ \A t, s : Return(t) # Free(s)
  /\ None # User
  /\ \A t, i : Cache(t, i) # None /\ Cache(t, i) # User
  /\ \A t : Return(t) # None /\ Return(t) # User
  /\ \A s : Free(s) # None /\ Free(s) # User
  BY DEF Cache, Return, Free, None, User

(* Which places are lists, and which hold blocks that are not free. *)
LEMMA PlaceSets ==
  /\ \A t \in Threads, i \in Lists : Cache(t, i) \in ListPlaces /\ Cache(t, i) \in HeldPlaces
  /\ \A t \in Threads : Return(t) \in ListPlaces /\ Return(t) \in HeldPlaces
  /\ \A s \in Spans : Free(s) \in ListPlaces /\ Free(s) \notin HeldPlaces
  /\ User \in HeldPlaces /\ User \notin ListPlaces
  /\ None \notin HeldPlaces /\ None \notin ListPlaces
  /\ HeldPlaces \subseteq Places /\ ListPlaces \subseteq Places
  /\ \A x \in HeldPlaces : \/ x = User \/ \E t \in Threads, i \in Lists : x = Cache(t, i)
                           \/ \E t \in Threads : x = Return(t)
  /\ \A x \in Places : x \in {None, User} \cup ListPlaces
  /\ \A x \in Places : \/ x = None \/ x \in HeldPlaces \/ \E s \in Spans : x = Free(s)
  /\ None \in Places /\ User \in Places
PROOF
  <1>1. \A s \in Spans : Free(s) \notin HeldPlaces
    BY PlaceFacts DEF HeldPlaces
  <1>2. User \notin ListPlaces /\ None \notin HeldPlaces /\ None \notin ListPlaces
    BY PlaceFacts DEF HeldPlaces, ListPlaces
  <1>3. HeldPlaces \subseteq Places /\ ListPlaces \subseteq Places
    BY DEF HeldPlaces, ListPlaces, Places
  <1>4. /\ \A t \in Threads, i \in Lists : Cache(t, i) \in ListPlaces /\ Cache(t, i) \in HeldPlaces
        /\ \A t \in Threads : Return(t) \in ListPlaces /\ Return(t) \in HeldPlaces
        /\ \A s \in Spans : Free(s) \in ListPlaces
        /\ User \in HeldPlaces
    BY DEF HeldPlaces, ListPlaces
  <1>5. /\ \A x \in HeldPlaces : \/ x = User \/ \E t \in Threads, i \in Lists : x = Cache(t, i)
                                 \/ \E t \in Threads : x = Return(t)
        /\ \A x \in Places : x \in {None, User} \cup ListPlaces
        /\ \A x \in Places : \/ x = None \/ x \in HeldPlaces \/ \E s \in Spans : x = Free(s)
        /\ None \in Places /\ User \in Places
    BY DEF HeldPlaces, ListPlaces, Places
  <1> QED
    BY <1>1, <1>2, <1>3, <1>4, <1>5

-----------------------------------------------------------------------------
(* A set of subsets of a finite set has a smallest one: induction over       *)
(* finite sets, in the form the provers can use.                             *)
LEMMA SmallestSet ==
  ASSUME NEW S, IsFiniteSet(S), NEW B, B \subseteq SUBSET S, B # {}
  PROVE  \E T \in B : \A U \in B : U \subseteq T => U = T
PROOF
  <1>1. FiniteSubsetsOf(S) = SUBSET S
    BY FS_FiniteSubsetsOfFinite
  <1>2. IsWellFoundedOn(StrictSubsetOrdering(S), SUBSET S)
    BY <1>1, FS_StrictSubsetOrderingWellFounded
  <1>3. \E T \in B : \A U \in B : ~ (<<U, T>> \in StrictSubsetOrdering(S))
    BY <1>2, WFMin
  <1>4. \A T, U \in B : U \subseteq T /\ U # T => <<U, T>> \in StrictSubsetOrdering(S)
    BY DEF StrictSubsetOrdering
  <1> QED
    BY <1>3, <1>4

(* Induction up to N. *)
LEMMA UpTo ==
  ASSUME NEW T, NEW N \in Nat, 0 \in T, \A n \in 0 .. N - 1 : n \in T => n + 1 \in T
  PROVE  N \in T
PROOF
  <1> SUFFICES ASSUME N \notin T PROVE FALSE
    OBVIOUS
  <1> DEFINE B == {0 .. n : n \in {k \in 0 .. N : k \notin T}}
  <1>1. IsFiniteSet(0 .. N)
    BY FS_Interval
  <1>2. B # {} /\ B \subseteq SUBSET (0 .. N)
    OBVIOUS
  <1>3. \E U \in B : \A V \in B : V \subseteq U => V = U
    <2> DEFINE S == 0 .. N
    <2>1. IsFiniteSet(S) /\ B \subseteq SUBSET S /\ B # {}
      BY <1>1, <1>2
    <2> HIDE DEF B, S
    <2> QED
      BY <2>1, SmallestSet
  <1>4. PICK U \in B : \A V \in B : V \subseteq U => V = U
    BY <1>3
  <1>5. PICK n \in 0 .. N : U = 0 .. n /\ n \notin T
    BY <1>4
  <1>6. n - 1 \in 0 .. N - 1 /\ n - 1 \notin T
    BY <1>5
  <1>7. 0 .. n - 1 \in B /\ 0 .. n - 1 \subseteq U /\ n \in U /\ n \notin 0 .. n - 1
    BY <1>5, <1>6
  <1> QED
    BY <1>4, <1>7

(* Where a list begins, and how long it is then. *)
LEMMA BeginsFacts ==
  ASSUME NEW place, NEW rank, PlaceType(place, rank), NEW x, NEW a, Begins(place, rank, x, a)
  PROVE  /\ LenFrom(rank, a) \in Nat /\ (LenFrom(rank, a) = 0 <=> a = 0)
         /\ a # 0 => /\ a \in Addresses /\ place[a] = x /\ rank[a] = LenFrom(rank, a)
                     /\ rank[a] \in Nat \ {0}
         /\ \A b \in Addresses : place[b] = x => a # 0 /\ rank[b] \in 1 .. LenFrom(rank, a)
PROOF
  <1>1. CASE a = 0
    BY <1>1, AddressFacts DEF LenFrom, Begins
  <1>2. CASE a # 0
    <2>1. a \in Addresses /\ place[a] = x /\ \A b \in Addresses : place[b] = x => rank[b] <= rank[a]
      BY <1>2 DEF Begins
    <2>2. \A b \in Addresses : rank[b] \in Nat \ {0}
      BY DEF PlaceType
    <2>3. LenFrom(rank, a) = rank[a]
      BY <1>2 DEF LenFrom
    <2> QED
      BY <1>2, <2>1, <2>2, <2>3
  <1> QED
    BY <1>1, <1>2

(* The blocks of a list have all the ranks up to that of the first.          *)
LEMMA RanksDown ==
  ASSUME NEW place, NEW rank, Types, PlaceType(place, rank), Linked(place, rank),
         NEW x \in ListPlaces, NEW a \in Addresses, place[a] = x,
         NEW r \in 1 .. rank[a]
  PROVE  \E b \in Addresses : place[b] = x /\ rank[b] = r
PROOF
  <1> DEFINE T == {n \in Nat : \E b \in Addresses : place[b] = x /\ rank[b] = rank[a] - n}
  <1>1. rank[a] \in Nat \ {0} /\ r \in Nat /\ rank[a] - r \in Nat
    BY DEF PlaceType
  <1>2. 0 \in T
    BY <1>1
  <1>3. ASSUME NEW n \in 0 .. rank[a] - r - 1, n \in T PROVE n + 1 \in T
    <2>1. PICK b \in Addresses : place[b] = x /\ rank[b] = rank[a] - n
      BY <1>3
    <2>2. rank[b] # 1
      BY <1>1, <2>1
    <2>3. next[b] \in Addresses /\ place[next[b]] = x /\ rank[next[b]] = rank[b] - 1
      BY <2>1, <2>2 DEF Linked
    <2>4. rank[next[b]] = rank[a] - (n + 1) /\ n + 1 \in Nat
      BY <1>1, <2>1, <2>3
    <2> QED
      BY <2>3, <2>4
  <1>4. rank[a] - r \in T
    <2> HIDE DEF T
    <2> QED
      BY <1>1, <1>2, <1>3, UpTo
  <1> QED
    BY <1>1, <1>4

(* As many blocks of a list are above a rank as there are ranks above it.    *)
LEMMA RanksAbove ==
  ASSUME NEW place, NEW rank, Types, PlaceType(place, rank), Linked(place, rank),
         Ranked(place, rank), NEW x \in ListPlaces, NEW a, Begins(place, rank, x, a),
         NEW m \in 0 .. LenFrom(rank, a)
  PROVE  LET S == {b \in Addresses : place[b] = x /\ rank[b] > m}
         IN  IsFiniteSet(S) /\ Cardinality(S) = LenFrom(rank, a) - m
PROOF
  <1> DEFINE S == {b \in Addresses : place[b] = x /\ rank[b] > m}
             R == m + 1 .. LenFrom(rank, a)
             f == [b \in S |-> rank[b]]
  <1>1. IsFiniteSet(S)
    <2>1. S \subseteq Addresses
      OBVIOUS
    <2> HIDE DEF S
    <2> QED
      BY <2>1, AddressFacts, FS_Subset
  <1>2. LenFrom(rank, a) \in Nat /\ m \in Nat /\ m <= LenFrom(rank, a)
    BY DEF LenFrom, Begins, PlaceType
  <1>3. \A b \in S : b \in Addresses /\ rank[b] \in R
    BY <1>2, AddressFacts DEF LenFrom, Begins, PlaceType
  <1>4. f \in [S -> R]
    BY <1>3
  <1>5. \A b, c \in S : f[b] = f[c] => b = c
    BY DEF Ranked
  <1>6. \A r \in R : \E b \in S : f[b] = r
    <2> TAKE r \in R
    <2>1. r \in Nat /\ r > m /\ r \in 1 .. LenFrom(rank, a)
      BY <1>2
    <2>2. a \in Addresses /\ place[a] = x /\ r \in 1 .. rank[a]
      BY <2>1 DEF LenFrom, Begins
    <2>3. PICK b \in Addresses : place[b] = x /\ rank[b] = r
      BY <2>2, RanksDown
    <2> QED
      BY <2>1, <2>3
  <1>7. f \in Bijection(S, R)
    <2> HIDE DEF S, R, f
    <2>1. f \in Injection(S, R)
      BY <1>4, <1>5 DEF Injection, IsInjective
    <2>2. f \in Surjection(S, R)
      BY <1>4, <1>6 DEF Surjection
    <2> QED
      BY <2>1, <2>2 DEF Bijection
  <1>8. Cardinality(R) = LenFrom(rank, a) - m
    BY <1>2, FS_Interval
  <1>9. Cardinality(S) = Cardinality(R)
    <2> HIDE DEF S, R, f
    <2>1. ExistsBijection(S, R)
      BY <1>7 DEF ExistsBijection
    <2> QED
      BY <1>1, <2>1, FS_Bijection
  <1> QED
    BY <1>1, <1>8, <1>9

(* Following the pointers of a list from its first block goes down the       *)
(* ranks, and then there is nothing.                                         *)
Steps(f, a, k) ==
  f = [j \in 1 .. k |-> IF j = 1 THEN a ELSE Behind(f[j - 1])]

(* The recursive function in Nth exists whenever any function fulfils its    *)
(* equation.                                                                 *)
LEMMA NthDef ==
  ASSUME NEW a, NEW k, \E f : Steps(f, a, k)
  PROVE  \E f : Steps(f, a, k) /\ Nth(a, k) = f[k]
PROOF
  <1>1. Steps(CHOOSE f : Steps(f, a, k), a, k)
    BY Zenon
  <1>2. Nth(a, k) = (CHOOSE f : Steps(f, a, k))[k]
    BY DEF Nth, Steps
  <1> QED
    BY <1>1, <1>2

(* Nth finds the k-th block of a list, and 0 behind its end. *)
LEMMA NthIs ==
  ASSUME NEW place, NEW rank, Types, PlaceType(place, rank), Linked(place, rank),
         Ranked(place, rank), NEW x \in ListPlaces, NEW a, Begins(place, rank, x, a),
         NEW k \in Nat \ {0}
  PROVE  IF k <= LenFrom(rank, a)
         THEN /\ Nth(a, k) \in Addresses /\ place[Nth(a, k)] = x
              /\ rank[Nth(a, k)] = LenFrom(rank, a) - k + 1
         ELSE Nth(a, k) = 0
PROOF
  <1> DEFINE L == LenFrom(rank, a)
             at(j) == IF j <= L THEN CHOOSE b \in Addresses : place[b] = x /\ rank[b] = L - j + 1 ELSE 0
             g == [j \in 1 .. k |-> at(j)]
  <1>1. L \in Nat /\ (L > 0 => a \in Addresses /\ place[a] = x /\ rank[a] = L)
    BY BeginsFacts
  <1>2. L = 0 => a = 0
    BY BeginsFacts
  <1>3. ASSUME NEW j \in Nat \ {0}, j <= L
        PROVE  at(j) \in Addresses /\ place[at(j)] = x /\ rank[at(j)] = L - j + 1
    <2>1. L - j + 1 \in 1 .. L
      BY <1>1, <1>3
    <2>2. \E b \in Addresses : place[b] = x /\ rank[b] = L - j + 1
      BY <1>1, <1>3, <2>1, RanksDown
    <2> QED
      BY <1>3, <2>2
  <1>4. \A j \in Nat \ {0} : j > L => at(j) = 0
    BY <1>1
  <1> HIDE DEF at, L
  <1>5. at(1) = a
    <2>1. CASE L > 0
      <3>1. at(1) \in Addresses /\ place[at(1)] = x /\ rank[at(1)] = L
        BY <1>1, <1>3, <2>1
      <3> QED
        BY <1>1, <2>1, <3>1 DEF Ranked
    <2>2. CASE L = 0
      BY <1>2, <1>4, <2>2
    <2> QED
      BY <1>1, <2>1, <2>2
  <1>6. ASSUME NEW j \in Nat \ {0}
        PROVE  at(j + 1) = IF at(j) = 0 THEN 0 ELSE next[at(j)]
    <2>1. CASE j < L
      <3>1. /\ at(j) \in Addresses /\ place[at(j)] = x /\ rank[at(j)] = L - j + 1
            /\ at(j + 1) \in Addresses /\ place[at(j + 1)] = x /\ rank[at(j + 1)] = L - j
        <4>1. j <= L /\ j + 1 <= L /\ j + 1 \in Nat \ {0} /\ L - (j + 1) + 1 = L - j
          BY <1>1, <2>1
        <4> QED
          BY <1>3, <4>1
      <3>2. at(j) # 0 /\ rank[at(j)] # 1
        BY <1>1, <2>1, <3>1, AddressFacts
      <3>3. next[at(j)] \in Addresses /\ place[next[at(j)]] = x /\ rank[next[at(j)]] = L - j
        BY <1>1, <3>1, <3>2 DEF Linked
      <3> QED
        BY <3>1, <3>2, <3>3 DEF Ranked
    <2>2. CASE j = L
      <3>1. at(j) \in Addresses /\ place[at(j)] = x /\ rank[at(j)] = 1
        BY <1>1, <1>3, <2>2
      <3>2. at(j) # 0 /\ ~(rank[at(j)] > 1) /\ place[at(j)] \in ListPlaces
        BY <3>1, AddressFacts
      <3>3. next[at(j)] = 0
        BY <3>1, <3>2 DEF Linked
      <3> QED
        BY <1>1, <1>4, <2>2, <3>2, <3>3
    <2>3. CASE j > L
      BY <1>1, <1>4, <2>3
    <2> QED
      BY <1>1, <2>1, <2>2, <2>3
  <1>7. Steps(g, a, k)
    <2>1. \A j \in 1 .. k : g[j] = IF j = 1 THEN a ELSE IF g[j - 1] = 0 THEN 0 ELSE next[g[j - 1]]
      <3> TAKE j \in 1 .. k
      <3>1. CASE j = 1
        BY <1>5, <3>1
      <3>2. CASE j # 1
        <4>1. j - 1 \in Nat \ {0} /\ j - 1 \in 1 .. k /\ (j - 1) + 1 = j
          BY <3>2
        <4>2. at(j) = IF at(j - 1) = 0 THEN 0 ELSE next[at(j - 1)]
          BY <1>6, <4>1
        <4> QED
          BY <3>2, <4>1, <4>2
      <3> QED
        BY <3>1, <3>2
    <2> QED
      BY <2>1 DEF Steps, Behind
  <1>8. PICK f : Steps(f, a, k) /\ Nth(a, k) = f[k]
    BY <1>7, NthDef
  <1>9. f[k] = at(k)
    <2> DEFINE T == {n \in Nat : n = 0 \/ f[n] = at(n)}
    <2>1. ASSUME NEW n \in 0 .. k - 1, n \in T PROVE n + 1 \in T
      <3>1. n + 1 \in 1 .. k /\ n \in Nat
        OBVIOUS
      <3>2. f[n + 1] = IF n + 1 = 1 THEN a ELSE IF f[n + 1 - 1] = 0 THEN 0 ELSE next[f[n + 1 - 1]]
        BY <1>8, <3>1 DEF Steps, Behind
      <3>3. CASE n = 0
        BY <1>5, <3>2, <3>3
      <3>4. CASE n # 0
        <4>1. f[n] = at(n) /\ n \in Nat \ {0}
          BY <2>1, <3>4
        <4>2. f[n + 1] = IF f[n] = 0 THEN 0 ELSE next[f[n]]
          BY <3>1, <3>2, <3>4
        <4> QED
          BY <1>6, <4>1, <4>2
      <3> QED
        BY <3>3, <3>4
    <2>2. 0 \in T
      OBVIOUS
    <2>3. k \in T
      <3> HIDE DEF T
      <3> QED
        BY <2>1, <2>2, UpTo
    <2> QED
      BY <2>3
  <1> QED
    BY <1>1, <1>3, <1>4, <1>8, <1>9 DEF L

(* What the operators of the model say of a list that begins at a. *)
LEMMA ListChain ==
  ASSUME NEW place, NEW rank, Types, PlaceType(place, rank), Linked(place, rank),
         Ranked(place, rank), NEW x \in ListPlaces, NEW a, Begins(place, rank, x, a)
  PROVE  /\ Chain(a) = {b \in Addresses : place[b] = x}
         /\ Cardinality(Chain(a)) = LenFrom(rank, a)
PROOF
  <1> DEFINE L == LenFrom(rank, a)
             S == {b \in Addresses : place[b] = x}
             N == Cardinality(Addresses)
  <1>1. /\ L \in Nat
        /\ \A b \in S : rank[b] \in 1 .. L
    BY BeginsFacts
  <1>2. S = {b \in Addresses : place[b] = x /\ rank[b] > 0}
    BY DEF PlaceType
  <1>3. Cardinality(S) = L
    <2>1. 0 \in 0 .. L
      BY <1>1
    <2>2. Cardinality({b \in Addresses : place[b] = x /\ rank[b] > 0}) = L - 0
      BY <2>1, RanksAbove
    <2> QED
      BY <1>1, <1>2, <2>2
  <1>4. N \in Nat /\ L <= N
    <2>1. S \in SUBSET Addresses
      OBVIOUS
    <2> HIDE DEF S, L
    <2> QED
      BY <1>3, <2>1, AddressFacts, FS_Subset, FS_CardinalityType
  <1>5. \A k \in 1 .. N : IF k <= L THEN /\ Nth(a, k) \in S /\ rank[Nth(a, k)] = L - k + 1
                                    ELSE Nth(a, k) = 0
    <2> TAKE k \in 1 .. N
    <2>1. k \in Nat \ {0}
      BY <1>4
    <2> QED
      BY <2>1, NthIs
  <1>6. a # 0 => Chain(a) = {Nth(a, k) : k \in 1 .. N} \ {0}
    BY DEF Chain, First
  <1>7. \A b \in S : \E k \in 1 .. N : b = Nth(a, k)
    <2> TAKE b \in S
    <2>1. rank[b] \in 1 .. L
      BY <1>1
    <2> DEFINE k == L - rank[b] + 1
    <2>2. k \in 1 .. N /\ k <= L /\ L - k + 1 = rank[b]
      BY <1>1, <1>4, <2>1
    <2>3. Nth(a, k) \in S /\ rank[Nth(a, k)] = rank[b]
      BY <1>5, <2>2
    <2>4. Nth(a, k) = b
      BY <2>3 DEF Ranked
    <2> QED
      BY <2>2, <2>4
  <1>8. 0 \notin S
    BY AddressFacts
  <1>9. Chain(a) = S
    <2>1. CASE a = 0
      <3>1. Chain(a) = {}
        BY <2>1 DEF Chain
      <3>2. \A b \in Addresses : place[b] # x
        BY <2>1, AddressFacts DEF Begins
      <3> QED
        BY <3>1, <3>2
    <2>2. CASE a # 0
      <3> HIDE DEF S, L, N
      <3> QED
        BY <1>5, <1>6, <1>7, <1>8, <2>2
    <2> QED
      BY <2>1, <2>2
  <1> QED
    BY <1>3, <1>9

(* The first n of them: how many there are, and the last. *)
LEMMA ListFirst ==
  ASSUME NEW place, NEW rank, Types, PlaceType(place, rank), Linked(place, rank),
         Ranked(place, rank), NEW x \in ListPlaces, NEW a \in Addresses,
         Begins(place, rank, x, a), NEW n \in Nat \ {0}
  PROVE  LET m == FirstLen(a, n)
         IN  /\ m \in Nat \ {0} /\ m <= n /\ m <= rank[a] /\ (m < n => m = rank[a])
             /\ Nth(a, m) \in Addresses /\ place[Nth(a, m)] = x
             /\ rank[Nth(a, m)] = rank[a] - m + 1
PROOF
  <1> DEFINE L == rank[a]
             m == IF n <= L THEN n ELSE L
  <1>1. a # 0 /\ LenFrom(rank, a) = L /\ L \in Nat \ {0}
    BY AddressFacts DEF LenFrom, PlaceType
  <1>2. m \in Nat \ {0} /\ m <= n /\ m <= L /\ (m < n => m = L)
    BY <1>1
  <1>3. \A k \in Nat \ {0} : IF k <= L
                             THEN /\ Nth(a, k) \in Addresses /\ place[Nth(a, k)] = x
                                  /\ rank[Nth(a, k)] = L - k + 1
                             ELSE Nth(a, k) = 0
    BY <1>1, NthIs
  <1>4. {k \in 1 .. n : Nth(a, k) # 0} = 1 .. m
    <2> HIDE DEF L
    <2>1. \A k \in 1 .. n : Nth(a, k) # 0 <=> k <= L
      BY <1>3, AddressFacts
    <2> QED
      BY <1>1, <2>1
  <1>5. FirstLen(a, n) = m
    <2>1. Cardinality(1 .. m) = m
      <3> HIDE DEF m
      <3> QED
        BY <1>2, FS_Interval
    <2> QED
      BY <1>4, <2>1 DEF FirstLen
  <1> QED
    BY <1>2, <1>3, <1>5
-----------------------------------------------------------------------------
(* The invariant gives the sets of blocks that the properties speak of ...   *)
LEMMA Hands ==
  ASSUME NEW place, NEW rank, Good(place, rank)
  PROVE  /\ \A t \in Threads, i \in Lists :
              /\ Chain(tc[t][i].header) = {b \in Addresses : place[b] = Cache(t, i)}
              /\ tc[t][i].size = Cardinality(Chain(tc[t][i].header))
         /\ \A t \in Threads :
              /\ CachedBy(t) = {b \in Addresses : \E i \in Lists : place[b] = Cache(t, i)}
              /\ ReturnedBy(t) = {b \in Addresses : place[b] = Return(t)}
         /\ Held = {b \in Addresses : place[b] \in HeldPlaces}
PROOF
  <1>1. Types /\ PlaceType(place, rank) /\ Linked(place, rank) /\ Ranked(place, rank)
    BY DEF Good
  <1>2. ASSUME NEW t \in Threads, NEW i \in Lists
        PROVE  /\ Chain(tc[t][i].header) = {b \in Addresses : place[b] = Cache(t, i)}
               /\ tc[t][i].size = Cardinality(Chain(tc[t][i].header))
    <2>1. Begins(place, rank, Cache(t, i), tc[t][i].header)
      BY DEF Good, Heads
    <2>2. tc[t][i].size = LenFrom(rank, tc[t][i].header)
      BY DEF Good, Sized
    <2> QED
      BY <1>1, <2>1, <2>2, ListChain, PlaceSets
  <1>3. ASSUME NEW t \in Threads
        PROVE  /\ CachedBy(t) = {b \in Addresses : \E i \in Lists : place[b] = Cache(t, i)}
               /\ ReturnedBy(t) = {b \in Addresses : place[b] = Return(t)}
    <2>1. Begins(place, rank, Return(t), call[t].start)
      BY DEF Good, Heads
    <2>2. ReturnedBy(t) = {b \in Addresses : place[b] = Return(t)}
      BY <1>1, <2>1, ListChain, PlaceSets DEF ReturnedBy
    <2> QED
      BY <1>2, <2>2 DEF CachedBy
  <1>4. used = {b \in Addresses : place[b] = User}
    BY DEF Good, Heads
  <1>5. Held = {b \in Addresses : place[b] \in HeldPlaces}
    <2>1. \A b \in Held : b \in Addresses /\ place[b] \in HeldPlaces
      BY <1>3, <1>4, PlaceSets DEF Held
    <2>2. \A b \in Addresses : place[b] \in HeldPlaces => b \in Held
      <3> TAKE b \in Addresses
      <3> HAVE place[b] \in HeldPlaces
      <3>1. CASE place[b] = User
        BY <1>4, <3>1 DEF Held
      <3>2. CASE \E t \in Threads, i \in Lists : place[b] = Cache(t, i)
        BY <1>3, <3>2 DEF Held
      <3>3. CASE \E t \in Threads : place[b] = Return(t)
        BY <1>3, <3>3 DEF Held
      <3> QED
        BY <3>1, <3>2, <3>3, PlaceSets
    <2> QED
      BY <2>1, <2>2
  <1> QED
    BY <1>2, <1>3, <1>5

(* ... and with them all that Sane and the properties ask for.               *)
LEMMA HandsApart ==
  ASSUME NEW place, NEW rank, Good(place, rank)
  PROVE  HandsDisjoint /\ SizesExact
PROOF
  <1>1. /\ \A t \in Threads :
             /\ CachedBy(t) = {b \in Addresses : \E i \in Lists : place[b] = Cache(t, i)}
             /\ ReturnedBy(t) = {b \in Addresses : place[b] = Return(t)}
        /\ used = {b \in Addresses : place[b] = User}
    BY Hands DEF Good, Heads
  <1>2. SizesExact
    BY Hands DEF SizesExact
  <1>3. ASSUME NEW t \in Threads
        PROVE  /\ (CachedBy(t) \cup ReturnedBy(t)) \cap used = {}
               /\ CachedBy(t) \cap ReturnedBy(t) = {}
    BY <1>1, PlaceFacts
  <1>4. ASSUME NEW t \in Threads, NEW u \in Threads \ {t}
        PROVE  (CachedBy(t) \cup ReturnedBy(t)) \cap (CachedBy(u) \cup ReturnedBy(u)) = {}
    <2>1. \A b \in Addresses, i, j \in Lists : ~(place[b] = Cache(t, i) /\ place[b] = Cache(u, j))
      BY PlaceFacts
    <2>2. \A b \in Addresses, i \in Lists : ~(place[b] = Cache(t, i) /\ place[b] = Return(u))
      BY PlaceFacts
    <2>3. \A b \in Addresses, i \in Lists : ~(place[b] = Return(t) /\ place[b] = Cache(u, i))
      BY PlaceFacts
    <2>4. \A b \in Addresses : ~(place[b] = Return(t) /\ place[b] = Return(u))
      BY PlaceFacts
    <2> QED
      BY <1>1, <2>1, <2>2, <2>3, <2>4
  <1> QED
    BY <1>2, <1>3, <1>4 DEF HandsDisjoint

(* UseCountExact follows from the invariant. *)
LEMMA CountExact ==
  ASSUME NEW place, NEW rank, Good(place, rank)
  PROVE  /\ \A s \in Given : span[s].use = Cardinality(BlocksOf(s) \cap Held)
         /\ Held \subseteq UNION {BlocksOf(s) : s \in Given}
         /\ Held \subseteq UNION {BlocksOf(s) : s \in {u \in Given : span[u].use > 0}}
PROOF
  <1>1. Held = {b \in Addresses : place[b] \in HeldPlaces}
    BY Hands
  <1>2. ASSUME NEW s \in Spans
        PROVE  /\ span[s].use = Cardinality(BlocksOf(s) \cap Held)
               /\ BlocksOf(s) \cap Held # {} => s \in Given /\ span[s].use > 0
    <2>1. BlocksOf(s) \cap Held = HeldOf(place, s)
      BY <1>1 DEF HeldOf, BlocksOf
    <2>2. span[s].use = Cardinality(BlocksOf(s) \cap Held)
      BY <2>1 DEF Good, Counted
    <2>3. IsFiniteSet(BlocksOf(s) \cap Held)
      <3> DEFINE S == BlocksOf(s) \cap Held
      <3>1. S \subseteq Addresses
        BY DEF BlocksOf
      <3>2. IsFiniteSet(S)
        <4> HIDE DEF S
        <4> QED
          BY <3>1, AddressFacts, FS_Subset
      <3> QED
        BY <3>2
    <2>4. BlocksOf(s) \cap Held # {} => span[s].use > 0
      <3> DEFINE S == BlocksOf(s) \cap Held
      <3>1. Cardinality(S) \in Nat /\ (Cardinality(S) = 0 <=> S = {})
        <4> HIDE DEF S
        <4> QED
          BY <2>3, FS_CardinalityType, FS_EmptySet DEF S
      <3> QED
        BY <2>2, <3>1
    <2> QED
      BY <2>2, <2>4 DEF BlocksOf
  <1>3. \A b \in Held : \E s \in Spans : b \in BlocksOf(s)
    <2> TAKE b \in Held
    <2>1. b \in Addresses /\ place[b] # None
      BY <1>1, PlaceSets
    <2> QED
      BY <2>1 DEF Good, Owned
  <1>4. Given \subseteq Spans
    BY DEF Given
  <1>5. \A b \in Held : \E s \in Given : span[s].use > 0 /\ b \in BlocksOf(s)
    BY <1>2, <1>3
  <1>6. \A s \in Given : span[s].use = Cardinality(BlocksOf(s) \cap Held)
    BY <1>2, <1>4
  <1>7. Held \subseteq UNION {BlocksOf(s) : s \in Given}
    BY <1>5
  <1>8. Held \subseteq UNION {BlocksOf(s) : s \in {u \in Given : span[u].use > 0}}
    BY <1>5
  <1> QED
    BY <1>6, <1>7, <1>8

(* The guard of Next is a consequence of the invariant. *)
LEMMA GoodSane ==
  ASSUME NEW place, NEW rank, Good(place, rank), \A t \in Threads : call[t].at # "crashed"
  PROVE  Sane
PROOF
  <1>1. \A i \in Lists : \A k \in DOMAIN lists[i] : lists[i][k] \in Given
    BY DEF Good, Listed
  <1> QED
    BY <1>1, HandsApart, CountExact DEF Sane
-----------------------------------------------------------------------------
(* The spans of a step that hands none out and takes none back.              *)
SameSpans ==
  /\ span' \in [Spans -> SpanType]
  /\ \A s \in Spans : span'[s].page = span[s].page /\ span'[s].block = span[s].block

(* A step that changes no page and no block size changes no span's blocks. *)
LEMMA SpansKept ==
  ASSUME SameSpans, Types
  PROVE  /\ Given' = Given
         /\ \A s \in Spans : PagesOf(s)' = PagesOf(s) /\ BlocksOf(s)' = BlocksOf(s)
         /\ PagesDisjoint => PagesDisjoint'
PROOF
  <1>1. Given' = Given
    BY DEF Given, SameSpans
  <1>2. ASSUME NEW s \in Spans PROVE PagesOf(s)' = PagesOf(s)
    BY DEF PagesOf, SameSpans
  <1>3. ASSUME NEW s \in Spans PROVE BlocksOf(s)' = BlocksOf(s)
    BY <1>1, <1>2 DEF BlocksOf
  <1>4. PagesDisjoint => PagesDisjoint'
    BY <1>1, <1>2 DEF PagesDisjoint, Given
  <1> QED
    BY <1>1, <1>2, <1>3, <1>4

(* The span of an address is the one find_span_by_address finds. *)
LEMMA OwnerFacts ==
  ASSUME PagesDisjoint, NEW s \in Spans, NEW b \in BlocksOf(s)
  PROVE  /\ s \in Given /\ b \in Addresses /\ OwnerOf(b) = s
         /\ \A u \in Spans : b \in BlocksOf(u) => u = s
PROOF
  <1>1. s \in Given /\ b \in Addresses /\ b \div PageBytes \in PagesOf(s)
    BY DEF BlocksOf
  <1>2. \A u \in Given : b \div PageBytes \in PagesOf(u) => u = s
    BY <1>1 DEF PagesDisjoint
  <1>3. OwnerOf(b) = s
    BY <1>1, <1>2 DEF OwnerOf
  <1> QED
    BY <1>1, <1>2, <1>3 DEF BlocksOf

(* A block that a user has, and the span it lies in. *)
LEMMA UsedFacts ==
  ASSUME NEW place, NEW rank, Good(place, rank), NEW b \in used
  PROVE  /\ b \in Addresses /\ place[b] = User
         /\ OwnerOf(b) \in Spans /\ b \in BlocksOf(OwnerOf(b))
         /\ span[OwnerOf(b)].block \in Aligns
PROOF
  <1>1. b \in Addresses /\ place[b] = User
    BY DEF Good, Heads
  <1>2. PICK s \in Spans : b \in BlocksOf(s)
    BY <1>1, PlaceFacts DEF Good, Owned
  <1>3. OwnerOf(b) = s /\ s \in Given
    BY <1>2, OwnerFacts DEF Good
  <1>4. span[s].block \in Aligns
    BY <1>2, <1>3 DEF Good, Types, Given, NewSpan
  <1> QED
    BY <1>1, <1>2, <1>3, <1>4

(* The list that is returned begins with the block start. *)
LEMMA StartFacts ==
  ASSUME NEW place, NEW rank, Good(place, rank), NEW t \in Threads
  PROVE  /\ call[t].start \in Addresses \cup {0}
         /\ call[t].start = 0 => \A b \in Addresses : place[b] # Return(t)
         /\ call[t].start # 0 =>
              LET b == call[t].start
                  s == OwnerOf(b)
              IN  /\ b \in Addresses /\ place[b] = Return(t)
                  /\ s \in Spans /\ b \in BlocksOf(s) /\ s \in Given
                  /\ span[s].block = call[t].align /\ span[s].block \in Aligns
PROOF
  <1>1. call[t].start \in Addresses \cup {0}
    BY DEF Good, Types, CallType
  <1>2. Begins(place, rank, Return(t), call[t].start)
    BY DEF Good, Heads
  <1>3. CASE call[t].start = 0
    BY <1>1, <1>2, <1>3, AddressFacts DEF Begins
  <1>4. CASE call[t].start # 0
    <2> DEFINE b == call[t].start
    <2>1. b \in Addresses /\ place[b] = Return(t)
      BY <1>1, <1>2, <1>4 DEF Begins
    <2>2. PICK s \in Spans : b \in BlocksOf(s)
      BY <2>1, PlaceFacts DEF Good, Owned
    <2>3. OwnerOf(b) = s /\ s \in Given
      BY <2>2, OwnerFacts DEF Good
    <2>4. span[s].block = call[t].align
      BY <2>1, <2>2 DEF Good, Owned
    <2>5. span[s].block \in Aligns
      BY <2>2, <2>3 DEF Good, Types, Given, NewSpan
    <2> QED
      BY <1>4, <2>1, <2>2, <2>3, <2>4, <2>5
  <1> QED
    BY <1>1, <1>3, <1>4

(* Free blocks are in their own span and nowhere else; as long as a span has *)
(* one, no block it was cut into is lost.                                    *)
LEMMA FreeApart ==
  ASSUME NEW place, NEW rank, Good(place, rank), NEW s \in Given
  PROVE  \/ \E t \in Threads : call[t].at = "loop" /\ ListOf(t) = Index(span[s].block)
         \/ /\ Chain(span[s].header) \subseteq BlocksOf(s) \ Held
            /\ span[s].header # 0 => CarvedBlocks(s) \subseteq Chain(span[s].header) \cup Held
PROOF
  <1>1. s \in Spans
    BY DEF Given
  <1>2. CASE Begins(place, rank, Free(s), span[s].header)
    <2>1. Chain(span[s].header) = {b \in Addresses : place[b] = Free(s)}
      BY <1>1, <1>2, ListChain, PlaceSets DEF Good
    <2>2. \A b \in Addresses : place[b] = Free(s) => b \in BlocksOf(s)
      BY <1>1 DEF Good, Owned
    <2>3. Held = {b \in Addresses : place[b] \in HeldPlaces}
      BY Hands
    <2>4. Chain(span[s].header) \subseteq BlocksOf(s) \ Held
      BY <1>1, <2>1, <2>2, <2>3, PlaceSets
    <2>5. ASSUME span[s].header # 0, NEW c \in CarvedBlocks(s)
          PROVE  c \in Chain(span[s].header) \cup Held
      <3>1. place[span[s].header] = Free(s) /\ span[s].header \in Addresses
        BY <1>2, <2>5 DEF Begins
      <3>2. \A t \in Threads : call[t].start # span[s].header
        BY <2>5, <3>1, StartFacts, PlaceFacts
      <3>3. SpanWhole(place, s)
        BY DEF Good, Whole
      <3>4. c \in BlocksOf(s) /\ place[c] # None
        BY <2>5, <3>2, <3>3 DEF SpanWhole
      <3>5. c \in Addresses /\ place[c] \in Places
        BY <3>4 DEF Good, PlaceType, BlocksOf
      <3>6. CASE place[c] \in HeldPlaces
        BY <2>3, <3>5, <3>6
      <3>7. CASE \E v \in Spans : place[c] = Free(v)
        <4>1. PICK v \in Spans : place[c] = Free(v)
          BY <3>7
        <4>2. c \in BlocksOf(v)
          BY <3>5, <4>1 DEF Good, Owned
        <4>3. v = s
          BY <1>1, <3>4, <4>1, <4>2, OwnerFacts DEF Good
        <4> QED
          BY <2>1, <3>5, <4>1, <4>3
      <3> QED
        BY <3>4, <3>5, <3>6, <3>7, PlaceSets
    <2> QED
      BY <2>4, <2>5
  <1>3. CASE Aliased(place, s)
    <2>1. PICK t \in Threads : call[t].at = "loop" /\ call[t].start \in BlocksOf(s)
      BY <1>3 DEF Aliased
    <2>2. call[t].start \in Addresses
      BY <2>1 DEF BlocksOf
    <2>3. Begins(place, rank, Return(t), call[t].start)
      BY DEF Good, Heads
    <2>4. place[call[t].start] = Return(t)
      BY <2>2, <2>3, AddressFacts DEF Begins
    <2>5. span[s].block = call[t].align
      BY <1>1, <2>1, <2>2, <2>4 DEF Good, Owned
    <2> QED
      BY <2>1, <2>5 DEF ListOf
  <1>4. Begins(place, rank, Free(s), span[s].header) \/ Aliased(place, s)
    BY <1>1 DEF Good, Heads
  <1> QED
    BY <1>2, <1>3, <1>4

(* What holds of the call of a thread stays true when others leave it alone. *)
LEMMA CallKept ==
  ASSUME NEW place, NEW after, NEW u \in Threads, CallOf(place, u),
         call'[u] = call[u], tc'[u] = tc[u],
         call[u].at \in {"insert", "giveback"} =>
           LET s == call[u].span
           IN  /\ s \in Given' /\ BlocksOf(s)' = BlocksOf(s) /\ span'[s] = span[s]
               /\ \A i \in Lists : \A k \in DOMAIN lists'[i] : lists'[i][k] # s
               /\ \A b \in BlocksOf(s) : after[b] = place[b]
  PROVE  CallOf(after, u)'
PROOF
  <1>1. ListOf(u)' = ListOf(u)
    BY DEF ListOf
  <1>2. /\ call'[u].at \notin {"idle", "crashed"} => call'[u].align \in Aligns
        /\ call'[u].at \in {"alloc", "span", "insert"} =>
             /\ tc'[u][ListOf(u)'].header = 0
             /\ 1 <= call'[u].count /\ call'[u].count < tc'[u][ListOf(u)'].apply
        /\ call'[u].at \notin {"recover", "loop", "giveback"} => call'[u].start = 0
    BY <1>1 DEF CallOf
  <1>3. call'[u].at \in {"insert", "giveback"} =>
          /\ call'[u].span \in Given'
          /\ \A i \in Lists : \A k \in DOMAIN lists'[i] : lists'[i][k] # call'[u].span
          /\ \A b \in BlocksOf(call[u].span)' : after[b] \notin HeldPlaces
    BY DEF CallOf
  <1>4. /\ call'[u].at = "insert" => span'[call'[u].span].header # 0
                                     /\ span'[call'[u].span].block = call'[u].align
        /\ call'[u].at = "giveback" => \A b \in BlocksOf(call[u].span)' : after[b] = None
    BY DEF CallOf
  <1> QED
    BY <1>2, <1>3, <1>4 DEF CallOf

(* A step of one thread leaves the calls apart if its own new position is. *)
LEMMA ApartKept ==
  ASSUME CallsApart, NEW t \in Threads, \A u \in Threads \ {t} : call'[u] = call[u],
         call'[t].at \in {"insert", "giveback"} =>
           \A u \in Threads \ {t} :
             call[u].at \in {"insert", "giveback"} => call[u].span # call'[t].span,
         call'[t].at = "loop" =>
           \A u \in Threads \ {t} :
             call[u].at = "loop" => ListOf(u) # Index(call'[t].align)
  PROVE  CallsApart'
PROOF
  <1>1. \A u \in Threads \ {t} : ListOf(u)' = ListOf(u)
    BY DEF ListOf
  <1>2. ListOf(t)' = Index(call'[t].align)
    BY DEF ListOf
  <1>3. ASSUME NEW v \in Threads, NEW u \in Threads, v # u
        PROVE  /\ call'[v].at \in {"insert", "giveback"} /\ call'[u].at \in {"insert", "giveback"}
                    => call'[v].span # call'[u].span
               /\ call'[v].at = "loop" /\ call'[u].at = "loop" => ListOf(v)' # ListOf(u)'
    <2>1. CASE v = t
      BY <1>1, <1>2, <1>3, <2>1
    <2>2. CASE u = t
      BY <1>1, <1>2, <1>3, <2>2
    <2>3. CASE v # t /\ u # t
      BY <1>1, <1>3, <2>3 DEF CallsApart
    <2> QED
      BY <2>1, <2>2, <2>3
  <1> QED
    BY <1>3 DEF CallsApart

(* A span stays whole when no block of it gets lost and its list of free      *)
(* blocks is not begun anew.                                                 *)
LEMMA WholeKept ==
  ASSUME NEW place, NEW after, NEW s, SpanWhole(place, s),
         span'[s].page = span[s].page, span'[s].block = span[s].block,
         BlocksOf(s)' = BlocksOf(s),
         \A b \in BlocksOf(s) : place[b] # None => after[b] # None,
         span'[s].header # 0 =>
           /\ span[s].header # 0
           /\ \A u \in Threads : call[u].at = "loop" /\ call[u].start = span[s].header =>
                                   call'[u].at = "loop" /\ call'[u].start = span'[s].header
  PROVE  SpanWhole(after, s)'
PROOF
  <1>1. CarvedBlocks(s)' = CarvedBlocks(s)
    BY DEF CarvedBlocks
  <1>2. CarvedBlocks(s) \subseteq BlocksOf(s)
    BY DEF SpanWhole
  <1> QED
    BY <1>1, <1>2 DEF SpanWhole

(* A step of thread t that touches no block: it changes where the thread is   *)
(* in its call, or how many blocks it asks for.                              *)
LEMMA CallOnly ==
  ASSUME NEW place, NEW rank, Good(place, rank), NEW t \in Threads,
         UNCHANGED <<next, span, lists, used>>,
         tc' \in [Threads -> [Lists -> CacheType]],
         \A u \in Threads \ {t} : tc'[u] = tc[u],
         \A i \in Lists : tc'[t][i].header = tc[t][i].header,
         call' \in [Threads -> CallType],
         \A u \in Threads \ {t} : call'[u] = call[u],
         call'[t].start = call[t].start,
         call[t].start # 0 => call'[t].align = call[t].align,
         call[t].at = "loop" => call[t].start = 0,
         Sized(rank)', CallOf(place, t)', CallsApart'
  PROVE  Good(place, rank)'
PROOF
  <1>1. Types' /\ PlaceType(place, rank)' /\ Linked(place, rank)' /\ Ranked(place, rank)'
    BY DEF Good, Types, PlaceType, Linked, Ranked
  <1>2. /\ Given' = Given /\ PagesDisjoint'
        /\ \A s \in Spans : BlocksOf(s)' = BlocksOf(s)
    BY DEF Good, Given, PagesOf, BlocksOf, PagesDisjoint
  <1>3. Heads(place, rank)'
    <2>1. ASSUME NEW u \in Threads, NEW i \in Lists
          PROVE  Begins(place, rank, Cache(u, i), tc[u][i].header)'
      <3>1. tc'[u][i].header = tc[u][i].header
        OBVIOUS
      <3>2. Begins(place, rank, Cache(u, i), tc[u][i].header)
        BY DEF Good, Heads
      <3> QED
        BY <3>1, <3>2 DEF Begins
    <2>2. \A u \in Threads : call'[u].start = call[u].start
      OBVIOUS
    <2>3. \A u \in Threads : Begins(place, rank, Return(u), call[u].start)'
      BY <2>2 DEF Good, Heads, Begins
    <2>4. ASSUME NEW s \in Spans
          PROVE  (Begins(place, rank, Free(s), span[s].header) \/ Aliased(place, s))'
      <3>1. CASE Begins(place, rank, Free(s), span[s].header)
        BY <3>1 DEF Begins
      <3>2. CASE Aliased(place, s)
        <4>1. PICK u \in Threads : /\ call[u].at = "loop" /\ call[u].start \in BlocksOf(s)
                                   /\ span[s].header = call[u].start
                                   /\ \A b \in Addresses : place[b] # Free(s)
          BY <3>2 DEF Aliased
        <4>2. u # t
          BY <4>1, AddressFacts DEF BlocksOf
        <4> QED
          BY <1>2, <4>1, <4>2 DEF Aliased
      <3> QED
        BY <3>1, <3>2 DEF Good, Heads
    <2>5. used' = {b \in Addresses : place[b] = User}
      BY DEF Good, Heads
    <2> QED
      BY <2>1, <2>3, <2>4, <2>5 DEF Heads
  <1>4. Owned(place)'
    <2>1. ASSUME NEW b \in Addresses, NEW s \in Spans, b \in BlocksOf(s), NEW u \in Threads
          PROVE  place[b] = Return(u) => span[s].block = call'[u].align
      <3>1. place[b] = Return(u) => span[s].block = call[u].align
        BY <2>1 DEF Good, Owned
      <3>2. place[b] = Return(u) => call[u].start # 0
        BY StartFacts
      <3> QED
        BY <3>1, <3>2
    <2> QED
      BY <1>2, <2>1 DEF Good, Owned
  <1>5. Counted(place)' /\ Listed'
    BY <1>2 DEF Good, Counted, HeldOf, Listed
  <1>6. Calls(place)'
    <2>1. ASSUME NEW u \in Threads \ {t} PROVE CallOf(place, u)'
      <3>1. CallOf(place, u)
        BY DEF Good, Calls
      <3>2. call[u].at \in {"insert", "giveback"} =>
              /\ call[u].span \in Given /\ call[u].span \in Spans
              /\ \A i \in Lists : \A k \in DOMAIN lists[i] : lists[i][k] # call[u].span
        BY <3>1 DEF CallOf, Given
      <3> QED
        BY <1>2, <3>1, <3>2, CallKept
    <2> QED
      BY <2>1 DEF Calls
  <1>7. Whole(place)'
    <2>1. ASSUME NEW s \in Given PROVE SpanWhole(place, s)'
      <3>1. SpanWhole(place, s) /\ BlocksOf(s)' = BlocksOf(s)
        BY <1>2 DEF Good, Whole, Given
      <3> QED
        BY <3>1, WholeKept
    <2> QED
      BY <1>2, <2>1 DEF Whole
  <1> QED
    BY <1>1, <1>2, <1>3, <1>4, <1>5, <1>6, <1>7 DEF Good

-----------------------------------------------------------------------------
(* What the operations on lists leave.  Begins (and LenFrom) of the lists    *)
(* that are not touched stays.                                               *)
Untouched(place, rank, after, ranked, touched) ==
  \A y \in ListPlaces \ touched, h \in Addresses \cup {0} :
    Begins(place, rank, y, h) =>
      Begins(after, ranked, y, h) /\ LenFrom(ranked, h) = LenFrom(rank, h)

(* A list whose blocks keep their place and rank is untouched. *)
LEMMA UntouchedIf ==
  ASSUME NEW place, NEW rank, NEW after, NEW ranked, NEW touched,
         PlaceType(place, rank),
         \A b \in Addresses : \A y \in ListPlaces \ touched :
           /\ after[b] = y <=> place[b] = y
           /\ place[b] = y => ranked[b] = rank[b]
  PROVE  Untouched(place, rank, after, ranked, touched)
PROOF
  <1> SUFFICES ASSUME NEW y \in ListPlaces \ touched, NEW h \in Addresses \cup {0},
                      Begins(place, rank, y, h)
               PROVE  Begins(after, ranked, y, h) /\ LenFrom(ranked, h) = LenFrom(rank, h)
    BY DEF Untouched
  <1>1. CASE h = 0
    BY <1>1, AddressFacts DEF Begins, LenFrom
  <1>2. CASE h # 0
    <2>1. h \in Addresses /\ place[h] = y /\ \A b \in Addresses : place[b] = y => rank[b] <= rank[h]
      BY <1>2 DEF Begins
    <2>2. ranked[h] = rank[h] /\ after[h] = y
      BY <2>1
    <2>3. \A b \in Addresses : after[b] = y => ranked[b] <= ranked[h]
      BY <2>1, <2>2
    <2> QED
      BY <1>2, <2>1, <2>2, <2>3 DEF Begins, LenFrom
  <1> QED
    BY <1>1, <1>2

(* The first block is taken from list x, and the lists in dropped are lost.  *)
Popped(place, rank, after, dropped, x, a) ==
  /\ x \in ListPlaces /\ x \notin dropped
  /\ a \in Addresses /\ Begins(place, rank, x, a)
  /\ after \in [Addresses -> Places] /\ after[a] \notin ListPlaces
  /\ \A c \in Addresses \ {a} :
       /\ after[c] = IF place[c] \in dropped THEN None ELSE place[c]
       /\ after[c] # None => next'[c] = next[c]

(* The first block of a list leaves it: the others are still a list. *)
LEMMA PopHead ==
  ASSUME NEW place, NEW rank, Types, PlaceType(place, rank),
         Linked(place, rank), Ranked(place, rank),
         NEW after, NEW dropped, NEW x, NEW a, Popped(place, rank, after, dropped, x, a)
  PROVE  /\ PlaceType(after, rank) /\ Linked(after, rank)' /\ Ranked(after, rank)
         /\ Begins(after, rank, x, next[a])
         /\ LenFrom(rank, next[a]) = LenFrom(rank, a) - 1
         /\ \A y \in ListPlaces \cap dropped : Begins(after, rank, y, 0)
         /\ Untouched(place, rank, after, rank, dropped \cup {x})
PROOF
  <1>0. /\ x \in ListPlaces /\ x \notin dropped
        /\ a \in Addresses /\ Begins(place, rank, x, a)
        /\ after \in [Addresses -> Places] /\ after[a] \notin ListPlaces
        /\ \A c \in Addresses \ {a} :
             /\ after[c] = IF place[c] \in dropped THEN None ELSE place[c]
             /\ after[c] # None => next'[c] = next[c]
    BY DEF Popped
  <1> USE <1>0
  <1>1. /\ place \in [Addresses -> Places] /\ \A b \in Addresses : rank[b] \in Nat \ {0}
        /\ None \notin ListPlaces
    BY PlaceSets DEF PlaceType
  <1>2. place[a] = x /\ (\A b \in Addresses : place[b] = x => rank[b] <= rank[a])
    BY AddressFacts DEF Begins
  <1>3. PlaceType(after, rank)
    BY DEF PlaceType
  <1>4. Ranked(after, rank)
    BY <1>1 DEF Ranked
  <1>5. ASSUME NEW c \in Addresses, after[c] \in ListPlaces
        PROVE  \/ rank[c] = 1 /\ next'[c] = 0
               \/ /\ rank[c] > 1 /\ next'[c] \in Addresses
                  /\ after[next'[c]] = after[c] /\ rank[next'[c]] = rank[c] - 1
    <2>1. c # a /\ after[c] = place[c] /\ place[c] \notin dropped /\ next'[c] = next[c]
      BY <1>1, <1>5
    <2>2. CASE rank[c] = 1 /\ next[c] = 0
      BY <2>1, <2>2
    <2>3. CASE /\ rank[c] > 1 /\ next[c] \in Addresses
               /\ place[next[c]] = place[c] /\ rank[next[c]] = rank[c] - 1
      <3>1. next[c] # a
        BY <1>1, <1>2, <2>3
      <3> QED
        BY <2>1, <2>3, <3>1
    <2> QED
      BY <1>5, <2>1, <2>2, <2>3 DEF Linked
  <1>6. Linked(after, rank)'
    BY <1>5 DEF Linked
  <1>7. Begins(after, rank, x, next[a]) /\ LenFrom(rank, next[a]) = LenFrom(rank, a) - 1
    <2>1. a # 0 /\ LenFrom(rank, a) = rank[a]
      BY AddressFacts DEF LenFrom
    <2>2. \A c \in Addresses : after[c] = x => c # a /\ place[c] = x /\ rank[c] < rank[a]
      <3> TAKE c \in Addresses
      <3> HAVE after[c] = x
      <3>1. c # a /\ place[c] = x
        BY <1>1
      <3>2. rank[c] # rank[a]
        BY <1>2, <3>1 DEF Ranked
      <3> QED
        BY <1>1, <1>2, <3>1, <3>2
    <2>3. CASE rank[a] = 1 /\ next[a] = 0
      <3>1. \A c \in Addresses : after[c] # x
        BY <1>1, <2>2, <2>3
      <3> QED
        BY <2>1, <2>3, <3>1 DEF Begins, LenFrom
    <2>4. CASE /\ rank[a] > 1 /\ next[a] \in Addresses
               /\ place[next[a]] = x /\ rank[next[a]] = rank[a] - 1
      <3>1. next[a] # a /\ next[a] # 0
        BY <1>1, <2>4, AddressFacts
      <3>3. after[next[a]] = x
        BY <2>4, <3>1
      <3>2. \A c \in Addresses : after[c] = x => rank[c] <= rank[next[a]]
        BY <1>1, <2>2, <2>4
      <3> QED
        BY <2>1, <2>4, <3>1, <3>2, <3>3 DEF Begins, LenFrom
    <2> QED
      BY <1>2, <2>3, <2>4 DEF Linked
  <1>8. \A y \in ListPlaces \cap dropped : Begins(after, rank, y, 0)
    BY <1>1 DEF Begins
  <1>9. Untouched(place, rank, after, rank, dropped \cup {x})
    BY <1>1, <1>2, UntouchedIf
  <1> QED
    BY <1>3, <1>4, <1>6, <1>7, <1>8, <1>9

(* Block b, which is in no list, is put before list x, which becomes list y. *)
Pushed(place, rank, after, ranked, x, y, a, b) ==
  /\ x \in ListPlaces /\ y \in ListPlaces /\ Begins(place, rank, x, a)
  /\ x # y => \A c \in Addresses : place[c] # y
  /\ b \in Addresses /\ place[b] \notin ListPlaces
  /\ next'[b] = a /\ \A c \in Addresses \ {b} : next'[c] = next[c]
  /\ after = [c \in Addresses |-> IF c = b \/ place[c] = x THEN y ELSE place[c]]
  /\ ranked = [rank EXCEPT ![b] = LenFrom(rank, a) + 1]

(* A block becomes the first one of a list. *)
LEMMA PushMove ==
  ASSUME NEW place, NEW rank, Types, PlaceType(place, rank),
         Linked(place, rank), Ranked(place, rank),
         NEW after, NEW ranked, NEW x, NEW y, NEW a, NEW b,
         Pushed(place, rank, after, ranked, x, y, a, b)
  PROVE  /\ PlaceType(after, ranked) /\ Linked(after, ranked)' /\ Ranked(after, ranked)
         /\ Begins(after, ranked, y, b) /\ LenFrom(ranked, b) = LenFrom(rank, a) + 1
         /\ x # y => Begins(after, ranked, x, 0)
         /\ Untouched(place, rank, after, ranked, {x, y})
PROOF
  <1>0. /\ x \in ListPlaces /\ y \in ListPlaces /\ Begins(place, rank, x, a)
        /\ x # y => \A c \in Addresses : place[c] # y
        /\ b \in Addresses /\ place[b] \notin ListPlaces
        /\ next'[b] = a /\ \A c \in Addresses \ {b} : next'[c] = next[c]
        /\ after = [c \in Addresses |-> IF c = b \/ place[c] = x THEN y ELSE place[c]]
        /\ ranked = [rank EXCEPT ![b] = LenFrom(rank, a) + 1]
    BY DEF Pushed
  <1> USE <1>0
  <1> DEFINE L == LenFrom(rank, a)
  <1>1. /\ L \in Nat /\ (L = 0 <=> a = 0)
        /\ a # 0 => a \in Addresses /\ place[a] = x /\ rank[a] = L
        /\ \A c \in Addresses : place[c] = x => rank[c] \in 1 .. L
    BY BeginsFacts
  <1> HIDE DEF L
  <1>2. /\ \A c \in Addresses : rank[c] \in Nat \ {0}
        /\ ranked[b] = L + 1 /\ \A c \in Addresses \ {b} : ranked[c] = rank[c]
        /\ rank \in [Addresses -> Nat \ {0}] /\ place \in [Addresses -> Places]
    BY DEF PlaceType, L
  <1>3. /\ after[b] = y
        /\ \A c \in Addresses \ {b} : after[c] = IF place[c] = x THEN y ELSE place[c]
    OBVIOUS
  <1>4. PlaceType(after, ranked)
    <2>1. after \in [Addresses -> Places]
      BY <1>2, PlaceSets
    <2>2. ranked \in [Addresses -> Nat \ {0}]
      BY <1>1, <1>2 DEF L
    <2> QED
      BY <2>1, <2>2 DEF PlaceType
  <1>5. \A c \in Addresses \ {b} : after[c] = y => place[c] = x
    BY <1>3
  <1>6. ASSUME NEW c \in Addresses, NEW d \in Addresses, after[c] \in ListPlaces,
               after[c] = after[d], ranked[c] = ranked[d]
        PROVE  c = d
    <2>1. CASE c = b \/ d = b
      BY <1>1, <1>2, <1>3, <1>5, <1>6, <2>1
    <2>2. CASE c # b /\ d # b
      <3>1. place[c] = place[d] /\ place[c] \in ListPlaces
        BY <1>3, <1>5, <1>6, <2>2
      <3> QED
        BY <1>2, <1>6, <2>2, <3>1 DEF Ranked
    <2> QED
      BY <2>1, <2>2
  <1>7. ASSUME NEW c \in Addresses, after[c] \in ListPlaces
        PROVE  \/ ranked[c] = 1 /\ next'[c] = 0
               \/ /\ ranked[c] > 1 /\ next'[c] \in Addresses
                  /\ after[next'[c]] = after[c] /\ ranked[next'[c]] = ranked[c] - 1
    <2>1. CASE c = b
      <3>1. CASE a = 0
        BY <1>1, <1>2, <2>1, <3>1
      <3>2. CASE a # 0
        <4>1. a # b
          BY <1>1, <3>2
        <4> QED
          BY <1>1, <1>2, <1>3, <2>1, <3>2, <4>1
      <3> QED
        BY <3>1, <3>2
    <2>2. CASE c # b
      <3>1. place[c] \in ListPlaces /\ next'[c] = next[c] /\ ranked[c] = rank[c]
        BY <1>2, <1>3, <1>7, <2>2
      <3>2. CASE rank[c] = 1 /\ next[c] = 0
        BY <3>1, <3>2
      <3>3. CASE /\ rank[c] > 1 /\ next[c] \in Addresses
                 /\ place[next[c]] = place[c] /\ rank[next[c]] = rank[c] - 1
        <4>1. next[c] # b
          BY <3>1, <3>3
        <4> QED
          BY <1>2, <1>3, <2>2, <3>1, <3>3, <4>1
      <3> QED
        BY <3>1, <3>2, <3>3 DEF Linked
    <2> QED
      BY <2>1, <2>2
  <1>8. Begins(after, ranked, y, b) /\ LenFrom(ranked, b) = L + 1
    <2>1. b # 0
      BY AddressFacts
    <2>2. \A c \in Addresses : after[c] = y => ranked[c] <= ranked[b]
      BY <1>1, <1>2, <1>5
    <2> QED
      BY <1>2, <1>3, <2>1, <2>2 DEF Begins, LenFrom
  <1>9. x # y => Begins(after, ranked, x, 0)
    BY <1>3 DEF Begins
  <1>10. Untouched(place, rank, after, ranked, {x, y})
    <2>1. \A c \in Addresses : \A z \in ListPlaces \ {x, y} :
            (after[c] = z <=> place[c] = z) /\ (place[c] = z => ranked[c] = rank[c])
      BY <1>2, <1>3
    <2> QED
      BY <2>1, UntouchedIf, ZenonT(60)
  <1> QED
    BY <1>4, <1>6, <1>7, <1>8, <1>9, <1>10 DEF Linked, Ranked, L

(* The first n blocks of list x are taken: the first goes to a user, the     *)
(* others are list y, which is empty.                                        *)
Split(place, rank, after, ranked, x, y, a, n, last) ==
  /\ x \in ListPlaces /\ y \in ListPlaces /\ x # y
  /\ a \in Addresses /\ Begins(place, rank, x, a)
  /\ \A c \in Addresses : place[c] # y
  /\ n \in Nat \ {0} /\ n <= rank[a]
  /\ last \in Addresses /\ place[last] = x /\ rank[last] = rank[a] - n + 1
  /\ next' = [[next EXCEPT ![last] = 0] EXCEPT ![a] = 0]
  /\ after = [c \in Addresses |->
       IF place[c] = x /\ rank[c] > rank[a] - n THEN IF c = a THEN User ELSE y ELSE place[c]]
  /\ ranked = [c \in Addresses |->
       IF place[c] = x /\ rank[c] > rank[a] - n THEN rank[c] - (rank[a] - n) ELSE rank[c]]

(* The blocks taken and those that stay are lists.                           *)
LEMMA SplitHead ==
  ASSUME NEW place, NEW rank, Types, PlaceType(place, rank),
         Linked(place, rank), Ranked(place, rank),
         NEW after, NEW ranked, NEW x, NEW y, NEW a, NEW n, NEW last,
         Split(place, rank, after, ranked, x, y, a, n, last)
  PROVE  /\ PlaceType(after, ranked) /\ Linked(after, ranked)' /\ Ranked(after, ranked)
         /\ Begins(after, ranked, x, next[last])
         /\ Begins(after, ranked, y, IF n = 1 THEN 0 ELSE next[a])
         /\ n # 1 => LenFrom(ranked, next[a]) = n - 1
         /\ Untouched(place, rank, after, ranked, {x, y})
PROOF
  <1>0. /\ x \in ListPlaces /\ y \in ListPlaces /\ x # y
        /\ a \in Addresses /\ Begins(place, rank, x, a)
        /\ \A c \in Addresses : place[c] # y
        /\ n \in Nat \ {0} /\ n <= rank[a]
        /\ last \in Addresses /\ place[last] = x /\ rank[last] = rank[a] - n + 1
        /\ next' = [[next EXCEPT ![last] = 0] EXCEPT ![a] = 0]
        /\ after = [c \in Addresses |->
             IF place[c] = x /\ rank[c] > rank[a] - n THEN IF c = a THEN User ELSE y ELSE place[c]]
        /\ ranked = [c \in Addresses |->
             IF place[c] = x /\ rank[c] > rank[a] - n THEN rank[c] - (rank[a] - n) ELSE rank[c]]
    BY DEF Split
  <1> USE <1>0
  <1> DEFINE L == rank[a]
             M == rank[a] - n
             Taken(c) == place[c] = x /\ rank[c] > M
  <1>1. /\ \A c \in Addresses : rank[c] \in Nat \ {0}
        /\ place \in [Addresses -> Places] /\ next \in [Addresses -> Addresses \cup {0}]
    BY DEF PlaceType, Types
  <1>2. /\ place[a] = x /\ \A c \in Addresses : place[c] = x => rank[c] <= L
        /\ L \in Nat \ {0} /\ M \in Nat /\ M = L - n
    BY <1>1, AddressFacts DEF Begins
  <1>3. \A c \in Addresses :
          /\ Taken(c) => ranked[c] = rank[c] - M /\ ranked[c] \in 1 .. n
          /\ ~Taken(c) => ranked[c] = rank[c]
          /\ Taken(c) => after[c] = IF c = a THEN User ELSE y
          /\ ~Taken(c) => after[c] = place[c]
    BY <1>1, <1>2
  <1>4. PlaceType(after, ranked)
    <2>1. after \in [Addresses -> Places]
      BY <1>1, PlaceSets
    <2>2. ranked \in [Addresses -> Nat \ {0}]
      BY <1>1, <1>2, SMTT(60)
    <2> QED
      BY <2>1, <2>2 DEF PlaceType
  <1>5. Taken(a) /\ after[a] = User /\ ranked[a] = n
    BY <1>1, <1>2, <1>3
  <1>6. Taken(last) /\ ranked[last] = 1
    BY <1>1, <1>2, <1>3
  <1>7. /\ next'[last] = 0 /\ next'[a] = 0
        /\ \A c \in Addresses \ {a, last} : next'[c] = next[c]
    BY <1>1
  <1>8. \A c \in Addresses :
          /\ after[c] = y <=> Taken(c) /\ c # a
          /\ \A z \in ListPlaces \ {y} : after[c] = z <=> place[c] = z /\ ~Taken(c)
    BY <1>3, PlaceSets
  <1> HIDE DEF Taken, L, M
  <1>9. ASSUME NEW c \in Addresses, NEW d \in Addresses, after[c] \in ListPlaces,
               after[c] = after[d], ranked[c] = ranked[d]
        PROVE  c = d
    <2>1. CASE after[c] = y
      <3>1. Taken(c) /\ Taken(d) /\ place[c] = x /\ place[d] = x
        BY <1>8, <1>9, <2>1 DEF Taken
      <3>2. rank[c] - M = rank[d] - M /\ rank[c] \in Nat /\ rank[d] \in Nat
        BY <1>1, <1>3, <1>9, <3>1
      <3>3. rank[c] = rank[d]
        BY <1>2, <3>2
      <3> QED
        BY <3>1, <3>3 DEF Ranked
    <2>2. CASE after[c] # y
      <3>1. ~Taken(c) /\ ~Taken(d) /\ place[c] = after[c] /\ place[d] = after[c]
        BY <1>8, <1>9, <2>2
      <3> QED
        BY <1>3, <1>9, <3>1 DEF Ranked
    <2> QED
      BY <2>1, <2>2
  <1>10. ASSUME NEW c \in Addresses, place[c] \in ListPlaces, rank[c] # 1
         PROVE  /\ next[c] \in Addresses /\ place[next[c]] = place[c]
                /\ rank[next[c]] = rank[c] - 1 /\ next[c] # 0
    BY <1>10, AddressFacts DEF Linked
  <1>11. ASSUME NEW c \in Addresses, Taken(c), rank[c] # M + 1
         PROVE  /\ next[c] \in Addresses /\ next[c] # 0 /\ next[c] # a
                /\ Taken(next[c]) /\ ranked[next[c]] = ranked[c] - 1
    <2> place[c] = x /\ rank[c] > M
      BY <1>11 DEF Taken
    <2>1. rank[c] # 1 /\ rank[c] <= L
      <3>1. rank[c] \in Nat /\ M \in Nat /\ rank[c] <= L
        BY <1>1, <1>2
      <3> QED
        BY <1>11, <3>1
    <2>2. next[c] \in Addresses /\ place[next[c]] = x /\ rank[next[c]] = rank[c] - 1 /\ next[c] # 0
      BY <1>10, <2>1
    <2>3. Taken(next[c])
      BY <1>1, <1>2, <1>11, <2>1, <2>2 DEF Taken
    <2>4. ranked[next[c]] = ranked[c] - 1
      BY <1>1, <1>2, <1>3, <1>11, <2>2, <2>3
    <2>5. next[c] # a
      BY <1>1, <2>1, <2>2 DEF L
    <2> QED
      BY <2>2, <2>3, <2>4, <2>5
  <1>12. ASSUME NEW c \in Addresses, after[c] \in ListPlaces
         PROVE  \/ ranked[c] = 1 /\ next'[c] = 0
                \/ /\ ranked[c] > 1 /\ next'[c] \in Addresses
                   /\ after[next'[c]] = after[c] /\ ranked[next'[c]] = ranked[c] - 1
    <2>1. CASE after[c] = y
      <3>1. Taken(c) /\ c # a /\ ranked[c] = rank[c] - M
        BY <1>3, <1>8, <2>1
      <3>2. CASE rank[c] = M + 1
        <4>1. c = last
          BY <1>2, <1>6, <3>1, <3>2 DEF Ranked, Taken, L, M
        <4> QED
          BY <1>6, <1>7, <4>1
      <3>3. CASE rank[c] # M + 1
        <4>1. c # last
          BY <1>2, <3>3 DEF L
        <4>2. /\ next[c] \in Addresses /\ next[c] # a
              /\ Taken(next[c]) /\ ranked[next[c]] = ranked[c] - 1
          BY <1>11, <3>1, <3>3
        <4>3. after[next[c]] = y /\ next'[c] = next[c]
          BY <1>7, <1>8, <3>1, <4>1, <4>2
        <4>4. ranked[c] > 1
          BY <1>3, <3>1, <4>2
        <4> QED
          BY <2>1, <4>2, <4>3, <4>4
      <3> QED
        BY <3>2, <3>3
    <2>2. CASE after[c] # y
      <3>1. ~Taken(c) /\ place[c] = after[c] /\ ranked[c] = rank[c] /\ c # a /\ c # last
        BY <1>3, <1>5, <1>6, <1>8, <1>12, <2>2
      <3>2. next'[c] = next[c]
        BY <1>7, <3>1
      <3>3. CASE rank[c] = 1
        <4>1. next[c] = 0
          BY <1>12, <3>1, <3>3 DEF Linked
        <4> QED
          BY <3>1, <3>2, <3>3, <4>1
      <3>4. CASE rank[c] # 1
        <4>1. next[c] \in Addresses /\ place[next[c]] = place[c] /\ rank[next[c]] = rank[c] - 1
          BY <1>10, <1>12, <3>1, <3>4
        <4>2. ~Taken(next[c])
          BY <1>1, <1>2, <3>1, <4>1 DEF Taken
        <4>3. after[next[c]] = after[c] /\ ranked[next[c]] = rank[next[c]]
          BY <1>3, <3>1, <4>1, <4>2
        <4>4. rank[c] > 1
          <5>1. rank[c] \in Nat \ {0}
            BY <1>1
          <5> HIDE <1>0
          <5> QED
            BY <3>4, <5>1
        <4> QED
          BY <3>1, <3>2, <4>1, <4>3, <4>4
      <3> QED
        BY <3>3, <3>4
    <2> QED
      BY <2>1, <2>2
  <1>13. Begins(after, ranked, x, next[last])
    <2>1. \A c \in Addresses : after[c] = x => ~Taken(c) /\ place[c] = x /\ rank[c] <= M /\ ranked[c] = rank[c]
      BY <1>1, <1>2, <1>3, <1>8 DEF Taken
    <2>2. CASE rank[last] = 1
      <3>1. next[last] = 0
        BY <2>2 DEF Linked
      <3>2. M = 0
        BY <1>2, <2>2 DEF L
      <3>3. \A c \in Addresses : after[c] # x
        BY <1>1, <2>1, <3>2
      <3> QED
        BY <3>1, <3>3 DEF Begins
    <2>3. CASE rank[last] # 1
      <3>1. /\ next[last] \in Addresses /\ place[next[last]] = x /\ next[last] # 0
            /\ rank[next[last]] = M
        BY <1>2, <1>10, <2>3 DEF L
      <3>2. ~Taken(next[last])
        BY <1>2, <3>1 DEF Taken
      <3>3. after[next[last]] = x /\ ranked[next[last]] = M
        BY <1>3, <3>1, <3>2
      <3> QED
        BY <2>1, <3>1, <3>3 DEF Begins
    <2> QED
      BY <2>2, <2>3
  <1>14. /\ Begins(after, ranked, y, IF n = 1 THEN 0 ELSE next[a])
         /\ n # 1 => LenFrom(ranked, next[a]) = n - 1
    <2>1. \A c \in Addresses : after[c] = y => Taken(c) /\ c # a /\ ranked[c] = rank[c] - M
      BY <1>3, <1>8
    <2>2. \A c \in Addresses : after[c] = y => rank[c] < L
      <3> TAKE c \in Addresses
      <3> HAVE after[c] = y
      <3>1. place[c] = x /\ rank[c] # L
        BY <1>2, <2>1 DEF Taken, Ranked, L
      <3> QED
        BY <1>1, <1>2, <3>1
    <2>3. CASE n = 1
      <3>1. \A c \in Addresses : after[c] # y
        BY <1>1, <1>2, <2>1, <2>2, <2>3 DEF Taken
      <3> QED
        BY <2>3, <3>1 DEF Begins
    <2>4. CASE n # 1
      <3>1. rank[a] # M + 1
        BY <1>2, <2>4 DEF L
      <3>2. /\ next[a] \in Addresses /\ next[a] # 0 /\ next[a] # a
            /\ Taken(next[a]) /\ ranked[next[a]] = n - 1
        BY <1>5, <1>11, <3>1
      <3>3. after[next[a]] = y
        BY <1>8, <3>2
      <3>4. \A c \in Addresses : after[c] = y => ranked[c] <= n - 1
        BY <1>1, <1>2, <2>1, <2>2
      <3> QED
        BY <2>4, <3>2, <3>3, <3>4 DEF Begins, LenFrom
    <2> QED
      BY <2>3, <2>4
  <1>15. Untouched(place, rank, after, ranked, {x, y})
    <2>1. \A c \in Addresses : \A z \in ListPlaces \ {x, y} :
            (after[c] = z <=> place[c] = z) /\ (place[c] = z => ranked[c] = rank[c])
      BY <1>3, <1>8 DEF Taken
    <2> QED
      BY <2>1, UntouchedIf
  <1> QED
    BY <1>4, <1>9, <1>12, <1>13, <1>14, <1>15 DEF Linked, Ranked

(* The lock is taken: no other thread is in the loop for that list. *)
LEMMA RecoverLockStep ==
  ASSUME NEW place, NEW rank, Good(place, rank), NEW t \in Threads, RecoverLock(t)
  PROVE  Good(place, rank)'
PROOF
  <1>1. /\ UNCHANGED <<next, span, lists, tc, used>>
        /\ call[t].at = "recover" /\ LockFree(t)
    BY DEF RecoverLock
  <1>2. /\ call' \in [Threads -> CallType]
        /\ \A u \in Threads \ {t} : call'[u] = call[u]
        /\ call'[t].at = "loop" /\ call'[t].align = call[t].align
        /\ call'[t].start = call[t].start
    BY DEF RecoverLock, Good, Types, CallType
  <1>3. CallOf(place, t)'
    BY <1>1, <1>2 DEF Good, Calls, CallOf
  <1>4. CallsApart'
    <2>1. \A u \in Threads \ {t} : call[u].at = "loop" => ListOf(u) # Index(call'[t].align)
      BY <1>1, <1>2 DEF LockFree, ListOf
    <2> QED
      BY <1>2, <2>1, ApartKept DEF Good
  <1>5. Sized(rank)' /\ tc \in [Threads -> [Lists -> CacheType]]
    BY <1>1 DEF Good, Sized, Types
  <1> QED
    BY <1>1, <1>2, <1>3, <1>4, <1>5, CallOnly

(* The end of recover_blocks_to_spans. *)
LEMMA RecoverDoneStep ==
  ASSUME NEW place, NEW rank, Good(place, rank), NEW t \in Threads, RecoverDone(t)
  PROVE  Good(place, rank)'
PROOF
  <1>1. /\ UNCHANGED <<next, span, lists, tc, used>>
        /\ call[t].at = "loop" /\ call[t].start = 0
    BY DEF RecoverDone
  <1>2. /\ call' \in [Threads -> CallType]
        /\ \A u \in Threads \ {t} : call'[u] = call[u]
        /\ call'[t].at = "idle" /\ call'[t].start = 0
    BY DEF RecoverDone, Good, Types, CallType, Idle
  <1>3. CallOf(place, t)'
    BY <1>1, <1>2 DEF CallOf
  <1>4. CallsApart'
    BY <1>2, ApartKept DEF Good
  <1>5. Sized(rank)' /\ tc \in [Threads -> [Lists -> CacheType]]
    BY <1>1 DEF Good, Sized, Types
  <1> QED
    BY <1>1, <1>2, <1>3, <1>4, <1>5, CallOnly

(* No span with a free block was found. *)
LEMMA AllocMissedStep ==
  ASSUME NEW place, NEW rank, Good(place, rank), NEW t \in Threads, AllocMissed(t)
  PROVE  Good(place, rank)'
PROOF
  <1>1. /\ UNCHANGED <<next, span, lists, tc, used>>
        /\ call[t].at = "alloc"
    BY DEF AllocMissed
  <1>2. /\ call' \in [Threads -> CallType]
        /\ \A u \in Threads \ {t} : call'[u] = call[u]
        /\ call'[t].at = "span" /\ call'[t].align = call[t].align
        /\ call'[t].start = call[t].start /\ call'[t].count = call[t].count
    BY DEF AllocMissed, Good, Types, CallType
  <1>3. CallOf(place, t)'
    <2>1. CallOf(place, t)
      BY DEF Good, Calls
    <2>2. ListOf(t)' = ListOf(t)
      BY <1>2 DEF ListOf
    <2> QED
      BY <1>1, <1>2, <2>1, <2>2 DEF CallOf
  <1>4. CallsApart'
    BY <1>2, ApartKept DEF Good
  <1>5. Sized(rank)' /\ tc \in [Threads -> [Lists -> CacheType]]
    BY <1>1 DEF Good, Sized, Types
  <1> QED
    BY <1>1, <1>2, <1>3, <1>4, <1>5, CallOnly

(* The call that crashes changes nothing else. *)
LEMMA FreeNoCacheStep ==
  ASSUME NEW place, NEW rank, Good(place, rank), NEW t \in Threads, NEW b, FreeNoCache(t, b)
  PROVE  Good(place, rank)'
PROOF
  <1>1. /\ UNCHANGED <<next, span, lists, tc, used>>
        /\ call[t].at = "idle"
    BY DEF FreeNoCache
  <1>2. /\ call' \in [Threads -> CallType]
        /\ \A u \in Threads \ {t} : call'[u] = call[u]
        /\ call'[t].at = "crashed" /\ call'[t].align = call[t].align
        /\ call'[t].start = call[t].start
    BY DEF FreeNoCache, Good, Types, CallType
  <1>3. CallOf(place, t)'
    BY <1>1, <1>2 DEF Good, Calls, CallOf
  <1>4. CallsApart'
    BY <1>2, ApartKept DEF Good
  <1>5. Sized(rank)' /\ tc \in [Threads -> [Lists -> CacheType]]
    BY <1>1 DEF Good, Sized, Types
  <1> QED
    BY <1>1, <1>2, <1>3, <1>4, <1>5, CallOnly

(* The smaller of two numbers. *)
LEMMA MinIs ==
  ASSUME NEW m \in Nat, NEW n \in Nat
  PROVE  Min({m, n}) = IF m <= n THEN m ELSE n
  BY DEF Min

(* A thread asks for no more blocks than apply_count allows, and apply_count *)
(* grows to one more than the threshold at most.                             *)
LEMMA MallocCentralStep ==
  ASSUME NEW place, NEW rank, Good(place, rank), NEW t \in Threads, NEW n \in Requests,
         MallocCentral(t, n)
  PROVE  Good(place, rank)'
PROOF
  <1> DEFINE i == Index(n)
             l == tc[t][i]
             m == BlockCount(l.apply, BlockThreshHold(RoundUp(n)))
  <1>1. /\ UNCHANGED <<next, span, lists, used>>
        /\ call[t].at = "idle" /\ l.header = 0
    BY DEF MallocCentral
  <1>2. Types /\ CallOf(place, t) /\ Sized(rank) /\ CallsApart
    BY DEF Good, Calls
  <1>3. /\ i \in Lists /\ RoundUp(n) \in Aligns /\ Index(RoundUp(n)) = i
        /\ RoundUp(n) \in Nat /\ BlockThreshHold(RoundUp(n)) \in Nat \ {0}
    BY RequestFacts, ClassFacts
  <1>4. /\ l \in CacheType /\ l.apply \in Nat /\ l.size < l.apply /\ l.size \in Nat
        /\ \A q \in Requests : Index(q) = i => l.apply <= BlockThreshHold(RoundUp(q)) + 1
    BY <1>2, <1>3 DEF Types, Sized, CacheType
  <1>5. /\ m \in Nat \ {0} /\ m <= l.apply /\ m <= BlockThreshHold(RoundUp(n))
        /\ (m # l.apply => m < l.apply)
    BY <1>3, <1>4, MinIs DEF BlockCount
  <1> HIDE DEF m
  <1>6. /\ call' \in [Threads -> CallType]
        /\ \A u \in Threads \ {t} : call'[u] = call[u]
        /\ call'[t].at = "alloc" /\ call'[t].align = RoundUp(n)
        /\ call'[t].start = call[t].start /\ call'[t].count = m
    <2>1. call' = [call EXCEPT ![t] = [@ EXCEPT !.at = "alloc", !.align = RoundUp(n), !.count = m]]
      BY DEF MallocCentral, m
    <2> QED
      BY <1>2, <1>3, <1>5, <2>1 DEF Types, CallType
  <1>7. /\ tc' \in [Threads -> [Lists -> CacheType]]
        /\ \A u \in Threads \ {t} : tc'[u] = tc[u]
        /\ \A j \in Lists \ {i} : tc'[t][j] = tc[t][j]
        /\ tc'[t][i].header = l.header /\ tc'[t][i].size = l.size
        /\ tc'[t][i].apply = IF m = l.apply THEN l.apply + 1 ELSE l.apply
    <2>1. tc' = [tc EXCEPT ![t][i] = IF m = @.apply THEN Increment(@) ELSE @]
      BY DEF MallocCentral, m
    <2>2. /\ Increment(l) \in CacheType /\ Increment(l).header = l.header
          /\ Increment(l).size = l.size /\ Increment(l).apply = l.apply + 1
      BY <1>4 DEF Increment, CacheType
    <2> DEFINE after == IF m = l.apply THEN Increment(l) ELSE l
    <2>3. tc' = [tc EXCEPT ![t] = [tc[t] EXCEPT ![i] = after]]
      BY <1>2, <1>3, <2>1 DEF Types
    <2>4. after \in CacheType
      BY <1>4, <2>2
    <2>5. after.header = l.header /\ after.size = l.size
           /\ after.apply = IF m = l.apply THEN l.apply + 1 ELSE l.apply
      BY <2>2
    <2> HIDE DEF after, l
    <2> QED
      BY <1>2, <1>3, <2>3, <2>4, <2>5 DEF Types
  <1>8. CallOf(place, t)'
    <2>1. ListOf(t)' = i
      BY <1>3, <1>6 DEF ListOf
    <2>2. call[t].start = 0
      BY <1>1, <1>2 DEF CallOf
    <2>3. tc'[t][ListOf(t)'].header = 0 /\ 1 <= call'[t].count
          /\ call'[t].count < tc'[t][ListOf(t)'].apply
      BY <1>1, <1>4, <1>5, <1>6, <1>7, <2>1
    <2> HIDE DEF l, i
    <2> QED
      BY <1>3, <1>6, <2>2, <2>3 DEF CallOf
  <1>9. CallsApart'
    BY <1>2, <1>6, ApartKept
  <1>10. Sized(rank)'
    <2>1. ASSUME NEW u \in Threads, NEW j \in Lists
          PROVE  /\ tc'[u][j].size = LenFrom(rank, tc'[u][j].header)
                 /\ tc'[u][j].size < tc'[u][j].apply
                 /\ \A q \in Requests : Index(q) = j => tc'[u][j].apply <= BlockThreshHold(RoundUp(q)) + 1
      <3>1. CASE u = t /\ j = i
        <4>1. tc'[u][j].size = LenFrom(rank, tc'[u][j].header)
          BY <1>2, <1>3, <1>7, <3>1 DEF Sized
        <4>2. tc'[u][j].size < tc'[u][j].apply
          BY <1>4, <1>7, <3>1
        <4>3. \A q \in Requests : Index(q) = j => tc'[u][j].apply <= BlockThreshHold(RoundUp(q)) + 1
          <5> TAKE q \in Requests
          <5> HAVE Index(q) = j
          <5>1. RoundUp(q) = RoundUp(n)
            BY <3>1, RequestFacts
          <5>2. l.apply <= BlockThreshHold(RoundUp(q)) + 1
            BY <1>4, <3>1
          <5>3. CASE m = l.apply
            BY <1>3, <1>4, <1>5, <1>7, <3>1, <5>1, <5>3
          <5>4. CASE m # l.apply
            BY <1>7, <3>1, <5>2, <5>4
          <5> QED
            BY <5>3, <5>4
        <4> QED
          BY <4>1, <4>2, <4>3
      <3>2. CASE ~(u = t /\ j = i)
        <4>1. tc'[u][j] = tc[u][j]
          BY <1>7, <3>2
        <4> QED
          BY <1>2, <4>1 DEF Sized
      <3> QED
        BY <3>1, <3>2
    <2> QED
      BY <2>1 DEF Sized, LenFrom
  <1>11. \A j \in Lists : tc'[t][j].header = tc[t][j].header
    BY <1>7
  <1>12. call[t].start = 0
    BY <1>1, <1>2 DEF CallOf
  <1> HIDE DEF l, i
  <1> QED
    BY <1>1, <1>6, <1>7, <1>8, <1>9, <1>10, <1>11, <1>12, CallOnly
-----------------------------------------------------------------------------
(* Before a span is in its list, and after it has left it, nobody has a      *)
(* block of it.                                                              *)
LEMMA PendingFacts ==
  ASSUME NEW place, NEW rank, Good(place, rank), NEW u \in Threads,
         call[u].at \in {"insert", "giveback"}
  PROVE  /\ call[u].span \in Given /\ call[u].span \in Spans
         /\ \A i \in Lists : \A k \in DOMAIN lists[i] : lists[i][k] # call[u].span
         /\ \A b \in BlocksOf(call[u].span) : place[b] \notin HeldPlaces
  BY DEF Good, Calls, CallOf, Given

(* A span in the middle of the loop stays as it is. *)
LEMMA AliasKept ==
  ASSUME NEW place, NEW after, NEW s \in Spans, Aliased(place, s),
         BlocksOf(s)' = BlocksOf(s), span'[s].header = span[s].header,
         \A u \in Threads : call[u].at = "loop" /\ call[u].start \in BlocksOf(s) =>
                              call'[u].at = "loop" /\ call'[u].start = call[u].start,
         \A b \in Addresses : after[b] = Free(s) => place[b] = Free(s)
  PROVE  Aliased(after, s)'
  BY DEF Aliased

(* allocate takes the first block of the thread's list. *)
LEMMA MallocCachedStep ==
  ASSUME NEW place, NEW rank, Good(place, rank), NEW t \in Threads, NEW n \in Requests,
         MallocCached(t, n)
  PROVE  \E after, ranked : Good(after, ranked)'
PROOF
  <1> DEFINE i == Index(n)
             l == tc[t][i]
  <1>0. PICK b : b = l.header
    OBVIOUS
  <1>a. PICK after : after = [place EXCEPT ![b] = User]
    OBVIOUS
  <1>1. /\ UNCHANGED <<span, lists, call>> /\ call[t].at = "idle"
        /\ b # 0 /\ used' = used \cup {b} /\ next' = [next EXCEPT ![b] = 0]
        /\ tc' = [tc EXCEPT ![t][i] = PopFront(@)]
    BY <1>0 DEF MallocCached
  <1>2. /\ Types /\ PlaceType(place, rank) /\ Linked(place, rank) /\ Ranked(place, rank)
        /\ Heads(place, rank) /\ Owned(place) /\ PagesDisjoint /\ Counted(place)
        /\ Sized(rank) /\ Calls(place) /\ CallsApart /\ Listed
    BY DEF Good
  <1>3. i \in Lists /\ Cache(t, i) \in ListPlaces
    BY RequestFacts, PlaceSets
  <1>4. /\ Begins(place, rank, Cache(t, i), b) /\ b \in Addresses /\ place[b] = Cache(t, i)
        /\ l \in CacheType /\ l.size = LenFrom(rank, b)
    BY <1>0, <1>1, <1>2, <1>3 DEF Heads, Begins, Sized, Types
  <1>5. /\ \A c \in Addresses : after[c] = IF c = b THEN User ELSE place[c]
        /\ after \in [Addresses -> Places]
        /\ next[b] \in Addresses \cup {0} /\ next' \in [Addresses -> Addresses \cup {0}]
        /\ \A c \in Addresses \ {b} : next'[c] = next[c]
    BY <1>1, <1>2, <1>4, <1>a, PlaceSets DEF PlaceType, Types
  <1>6. /\ PlaceType(after, rank) /\ Linked(after, rank)' /\ Ranked(after, rank)
        /\ Begins(after, rank, Cache(t, i), next[b])
        /\ LenFrom(rank, next[b]) = LenFrom(rank, b) - 1
        /\ Untouched(place, rank, after, rank, {Cache(t, i)})
    <2>1. after[b] \notin ListPlaces
      BY <1>4, <1>5, PlaceSets
    <2>2. Popped(place, rank, after, {}, Cache(t, i), b)
      BY <1>3, <1>4, <1>5, <2>1 DEF Popped
    <2>3. Untouched(place, rank, after, rank, {} \cup {Cache(t, i)})
      BY <1>2, <2>2, PopHead
    <2>4. {} \cup {Cache(t, i)} = {Cache(t, i)}
      OBVIOUS
    <2> QED
      BY <1>2, <2>2, <2>3, <2>4, PopHead
  <1>7. /\ tc' \in [Threads -> [Lists -> CacheType]]
        /\ \A u \in Threads \ {t} : tc'[u] = tc[u]
        /\ \A j \in Lists \ {i} : tc'[t][j] = tc[t][j]
        /\ tc'[t][i].header = next[b] /\ tc'[t][i].size = l.size - 1
        /\ tc'[t][i].apply = l.apply
    <2>1. l.size - 1 \in Nat
      <3>1. LenFrom(rank, b) \in Nat \ {0}
        BY <1>1, <1>2, <1>4, BeginsFacts
      <3> QED
        BY <1>4, <3>1
    <2>2. /\ PopFront(l) \in CacheType /\ PopFront(l).header = next[b]
          /\ PopFront(l).size = l.size - 1 /\ PopFront(l).apply = l.apply
      BY <1>0, <1>4, <1>5, <2>1 DEF PopFront, CacheType
    <2> DEFINE new == PopFront(l)
    <2>3. tc' = [tc EXCEPT ![t] = [tc[t] EXCEPT ![i] = new]]
      BY <1>1, <1>2, <1>3 DEF Types
    <2>4. new \in CacheType
      BY <2>2
    <2> HIDE DEF new
    <2>5. /\ tc' \in [Threads -> [Lists -> CacheType]]
          /\ \A u \in Threads \ {t} : tc'[u] = tc[u]
          /\ \A j \in Lists \ {i} : tc'[t][j] = tc[t][j]
          /\ tc'[t][i] = new
      BY <1>2, <1>3, <2>3, <2>4 DEF Types
    <2> QED
      BY <2>2, <2>5 DEF new
  <1> HIDE DEF l, i
  <1>8. Types'
    BY <1>1, <1>2, <1>5, <1>7 DEF Types
  <1>9. SameSpans /\ Given' = Given /\ PagesDisjoint' /\ \A s \in Spans : BlocksOf(s)' = BlocksOf(s)
    <2>1. SameSpans
      BY <1>1, <1>2 DEF SameSpans, Types
    <2> QED
      BY <1>2, <2>1, SpansKept
  <1>10. \A c \in Addresses : /\ after[c] # place[c] => c = b
                              /\ after[c] \in HeldPlaces <=> place[c] \in HeldPlaces
    BY <1>3, <1>4, <1>5, PlaceSets
  <1>11. Heads(after, rank)'
    <2>1. ASSUME NEW u \in Threads, NEW j \in Lists
          PROVE  Begins(after, rank, Cache(u, j), tc'[u][j].header)
      <3>1. CASE u = t /\ j = i
        BY <1>6, <1>7, <3>1
      <3>2. CASE ~(u = t /\ j = i)
        <4>1. tc'[u][j] = tc[u][j] /\ Cache(u, j) \in ListPlaces \ {Cache(t, i)}
          BY <1>7, <3>2, PlaceFacts, PlaceSets
        <4>2. tc[u][j].header \in Addresses \cup {0}
          BY <1>2 DEF Types, CacheType
        <4> QED
          BY <1>2, <1>6, <4>1, <4>2 DEF Heads, Untouched
      <3> QED
        BY <3>1, <3>2
    <2>2. ASSUME NEW u \in Threads
          PROVE  Begins(after, rank, Return(u), call'[u].start)
      <3>1. Return(u) \in ListPlaces \ {Cache(t, i)} /\ call'[u].start \in Addresses \cup {0}
        BY <1>1, PlaceFacts, PlaceSets, StartFacts
      <3> QED
        BY <1>1, <1>2, <1>6, <3>1 DEF Heads, Untouched
    <2>3. ASSUME NEW s \in Spans
          PROVE  Begins(after, rank, Free(s), span'[s].header) \/ Aliased(after, s)'
      <3>1. Free(s) \in ListPlaces \ {Cache(t, i)} /\ span[s].header \in Addresses \cup {0}
        BY <1>2, PlaceFacts, PlaceSets DEF Types, SpanType
      <3>2. CASE Begins(place, rank, Free(s), span[s].header)
        BY <1>1, <1>6, <3>1, <3>2 DEF Untouched
      <3>3. CASE Aliased(place, s)
        <4>1. \A c \in Addresses : after[c] = Free(s) => place[c] = Free(s)
          BY <1>5, PlaceFacts
        <4> QED
          BY <1>1, <1>9, <3>3, <4>1, AliasKept
      <3> QED
        BY <1>2, <3>2, <3>3 DEF Heads
    <2>4. used' = {c \in Addresses : after[c] = User}
      <3>1. \A c \in Addresses : after[c] = User <=> c = b \/ place[c] = User
        BY <1>5
      <3> QED
        BY <1>1, <1>2, <1>4, <3>1 DEF Heads
    <2> QED
      BY <2>1, <2>2, <2>3, <2>4 DEF Heads, Begins
  <1>12. Owned(after)'
    <2>1. \A c \in Addresses : after[c] # None => \E s \in Spans : c \in BlocksOf(s)
      BY <1>2, <1>4, <1>5, PlaceFacts DEF Owned
    <2>2. \A c \in Addresses, s \in Spans : after[c] = Free(s) => c \in BlocksOf(s)
      BY <1>2, <1>5, PlaceFacts DEF Owned
    <2>3. \A c \in Addresses, s \in Spans : c \in BlocksOf(s) =>
            \A u \in Threads :
              /\ \A j \in Lists : after[c] = Cache(u, j) => Index(span[s].block) = j
              /\ after[c] = Return(u) => span[s].block = call[u].align
      BY <1>2, <1>5, PlaceFacts DEF Owned
    <2> QED
      BY <1>1, <1>9, <2>1, <2>2, <2>3 DEF Owned
  <1>13. Counted(after)'
    <2>1. \A s \in Spans : HeldOf(after, s)' = HeldOf(place, s)
      BY <1>9, <1>10 DEF HeldOf, BlocksOf
    <2> QED
      BY <1>1, <1>2, <2>1 DEF Counted
  <1>14. Sized(rank)'
    <2>1. ASSUME NEW u \in Threads, NEW j \in Lists
          PROVE  /\ tc'[u][j].size = LenFrom(rank, tc'[u][j].header)
                 /\ tc'[u][j].size < tc'[u][j].apply
                 /\ \A q \in Requests : Index(q) = j => tc'[u][j].apply <= BlockThreshHold(RoundUp(q)) + 1
      <3>1. CASE u = t /\ j = i
        <4>1. l.size < l.apply /\ l.size \in Nat /\ l.apply \in Nat
          BY <1>2, <1>3, <1>4 DEF Sized, CacheType, l
        <4>2. \A q \in Requests : Index(q) = j => l.apply <= BlockThreshHold(RoundUp(q)) + 1
          BY <1>2, <1>3, <3>1 DEF Sized, l
        <4> QED
          BY <1>4, <1>6, <1>7, <3>1, <4>1, <4>2
      <3>2. CASE ~(u = t /\ j = i)
        <4>1. tc'[u][j] = tc[u][j]
          BY <1>7, <3>2
        <4> QED
          BY <1>2, <4>1 DEF Sized
      <3> QED
        BY <3>1, <3>2
    <2> QED
      BY <2>1 DEF Sized, LenFrom
  <1>15. Calls(after)'
    <2>1. ASSUME NEW u \in Threads \ {t} PROVE CallOf(after, u)'
      <3>1. CallOf(place, u)
        BY <1>2 DEF Calls
      <3>2. call[u].at \in {"insert", "giveback"} =>
              \A c \in BlocksOf(call[u].span) : after[c] = place[c]
        BY <1>3, <1>4, <1>10, PendingFacts, PlaceSets DEF BlocksOf
      <3> QED
        BY <1>1, <1>7, <1>9, <3>1, <3>2, PendingFacts, CallKept
    <2>2. CallOf(after, t)'
      BY <1>1, <1>2 DEF Calls, CallOf
    <2> QED
      BY <2>1, <2>2 DEF Calls
  <1>16. CallsApart' /\ Listed'
    BY <1>1, <1>2, <1>9 DEF CallsApart, ListOf, Listed
  <1>17. Whole(after)'
    <2>1. ASSUME NEW s \in Given PROVE SpanWhole(after, s)'
      <3>1. SpanWhole(place, s) /\ BlocksOf(s)' = BlocksOf(s)
        BY <1>9 DEF Good, Whole, Given
      <3>2. \A c \in BlocksOf(s) : place[c] # None => after[c] # None
        BY <1>5, PlaceFacts DEF BlocksOf
      <3> QED
        BY <1>1, <3>1, <3>2, WholeKept
    <2> QED
      BY <1>9, <2>1 DEF Whole
  <1>18. Good(after, rank)'
    BY <1>6, <1>8, <1>9, <1>11, <1>12, <1>13, <1>14, <1>15, <1>16, <1>17 DEF Good, PlaceType, Ranked
  <1> QED
    BY <1>18

(* What the operations of Freelist leave. *)
LEMMA FreelistFacts ==
  ASSUME NEW l \in CacheType, NEW a \in Addresses \cup {0}, NEW n \in Nat
  PROVE  /\ PushFront(l, a) \in CacheType /\ PushFront(l, a).header = a
         /\ PushFront(l, a).size = l.size + 1 /\ PushFront(l, a).apply = l.apply
         /\ PushRange(l, a, n) \in CacheType /\ PushRange(l, a, n).header = a
         /\ PushRange(l, a, n).size = l.size + n /\ PushRange(l, a, n).apply = l.apply
         /\ PopRange(l, a).header = a /\ PopRange(l, a).size = l.size - l.apply
         /\ PopRange(l, a).apply = l.apply
         /\ l.size >= l.apply => PopRange(l, a) \in CacheType
PROOF
  <1>1. l.apply \in Nat /\ l.size \in Nat
    BY DEF CacheType
  <1>2. /\ PushFront(l, a) \in CacheType /\ PushFront(l, a).header = a
        /\ PushFront(l, a).size = l.size + 1 /\ PushFront(l, a).apply = l.apply
    <2>1. l.size + 1 \in Nat
      BY <1>1
    <2> QED
      BY <2>1 DEF PushFront, CacheType
  <1>3. /\ PushRange(l, a, n) \in CacheType /\ PushRange(l, a, n).header = a
        /\ PushRange(l, a, n).size = l.size + n /\ PushRange(l, a, n).apply = l.apply
    <2>1. l.size + n \in Nat
      BY <1>1
    <2> QED
      BY <2>1 DEF PushRange, CacheType
  <1>4. /\ PopRange(l, a).header = a /\ PopRange(l, a).size = l.size - l.apply
        /\ PopRange(l, a).apply = l.apply
    BY DEF PopRange, CacheType
  <1>5. ASSUME l.size >= l.apply PROVE PopRange(l, a) \in CacheType
    <2>1. l.size - l.apply \in Nat
      BY <1>1, <1>5
    <2> QED
      BY <2>1 DEF PopRange, CacheType
  <1> QED
    BY <1>2, <1>3, <1>4, <1>5

(* A freed block enters the list of its class; together with that list it     *)
(* becomes the list that is returned, when there are apply_count blocks.     *)
Freed(place, t, b, s, i, h, y) ==
  /\ s = OwnerOf(b) /\ i = Index(span[s].block) /\ h = tc[t][i].header
  /\ y = Cache(t, i) \/ (y = Return(t) /\ call[t].start = 0)
  /\ next'[b] = h /\ \A c \in Addresses \ {b} : next'[c] = next[c]
  /\ next' \in [Addresses -> Addresses \cup {0}]
  /\ UNCHANGED <<span, lists>> /\ used' = used \ {b}
  /\ tc' \in [Threads -> [Lists -> CacheType]]
  /\ \A u \in Threads \ {t} : tc'[u] = tc[u]
  /\ \A j \in Lists \ {i} : tc'[t][j] = tc[t][j]
  /\ y = Cache(t, i) => tc'[t][i].header = b /\ tc'[t][i].size = tc[t][i].size + 1
  /\ y = Return(t) => tc'[t][i].header = 0 /\ tc'[t][i].size = 0
  /\ tc'[t][i].apply = tc[t][i].apply /\ tc'[t][i].size < tc'[t][i].apply
  /\ call' \in [Threads -> CallType]
  /\ \A u \in Threads \ {t} : call'[u] = call[u]
  /\ y = Cache(t, i) => call'[t] = call[t]
  /\ y = Return(t) => call'[t].start = b /\ call'[t].align = span[s].block
  /\ call[t].at = "idle" /\ call'[t].at \in {"idle", "recover"}
  /\ CallOf(place, t)' /\ CallsApart'

(* A freed block becomes the first of the list, or of the blocks returned. *)
LEMMA FreePushed ==
  ASSUME NEW place, NEW rank, Good(place, rank), NEW t \in Threads, NEW b \in used,
         NEW s, NEW i, NEW h, NEW y, Freed(place, t, b, s, i, h, y)
  PROVE  \E after, ranked : Good(after, ranked)'
PROOF
  <1>0. /\ s = OwnerOf(b) /\ i = Index(span[s].block) /\ h = tc[t][i].header
        /\ y = Cache(t, i) \/ (y = Return(t) /\ call[t].start = 0)
        /\ next'[b] = h /\ \A c \in Addresses \ {b} : next'[c] = next[c]
        /\ next' \in [Addresses -> Addresses \cup {0}]
        /\ UNCHANGED <<span, lists>> /\ used' = used \ {b}
        /\ tc' \in [Threads -> [Lists -> CacheType]]
        /\ \A u \in Threads \ {t} : tc'[u] = tc[u]
        /\ \A j \in Lists \ {i} : tc'[t][j] = tc[t][j]
        /\ y = Cache(t, i) => tc'[t][i].header = b /\ tc'[t][i].size = tc[t][i].size + 1
        /\ y = Return(t) => tc'[t][i].header = 0 /\ tc'[t][i].size = 0
        /\ tc'[t][i].apply = tc[t][i].apply /\ tc'[t][i].size < tc'[t][i].apply
        /\ call' \in [Threads -> CallType]
        /\ \A u \in Threads \ {t} : call'[u] = call[u]
        /\ y = Cache(t, i) => call'[t] = call[t]
        /\ y = Return(t) => call'[t].start = b /\ call'[t].align = span[s].block
        /\ call[t].at = "idle" /\ call'[t].at \in {"idle", "recover"}
        /\ CallOf(place, t)' /\ CallsApart'
    BY DEF Freed
  <1> USE <1>0
  <1>1. /\ Types /\ PlaceType(place, rank) /\ Linked(place, rank) /\ Ranked(place, rank)
        /\ Heads(place, rank) /\ Owned(place) /\ PagesDisjoint /\ Counted(place)
        /\ Sized(rank) /\ Calls(place) /\ CallsApart /\ Listed
    BY DEF Good
  <1>2. /\ b \in Addresses /\ place[b] = User /\ s \in Spans /\ b \in BlocksOf(s)
        /\ span[s].block \in Aligns /\ i \in Lists
    BY UsedFacts, ClassFacts
  <1> DEFINE x == Cache(t, i)
  <1>3. /\ x \in ListPlaces /\ y \in ListPlaces /\ x \in HeldPlaces /\ y \in HeldPlaces
        /\ place[b] \notin ListPlaces
    BY <1>2, PlaceSets
  <1>4. Begins(place, rank, x, h) /\ tc[t][i].size = LenFrom(rank, h)
    BY <1>1, <1>2 DEF Heads, Sized
  <1>5. PICK after : after = [c \in Addresses |-> IF c = b \/ place[c] = x THEN y ELSE place[c]]
    OBVIOUS
  <1>6. PICK ranked : ranked = [rank EXCEPT ![b] = LenFrom(rank, h) + 1]
    OBVIOUS
  <1>7. x # y => y = Return(t) /\ \A c \in Addresses : place[c] # y
    <2>1. call[t].start = 0 => \A c \in Addresses : place[c] # Return(t)
      BY ONLY StartFacts, Good(place, rank), t \in Threads
    <2> QED
      BY ONLY <1>0, <2>1 DEF x
  <1>8. Pushed(place, rank, after, ranked, x, y, h, b)
    BY <1>2, <1>3, <1>4, <1>5, <1>6, <1>7 DEF Pushed
  <1>9. /\ PlaceType(after, ranked) /\ Linked(after, ranked)' /\ Ranked(after, ranked)
        /\ Begins(after, ranked, y, b) /\ LenFrom(ranked, b) = LenFrom(rank, h) + 1
        /\ x # y => Begins(after, ranked, x, 0)
        /\ Untouched(place, rank, after, ranked, {x, y})
    <2> HIDE DEF x
    <2> QED
      BY <1>1, <1>8, PushMove
  <1>10. \A c \in Addresses : after[c] = IF c = b \/ place[c] = x THEN y ELSE place[c]
    BY <1>5
  <1>11. Types'
    BY <1>1 DEF Types
  <1>12. SameSpans /\ Given' = Given /\ PagesDisjoint' /\ \A v \in Spans : BlocksOf(v)' = BlocksOf(v)
    <2>1. SameSpans
      BY <1>1 DEF SameSpans, Types
    <2> QED
      BY <1>1, <2>1, SpansKept
  <1>13. \A c \in Addresses : /\ after[c] # place[c] => place[c] \in HeldPlaces
                              /\ after[c] \in HeldPlaces <=> place[c] \in HeldPlaces
    BY <1>2, <1>3, <1>10, PlaceSets
  <1>14. Heads(after, ranked)'
    <2>1. ASSUME NEW u \in Threads, NEW j \in Lists
          PROVE  Begins(after, ranked, Cache(u, j), tc'[u][j].header)
      <3>1. CASE u = t /\ j = i
        <4>1. CASE y = x
          BY <1>9, <3>1, <4>1
        <4>2. CASE y # x
          BY <1>7, <1>9, <3>1, <4>2
        <4> QED
          BY <4>1, <4>2
      <3>2. CASE ~(u = t /\ j = i)
        <4>1. tc'[u][j] = tc[u][j] /\ Cache(u, j) \in ListPlaces \ {x, y}
          BY <3>2, PlaceFacts, PlaceSets
        <4>2. tc[u][j].header \in Addresses \cup {0}
          BY <1>1 DEF Types, CacheType
        <4> QED
          BY <1>1, <1>9, <4>1, <4>2 DEF Heads, Untouched
      <3> QED
        BY <3>1, <3>2
    <2>2. ASSUME NEW u \in Threads
          PROVE  Begins(after, ranked, Return(u), call'[u].start)
      <3>1. CASE y = Return(u)
        <4>1. u = t /\ y = Return(t)
          BY <3>1, PlaceFacts
        <4> QED
          BY <1>9, <4>1
      <3>2. CASE y # Return(u)
        <4>1. call'[u].start = call[u].start
          BY <3>2
        <4>2. Return(u) \in ListPlaces \ {x, y} /\ call[u].start \in Addresses \cup {0}
          BY <3>2, PlaceFacts, PlaceSets, StartFacts, SMTT(60)
        <4> QED
          BY <1>1, <1>9, <4>1, <4>2 DEF Heads, Untouched
      <3> QED
        BY <3>1, <3>2
    <2>3. ASSUME NEW v \in Spans
          PROVE  Begins(after, ranked, Free(v), span'[v].header) \/ Aliased(after, v)'
      <3>1. Free(v) \in ListPlaces \ {x, y} /\ span[v].header \in Addresses \cup {0}
        BY <1>1, PlaceFacts, PlaceSets DEF Types, SpanType
      <3>2. CASE Begins(place, rank, Free(v), span[v].header)
        BY <1>9, <3>1, <3>2 DEF Untouched
      <3>3. CASE Aliased(place, v)
        <4>1. \A c \in Addresses : after[c] = Free(v) => place[c] = Free(v)
          BY <1>10, <3>1
        <4>2. \A u \in Threads : call[u].at = "loop" => call'[u] = call[u]
          OBVIOUS
        <4> QED
          BY <1>12, <3>3, <4>1, <4>2, AliasKept
      <3> QED
        BY <1>1, <3>2, <3>3 DEF Heads
    <2>4. used' = {c \in Addresses : after[c] = User}
      <3>1. \A c \in Addresses : after[c] = User <=> c # b /\ place[c] = User
        BY <1>3, <1>10, PlaceSets, PlaceFacts
      <3> QED
        BY <1>1, <1>2, <3>1 DEF Heads
    <2> QED
      BY <2>1, <2>2, <2>3, <2>4 DEF Heads, Begins
  <1>15. Owned(after)'
    <2>1. \A c \in Addresses : after[c] # None => \E v \in Spans : c \in BlocksOf(v)
      BY <1>1, <1>2, <1>10, PlaceFacts DEF Owned
    <2>2. \A c \in Addresses, v \in Spans : after[c] = Free(v) => c \in BlocksOf(v)
      BY <1>1, <1>10, PlaceFacts DEF Owned
    <2>3. ASSUME NEW c \in Addresses, NEW v \in Spans, c \in BlocksOf(v)
          PROVE  c = b \/ place[c] = x => span[v].block = span[s].block
      <3>1. CASE c = b
        BY <1>1, <1>2, <2>3, <3>1, OwnerFacts
      <3>2. CASE place[c] = x
        <4>1. Index(span[v].block) = i
          BY <1>1, <1>2, <2>3, <3>2 DEF Owned
        <4>2. v \in Given
          BY <2>3 DEF BlocksOf
        <4>3. span[v].block \in Aligns
          BY <1>1, <4>2 DEF Types, Given, NewSpan
        <4> QED
          BY <1>2, <4>1, <4>3, ClassFacts
      <3> QED
        BY <3>1, <3>2
    <2>4. ASSUME NEW c \in Addresses, NEW v \in Spans, c \in BlocksOf(v), NEW u \in Threads
          PROVE  /\ \A j \in Lists : after[c] = Cache(u, j) => Index(span[v].block) = j
                 /\ after[c] = Return(u) => span[v].block = call'[u].align
      <3>1. CASE c = b \/ place[c] = x
        <4>1. after[c] = y /\ span[v].block = span[s].block
          BY <1>10, <2>3, <2>4, <3>1
        <4> QED
          BY <4>1, PlaceFacts
      <3>2. CASE ~(c = b \/ place[c] = x)
        <4>1. after[c] = place[c]
          BY <1>10, <3>2
        <4>2. /\ \A j \in Lists : place[c] = Cache(u, j) => Index(span[v].block) = j
              /\ place[c] = Return(u) => span[v].block = call[u].align
          BY <1>1, <2>4 DEF Owned
        <4>3. place[c] = Return(u) => call'[u] = call[u]
          <5>1. CASE u = t /\ y = Return(t)
            BY <5>1, <1>7, PlaceFacts
          <5>2. CASE ~(u = t /\ y = Return(t))
            BY <5>2
          <5> QED
            BY <5>1, <5>2
        <4> QED
          BY <4>1, <4>2, <4>3
      <3> QED
        BY <3>1, <3>2
    <2> QED
      BY <1>12, <2>1, <2>2, <2>4 DEF Owned
  <1>16. Counted(after)'
    <2>1. \A v \in Spans : HeldOf(after, v)' = HeldOf(place, v)
      BY <1>12, <1>13 DEF HeldOf, BlocksOf
    <2> QED
      BY <1>1, <2>1 DEF Counted
  <1>17. Sized(ranked)'
    <2>1. ASSUME NEW u \in Threads, NEW j \in Lists
          PROVE  /\ tc'[u][j].size = LenFrom(ranked, tc'[u][j].header)
                 /\ tc'[u][j].size < tc'[u][j].apply
                 /\ \A q \in Requests : Index(q) = j => tc'[u][j].apply <= BlockThreshHold(RoundUp(q)) + 1
      <3>1. CASE u = t /\ j = i
        <4>1. \A q \in Requests : Index(q) = j => tc[t][i].apply <= BlockThreshHold(RoundUp(q)) + 1
          BY <1>1, <3>1 DEF Sized
        <4>2. tc'[u][j].size = LenFrom(ranked, tc'[u][j].header)
          <5>1. CASE y = x
            BY <1>4, <1>9, <3>1, <5>1
          <5>2. CASE y # x
            BY <1>7, <3>1, <5>2 DEF LenFrom
          <5> QED
            BY <5>1, <5>2
        <4> QED
          BY <3>1, <4>1, <4>2
      <3>2. CASE ~(u = t /\ j = i)
        <4>1. tc'[u][j] = tc[u][j] /\ Cache(u, j) \in ListPlaces \ {x, y}
          BY <3>2, PlaceFacts, PlaceSets
        <4>2. tc[u][j].header \in Addresses \cup {0}
          BY <1>1 DEF Types, CacheType
        <4>3. LenFrom(ranked, tc[u][j].header) = LenFrom(rank, tc[u][j].header)
          BY <1>1, <1>9, <4>1, <4>2 DEF Heads, Untouched
        <4> QED
          BY <1>1, <4>1, <4>3, SMTT(60) DEF Sized
      <3> QED
        BY <3>1, <3>2
    <2> QED
      BY <2>1 DEF Sized, LenFrom
  <1>18. CallOf(after, t)'
    <2>1. call'[t].at \notin {"insert", "giveback"}
      OBVIOUS
    <2> QED
      BY <2>1 DEF CallOf
  <1>19. Calls(after)'
    <2>1. ASSUME NEW u \in Threads \ {t} PROVE CallOf(after, u)'
      <3>1. CallOf(place, u)
        BY <1>1 DEF Calls
      <3>2. call[u].at \in {"insert", "giveback"} =>
              \A c \in BlocksOf(call[u].span) : after[c] = place[c]
        BY <1>13, PendingFacts DEF BlocksOf
      <3> QED
        BY <1>12, <3>1, <3>2, PendingFacts, CallKept, SMTT(60)
    <2> QED
      BY <1>18, <2>1 DEF Calls
  <1>20. Listed'
    BY <1>1, <1>12 DEF Listed
  <1>21. Whole(after)'
    <2>1. ASSUME NEW v \in Given PROVE SpanWhole(after, v)'
      <3>1. SpanWhole(place, v) /\ BlocksOf(v)' = BlocksOf(v)
        BY <1>12 DEF Good, Whole, Given
      <3>2. \A c \in BlocksOf(v) : place[c] # None => after[c] # None
        BY <1>3, <1>10, PlaceSets DEF BlocksOf
      <3>3. \A u \in Threads : call[u].at = "loop" => call'[u] = call[u]
        OBVIOUS
      <3> QED
        BY <3>1, <3>2, <3>3, WholeKept
    <2> QED
      BY <1>12, <2>1 DEF Whole
  <1>22. Good(after, ranked)'
    BY <1>9, <1>11, <1>12, <1>14, <1>15, <1>16, <1>17, <1>19, <1>20, <1>21 DEF Good, PlaceType, Ranked
  <1> QED
    BY <1>22

(* deallocate: the block is kept, or apply_count blocks are returned. *)
LEMMA FreeCachedStep ==
  ASSUME NEW place, NEW rank, Good(place, rank), NEW t \in Threads, NEW b \in used,
         FreeCached(t, b)
  PROVE  \E after, ranked : Good(after, ranked)'
PROOF
  <1>1. /\ Types /\ PlaceType(place, rank) /\ Linked(place, rank) /\ Ranked(place, rank)
        /\ Heads(place, rank) /\ Sized(rank) /\ Calls(place) /\ CallsApart
    BY DEF Good
  <1>2. PICK s : s = OwnerOf(b)
    OBVIOUS
  <1>3. PICK i : i = Index(span[s].block)
    OBVIOUS
  <1>4. PICK h : h = tc[t][i].header
    OBVIOUS
  <1>5. /\ b \in Addresses /\ place[b] = User /\ s \in Spans /\ b \in BlocksOf(s)
        /\ span[s].block \in Aligns /\ i \in Lists /\ span[s].block \in Nat
    BY <1>2, <1>3, UsedFacts, ClassFacts
  <1> DEFINE old == tc[t][i]
             l == PushFront(old, b)
  <1>6. /\ old \in CacheType /\ old.header = h /\ old.size \in Nat /\ old.apply \in Nat
        /\ old.size = LenFrom(rank, h) /\ old.size < old.apply
        /\ Begins(place, rank, Cache(t, i), h) /\ h \in Addresses \cup {0}
    BY <1>1, <1>4, <1>5 DEF Types, Sized, Heads, CacheType
  <1>7. /\ l \in CacheType /\ l.header = b /\ l.size = old.size + 1 /\ l.apply = old.apply
    <2> HIDE DEF old
    <2> QED
      BY <1>5, <1>6, FreelistFacts
  <1>8. /\ call[t].at = "idle" /\ UNCHANGED <<span, lists>> /\ used' = used \ {b}
        /\ \/ Release(l) /\ ReleaseBlock(t, i, b)
           \/ /\ ~Release(l) /\ next' = [next EXCEPT ![b] = old.header]
              /\ tc' = [tc EXCEPT ![t][i] = l] /\ UNCHANGED call
    BY <1>2, <1>3 DEF FreeCached
  <1>9. CallOf(place, t) /\ call[t].start = 0
    BY <1>1, <1>8 DEF Calls, CallOf
  <1>10. CASE /\ ~Release(l) /\ next' = [next EXCEPT ![b] = old.header]
              /\ tc' = [tc EXCEPT ![t][i] = l] /\ UNCHANGED call
    <2>1. /\ next'[b] = h /\ \A c \in Addresses \ {b} : next'[c] = next[c]
          /\ next' \in [Addresses -> Addresses \cup {0}]
      BY <1>1, <1>5, <1>6, <1>10 DEF Types
    <2>2. l.size < l.apply
      BY <1>6, <1>7, <1>10 DEF Release
    <2> DEFINE new == l
    <2>3. tc' = [tc EXCEPT ![t] = [tc[t] EXCEPT ![i] = new]]
      BY <1>1, <1>5, <1>10 DEF Types
    <2>4. new \in CacheType
      BY <1>7
    <2> HIDE DEF new
    <2>5. /\ tc' \in [Threads -> [Lists -> CacheType]]
          /\ \A u \in Threads \ {t} : tc'[u] = tc[u]
          /\ \A j \in Lists \ {i} : tc'[t][j] = tc[t][j]
          /\ tc'[t][i] = new
      BY <1>1, <1>5, <2>3, <2>4 DEF Types
    <2>6. /\ tc'[t][i].header = b /\ tc'[t][i].size = tc[t][i].size + 1
          /\ tc'[t][i].apply = tc[t][i].apply /\ tc'[t][i].size < tc'[t][i].apply
      BY <1>7, <2>2, <2>5 DEF new
    <2>7. CallOf(place, t)' /\ CallsApart' /\ call' \in [Threads -> CallType]
      BY <1>1, <1>8, <1>9, <1>10 DEF CallOf, CallsApart, ListOf, Types
    <2>8. PICK y : y = Cache(t, i)
      OBVIOUS
    <2>9. y # Return(t)
      BY <2>8, PlaceFacts
    <2>10. Freed(place, t, b, s, i, h, y)
      BY <1>2, <1>3, <1>4, <1>8, <1>10, <2>1, <2>5, <2>6, <2>7, <2>8, <2>9 DEF Freed
    <2> QED
      BY <2>10, FreePushed
  <1>11. CASE Release(l) /\ ReleaseBlock(t, i, b)
    <2>1. old.apply = old.size + 1
      BY <1>6, <1>7, <1>11 DEF Release
    <2> DEFINE last == IF old.apply = 1 THEN b ELSE Nth(old.header, old.apply - 1)
               rest == IF old.apply = 1 THEN old.header ELSE next[last]
    <2>2. /\ last \in Addresses /\ rest = 0
          /\ last = b => h = 0
          /\ last # b => next[last] = 0
      <3>1. CASE old.apply = 1
        <4>1. h = 0
          BY <1>1, <1>6, <2>1, <3>1, BeginsFacts
        <4> QED
          BY <1>5, <1>6, <3>1, <4>1
      <3>2. CASE old.apply # 1
        <4>1. old.apply - 1 = LenFrom(rank, h) /\ old.apply - 1 \in Nat \ {0}
          BY <1>6, <2>1, <3>2
        <4>2. PICK k : k = old.apply - 1
          OBVIOUS
        <4>3. k \in Nat \ {0} /\ k <= LenFrom(rank, h) /\ LenFrom(rank, h) - k + 1 = 1
          BY <4>1, <4>2
        <4>4. last = Nth(h, k)
          BY <1>6, <3>2, <4>2
        <4>5. /\ Nth(h, k) \in Addresses /\ place[Nth(h, k)] = Cache(t, i)
              /\ rank[Nth(h, k)] = 1
          <5>1. Cache(t, i) \in ListPlaces
            BY <1>5, PlaceSets
          <5> QED
            BY <1>1, <1>6, <4>3, <5>1, NthIs
        <4> HIDE DEF last
        <4>6. last \in Addresses /\ place[last] \in ListPlaces /\ rank[last] = 1
          BY <1>5, <4>4, <4>5, PlaceSets
        <4>7. next[last] = 0
          BY <4>6 DEF Linked, Good
        <4>8. last # b
          BY <1>5, <4>4, <4>5, PlaceFacts
        <4> QED
          BY <3>2, <4>6, <4>7, <4>8
      <3> QED
        BY <3>1, <3>2
    <2>3. /\ next' = [next EXCEPT ![b] = old.header, ![last] = 0]
          /\ tc' = [tc EXCEPT ![t][i] = PopRange(PushFront(@, b), rest)]
          /\ call' = [call EXCEPT ![t] = [@ EXCEPT !.at = "recover", !.align = span[s].block, !.start = b]]
      BY <1>2, <1>11 DEF ReleaseBlock
    <2> HIDE DEF last, rest
    <2>4. /\ next'[b] = h /\ \A c \in Addresses \ {b} : next'[c] = next[c]
          /\ next' \in [Addresses -> Addresses \cup {0}]
      <3>1. next \in [Addresses -> Addresses \cup {0}]
        BY <1>1 DEF Types
      <3>2. \A c \in Addresses : next'[c] = IF c = last THEN 0 ELSE IF c = b THEN h ELSE next[c]
        BY <1>5, <1>6, <2>2, <2>3, <3>1
      <3>3. next' \in [Addresses -> Addresses \cup {0}]
        BY <1>5, <1>6, <2>2, <2>3, <3>1
      <3> QED
        BY <1>5, <2>2, <3>2, <3>3
    <2> DEFINE new == PopRange(l, 0)
    <2>5. /\ new \in CacheType /\ new.header = 0 /\ new.size = 0 /\ new.apply = old.apply
      <3>1. l.size - l.apply = 0
        BY <1>6, <1>7, <2>1
      <3>2. l.size >= l.apply
        BY <1>6, <1>7, <3>1
      <3> HIDE DEF l
      <3>3. /\ PopRange(l, 0).header = 0 /\ PopRange(l, 0).size = l.size - l.apply
            /\ PopRange(l, 0).apply = l.apply /\ PopRange(l, 0) \in CacheType
        BY <1>7, <3>2, FreelistFacts
      <3> QED
        BY <1>7, <3>1, <3>3
    <2>6. tc' = [tc EXCEPT ![t] = [tc[t] EXCEPT ![i] = new]]
      BY <1>1, <1>5, <2>2, <2>3 DEF Types
    <2> HIDE DEF new
    <2>7. /\ tc' \in [Threads -> [Lists -> CacheType]]
          /\ \A u \in Threads \ {t} : tc'[u] = tc[u]
          /\ \A j \in Lists \ {i} : tc'[t][j] = tc[t][j]
          /\ tc'[t][i] = new
      BY <1>1, <1>5, <2>5, <2>6 DEF Types
    <2>8. /\ tc'[t][i].header = 0 /\ tc'[t][i].size = 0
          /\ tc'[t][i].apply = tc[t][i].apply /\ tc'[t][i].size < tc'[t][i].apply
      BY <1>6, <2>5, <2>7
    <2>9. /\ call' \in [Threads -> CallType]
          /\ \A u \in Threads \ {t} : call'[u] = call[u]
          /\ call'[t].at = "recover" /\ call'[t].align = span[s].block /\ call'[t].start = b
      BY <1>1, <1>5, <2>3 DEF Types, CallType
    <2>10. CallOf(place, t)'
      BY <1>5, <2>9 DEF CallOf
    <2>11. CallsApart'
      BY <1>1, <2>9, ApartKept
    <2>12. PICK y : y = Return(t)
      OBVIOUS
    <2>13. y # Cache(t, i)
      BY <2>12, PlaceFacts
    <2>14. Freed(place, t, b, s, i, h, y)
      BY <1>2, <1>3, <1>4, <1>8, <1>9, <2>4, <2>7, <2>8, <2>9, <2>10, <2>11, <2>12, <2>13 DEF Freed
    <2> QED
      BY <2>14, FreePushed
  <1> QED
    BY <1>8, <1>10, <1>11
-----------------------------------------------------------------------------
(* alloc_to_thread: the first blocks of a span of the list leave it; the      *)
(* thread's own list, which was empty, has all but the one of the user.      *)
LEMMA TakeStep ==
  ASSUME NEW place, NEW rank, Good(place, rank), NEW t \in Threads, NEW s \in Given,
         Take(t, s), call[t].at \in {"alloc", "insert"}, LockFree(t),
         span[s].header # 0, Index(span[s].block) = ListOf(t),
         lists' \in [Lists -> Seq(Spans)],
         \A j \in Lists :
           /\ \A k \in DOMAIN lists'[j] : lists'[j][k] \in Given /\ Index(span[lists'[j][k]].block) = j
           /\ \A k, m \in DOMAIN lists'[j] : lists'[j][k] = lists'[j][m] => k = m,
         \A u \in Threads \ {t} : call[u].at \in {"insert", "giveback"} =>
           /\ call[u].span # s
           /\ \A j \in Lists : \A k \in DOMAIN lists'[j] : lists'[j][k] # call[u].span
  PROVE  \E after, ranked : Good(after, ranked)'
PROOF
  <1>1. /\ Types /\ PlaceType(place, rank) /\ Linked(place, rank) /\ Ranked(place, rank)
        /\ Heads(place, rank) /\ Owned(place) /\ PagesDisjoint /\ Counted(place)
        /\ Sized(rank) /\ Calls(place) /\ CallsApart
    BY DEF Good
  <1>2. PICK i : i = ListOf(t)
    OBVIOUS
  <1>3. PICK a : a = span[s].header
    OBVIOUS
  <1>4. PICK n : n = FirstLen(a, call[t].count)
    OBVIOUS
  <1>5. PICK last : last = Nth(a, n)
    OBVIOUS
  <1>6. /\ span' = [span EXCEPT ![s] = [@ EXCEPT !.header = next[last], !.use = span[s].use + n]]
        /\ used' = used \cup {a}
        /\ tc' = [tc EXCEPT ![t][i] = IF n = 1 THEN @ ELSE PushRange(@, next[a], n - 1)]
        /\ next' = [[next EXCEPT ![last] = 0] EXCEPT ![a] = 0]
        /\ call' = [call EXCEPT ![t] = Idle]
    BY <1>2, <1>3, <1>4, <1>5 DEF Take, ToThread, Cut
  <1>7. /\ s \in Spans /\ s \in Given
    BY DEF Given
  <1>8. /\ i \in Lists /\ call[t].count \in Nat \ {0} /\ call[t].count < tc[t][i].apply
        /\ tc[t][i].header = 0 /\ call[t].start = 0
    <2>1. CallOf(place, t)
      BY <1>1 DEF Calls
    <2>2. call[t].align \in Aligns
      BY <2>1 DEF CallOf
    <2>3. call[t].count \in Nat
      BY <1>1 DEF Types, CallType
    <2> QED
      BY <1>2, <2>1, <2>2, <2>3, ClassFacts DEF CallOf, ListOf
  <1>9. Begins(place, rank, Free(s), a) /\ a \in Addresses /\ a # 0
    <2>1. a \in Addresses /\ a # 0
      BY <1>1, <1>3, <1>7 DEF Types, SpanType
    <2>2. ~Aliased(place, s)
      <3> SUFFICES ASSUME NEW u \in Threads, call[u].at = "loop", call[u].start \in BlocksOf(s)
                   PROVE  FALSE
        BY DEF Aliased
      <3>1. call[u].start # 0
        BY AddressFacts DEF BlocksOf
      <3>2. OwnerOf(call[u].start) = s
        BY <1>1, <1>7, OwnerFacts
      <3>3. span[s].block = call[u].align
        BY <3>1, <3>2, StartFacts
      <3> QED
        BY <3>3 DEF LockFree, ListOf
    <2> QED
      BY <1>1, <1>3, <1>7, <2>1, <2>2 DEF Heads
  <1>10. /\ n \in Nat \ {0} /\ n <= call[t].count /\ n <= rank[a] /\ rank[a] \in Nat \ {0}
         /\ last \in Addresses /\ place[last] = Free(s) /\ rank[last] = rank[a] - n + 1
    <2>1. Free(s) \in ListPlaces
      BY <1>7, PlaceSets
    <2>2. rank[a] \in Nat \ {0}
      BY <1>1, <1>9 DEF PlaceType
    <2>3. PICK k \in Nat \ {0} : k = call[t].count
      BY <1>8
    <2>4. n = FirstLen(a, k)
      BY <1>4, <2>3
    <2>5. PICK x \in ListPlaces : x = Free(s)
      BY <2>1
    <2>6. Begins(place, rank, x, a) /\ a \in Addresses
      BY <1>9, <2>5
    <2>7. /\ FirstLen(a, k) \in Nat \ {0} /\ FirstLen(a, k) <= k /\ FirstLen(a, k) <= rank[a]
          /\ Nth(a, FirstLen(a, k)) \in Addresses /\ place[Nth(a, FirstLen(a, k))] = x
          /\ rank[Nth(a, FirstLen(a, k))] = rank[a] - FirstLen(a, k) + 1
      BY <1>1, <2>6, ListFirst
    <2> QED
      BY <1>5, <2>2, <2>3, <2>4, <2>5, <2>7
  <1>11. Begins(place, rank, Cache(t, i), 0) /\ \A c \in Addresses : place[c] # Cache(t, i)
    BY <1>1, <1>8, AddressFacts DEF Heads, Begins
  <1>12. PICK after : after = [c \in Addresses |->
           IF place[c] = Free(s) /\ rank[c] > rank[a] - n
           THEN IF c = a THEN User ELSE Cache(t, i) ELSE place[c]]
    OBVIOUS
  <1>13. PICK ranked : ranked = [c \in Addresses |->
           IF place[c] = Free(s) /\ rank[c] > rank[a] - n THEN rank[c] - (rank[a] - n) ELSE rank[c]]
    OBVIOUS
  <1>14. /\ Cache(t, i) \in ListPlaces /\ Free(s) \in ListPlaces /\ Free(s) # Cache(t, i)
         /\ Cache(t, i) \in HeldPlaces /\ User \in HeldPlaces /\ Free(s) \notin HeldPlaces
    BY <1>7, <1>8, PlaceSets, PlaceFacts
  <1>15. Split(place, rank, after, ranked, Free(s), Cache(t, i), a, n, last)
    BY <1>6, <1>9, <1>10, <1>11, <1>12, <1>13, <1>14 DEF Split
  <1>16. /\ PlaceType(after, ranked) /\ Linked(after, ranked)' /\ Ranked(after, ranked)
         /\ Begins(after, ranked, Free(s), next[last])
         /\ Begins(after, ranked, Cache(t, i), IF n = 1 THEN 0 ELSE next[a])
         /\ n # 1 => LenFrom(ranked, next[a]) = n - 1
         /\ Untouched(place, rank, after, ranked, {Free(s), Cache(t, i)})
    BY <1>1, <1>15, SplitHead
  <1> DEFINE Taken(c) == place[c] = Free(s) /\ rank[c] > rank[a] - n
  <1>17. /\ \A c \in Addresses : after[c] = IF Taken(c) THEN IF c = a THEN User ELSE Cache(t, i) ELSE place[c]
         /\ Taken(a)
    <2>1. rank[a] > rank[a] - n
      BY <1>10
    <2> QED
      BY <1>9, <1>12, <2>1 DEF Begins
  <1> HIDE DEF Taken
  <1>18. /\ next \in [Addresses -> Addresses \cup {0}]
         /\ next' \in [Addresses -> Addresses \cup {0}]
         /\ next[a] \in Addresses \cup {0} /\ next[last] \in Addresses \cup {0}
    BY <1>1, <1>6, <1>9, <1>10 DEF Types
  <1>19. /\ tc' \in [Threads -> [Lists -> CacheType]]
         /\ \A u \in Threads \ {t} : tc'[u] = tc[u]
         /\ \A j \in Lists \ {i} : tc'[t][j] = tc[t][j]
         /\ tc'[t][i].header = (IF n = 1 THEN 0 ELSE next[a])
         /\ tc'[t][i].size = n - 1 /\ tc'[t][i].apply = tc[t][i].apply
    <2> DEFINE old == tc[t][i]
               new == IF n = 1 THEN old ELSE PushRange(old, next[a], n - 1)
    <2>1. old \in CacheType /\ old.header = 0 /\ old.size = 0
      BY <1>1, <1>8 DEF Types, Sized, LenFrom
    <2>2. n - 1 \in Nat
      BY <1>10
    <2>3. new \in CacheType /\ new.apply = old.apply /\ new.size = n - 1
          /\ new.header = (IF n = 1 THEN 0 ELSE next[a])
      <3> HIDE DEF old
      <3>1. CASE n = 1
        BY <2>1, <3>1
      <3>2. CASE n # 1
        <4>1. PICK h \in Addresses \cup {0} : h = next[a]
          BY <1>18
        <4>2. PICK k \in Nat : k = n - 1
          BY <2>2
        <4>3. PICK l \in CacheType : l = old
          BY <2>1
        <4>4. /\ PushRange(l, h, k) \in CacheType /\ PushRange(l, h, k).header = h
              /\ PushRange(l, h, k).size = l.size + k /\ PushRange(l, h, k).apply = l.apply
          BY FreelistFacts
        <4>5. new = PushRange(l, h, k)
          BY <3>2, <4>1, <4>2, <4>3
        <4> HIDE DEF new
        <4> QED
          BY <2>1, <2>2, <3>2, <4>1, <4>2, <4>3, <4>4, <4>5
      <3> QED
        BY <3>1, <3>2
    <2>4. tc' = [tc EXCEPT ![t] = [tc[t] EXCEPT ![i] = new]]
      BY <1>1, <1>6, <1>8 DEF Types
    <2> HIDE DEF new
    <2>5. /\ tc' \in [Threads -> [Lists -> CacheType]]
          /\ \A u \in Threads \ {t} : tc'[u] = tc[u]
          /\ \A j \in Lists \ {i} : tc'[t][j] = tc[t][j]
          /\ tc'[t][i] = new
      BY <1>1, <1>8, <2>3, <2>4 DEF Types
    <2> QED
      BY <2>3, <2>5
  <1>20. /\ call' \in [Threads -> CallType] /\ \A u \in Threads \ {t} : call'[u] = call[u]
         /\ call'[t].at = "idle" /\ call'[t].start = 0
    <2>1. Idle \in CallType
      BY DEF Idle, CallType
    <2>2. Idle.at = "idle" /\ Idle.start = 0
      BY DEF Idle
    <2> QED
      BY <1>1, <1>6, <2>1, <2>2 DEF Types
  <1>21. /\ span' \in [Spans -> SpanType] /\ \A v \in Spans \ {s} : span'[v] = span[v]
         /\ span'[s].header = next[last] /\ span'[s].use = span[s].use + n
         /\ span'[s].page = span[s].page /\ span'[s].block = span[s].block
    <2> DEFINE new == [span[s] EXCEPT !.header = next[last], !.use = span[s].use + n]
    <2>1. span[s] \in SpanType
      BY <1>1, <1>7 DEF Types
    <2>2. span[s].use + n \in Nat
      BY <1>10, <2>1 DEF SpanType
    <2>3. new \in SpanType /\ new.header = next[last] /\ new.use = span[s].use + n
          /\ new.page = span[s].page /\ new.block = span[s].block
      BY <1>18, <2>1, <2>2 DEF SpanType
    <2>4. span' = [span EXCEPT ![s] = new]
      BY <1>6
    <2> HIDE DEF new
    <2> QED
      BY <1>1, <1>7, <2>3, <2>4 DEF Types
  <1>22. SameSpans /\ Given' = Given /\ PagesDisjoint' /\ \A v \in Spans : BlocksOf(v)' = BlocksOf(v)
    <2>1. SameSpans
      BY <1>7, <1>21 DEF SameSpans
    <2> QED
      BY <1>1, <2>1, SpansKept
  <1>23. Types'
    <2>1. \A v \in Spans : \/ span'[v].page \in Pages /\ span'[v].block \in Aligns
                           \/ span'[v] = NewSpan
      <3>1. span[s].page \in Pages /\ span[s].block \in Aligns
        BY <1>1, <1>7 DEF Types, Given, NewSpan
      <3> QED
        BY <1>1, <1>21, <3>1 DEF Types
    <2> QED
      BY <1>18, <1>19, <1>20, <1>21, <2>1 DEF Types
  <1>24. /\ \A c \in Addresses : Taken(c) => place[c] = Free(s) /\ c \in BlocksOf(s)
         /\ \A c \in Addresses : ~Taken(c) => after[c] = place[c]
    BY <1>1, <1>7, <1>17 DEF Taken, Owned
  <1>25. Heads(after, ranked)'
    <2>1. ASSUME NEW u \in Threads, NEW j \in Lists
          PROVE  Begins(after, ranked, Cache(u, j), tc'[u][j].header)
      <3>1. CASE u = t /\ j = i
        BY <1>16, <1>19, <3>1
      <3>2. CASE ~(u = t /\ j = i)
        <4>1. tc'[u][j] = tc[u][j] /\ Cache(u, j) \in ListPlaces \ {Free(s), Cache(t, i)}
          BY <1>19, <3>2, PlaceFacts, PlaceSets
        <4>2. tc[u][j].header \in Addresses \cup {0}
          BY <1>1 DEF Types, CacheType
        <4> QED
          BY <1>1, <1>16, <4>1, <4>2 DEF Heads, Untouched
      <3> QED
        BY <3>1, <3>2
    <2>2. ASSUME NEW u \in Threads
          PROVE  Begins(after, ranked, Return(u), call'[u].start)
      <3>1. /\ Return(u) \in ListPlaces \ {Free(s), Cache(t, i)}
            /\ call[u].start \in Addresses \cup {0} /\ call'[u].start = call[u].start
        BY <1>8, <1>20, PlaceFacts, PlaceSets, StartFacts
      <3> QED
        BY <1>1, <1>16, <3>1 DEF Heads, Untouched
    <2>3. ASSUME NEW v \in Spans
          PROVE  Begins(after, ranked, Free(v), span'[v].header) \/ Aliased(after, v)'
      <3>1. CASE v = s
        BY <1>16, <1>21, <3>1
      <3>2. CASE v # s
        <4>1. /\ Free(v) \in ListPlaces \ {Free(s), Cache(t, i)} /\ span[v].header \in Addresses \cup {0}
              /\ span'[v] = span[v]
          BY <1>1, <1>21, <3>2, PlaceFacts, PlaceSets DEF Types, SpanType
        <4>2. CASE Begins(place, rank, Free(v), span[v].header)
          BY <1>16, <4>1, <4>2 DEF Untouched
        <4>3. CASE Aliased(place, v)
          <5>1. \A c \in Addresses : after[c] = Free(v) => place[c] = Free(v)
            BY <1>17, PlaceFacts
          <5>2. \A u \in Threads : call[u].at = "loop" => call'[u] = call[u]
            BY <1>20
          <5> QED
            BY <1>22, <4>1, <4>3, <5>1, <5>2, AliasKept
        <4> QED
          BY <1>1, <4>2, <4>3 DEF Heads
      <3> QED
        BY <3>1, <3>2
    <2>4. used' = {c \in Addresses : after[c] = User}
      <3>1. \A c \in Addresses : after[c] = User <=> c = a \/ place[c] = User
        BY <1>17, PlaceFacts DEF Taken
      <3> QED
        BY <1>1, <1>6, <1>9, <3>1 DEF Heads
    <2> QED
      BY <2>1, <2>2, <2>3, <2>4 DEF Heads, Begins
  <1>26. Owned(after)'
    <2>1. \A c \in Addresses : after[c] # None => \E v \in Spans : c \in BlocksOf(v)
      BY <1>1, <1>7, <1>24 DEF Owned
    <2>2. \A c \in Addresses, v \in Spans : after[c] = Free(v) => c \in BlocksOf(v)
      BY <1>1, <1>17, PlaceFacts DEF Owned
    <2>3. ASSUME NEW c \in Addresses, NEW v \in Spans, c \in BlocksOf(v), NEW u \in Threads
          PROVE  /\ \A j \in Lists : after[c] = Cache(u, j) => Index(span[v].block) = j
                 /\ after[c] = Return(u) => span[v].block = call'[u].align
      <3>1. CASE Taken(c)
        <4>1. v = s
          BY <1>1, <1>7, <1>24, <2>3, <3>1, OwnerFacts
        <4>2. after[c] = User \/ after[c] = Cache(t, i)
          BY <1>17, <3>1
        <4> QED
          BY <1>2, <4>1, <4>2, PlaceFacts
      <3>2. CASE ~Taken(c)
        <4>1. after[c] = place[c]
          BY <1>24, <3>2
        <4>2. /\ \A j \in Lists : place[c] = Cache(u, j) => Index(span[v].block) = j
              /\ place[c] = Return(u) => span[v].block = call[u].align
          BY <1>1, <2>3 DEF Owned
        <4>3. place[c] = Return(u) => u # t
          BY <1>8, StartFacts
        <4> QED
          BY <1>20, <4>1, <4>2, <4>3
      <3> QED
        BY <3>1, <3>2
    <2> QED
      BY <1>21, <1>22, <2>1, <2>2, <2>3 DEF Owned
  <1>27. Counted(after)'
    <2>1. ASSUME NEW v \in Spans \ {s} PROVE HeldOf(after, v)' = HeldOf(place, v)
      <3>1. \A c \in BlocksOf(v) : c \in Addresses /\ ~Taken(c)
        BY <1>1, <1>7, <1>24, OwnerFacts DEF BlocksOf
      <3> QED
        BY <1>22, <1>24, <3>1 DEF HeldOf
    <2> DEFINE T == {c \in Addresses : Taken(c)}
               H == HeldOf(place, s)
    <2>2. IsFiniteSet(T) /\ Cardinality(T) = n
      <3>1. rank[a] - n \in 0 .. LenFrom(rank, a) /\ LenFrom(rank, a) = rank[a]
        BY <1>9, <1>10 DEF LenFrom
      <3>2. PICK m : m = rank[a] - n
        OBVIOUS
      <3>3. T = {c \in Addresses : place[c] = Free(s) /\ rank[c] > m}
        BY <3>2 DEF Taken
      <3>4. /\ IsFiniteSet({c \in Addresses : place[c] = Free(s) /\ rank[c] > m})
            /\ Cardinality({c \in Addresses : place[c] = Free(s) /\ rank[c] > m}) = LenFrom(rank, a) - m
        <4>1. m \in 0 .. LenFrom(rank, a)
          BY <3>1, <3>2
        <4> QED
          BY <1>1, <1>9, <1>14, <4>1, RanksAbove
      <3>5. LenFrom(rank, a) - m = n
        BY <1>10, <3>1, <3>2
      <3> QED
        BY <3>3, <3>4, <3>5
    <2>3. HeldOf(after, s)' = H \cup T
      <3>1. HeldOf(after, s)' = {c \in BlocksOf(s) : after[c] \in HeldPlaces}
        BY <1>7, <1>22 DEF HeldOf
      <3>2. \A c \in BlocksOf(s) : after[c] \in HeldPlaces <=> place[c] \in HeldPlaces \/ Taken(c)
        BY <1>14, <1>17 DEF BlocksOf
      <3> QED
        BY <1>24, <3>1, <3>2 DEF HeldOf, BlocksOf
    <2>4. H \cap T = {} /\ IsFiniteSet(H)
      <3>1. H \cap T = {}
        BY <1>14, <1>24 DEF HeldOf
      <3>2. H \in SUBSET Addresses
        BY DEF HeldOf, BlocksOf
      <3> QED
        BY <3>1, <3>2, AddressFacts, FS_Subset
    <2> HIDE DEF H, T
    <2>5. Cardinality(H \cup T) = Cardinality(H) + n
      <3>1. Cardinality(H \cup T) = Cardinality(H) + Cardinality(T) - Cardinality(H \cap T)
        BY <2>2, <2>4, FS_Union
      <3>2. Cardinality(H \cap T) = 0 /\ Cardinality(H) \in Nat
        BY <2>4, FS_EmptySet, FS_CardinalityType
      <3> QED
        BY <1>10, <2>2, <3>1, <3>2
    <2>6. span[s].use = Cardinality(H)
      BY <1>1, <1>7 DEF Counted, H
    <2>7. \A v \in Spans : span'[v].use = Cardinality(HeldOf(after, v)')
      <3> TAKE v \in Spans
      <3>1. CASE v = s
        BY <1>21, <2>3, <2>5, <2>6, <3>1
      <3>2. CASE v # s
        BY <1>1, <1>21, <2>1, <3>2 DEF Counted
      <3> QED
        BY <3>1, <3>2
    <2> QED
      BY <2>7 DEF Counted
  <1>28. Sized(ranked)'
    <2>1. ASSUME NEW u \in Threads, NEW j \in Lists
          PROVE  /\ tc'[u][j].size = LenFrom(ranked, tc'[u][j].header)
                 /\ tc'[u][j].size < tc'[u][j].apply
                 /\ \A q \in Requests : Index(q) = j => tc'[u][j].apply <= BlockThreshHold(RoundUp(q)) + 1
      <3>1. CASE u = t /\ j = i
        <4>1. \A q \in Requests : Index(q) = j => tc[t][i].apply <= BlockThreshHold(RoundUp(q)) + 1
          BY <1>1, <3>1 DEF Sized
        <4>2. tc'[u][j].size = LenFrom(ranked, tc'[u][j].header)
          <5>1. CASE n = 1
            BY <1>19, <3>1, <5>1 DEF LenFrom
          <5>2. CASE n # 1
            BY <1>16, <1>19, <3>1, <5>2
          <5> QED
            BY <5>1, <5>2
        <4>3. n - 1 < tc[t][i].apply
          <5>1. tc[t][i].apply \in Nat
            BY <1>1, <1>8 DEF Types, CacheType
          <5> QED
            BY <1>8, <1>10, <5>1
        <4> QED
          BY <1>19, <3>1, <4>1, <4>2, <4>3
      <3>2. CASE ~(u = t /\ j = i)
        <4>1. tc'[u][j] = tc[u][j] /\ Cache(u, j) \in ListPlaces \ {Free(s), Cache(t, i)}
          BY <1>19, <3>2, PlaceFacts, PlaceSets
        <4>2. tc[u][j].header \in Addresses \cup {0}
          BY <1>1 DEF Types, CacheType
        <4>3. LenFrom(ranked, tc[u][j].header) = LenFrom(rank, tc[u][j].header)
          BY <1>1, <1>16, <4>1, <4>2 DEF Heads, Untouched
        <4> QED
          BY <1>1, <4>1, <4>3 DEF Sized
      <3> QED
        BY <3>1, <3>2
    <2> QED
      BY <2>1 DEF Sized, LenFrom
  <1>29. Calls(after)'
    <2>1. ASSUME NEW u \in Threads \ {t} PROVE CallOf(after, u)'
      <3>1. CallOf(place, u)
        BY <1>1 DEF Calls
      <3>2. call[u].at \in {"insert", "giveback"} =>
              /\ \A c \in BlocksOf(call[u].span) : after[c] = place[c]
              /\ span'[call[u].span] = span[call[u].span]
        <4> SUFFICES ASSUME call[u].at \in {"insert", "giveback"}
                     PROVE  /\ \A c \in BlocksOf(call[u].span) : after[c] = place[c]
                            /\ span'[call[u].span] = span[call[u].span]
          OBVIOUS
        <4>1. call[u].span \in Spans \ {s}
          BY PendingFacts
        <4>2. \A c \in BlocksOf(call[u].span) : c \in Addresses /\ ~Taken(c)
          BY <1>1, <1>7, <1>24, <4>1, OwnerFacts DEF BlocksOf
        <4> QED
          BY <1>21, <1>24, <4>1, <4>2
      <3>3. call'[u] = call[u] /\ tc'[u] = tc[u]
        BY <1>19, <1>20
      <3>4. call[u].at \in {"insert", "giveback"} =>
              /\ call[u].span \in Given' /\ BlocksOf(call[u].span)' = BlocksOf(call[u].span)
              /\ \A j \in Lists : \A k \in DOMAIN lists'[j] : lists'[j][k] # call[u].span
        <4> HAVE call[u].at \in {"insert", "giveback"}
        <4>1. call[u].span \in Given /\ call[u].span \in Spans
          BY PendingFacts
        <4> QED
          BY <1>22, <3>3, <4>1
      <3> QED
        BY <3>1, <3>2, <3>3, <3>4, CallKept
    <2>2. CallOf(after, t)'
      BY <1>20 DEF CallOf
    <2> QED
      BY <2>1, <2>2 DEF Calls
  <1>30. CallsApart'
    BY <1>1, <1>20, ApartKept
  <1>31. Listed'
    <2>1. ASSUME NEW j \in Lists, NEW k \in DOMAIN lists'[j]
          PROVE  lists'[j][k] \in Given' /\ Index(span'[lists'[j][k]].block) = j
      <3>1. lists'[j][k] \in Given /\ Index(span[lists'[j][k]].block) = j
        OBVIOUS
      <3>2. \A v \in Given : v \in Spans
        BY DEF Given
      <3>3. \A v \in Given : span'[v].block = span[v].block
        BY <1>22, <3>2 DEF SameSpans
      <3> QED
        BY <1>22, <3>1, <3>3
    <2> QED
      BY <2>1 DEF Listed
  <1>32. Whole(after)'
    <2>1. ASSUME NEW v \in Given PROVE SpanWhole(after, v)'
      <3>1. SpanWhole(place, v) /\ BlocksOf(v)' = BlocksOf(v) /\ v \in Spans
        BY <1>22 DEF Good, Whole, Given
      <3>2. \A c \in BlocksOf(v) : place[c] # None => after[c] # None
        BY <1>17, PlaceFacts DEF BlocksOf
      <3>3. span'[v].page = span[v].page /\ span'[v].block = span[v].block
        BY <1>22, <3>1 DEF SameSpans
      <3>4. \A u \in Threads : call[u].at = "loop" => u # t /\ call'[u] = call[u]
        BY <1>20
      <3>5. CASE v = s
        <4>1. place[a] = Free(s)
          BY <1>9 DEF Begins
        <4>2. \A u \in Threads : call[u].start # a
          BY <1>9, <4>1, StartFacts, PlaceFacts
        <4> QED
          BY <1>3, <3>1, <3>2, <3>3, <3>5, <4>2, WholeKept
      <3>6. CASE v # s
        <4>1. span'[v] = span[v]
          BY <1>21, <3>1, <3>6
        <4> QED
          BY <3>1, <3>2, <3>4, <4>1, WholeKept
      <3> QED
        BY <3>5, <3>6
    <2> QED
      BY <1>22, <2>1 DEF Whole
  <1>33. Good(after, ranked)'
    BY <1>16, <1>22, <1>23, <1>25, <1>26, <1>27, <1>28, <1>29, <1>30, <1>31, <1>32 DEF Good, PlaceType, Ranked
  <1> QED
    BY <1>33
-----------------------------------------------------------------------------
(* A set of natural numbers has a least one. *)
LEMMA MinIn ==
  ASSUME NEW H \in SUBSET Nat, H # {}
  PROVE  Min(H) \in H
PROOF
  <1>1. PICK N \in H : TRUE
    OBVIOUS
  <1> DEFINE B == {0 .. n : n \in {k \in H : k <= N}}
             S == 0 .. N
  <1>2. IsFiniteSet(S) /\ B \subseteq SUBSET S /\ B # {}
    <2>1. B \subseteq SUBSET S /\ 0 .. N \in B
      BY <1>1
    <2>2. IsFiniteSet(S)
      BY FS_Interval
    <2> QED
      BY <2>1, <2>2
  <1>3. PICK U \in B : \A V \in B : V \subseteq U => V = U
    <2> HIDE DEF B, S
    <2> QED
      BY <1>2, SmallestSet
  <1>4. PICK n \in H : U = 0 .. n /\ n <= N
    OBVIOUS
  <1>5. ASSUME NEW m \in H PROVE n <= m
    <2> SUFFICES ASSUME m < n PROVE FALSE
      OBVIOUS
    <2>1. 0 .. m \in B /\ 0 .. m \subseteq U /\ n \in U /\ n \notin 0 .. m
      BY <1>4
    <2> QED
      BY <1>3, <2>1
  <1> QED
    BY <1>5 DEF Min

(* AllocFound takes from the first span of the list that has a block. *)
LEMMA AllocFoundStep ==
  ASSUME NEW place, NEW rank, Good(place, rank), NEW t \in Threads, AllocFound(t)
  PROVE  \E after, ranked : Good(after, ranked)'
PROOF
  <1>1. Types /\ CallOf(place, t) /\ Listed /\ Calls(place)
    BY DEF Good, Calls
  <1>2. call[t].at = "alloc" /\ LockFree(t) /\ lists' = lists
    BY DEF AllocFound
  <1>3. PICK i \in Lists : i = ListOf(t)
    BY <1>1, <1>2, ClassFacts DEF CallOf, ListOf
  <1>4. PICK H : H = HasBlock(lists[i])
    OBVIOUS
  <1>5. PICK k \in DOMAIN lists[i] : k = Min(H) /\ span[lists[i][k]].header # 0
    <2>1. lists[i] \in Seq(Spans)
      BY <1>1 DEF Types
    <2>2. DOMAIN lists[i] = 1 .. Len(lists[i]) /\ Len(lists[i]) \in Nat
      BY <2>1
    <2>3. H \in SUBSET Nat /\ H # {}
      BY <1>3, <1>4, <2>2 DEF HasBlock, AllocFound
    <2>4. Min(H) \in H
      BY <2>3, MinIn
    <2> QED
      BY <1>4, <2>4 DEF HasBlock
  <1>6. PICK s \in Given : s = lists[i][k] /\ span[s].header # 0 /\ Index(span[s].block) = i
    BY <1>1, <1>3, <1>5 DEF Listed
  <1>7. Take(t, s)
    BY <1>3, <1>4, <1>5, <1>6 DEF AllocFound
  <1>8. lists' \in [Lists -> Seq(Spans)]
    BY <1>1, <1>2 DEF Types
  <1>9. \A j \in Lists :
          /\ \A m \in DOMAIN lists'[j] : lists'[j][m] \in Given /\ Index(span[lists'[j][m]].block) = j
          /\ \A m, n \in DOMAIN lists'[j] : lists'[j][m] = lists'[j][n] => m = n
    BY <1>1, <1>2 DEF Listed
  <1>10. \A u \in Threads \ {t} : call[u].at \in {"insert", "giveback"} =>
           /\ call[u].span # s
           /\ \A j \in Lists : \A m \in DOMAIN lists'[j] : lists'[j][m] # call[u].span
    BY <1>2, <1>3, <1>5, <1>6, PendingFacts
  <1> QED
    BY <1>2, <1>3, <1>6, <1>7, <1>8, <1>9, <1>10, TakeStep

(* InsertTake takes from the span that it puts before the others. *)
LEMMA InsertTakeStep ==
  ASSUME NEW place, NEW rank, Good(place, rank), NEW t \in Threads, InsertTake(t)
  PROVE  \E after, ranked : Good(after, ranked)'
PROOF
  <1>1. Types /\ CallOf(place, t) /\ Listed /\ Calls(place) /\ CallsApart
    BY DEF Good, Calls
  <1>2. call[t].at = "insert" /\ LockFree(t)
    BY DEF InsertTake
  <1>3. PICK i \in Lists : i = ListOf(t)
    BY <1>1, <1>2, ClassFacts DEF CallOf, ListOf
  <1>4. PICK s \in Given : s = call[t].span
    BY <1>1, <1>2 DEF CallOf
  <1>5. /\ s \in Spans /\ span[s].header # 0 /\ Index(span[s].block) = i
        /\ \A j \in Lists : \A k \in DOMAIN lists[j] : lists[j][k] # s
    BY <1>1, <1>2, <1>3, <1>4 DEF CallOf, ListOf, Given
  <1>6. PICK l \in Seq(Spans) : l = lists[i]
    BY <1>1 DEF Types
  <1>7. /\ <<s>> \o l \in Seq(Spans) /\ Len(<<s>> \o l) = Len(l) + 1 /\ Len(l) \in Nat
        /\ (<<s>> \o l)[1] = s
        /\ \A k \in 1 .. Len(l) : (<<s>> \o l)[k + 1] = l[k]
    BY <1>5
  <1>8. PICK new : new = <<s>> \o l
    OBVIOUS
  <1>9. /\ new \in Seq(Spans) /\ DOMAIN new = 1 .. Len(l) + 1 /\ new[1] = s
        /\ \A k \in 2 .. Len(l) + 1 : k - 1 \in DOMAIN l /\ new[k] = l[k - 1]
        /\ Len(l) \in Nat
    <2>1. \A k \in 2 .. Len(l) + 1 : k - 1 \in 1 .. Len(l) /\ (k - 1) + 1 = k
      BY <1>7
    <2> QED
      BY <1>7, <1>8, <2>1
  <1>10. lists' = [lists EXCEPT ![i] = new]
    BY <1>3, <1>4, <1>6, <1>8 DEF InsertTake
  <1>11. /\ lists' \in [Lists -> Seq(Spans)]
         /\ lists'[i] = new /\ \A j \in Lists \ {i} : lists'[j] = lists[j]
    BY <1>1, <1>9, <1>10 DEF Types
  <1>12. \A k \in DOMAIN new : \/ k = 1 /\ new[k] = s
                               \/ k - 1 \in DOMAIN l /\ new[k] = l[k - 1] /\ new[k] # s
    <2> TAKE k \in DOMAIN new
    <2>1. k \in 1 .. Len(l) + 1 /\ (k = 1 \/ k \in 2 .. Len(l) + 1)
      BY <1>9
    <2> QED
      BY <1>5, <1>6, <1>9, <2>1
  <1>13. \A j \in Lists :
           /\ \A k \in DOMAIN lists'[j] : lists'[j][k] \in Given /\ Index(span[lists'[j][k]].block) = j
           /\ \A k, m \in DOMAIN lists'[j] : lists'[j][k] = lists'[j][m] => k = m
    <2> TAKE j \in Lists
    <2>1. CASE j = i
      <3>1. \A k \in DOMAIN new : new[k] \in Given /\ Index(span[new[k]].block) = i
        BY <1>1, <1>5, <1>6, <1>12 DEF Listed
      <3>2. ASSUME NEW k \in DOMAIN new, NEW m \in DOMAIN new, new[k] = new[m] PROVE k = m
        <4>1. k \in Nat /\ m \in Nat
          BY <1>9
        <4>2. \A p, q \in DOMAIN l : l[p] = l[q] => p = q
          BY <1>1, <1>6 DEF Listed
        <4>3. CASE k = 1 \/ m = 1
          BY <1>12, <3>2, <4>3
        <4>4. CASE k # 1 /\ m # 1
          <5>1. k - 1 \in DOMAIN l /\ m - 1 \in DOMAIN l /\ l[k - 1] = l[m - 1]
            BY <1>12, <3>2, <4>4
          <5>2. k - 1 = m - 1
            BY <4>2, <5>1
          <5> QED
            BY <4>1, <5>2
        <4> QED
          BY <4>3, <4>4
      <3> QED
        BY <1>11, <2>1, <3>1, <3>2
    <2>2. CASE j # i
      BY <1>1, <1>11, <2>2 DEF Listed
    <2> QED
      BY <2>1, <2>2
  <1>14. ASSUME NEW u \in Threads \ {t}, call[u].at \in {"insert", "giveback"}
         PROVE  /\ call[u].span # s
                /\ \A j \in Lists : \A k \in DOMAIN lists'[j] : lists'[j][k] # call[u].span
    <2>1. call[u].span # s
      BY <1>1, <1>2, <1>4, <1>14 DEF CallsApart
    <2>2. \A j \in Lists : \A k \in DOMAIN lists[j] : lists[j][k] # call[u].span
      BY <1>14, PendingFacts
    <2>3. \A k \in DOMAIN new : new[k] # call[u].span
      BY <1>6, <1>12, <2>1, <2>2
    <2> QED
      BY <1>11, <2>1, <2>2, <2>3
  <1>15. Take(t, s)
    BY <1>4 DEF InsertTake
  <1> QED
    BY <1>2, <1>3, <1>5, <1>11, <1>13, <1>14, <1>15, TakeStep
-----------------------------------------------------------------------------
(* Division and its remainder. *)
LEMMA Quotient ==
  ASSUME NEW x \in Nat, NEW b \in Nat \ {0}
  PROVE  x \div b \in Nat /\ (x \div b) * b <= x /\ x < (x \div b) * b + b
  OBVIOUS

(* The blocks that _m_get_span links lie in the pages of the span, one after  *)
(* the other.                                                                *)
LEMMA CarveFacts ==
  ASSUME NEW a \in Nat \ {0}, NEW k \in Nat \ {0}, NEW p \in Nat \ {0}, p + k - 1 <= HeapPages
  PROVE  /\ Carved(k, a) \in Nat \ {0}
         /\ \A j \in 1 .. Carved(k, a) :
              /\ p * PageBytes + (j - 1) * a \in Addresses
              /\ (p * PageBytes + (j - 1) * a) \div PageBytes \in p .. p + k - 1
PROOF
  <1> DEFINE P == PageBytes
             m == Carved(k, a)
             x == k * P
  <1>1. P \in Nat \ {0} /\ HeapPages \in Nat
    BY AddressFacts
  <1>2. m = (x + a - 1) \div a
    BY DEF Carved
  <1>3. x \in Nat /\ x >= 1
    <2>1. x \in Nat /\ x # 0
      BY <1>1
    <2> QED
      BY <2>1
  <1>4. m \in Nat /\ m * a <= x + a - 1 /\ x + a - 1 < m * a + a
    <2> HIDE DEF x, m
    <2>1. x + a - 1 \in Nat
      BY <1>3
    <2> QED
      BY <1>2, <2>1, Quotient
  <1>5. m # 0
    <2>1. m = 0 => m * a = 0
      OBVIOUS
    <2> QED
      BY <1>3, <1>4, <2>1
  <1>6. ASSUME NEW j \in 1 .. m
        PROVE  /\ p * P + (j - 1) * a \in Addresses
               /\ (p * P + (j - 1) * a) \div P \in p .. p + k - 1
    <2> DEFINE d == (j - 1) * a
               e == (m - j) * a
               b == p * P + d
    <2>1. d \in Nat /\ e \in Nat /\ d + e + a = m * a
      <3>1. j - 1 \in Nat /\ m - j \in Nat
        BY <1>4
      <3> QED
        BY <1>4, <3>1
    <2>2. d < x
      <3> HIDE DEF d, e, x, m
      <3>1. m * a \in Nat
        BY <1>4
      <3> QED
        BY <1>3, <1>4, <2>1, <3>1
    <2>3. b \in Nat /\ p * P <= b /\ b < p * P + x
      <3> HIDE DEF d, x
      <3>1. p * P \in Nat
        BY <1>1
      <3> QED
        BY <1>3, <2>1, <2>2, <3>1
    <2>4. p * P + x = (p + k) * P
      BY <1>1
    <2>5. (p + k) * P <= (HeapPages + 1) * P /\ P <= p * P
      <3>1. HeapPages + 1 - (p + k) \in Nat /\ p - 1 \in Nat
        BY <1>1
      <3>2. (HeapPages + 1 - (p + k)) * P \in Nat /\ (p - 1) * P \in Nat
        BY <1>1, <3>1
      <3>3. (HeapPages + 1) * P = (p + k) * P + (HeapPages + 1 - (p + k)) * P /\ p * P = (p - 1) * P + P
        BY <1>1
      <3>4. (p + k) * P \in Nat /\ p * P \in Nat /\ (HeapPages + 1) * P \in Nat
        BY <1>1
      <3> QED
        BY <1>1, <3>2, <3>3, <3>4
    <2> DEFINE q == b \div P
    <2>6. q \in Nat /\ q * P <= b /\ b < q * P + P
      <3> HIDE DEF b
      <3> QED
        BY <1>1, <2>3, Quotient
    <2> HIDE DEF q, b, x
    <2>7. p <= q
      <3> SUFFICES ASSUME q <= p - 1 PROVE FALSE
        BY <2>6
      <3>1. p - 1 - q \in Nat
        BY <2>6
      <3>2. (p - 1 - q) * P \in Nat
        BY <1>1, <3>1
      <3>3. p * P = (p - 1 - q) * P + q * P + P
        BY <1>1, <2>6
      <3>4. q * P \in Nat /\ p * P \in Nat
        BY <1>1, <2>6
      <3> QED
        BY <1>1, <2>3, <2>6, <3>2, <3>3, <3>4
    <2>8. q <= p + k - 1
      <3> SUFFICES ASSUME q >= p + k PROVE FALSE
        BY <2>6
      <3>1. q - (p + k) \in Nat
        BY <2>6
      <3>2. (q - (p + k)) * P \in Nat
        BY <1>1, <3>1
      <3>3. q * P = (p + k) * P + (q - (p + k)) * P
        BY <1>1, <2>6
      <3>4. q * P \in Nat /\ (p + k) * P \in Nat
        BY <1>1, <2>6
      <3> QED
        BY <2>3, <2>4, <2>6, <3>2, <3>3, <3>4
    <2>9. b \in Addresses
      <3>1. (p + k) * P \in Nat /\ p * P \in Nat /\ (HeapPages + 1) * P \in Nat
        BY <1>1
      <3> QED
        BY <1>1, <2>3, <2>4, <2>5, <3>1 DEF Addresses
    <2> QED
      BY <2>6, <2>7, <2>8, <2>9 DEF q, b
  <1> QED
    BY <1>4, <1>5, <1>6

(* Blocks that are nowhere are linked and become list y, which was empty.    *)
LinkedNew(place, rank, after, ranked, y, blk, m) ==
  /\ y \in ListPlaces /\ \A c \in Addresses : place[c] # y
  /\ m \in Nat \ {0} /\ blk \in [1 .. m -> Addresses]
  /\ \A i, j \in 1 .. m : blk[i] = blk[j] => i = j
  /\ \A j \in 1 .. m : place[blk[j]] = None
  /\ \A j \in 1 .. m : next'[blk[j]] = IF j = m THEN 0 ELSE blk[j + 1]
  /\ \A c \in Addresses : (\A j \in 1 .. m : c # blk[j]) => next'[c] = next[c]
  /\ after \in [Addresses -> Places] /\ ranked \in [Addresses -> Nat \ {0}]
  /\ \A j \in 1 .. m : after[blk[j]] = y /\ ranked[blk[j]] = m - j + 1
  /\ \A c \in Addresses : (\A j \in 1 .. m : c # blk[j]) =>
       after[c] = place[c] /\ ranked[c] = rank[c]

(* The blocks of a new span are linked in order of their addresses. *)
LEMMA LinkNew ==
  ASSUME NEW place, NEW rank, Types, PlaceType(place, rank),
         Linked(place, rank), Ranked(place, rank),
         NEW after, NEW ranked, NEW y, NEW blk, NEW m,
         LinkedNew(place, rank, after, ranked, y, blk, m)
  PROVE  /\ PlaceType(after, ranked) /\ Linked(after, ranked)' /\ Ranked(after, ranked)
         /\ Begins(after, ranked, y, blk[1])
         /\ Untouched(place, rank, after, ranked, {y})
PROOF
  <1>0. /\ y \in ListPlaces /\ \A c \in Addresses : place[c] # y
        /\ m \in Nat \ {0} /\ blk \in [1 .. m -> Addresses]
        /\ \A i, j \in 1 .. m : blk[i] = blk[j] => i = j
        /\ \A j \in 1 .. m : place[blk[j]] = None
        /\ \A j \in 1 .. m : next'[blk[j]] = IF j = m THEN 0 ELSE blk[j + 1]
        /\ \A c \in Addresses : (\A j \in 1 .. m : c # blk[j]) => next'[c] = next[c]
        /\ after \in [Addresses -> Places] /\ ranked \in [Addresses -> Nat \ {0}]
        /\ \A j \in 1 .. m : after[blk[j]] = y /\ ranked[blk[j]] = m - j + 1
        /\ \A c \in Addresses : (\A j \in 1 .. m : c # blk[j]) =>
             after[c] = place[c] /\ ranked[c] = rank[c]
    BY DEF LinkedNew
  <1> USE <1>0
  <1> DEFINE New(c) == \E j \in 1 .. m : c = blk[j]
  <1>1. PlaceType(after, ranked)
    BY DEF PlaceType
  <1>2. \A c \in Addresses : /\ New(c) => after[c] = y /\ place[c] = None
                             /\ ~New(c) => after[c] = place[c] /\ ranked[c] = rank[c]
                                           /\ next'[c] = next[c] /\ after[c] # y
    OBVIOUS
  <1>3. ASSUME NEW c \in Addresses, NEW d \in Addresses, after[c] \in ListPlaces,
               after[c] = after[d], ranked[c] = ranked[d]
        PROVE  c = d
    <2>1. CASE New(c)
      <3>1. New(d)
        BY <1>2, <1>3, <2>1
      <3>2. PICK i, j \in 1 .. m : c = blk[i] /\ d = blk[j]
        BY <2>1, <3>1
      <3>3. m - i + 1 = m - j + 1
        BY <1>3, <3>2
      <3>4. i = j
        BY <3>3
      <3> QED
        BY <3>2, <3>4
    <2>2. CASE ~New(c)
      <3>1. ~New(d)
        BY <1>2, <1>3, <2>2
      <3> QED
        BY <1>2, <1>3, <2>2, <3>1 DEF Ranked
    <2> QED
      BY <2>1, <2>2
  <1>4. ASSUME NEW c \in Addresses, after[c] \in ListPlaces
        PROVE  \/ ranked[c] = 1 /\ next'[c] = 0
               \/ /\ ranked[c] > 1 /\ next'[c] \in Addresses
                  /\ after[next'[c]] = after[c] /\ ranked[next'[c]] = ranked[c] - 1
    <2>1. CASE New(c)
      <3>1. PICK j \in 1 .. m : c = blk[j]
        BY <2>1
      <3>2. CASE j = m
        BY <3>1, <3>2
      <3>3. CASE j # m
        <4>1. j + 1 \in 1 .. m /\ m - j + 1 > 1 /\ m - (j + 1) + 1 = (m - j + 1) - 1
          BY <3>3
        <4>2. next'[c] = blk[j + 1] /\ blk[j + 1] \in Addresses
          BY <3>1, <3>3, <4>1
        <4>3. /\ after[c] = y /\ after[blk[j + 1]] = y
              /\ ranked[c] = m - j + 1 /\ ranked[blk[j + 1]] = m - (j + 1) + 1
          BY <3>1, <4>1
        <4> QED
          BY <4>1, <4>2, <4>3
      <3> QED
        BY <3>2, <3>3
    <2>2. CASE ~New(c)
      <3>1. after[c] = place[c] /\ ranked[c] = rank[c] /\ next'[c] = next[c]
        BY <1>2, <2>2
      <3>2. CASE rank[c] = 1 /\ next[c] = 0
        BY <3>1, <3>2
      <3>3. CASE /\ rank[c] > 1 /\ next[c] \in Addresses
                 /\ place[next[c]] = place[c] /\ rank[next[c]] = rank[c] - 1
        <4>1. ~New(next[c])
          BY <1>2, <1>4, <3>1, <3>3, PlaceSets
        <4> QED
          BY <1>2, <3>1, <3>3, <4>1
      <3> QED
        BY <1>4, <3>1, <3>2, <3>3 DEF Linked
    <2> QED
      BY <2>1, <2>2
  <1>5. Begins(after, ranked, y, blk[1])
    <2>1. 1 \in 1 .. m /\ blk[1] \in Addresses /\ after[blk[1]] = y /\ ranked[blk[1]] = m - 1 + 1
      OBVIOUS
    <2>2. \A c \in Addresses : after[c] = y => ranked[c] <= ranked[blk[1]]
      <3> TAKE c \in Addresses
      <3> HAVE after[c] = y
      <3>1. PICK j \in 1 .. m : c = blk[j]
        BY <1>2
      <3>2. ranked[c] = m - j + 1
        BY <3>1
      <3> QED
        BY <2>1, <3>2
    <2> QED
      BY <2>1, <2>2 DEF Begins
  <1>6. Untouched(place, rank, after, ranked, {y})
    <2>1. \A c \in Addresses : \A z \in ListPlaces \ {y} :
            (after[c] = z <=> place[c] = z) /\ (place[c] = z => ranked[c] = rank[c])
      BY <1>2, PlaceSets
    <2> QED
      BY <2>1, UntouchedIf
  <1> QED
    BY <1>1, <1>3, <1>4, <1>5, <1>6 DEF Linked, Ranked
-----------------------------------------------------------------------------
(* A new span: its pages are nobody's, so its blocks were nowhere. *)
LEMMA CreateSpanStep ==
  ASSUME NEW place, NEW rank, Good(place, rank), NEW t \in Threads, NEW s \in Spans, NEW p \in Pages,
         CreateSpan(t, s, p)
  PROVE  \E after, ranked : Good(after, ranked)'
PROOF
  <1>1. /\ Types /\ PlaceType(place, rank) /\ Linked(place, rank) /\ Ranked(place, rank)
        /\ Heads(place, rank) /\ Owned(place) /\ PagesDisjoint /\ Counted(place)
        /\ Sized(rank) /\ Calls(place) /\ CallsApart /\ Listed
    BY DEF Good
  <1>2. PICK a : a = call[t].align
    OBVIOUS
  <1>3. PICK k : k = PageThreshHold(a)
    OBVIOUS
  <1>4. PICK m : m = Carved(k, a)
    OBVIOUS
  <1>5. PICK blk : blk = [j \in 1 .. m |-> p * PageBytes + (j - 1) * a]
    OBVIOUS
  <1>6. /\ call[t].at = "span" /\ CallOf(place, t) /\ a \in Aligns /\ call[t].start = 0
        /\ a \in Nat \ {0} /\ k \in Nat \ {0}
    <2>1. call[t].at = "span" /\ CallOf(place, t)
      BY <1>1 DEF CreateSpan, Calls
    <2>2. a \in Aligns /\ call[t].start = 0
      BY <1>2, <2>1 DEF CallOf
    <2> QED
      BY <1>3, <2>1, <2>2, ClassFacts
  <1>7. /\ s \notin Given /\ p + k - 1 <= HeapPages /\ p \in Nat \ {0}
        /\ \A u \in Given : PagesOf(u) \cap (p .. p + k - 1) = {}
        /\ UNCHANGED <<lists, tc, made, used>>
    BY <1>2, <1>3, AddressFacts DEF CreateSpan, Pages
  <1>8. /\ m \in Nat \ {0} /\ blk \in [1 .. m -> Addresses]
        /\ \A j \in 1 .. m : blk[j] = p * PageBytes + (j - 1) * a
        /\ \A j \in 1 .. m : blk[j] \div PageBytes \in p .. p + k - 1
    BY <1>4, <1>5, <1>6, <1>7, CarveFacts
  <1>9. /\ \A i, j \in 1 .. m : blk[i] = blk[j] => i = j
        /\ \A j \in 1 .. m : j # m => j + 1 \in 1 .. m /\ blk[j + 1] = blk[j] + a
        /\ blk[1] = p * PageBytes + (1 - 1) * a
    <2>1. PageBytes \in Nat /\ p * PageBytes \in Nat
      BY <1>7, AddressFacts
    <2>2. ASSUME NEW i \in 1 .. m, NEW j \in 1 .. m, i < j PROVE blk[i] # blk[j]
      <3>1. j - 1 - (i - 1) \in Nat \ {0}
        BY <1>8, <2>2
      <3>2. (j - 1 - (i - 1)) * a \in Nat \ {0}
        BY <1>6, <3>1
      <3>3. (j - 1) * a = (i - 1) * a + (j - 1 - (i - 1)) * a /\ (i - 1) * a \in Nat /\ (j - 1) * a \in Nat
        BY <1>6, <1>8
      <3>4. (i - 1) * a # (j - 1) * a
        BY <3>2, <3>3
      <3> QED
        BY <1>8, <2>1, <3>3, <3>4
    <2>3. \A i, j \in 1 .. m : blk[i] = blk[j] => i = j
      <3> TAKE i, j \in 1 .. m
      <3>1. i < j \/ j < i \/ i = j
        BY <1>8
      <3> QED
        BY <2>2, <3>1
    <2>4. ASSUME NEW j \in 1 .. m, j # m PROVE j + 1 \in 1 .. m /\ blk[j + 1] = blk[j] + a
      <3>1. j + 1 \in 1 .. m
        BY <1>8, <2>4
      <3>2. (j + 1 - 1) * a = (j - 1) * a + a /\ (j - 1) * a \in Nat
        BY <1>6, <1>8
      <3> QED
        BY <1>6, <1>8, <2>1, <3>1, <3>2
    <2> QED
      BY <1>8, <2>3, <2>4
  <1>10. /\ span[s] = NewSpan /\ \A c \in Addresses : place[c] # Free(s)
         /\ BlocksOf(s) = {} /\ 1 \in 1 .. m
    <2>1. span[s].page = 0
      BY <1>7 DEF Given
    <2>2. span[s].page \notin Pages
      BY <2>1 DEF Pages
    <2>3. BlocksOf(s) = {}
      BY <1>7 DEF BlocksOf
    <2> QED
      BY <1>1, <1>8, <2>2, <2>3 DEF Types, Owned
  <1>11. /\ span' \in [Spans -> SpanType] /\ \A v \in Spans \ {s} : span'[v] = span[v]
         /\ span'[s].page = p /\ span'[s].block = a /\ span'[s].header = blk[1] /\ span'[s].use = 0
    <2> DEFINE new == [span[s] EXCEPT !.page = p, !.block = a, !.header = p * PageBytes + (1 - 1) * a]
    <2>1. /\ new.page = p /\ new.block = a /\ new.header = blk[1] /\ new.use = 0
      <3>1. span[s] \in SpanType /\ span[s].use = 0
        BY <1>1, <1>10 DEF Types, NewSpan
      <3> QED
        BY <1>9, <3>1 DEF SpanType
    <2>2. span' = [span EXCEPT ![s] = new]
      BY <1>2 DEF CreateSpan
    <2>3. new \in SpanType
      <3>1. span[s] \in SpanType
        BY <1>1 DEF Types
      <3>2. blk[1] \in Addresses
        BY <1>8, <1>10
      <3>3. p * PageBytes + (1 - 1) * a \in Addresses \cup {0}
        BY <1>9, <3>2
      <3> QED
        BY <1>6, <1>7, <3>1, <3>3 DEF SpanType
    <2> HIDE DEF new
    <2> QED
      BY <1>1, <2>1, <2>2, <2>3 DEF Types
  <1>12. /\ next' \in [Addresses -> Addresses \cup {0}]
         /\ \A j \in 1 .. m : next'[blk[j]] = IF j = m THEN 0 ELSE blk[j + 1]
         /\ \A c \in Addresses : (\A j \in 1 .. m : c # blk[j]) => next'[c] = next[c]
    <2>1. next' = [c \in Addresses |->
                     IF \E j \in 1 .. m : c = blk[j]
                     THEN IF c = blk[m] THEN 0 ELSE c + a
                     ELSE next[c]]
      <3>1. next' = [c \in Addresses |->
                       IF \E j \in 1 .. m : c = p * PageBytes + (j - 1) * a
                       THEN IF c = p * PageBytes + (m - 1) * a THEN 0 ELSE c + a
                       ELSE next[c]]
        BY <1>2, <1>3, <1>4 DEF CreateSpan
      <3>2. m \in 1 .. m
        BY <1>8
      <3>3. blk[m] = p * PageBytes + (m - 1) * a
        BY <1>8, <3>2
      <3>4. \A c : (\E j \in 1 .. m : c = p * PageBytes + (j - 1) * a) <=> (\E j \in 1 .. m : c = blk[j])
        BY <1>8
      <3> QED
        BY <3>1, <3>3, <3>4
    <2>2. m \in 1 .. m
      BY <1>8
    <2>3. \A j \in 1 .. m : next'[blk[j]] = IF j = m THEN 0 ELSE blk[j + 1]
      BY <1>8, <1>9, <2>1, <2>2
    <2>4. \A c \in Addresses : (\A j \in 1 .. m : c # blk[j]) => next'[c] = next[c]
      BY <2>1
    <2>5. \A c \in Addresses : next'[c] \in Addresses \cup {0}
      <3> TAKE c \in Addresses
      <3>1. CASE \E j \in 1 .. m : c = blk[j]
        <4>1. PICK j \in 1 .. m : c = blk[j]
          BY <3>1
        <4>2. next'[c] = IF j = m THEN 0 ELSE blk[j + 1]
          BY <2>3, <4>1
        <4>3. j # m => blk[j + 1] \in Addresses
          BY <1>8, <1>9
        <4> QED
          BY <4>2, <4>3
      <3>2. CASE ~\E j \in 1 .. m : c = blk[j]
        BY <1>1, <2>4, <3>2 DEF Types
      <3> QED
        BY <3>1, <3>2
    <2> QED
      BY <2>1, <2>3, <2>4, <2>5
  <1>13. /\ call' \in [Threads -> CallType] /\ \A u \in Threads \ {t} : call'[u] = call[u]
         /\ call'[t].at = "insert" /\ call'[t].span = s /\ call'[t].align = a
         /\ call'[t].count = call[t].count /\ call'[t].start = call[t].start
    BY <1>1, <1>2 DEF CreateSpan, Types, CallType
  <1>14. /\ Given' = Given \cup {s}
         /\ \A v \in Given : PagesOf(v)' = PagesOf(v)
         /\ PagesOf(s)' = p .. p + k - 1
         /\ \A v \in Spans \ {s} : BlocksOf(v)' = BlocksOf(v)
         /\ BlocksOf(s)' = {c \in Addresses : c \div PageBytes \in p .. p + k - 1}
    <2>1. Given' = Given \cup {s}
      BY <1>7, <1>11 DEF Given
    <2>2. \A v \in Spans \ {s} : PagesOf(v)' = PagesOf(v)
      BY <1>11 DEF PagesOf
    <2>3. PagesOf(s)' = p .. p + k - 1
      BY <1>3, <1>11 DEF PagesOf
    <2>4. \A v \in Given : v \in Spans /\ v # s
      BY <1>7 DEF Given
    <2> QED
      BY <2>1, <2>2, <2>3, <2>4 DEF BlocksOf
  <1>15. PagesDisjoint'
    <2> SUFFICES ASSUME NEW v \in Given', NEW u \in Given', v # u
                 PROVE  PagesOf(v)' \cap PagesOf(u)' = {}
      BY DEF PagesDisjoint
    <2>1. \A w \in Given : PagesOf(w)' \cap PagesOf(s)' = {}
      BY <1>7, <1>14
    <2>2. CASE v = s \/ u = s
      <3>1. v \in Given \/ u \in Given
        BY <1>14, <2>2
      <3> QED
        BY <1>14, <2>1, <2>2
    <2>3. CASE v # s /\ u # s
      <3>1. v \in Given /\ u \in Given
        BY <1>14, <2>3
      <3> QED
        BY <1>1, <1>14, <3>1 DEF PagesDisjoint
    <2> QED
      BY <2>2, <2>3
  <1>16. Types'
    <2>1. \A v \in Spans : \/ span'[v].page \in Pages /\ span'[v].block \in Aligns
                           \/ span'[v] = NewSpan
      <3> TAKE v \in Spans
      <3>1. CASE v = s
        BY <1>6, <1>11, <3>1
      <3>2. CASE v # s
        BY <1>1, <1>11, <3>2 DEF Types
      <3> QED
        BY <3>1, <3>2
    <2> QED
      BY <1>1, <1>7, <1>11, <1>12, <1>13, <2>1 DEF Types
  (* The addresses of the new span belong to no other, and were nowhere. *)
  <1>17. \A c \in BlocksOf(s)' : c \in Addresses /\ place[c] = None
                                 /\ \A v \in Spans : c \notin BlocksOf(v)
    <2>1. \A c \in BlocksOf(s)' : c \in Addresses /\ \A v \in Spans : c \notin BlocksOf(v)
      BY <1>7, <1>14 DEF BlocksOf
    <2> QED
      BY <1>1, <2>1 DEF Owned
  <1>18. \A j \in 1 .. m : blk[j] \in BlocksOf(s)' /\ place[blk[j]] = None
    BY <1>8, <1>14, <1>17
  <1> DEFINE New(c) == \E j \in 1 .. m : c = blk[j]
  <1>19. PICK after : after = [c \in Addresses |-> IF New(c) THEN Free(s) ELSE place[c]]
    OBVIOUS
  <1>20. PICK ranked : ranked = [c \in Addresses |->
           IF New(c) THEN m - (CHOOSE j \in 1 .. m : c = blk[j]) + 1 ELSE rank[c]]
    OBVIOUS
  <1>21. LinkedNew(place, rank, after, ranked, Free(s), blk, m)
    <2>1. after \in [Addresses -> Places] /\ Free(s) \in ListPlaces
      BY <1>1, <1>19, PlaceSets DEF PlaceType
    <2>2. \A j \in 1 .. m : after[blk[j]] = Free(s) /\ ranked[blk[j]] = m - j + 1
      <3> TAKE j \in 1 .. m
      <3>1. New(blk[j]) /\ blk[j] \in Addresses
        BY <1>8
      <3>2. (CHOOSE i \in 1 .. m : blk[j] = blk[i]) = j
        BY <1>9
      <3> QED
        BY <1>19, <1>20, <3>1, <3>2
    <2>3. \A c \in Addresses : (\A j \in 1 .. m : c # blk[j]) =>
            after[c] = place[c] /\ ranked[c] = rank[c]
      BY <1>19, <1>20
    <2>4. ranked \in [Addresses -> Nat \ {0}]
      <3>1. ASSUME NEW c \in Addresses PROVE ranked[c] \in Nat \ {0}
        <4>1. CASE New(c)
          <5>1. PICK j \in 1 .. m : c = blk[j]
            BY <4>1
          <5>2. ranked[c] = m - j + 1
            BY <2>2, <5>1
          <5> QED
            BY <1>8, <5>2
        <4>2. CASE ~New(c)
          BY <1>1, <2>3, <4>2 DEF PlaceType
        <4> QED
          BY <4>1, <4>2
      <3> QED
        BY <1>20, <3>1
    <2> QED
      BY <1>8, <1>9, <1>10, <1>12, <1>18, <2>1, <2>2, <2>3, <2>4 DEF LinkedNew
  <1>22. /\ PlaceType(after, ranked) /\ Linked(after, ranked)' /\ Ranked(after, ranked)
         /\ Begins(after, ranked, Free(s), blk[1])
         /\ Untouched(place, rank, after, ranked, {Free(s)})
    BY <1>1, <1>21, LinkNew
  <1>23. \A c \in Addresses : /\ New(c) => after[c] = Free(s) /\ place[c] = None /\ c \in BlocksOf(s)'
                              /\ ~New(c) => after[c] = place[c]
    BY <1>18, <1>19
  <1> HIDE DEF New
  <1>24. Heads(after, ranked)'
    <2>1. ASSUME NEW u \in Threads, NEW j \in Lists
          PROVE  Begins(after, ranked, Cache(u, j), tc'[u][j].header)
      <3>1. Cache(u, j) \in ListPlaces \ {Free(s)} /\ tc[u][j].header \in Addresses \cup {0}
        BY <1>1, PlaceFacts, PlaceSets DEF Types, CacheType
      <3> QED
        BY <1>1, <1>7, <1>22, <3>1 DEF Heads, Untouched
    <2>2. ASSUME NEW u \in Threads
          PROVE  Begins(after, ranked, Return(u), call'[u].start)
      <3>1. /\ Return(u) \in ListPlaces \ {Free(s)}
            /\ call[u].start \in Addresses \cup {0} /\ call'[u].start = call[u].start
        BY <1>13, PlaceFacts, PlaceSets, StartFacts
      <3> QED
        BY <1>1, <1>22, <3>1 DEF Heads, Untouched
    <2>3. ASSUME NEW v \in Spans
          PROVE  Begins(after, ranked, Free(v), span'[v].header) \/ Aliased(after, v)'
      <3>1. CASE v = s
        BY <1>11, <1>22, <3>1
      <3>2. CASE v # s
        <4>1. /\ Free(v) \in ListPlaces \ {Free(s)} /\ span[v].header \in Addresses \cup {0}
              /\ span'[v] = span[v]
          BY <1>1, <1>11, <3>2, PlaceFacts, PlaceSets DEF Types, SpanType
        <4>2. CASE Begins(place, rank, Free(v), span[v].header)
          BY <1>22, <4>1, <4>2 DEF Untouched
        <4>3. CASE Aliased(place, v)
          <5>1. \A c \in Addresses : after[c] = Free(v) => place[c] = Free(v)
            BY <1>23, <3>2, PlaceFacts
          <5>2. \A u \in Threads : call[u].at = "loop" => call'[u] = call[u]
            BY <1>6, <1>13
          <5>3. BlocksOf(v)' = BlocksOf(v)
            BY <1>14, <3>2
          <5> QED
            BY <4>1, <4>3, <5>1, <5>2, <5>3, AliasKept
        <4> QED
          BY <1>1, <4>2, <4>3 DEF Heads
      <3> QED
        BY <3>1, <3>2
    <2>4. used' = {c \in Addresses : after[c] = User}
      <3>1. \A c \in Addresses : after[c] = User <=> place[c] = User
        BY <1>23, PlaceFacts
      <3> QED
        BY <1>1, <1>7, <3>1 DEF Heads
    <2> QED
      BY <2>1, <2>2, <2>3, <2>4 DEF Heads, Begins
  <1>25. Owned(after)'
    <2>1. ASSUME NEW c \in Addresses, after[c] # None PROVE \E v \in Spans : c \in BlocksOf(v)'
      <3>1. CASE New(c)
        BY <1>23, <3>1
      <3>2. CASE ~New(c)
        <4>1. PICK v \in Spans : c \in BlocksOf(v)
          BY <1>1, <1>23, <2>1, <3>2 DEF Owned
        <4> QED
          BY <1>10, <1>14, <4>1
      <3> QED
        BY <3>1, <3>2
    <2>2. ASSUME NEW c \in Addresses, NEW v \in Spans, after[c] = Free(v) PROVE c \in BlocksOf(v)'
      <3>1. CASE New(c)
        BY <1>23, <2>2, <3>1, PlaceFacts
      <3>2. CASE ~New(c)
        <4>1. c \in BlocksOf(v)
          BY <1>1, <1>23, <2>2, <3>2 DEF Owned
        <4> QED
          BY <1>10, <1>14, <4>1
      <3> QED
        BY <3>1, <3>2
    <2>3. ASSUME NEW c \in Addresses, NEW v \in Spans, c \in BlocksOf(v)', NEW u \in Threads
          PROVE  /\ \A j \in Lists : after[c] = Cache(u, j) => Index(span'[v].block) = j
                 /\ after[c] = Return(u) => span'[v].block = call'[u].align
      <3>1. CASE v = s
        <4>1. after[c] = Free(s) \/ after[c] = None
          BY <1>17, <1>23, <2>3, <3>1
        <4> QED
          BY <4>1, PlaceFacts
      <3>2. CASE v # s
        <4>1. c \in BlocksOf(v) /\ span'[v] = span[v]
          BY <1>11, <1>14, <2>3, <3>2
        <4>2. c \notin BlocksOf(s)'
          BY <1>17, <4>1
        <4>3. after[c] = place[c]
          BY <1>23, <4>2
        <4>4. /\ \A j \in Lists : place[c] = Cache(u, j) => Index(span[v].block) = j
              /\ place[c] = Return(u) => span[v].block = call[u].align
          BY <1>1, <4>1 DEF Owned
        <4>5. call'[u].align = call[u].align
          BY <1>2, <1>13
        <4> QED
          BY <4>1, <4>3, <4>4, <4>5
      <3> QED
        BY <3>1, <3>2
    <2> QED
      BY <2>1, <2>2, <2>3 DEF Owned
  <1>26. Counted(after)'
    <2>1. ASSUME NEW v \in Spans PROVE span'[v].use = Cardinality(HeldOf(after, v)')
      <3>1. CASE v = s
        <4>1. \A c \in BlocksOf(s)' : after[c] \notin HeldPlaces
          <5> TAKE c \in BlocksOf(s)'
          <5>1. after[c] = Free(s) \/ after[c] = None
            BY <1>17, <1>23
          <5> QED
            BY <5>1, PlaceSets
        <4>2. HeldOf(after, s)' = {}
          BY <4>1 DEF HeldOf
        <4> QED
          BY <1>11, <3>1, <4>2, FS_EmptySet
      <3>2. CASE v # s
        <4>1. \A c \in BlocksOf(v) : c \in Addresses /\ after[c] = place[c]
          BY <1>17, <1>23 DEF BlocksOf
        <4>2. BlocksOf(v)' = BlocksOf(v)
          BY <1>14, <3>2
        <4>3. HeldOf(after, v)' = HeldOf(place, v)
          BY <4>1, <4>2 DEF HeldOf
        <4> QED
          BY <1>1, <1>11, <3>2, <4>3 DEF Counted
      <3> QED
        BY <3>1, <3>2
    <2> QED
      BY <2>1 DEF Counted
  <1>27. Sized(ranked)'
    <2>1. ASSUME NEW u \in Threads, NEW j \in Lists
          PROVE  LenFrom(ranked, tc[u][j].header) = LenFrom(rank, tc[u][j].header)
      <3>1. Cache(u, j) \in ListPlaces \ {Free(s)} /\ tc[u][j].header \in Addresses \cup {0}
        BY <1>1, PlaceFacts, PlaceSets DEF Types, CacheType
      <3> QED
        BY <1>1, <1>22, <3>1 DEF Heads, Untouched
    <2> QED
      BY <1>1, <1>7, <2>1 DEF Sized, LenFrom
  <1>28. Calls(after)'
    <2>1. ASSUME NEW u \in Threads \ {t} PROVE CallOf(after, u)'
      <3>1. CallOf(place, u) /\ call'[u] = call[u] /\ tc'[u] = tc[u]
        BY <1>1, <1>7, <1>13 DEF Calls
      <3>2. call[u].at \in {"insert", "giveback"} =>
              /\ call[u].span \in Given' /\ BlocksOf(call[u].span)' = BlocksOf(call[u].span)
              /\ span'[call[u].span] = span[call[u].span]
              /\ \A j \in Lists : \A n \in DOMAIN lists'[j] : lists'[j][n] # call[u].span
              /\ \A c \in BlocksOf(call[u].span) : after[c] = place[c]
        <4> HAVE call[u].at \in {"insert", "giveback"}
        <4>1. /\ call[u].span \in Given /\ call[u].span \in Spans \ {s}
              /\ \A j \in Lists : \A n \in DOMAIN lists[j] : lists[j][n] # call[u].span
          BY <1>7, PendingFacts
        <4>2. BlocksOf(call[u].span)' = BlocksOf(call[u].span)
          BY <1>14, <3>1, <4>1
        <4>3. \A c \in BlocksOf(call[u].span) : after[c] = place[c]
          BY <1>17, <1>23, <4>1 DEF BlocksOf
        <4> QED
          BY <1>7, <1>11, <1>14, <4>1, <4>2, <4>3
      <3> QED
        BY <3>1, <3>2, CallKept
    <2>2. CallOf(after, t)'
      <3>1. ListOf(t)' = ListOf(t)
        BY <1>2, <1>13 DEF ListOf
      <3>2. /\ tc'[t][ListOf(t)'].header = 0
            /\ 1 <= call'[t].count /\ call'[t].count < tc'[t][ListOf(t)'].apply
        BY <1>6, <1>7, <1>13, <3>1 DEF CallOf
      <3>3. \A j \in Lists : \A n \in DOMAIN lists'[j] : lists'[j][n] # s
        BY <1>1, <1>7 DEF Listed
      <3>4. \A c \in BlocksOf(s)' : after[c] \notin HeldPlaces
        <4> TAKE c \in BlocksOf(s)'
        <4>1. after[c] = Free(s) \/ after[c] = None
          BY <1>17, <1>23
        <4> QED
          BY <4>1, PlaceSets
      <3>5. span'[s].header # 0 /\ span'[s].block = a /\ s \in Given'
        BY <1>8, <1>10, <1>11, <1>14, AddressFacts
      <3>6. BlocksOf(call[t].span)' = BlocksOf(s)'
        BY <1>13 DEF BlocksOf
      <3> QED
        BY <1>6, <1>13, <3>2, <3>3, <3>4, <3>5, <3>6 DEF CallOf
    <2> QED
      BY <2>1, <2>2 DEF Calls
  <1>29. CallsApart'
    <2>1. \A u \in Threads \ {t} : call[u].at \in {"insert", "giveback"} => call[u].span # s
      BY <1>7, PendingFacts
    <2> QED
      BY <1>1, <1>13, <2>1, ApartKept
  <1>30. Listed'
    <2>1. \A v \in Given : v \in Given' /\ span'[v] = span[v]
      BY <1>7, <1>11, <1>14 DEF Given
    <2> QED
      BY <1>1, <1>7, <2>1 DEF Listed
  <1>31. Whole(after)'
    <2>1. SpanWhole(after, s)'
      <3>1. CarvedBlocks(s)' = {p * PageBytes + (j - 1) * a : j \in 1 .. m}
        BY <1>3, <1>4, <1>11 DEF CarvedBlocks
      <3>2. CarvedBlocks(s)' = {blk[j] : j \in 1 .. m}
        BY <1>8, <3>1
      <3>3. CarvedBlocks(s)' \subseteq BlocksOf(s)'
        BY <1>8, <1>14, <3>2
      <3>4. \A c \in CarvedBlocks(s)' : after[c] # None
        BY <1>21, <3>2, PlaceFacts DEF LinkedNew
      <3> QED
        BY <3>3, <3>4 DEF SpanWhole
    <2>2. ASSUME NEW v \in Given PROVE SpanWhole(after, v)'
      <3>1. v \in Spans \ {s}
        BY <1>7, <2>2 DEF Given
      <3>2. SpanWhole(place, v) /\ BlocksOf(v)' = BlocksOf(v) /\ span'[v] = span[v]
        BY <1>11, <1>14, <3>1 DEF Good, Whole
      <3>3. \A c \in BlocksOf(v) : place[c] # None => after[c] # None
        BY <1>19, PlaceFacts DEF BlocksOf
      <3>4. \A u \in Threads : call[u].at = "loop" => call'[u] = call[u]
        BY <1>6, <1>13
      <3> QED
        BY <3>2, <3>3, <3>4, WholeKept
    <2> QED
      BY <1>14, <2>1, <2>2 DEF Whole
  <1>32. Good(after, ranked)'
    BY <1>15, <1>16, <1>22, <1>24, <1>25, <1>26, <1>27, <1>28, <1>29, <1>30, <1>31 DEF Good, PlaceType, Ranked
  <1> QED
    BY <1>32
-----------------------------------------------------------------------------
(* A span that is taken out of a list without repetitions. *)
LEMMA EraseFacts ==
  ASSUME NEW S, NEW l \in Seq(S), NEW s, \A j, k \in DOMAIN l : l[j] = l[k] => j = k
  PROVE  /\ Erase(l, s) \in Seq(S)
         /\ \A k \in DOMAIN Erase(l, s) : \E j \in DOMAIN l : Erase(l, s)[k] = l[j] /\ l[j] # s
         /\ \A j, k \in DOMAIN Erase(l, s) : Erase(l, s)[j] = Erase(l, s)[k] => j = k
PROOF
  <1> DEFINE N == Len(l) - 1
             Gone(k) == \E j \in 1 .. k : l[j] = s
             at(k) == IF Gone(k) THEN k + 1 ELSE k
             e == [k \in 1 .. N |-> IF Gone(k) THEN l[k + 1] ELSE l[k]]
  <1>1. Erase(l, s) = e /\ Len(l) \in Nat /\ DOMAIN l = 1 .. Len(l)
    BY DEF Erase
  <1>2. ASSUME NEW k \in 1 .. N
        PROVE  k \in Nat \ {0} /\ at(k) \in DOMAIN l /\ e[k] = l[at(k)] /\ l[at(k)] # s
    <2>1. k \in Nat \ {0} /\ k \in DOMAIN l /\ k + 1 \in DOMAIN l
      BY <1>1
    <2>2. CASE Gone(k)
      <3>1. PICK j \in 1 .. k : l[j] = s
        BY <2>2
      <3>2. j \in DOMAIN l /\ j # k + 1
        BY <1>1, <2>1
      <3> QED
        BY <2>1, <2>2, <3>1, <3>2
    <2>3. CASE ~Gone(k)
      BY <2>1, <2>3
    <2> QED
      BY <2>2, <2>3
  <1>3. ASSUME NEW j \in 1 .. N, NEW k \in 1 .. N, j < k PROVE at(j) # at(k)
    <2>1. j \in Nat /\ k \in Nat /\ (Gone(j) => Gone(k))
      BY <1>1, <1>3
    <2> HIDE DEF Gone
    <2> QED
      BY <1>3, <2>1
  <1>4. \A j, k \in 1 .. N : e[j] = e[k] => j = k
    <2> SUFFICES ASSUME NEW j \in 1 .. N, NEW k \in 1 .. N, e[j] = e[k] PROVE j = k
      OBVIOUS
    <2>1. at(j) = at(k)
      BY <1>2
    <2>2. ~(j < k) /\ ~(k < j)
      BY <1>3, <2>1
    <2> QED
      BY <1>2, <2>2
  <1>5. e \in Seq(S)
    <2>1. \A k \in 1 .. N : e[k] \in S
      BY <1>2
    <2>2. CASE Len(l) = 0
      <3>1. 1 .. N = 1 .. 0 /\ 1 .. N = {}
        BY <2>2
      <3>2. e \in [1 .. 0 -> S]
        BY <3>1
      <3> QED
        BY <3>2
    <2>3. CASE Len(l) # 0
      <3>1. N \in Nat
        BY <1>1, <2>3
      <3>2. e \in [1 .. N -> S]
        <4> HIDE DEF N, Gone
        <4> QED
          BY <2>1
      <3> HIDE DEF N, e
      <3> QED
        BY <3>1, <3>2
    <2> QED
      BY <2>2, <2>3
  <1>6. DOMAIN e = 1 .. N
    OBVIOUS
  <1> HIDE DEF e, N
  <1> QED
    BY <1>1, <1>2, <1>4, <1>5, <1>6

(* A block goes back: to its span, whose free blocks are lost with it, but    *)
(* none that is the user's or on its way.                                    *)
LEMMA RecoverBlockStep ==
  ASSUME NEW place, NEW rank, Good(place, rank), NEW t \in Threads, RecoverBlock(t), ~broken'
  PROVE  \E after, ranked : Good(after, ranked)'
PROOF
  <1>1. /\ Types /\ PlaceType(place, rank) /\ Linked(place, rank) /\ Ranked(place, rank)
        /\ Heads(place, rank) /\ Owned(place) /\ PagesDisjoint /\ Counted(place)
        /\ Sized(rank) /\ Calls(place) /\ CallsApart /\ Listed
    BY DEF Good
  <1>2. PICK b : b = call[t].start
    OBVIOUS
  <1>3. PICK s : s = OwnerOf(b)
    OBVIOUS
  <1>4. PICK rest : rest = next[b]
    OBVIOUS
  <1>5. /\ call[t].at = "loop" /\ b # 0
        /\ next' = [next EXCEPT ![b] = span[s].header]
        /\ span' = [span EXCEPT ![s] =
             [@ EXCEPT !.header = IF LastBlock(s) THEN 0 ELSE rest, !.use = span[s].use - 1]]
        /\ LastBlock(s) =>
             /\ lists' = [lists EXCEPT ![ListOf(t)] = Erase(@, s)]
             /\ call' = [call EXCEPT ![t] = [@ EXCEPT !.at = "giveback", !.start = rest, !.span = s]]
        /\ ~LastBlock(s) => lists' = lists /\ call' = [call EXCEPT ![t].start = rest]
        /\ LastBlock(s) \/ rest = 0 \/ OwnerOf(rest) = s
        /\ UNCHANGED <<tc, made, used>>
    BY <1>2, <1>3, <1>4 DEF RecoverBlock
  <1>6. /\ b \in Addresses /\ place[b] = Return(t) /\ s \in Spans /\ b \in BlocksOf(s) /\ s \in Given
        /\ span[s].block = call[t].align /\ span[s].block \in Aligns
    BY <1>2, <1>3, <1>5, StartFacts
  <1>7. PICK i \in Lists : i = ListOf(t) /\ i = Index(span[s].block)
    BY <1>6, ClassFacts DEF ListOf
  <1>8. /\ Return(t) \in ListPlaces /\ Free(s) \in ListPlaces /\ Return(t) # Free(s)
        /\ Return(t) \in HeldPlaces /\ Free(s) \notin HeldPlaces
        /\ None \notin HeldPlaces /\ None \notin ListPlaces /\ None \in Places
    BY <1>6, PlaceSets, PlaceFacts
  <1>9. Begins(place, rank, Return(t), b) /\ span[s] \in SpanType /\ rest \in Addresses \cup {0}
    BY <1>1, <1>2, <1>4, <1>6 DEF Heads, Types
  <1>10. PICK after : after = [c \in Addresses |-> IF c = b \/ place[c] = Free(s) THEN None ELSE place[c]]
    OBVIOUS
  <1>11. /\ after \in [Addresses -> Places]
         /\ \A c \in Addresses : after[c] = IF c = b \/ place[c] = Free(s) THEN None ELSE place[c]
         /\ \A c \in Addresses \ {b} : next'[c] = next[c]
         /\ next' \in [Addresses -> Addresses \cup {0}]
    <2>1. span[s].header \in Addresses \cup {0}
      BY <1>9 DEF SpanType
    <2> QED
      BY <1>1, <1>5, <1>8, <1>10, <2>1 DEF PlaceType, Types
  <1>12. /\ PlaceType(after, rank) /\ Linked(after, rank)' /\ Ranked(after, rank)
         /\ Begins(after, rank, Return(t), rest) /\ Begins(after, rank, Free(s), 0)
         /\ Untouched(place, rank, after, rank, {Free(s)} \cup {Return(t)})
    <2>1. Popped(place, rank, after, {Free(s)}, Return(t), b)
      BY <1>6, <1>8, <1>9, <1>11 DEF Popped
    <2>2. /\ Begins(after, rank, Return(t), next[b])
          /\ \A y \in ListPlaces \cap {Free(s)} : Begins(after, rank, y, 0)
          /\ PlaceType(after, rank) /\ Linked(after, rank)' /\ Ranked(after, rank)
          /\ Untouched(place, rank, after, rank, {Free(s)} \cup {Return(t)})
      BY <1>1, <2>1, PopHead
    <2> QED
      BY <1>4, <1>8, <2>2
  (* The use count. *)
  <1>13. /\ IsFiniteSet(HeldOf(place, s)) /\ b \in HeldOf(place, s)
         /\ span[s].use = Cardinality(HeldOf(place, s)) /\ span[s].use \in Nat
         /\ span[s].use - 1 \in Nat
         /\ Cardinality(HeldOf(place, s) \ {b}) = span[s].use - 1
    <2> DEFINE H == HeldOf(place, s)
    <2>1. b \in H /\ H \in SUBSET Addresses
      BY <1>6, <1>8 DEF HeldOf, BlocksOf
    <2>2. span[s].use = Cardinality(H)
      BY <1>1, <1>6 DEF Counted
    <2> HIDE DEF H
    <2>3. IsFiniteSet(H)
      BY <2>1, AddressFacts, FS_Subset
    <2>4. Cardinality(H) \in Nat /\ Cardinality(H) # 0
      BY <2>1, <2>3, FS_CardinalityType, FS_EmptySet
    <2>5. Cardinality(H \ {b}) = Cardinality(H) - 1
      BY <2>1, <2>3, FS_RemoveElement
    <2> QED
      BY <2>1, <2>2, <2>3, <2>4, <2>5 DEF H
  <1>14. LastBlock(s) => \A c \in BlocksOf(s) : place[c] \in HeldPlaces => c = b
    <2> HAVE LastBlock(s)
    <2> DEFINE D == HeldOf(place, s) \ {b}
    <2>1. Cardinality(D) = 0
      BY <1>13 DEF LastBlock
    <2>2. IsFiniteSet(D)
      BY <1>13, FS_RemoveElement
    <2>3. D = {}
      <3> HIDE DEF D
      <3> QED
        BY <2>1, <2>2, FS_EmptySet
    <2> QED
      BY <2>3 DEF HeldOf
  <1>15. /\ span' \in [Spans -> SpanType] /\ \A v \in Spans \ {s} : span'[v] = span[v]
         /\ span'[s].header = (IF LastBlock(s) THEN 0 ELSE rest) /\ span'[s].use = span[s].use - 1
         /\ span'[s].page = span[s].page /\ span'[s].block = span[s].block
    <2> DEFINE h == IF LastBlock(s) THEN 0 ELSE rest
               new == [span[s] EXCEPT !.header = h, !.use = span[s].use - 1]
    <2>1. span' = [span EXCEPT ![s] = new]
      BY <1>5
    <2>2. h \in Addresses \cup {0}
      BY <1>9
    <2> HIDE DEF h
    <2>3. new \in SpanType /\ new.header = h /\ new.use = span[s].use - 1
          /\ new.page = span[s].page /\ new.block = span[s].block
      BY <1>9, <1>13, <2>2 DEF SpanType
    <2> HIDE DEF new
    <2> QED
      BY <1>1, <1>6, <2>1, <2>3 DEF Types, h
  <1>16. SameSpans /\ Given' = Given /\ PagesDisjoint' /\ \A v \in Spans : BlocksOf(v)' = BlocksOf(v)
    <2>1. SameSpans
      BY <1>6, <1>15 DEF SameSpans
    <2> QED
      BY <1>1, <2>1, SpansKept
  <1>17. /\ call' \in [Threads -> CallType] /\ \A u \in Threads \ {t} : call'[u] = call[u]
         /\ call'[t].start = rest /\ call'[t].align = call[t].align
         /\ LastBlock(s) => call'[t].at = "giveback" /\ call'[t].span = s
         /\ ~LastBlock(s) => call'[t].at = "loop"
    <2>1. CASE LastBlock(s)
      <3> DEFINE new == [call[t] EXCEPT !.at = "giveback", !.start = rest, !.span = s]
      <3>1. call' = [call EXCEPT ![t] = new]
        BY <1>5, <2>1
      <3>2. call[t] \in CallType
        BY <1>1 DEF Types
      <3>3. /\ new \in CallType /\ new.at = "giveback" /\ new.start = rest /\ new.span = s
            /\ new.align = call[t].align
        BY <1>6, <1>9, <3>2 DEF CallType
      <3> HIDE DEF new
      <3> QED
        BY <1>1, <2>1, <3>1, <3>3 DEF Types
    <2>2. CASE ~LastBlock(s)
      <3> DEFINE new == [call[t] EXCEPT !.at = "loop", !.start = rest]
      <3>1. call' = [call EXCEPT ![t] = new]
        BY <1>5, <2>2
      <3>2. call[t] \in CallType
        BY <1>1 DEF Types
      <3>3. /\ new \in CallType /\ new.at = "loop" /\ new.start = rest
            /\ new.align = call[t].align
        BY <1>9, <3>2 DEF CallType
      <3> HIDE DEF new
      <3> QED
        BY <1>1, <2>2, <3>1, <3>3 DEF Types
    <2> QED
      BY <2>1, <2>2
  (* What the list of spans of the class keeps. *)
  <1>18. /\ lists' \in [Lists -> Seq(Spans)]
         /\ \A j \in Lists : \A k \in DOMAIN lists'[j] : \E m \in DOMAIN lists[j] :
              lists'[j][k] = lists[j][m] /\ (LastBlock(s) => lists[j][m] # s)
         /\ \A j \in Lists : \A k, m \in DOMAIN lists'[j] : lists'[j][k] = lists'[j][m] => k = m
    <2>1. CASE LastBlock(s)
      <3> DEFINE l == lists[i]
                 e == Erase(l, s)
      <3>1. l \in Seq(Spans) /\ \A k, m \in DOMAIN l : l[k] = l[m] => k = m
        BY <1>1 DEF Types, Listed
      <3>2. /\ e \in Seq(Spans)
            /\ \A k \in DOMAIN e : \E m \in DOMAIN l : e[k] = l[m] /\ l[m] # s
            /\ \A k, m \in DOMAIN e : e[k] = e[m] => k = m
        <4> HIDE DEF l
        <4> QED
          BY <3>1, EraseFacts
      <3>3. lists' = [lists EXCEPT ![i] = e]
        BY <1>5, <1>7, <2>1
      <3> HIDE DEF e
      <3>4. lists' \in [Lists -> Seq(Spans)] /\ lists'[i] = e /\ \A j \in Lists \ {i} : lists'[j] = lists[j]
        BY <1>1, <3>2, <3>3 DEF Types
      <3>5. \A j \in Lists \ {i} : \A m \in DOMAIN lists[j] : lists[j][m] # s
        BY <1>1, <1>7 DEF Listed
      <3> QED
        BY <1>1, <3>2, <3>4, <3>5 DEF Listed
    <2>2. CASE ~LastBlock(s)
      BY <1>1, <1>5, <2>2 DEF Types, Listed
    <2> QED
      BY <2>1, <2>2
  <1>19. Types'
    <2>1. \A v \in Spans : \/ span'[v].page \in Pages /\ span'[v].block \in Aligns
                           \/ span'[v] = NewSpan
      <3> TAKE v \in Spans
      <3>1. CASE v = s
        <4>1. span[s].page \in Pages /\ span[s].block \in Aligns
          BY <1>1, <1>6 DEF Types, Given, NewSpan
        <4> QED
          BY <1>15, <3>1, <4>1
      <3>2. CASE v # s
        BY <1>1, <1>15, <3>2 DEF Types
      <3> QED
        BY <3>1, <3>2
    <2> QED
      BY <1>1, <1>5, <1>11, <1>15, <1>17, <1>18, <2>1 DEF Types
  <1>20. \A u \in Threads \ {t} : call[u].at \in {"insert", "giveback"} => call[u].span # s
    BY <1>6, <1>8, PendingFacts
  <1>21. Heads(after, rank)'
    <2>1. ASSUME NEW u \in Threads, NEW j \in Lists
          PROVE  Begins(after, rank, Cache(u, j), tc'[u][j].header)
      <3>1. /\ Cache(u, j) \in ListPlaces \ ({Free(s)} \cup {Return(t)})
            /\ tc[u][j].header \in Addresses \cup {0}
        BY <1>1, PlaceFacts, PlaceSets DEF Types, CacheType
      <3> QED
        BY <1>1, <1>5, <1>12, <3>1 DEF Heads, Untouched
    <2>2. ASSUME NEW u \in Threads
          PROVE  Begins(after, rank, Return(u), call'[u].start)
      <3>1. CASE u = t
        BY <1>12, <1>17, <3>1
      <3>2. CASE u # t
        <4>1. /\ Return(u) \in ListPlaces \ ({Free(s)} \cup {Return(t)})
              /\ call[u].start \in Addresses \cup {0} /\ call'[u].start = call[u].start
          BY <1>17, <3>2, PlaceFacts, PlaceSets, StartFacts
        <4> QED
          BY <1>1, <1>12, <4>1 DEF Heads, Untouched
      <3> QED
        BY <3>1, <3>2
    <2>3. ASSUME NEW v \in Spans
          PROVE  Begins(after, rank, Free(v), span'[v].header) \/ Aliased(after, v)'
      <3>1. CASE v = s /\ (LastBlock(s) \/ rest = 0)
        BY <1>12, <1>15, <3>1
      <3>2. CASE v = s /\ ~LastBlock(s) /\ rest # 0
        <4>1. rest \in Addresses /\ after[rest] = Return(t)
          BY <1>9, <1>12, <3>2 DEF Begins
        <4>2. place[rest] = Return(t)
          BY <1>8, <1>11, <4>1
        <4>3. PICK w \in Spans : rest \in BlocksOf(w)
          BY <1>1, <4>1, <4>2, PlaceFacts DEF Owned
        <4>4. w = s
          BY <1>1, <1>5, <3>2, <4>3, OwnerFacts
        <4>5. \A c \in Addresses : after[c] # Free(s)
          BY <1>8, <1>11
        <4>6. rest \in BlocksOf(s)' /\ span'[s].header = rest /\ call'[t].at = "loop" /\ call'[t].start = rest
          BY <1>6, <1>15, <1>16, <1>17, <3>2, <4>3, <4>4
        <4> QED
          BY <3>2, <4>5, <4>6 DEF Aliased
      <3>3. CASE v # s
        <4>1. /\ Free(v) \in ListPlaces \ ({Free(s)} \cup {Return(t)})
              /\ span[v].header \in Addresses \cup {0} /\ span'[v] = span[v]
          BY <1>1, <1>15, <3>3, PlaceFacts, PlaceSets DEF Types, SpanType
        <4>2. CASE Begins(place, rank, Free(v), span[v].header)
          BY <1>12, <4>1, <4>2 DEF Untouched
        <4>3. CASE Aliased(place, v)
          <5>1. \A c \in Addresses : after[c] = Free(v) => place[c] = Free(v)
            BY <1>11, PlaceFacts
          <5>2. \A u \in Threads : call[u].at = "loop" /\ call[u].start \in BlocksOf(v) =>
                                     call'[u].at = "loop" /\ call'[u].start = call[u].start
            <6>1. b \notin BlocksOf(v)
              BY <1>1, <1>6, <3>3, OwnerFacts
            <6> QED
              BY <1>2, <1>17, <6>1
          <5> QED
            BY <1>16, <4>1, <4>3, <5>1, <5>2, AliasKept
        <4> QED
          BY <1>1, <4>2, <4>3 DEF Heads
      <3> QED
        BY <3>1, <3>2, <3>3
    <2>4. used' = {c \in Addresses : after[c] = User}
      <3>1. \A c \in Addresses : after[c] = User <=> place[c] = User
        BY <1>6, <1>11, PlaceFacts
      <3> QED
        BY <1>1, <1>5, <3>1 DEF Heads
    <2> QED
      BY <2>1, <2>2, <2>3, <2>4 DEF Heads, Begins
  <1>22. Owned(after)'
    <2>1. \A c \in Addresses : after[c] # None => after[c] = place[c]
      BY <1>11
    <2>2. \A c \in Addresses : after[c] # None => \E v \in Spans : c \in BlocksOf(v)
      BY <1>1, <2>1 DEF Owned
    <2>3. \A c \in Addresses, v \in Spans : after[c] = Free(v) => c \in BlocksOf(v)
      BY <1>1, <2>1, PlaceFacts DEF Owned
    <2>4. \A u \in Threads : call'[u].align = call[u].align
      BY <1>17
    <2>5. \A v \in Spans : span'[v].block = span[v].block
      BY <1>16 DEF SameSpans
    <2>6. \A c \in Addresses, v \in Spans : c \in BlocksOf(v) =>
            \A u \in Threads :
              /\ \A j \in Lists : after[c] = Cache(u, j) => Index(span[v].block) = j
              /\ after[c] = Return(u) => span[v].block = call[u].align
      BY <1>1, <2>1, PlaceFacts DEF Owned
    <2> QED
      BY <1>16, <2>2, <2>3, <2>4, <2>5, <2>6 DEF Owned
  <1>23. Counted(after)'
    <2>1. ASSUME NEW v \in Spans PROVE span'[v].use = Cardinality(HeldOf(after, v)')
      <3>1. HeldOf(after, v)' = {c \in BlocksOf(v) : after[c] \in HeldPlaces}
        BY <1>16 DEF HeldOf
      <3>2. \A c \in BlocksOf(v) : after[c] \in HeldPlaces <=> place[c] \in HeldPlaces /\ c # b
        BY <1>8, <1>11 DEF BlocksOf
      <3>3. CASE v = s
        <4>1. HeldOf(after, v)' = HeldOf(place, s) \ {b}
          BY <3>1, <3>2, <3>3 DEF HeldOf
        <4> QED
          BY <1>13, <1>15, <3>3, <4>1
      <3>4. CASE v # s
        <4>1. b \notin BlocksOf(v)
          BY <1>1, <1>6, <3>4, OwnerFacts
        <4>2. HeldOf(after, v)' = HeldOf(place, v)
          BY <3>1, <3>2, <4>1 DEF HeldOf
        <4> QED
          BY <1>1, <1>15, <3>4, <4>2 DEF Counted
      <3> QED
        BY <3>3, <3>4
    <2> QED
      BY <2>1 DEF Counted
  <1>24. Sized(rank)'
    BY <1>1, <1>5 DEF Sized, LenFrom
  <1>25. Calls(after)'
    <2>1. ASSUME NEW u \in Threads \ {t} PROVE CallOf(after, u)'
      <3>1. CallOf(place, u) /\ call'[u] = call[u] /\ tc'[u] = tc[u]
        BY <1>1, <1>5, <1>17 DEF Calls
      <3>2. call[u].at \in {"insert", "giveback"} =>
              /\ call[u].span \in Given' /\ BlocksOf(call[u].span)' = BlocksOf(call[u].span)
              /\ span'[call[u].span] = span[call[u].span]
              /\ \A j \in Lists : \A n \in DOMAIN lists'[j] : lists'[j][n] # call[u].span
              /\ \A c \in BlocksOf(call[u].span) : after[c] = place[c]
        <4> HAVE call[u].at \in {"insert", "giveback"}
        <4>1. /\ call[u].span \in Given /\ call[u].span \in Spans \ {s}
              /\ \A j \in Lists : \A n \in DOMAIN lists[j] : lists[j][n] # call[u].span
          BY <1>20, PendingFacts
        <4>2. BlocksOf(call[u].span)' = BlocksOf(call[u].span)
          BY <1>16, <3>1, <4>1
        <4>3. \A c \in BlocksOf(call[u].span) : after[c] = place[c]
          <5> TAKE c \in BlocksOf(call[u].span)
          <5>1. c \in Addresses /\ c \notin BlocksOf(s)
            BY <1>1, <1>6, <4>1, OwnerFacts
          <5>2. c # b /\ place[c] # Free(s)
            BY <1>1, <1>6, <5>1 DEF Owned
          <5> QED
            BY <1>11, <5>1, <5>2
        <4>4. \A j \in Lists : \A n \in DOMAIN lists'[j] : lists'[j][n] # call[u].span
          <5> TAKE j \in Lists
          <5> TAKE n \in DOMAIN lists'[j]
          <5>1. PICK m \in DOMAIN lists[j] : lists'[j][n] = lists[j][m]
            BY <1>18
          <5> QED
            BY <4>1, <5>1
        <4> QED
          BY <1>15, <1>16, <4>1, <4>2, <4>3, <4>4
      <3> QED
        BY <3>1, <3>2, CallKept
    <2>2. CallOf(after, t)'
      <3>1. LastBlock(s) =>
              /\ \A j \in Lists : \A n \in DOMAIN lists'[j] : lists'[j][n] # s
              /\ \A c \in BlocksOf(s)' : after[c] = None
        <4> HAVE LastBlock(s)
        <4>1. \A c \in BlocksOf(s) : after[c] = None
          <5> TAKE c \in BlocksOf(s)
          <5>1. c \in Addresses /\ place[c] \in Places
            BY <1>1 DEF BlocksOf, PlaceType
          <5>2. place[c] \in HeldPlaces => c = b
            BY <1>14
          <5>3. \A v \in Spans : place[c] = Free(v) => v = s
            BY <1>1, <1>6, <5>1, OwnerFacts DEF Owned
          <5> QED
            BY <1>11, <5>1, <5>2, <5>3, PlaceSets
        <4> QED
          BY <1>6, <1>16, <1>18, <4>1
      <3>2. LastBlock(s) => BlocksOf(call[t].span)' = BlocksOf(s)'
        BY <1>17 DEF BlocksOf
      <3>3. CASE LastBlock(s)
        BY <1>6, <1>8, <1>16, <1>17, <3>1, <3>2, <3>3 DEF CallOf
      <3>4. CASE ~LastBlock(s)
        BY <1>6, <1>17, <3>4 DEF CallOf
      <3> QED
        BY <3>3, <3>4
    <2> QED
      BY <2>1, <2>2 DEF Calls
  <1>26. CallsApart'
    <2>1. \A u \in Threads \ {t} : call[u].at = "loop" => ListOf(u) # Index(call'[t].align)
      BY <1>1, <1>5, <1>17 DEF CallsApart, ListOf
    <2> QED
      BY <1>1, <1>17, <1>20, <2>1, ApartKept
  <1>27. Listed'
    <2>1. \A v \in Given : v \in Given' /\ span'[v].block = span[v].block
      BY <1>16 DEF SameSpans, Given
    <2>2. \A j \in Lists : \A k \in DOMAIN lists'[j] :
            lists'[j][k] \in Given /\ Index(span[lists'[j][k]].block) = j
      BY <1>1, <1>18 DEF Listed
    <2> QED
      BY <1>18, <2>1, <2>2 DEF Listed
  <1>28. Whole(after)'
    <2>1. ASSUME NEW v \in Given PROVE SpanWhole(after, v)'
      <3>1. /\ SpanWhole(place, v) /\ BlocksOf(v)' = BlocksOf(v) /\ v \in Spans
            /\ span'[v].page = span[v].page /\ span'[v].block = span[v].block
        BY <1>16 DEF Good, Whole, Given, SameSpans
      <3>2. CASE v = s
        <4>1. CarvedBlocks(s)' = CarvedBlocks(s)
          BY <3>1, <3>2 DEF CarvedBlocks
        <4>2. CarvedBlocks(s)' \subseteq BlocksOf(s)'
          BY <3>1, <3>2, <4>1 DEF SpanWhole
        <4>3. \/ span'[s].header = 0
              \/ call'[t].at = "loop" /\ call'[t].start = span'[s].header
          BY <1>15, <1>17
        <4> QED
          BY <3>2, <4>2, <4>3 DEF SpanWhole
      <3>3. CASE v # s
        <4>1. \A c \in BlocksOf(v) : c \in Addresses /\ c \notin BlocksOf(s)
          BY <1>1, <1>6, <3>1, <3>3, OwnerFacts
        <4>2. \A c \in BlocksOf(v) : after[c] = place[c]
          BY <1>1, <1>6, <1>11, <4>1 DEF Owned
        <4>3. span'[v] = span[v]
          BY <1>15, <3>1, <3>3
        <4>4. span[v].header # b
          <5>1. CASE Begins(place, rank, Free(v), span[v].header)
            BY <1>5, <1>6, <5>1, PlaceFacts DEF Begins
          <5>2. CASE Aliased(place, v)
            BY <1>6, <4>1, <5>2 DEF Aliased
          <5> QED
            BY <1>1, <3>1, <5>1, <5>2 DEF Heads
        <4>5. \A u \in Threads : call[u].at = "loop" /\ call[u].start = span[v].header =>
                                   call'[u] = call[u]
          BY <1>2, <1>17, <4>4
        <4> QED
          BY <3>1, <4>2, <4>3, <4>5, WholeKept
      <3> QED
        BY <3>2, <3>3
    <2> QED
      BY <1>16, <2>1 DEF Whole
  <1>29. Good(after, rank)'
    BY <1>12, <1>16, <1>19, <1>21, <1>22, <1>23, <1>24, <1>25, <1>26, <1>27, <1>28 DEF Good, PlaceType, Ranked
  <1> QED
    BY <1>29
-----------------------------------------------------------------------------
(* A span goes back: nothing leads into its pages. *)
LEMMA GiveBackStep ==
  ASSUME NEW place, NEW rank, Good(place, rank), NEW t \in Threads, GiveBack(t)
  PROVE  Good(place, rank)'
PROOF
  <1>1. /\ Types /\ PlaceType(place, rank) /\ Linked(place, rank) /\ Ranked(place, rank)
        /\ Heads(place, rank) /\ Owned(place) /\ PagesDisjoint /\ Counted(place)
        /\ Sized(rank) /\ Calls(place) /\ CallsApart /\ Listed
    BY DEF Good
  <1>2. PICK s : s = call[t].span
    OBVIOUS
  <1>3. /\ call[t].at = "giveback" /\ CallOf(place, t)
        /\ next' = [c \in Addresses |-> IF c \in BlocksOf(s) THEN 0 ELSE next[c]]
        /\ span' = [span EXCEPT ![s] = NewSpan]
        /\ call' = [call EXCEPT ![t] = [@ EXCEPT !.at = "recover", !.span = NoSpan]]
        /\ UNCHANGED <<lists, tc, used>>
    BY <1>1, <1>2 DEF GiveBack, Calls
  <1>4. /\ s \in Spans /\ s \in Given
        /\ \A j \in Lists : \A k \in DOMAIN lists[j] : lists[j][k] # s
        /\ \A c \in BlocksOf(s) : c \in Addresses /\ place[c] = None
        /\ call[t].align \in Aligns
    BY <1>2, <1>3 DEF CallOf, Given, BlocksOf
  <1>5. /\ NewSpan \in SpanType /\ NewSpan.page = 0 /\ NewSpan.header = 0 /\ NewSpan.use = 0
        /\ span' \in [Spans -> SpanType] /\ span'[s] = NewSpan
        /\ \A v \in Spans \ {s} : span'[v] = span[v]
    <2>1. NewSpan \in SpanType /\ NewSpan.page = 0 /\ NewSpan.header = 0 /\ NewSpan.use = 0
      BY DEF NewSpan, SpanType
    <2> QED
      BY <1>1, <1>3, <1>4, <2>1 DEF Types
  <1>6. /\ call' \in [Threads -> CallType] /\ \A u \in Threads \ {t} : call'[u] = call[u]
        /\ call'[t].at = "recover" /\ call'[t].start = call[t].start
        /\ call'[t].align = call[t].align
    BY <1>1, <1>3 DEF Types, CallType
  <1>7. /\ Given' = Given \ {s}
        /\ \A v \in Spans \ {s} : PagesOf(v)' = PagesOf(v) /\ BlocksOf(v)' = BlocksOf(v)
        /\ BlocksOf(s)' = {}
    <2>1. Given' = Given \ {s}
      BY <1>5 DEF Given
    <2>2. \A v \in Spans \ {s} : PagesOf(v)' = PagesOf(v)
      BY <1>5 DEF PagesOf
    <2> QED
      BY <2>1, <2>2 DEF BlocksOf
  <1>8. /\ next' \in [Addresses -> Addresses \cup {0}]
        /\ \A c \in Addresses : place[c] # None => next'[c] = next[c]
    BY <1>1, <1>3, <1>4 DEF Types
  <1>9. Types' /\ PlaceType(place, rank)' /\ Ranked(place, rank)'
    BY <1>1, <1>3, <1>5, <1>6, <1>8 DEF Types, PlaceType, Ranked
  <1>10. Linked(place, rank)'
    BY <1>1, <1>8, PlaceSets DEF Linked
  <1>11. PagesDisjoint'
    BY <1>1, <1>7 DEF PagesDisjoint, Given
  <1>12. \A c \in Addresses : place[c] # Free(s)
    BY <1>1, <1>4, PlaceFacts DEF Owned
  <1>13. Heads(place, rank)'
    <2>1. ASSUME NEW v \in Spans
          PROVE  Begins(place, rank, Free(v), span'[v].header) \/ Aliased(place, v)'
      <3>1. CASE v = s
        BY <1>5, <1>12, <3>1 DEF Begins
      <3>2. CASE v # s /\ Begins(place, rank, Free(v), span[v].header)
        BY <1>5, <3>2
      <3>3. CASE v # s /\ Aliased(place, v)
        <4>1. span'[v].header = span[v].header /\ BlocksOf(v)' = BlocksOf(v)
          BY <1>5, <1>7, <3>3
        <4>2. \A u \in Threads : call[u].at = "loop" => call'[u] = call[u]
          BY <1>3, <1>6
        <4> QED
          BY <3>3, <4>1, <4>2, AliasKept
      <3> QED
        BY <1>1, <3>1, <3>2, <3>3 DEF Heads
    <2>2. \A u \in Threads : call'[u].start = call[u].start
      BY <1>6
    <2> QED
      BY <1>1, <1>3, <2>1, <2>2 DEF Heads, Begins
  <1>14. Owned(place)'
    <2>1. \A c \in Addresses, v \in Spans : c \in BlocksOf(v) /\ place[c] # None => v # s /\ c \in BlocksOf(v)'
      BY <1>4, <1>7
    <2>2. \A c \in Addresses : place[c] # None => \E v \in Spans : c \in BlocksOf(v)'
      BY <1>1, <2>1 DEF Owned
    <2>3. \A c \in Addresses, v \in Spans : place[c] = Free(v) => c \in BlocksOf(v)'
      BY <1>1, <2>1, PlaceFacts DEF Owned
    <2>4. ASSUME NEW c \in Addresses, NEW v \in Spans, c \in BlocksOf(v)', NEW u \in Threads
          PROVE  /\ \A j \in Lists : place[c] = Cache(u, j) => Index(span'[v].block) = j
                 /\ place[c] = Return(u) => span'[v].block = call'[u].align
      <3>1. v # s /\ c \in BlocksOf(v) /\ span'[v] = span[v]
        BY <1>5, <1>7, <2>4
      <3>2. call'[u].align = call[u].align
        BY <1>6
      <3> QED
        BY <1>1, <3>1, <3>2 DEF Owned
    <2> QED
      BY <2>2, <2>3, <2>4 DEF Owned
  <1>15. Counted(place)'
    <2>1. HeldOf(place, s)' = {}
      BY <1>7 DEF HeldOf
    <2>2. \A v \in Spans \ {s} : HeldOf(place, v)' = HeldOf(place, v)
      BY <1>7 DEF HeldOf
    <2>3. ASSUME NEW v \in Spans PROVE span'[v].use = Cardinality(HeldOf(place, v)')
      <3>1. CASE v = s
        BY <1>5, <2>1, <3>1, FS_EmptySet
      <3>2. CASE v # s
        BY <1>1, <1>5, <2>2, <3>2 DEF Counted
      <3> QED
        BY <3>1, <3>2
    <2> QED
      BY <2>3 DEF Counted
  <1>16. Sized(rank)'
    BY <1>1, <1>3 DEF Sized
  <1>17. Calls(place)'
    <2>1. ASSUME NEW u \in Threads \ {t} PROVE CallOf(place, u)'
      <3>1. CallOf(place, u) /\ call'[u] = call[u] /\ tc'[u] = tc[u]
        BY <1>1, <1>3, <1>6 DEF Calls
      <3>2. call[u].at \in {"insert", "giveback"} =>
              /\ call[u].span \in Given' /\ BlocksOf(call[u].span)' = BlocksOf(call[u].span)
              /\ span'[call[u].span] = span[call[u].span]
              /\ \A j \in Lists : \A n \in DOMAIN lists'[j] : lists'[j][n] # call[u].span
        <4> HAVE call[u].at \in {"insert", "giveback"}
        <4>1. call[u].span # s
          BY <1>1, <1>2, <1>3 DEF CallsApart
        <4>2. /\ call[u].span \in Given /\ call[u].span \in Spans \ {s}
              /\ \A j \in Lists : \A n \in DOMAIN lists[j] : lists[j][n] # call[u].span
          BY <4>1, PendingFacts
        <4>3. BlocksOf(call[u].span)' = BlocksOf(call[u].span)
          BY <1>7, <3>1, <4>2
        <4> QED
          BY <1>3, <1>5, <1>7, <4>1, <4>2, <4>3
      <3> QED
        BY <3>1, <3>2, CallKept
    <2>2. CallOf(place, t)'
      BY <1>4, <1>6 DEF CallOf
    <2> QED
      BY <2>1, <2>2 DEF Calls
  <1>18. CallsApart'
    BY <1>1, <1>6, ApartKept
  <1>19. Listed'
    <2>1. \A v \in Given \ {s} : v \in Given' /\ span'[v] = span[v]
      BY <1>5, <1>7 DEF Given
    <2> QED
      BY <1>1, <1>3, <1>4, <2>1 DEF Listed
  <1>20. Whole(place)'
    <2>1. ASSUME NEW v \in Given \ {s} PROVE SpanWhole(place, v)'
      <3>1. /\ SpanWhole(place, v) /\ BlocksOf(v)' = BlocksOf(v) /\ span'[v] = span[v]
        BY <1>5, <1>7 DEF Good, Whole, Given
      <3>2. \A u \in Threads : call[u].at = "loop" => call'[u] = call[u]
        BY <1>3, <1>6
      <3> QED
        BY <3>1, <3>2, WholeKept
    <2> QED
      BY <1>7, <2>1 DEF Whole
  <1> QED
    BY <1>9, <1>10, <1>11, <1>13, <1>14, <1>15, <1>16, <1>17, <1>18, <1>19, <1>20 DEF Good

-----------------------------------------------------------------------------
LEMMA InitGood == Init => CentralInv
PROOF
  <1> SUFFICES ASSUME Init PROVE \E place, rank : Good(place, rank)
    BY DEF CentralInv
  <1>1. PICK place : place = [c \in Addresses |-> None]
    OBVIOUS
  <1>2. PICK rank : rank = [c \in Addresses |-> 1]
    OBVIOUS
  <1>3. \A c \in Addresses : place[c] = None /\ rank[c] = 1 /\ next[c] = 0
    BY <1>1, <1>2 DEF Init
  <1>4. /\ NewSpan \in SpanType /\ NewSpan.page = 0 /\ NewSpan.header = 0 /\ NewSpan.use = 0
        /\ Idle \in CallType /\ Idle.at = "idle" /\ Idle.start = 0
    BY DEF NewSpan, SpanType, Idle, CallType
  <1>5. /\ \A s \in Spans : span[s] = NewSpan
        /\ \A i \in Lists : lists[i] = <<>>
        /\ \A t \in Threads, i \in Lists : tc[t][i] = [header |-> 0, apply |-> 1, size |-> 0]
        /\ \A t \in Threads : call[t] = Idle
        /\ used = {}
    BY DEF Init
  <1>6. Given = {} /\ \A s \in Spans : BlocksOf(s) = {}
    BY <1>4, <1>5 DEF Given, BlocksOf
  <1>7. Types
    <2>1. next \in [Addresses -> Addresses \cup {0}] /\ lists \in [Lists -> Seq(Spans)]
      BY DEF Init
    <2>2. span \in [Spans -> SpanType] /\ call \in [Threads -> CallType]
      BY <1>4 DEF Init
    <2>3. tc \in [Threads -> [Lists -> CacheType]]
      <3>1. [header |-> 0, apply |-> 1, size |-> 0] \in CacheType
        BY DEF CacheType
      <3> QED
        BY <3>1 DEF Init
    <2> QED
      BY <1>5, <2>1, <2>2, <2>3 DEF Types
  <1>8. /\ PlaceType(place, rank) /\ Linked(place, rank) /\ Ranked(place, rank)
        /\ Owned(place)
    BY <1>1, <1>2, <1>3, <1>6, PlaceSets, PlaceFacts DEF PlaceType, Linked, Ranked, Owned
  <1>9. Heads(place, rank)
    <2>1. \A x \in ListPlaces : Begins(place, rank, x, 0)
      BY <1>3, PlaceSets DEF Begins
    <2>2. \A c \in Addresses : place[c] # User
      BY <1>3, PlaceFacts
    <2> QED
      BY <1>4, <1>5, <2>1, <2>2, PlaceSets DEF Heads
  <1>10. PagesDisjoint
    BY <1>6 DEF PagesDisjoint
  <1>11. Counted(place)
    <2>1. \A s \in Spans : HeldOf(place, s) = {}
      BY <1>6 DEF HeldOf
    <2> QED
      BY <1>4, <1>5, <2>1, FS_EmptySet DEF Counted
  <1>12. Sized(rank)
    <2>1. ASSUME NEW t \in Threads, NEW i \in Lists
          PROVE  /\ tc[t][i].size = LenFrom(rank, tc[t][i].header) /\ tc[t][i].size < tc[t][i].apply
                 /\ \A n \in Requests : Index(n) = i => tc[t][i].apply <= BlockThreshHold(RoundUp(n)) + 1
      <3>1. tc[t][i].header = 0 /\ tc[t][i].apply = 1 /\ tc[t][i].size = 0
        BY <1>5
      <3>2. \A n \in Requests : BlockThreshHold(RoundUp(n)) \in Nat \ {0}
        BY RequestFacts, ClassFacts
      <3> QED
        BY <3>1, <3>2 DEF LenFrom
    <2> QED
      BY <2>1 DEF Sized
  <1>13. Calls(place) /\ CallsApart
    BY <1>4, <1>5 DEF Calls, CallOf, CallsApart
  <1>14. Listed
    BY <1>5 DEF Listed
  <1>15. Good(place, rank)
    BY <1>6, <1>7, <1>8, <1>9, <1>10, <1>11, <1>12, <1>13, <1>14 DEF Good, Whole
  <1> QED
    BY <1>15

(* Every step keeps the invariant, whatever the guard Sane of Next says.     *)
LEMMA NextGood == CentralInv /\ [Next]_vars => CentralInv'
PROOF
  <1> SUFFICES ASSUME CentralInv, [Next]_vars, ~broken'
               PROVE  \E place, rank : Good(place, rank)'
    BY DEF CentralInv
  <1>1. ~broken
    <2>1. CASE UNCHANGED vars
      BY <2>1 DEF vars
    <2>2. ASSUME NEW t \in Threads, MallocNext(t) PROVE ~broken
      <3>1. ASSUME NEW n \in Requests, MallocCached(t, n) \/ MallocCentral(t, n) PROVE ~broken
        BY <3>1 DEF MallocCached, MallocCentral
      <3>2. ASSUME AllocFound(t) \/ AllocMissed(t) \/ InsertTake(t) PROVE ~broken
        BY <3>2 DEF AllocFound, AllocMissed, InsertTake, Take
      <3>3. ASSUME NEW s \in Spans, NEW p \in Pages, CreateSpan(t, s, p) PROVE ~broken
        BY <3>3 DEF CreateSpan
      <3> QED
        BY <2>2, <3>1, <3>2, <3>3 DEF MallocNext
    <2>3. ASSUME NEW t \in Threads, FreeNext(t) PROVE ~broken
      <3>1. ASSUME NEW b \in used, FreeWhole(t, b) PROVE ~broken
        BY <3>1 DEF FreeWhole
      <3>2. ASSUME NEW b \in used, FreeNoCache(t, b) \/ FreeCached(t, b) PROVE ~broken
        BY <3>2 DEF FreeNoCache, FreeCached
      <3>3. ASSUME RecoverLock(t) \/ GiveBack(t) \/ RecoverDone(t) PROVE ~broken
        BY <3>3 DEF RecoverLock, GiveBack, RecoverDone
      <3>4. ASSUME RecoverBlock(t) PROVE ~broken
        BY <3>4 DEF RecoverBlock
      <3> QED
        BY <2>3, <3>1, <3>2, <3>3, <3>4 DEF FreeNext
    <2> QED
      BY <2>1, <2>2, <2>3 DEF Next
  <1>2. PICK place, rank : Good(place, rank)
    BY <1>1 DEF CentralInv
  <1>3. CASE UNCHANGED vars
    <2> USE <1>2, <1>3 DEF vars, Good
    <2>1. Types' /\ PlaceType(place, rank)' /\ Linked(place, rank)' /\ Ranked(place, rank)'
      BY DEF Types, PlaceType, Linked, Ranked
    <2>2. Given' = Given /\ \A v \in Spans : PagesOf(v)' = PagesOf(v) /\ BlocksOf(v)' = BlocksOf(v)
      BY DEF Given, BlocksOf, PagesOf
    <2>3. Heads(place, rank)' /\ PagesDisjoint' /\ Sized(rank)'
      BY <2>2 DEF Heads, Begins, Aliased, PagesDisjoint, Given, Sized
    <2>4. Owned(place)' /\ Counted(place)'
      BY <2>2 DEF Owned, Counted, HeldOf
    <2>5. Calls(place)'
      <3>1. ASSUME NEW t \in Threads PROVE CallOf(place, t)'
        BY <2>2, PendingFacts, CallKept DEF Calls
      <3> QED
        BY <3>1 DEF Calls
    <2>6. CallsApart' /\ Listed'
      BY <2>2 DEF CallsApart, ListOf, Listed
    <2>7. Whole(place)'
      <3>1. ASSUME NEW v \in Given PROVE SpanWhole(place, v)'
        BY <2>2, WholeKept DEF Whole, Given
      <3> QED
        BY <2>2, <3>1 DEF Whole
    <2>8. Good(place, rank)'
      BY <2>1, <2>2, <2>3, <2>4, <2>5, <2>6, <2>7
    <2> QED
      BY <2>8
  <1>4. ASSUME NEW t \in Threads, MallocNext(t) PROVE \E after, ranked : Good(after, ranked)'
    <2>1. ASSUME NEW n \in Requests, MallocCached(t, n) PROVE \E after, ranked : Good(after, ranked)'
      BY <1>2, <2>1, MallocCachedStep
    <2>2. ASSUME NEW n \in Requests, MallocCentral(t, n) PROVE \E after, ranked : Good(after, ranked)'
      BY <1>2, <2>2, MallocCentralStep
    <2>3. CASE AllocFound(t)
      BY <1>2, <2>3, AllocFoundStep
    <2>4. CASE AllocMissed(t)
      BY <1>2, <2>4, AllocMissedStep
    <2>5. ASSUME NEW s \in Spans, NEW p \in Pages, CreateSpan(t, s, p)
          PROVE  \E after, ranked : Good(after, ranked)'
      BY <1>2, <2>5, CreateSpanStep
    <2>6. CASE InsertTake(t)
      BY <1>2, <2>6, InsertTakeStep
    <2> QED
      BY <1>4, <2>1, <2>2, <2>3, <2>4, <2>5, <2>6 DEF MallocNext
  <1>5. ASSUME NEW t \in Threads, FreeNext(t) PROVE \E after, ranked : Good(after, ranked)'
    <2>1. ASSUME NEW b \in used, FreeWhole(t, b) PROVE FALSE
      BY <2>1 DEF FreeWhole
    <2>2. ASSUME NEW b \in used, FreeNoCache(t, b) PROVE \E after, ranked : Good(after, ranked)'
      BY <1>2, <2>2, FreeNoCacheStep
    <2>3. ASSUME NEW b \in used, FreeCached(t, b) PROVE \E after, ranked : Good(after, ranked)'
      BY <1>2, <2>3, FreeCachedStep
    <2>4. CASE RecoverLock(t)
      BY <1>2, <2>4, RecoverLockStep
    <2>5. CASE RecoverBlock(t)
      BY <1>2, <2>5, RecoverBlockStep
    <2>6. CASE GiveBack(t)
      BY <1>2, <2>6, GiveBackStep
    <2>7. CASE RecoverDone(t)
      BY <1>2, <2>7, RecoverDoneStep
    <2> QED
      BY <1>5, <2>1, <2>2, <2>3, <2>4, <2>5, <2>6, <2>7 DEF FreeNext
  <1> QED
    BY <1>3, <1>4, <1>5 DEF Next

(* The invariant holds at every step. *)
LEMMA CentralInvariant == Spec => []CentralInv
PROOF
  <1> QED
    BY InitGood, NextGood, PTL DEF Spec

(* While nothing is broken, _use_count is the number of the span's blocks     *)
(* that users, thread caches and returns under way have, and none of these   *)
(* blocks lies in pages that are not handed out.                             *)
THEOREM UseCountIsExact == Spec => []UseCountExact
PROOF
  <1>1. CentralInv => UseCountExact
    BY CountExact DEF CentralInv, UseCountExact
  <1> QED
    BY <1>1, CentralInvariant, PTL

(* While nothing is broken, no block is in two of these places: with a user,  *)
(* in one list of one thread, in one return, free in its own span; and each   *)
(* block of a span that has a free one is in one of them (the returns of      *)
(* recover_blocks_to_spans lose blocks, but leave their span without a free   *)
(* one).                                                                      *)
THEOREM BlocksInOnePlace == Spec => []OnePlace
PROOF
  <1>1. CentralInv => OnePlace
    <2> SUFFICES ASSUME CentralInv, ~broken
                 PROVE  /\ HandsDisjoint
                        /\ \A s \in Given :
                             \/ \E t \in Threads : call[t].at = "loop" /\ ListOf(t) = Index(span[s].block)
                             \/ /\ Chain(span[s].header) \subseteq BlocksOf(s) \ Held
                                /\ span[s].header # 0 =>
                                     CarvedBlocks(s) \subseteq Chain(span[s].header) \cup Held
      BY DEF OnePlace
    <2>1. PICK place, rank : Good(place, rank)
      BY DEF CentralInv
    <2> QED
      BY <2>1, HandsApart, FreeApart
  <1> QED
    BY <1>1, CentralInvariant, PTL

(* While nothing is broken, _m_size counts the blocks of each list of a       *)
(* thread, which has fewer than apply_count, and apply_count exceeds the     *)
(* threshold of the class by one at most.                                    *)
THEOREM CachesAreBounded == Spec => []CacheBounded
PROOF
  <1>1. CentralInv => CacheBounded
    <2> SUFFICES ASSUME CentralInv, ~broken
                 PROVE  /\ SizesExact
                        /\ \A t \in Threads, n \in Requests :
                             /\ tc[t][Index(n)].size < tc[t][Index(n)].apply
                             /\ tc[t][Index(n)].apply <= BlockThreshHold(RoundUp(n)) + 1
      BY DEF CacheBounded
    <2>1. PICK place, rank : Good(place, rank)
      BY DEF CentralInv
    <2>2. Sized(rank) /\ SizesExact
      BY <2>1, HandsApart DEF Good
    <2> QED
      BY <2>2, RequestFacts DEF Sized
  <1> QED
    BY <1>1, CentralInvariant, PTL

(* The counterpart of the violation that central_mixed shows: the two faults *)
(* recorded by broken are the only reasons why a span goes back to the page  *)
(* cache (central_cache.cpp:81) while somebody has one of its blocks.        *)
THEOREM SpansComeBackWhole == Spec => [](~broken => Complete)
PROOF
  <1>1. CentralInv => (~broken => Complete)
    <2> SUFFICES ASSUME CentralInv, ~broken, NEW t \in Threads, call[t].at = "giveback"
                 PROVE  BlocksOf(call[t].span) \cap Held = {}
      BY DEF Complete
    <2>1. PICK place, rank : Good(place, rank)
      BY DEF CentralInv
    <2>2. \A b \in BlocksOf(call[t].span) : place[b] \notin HeldPlaces
      BY <2>1 DEF Good, Calls, CallOf
    <2>3. Held = {b \in Addresses : place[b] \in HeldPlaces}
      BY <2>1, Hands
    <2> QED
      BY <2>2, <2>3
  <1> QED
    BY <1>1, CentralInvariant, PTL

(* The guard Sane of Next, at which a behaviour ends, hides nothing of this:  *)
(* it is true until one of the two faults of broken has happened, or         *)
(* deallocate has been called through a null pointer.                        *)
THEOREM SaneUntilBroken ==
  Spec => [](~broken /\ (\A t \in Threads : call[t].at # "crashed") => Sane)
PROOF
  <1>1. CentralInv => (~broken /\ (\A t \in Threads : call[t].at # "crashed") => Sane)
    BY GoodSane DEF CentralInv
  <1> QED
    BY <1>1, CentralInvariant, PTL
=============================================================================
