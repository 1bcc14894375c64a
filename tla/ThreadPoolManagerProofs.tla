---------------------- MODULE ThreadPoolManagerProofs ----------------------
(***************************************************************************)
(* What is proved of the manager and the thread ids for any number of       *)
(* clients, pools and threads: m_mtx_ protects the counter unless a pool    *)
(* grows or is started again, and ids name one thread each unless an        *)
(* increment is lost.                                                       *)
(***************************************************************************)
EXTENDS ThreadPoolManager, FiniteSetTheorems, TLAPS

Bag == UNION {[S -> Nat] : S \in SUBSET Nat}

Types ==
  /\ generateId \in Nat /\ made \in 0 .. MaxPools
  /\ mode \in [Pools -> {"FIXED", "CACHED"}]
  /\ asked \in [Pools -> Nat] /\ threads \in [Pools -> SUBSET Nat] /\ running \in [Pools -> Bag]
  /\ m_task_mtx \in [Pools -> Clients \cup {Nobody}]
  /\ starts \in [Pools -> Nat] /\ grown \in [Pools -> Nat]
  /\ at \in [Clients -> {"idle", "start", "grow"}] /\ pool \in [Clients -> Pools \cup {0}]
  /\ left \in [Clients -> Nat] /\ loaded \in [Clients -> Nat \cup {-1}]
  /\ lost \in BOOLEAN /\ outside \in BOOLEAN

(* A call works alone in a pool that exists; one that makes the pool grow    *)
(* has its m_task_mtx_, too.                                                 *)
Calls ==
  /\ \A c \in Clients : at[c] = "idle" <=> pool[c] = 0
  /\ \A c \in Clients : at[c] = "idle" => left[c] = 0
  /\ \A c \in Clients : at[c] = "grow" => left[c] = 1 /\ m_task_mtx[pool[c]] = c
  /\ \A c \in Clients : loaded[c] # -1 => left[c] > 0
  /\ \A b, c \in Clients : b # c /\ pool[b] = pool[c] => pool[b] = 0
  /\ \A c \in Clients : pool[c] <= made
  /\ \A p \in Pools : p > made =>
       /\ mode[p] = "FIXED" /\ starts[p] = 0 /\ grown[p] = 0
       /\ threads[p] = {} /\ running[p] = EmptyBag

(* Without a lost increment the counter is above every id; while a pool is   *)
(* being started its map fills up, and then each id in it has a thread.      *)
Exact ==
  /\ \A p \in Pools : threads[p] \subseteq 1 .. generateId
  /\ \A p, q \in Pools : p # q => threads[p] \cap threads[q] = {}
  /\ \A p \in Pools, c \in Clients : starts[p] = 1 /\ pool[c] = p /\ at[c] = "start" =>
       /\ running[p] = EmptyBag /\ grown[p] = 0
       /\ Cardinality(threads[p]) + left[c] = InitSize(asked[p])
  /\ \A p \in Pools, c \in Clients : starts[p] = 1 /\ pool[c] = p /\ at[c] = "grow" =>
       /\ running[p] = SetToBag(threads[p])
       /\ Cardinality(threads[p]) + 1 = InitSize(asked[p]) + grown[p]
  /\ \A p \in Pools : starts[p] = 1 /\ Quiet(p) =>
       /\ running[p] = SetToBag(threads[p])
       /\ Cardinality(threads[p]) = InitSize(asked[p]) + grown[p]

(* Without growth or a second start() every increment is made under m_mtx_. *)
Inside ==
  ~outside =>
    /\ ~lost
    /\ \A c \in Clients : at[c] # "idle" => m_mtx = c
    /\ \A c \in Clients : loaded[c] \in {-1, generateId}

Inv == Types /\ Calls /\ Inside /\ (~lost => Exact)
-----------------------------------------------------------------------------
(* Bags of ids. *)
LEMMA BagFacts ==
  /\ EmptyBag \in Bag
  /\ \A S \in SUBSET Nat : SetToBag(S) \in Bag /\ EmptyBag (+) SetToBag(S) = SetToBag(S)
  /\ \A S \in SUBSET Nat, x \in Nat : x \notin S =>
       SetToBag(S) (+) SetToBag({x}) = SetToBag(S \cup {x})
PROOF
  <1>1. ASSUME NEW S \in SUBSET Nat PROVE SetToBag(S) \in Bag
    BY DEF SetToBag, Bag
  <1>2. EmptyBag \in Bag
    BY <1>1 DEF EmptyBag
  <1>3. ASSUME NEW S \in SUBSET Nat PROVE EmptyBag (+) SetToBag(S) = SetToBag(S)
    BY DEF EmptyBag, SetToBag, (+)
  <1>4. ASSUME NEW S \in SUBSET Nat, NEW x \in Nat, x \notin S
        PROVE  SetToBag(S) (+) SetToBag({x}) = SetToBag(S \cup {x})
    BY <1>4 DEF SetToBag, (+)
  <1> QED
    BY <1>1, <1>2, <1>3, <1>4

LEMMA BagSum == ASSUME NEW A \in Bag, NEW B \in Bag PROVE A (+) B \in Bag
PROOF
  <1>1. PICK S \in SUBSET Nat : A \in [S -> Nat]
    BY DEF Bag
  <1>2. PICK T \in SUBSET Nat : B \in [T -> Nat]
    BY DEF Bag
  <1>3. A (+) B \in [S \cup T -> Nat]
    BY <1>1, <1>2 DEF (+)
  <1>4. S \cup T \in SUBSET Nat
    OBVIOUS
  <1> QED
    BY <1>3, <1>4 DEF Bag

LEMMA InitInv == Init => Inv
PROOF
  <1> SUFFICES ASSUME Init PROVE Inv
    OBVIOUS
  <1> USE ManagerAssumption DEF Init
  <1>1. running \in [Pools -> Bag] /\ \A p \in Pools : running[p] = EmptyBag
    BY BagFacts
  <1>2. threads \in [Pools -> SUBSET Nat] /\ \A p \in Pools : threads[p] = {}
    OBVIOUS
  <1>3. lost \in BOOLEAN /\ outside \in BOOLEAN
    BY Zenon
  <1>4. Types
    BY <1>1, <1>2, <1>3 DEF Types
  <1>5. Calls /\ Inside
    BY <1>1, <1>2 DEF Calls, Inside
  <1>6. Exact
    BY <1>2 DEF Exact
  <1> QED
    BY <1>4, <1>5, <1>6 DEF Inv

LEMMA StepTypes == ASSUME Types, Calls, Next PROVE Types'
PROOF
  <1> USE ManagerAssumption
  <1>1. ASSUME NEW c \in Clients, NEW m \in {"FIXED", "CACHED"}, NEW n \in Counts, GetPool(c, m, n)
        PROVE  Types'
    <2>1. n \in Nat /\ InitSize(n) \in Nat /\ made + 1 \in Pools /\ made' \in 0 .. MaxPools
      BY <1>1 DEF GetPool, Types, InitSize, Pools
    <2>2. UNCHANGED <<generateId, threads, running, m_task_mtx, grown, loaded, lost, outside>>
      BY <1>1 DEF GetPool, Begin
    <2>3. /\ mode' \in [Pools -> {"FIXED", "CACHED"}] /\ asked' \in [Pools -> Nat]
          /\ starts' \in [Pools -> Nat]
      BY <1>1, <2>1 DEF GetPool, Types
    <2>4. /\ at' \in [Clients -> {"idle", "start", "grow"}] /\ pool' \in [Clients -> Pools \cup {0}]
          /\ left' \in [Clients -> Nat]
      BY <1>1, <2>1 DEF GetPool, Begin, Types
    <2> QED
      BY <2>1, <2>2, <2>3, <2>4 DEF Types
  <1>2. ASSUME NEW c \in Clients, NEW p \in Pools, StartAgain(c, p)
        PROVE  Types'
    <2>1. InitSize(asked[p]) \in Nat
      BY DEF Types, InitSize
    <2>2. /\ UNCHANGED <<generateId, made, mode, asked, threads, running, m_task_mtx, grown, loaded, lost>>
          /\ outside'
      BY <1>2 DEF StartAgain, Begin
    <2>3. starts' \in [Pools -> Nat]
      BY <1>2 DEF StartAgain, Types
    <2>4. /\ at' \in [Clients -> {"idle", "start", "grow"}] /\ pool' \in [Clients -> Pools \cup {0}]
          /\ left' \in [Clients -> Nat]
      BY <1>2, <2>1 DEF StartAgain, Begin, Types
    <2>5. outside' \in BOOLEAN
      BY <1>2, Zenon DEF StartAgain
    <2> QED
      BY <2>2, <2>3, <2>4, <2>5 DEF Types
  <1>3. ASSUME NEW c \in Clients, NEW p \in Pools, Grow(c, p)
        PROVE  Types'
    <2>1. UNCHANGED <<generateId, made, mode, asked, threads, running, starts, loaded, lost>>
      BY <1>3 DEF Grow, Begin
    <2>2. grown' \in [Pools -> Nat] /\ m_task_mtx' \in [Pools -> Clients \cup {Nobody}]
      BY <1>3 DEF Grow, Types
    <2>3. /\ at' \in [Clients -> {"idle", "start", "grow"}] /\ pool' \in [Clients -> Pools \cup {0}]
          /\ left' \in [Clients -> Nat]
      BY <1>3 DEF Grow, Begin, Types
    <2>4. outside' \in BOOLEAN
      BY <1>3, Zenon DEF Grow
    <2> QED
      BY <2>1, <2>2, <2>3, <2>4 DEF Types
  <1>4. ASSUME NEW c \in Clients, LoadId(c)
        PROVE  Types'
    <2>1. loaded' \in [Clients -> Nat \cup {-1}]
      BY <1>4 DEF LoadId, Types
    <2> QED
      BY <1>4, <2>1 DEF LoadId, Types, poolVars
  <1>5. ASSUME NEW c \in Clients, StoreId(c)
        PROVE  Types'
    <2>1. pool[c] \in Pools /\ loaded[c] \in Nat /\ left[c] \in Nat \ {0}
      BY <1>5 DEF StoreId, Types, Calls
    <2>2. NextId(loaded[c]) \in Nat /\ generateId' \in Nat
      BY <1>5, <2>1 DEF StoreId, NextId
    <2>3. UNCHANGED <<made, mode, asked, starts, grown, outside>>
      BY <1>5 DEF StoreId, poolVars
    <2>4. threads' \in [Pools -> SUBSET Nat]
      BY <1>5, <2>1, <2>2 DEF StoreId, Types
    <2>5. left' \in [Clients -> Nat] /\ loaded' \in [Clients -> Nat \cup {-1}]
      BY <1>5, <2>1, SMTT(60) DEF StoreId, Types
    <2>6. running' \in [Pools -> Bag]
      <3>1. SetToBag({NextId(loaded[c])}) \in Bag
        BY <2>2, BagFacts
      <3>2. running[pool[c]] (+) SetToBag({NextId(loaded[c])}) \in Bag
        BY <2>1, <3>1, BagSum DEF Types
      <3> QED
        BY <1>5, <3>2 DEF StoreId, Types
    <2>7. /\ at' \in [Clients -> {"idle", "start", "grow"}] /\ pool' \in [Clients -> Pools \cup {0}]
          /\ m_task_mtx' \in [Pools -> Clients \cup {Nobody}]
      BY <1>5 DEF StoreId, End, Types
    <2>8. lost' \in BOOLEAN
      BY <1>5, Zenon DEF StoreId
    <2> QED
      BY <2>2, <2>3, <2>4, <2>5, <2>6, <2>7, <2>8 DEF Types
  <1>6. ASSUME NEW c \in Clients, Started(c)
        PROVE  Types'
    <2>1. pool[c] \in Pools
      BY <1>6 DEF Started, Types, Calls
    <2>2. running[pool[c]] (+) SetToBag(threads[pool[c]]) \in Bag
      BY <2>1, BagFacts, BagSum DEF Types
    <2>3. running' \in [Pools -> Bag]
      BY <1>6, <2>2 DEF Started, Types
    <2>4. at' \in [Clients -> {"idle", "start", "grow"}] /\ pool' \in [Clients -> Pools \cup {0}]
      BY <1>6 DEF Started, End, Types
    <2> QED
      BY <1>6, <2>3, <2>4 DEF Started, Types, poolVars
  <1> QED
    BY <1>1, <1>2, <1>3, <1>4, <1>5, <1>6 DEF Next, Step

LEMMA StepInside == ASSUME Types, Calls, Inside, Next PROVE Inside'
PROOF
  <1> SUFFICES ASSUME ~outside' PROVE Inside'
    BY DEF Inside
  <1>1. ASSUME NEW c \in Clients, NEW m \in {"FIXED", "CACHED"}, NEW n \in Counts, GetPool(c, m, n)
        PROVE  Inside'
    <2>1. ~outside /\ m_mtx = Nobody /\ m_mtx' = c
      BY <1>1 DEF GetPool, Free
    <2>2. \A b \in Clients : at[b] = "idle"
      BY <2>1, ManagerAssumption DEF Inside
    <2>3. \A b \in Clients : b # c => at'[b] = "idle"
      BY <1>1, <2>2 DEF GetPool, Begin, Types
    <2> QED
      BY <1>1, <2>1, <2>3 DEF GetPool, Begin, Inside
  <1>2. ASSUME NEW c \in Clients, NEW p \in Pools, StartAgain(c, p) \/ Grow(c, p)
        PROVE  Inside'
    BY <1>2 DEF StartAgain, Grow
  <1>3. ASSUME NEW c \in Clients, LoadId(c)
        PROVE  Inside'
    <2>1. ~outside /\ UNCHANGED <<m_mtx, generateId, at, lost>>
      BY <1>3 DEF LoadId
    <2>2. \A b \in Clients : loaded'[b] = IF b = c THEN generateId ELSE loaded[b]
      BY <1>3 DEF LoadId, Types
    <2> QED
      BY <2>1, <2>2 DEF Inside
  <1>4. ASSUME NEW c \in Clients, StoreId(c)
        PROVE  Inside'
    <2>1. ~outside /\ m_mtx' = m_mtx /\ loaded[c] # -1 /\ left[c] > 0 /\ at[c] # "idle"
      BY <1>4 DEF StoreId, Types, Calls
    <2>2. loaded[c] = generateId /\ m_mtx = c
      BY <2>1 DEF Inside
    <2>3. lost' = (lost \/ generateId # loaded[c])
      BY <1>4 DEF StoreId
    <2>4. ~lost'
      BY <2>1, <2>2, <2>3 DEF Inside
    <2>5. \A b \in Clients : b # c => at[b] = "idle" /\ left[b] = 0 /\ loaded[b] = -1
      BY <2>1, <2>2 DEF Inside, Calls, Types
    <2>6. \A b \in Clients : loaded'[b] = -1
      BY <1>4, <2>5 DEF StoreId, Types
    <2>7. \A b \in Clients : at'[b] # "idle" => at[b] # "idle"
      BY <1>4 DEF StoreId, End, Types
    <2> QED
      BY <2>1, <2>4, <2>6, <2>7 DEF Inside
  <1>5. ASSUME NEW c \in Clients, Started(c)
        PROVE  Inside'
    <2>1. ~outside /\ at[c] = "start" /\ UNCHANGED <<generateId, loaded, lost>>
      BY <1>5 DEF Started
    <2>2. m_mtx = c
      BY <2>1 DEF Inside
    <2>3. \A b \in Clients : at'[b] = "idle"
      BY <1>5, <2>1, <2>2 DEF Started, End, Inside, Types
    <2> QED
      BY <2>1, <2>3 DEF Inside
  <1> QED
    BY <1>1, <1>2, <1>3, <1>4, <1>5 DEF Next, Step

LEMMA StepCalls == ASSUME Types, Calls, Next PROVE Calls'
PROOF
  <1> USE ManagerAssumption
  <1>1. ASSUME NEW c \in Clients, NEW m \in {"FIXED", "CACHED"}, NEW n \in Counts, GetPool(c, m, n)
        PROVE  Calls'
    <2>1. /\ made' = made + 1 /\ made + 1 \in Pools /\ made \in Nat
          /\ UNCHANGED <<threads, running, m_task_mtx, grown, loaded>>
      BY <1>1 DEF GetPool, Begin, Types, Pools
    <2>2. /\ at[c] = "idle" /\ pool[c] = 0 /\ left[c] = 0 /\ loaded[c] = -1
      BY <1>1 DEF GetPool, Begin, Calls, Types
    <2>3. /\ at'[c] = "start" /\ pool'[c] = made + 1
          /\ \A b \in Clients : b # c => at'[b] = at[b] /\ pool'[b] = pool[b] /\ left'[b] = left[b]
      BY <1>1 DEF GetPool, Begin, Types
    <2>4. \A p \in Pools : p # made + 1 => mode'[p] = mode[p] /\ starts'[p] = starts[p]
      BY <1>1 DEF GetPool, Types
    <2>5. \A b \in Clients : pool[b] \in Nat /\ pool[b] <= made
      BY DEF Calls, Types, Pools
    <2>6. \A a, b \in Clients : a # b /\ pool'[a] = pool'[b] => pool'[a] = 0
      BY <2>1, <2>3, <2>5 DEF Calls
    <2>7. \A b \in Clients : /\ at'[b] = "idle" <=> pool'[b] = 0
                             /\ at'[b] = "idle" => left'[b] = 0
                             /\ at'[b] = "grow" => left'[b] = 1 /\ m_task_mtx'[pool'[b]] = b
                             /\ loaded'[b] # -1 => left'[b] > 0
                             /\ pool'[b] <= made'
      BY <2>1, <2>2, <2>3, <2>5 DEF Calls
    <2>8. \A p \in Pools : p > made' =>
            /\ mode'[p] = "FIXED" /\ starts'[p] = 0 /\ grown'[p] = 0
            /\ threads'[p] = {} /\ running'[p] = EmptyBag
      BY <2>1, <2>4 DEF Calls, Pools
    <2> QED
      BY <2>6, <2>7, <2>8 DEF Calls
  <1>2. ASSUME NEW c \in Clients, NEW p \in Pools, NEW what \in {"start", "grow"}, NEW k,
               Begin(c, what, p, k), p <= made, made' = made, \A b \in Clients : pool[b] # p,
               UNCHANGED <<threads, mode>>,
               \A q \in Pools : q # p =>
                 starts'[q] = starts[q] /\ grown'[q] = grown[q] /\ m_task_mtx'[q] = m_task_mtx[q],
               what = "grow" => k = 1 /\ m_task_mtx'[p] = c
        PROVE  Calls'
    <2>1. p # 0 /\ UNCHANGED <<running, loaded>>
      BY <1>2 DEF Pools, Begin
    <2>2. /\ at[c] = "idle" /\ pool[c] = 0 /\ left[c] = 0 /\ loaded[c] = -1
      BY <1>2 DEF Begin, Calls, Types
    <2>3. /\ at'[c] = what /\ pool'[c] = p /\ left'[c] = k
          /\ \A b \in Clients : b # c => at'[b] = at[b] /\ pool'[b] = pool[b] /\ left'[b] = left[b]
      BY <1>2 DEF Begin, Types
    <2>4. \A a, b \in Clients : a # b /\ pool'[a] = pool'[b] => pool'[a] = 0
      BY <1>2, <2>3 DEF Calls
    <2>5. \A b \in Clients : b # c /\ at'[b] = "grow" => left'[b] = 1 /\ m_task_mtx'[pool'[b]] = b
      <3>1. \A b \in Clients : b # c /\ at[b] = "grow" => pool[b] \in Pools /\ pool[b] # p
        BY <1>2 DEF Calls, Types
      <3> QED
        BY <1>2, <2>3, <3>1 DEF Calls
    <2>6. \A b \in Clients : /\ at'[b] = "idle" <=> pool'[b] = 0
                             /\ at'[b] = "idle" => left'[b] = 0
                             /\ loaded'[b] # -1 => left'[b] > 0
                             /\ pool'[b] <= made'
      BY <1>2, <2>1, <2>2, <2>3 DEF Calls
    <2>7. \A q \in Pools : q > made' =>
            /\ mode'[q] = "FIXED" /\ starts'[q] = 0 /\ grown'[q] = 0
            /\ threads'[q] = {} /\ running'[q] = EmptyBag
      <3>1. \A q \in Pools : q > made => q # p
        BY <1>2 DEF Pools, Types
      <3> QED
        BY <1>2, <2>1, <3>1 DEF Calls
    <2>8. \A b \in Clients : at'[b] = "grow" => left'[b] = 1 /\ m_task_mtx'[pool'[b]] = b
      BY <1>2, <2>3, <2>5
    <2> QED
      BY <2>4, <2>6, <2>7, <2>8 DEF Calls
  <1>3. ASSUME NEW c \in Clients, NEW p \in Pools, StartAgain(c, p)
        PROVE  Calls'
    <2>1. p <= made
      BY <1>3 DEF StartAgain, Calls, Pools, Types
    <2>2. \A q \in Pools : q # p =>
            starts'[q] = starts[q] /\ grown'[q] = grown[q] /\ m_task_mtx'[q] = m_task_mtx[q]
      BY <1>3 DEF StartAgain, Types
    <2> QED
      BY <1>2, <1>3, <2>1, <2>2 DEF StartAgain
  <1>4. ASSUME NEW c \in Clients, NEW p \in Pools, Grow(c, p)
        PROVE  Calls'
    <2>1. p <= made
      BY <1>4 DEF Grow, Calls, Pools, Types
    <2>2. /\ m_task_mtx'[p] = c
          /\ \A q \in Pools : q # p =>
               starts'[q] = starts[q] /\ grown'[q] = grown[q] /\ m_task_mtx'[q] = m_task_mtx[q]
      BY <1>4 DEF Grow, Types
    <2>3. ASSUME NEW b \in Clients PROVE pool[b] # p
      <3>1. m_task_mtx[p] = Nobody /\ Nobody # b /\ p # 0 /\ ~(pool[b] = p /\ at[b] = "start")
        BY <1>4 DEF Grow, Free, Pools
      <3> QED
        BY <3>1 DEF Calls, Types
    <2> QED
      BY <1>2, <1>4, <2>1, <2>2, <2>3 DEF Grow
  <1>5. ASSUME NEW c \in Clients, LoadId(c)
        PROVE  Calls'
    <2>1. /\ UNCHANGED <<made, mode, starts, grown, threads, running, m_task_mtx, at, pool, left>>
          /\ left[c] > 0
      BY <1>5 DEF LoadId, poolVars
    <2>2. \A b \in Clients : b # c => loaded'[b] = loaded[b]
      BY <1>5 DEF LoadId, Types
    <2> QED
      BY <2>1, <2>2 DEF Calls
  <1>6. ASSUME NEW c \in Clients, StoreId(c)
        PROVE  Calls'
    <2>1. /\ loaded[c] # -1 /\ left[c] \in Nat \ {0} /\ at[c] # "idle"
          /\ pool[c] \in Pools /\ pool[c] <= made /\ pool[c] # 0
      BY <1>6 DEF StoreId, Calls, Types, Pools
    <2>2. UNCHANGED <<made, mode, starts, grown>>
      BY <1>6 DEF StoreId, poolVars
    <2>3. /\ left'[c] = left[c] - 1 /\ loaded'[c] = -1
          /\ \A b \in Clients : b # c => left'[b] = left[b] /\ loaded'[b] = loaded[b]
                                         /\ at'[b] = at[b] /\ pool'[b] = pool[b]
      BY <1>6 DEF StoreId, End, Types
    <2>4. \A q \in Pools : q # pool[c] => /\ threads'[q] = threads[q] /\ running'[q] = running[q]
                                          /\ m_task_mtx'[q] = m_task_mtx[q]
      BY <1>6 DEF StoreId, Types
    <2>5. \/ at[c] = "grow" /\ at'[c] = "idle" /\ pool'[c] = 0
          \/ at[c] = "start" /\ at'[c] = "start" /\ pool'[c] = pool[c]
      BY <1>6 DEF StoreId, End, Types
    <2>6. \A a, b \in Clients : a # b /\ pool'[a] = pool'[b] => pool'[a] = 0
      BY <2>3, <2>5 DEF Calls
    <2>7. \A b \in Clients : b # c => (at[b] = "grow" => pool[b] \in Pools /\ pool[b] # pool[c])
      BY <2>1 DEF Calls, Types
    <2>8. \A b \in Clients : at'[b] = "grow" => left'[b] = 1 /\ m_task_mtx'[pool'[b]] = b
      BY <2>3, <2>4, <2>5, <2>7 DEF Calls
    <2>9. \A b \in Clients : /\ at'[b] = "idle" <=> pool'[b] = 0
                             /\ at'[b] = "idle" => left'[b] = 0
                             /\ loaded'[b] # -1 => left'[b] > 0
                             /\ pool'[b] <= made'
      <3>1. ASSUME NEW b \in Clients, b # c
            PROVE  /\ at'[b] = "idle" <=> pool'[b] = 0
                   /\ at'[b] = "idle" => left'[b] = 0
                   /\ loaded'[b] # -1 => left'[b] > 0
                   /\ pool'[b] <= made'
        BY <2>2, <2>3, <3>1 DEF Calls
      <3>2. /\ at'[c] = "idle" <=> pool'[c] = 0
            /\ loaded'[c] = -1 /\ pool'[c] <= made'
        BY <2>1, <2>2, <2>3, <2>5 DEF Types
      <3>3. at'[c] = "idle" => left'[c] = 0
        BY <2>3, <2>5 DEF Calls
      <3> QED
        BY <3>1, <3>2, <3>3
    <2>10. \A q \in Pools : q > made' =>
            /\ mode'[q] = "FIXED" /\ starts'[q] = 0 /\ grown'[q] = 0
            /\ threads'[q] = {} /\ running'[q] = EmptyBag
      <3>1. \A q \in Pools : q > made => q # pool[c]
        BY <2>1 DEF Pools, Types
      <3> QED
        BY <2>2, <2>4, <3>1 DEF Calls
    <2> QED
      BY <2>6, <2>8, <2>9, <2>10 DEF Calls
  <1>7. ASSUME NEW c \in Clients, Started(c)
        PROVE  Calls'
    <2>1. /\ left[c] = 0 /\ loaded[c] = -1 /\ pool[c] \in Pools /\ pool[c] <= made
      BY <1>7 DEF Started, Calls, Types
    <2>2. UNCHANGED <<made, mode, starts, grown, threads, m_task_mtx, left, loaded>>
      BY <1>7 DEF Started, poolVars
    <2>3. /\ at'[c] = "idle" /\ pool'[c] = 0
          /\ \A b \in Clients : b # c => at'[b] = at[b] /\ pool'[b] = pool[b]
      BY <1>7 DEF Started, End, Types
    <2>4. \A q \in Pools : q # pool[c] => running'[q] = running[q]
      BY <1>7 DEF Started, Types
    <2>5. \A q \in Pools : q > made => q # pool[c]
      BY <2>1 DEF Pools, Types
    <2>6. \A a, b \in Clients : a # b /\ pool'[a] = pool'[b] => pool'[a] = 0
      BY <2>3 DEF Calls
    <2>7. \A b \in Clients : /\ at'[b] = "idle" <=> pool'[b] = 0
                             /\ at'[b] = "idle" => left'[b] = 0
                             /\ at'[b] = "grow" => left'[b] = 1 /\ m_task_mtx'[pool'[b]] = b
                             /\ loaded'[b] # -1 => left'[b] > 0
                             /\ pool'[b] <= made'
      <3>1. 0 <= made
        BY DEF Types
      <3> QED
        BY <2>1, <2>2, <2>3, <3>1 DEF Calls
    <2> QED
      BY <2>2, <2>4, <2>5, <2>6, <2>7 DEF Calls
  <1> QED
    BY <1>1, <1>3, <1>4, <1>5, <1>6, <1>7 DEF Next, Step

LEMMA StepExact == ASSUME Types, Calls, Exact, Next, ~lost' PROVE Exact'
PROOF
  <1> USE ManagerAssumption
  <1>1. ASSUME NEW c \in Clients, NEW m \in {"FIXED", "CACHED"}, NEW n \in Counts, GetPool(c, m, n)
        PROVE  Exact'
    <2> DEFINE new == made + 1
    <2>1. /\ new \in Pools /\ new > made /\ \A b \in Clients : pool[b] # new
          /\ UNCHANGED <<generateId, threads, running, grown>>
      BY <1>1 DEF GetPool, Begin, Types, Calls, Pools
    <2>2. /\ at'[c] = "start" /\ pool'[c] = new /\ left'[c] = InitSize(n)
          /\ \A b \in Clients : b # c => at'[b] = at[b] /\ pool'[b] = pool[b] /\ left'[b] = left[b]
      BY <1>1 DEF GetPool, Begin, Types
    <2>3. /\ \A p \in Pools : p # new => asked'[p] = asked[p] /\ starts'[p] = starts[p]
          /\ asked'[new] = n
      BY <1>1, <2>1 DEF GetPool, Types
    <2>4. threads[new] = {} /\ running[new] = EmptyBag /\ grown[new] = 0
      BY <2>1 DEF Calls
    <2>5. Cardinality(threads[new]) = 0 /\ InitSize(n) \in Nat
      BY <2>4, FS_EmptySet DEF InitSize
    <2>6. pool[c] = 0
      BY <1>1 DEF GetPool, Begin, Calls
    <2>7. \A p \in Pools, b \in Clients : starts'[p] = 1 /\ pool'[b] = p /\ at'[b] = "start" =>
            /\ running'[p] = EmptyBag /\ grown'[p] = 0
            /\ Cardinality(threads'[p]) + left'[b] = InitSize(asked'[p])
      <3> SUFFICES ASSUME NEW p \in Pools, NEW b \in Clients,
                          starts'[p] = 1, pool'[b] = p, at'[b] = "start"
                   PROVE  /\ running'[p] = EmptyBag /\ grown'[p] = 0
                          /\ Cardinality(threads'[p]) + left'[b] = InitSize(asked'[p])
        OBVIOUS
      <3>1. CASE b = c
        <4>1. p = new /\ left'[b] = InitSize(n) /\ asked'[p] = n
          BY <2>2, <2>3, <3>1
        <4>2. Cardinality(threads'[p]) = 0 /\ InitSize(asked'[p]) = InitSize(n)
          BY <2>1, <2>5, <4>1
        <4>3. running'[p] = EmptyBag /\ grown'[p] = 0
          BY <2>1, <2>4, <4>1
        <4> QED
          BY <2>5, <4>1, <4>2, <4>3
      <3>2. CASE b # c
        <4>1. p # new /\ pool[b] = p /\ at[b] = "start" /\ left'[b] = left[b]
          BY <2>1, <2>2, <3>2
        <4> QED
          BY <2>1, <2>3, <4>1 DEF Exact
      <3> QED
        BY <3>1, <3>2
    <2>8. \A p \in Pools, b \in Clients : starts'[p] = 1 /\ pool'[b] = p /\ at'[b] = "grow" =>
            /\ running'[p] = SetToBag(threads'[p])
            /\ Cardinality(threads'[p]) + 1 = InitSize(asked'[p]) + grown'[p]
      BY <2>1, <2>2, <2>3 DEF Exact
    <2>9. \A p \in Pools : starts'[p] = 1 /\ (\A b \in Clients : pool'[b] # p) =>
            /\ running'[p] = SetToBag(threads'[p])
            /\ Cardinality(threads'[p]) = InitSize(asked'[p]) + grown'[p]
      <3>1. \A p \in Pools : (\A b \in Clients : pool'[b] # p) => p # new /\ Quiet(p)
        BY <2>2, <2>6 DEF Quiet, Pools
      <3> QED
        BY <2>1, <2>3, <3>1 DEF Exact
    <2> QED
      BY <2>1, <2>7, <2>8, <2>9 DEF Exact, Quiet, InitSize
  <1>2. ASSUME NEW c \in Clients, NEW p \in Pools, StartAgain(c, p)
        PROVE  Exact'
    <2>1. UNCHANGED <<generateId, asked, threads, running, grown>>
      BY <1>2 DEF StartAgain, Begin
    <2>2. /\ pool'[c] = p /\ pool[c] = 0
          /\ \A b \in Clients : b # c => at'[b] = at[b] /\ pool'[b] = pool[b] /\ left'[b] = left[b]
      BY <1>2 DEF StartAgain, Begin, Types, Calls
    <2>3. starts'[p] = 2 /\ \A q \in Pools : q # p => starts'[q] = starts[q]
      BY <1>2 DEF StartAgain, Types
    <2>4. ASSUME NEW q \in Pools, starts'[q] = 1
          PROVE  /\ q # p /\ starts[q] = 1 /\ (Quiet(q)' => Quiet(q))
                 /\ \A b \in Clients : pool'[b] = q =>
                      pool[b] = q /\ at'[b] = at[b] /\ left'[b] = left[b]
      BY <2>2, <2>3, <2>4 DEF Quiet, Pools
    <2>5. \A q \in Pools, b \in Clients : starts'[q] = 1 /\ pool'[b] = q =>
            /\ at'[b] = "start" =>
                 /\ running'[q] = EmptyBag /\ grown'[q] = 0
                 /\ Cardinality(threads'[q]) + left'[b] = InitSize(asked'[q])
            /\ at'[b] = "grow" =>
                 /\ running'[q] = SetToBag(threads'[q])
                 /\ Cardinality(threads'[q]) + 1 = InitSize(asked'[q]) + grown'[q]
      BY <2>1, <2>4 DEF Exact
    <2>6. \A q \in Pools : starts'[q] = 1 /\ Quiet(q)' =>
            /\ running'[q] = SetToBag(threads'[q])
            /\ Cardinality(threads'[q]) = InitSize(asked'[q]) + grown'[q]
      BY <2>1, <2>4 DEF Exact
    <2> QED
      BY <2>1, <2>5, <2>6 DEF Exact, InitSize
  <1>3. ASSUME NEW c \in Clients, NEW p \in Pools, Grow(c, p)
        PROVE  Exact'
    <2>1. UNCHANGED <<generateId, asked, threads, running, starts>>
      BY <1>3 DEF Grow, Begin
    <2>2. /\ pool'[c] = p /\ at'[c] = "grow" /\ pool[c] = 0
          /\ \A b \in Clients : b # c => at'[b] = at[b] /\ pool'[b] = pool[b] /\ left'[b] = left[b]
      BY <1>3 DEF Grow, Begin, Types, Calls
    <2>3. /\ grown'[p] = grown[p] + 1 /\ \A q \in Pools : q # p => grown'[q] = grown[q]
          /\ grown[p] \in Nat
      BY <1>3 DEF Grow, Types
    <2>4. Quiet(p)
      <3> SUFFICES ASSUME NEW b \in Clients PROVE pool[b] # p
        BY DEF Quiet
      <3>1. m_task_mtx[p] = Nobody /\ Nobody # b /\ p # 0 /\ ~(pool[b] = p /\ at[b] = "start")
        BY <1>3 DEF Grow, Free, Pools
      <3> QED
        BY <3>1 DEF Calls, Types
    <2>5. ASSUME NEW q \in Pools, q # p
          PROVE  /\ Quiet(q)' => Quiet(q)
                 /\ \A b \in Clients : pool'[b] = q =>
                      pool[b] = q /\ at'[b] = at[b] /\ left'[b] = left[b]
      BY <2>2, <2>5 DEF Quiet, Pools
    <2>6. \A q \in Pools, b \in Clients : starts'[q] = 1 /\ pool'[b] = q =>
            /\ at'[b] = "start" =>
                 /\ running'[q] = EmptyBag /\ grown'[q] = 0
                 /\ Cardinality(threads'[q]) + left'[b] = InitSize(asked'[q])
            /\ at'[b] = "grow" =>
                 /\ running'[q] = SetToBag(threads'[q])
                 /\ Cardinality(threads'[q]) + 1 = InitSize(asked'[q]) + grown'[q]
      <3>1. ASSUME NEW b \in Clients, starts'[p] = 1, pool'[b] = p
            PROVE  /\ at'[b] = "grow" /\ running'[p] = SetToBag(threads'[p])
                   /\ Cardinality(threads'[p]) + 1 = InitSize(asked'[p]) + grown'[p]
        <4>1. b = c
          BY <2>2, <2>4, <3>1 DEF Quiet
        <4>2. running[p] = SetToBag(threads[p]) /\ Cardinality(threads[p]) = InitSize(asked[p]) + grown[p]
          BY <2>1, <2>4, <3>1 DEF Exact
        <4>3. InitSize(asked[p]) \in Nat
          BY DEF InitSize, Types
        <4> QED
          BY <2>1, <2>2, <2>3, <4>1, <4>2, <4>3
      <3>2. ASSUME NEW q \in Pools, q # p, NEW b \in Clients, starts'[q] = 1, pool'[b] = q
            PROVE  /\ at'[b] = "start" =>
                        /\ running'[q] = EmptyBag /\ grown'[q] = 0
                        /\ Cardinality(threads'[q]) + left'[b] = InitSize(asked'[q])
                   /\ at'[b] = "grow" =>
                        /\ running'[q] = SetToBag(threads'[q])
                        /\ Cardinality(threads'[q]) + 1 = InitSize(asked'[q]) + grown'[q]
        BY <2>1, <2>3, <2>5, <3>2 DEF Exact
      <3> QED
        BY <3>1, <3>2
    <2>7. \A q \in Pools : starts'[q] = 1 /\ Quiet(q)' =>
            /\ running'[q] = SetToBag(threads'[q])
            /\ Cardinality(threads'[q]) = InitSize(asked'[q]) + grown'[q]
      <3>1. \A q \in Pools : Quiet(q)' => q # p
        BY <2>2 DEF Quiet
      <3> QED
        BY <2>1, <2>3, <2>5, <3>1 DEF Exact
    <2> QED
      BY <2>1, <2>6, <2>7 DEF Exact, InitSize
  <1>4. ASSUME NEW c \in Clients, LoadId(c)
        PROVE  Exact'
    <2>1. UNCHANGED <<generateId, asked, threads, running, starts, grown, at, pool, left>>
      BY <1>4 DEF LoadId, poolVars
    <2> QED
      BY <2>1 DEF Exact, Quiet, InitSize
  <1>5. ASSUME NEW c \in Clients, StoreId(c)
        PROVE  Exact'
    <2> DEFINE p == pool[c]
               id == generateId + 1
    <2>1. /\ loaded[c] # -1 /\ left[c] \in Nat \ {0} /\ p \in Pools /\ p # 0
          /\ generateId \in Nat /\ id \in Nat
      BY <1>5 DEF StoreId, Calls, Types, Pools
    <2>2. lost' = (lost \/ generateId # loaded[c])
      BY <1>5 DEF StoreId
    <2>3. loaded[c] = generateId
      BY <2>2
    <2>4. generateId' = id /\ UNCHANGED <<asked, starts, grown>>
      BY <1>5, <2>3 DEF StoreId, poolVars, NextId
    <2>5. threads'[p] = threads[p] \cup {id} /\ \A q \in Pools : q # p => threads'[q] = threads[q]
      BY <1>5, <2>1, <2>3 DEF StoreId, Types, NextId
    <2>6. /\ left'[c] = left[c] - 1
          /\ \A b \in Clients : b # c => left'[b] = left[b] /\ at'[b] = at[b] /\ pool'[b] = pool[b]
      BY <1>5 DEF StoreId, End, Types
    <2>7. \A q \in Pools : q # p => running'[q] = running[q]
      BY <1>5 DEF StoreId, Types
    <2>8. \/ /\ at[c] = "grow" /\ at'[c] = "idle" /\ pool'[c] = 0
             /\ running'[p] = running[p] (+) SetToBag({id})
          \/ at[c] = "start" /\ at'[c] = "start" /\ pool'[c] = p /\ running' = running
      BY <1>5, <2>1, <2>3 DEF StoreId, End, Types, NextId
    <2>9. \A q \in Pools : id \notin threads[q]
      BY <2>1 DEF Exact
    <2>10. \A q \in Pools : threads'[q] \subseteq 1 .. generateId'
      <3>1. \A q \in Pools : threads[q] \subseteq 1 .. id
        BY <2>1 DEF Exact
      <3> QED
        BY <2>1, <2>4, <2>5, <3>1
    <2>11. \A q, r \in Pools : q # r => threads'[q] \cap threads'[r] = {}
      BY <2>5, <2>9 DEF Exact
    <2>12. /\ Cardinality(threads'[p]) = Cardinality(threads[p]) + 1
           /\ Cardinality(threads[p]) \in Nat
      <3>1. IsFiniteSet(1 .. generateId)
        BY <2>1, FS_Interval
      <3>2. threads[p] \in SUBSET (1 .. generateId)
        BY <2>1 DEF Exact
      <3>3. IsFiniteSet(threads[p])
        BY <3>1, <3>2, FS_Subset
      <3> QED
        BY <2>1, <2>5, <2>9, <3>3, FS_AddElement, FS_CardinalityType
    <2>13. \A b \in Clients : b # c => pool[b] # p /\ pool'[b] # p
      BY <2>1, <2>6 DEF Calls
    <2>14. InitSize(asked[p]) \in Nat /\ grown[p] \in Nat
      BY <2>1 DEF InitSize, Types
    <2>15. ASSUME NEW q \in Pools, q # p
           PROVE  /\ Quiet(q)' => Quiet(q)
                  /\ \A b \in Clients : pool'[b] = q =>
                       pool[b] = q /\ at'[b] = at[b] /\ left'[b] = left[b]
      BY <2>6, <2>8, <2>15 DEF Quiet, Pools
    <2>16. ASSUME starts'[p] = 1, at[c] = "start"
           PROVE  /\ at'[c] = "start" /\ running'[p] = EmptyBag /\ grown'[p] = 0
                  /\ Cardinality(threads'[p]) + left'[c] = InitSize(asked'[p])
                  /\ ~Quiet(p)'
      <3>1. /\ running[p] = EmptyBag /\ grown[p] = 0
            /\ Cardinality(threads[p]) + left[c] = InitSize(asked[p])
        BY <2>1, <2>4, <2>16 DEF Exact
      <3>2. at'[c] = "start" /\ pool'[c] = p /\ running' = running
        BY <2>8, <2>16
      <3>3. Cardinality(threads'[p]) + left'[c] = InitSize(asked'[p])
        BY <2>1, <2>4, <2>6, <2>12, <2>14, <3>1
      <3>4. ASSUME NEW d, d = p PROVE ~Quiet(d)'
        BY <3>2, <3>4 DEF Quiet
      <3> QED
        BY <2>4, <3>1, <3>2, <3>3, <3>4
    <2>17. ASSUME starts'[p] = 1, at[c] = "grow"
           PROVE  /\ running'[p] = SetToBag(threads'[p])
                  /\ Cardinality(threads'[p]) = InitSize(asked'[p]) + grown'[p]
      <3>1. /\ running[p] = SetToBag(threads[p])
            /\ Cardinality(threads[p]) + 1 = InitSize(asked[p]) + grown[p]
        BY <2>1, <2>4, <2>17 DEF Exact
      <3>2. running'[p] = running[p] (+) SetToBag({id})
        BY <2>8, <2>17
      <3>3. threads[p] \in SUBSET Nat
        BY <2>1 DEF Types
      <3>4. SetToBag(threads[p]) (+) SetToBag({id}) = SetToBag(threads[p] \cup {id})
        BY <2>1, <2>9, <3>3, BagFacts
      <3> QED
        BY <2>4, <2>5, <2>12, <3>1, <3>2, <3>4
    <2>18. \A q \in Pools, b \in Clients : starts'[q] = 1 /\ pool'[b] = q =>
             /\ at'[b] = "start" =>
                  /\ running'[q] = EmptyBag /\ grown'[q] = 0
                  /\ Cardinality(threads'[q]) + left'[b] = InitSize(asked'[q])
             /\ at'[b] = "grow" =>
                  /\ running'[q] = SetToBag(threads'[q])
                  /\ Cardinality(threads'[q]) + 1 = InitSize(asked'[q]) + grown'[q]
      <3>1. ASSUME NEW q \in Pools, q # p, NEW b \in Clients, starts'[q] = 1, pool'[b] = q
            PROVE  /\ at'[b] = "start" =>
                        /\ running'[q] = EmptyBag /\ grown'[q] = 0
                        /\ Cardinality(threads'[q]) + left'[b] = InitSize(asked'[q])
                   /\ at'[b] = "grow" =>
                        /\ running'[q] = SetToBag(threads'[q])
                        /\ Cardinality(threads'[q]) + 1 = InitSize(asked'[q]) + grown'[q]
        BY <2>4, <2>5, <2>7, <2>15, <3>1 DEF Exact
      <3>2. ASSUME NEW b \in Clients, starts'[p] = 1, pool'[b] = p
            PROVE  b = c /\ at[c] = "start" /\ at'[c] = "start"
        BY <2>1, <2>8, <2>13, <3>2
      <3> QED
        BY <2>16, <3>1, <3>2
    <2>19. \A q \in Pools : starts'[q] = 1 /\ Quiet(q)' =>
             /\ running'[q] = SetToBag(threads'[q])
             /\ Cardinality(threads'[q]) = InitSize(asked'[q]) + grown'[q]
      <3>1. ASSUME NEW q \in Pools, q # p, starts'[q] = 1, Quiet(q)'
            PROVE  /\ running'[q] = SetToBag(threads'[q])
                   /\ Cardinality(threads'[q]) = InitSize(asked'[q]) + grown'[q]
        BY <2>4, <2>5, <2>7, <2>15, <3>1 DEF Exact
      <3>2. ASSUME NEW q \in Pools, q = p, Quiet(q)' PROVE at[c] = "grow"
        BY <2>8, <3>2 DEF Quiet
      <3> QED
        BY <2>17, <3>1, <3>2
    <2> QED
      BY <2>10, <2>11, <2>18, <2>19 DEF Exact, InitSize
  <1>6. ASSUME NEW c \in Clients, Started(c)
        PROVE  Exact'
    <2> DEFINE p == pool[c]
    <2>1. /\ at[c] = "start" /\ left[c] = 0 /\ p \in Pools /\ p # 0
          /\ UNCHANGED <<generateId, asked, threads, starts, grown, left>>
      BY <1>6 DEF Started, poolVars, Calls, Types, Pools
    <2>2. /\ at'[c] = "idle" /\ pool'[c] = 0
          /\ \A b \in Clients : b # c => at'[b] = at[b] /\ pool'[b] = pool[b]
      BY <1>6 DEF Started, End, Types
    <2>3. /\ running'[p] = running[p] (+) SetToBag(threads[p])
          /\ \A q \in Pools : q # p => running'[q] = running[q]
      BY <1>6, <2>1 DEF Started, Types
    <2>4. \A b \in Clients : b # c => pool[b] # p
      BY <2>1 DEF Calls
    <2>5. ASSUME NEW q \in Pools, q # p
          PROVE  /\ Quiet(q)' => Quiet(q)
                 /\ \A b \in Clients : pool'[b] = q => pool[b] = q /\ at'[b] = at[b]
      BY <2>2, <2>5 DEF Quiet, Pools
    <2>6. ASSUME starts'[p] = 1
          PROVE  /\ running'[p] = SetToBag(threads'[p])
                 /\ Cardinality(threads'[p]) = InitSize(asked'[p]) + grown'[p]
      <3>1. /\ running[p] = EmptyBag /\ grown[p] = 0
            /\ Cardinality(threads[p]) + 0 = InitSize(asked[p])
        BY <2>1, <2>6 DEF Exact
      <3>2. EmptyBag (+) SetToBag(threads[p]) = SetToBag(threads[p])
        BY <2>1, BagFacts DEF Types
      <3>3. InitSize(asked[p]) \in Nat /\ Cardinality(threads[p]) \in Nat
        <4>1. IsFiniteSet(1 .. generateId)
          BY FS_Interval DEF Types
        <4>2. threads[p] \in SUBSET (1 .. generateId)
          BY <2>1 DEF Exact
        <4>3. IsFiniteSet(threads[p])
          BY <4>1, <4>2, FS_Subset
        <4> QED
          BY <2>1, <4>3, FS_CardinalityType DEF InitSize, Types
      <3> QED
        BY <2>1, <2>3, <3>1, <3>2, <3>3
    <2>7. \A q \in Pools, b \in Clients : starts'[q] = 1 /\ pool'[b] = q =>
            /\ at'[b] = "start" =>
                 /\ running'[q] = EmptyBag /\ grown'[q] = 0
                 /\ Cardinality(threads'[q]) + left'[b] = InitSize(asked'[q])
            /\ at'[b] = "grow" =>
                 /\ running'[q] = SetToBag(threads'[q])
                 /\ Cardinality(threads'[q]) + 1 = InitSize(asked'[q]) + grown'[q]
      <3>1. \A b \in Clients : pool'[b] # p
        BY <2>1, <2>2, <2>4
      <3> QED
        BY <2>1, <2>3, <2>5, <3>1 DEF Exact
    <2>8. \A q \in Pools : starts'[q] = 1 /\ Quiet(q)' =>
            /\ running'[q] = SetToBag(threads'[q])
            /\ Cardinality(threads'[q]) = InitSize(asked'[q]) + grown'[q]
      <3>1. ASSUME NEW q \in Pools, q # p, starts'[q] = 1, Quiet(q)'
            PROVE  /\ running'[q] = SetToBag(threads'[q])
                   /\ Cardinality(threads'[q]) = InitSize(asked'[q]) + grown'[q]
        BY <2>1, <2>3, <2>5, <3>1 DEF Exact
      <3> QED
        BY <2>6, <3>1
    <2> QED
      BY <2>1, <2>7, <2>8 DEF Exact, InitSize
  <1> QED
    BY <1>1, <1>2, <1>3, <1>4, <1>5, <1>6 DEF Next, Step

LEMMA ManagerInvariant == Spec => []Inv
PROOF
  <1>1. ASSUME Inv, [Next]_vars PROVE Inv'
    <2>1. CASE UNCHANGED vars
      BY <1>1, <2>1 DEF Inv, Types, Calls, Inside, Exact, Quiet, InitSize, vars
    <2>2. CASE Next
      <3>1. Types' /\ Calls' /\ Inside'
        BY <1>1, <2>2, StepTypes, StepCalls, StepInside DEF Inv
      <3>2. ASSUME ~lost' PROVE ~lost
        <4>1. lost' = lost \/ \E c \in Clients : lost' = (lost \/ generateId # loaded[c])
          BY <2>2 DEF Next, Step, GetPool, StartAgain, Grow, Begin, LoadId, StoreId, Started
        <4> QED
          BY <3>2, <4>1
      <3> QED
        BY <1>1, <2>2, <3>1, <3>2, StepExact DEF Inv
    <2> QED
      BY <1>1, <2>1, <2>2
  <1> QED
    BY <1>1, InitInv, PTL DEF Spec
-----------------------------------------------------------------------------
(* m_get_pool makes all its increments of m_generateId_ under m_mtx_, so     *)
(* only a start() or a growth outside of it can lose one.                    *)
THEOREM LostOnlyOutsideManager == Spec => []LostOnlyOutside
PROOF
  <1>1. Inv => LostOnlyOutside
    BY DEF Inv, Inside, LostOnlyOutside
  <1> QED
    BY <1>1, ManagerInvariant, PTL

(* As long as none was lost, no two threads of any pools have the same id,   *)
(* and a pool that was started once runs one thread for each id in its map,  *)
(* as many as asked for.                                                     *)
THEOREM IdsUnique == Spec => []OneThreadPerId
PROOF
  <1>1. ASSUME Inv, ~lost, NEW p \in Pools, Quiet(p), starts[p] = 1
        PROVE  /\ running[p] = SetToBag(threads[p])
               /\ asked[p] < 256 => Cardinality(threads[p]) = asked[p] + grown[p]
    <2>1. asked[p] \in Nat
      BY <1>1 DEF Inv, Types
    <2>2. asked[p] < 256 => InitSize(asked[p]) = asked[p]
      BY <2>1 DEF InitSize
    <2> QED
      BY <1>1, <2>2 DEF Inv, Exact
  <1>2. Inv => OneThreadPerId
    BY <1>1 DEF OneThreadPerId, Inv, Exact
  <1> QED
    BY <1>2, ManagerInvariant, PTL
=============================================================================
