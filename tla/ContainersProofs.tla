-------------------------- MODULE ContainersProofs --------------------------
(***************************************************************************)
(* The two data structures that no component uses yet: RingQueue implements *)
(* BoundedQueue for every size and all tasks, and PageMap3 is a map from    *)
(* keys to values, for every size of its nodes.  The two share nothing; the *)
(* lemmas about one do not cite the other.                                  *)
(***************************************************************************)
EXTENDS RingQueue, PageMap3, SequenceTheorems, TLAPS

Slots == 0 .. Size - 1

(* What both threads rely on.  A push under way has room (the other thread  *)
(* can only make more), its place is behind the contents; a pop under way   *)
(* has something to take.                                                    *)
RingInv ==
  /\ buffer \in [Slots -> Values \cup {NoTask}]
  /\ head \in Slots /\ tail \in Slots
  /\ ppc \in {"idle", "write", "store"}
  /\ cpc \in {"idle", "move", "store"}
  /\ moved \in Values \cup {NoTask}
  /\ ppc # "idle" => task \in Values /\ ~Full
  /\ ppc = "store" => buffer[tail] = task
  /\ cpc # "idle" => head # tail

(* The arithmetic modulo Size of the indices. *)
LEMMA ModBelow ==
  ASSUME NEW x \in Slots
  PROVE  x % Size = x
  BY RingAssumption DEF Slots

LEMMA ModAbove ==
  ASSUME NEW x \in Size .. 2 * Size - 1
  PROVE  x % Size = x - Size
  BY RingAssumption

LEMMA ModNegative ==
  ASSUME NEW x \in -Size .. -1
  PROVE  x % Size = x + Size
  BY RingAssumption

LEMMA AfterSlot ==
  ASSUME NEW i \in Slots
  PROVE  After(i) = IF i = Size - 1 THEN 0 ELSE i + 1
PROOF
  <1>1. CASE i = Size - 1
    BY <1>1, ModAbove, RingAssumption DEF After, Slots
  <1>2. CASE i # Size - 1
    BY <1>2, ModBelow, RingAssumption DEF After, Slots
  <1> QED
    BY <1>1, <1>2

LEMMA Distance ==
  ASSUME NEW h \in Slots, NEW t \in Slots
  PROVE  (t - h) % Size = IF h <= t THEN t - h ELSE t - h + Size
PROOF
  <1>1. CASE h <= t
    BY <1>1, ModBelow, RingAssumption DEF Slots
  <1>2. CASE ~(h <= t)
    BY <1>2, ModNegative, RingAssumption DEF Slots
  <1> QED
    BY <1>1, <1>2

LEMMA HeldCount ==
  ASSUME head \in Slots, tail \in Slots
  PROVE  Held = IF head <= tail THEN tail - head ELSE tail - head + Size
  BY Distance DEF Held

(* The place of the i-th task of the contents. *)
LEMMA PlaceOf ==
  ASSUME NEW h \in Slots, NEW i \in 1 .. Size
  PROVE  (h + i - 1) % Size = IF h + i - 1 < Size THEN h + i - 1 ELSE h + i - 1 - Size
PROOF
  <1>1. CASE h + i - 1 < Size
    BY <1>1, ModBelow, RingAssumption DEF Slots
  <1>2. CASE ~(h + i - 1 < Size)
    BY <1>2, ModAbove, RingAssumption DEF Slots
  <1> QED
    BY <1>1, <1>2

LEMMA RingInvInit == RingInit => RingInv
  BY RingAssumption DEF RingInit, RingInv, Slots

(* One step of either thread keeps the invariant. *)
LEMMA RingInvStep ==
  ASSUME RingInv, [RingNext]_ringVars
  PROVE  RingInv'
PROOF
  <1> USE DEF RingInv
  <1>1. CASE PushRefused \/ PopNone \/ UNCHANGED ringVars
    BY <1>1 DEF PushRefused, PopNone, ringVars, Full, After
  <1>2. ASSUME NEW v \in Values, PushBegin(v) PROVE RingInv'
    BY <1>2 DEF PushBegin, Full, After
  <1>3. CASE PushWrite
    BY <1>3 DEF PushWrite, Full, After
  <1>4. CASE PushStore
    BY <1>4, AfterSlot, RingAssumption DEF PushStore, Full, Slots
  <1>5. CASE PopBegin
    BY <1>5 DEF PopBegin, Full, After
  <1>6. CASE PopMove
    BY <1>6 DEF PopMove, Full, After
  <1>7. CASE PopStore
    BY <1>7, AfterSlot, RingAssumption DEF PopStore, Full, Slots
  <1> QED
    BY <1>1, <1>2, <1>3, <1>4, <1>5, <1>6, <1>7 DEF RingNext

LEMMA ContentsSeq ==
  ASSUME RingInv
  PROVE  /\ Contents \in Seq(Values \cup {NoTask})
         /\ Len(Contents) = Held
         /\ Held \in 0 .. Size - 1
PROOF
  <1>1. Held \in 0 .. Size - 1
    BY HeldCount, RingAssumption DEF RingInv, Slots
  <1>2. ASSUME NEW i \in 1 .. Held
        PROVE  (head + i - 1) % Size \in Slots
    BY <1>1, PlaceOf, RingAssumption DEF RingInv, Slots
  <1>3. Contents \in [1 .. Held -> Values \cup {NoTask}]
    BY <1>2 DEF Contents, RingInv
  <1> QED
    BY <1>1, <1>3

(* push() publishes its task behind the others. *)
LEMMA PushPuts ==
  ASSUME RingInv, PushStore
  PROVE  BQ!Put(task)
PROOF
  <1> DEFINE n == Held
  <1>1. n \in 0 .. Size - 1 /\ Contents \in Seq(Values \cup {NoTask}) /\ Len(Contents) = n
    BY ContentsSeq
  <1>2. /\ tail' \in Slots /\ head' = head /\ buffer' = buffer /\ cpc' = cpc
        /\ moved' = moved /\ last' = last
    BY AfterSlot, RingAssumption DEF PushStore, RingInv, Slots
  <1>3. Held' = n + 1 /\ n < Size - 1
    <2>1. Held' = IF head <= tail' THEN tail' - head ELSE tail' - head + Size
      BY <1>2, Distance DEF Held, RingInv
    <2>2. tail' = IF tail = Size - 1 THEN 0 ELSE tail + 1
      BY AfterSlot DEF PushStore, RingInv
    <2>3. tail' # head
      BY DEF PushStore, RingInv, Full
    <2> QED
      BY <2>1, <2>2, <2>3, HeldCount, RingAssumption DEF RingInv, Slots
  <1>4. (head + n) % Size = tail
    <2>1. n + 1 \in 1 .. Size /\ n = IF head <= tail THEN tail - head ELSE tail - head + Size
      BY <1>1, HeldCount, RingAssumption DEF RingInv
    <2>2. (head + (n + 1) - 1) % Size = tail
      BY <2>1, PlaceOf, RingAssumption DEF RingInv, Slots
    <2> QED
      BY <2>1, <2>2 DEF RingInv, Slots
  <1>5. ~(n + 1 = 1 /\ cpc = "store")
    BY <1>1, HeldCount, RingAssumption DEF RingInv, Slots
  <1>6. Contents' = [i \in 1 .. n + 1 |->
           IF i = 1 /\ cpc = "store" THEN moved ELSE buffer[(head + i - 1) % Size]]
    BY <1>2, <1>3 DEF Contents
  <1>7. Contents' = Append(Contents, task)
    <2>1. Contents'[n + 1] = task
      BY <1>1, <1>4, <1>5, <1>6 DEF PushStore, RingInv, Slots
    <2>2. ASSUME NEW i \in 1 .. n
          PROVE  Contents'[i] = Contents[i]
      <3>1. Contents[i] = IF i = 1 /\ cpc = "store" THEN moved ELSE buffer[(head + i - 1) % Size]
        BY DEF Contents
      <3> QED
        BY <1>1, <1>6, <3>1
    <2>3. Contents' \in Seq(Values \cup {NoTask}) /\ Len(Contents') = n + 1
      <3>1. ASSUME NEW i \in 1 .. n + 1 PROVE (head + i - 1) % Size \in Slots
        BY <1>1, PlaceOf, RingAssumption DEF RingInv, Slots
      <3>2. Contents' \in [1 .. n + 1 -> Values \cup {NoTask}]
        BY <1>6, <3>1 DEF RingInv
      <3> QED
        BY <1>1, <3>2
    <2>4. task \in Values \cup {NoTask}
      BY DEF RingInv, PushStore
    <2>5. /\ Append(Contents, task) \in Seq(Values \cup {NoTask})
          /\ Len(Append(Contents, task)) = n + 1
          /\ Append(Contents, task)[n + 1] = task
          /\ \A i \in 1 .. n : Append(Contents, task)[i] = Contents[i]
      BY <1>1, <2>4, AppendProperties
    <2>6. ASSUME NEW i \in 1 .. n + 1
          PROVE  Contents'[i] = Append(Contents, task)[i]
      BY <1>1, <2>1, <2>2, <2>5
    <2> QED
      BY <2>3, <2>5, <2>6, SeqEqual
  <1> QED
    BY <1>1, <1>2, <1>3, <1>7 DEF BQ!Put

(* pop() takes the oldest task. *)
LEMMA PopGets ==
  ASSUME RingInv, PopStore
  PROVE  BQ!Get
PROOF
  <1> DEFINE n == Held
  <1>1. n \in 1 .. Size - 1 /\ Contents \in Seq(Values \cup {NoTask}) /\ Len(Contents) = n
    BY ContentsSeq, HeldCount, RingAssumption DEF PopStore, RingInv, Slots
  <1>2. /\ head' = After(head) /\ tail' = tail /\ buffer' = buffer /\ cpc' = "idle"
        /\ last' = moved /\ cpc = "store"
    BY DEF PopStore
  <1>3. head' = (IF head = Size - 1 THEN 0 ELSE head + 1) /\ head' \in Slots
    BY <1>2, AfterSlot, RingAssumption DEF RingInv, Slots
  <1>4. Held' = n - 1
    <2>1. Held' = IF head' <= tail THEN tail - head' ELSE tail - head' + Size
      BY <1>2, <1>3, Distance DEF Held, RingInv
    <2> QED
      BY <1>2, <1>3, <2>1, HeldCount, RingAssumption DEF RingInv, Slots
  <1>5. ASSUME NEW i \in 1 .. n - 1
        PROVE  (head' + i - 1) % Size = (head + (i + 1) - 1) % Size
    <2>1. i \in 1 .. Size /\ i + 1 \in 1 .. Size
      BY <1>1, RingAssumption
    <2> QED
      BY <1>3, <2>1, PlaceOf, RingAssumption DEF RingInv, Slots
  <1>6. Contents' = [i \in 1 .. n - 1 |-> buffer[(head' + i - 1) % Size]]
    BY <1>2, <1>4 DEF Contents
  <1>7. Contents[1] = moved
    BY <1>1, <1>2 DEF Contents
  <1>8. Contents' = Tail(Contents)
    <2>1. /\ Tail(Contents) \in Seq(Values \cup {NoTask})
          /\ Len(Tail(Contents)) = n - 1
          /\ \A i \in 1 .. n - 1 : Tail(Contents)[i] = Contents[i + 1]
      BY <1>1, HeadTailProperties
    <2>2. ASSUME NEW i \in 1 .. n - 1
          PROVE  Contents[i + 1] = buffer[(head + (i + 1) - 1) % Size]
      BY <1>1 DEF Contents
    <2>3. ASSUME NEW i \in 1 .. n - 1
          PROVE  Contents'[i] = Tail(Contents)[i] /\ Contents'[i] \in Values \cup {NoTask}
      BY <1>1, <1>5, <1>6, <2>1, <2>2
    <2>4. Contents' \in Seq(Values \cup {NoTask}) /\ Len(Contents') = n - 1
      <3>1. Contents' \in [1 .. n - 1 -> Values \cup {NoTask}]
        BY <1>6, <2>3
      <3> QED
        BY <1>1, <3>1
    <2> QED
      BY <2>1, <2>3, <2>4, SeqEqual
  <1>9. Contents # <<>> /\ Head(Contents) = moved
    BY <1>1, <1>7
  <1> QED
    BY <1>2, <1>8, <1>9 DEF BQ!Get

(* Every other step leaves the contents alone: a task is written behind      *)
(* them, and the one being moved out still counts.                           *)
LEMMA OthersStutter ==
  ASSUME RingInv,
         \/ PushRefused \/ PushWrite \/ (\E v \in Values : PushBegin(v))
         \/ PopNone \/ PopBegin \/ PopMove \/ UNCHANGED ringVars
  PROVE  UNCHANGED <<Contents, last>>
PROOF
  <1>1. CASE PushRefused \/ PopNone \/ UNCHANGED ringVars
    BY <1>1 DEF PushRefused, PopNone, ringVars, Contents, Held
  <1>2. CASE \E v \in Values : PushBegin(v)
    BY <1>2 DEF PushBegin, Contents, Held
  <1>3. CASE PopBegin
    BY <1>3 DEF PopBegin, Contents, Held
  <1>4. CASE PushWrite
    <2>1. Held \in 0 .. Size - 1 /\ Held' = Held
      BY <1>4, ContentsSeq DEF PushWrite, Held
    <2>2. ASSUME NEW i \in 1 .. Held
          PROVE  (head + i - 1) % Size \in Slots \ {tail}
      BY <2>1, PlaceOf, HeldCount, RingAssumption DEF RingInv, Slots
    <2>3. ASSUME NEW i \in 1 .. Held
          PROVE  buffer'[(head + i - 1) % Size] = buffer[(head + i - 1) % Size]
      BY <1>4, <2>2, <2>3 DEF PushWrite, RingInv
    <2> QED
      BY <1>4, <2>1, <2>3 DEF PushWrite, Contents
  <1>5. CASE PopMove
    <2>1. Held \in 0 .. Size - 1 /\ Held' = Held
      BY <1>5, ContentsSeq DEF PopMove, Held
    <2>2. (head + 1 - 1) % Size = head
      BY ModBelow, RingAssumption DEF RingInv, Slots
    <2>3. ASSUME NEW i \in 2 .. Held
          PROVE  (head + i - 1) % Size \in Slots \ {head}
      BY <2>1, PlaceOf, RingAssumption DEF RingInv, Slots
    <2>4. ASSUME NEW i \in 1 .. Held
          PROVE  (IF i = 1 THEN moved' ELSE buffer'[(head + i - 1) % Size])
                   = buffer[(head + i - 1) % Size]
      <3>1. CASE i = 1
        BY <1>5, <2>2, <3>1 DEF PopMove
      <3>2. CASE i # 1
        <4>1. i \in 2 .. Held
          BY <3>2, <2>4, <2>1
        <4> QED
          BY <1>5, <3>2, <4>1, <2>3 DEF PopMove, RingInv
      <3> QED
        BY <3>1, <3>2
    <2> QED
      BY <1>5, <2>1, <2>4 DEF PopMove, Contents
  <1> QED
    BY <1>1, <1>2, <1>3, <1>4, <1>5

(* LockFreeRingQueue between one pushing and one popping thread is a         *)
(* bounded first-in first-out queue, for every size but 0 and every          *)
(* interleaving of their accesses.                                           *)
THEOREM RingImplementsQueue == RingSpec => RingIsQueue
PROOF
  <1>1. RingInit => BQ!Init
    <2> SUFFICES ASSUME RingInit PROVE BQ!Init
      OBVIOUS
    <2>1. RingInv
      BY RingInvInit
    <2>2. Held = 0
      <3>1. head \in Slots /\ tail \in Slots /\ head = 0 /\ tail = 0
        BY <2>1 DEF RingInit, RingInv
      <3> QED
        BY <3>1, HeldCount
    <2> QED
      BY <2>1, <2>2, ContentsSeq, RingAssumption DEF RingInit, BQ!Init
  <1>2. RingInv /\ [RingNext]_ringVars => [BQ!Next]_<<Contents, last>>
    BY PushPuts, PopGets, OthersStutter DEF RingNext, BQ!Next, RingInv, PushStore
  <1>3. RingInv /\ [RingNext]_ringVars => RingInv'
    BY RingInvStep
  <1> QED
    BY RingInvInit, <1>1, <1>2, <1>3, PTL DEF RingSpec, RingIsQueue, BQ!Spec

-----------------------------------------------------------------------------

(* Division with remainder, as the shifts and masks of the key use it. *)
LEMMA DivMod ==
  ASSUME NEW k \in Nat, NEW d \in Nat \ {0}
  PROVE  /\ k \div d \in Nat /\ k % d \in 0 .. d - 1
         /\ k = d * (k \div d) + (k % d)
  OBVIOUS

LEMMA DivUnique ==
  ASSUME NEW d \in Nat \ {0}, NEW a \in Nat, NEW b \in Nat,
         NEW r \in 0 .. d - 1, NEW s \in 0 .. d - 1, d * a + r = d * b + s
  PROVE  a = b
PROOF
  <1>1. ASSUME NEW x \in Nat, NEW y \in Nat, x < y PROVE d * x + d <= d * y
    <2>1. PICK z \in Nat : y = x + 1 + z
      <3>1. y - x - 1 \in Nat
        BY <1>1
      <3> QED
        BY <3>1
    <2>2. d * y = d * x + d + d * z /\ d * z \in Nat
      BY <2>1
    <2> QED
      BY <2>2
  <1>2. CASE a < b
    BY <1>1, <1>2
  <1>3. CASE b < a
    BY <1>1, <1>3
  <1> QED
    BY <1>2, <1>3

(* The remainder of a quotient fills the node it indexes, and no more. *)
LEMMA DigitBound ==
  ASSUME NEW m \in Nat \ {0}, NEW d \in Nat \ {0}, NEW b \in 0 .. m - 1, NEW c \in 0 .. d - 1
  PROVE  d * b + c \in 0 .. m * d - 1
PROOF
  <1>1. PICK z \in Nat : m = b + 1 + z
    <2>1. m - b - 1 \in Nat
      OBVIOUS
    <2> QED
      BY <2>1
  <1>2. m * d = d * b + d + d * z /\ d * z \in Nat /\ d * b \in Nat
    BY <1>1
  <1> QED
    BY <1>2

(* Cutting a key in one step or in two gives the same index of the root. *)
LEMMA RootIndex ==
  ASSUME NEW k \in Nat
  PROVE  I1(k) = (k \div LeafLength) \div MidLength
PROOF
  <1> DEFINE q == k \div LeafLength
             a == q \div MidLength
             r == LeafLength * (q % MidLength) + (k % LeafLength)
             d == MidLength * LeafLength
  <1>1. /\ q \in Nat /\ k % LeafLength \in 0 .. LeafLength - 1
        /\ k = LeafLength * q + (k % LeafLength)
    BY DivMod, MapAssumption
  <1>2. /\ a \in Nat /\ q % MidLength \in 0 .. MidLength - 1
        /\ q = MidLength * a + (q % MidLength)
    BY <1>1, DivMod, MapAssumption
  <1>3. r \in 0 .. d - 1 /\ d \in Nat \ {0}
    BY <1>1, <1>2, DigitBound, MapAssumption
  <1>4. k = d * a + r
    <2>1. LeafLength * q = LeafLength * (MidLength * a) + LeafLength * (q % MidLength)
      BY <1>1, <1>2, MapAssumption
    <2>2. LeafLength * (MidLength * a) = d * a
      BY <1>2, MapAssumption
    <2> QED
      BY <1>1, <1>2, <2>1, <2>2, MapAssumption
  <1>5. k \div d \in Nat /\ k % d \in 0 .. d - 1 /\ k = d * (k \div d) + (k % d)
    BY <1>3, DivMod
  <1>6. k \div d = a
    BY <1>2, <1>3, <1>4, <1>5, DivUnique
  <1> QED
    BY <1>6 DEF I1

Indices ==
  (0 .. RootLength - 1) \X (0 .. MidLength - 1) \X (0 .. LeafLength - 1)
Place(k) == <<I1(k), I2(k), I3(k)>>

(* The three indices of a key are in the range of their nodes. *)
LEMMA PlaceInRange ==
  ASSUME NEW k \in Keys
  PROVE  Place(k) \in Indices
PROOF
  <1> DEFINE d == MidLength * LeafLength
  <1>1. k \in Nat /\ d \in Nat \ {0}
    BY MapAssumption DEF Keys, KeyCount
  <1>2. k \div LeafLength \in Nat
    BY <1>1, DivMod, MapAssumption
  <1>3. I2(k) \in 0 .. MidLength - 1 /\ I3(k) \in 0 .. LeafLength - 1
    BY <1>1, <1>2, DivMod, MapAssumption DEF I2, I3
  <1>4. I1(k) \in Nat /\ d * I1(k) <= k
    <2> HIDE DEF d
    <2>1. k \div d \in Nat /\ k % d \in 0 .. d - 1 /\ k = d * (k \div d) + (k % d)
      BY <1>1, DivMod
    <2>2. d * (k \div d) \in Nat
      BY <1>1, <2>1
    <2>3. I1(k) = k \div d
      BY DEF I1, d
    <2> QED
      BY <1>1, <2>1, <2>2, <2>3
  <1>5. I1(k) < RootLength
    <2> SUFFICES ASSUME I1(k) >= RootLength PROVE FALSE
      BY <1>4, MapAssumption
    <2>1. d * RootLength <= d * I1(k)
      <3>1. PICK z \in Nat : I1(k) = RootLength + z
        <4>1. I1(k) - RootLength \in Nat
          BY <1>4, MapAssumption
        <4> QED
          BY <4>1, <1>4, MapAssumption
      <3>2. d * I1(k) = d * RootLength + d * z /\ d * z \in Nat
        BY <3>1, <1>1, MapAssumption
      <3> QED
        BY <3>2, <1>1, MapAssumption
    <2>2. KeyCount = d * RootLength
      BY MapAssumption DEF KeyCount
    <2>3. k < KeyCount /\ KeyCount \in Nat
      BY MapAssumption DEF Keys, KeyCount
    <2> QED
      BY <1>1, <1>4, <2>1, <2>2, <2>3, MapAssumption
  <1> QED
    BY <1>3, <1>4, <1>5, MapAssumption DEF Place, Indices

(* No two keys share a place. *)
LEMMA PlaceInjective ==
  ASSUME NEW j \in Keys, NEW k \in Keys, Place(j) = Place(k)
  PROVE  j = k
PROOF
  <1>1. j \in Nat /\ k \in Nat
    BY DEF Keys
  <1>2. /\ j \div LeafLength \in Nat /\ j = LeafLength * (j \div LeafLength) + (j % LeafLength)
        /\ k \div LeafLength \in Nat /\ k = LeafLength * (k \div LeafLength) + (k % LeafLength)
    BY <1>1, DivMod, MapAssumption
  <1>3. /\ j \div LeafLength = MidLength * I1(j) + I2(j)
        /\ k \div LeafLength = MidLength * I1(k) + I2(k)
    BY <1>1, <1>2, RootIndex, DivMod, MapAssumption DEF I2
  <1>4. I1(j) = I1(k) /\ I2(j) = I2(k) /\ j % LeafLength = k % LeafLength
    BY DEF Place, I3
  <1> QED
    BY <1>2, <1>3, <1>4
-----------------------------------------------------------------------------
(* A key whose leaf exists has its value there; one whose leaf does not was  *)
(* never set.                                                                *)
MapInv ==
  /\ values = [i \in Indices |-> values[i]]
  /\ stored = [k \in Keys |-> stored[k]]
  /\ \A k \in Keys :
       stored[k] = IF LeafOf(k) \in leafs THEN values[Place(k)] ELSE Null

LEMMA MapInvInit == MapInit => MapInv
  BY PlaceInRange DEF MapInit, MapInv, Indices

(* Making leaves changes no value that get can see. *)
LEMMA MadeKeeps ==
  ASSUME MapInv, NEW ls
  PROVE  /\ Made(ls) = [i \in Indices |-> Made(ls)[i]]
         /\ \A k \in Keys : LeafOf(k) \in leafs \cup ls => Made(ls)[Place(k)] = stored[k]
PROOF
  <1>1. DOMAIN values = Indices
    BY DEF MapInv
  <1>2. ASSUME NEW k \in Keys, LeafOf(k) \in leafs \cup ls
        PROVE  Made(ls)[Place(k)] = stored[k]
    <2>1. Place(k) \in Indices /\ Place(k)[1] = I1(k) /\ Place(k)[2] = I2(k)
      BY PlaceInRange DEF Place
    <2>2. Made(ls)[Place(k)] = IF LeafOf(k) \in Missing(ls) THEN Null ELSE values[Place(k)]
      BY <1>1, <2>1 DEF Made, LeafOf
    <2> QED
      BY <1>2, <2>2 DEF MapInv, Missing
  <1> QED
    BY <1>1, <1>2 DEF Made

LEMMA MapInvStep ==
  ASSUME MapInv, [MapNext]_mapVars
  PROVE  MapInv'
PROOF
  <1>1. ASSUME NEW k \in SetKeys, NEW v \in SetValues, Set(k, v) PROVE MapInv'
    <2> DEFINE M == Made({LeafOf(k)})
    <2>1. k \in Keys
      BY MapAssumption DEF Keys, KeyCount
    <2>2. /\ M = [i \in Indices |-> M[i]]
          /\ \A j \in Keys : LeafOf(j) \in leafs' => M[Place(j)] = stored[j]
      BY <1>1, MadeKeeps DEF Set
    <2>3. values' = [M EXCEPT ![Place(k)] = v]
      BY <1>1 DEF Set, Place
    <2> HIDE DEF M
    <2>4. values' = [i \in Indices |-> values'[i]]
      BY <2>2, <2>3
    <2>5. stored' = [j \in Keys |-> stored'[j]]
      BY <1>1 DEF Set, MapInv
    <2>6. ASSUME NEW j \in Keys
          PROVE  stored'[j] = IF LeafOf(j) \in leafs' THEN values'[Place(j)] ELSE Null
      <3>1. CASE j = k
        <4>1. stored'[k] = v
          BY <1>1, <2>1 DEF Set, MapInv
        <4>2. values'[Place(k)] = v
          BY <2>1, <2>2, <2>3, PlaceInRange
        <4>3. LeafOf(k) \in leafs'
          BY <1>1 DEF Set
        <4> QED
          BY <3>1, <4>1, <4>2, <4>3
      <3>2. CASE j # k
        <4>1. Place(j) # Place(k)
          BY <2>1, <3>2, PlaceInjective
        <4>2. values'[Place(j)] = M[Place(j)]
          BY <2>2, <2>3, <4>1, PlaceInRange
        <4>3. stored'[j] = stored[j]
          BY <1>1, <3>2 DEF Set, MapInv
        <4>4. LeafOf(j) \notin leafs' => stored[j] = Null
          BY <1>1 DEF Set, MapInv
        <4> QED
          BY <2>2, <4>2, <4>3, <4>4
      <3> QED
        BY <3>1, <3>2
    <2> QED
      BY <2>4, <2>5, <2>6 DEF MapInv, LeafOf, Place, I1, I2, I3
  <1>2. ASSUME NEW e \in Ensured, Ensure(e[1], e[2]) PROVE MapInv'
    <2> DEFINE ls == Visited(e[1], e[2])
    <2>1. leafs' = leafs \cup ls /\ values' = Made(ls) /\ stored' = stored
      BY <1>2 DEF Ensure
    <2> HIDE DEF ls
    <2>2. ASSUME NEW j \in Keys
          PROVE  stored'[j] = IF LeafOf(j) \in leafs' THEN values'[Place(j)] ELSE Null
      BY <2>1, MadeKeeps DEF MapInv
    <2> QED
      BY <2>1, <2>2, MadeKeeps DEF MapInv, LeafOf, Place, I1, I2, I3
  <1>3. CASE UNCHANGED mapVars
    BY <1>3 DEF mapVars, MapInv, LeafOf, Place, I1, I2, I3
  <1> QED
    BY <1>1, <1>2, <1>3 DEF MapNext

(* get returns what was set last for the key and NULL for all others, for    *)
(* every size of the three kinds of nodes: the three indices tell all keys   *)
(* apart, and neither set nor Ensure loses a value when it makes nodes.      *)
THEOREM MapAgrees == MapSpec => []Agrees
PROOF
  <1>1. MapInv => Agrees
    BY DEF MapInv, Agrees, Get, Place
  <1>2. MapInv /\ [MapNext]_mapVars => MapInv'
    BY MapInvStep
  <1> QED
    BY MapInvInit, <1>1, <1>2, PTL DEF MapSpec
=============================================================================
