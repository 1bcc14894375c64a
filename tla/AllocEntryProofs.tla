-------------------------- MODULE AllocEntryProofs --------------------------
(***************************************************************************)
(* What is proved of the size classes of the source, for a request of any   *)
(* size.                                                                    *)
(***************************************************************************)
EXTENDS AllocEntry, TLAPS

(* The lists before each range: the recursive function has these values. *)
LEMMA ListsBeforeValues ==
  ASSUME RealTable
  PROVE  /\ ListsBefore[1] = 0 /\ ListsBefore[2] = 16 /\ ListsBefore[3] = 72
         /\ ListsBefore[4] = 128 /\ ListsBefore[5] = 184
PROOF
  <1> DEFINE step(f) == [i \in DOMAIN Ranges |-> IF i = 1 THEN 0 ELSE f[i - 1] + group_array[i - 1]]
             table == [i \in 1 .. 5 |-> IF i = 1 THEN 0 ELSE 16 + 56 * (i - 2)]
  <1>1. DOMAIN Ranges = 1 .. 5
    BY DEF RealTable
  <1>2. group_array[1] = 16 /\ group_array[2] = 56 /\ group_array[3] = 56 /\ group_array[4] = 56
    BY DEF RealTable
  <1>3. table = step(table)
    <2>1. \A i \in 1 .. 5 : table[i] = step(table)[i]
      BY <1>1, <1>2
    <2> QED
      BY <1>1, <2>1
  <1>4. ListsBefore = step(ListsBefore)
    BY <1>3, Zenon DEF ListsBefore
  <1> HIDE DEF table
  <1>5. \A i \in 1 .. 5 : ListsBefore[i] = IF i = 1 THEN 0 ELSE ListsBefore[i - 1] + group_array[i - 1]
    BY <1>1, <1>4
  <1> QED
    BY <1>2, <1>5

(* The range of a size, and with it RoundUp and Index, written out. *)
LEMMA SmallSize ==
  ASSUME RealTable, NEW s \in Nat, 1 <= s, s <= 262144
  PROVE  /\ s <= 128 => /\ RoundUp(s) = ((s + 7) \div 8) * 8
                        /\ Index(s) = (s + 7) \div 8 - 1
         /\ 128 < s /\ s <= 1024 => /\ RoundUp(s) = ((s + 15) \div 16) * 16
                                    /\ Index(s) = (s - 128 + 15) \div 16 - 1 + 16
         /\ 1024 < s /\ s <= 8192 => /\ RoundUp(s) = ((s + 127) \div 128) * 128
                                     /\ Index(s) = (s - 1024 + 127) \div 128 - 1 + 72
         /\ 8192 < s /\ s <= 65536 => /\ RoundUp(s) = ((s + 1023) \div 1024) * 1024
                                      /\ Index(s) = (s - 8192 + 1023) \div 1024 - 1 + 128
         /\ 65536 < s => /\ RoundUp(s) = ((s + 8191) \div 8192) * 8192
                         /\ Index(s) = (s - 65536 + 8191) \div 8192 - 1 + 184
PROOF
  <1> DEFINE first(i) == s <= Ranges[i].limit /\ \A j \in 1 .. i - 1 : Ranges[j].limit < s
  <1>1. /\ DOMAIN Ranges = 1 .. 5
        /\ Ranges[1].limit = 128 /\ Ranges[2].limit = 1024 /\ Ranges[3].limit = 8192
        /\ Ranges[4].limit = 65536 /\ Ranges[5].limit = 262144
        /\ Ranges[1].align = 8 /\ Ranges[2].align = 16 /\ Ranges[3].align = 128
        /\ Ranges[4].align = 1024 /\ Ranges[5].align = 8192
        /\ MaxAllocBytes = 262144
    BY DEF RealTable
  <1>2. DOMAIN Ranges = 1 .. 5 /\ \A i \in 1 .. 5 : Ranges[i].limit \in Nat
    BY <1>1
  <1>3. ASSUME NEW i \in 1 .. 5, first(i) PROVE RangeOf(s) = i
    <2>1. RangeOf(s) = CHOOSE k \in 1 .. 5 : first(k)
      BY <1>2 DEF RangeOf
    <2>2. ASSUME NEW k \in 1 .. 5, first(k), k < i PROVE FALSE
      <3>1. k \in 1 .. i - 1
        BY <2>2
      <3>2. Ranges[k].limit < s /\ s <= Ranges[k].limit
        BY <1>3, <2>2, <3>1
      <3> QED
        BY <1>2, <3>2
    <2>3. ASSUME NEW k \in 1 .. 5, first(k), i < k PROVE FALSE
      <3>1. i \in 1 .. k - 1
        BY <2>3
      <3>2. Ranges[i].limit < s /\ s <= Ranges[i].limit
        BY <1>3, <2>3, <3>1
      <3> QED
        BY <1>2, <3>2
    <2> HIDE DEF first
    <2>4. \A k \in 1 .. 5 : first(k) => k = i
      BY <2>2, <2>3
    <2> QED
      BY <1>3, <2>1, <2>4
  <1>4. /\ s <= 128 => first(1)
        /\ 128 < s /\ s <= 1024 => first(2)
        /\ 1024 < s /\ s <= 8192 => first(3)
        /\ 8192 < s /\ s <= 65536 => first(4)
        /\ 65536 < s => first(5)
    BY <1>1
  <1> HIDE DEF first
  <1>5. /\ s <= 128 => RangeOf(s) = 1
        /\ 128 < s /\ s <= 1024 => RangeOf(s) = 2
        /\ 1024 < s /\ s <= 8192 => RangeOf(s) = 3
        /\ 8192 < s /\ s <= 65536 => RangeOf(s) = 4
        /\ 65536 < s => RangeOf(s) = 5
    BY <1>3, <1>4
  <1>6. RoundUp(s) = RoundUpTo(s, Ranges[RangeOf(s)].align)
    BY <1>1 DEF RoundUp
  <1>7. /\ RangeOf(s) = 1 => Index(s) = IndexIn(s - 0, 8) + 0
        /\ RangeOf(s) = 2 => Index(s) = IndexIn(s - 128, 16) + 16
        /\ RangeOf(s) = 3 => Index(s) = IndexIn(s - 1024, 128) + 72
        /\ RangeOf(s) = 4 => Index(s) = IndexIn(s - 8192, 1024) + 128
        /\ RangeOf(s) = 5 => Index(s) = IndexIn(s - 65536, 8192) + 184
    BY <1>1, ListsBeforeValues DEF Index
  <1> QED
    BY <1>1, <1>5, <1>6, <1>7 DEF RoundUpTo, IndexIn

(* One range of the table: rounded up to a multiple k of the alignment, the  *)
(* size stays in its range and has the list that k gives it.                 *)
LEMMA SizeTable ==
  ASSUME RealTable, NEW s \in Nat, 1 <= s, s <= 262144
  PROVE  /\ Index(s) \in Nat /\ Index(s) <= 207
         /\ RoundUp(s) \in Nat /\ RoundUp(s) = TableSize(Index(s))
         /\ s <= RoundUp(s) /\ RoundUp(s) <= 262144
         /\ Index(s) > 0 => s > TableSize(Index(s) - 1)
         /\ Index(RoundUp(s)) = Index(s)
         /\ RoundUp(s) > 131072 <=> s > 131072
         /\ RoundUp(s) > 131072 => RoundUp(s) >= 139264
         /\ \E n \in Nat : RoundUp(s) = 8 * n
         /\ RoundUp(s) > 65536 => \E n \in Nat : RoundUp(s) = 8192 * n
PROOF
  <1> DEFINE b == RoundUp(s)
             i == Index(s)
  <1>1. CASE s <= 128
    <2> DEFINE k == (s + 7) \div 8
    <2>1. k \in Nat /\ 8 * k >= s /\ 8 * k < s + 8 /\ b = 8 * k
      BY <1>1, SmallSize
    <2>2. 1 <= b /\ b <= 128 /\ 0 < k /\ k <= 16
      BY <1>1, <2>1
    <2>3. i = k - 1
      <3>1. i = (s + 7) \div 8 - 1 + 0
        BY <1>1, SmallSize
      <3> QED
        BY <1>1, <3>1
    <2>4. Index(b) = (b + 7) \div 8 - 1 + 0
      BY <2>1, <2>2, SmallSize
    <2>5. Index(b) = k - 1
      BY <2>1, <2>2, <2>4
    <2> HIDE DEF k, b, i
    <2>6. /\ s <= b /\ b <= 262144 /\ b \in Nat /\ i <= 207 /\ i \in Nat
          /\ b = TableSize(i) /\ (i > 0 => s > TableSize(i - 1))
      BY <1>1, <2>1, <2>2, <2>3 DEF TableSize
    <2>7. \E n \in Nat : b = 8 * n
      <3>1. b = 8 * (1 * k) /\ 1 * k \in Nat
        BY <2>1
      <3> QED
        BY <3>1
    <2>8. (b > 131072 <=> s > 131072) /\ (b > 131072 => b >= 139264)
      BY <1>1, <2>1, <2>2
    <2>9. b > 65536 => \E n \in Nat : b = 8192 * n
      BY <2>1, <2>2
    <2> QED
      BY <2>1, <2>3, <2>5, <2>6, <2>7, <2>8, <2>9 DEF b, i
  <1>2. CASE 128 < s /\ s <= 1024
    <2> DEFINE k == (s + 15) \div 16
    <2>1. k \in Nat /\ 16 * k >= s /\ 16 * k < s + 16 /\ b = 16 * k
      BY <1>2, SmallSize
    <2>2. 128 < b /\ b <= 1024 /\ 8 < k /\ k <= 64
      BY <1>2, <2>1
    <2>3. i = k + 7
      <3>1. i = (s - 128 + 15) \div 16 - 1 + 16
        BY <1>2, SmallSize
      <3> QED
        BY <1>2, <3>1
    <2>4. Index(b) = (b - 128 + 15) \div 16 - 1 + 16
      BY <2>1, <2>2, SmallSize
    <2>5. Index(b) = k + 7
      BY <2>1, <2>2, <2>4
    <2> HIDE DEF k, b, i
    <2>6. /\ s <= b /\ b <= 262144 /\ b \in Nat /\ i <= 207 /\ i \in Nat
          /\ b = TableSize(i) /\ (i > 0 => s > TableSize(i - 1))
      BY <1>2, <2>1, <2>2, <2>3 DEF TableSize
    <2>7. \E n \in Nat : b = 8 * n
      <3>1. b = 8 * (2 * k) /\ 2 * k \in Nat
        BY <2>1
      <3> QED
        BY <3>1
    <2>8. (b > 131072 <=> s > 131072) /\ (b > 131072 => b >= 139264)
      BY <1>2, <2>1, <2>2
    <2>9. b > 65536 => \E n \in Nat : b = 8192 * n
      BY <2>1, <2>2
    <2> QED
      BY <2>1, <2>3, <2>5, <2>6, <2>7, <2>8, <2>9 DEF b, i
  <1>3. CASE 1024 < s /\ s <= 8192
    <2> DEFINE k == (s + 127) \div 128
    <2>1. k \in Nat /\ 128 * k >= s /\ 128 * k < s + 128 /\ b = 128 * k
      BY <1>3, SmallSize
    <2>2. 1024 < b /\ b <= 8192 /\ 8 < k /\ k <= 64
      BY <1>3, <2>1
    <2>3. i = k + 63
      <3>1. i = (s - 1024 + 127) \div 128 - 1 + 72
        BY <1>3, SmallSize
      <3> QED
        BY <1>3, <3>1
    <2>4. Index(b) = (b - 1024 + 127) \div 128 - 1 + 72
      BY <2>1, <2>2, SmallSize
    <2>5. Index(b) = k + 63
      BY <2>1, <2>2, <2>4
    <2> HIDE DEF k, b, i
    <2>6. /\ s <= b /\ b <= 262144 /\ b \in Nat /\ i <= 207 /\ i \in Nat
          /\ b = TableSize(i) /\ (i > 0 => s > TableSize(i - 1))
      BY <1>3, <2>1, <2>2, <2>3 DEF TableSize
    <2>7. \E n \in Nat : b = 8 * n
      <3>1. b = 8 * (16 * k) /\ 16 * k \in Nat
        BY <2>1
      <3> QED
        BY <3>1
    <2>8. (b > 131072 <=> s > 131072) /\ (b > 131072 => b >= 139264)
      BY <1>3, <2>1, <2>2
    <2>9. b > 65536 => \E n \in Nat : b = 8192 * n
      BY <2>1, <2>2
    <2> QED
      BY <2>1, <2>3, <2>5, <2>6, <2>7, <2>8, <2>9 DEF b, i
  <1>4. CASE 8192 < s /\ s <= 65536
    <2> DEFINE k == (s + 1023) \div 1024
    <2>1. k \in Nat /\ 1024 * k >= s /\ 1024 * k < s + 1024 /\ b = 1024 * k
      BY <1>4, SmallSize
    <2>2. 8192 < b /\ b <= 65536 /\ 8 < k /\ k <= 64
      BY <1>4, <2>1
    <2>3. i = k + 119
      <3>1. i = (s - 8192 + 1023) \div 1024 - 1 + 128
        BY <1>4, SmallSize
      <3> QED
        BY <1>4, <3>1
    <2>4. Index(b) = (b - 8192 + 1023) \div 1024 - 1 + 128
      BY <2>1, <2>2, SmallSize
    <2>5. Index(b) = k + 119
      BY <2>1, <2>2, <2>4
    <2> HIDE DEF k, b, i
    <2>6. /\ s <= b /\ b <= 262144 /\ b \in Nat /\ i <= 207 /\ i \in Nat
          /\ b = TableSize(i) /\ (i > 0 => s > TableSize(i - 1))
      BY <1>4, <2>1, <2>2, <2>3 DEF TableSize
    <2>7. \E n \in Nat : b = 8 * n
      <3>1. b = 8 * (128 * k) /\ 128 * k \in Nat
        BY <2>1
      <3> QED
        BY <3>1
    <2>8. (b > 131072 <=> s > 131072) /\ (b > 131072 => b >= 139264)
      BY <1>4, <2>1, <2>2
    <2>9. b > 65536 => \E n \in Nat : b = 8192 * n
      BY <2>1, <2>2
    <2> QED
      BY <2>1, <2>3, <2>5, <2>6, <2>7, <2>8, <2>9 DEF b, i
  <1>5. CASE 65536 < s
    <2> DEFINE k == (s + 8191) \div 8192
    <2>1. k \in Nat /\ 8192 * k >= s /\ 8192 * k < s + 8192 /\ b = 8192 * k
      BY <1>5, SmallSize
    <2>2. 65536 < b /\ b <= 262144 /\ 8 < k /\ k <= 32
      BY <1>5, <2>1
    <2>3. i = k + 175
      <3>1. i = (s - 65536 + 8191) \div 8192 - 1 + 184
        BY <1>5, SmallSize
      <3> QED
        BY <1>5, <3>1
    <2>4. Index(b) = (b - 65536 + 8191) \div 8192 - 1 + 184
      BY <2>1, <2>2, SmallSize
    <2>5. Index(b) = k + 175
      BY <2>1, <2>2, <2>4
    <2> HIDE DEF k, b, i
    <2>6. /\ s <= b /\ b <= 262144 /\ b \in Nat /\ i <= 207 /\ i \in Nat
          /\ b = TableSize(i) /\ (i > 0 => s > TableSize(i - 1))
      BY <1>5, <2>1, <2>2, <2>3 DEF TableSize
    <2>7. \E n \in Nat : b = 8 * n
      <3>1. b = 8 * (1024 * k) /\ 1024 * k \in Nat
        BY <2>1
      <3> QED
        BY <3>1
    <2>8. (b > 131072 <=> s > 131072) /\ (b > 131072 => b >= 139264)
      BY <1>5, <2>1, <2>2
    <2>9. b > 65536 => \E n \in Nat : b = 8192 * n
      BY <2>1, <2>2
    <2> QED
      BY <2>1, <2>3, <2>5, <2>6, <2>7, <2>8, <2>9 DEF b, i
  <1> QED
    BY <1>1, <1>2, <1>3, <1>4, <1>5

(* What the code's divisions by a variable give. *)
LEMMA Quotient ==
  ASSUME NEW x \in Nat, NEW b \in Nat, b > 0
  PROVE  /\ x \div b \in Nat /\ (x \div b) * b <= x /\ x < (x \div b) * b + b
         /\ \A q \in Nat : q * b <= x /\ x < q * b + b => x \div b = q
PROOF
  <1>1. x \div b \in Nat /\ (x \div b) * b <= x /\ x < (x \div b) * b + b
    OBVIOUS
  <1>2. ASSUME NEW q \in Nat, q * b <= x, x < q * b + b PROVE x \div b = q
    BY <1>2
  <1> QED
    BY <1>1, <1>2

(* The span of a block size: at most LargePages pages up to half of          *)
(* MAX_ALLOC_BYTES and more above, and 2 to 512 whole blocks in it.          *)
LEMMA SpanPages ==
  ASSUME RealTable, NEW b \in Nat, 1 <= b, b <= 262144,
         \E n \in Nat : b = 8 * n,
         b > 65536 => \E n \in Nat : b = 8192 * n
  PROVE  /\ PageThreshHold(b) \in Nat /\ 1 <= PageThreshHold(b) /\ PageThreshHold(b) <= 128
         /\ PageThreshHold(b) <= 64 <=> b <= 131072
         /\ (PageThreshHold(b) * 4096) \div b \in 2 .. 512
         /\ b <= 512 => Carved(PageThreshHold(b), b) * b <= PageThreshHold(b) * 4096
PROOF
  <1> DEFINE q == 262144 \div b
             pt == PageThreshHold(b)
  <1>1. q \in Nat /\ q * b <= 262144 /\ 262144 < q * b + b
    BY Quotient
  <1>2. BlockThreshHold(b) = IF q > 512 THEN 512 ELSE IF q < 2 THEN 2 ELSE q
    BY DEF BlockThreshHold, RealTable
  <1>3. pt = LET n == (BlockThreshHold(b) * b) \div 4096 IN IF n = 0 THEN 1 ELSE n
    BY DEF PageThreshHold, RealTable
  <1>4. Carved(pt, b) = (pt * 4096 + b - 1) \div b
    BY DEF Carved, RealTable
  <1> HIDE DEF q, pt
  <1>5. CASE b <= 512
    <2>1. PICK m \in Nat : b = 8 * m
      OBVIOUS
    <2>2. q >= 512
      BY <1>1, <1>5
    <2>3. BlockThreshHold(b) = 512
      BY <1>1, <1>2, <2>2
    <2>4. pt = m /\ 1 <= m /\ m <= 64
      BY <1>3, <1>5, <2>1, <2>3
    <2>5. pt * 4096 = 512 * b
      BY <2>1, <2>4
    <2>6. (pt * 4096) \div b = 512
      BY <2>5, Quotient
    <2>7. Carved(pt, b) = 512
      <3>1. 512 * b + b - 1 \in Nat /\ 512 * b <= 512 * b + b - 1 /\ 512 * b + b - 1 < 512 * b + b
        OBVIOUS
      <3>2. (512 * b + b - 1) \div b = 512
        BY <3>1, Quotient
      <3> QED
        BY <1>4, <2>5, <3>2
    <2> QED
      BY <1>5, <2>4, <2>5, <2>6, <2>7 DEF pt
  <1>6. CASE 512 < b /\ b <= 131072
    <2>1. 2 <= q /\ q <= 512
      BY <1>1, <1>6
    <2>2. BlockThreshHold(b) = q
      BY <1>1, <1>2, <2>1
    <2> DEFINE x == q * b
    <2>3. x \in Nat /\ x <= 262144 /\ 262144 < x + b
      BY <1>1
    <2> HIDE DEF x
    <2>4. pt = x \div 4096
      <3>1. (BlockThreshHold(b) * b) \div 4096 = x \div 4096
        BY <2>2 DEF x
      <3>2. x \div 4096 # 0
        BY <1>6, <2>3
      <3> QED
        BY <1>3, <3>1, <3>2
    <2>5. pt \in Nat /\ 1 <= pt /\ pt <= 64 /\ pt * 4096 <= x /\ x < pt * 4096 + 4096
      BY <1>6, <2>3, <2>4
    <2>6. 2 * b <= pt * 4096
      <3>1. CASE b <= 65536
        BY <2>3, <2>5, <3>1
      <3>2. CASE b > 65536
        <4>1. PICK m \in Nat : b = 8192 * m
          BY <3>2
        <4>2. x = 4096 * (2 * (q * m)) /\ 2 * (q * m) \in Nat
          BY <1>1, <4>1 DEF x
        <4>3. pt * 4096 = x
          BY <2>5, <4>2
        <4>4. 2 * b <= x
          BY <1>1, <2>1 DEF x
        <4> QED
          BY <4>3, <4>4
      <3> QED
        BY <3>1, <3>2
    <2> DEFINE d == (pt * 4096) \div b
    <2>7. d \in Nat /\ d * b <= pt * 4096 /\ pt * 4096 < d * b + b
      <3>1. pt * 4096 \in Nat
        BY <2>5
      <3> QED
        BY <3>1, <1>6, Quotient
    <2> HIDE DEF d
    <2>8. 2 <= d
      <3>1. 2 * b < d * b + b
        BY <2>5, <2>6, <2>7
      <3> QED
        BY <1>6, <2>7, <3>1
    <2>9. d <= q
      <3>1. d * b <= q * b
        BY <1>1, <2>5, <2>7 DEF x
      <3> QED
        BY <1>1, <1>6, <2>7, <3>1
    <2>10. d \in 2 .. 512
      BY <1>1, <2>1, <2>7, <2>8, <2>9
    <2>11. b <= 512 => Carved(pt, b) * b <= pt * 4096
      BY <1>6
    <2> QED
      BY <1>6, <2>5, <2>10, <2>11 DEF pt, d
  <1>7. CASE 131072 < b
    <2>1. PICK m \in Nat : b = 8192 * m
      BY <1>7
    <2>2. 17 <= m /\ m <= 32
      BY <1>7, <2>1
    <2>3. q < 2
      BY <1>1, <1>7
    <2>4. BlockThreshHold(b) = 2
      BY <1>1, <1>2, <2>3
    <2>5. pt = 4 * m
      BY <1>3, <2>1, <2>2, <2>4
    <2>6. pt * 4096 = 2 * b
      BY <2>1, <2>5
    <2>7. (pt * 4096) \div b = 2
      BY <2>6, Quotient
    <2> QED
      BY <1>7, <2>2, <2>5, <2>7 DEF pt
  <1> QED
    BY <1>5, <1>6, <1>7
-----------------------------------------------------------------------------
(* What tnc_malloc has recorded of a request and what tnc_free made of it. *)
Malloced ==
  /\ size \in Nat /\ 1 <= size
  /\ from \in {"none", "thread_cache", "page_cache", "mmap"}
  /\ from = "thread_cache" =>
       /\ size <= MaxAllocBytes
       /\ list = Index(size) /\ block = RoundUp(size) /\ pages = PageThreshHold(block)
  /\ from \in {"page_cache", "mmap"} =>
       /\ size > MaxAllocBytes
       /\ pages = RoundUp(size) \div PageBytes /\ from = PageRoute(pages)

Freed ==
  backTo # "none" =>
    /\ from # "none"
    /\ \/ pages > LargePages /\ backTo = IF pages > MaxPages THEN "mmap" ELSE "page_cache"
       \/ pages <= LargePages /\ backTo = "thread_cache" /\ backList = Index(block)

LEMMA RecordInvariant == Spec => [](Malloced /\ Freed)
PROOF
  <1>1. Init => Malloced /\ Freed
    BY AllocAssumption DEF Init, Malloced, Freed
  <1>2. ASSUME Malloced, Freed, [Next]_vars PROVE Malloced' /\ Freed'
    <2>1. CASE MallocSmall
      BY <1>2, <2>1 DEF MallocSmall, Malloced, Freed
    <2>2. CASE MallocLarge
      <3>1. from' = PageRoute(pages') /\ from' \in {"page_cache", "mmap"}
        BY <2>2 DEF MallocLarge, PageRoute
      <3>2. /\ pages' = RoundUp(size) \div PageBytes /\ size > MaxAllocBytes /\ from = "none"
            /\ size' = size /\ backTo' = backTo
        BY <2>2 DEF MallocLarge
      <3> QED
        BY <1>2, <3>1, <3>2 DEF Malloced, Freed, PageRoute
    <2>3. CASE FreeLarge
      BY <1>2, <2>3 DEF FreeLarge, Malloced, Freed, PageRoute
    <2>4. CASE FreeSmall
      BY <1>2, <2>4 DEF FreeSmall, Malloced, Freed, PageRoute
    <2>5. CASE Done \/ UNCHANGED vars
      BY <1>2, <2>5 DEF Done, vars, Malloced, Freed, PageRoute
    <2> QED
      BY <1>2, <2>1, <2>2, <2>3, <2>4, <2>5 DEF Next
  <1> QED
    BY <1>1, <1>2, PTL DEF Spec

(* RoundUp and Index keep the table of thread_cache.h for every size, and    *)
(* tnc_free puts a block into the list that tnc_malloc took it from.         *)
THEOREM RealTableKept ==
  ASSUME RealTable
  PROVE  Spec => []TableKept
PROOF
  <1>1. ASSUME Malloced, Freed, from = "thread_cache"
        PROVE  /\ list \in 0 .. ListCount - 1
               /\ block = TableSize(list)
               /\ size <= block /\ (list > 0 => size > TableSize(list - 1))
               /\ backTo = "thread_cache" => backList = list
    <2>1. /\ size \in Nat /\ 1 <= size /\ size <= 262144
          /\ list = Index(size) /\ block = RoundUp(size)
      BY <1>1 DEF Malloced, RealTable
    <2>2. list \in Nat /\ list <= 207 /\ ListCount = 208
      BY <2>1, SizeTable DEF RealTable
    <2>3. /\ block = TableSize(list)
          /\ size <= block /\ (list > 0 => size > TableSize(list - 1))
          /\ Index(block) = list
      BY <2>1, SizeTable
    <2>4. backTo = "thread_cache" => backList = Index(block)
      BY <1>1 DEF Freed
    <2> QED
      BY <2>2, <2>3, <2>4
  <1>2. Malloced /\ Freed => TableKept
    BY <1>1 DEF TableKept
  <1> QED
    BY <1>2, RecordInvariant, PTL

(* The table of the code meets what CentralCache assumes of its requests: a  *)
(* list serves one size of blocks, and deallocate finds that list again.     *)
THEOREM RealClassesSound ==
  ASSUME RealTable
  PROVE  ClassesSound(1 .. MaxAllocBytes)
PROOF
  <1>1. MaxAllocBytes \in Nat /\ MaxAllocBytes <= 262144
    BY DEF RealTable
  <1>2. ASSUME NEW n \in 1 .. MaxAllocBytes
        PROVE  /\ RoundUp(n) \in Nat \ {0} /\ Index(RoundUp(n)) = Index(n)
               /\ RoundUp(n) = TableSize(Index(n))
    <2>1. n \in Nat /\ 1 <= n /\ n <= 262144
      BY <1>1
    <2>2. /\ RoundUp(n) \in Nat /\ n <= RoundUp(n) /\ Index(RoundUp(n)) = Index(n)
          /\ RoundUp(n) = TableSize(Index(n))
      BY <2>1, SizeTable
    <2> QED
      BY <2>1, <2>2
  <1>3. ASSUME NEW m \in 1 .. MaxAllocBytes, NEW n \in 1 .. MaxAllocBytes, Index(m) = Index(n)
        PROVE  RoundUp(m) = RoundUp(n)
    BY <1>2, <1>3
  <1> QED
    BY <1>2, <1>3 DEF ClassesSound

(* The span of every size class is one that the page cache can cut, and      *)
(* holds from 2 to 512 whole blocks.                                         *)
THEOREM RealSpanServes ==
  ASSUME RealTable
  PROVE  Spec => []SpanServes
PROOF
  <1>1. ASSUME Malloced, from = "thread_cache"
        PROVE  /\ pages \in 1 .. MaxPages
               /\ (pages * PageBytes) \div block \in MinBlocks .. MaxBlocks
               /\ block <= 512 => Carved(pages, block) * block <= pages * PageBytes
    <2>1. /\ size \in Nat /\ 1 <= size /\ size <= 262144
          /\ block = RoundUp(size) /\ pages = PageThreshHold(block)
      BY <1>1 DEF Malloced, RealTable
    <2>2. /\ block \in Nat /\ 1 <= block /\ block <= 262144
          /\ \E n \in Nat : block = 8 * n
          /\ block > 65536 => \E n \in Nat : block = 8192 * n
      BY <2>1, SizeTable
    <2>3. /\ pages \in Nat /\ 1 <= pages /\ pages <= 128
          /\ (pages * 4096) \div block \in 2 .. 512
          /\ block <= 512 => Carved(pages, block) * block <= pages * 4096
      BY <2>1, <2>2, SpanPages, SMTT(30)
    <2>4. MaxPages = 128 /\ PageBytes = 4096 /\ MinBlocks = 2 /\ MaxBlocks = 512
      BY DEF RealTable
    <2> QED
      BY <2>3, <2>4
  <1>2. Malloced => SpanServes
    BY <1>1 DEF SpanServes
  <1> QED
    BY <1>2, RecordInvariant, PTL

(* tnc_free, which is not told the size, gives every request back to the     *)
(* cache that served it, but for those between half of MAX_ALLOC_BYTES and   *)
(* MAX_ALLOC_BYTES.                                                          *)
THEOREM RealFreedWhereAllocated ==
  ASSUME RealTable
  PROVE  Spec => []FreedWhereAllocated
PROOF
  <1>1. MaxAllocBytes = 262144 /\ PageBytes = 4096 /\ LargePages = 64 /\ MaxPages = 128
    BY DEF RealTable
  <1>2. ASSUME Malloced, Freed, backTo # "none"
        PROVE  backTo = from <=> ~(131072 < size /\ size <= 262144)
    <2>1. size \in Nat /\ 1 <= size
      BY <1>2 DEF Malloced
    <2>2. CASE from = "thread_cache"
      <3>1. size <= 262144 /\ block = RoundUp(size) /\ pages = PageThreshHold(block)
        BY <1>1, <1>2, <2>2 DEF Malloced
      <3>2. /\ block \in Nat /\ 1 <= block /\ block <= 262144
            /\ \E n \in Nat : block = 8 * n
            /\ block > 65536 => \E n \in Nat : block = 8192 * n
            /\ block > 131072 <=> size > 131072
        <4>1. block \in Nat /\ size <= block /\ block <= 262144
          BY <2>1, <3>1, SizeTable
        <4>2. block > 131072 <=> size > 131072
          BY <2>1, <3>1, SizeTable
        <4>3. (\E n \in Nat : block = 8 * n) /\ (block > 65536 => \E n \in Nat : block = 8192 * n)
          BY <2>1, <3>1, SizeTable
        <4> QED
          BY <2>1, <4>1, <4>2, <4>3
      <3>3. pages \in Nat /\ (pages <= 64 <=> block <= 131072)
        BY <3>1, <3>2, SpanPages
      <3>4. pages <= 64 <=> size <= 131072
        BY <2>1, <3>2, <3>3
      <3>5. backTo = "thread_cache" <=> pages <= 64
        BY <1>1, <1>2, <3>3 DEF Freed
      <3> QED
        BY <2>1, <2>2, <3>1, <3>4, <3>5
    <2>3. CASE from # "thread_cache"
      <3>1. /\ from \in {"page_cache", "mmap"} /\ size > 262144
            /\ pages = RoundUp(size) \div 4096 /\ from = PageRoute(pages)
        BY <1>1, <1>2, <2>3 DEF Malloced, Freed
      <3>2. pages = (((size + 4095) \div 4096) * 4096) \div 4096
        BY <1>1, <2>1, <3>1 DEF RoundUp, RoundUpTo
      <3>3. pages \in Nat /\ pages > 64
        BY <2>1, <3>1, <3>2
      <3>4. backTo = from
        BY <1>1, <1>2, <3>1, <3>3 DEF Freed, PageRoute
      <3> QED
        BY <2>1, <3>1, <3>4
    <2> QED
      BY <2>2, <2>3
  <1>3. MaxAllocBytes \div 2 = 131072
    BY <1>1
  <1>4. Malloced /\ Freed => FreedWhereAllocated
    BY <1>1, <1>2, <1>3 DEF FreedWhereAllocated
  <1> QED
    BY <1>4, RecordInvariant, PTL
=============================================================================
