------------------------------ MODULE PageMap3 ------------------------------
(***************************************************************************)
(* TCMalloc_PageMap3 (common.h): the three-level radix tree meant to        *)
(* replace the page map of PageCache.  A key is cut into an index of the    *)
(* root, of the middle node and of the leaf; leaves are made on demand by   *)
(* set, or ahead by Ensure.  The constructor calls Ensure for every key,    *)
(* so that all middle nodes exist from the beginning.                       *)
(*                                                                          *)
(* MissingAll is a seeded fault that shows what the property detects;       *)
(* MapNext does not use it.                                                 *)
(***************************************************************************)
EXTENDS Integers

CONSTANTS
  RootLength, MidLength, LeafLength,  \* ROOT_LENGTH, MID_LENGTH, LEAF_LENGTH
  SetKeys,                            \* the keys that are set, and to what
  SetValues,
  Ensured,                            \* the calls Ensure(start, n)
  Null

(* set asserts that its key is in range. *)
ASSUME MapAssumption ==
  /\ RootLength \in Nat \ {0} /\ MidLength \in Nat \ {0} /\ LeafLength \in Nat \ {0}
  /\ SetKeys \subseteq 0 .. RootLength * MidLength * LeafLength - 1

VARIABLES
  leafs,   \* the leaves that exist, by <<i1, i2>>
  values,  \* the values, by <<i1, i2, i3>>
  stored   \* history: what was set last, by key

mapVars == <<leafs, values, stored>>
KeyCount == RootLength * MidLength * LeafLength
Keys == 0 .. KeyCount - 1

(* k >> (MID_BITS + LEAF_BITS), (k >> LEAF_BITS) & (MID_LENGTH - 1),         *)
(* k & (LEAF_LENGTH - 1)                                                     *)
I1(k) == k \div (MidLength * LeafLength)
I2(k) == (k \div LeafLength) % MidLength
I3(k) == k % LeafLength
LeafOf(k) == <<I1(k), I2(k)>>

(* get: NULL beyond the range and where there is no leaf. *)
Get(k) ==
  IF k \notin Keys \/ LeafOf(k) \notin leafs THEN Null ELSE values[<<I1(k), I2(k), I3(k)>>]

(* The leaves the loop of Ensure(start, n) visits: it goes on with the next  *)
(* entry of the root, not with the next leaf, and stops beyond the range.    *)
Visited(start, n) ==
  {LeafOf(k) : k \in {k \in Keys \cap (start .. start + n - 1) :
                        k = start \/ k % (MidLength * LeafLength) = 0}}

(* Of the leaves ls those that are NULL are made, all of whose values are    *)
(* NULL.                                                                     *)
MissingAll(ls) == ls
Missing(ls) == ls \ leafs
Made(ls) == [i \in DOMAIN values |-> IF <<i[1], i[2]>> \in Missing(ls) THEN Null ELSE values[i]]

MapInit ==
  /\ leafs = Visited(0, KeyCount)
  /\ values = [i \in (0 .. RootLength - 1) \X (0 .. MidLength - 1) \X (0 .. LeafLength - 1) |->
                 Null]
  /\ stored = [k \in Keys |-> Null]

Set(k, v) ==
  /\ leafs' = leafs \cup {LeafOf(k)}
  /\ values' = [Made({LeafOf(k)}) EXCEPT ![<<I1(k), I2(k), I3(k)>>] = v]
  /\ stored' = [stored EXCEPT ![k] = v]

Ensure(start, n) ==
  /\ leafs' = leafs \cup Visited(start, n)
  /\ values' = Made(Visited(start, n))
  /\ UNCHANGED stored

MapNext ==
  \/ \E k \in SetKeys, v \in SetValues : Set(k, v)
  \/ \E e \in Ensured : Ensure(e[1], e[2])

MapSpec == MapInit /\ [][MapNext]_mapVars
-----------------------------------------------------------------------------
(* get returns what was set last for this very key, and NULL for every key   *)
(* that was never set or is beyond the range: no two keys share a place, and *)
(* making nodes, in any order, loses nothing.                                *)
Agrees ==
  \A k \in 0 .. 2 * KeyCount : Get(k) = IF k \in Keys THEN stored[k] ELSE Null
=============================================================================
