---------------------------- MODULE PageService ----------------------------
(***************************************************************************)
(* What PageCache promises its users, tnc_malloc and the central cache: a   *)
(* range of pages nobody else has, until it is given back.  Giving a range  *)
(* back takes the cache a while, in which no other range may change.        *)
(* PageCache implements it (PageCache!Service).                             *)
(***************************************************************************)
EXTENDS Integers

VARIABLES
  ranges,    \* the ranges of pages handed out
  merging    \* a range has been given back and is being put away

svars == <<ranges, merging>>

Init == ranges = {} /\ merging = FALSE

(* create_pc_span: whatever range is new, it has no page of another.         *)
Give ==
  /\ ~merging /\ ~merging'
  /\ \E r \in ranges' \ ranges :
       /\ \E first, last \in r : r = first .. last
       /\ \A q \in ranges : q \cap r = {}
       /\ ranges' = ranges \cup {r}

(* recover_span_to_page_cache, at once or in two steps. *)
TakeBack ==
  /\ ~merging
  /\ \E r \in ranges : ranges' = ranges \ {r}
  /\ merging' \in BOOLEAN

PutAway ==
  /\ merging
  /\ merging' = FALSE
  /\ UNCHANGED ranges

Next == Give \/ TakeBack \/ PutAway

Spec == Init /\ [][Next]_svars
=============================================================================
