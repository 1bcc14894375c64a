---------------------------- MODULE MCPageCache ----------------------------
(* Small instances of PageCache for TLC. *)
EXTENDS PageCache, TLC

(* Span objects differ only by their place in the pool. *)
Symmetry == Permutations(Spans)

(* The properties speak of the states before a race for the break, so TLC    *)
(* explores nothing behind one.                                              *)
NotRaced == ~raced
=============================================================================
