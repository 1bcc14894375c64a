---------------------------- MODULE MCContainers ----------------------------
(* The two data structures of the repository that no component uses yet,     *)
(* side by side; they share nothing.                                         *)
EXTENDS RingQueue, PageMap3

Calls == {<<0, 8>>, <<2, 1>>, <<3, 4>>, <<6, 6>>}

Init == RingInit /\ MapInit
Next == (RingNext /\ UNCHANGED mapVars) \/ (MapNext /\ UNCHANGED ringVars)
Spec == Init /\ [][Next]_<<ringVars, mapVars>>
=============================================================================
