------------------------------ MODULE MCLogger ------------------------------
(* Small instances of Logger for TLC. *)
EXTENDS Logger, TLC

Symmetry == Permutations(Producers)

(* Around the limits of the length byte: a line of 255 bytes before an       *)
(* ordinary one, and lines of 256 and 300.                                   *)
Lengths == <<255, 20, 30, 256, 300, 20>>

(* The default level is debug: the third message is not logged. *)
MsgLevels == <<"debug", "info", "trace", "warn", "critical", "fatal">>
=============================================================================
