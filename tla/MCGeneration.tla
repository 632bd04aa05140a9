---------------------------- MODULE MCGeneration ----------------------------
(* Boards whose version and endpoint agree.                                 *)
EXTENDS Generation

Silent   == [version |-> 0, system |-> FALSE]
Classic  == [version |-> 1, system |-> FALSE]
TwoPoint == [version |-> 2, system |-> TRUE]

MCAgreeing == {Silent, Classic, TwoPoint}
=============================================================================
