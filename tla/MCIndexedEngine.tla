--------------------------- MODULE MCIndexedEngine ---------------------------
(* Instances of the indexed engine for TLC. *)
EXTENDS IndexedEngine

CONSTANTS u1, u2, u3, yes, no

AllOrNone == {{}, Users}
JustAll == {Users}
=============================================================================
