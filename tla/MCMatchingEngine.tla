--------------------------- MODULE MCMatchingEngine ---------------------------
(* Instances of the matching engine for TLC. *)
EXTENDS MatchingEngineProperties

CONSTANTS u1, u2, u3, yes, no

AllOrNone == {{}, Users}
JustAll == {Users}
=============================================================================
