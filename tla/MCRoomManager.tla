---------------------------- MODULE MCRoomManager ----------------------------
(* An instance of the room server for TLC. *)
EXTENDS RoomManager

CONSTANTS u1, u2, w1, w2, r1, r2, m1, m2
=============================================================================
