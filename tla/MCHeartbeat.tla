----------------------------- MODULE MCHeartbeat -----------------------------
(* The heartbeat with the times of the code, for TLC. *)
EXTENDS Heartbeat

Clocks == {-6, 0, 45}
=============================================================================
