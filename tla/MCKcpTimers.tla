---------------------------- MODULE MCKcpTimers ----------------------------
(* Model values for KcpTimers: the clock set a little, far, and very far. *)
EXTENDS KcpTimers

MCJumps == {-20, -4, 60}
=============================================================================
