------------------------------- MODULE MCKcp -------------------------------
(* Kcp for TLC: numbers of fragments the endpoints send. *)
EXTENDS Kcp, TLC

OneWay3 == (A :> 3) @@ (B :> 0)
=============================================================================
