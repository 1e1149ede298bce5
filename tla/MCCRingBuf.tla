---------------------------- MODULE MCCRingBuf ----------------------------
(* Model values for CRingBuf. *)
EXTENDS CRingBuf, TLC

Symmetry == Permutations(Readers)
=============================================================================
