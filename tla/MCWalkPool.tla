----------------------------- MODULE MCWalkPool -----------------------------
(* A TLC instance of WalkPool: two workers, so that each channel holds two  *)
(* values, and five items.  The run checks liveness: no symmetry.           *)
EXTENDS WalkPool, TLC
=============================================================================
