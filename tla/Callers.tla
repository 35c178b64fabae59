------------------------------- MODULE Callers -------------------------------
(* The goroutines that use what the walk shares: workers, and what walkFn    *)
(* starts.                                                                   *)
CONSTANT Caller
=============================================================================
