-------------------------- MODULE MCTaskLifecycle --------------------------
(***************************************************************************)
(* TaskLifecycle for TLC.  Tasks and cancelling calls are interchangeable  *)
(* (no action or property orders them), so safety runs use symmetry; the   *)
(* liveness run does not.                                                  *)
(***************************************************************************)
EXTENDS TaskLifecycle, TLC

Symmetry == Permutations(Task) \cup Permutations(Canceller)
=============================================================================
