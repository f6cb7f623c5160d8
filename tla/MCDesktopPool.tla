--------------------------- MODULE MCDesktopPool ---------------------------
(***************************************************************************)
(* DesktopPool for TLC: desktops, requests, tasks and viewers are each     *)
(* interchangeable, which the safety runs use.                             *)
(***************************************************************************)
EXTENDS DesktopPool, TLC

Symmetry == Permutations(Agent) \cup Permutations(Proc)
              \cup Permutations(Task) \cup Permutations(Viewer)
=============================================================================
