------------------------------ MODULE OnceOnly ------------------------------
(***************************************************************************)
(* What every claimed piece of work of the service promises: it is claimed *)
(* before its effect, the effect happens at most once, only under the      *)
(* claim, and never after the work was closed.  Occurrences of a routine   *)
(* (Routines) and reviewed connector actions (ConnectorActions) are shown  *)
(* to implement it.                                                        *)
(***************************************************************************)
EXTENDS Naturals

CONSTANT Job

VARIABLES phase,     \* phase[j]: "open", "claimed" or "closed"
          effects    \* effects[j]: times the outside world saw j

onceVars == <<phase, effects>>

OnceInit ==
  /\ phase   = [j \in Job |-> "open"]
  /\ effects = [j \in Job |-> 0]

Claim(j) ==
  /\ phase[j] = "open"
  /\ phase' = [phase EXCEPT ![j] = "claimed"]
  /\ UNCHANGED effects

Perform(j) ==
  /\ phase[j] = "claimed" /\ effects[j] = 0
  /\ effects' = [effects EXCEPT ![j] = 1]
  /\ UNCHANGED phase

\* Any number of jobs are closed at one instant: an expiry, a disconnect or a
\* restart closes several.
Close(J) ==
  /\ phase' = [j \in Job |-> IF j \in J THEN "closed" ELSE phase[j]]
  /\ UNCHANGED effects

OnceNext ==
  \/ \E j \in Job : Claim(j) \/ Perform(j)
  \/ \E J \in SUBSET Job : Close(J)

OnceSpec == OnceInit /\ [][OnceNext]_onceVars
=============================================================================
