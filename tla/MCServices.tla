----------------------------- MODULE MCServices -----------------------------
(***************************************************************************)
(* Components of the backend that share no state, for TLC.  A behaviour of *)
(* the service interleaves behaviours of its components, and a step of one *)
(* leaves the variables, and so the properties, of the others alone: it is *)
(* enough to explore the behaviours in which one component moves.  `part`  *)
(* names it; the others stay as they were created.                         *)
(***************************************************************************)
EXTENDS LearnedSkills, Routines, RuntimeTurns, Groups, Homes, Memory, TLC

CONSTANT Part       \* the components that are explored

VARIABLE part

partVars == <<skillVars, routineVars, turnVars, groupVars, homeVars, memoryVars>>
allVars  == <<part, partVars>>

ServicesInit ==
  /\ part \in Part
  /\ SkillsInit /\ RoutinesInit /\ TurnsInit
  /\ GroupsInit /\ HomesInit /\ MemoryInit

\* Nothing but component p moves.
Only(p) ==
  /\ part = p /\ UNCHANGED part
  /\ IF p = "skills" THEN TRUE ELSE UNCHANGED skillVars
  /\ IF p = "routines" THEN TRUE ELSE UNCHANGED routineVars
  /\ IF p = "turns" THEN TRUE ELSE UNCHANGED turnVars
  /\ IF p = "groups" THEN TRUE ELSE UNCHANGED groupVars
  /\ IF p = "homes" THEN TRUE ELSE UNCHANGED homeVars
  /\ IF p = "memory" THEN TRUE ELSE UNCHANGED memoryVars

ServicesNext ==
  \/ Only("skills") /\ SkillsNext
  \/ Only("routines") /\ RoutinesNext
  \/ Only("turns") /\ TurnsNext
  \/ Only("groups") /\ GroupsNext
  \/ Only("homes") /\ HomesNext
  \/ Only("memory") /\ MemoryNext

ServicesSpec == ServicesInit /\ [][ServicesNext]_allVars

\* Each component is scheduled as its own module says.
ServicesFairness ==
  \/ part = "skills"
  \/ part = "routines" /\ RoutinesFairness
  \/ part = "turns" /\ TurnsFairness

ServicesFairSpec == ServicesSpec /\ ServicesFairness

\* Every variable of every component keeps its type.
TypesOK ==
  /\ SkillsTypeOK /\ RoutinesTypeOK /\ TurnsTypeOK
  /\ GroupsTypeOK /\ HomesTypeOK /\ MemoryTypeOK

\* Contents of the document, and bots that neither retire nor have a file, are
\* each interchangeable.
Symmetry == Permutations(Snapshot) \cup Permutations(Bot \ (Retiring \cup Uploader))
=============================================================================
