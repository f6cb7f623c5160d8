------------------------------ MODULE MCEdges ------------------------------
(***************************************************************************)
(* The components where the backend meets a browser, a provider, the       *)
(* gateway or a file system, for TLC.  They share no state: as in          *)
(* MCServices, `part` names the only one that moves.                       *)
(***************************************************************************)
EXTENDS ConnectorActions, TelegramHistory, WorkspaceFiles, ImageJobs,
        AccessSessions, TaskStream, DesktopKeepers, Approvals, TLC

CONSTANT Part       \* the components that are explored

VARIABLE part

partVars == <<actionVars, historyVars, filesVars, imageVars, accessVars, streamVars, keeperVars,
              approvalVars>>
allVars  == <<part, partVars>>

EdgesInit ==
  /\ part \in Part
  /\ ActionsInit /\ HistoryInit /\ FilesInit /\ ImagesInit
  /\ AccessInit /\ StreamInit /\ KeepersInit /\ ApprovalsInit

\* Nothing but component p moves.
Only(p) ==
  /\ part = p /\ UNCHANGED part
  /\ IF p = "actions" THEN TRUE ELSE UNCHANGED actionVars
  /\ IF p = "history" THEN TRUE ELSE UNCHANGED historyVars
  /\ IF p = "files" THEN TRUE ELSE UNCHANGED filesVars
  /\ IF p = "images" THEN TRUE ELSE UNCHANGED imageVars
  /\ IF p = "access" THEN TRUE ELSE UNCHANGED accessVars
  /\ IF p = "stream" THEN TRUE ELSE UNCHANGED streamVars
  /\ IF p = "keepers" THEN TRUE ELSE UNCHANGED keeperVars
  /\ IF p = "approvals" THEN TRUE ELSE UNCHANGED approvalVars

EdgesNext ==
  \/ Only("actions") /\ ActionsNext
  \/ Only("history") /\ HistoryNext
  \/ Only("files") /\ FilesNext
  \/ Only("images") /\ ImagesNext
  \/ Only("access") /\ AccessNext
  \/ Only("stream") /\ StreamNext
  \/ Only("keepers") /\ KeepersNext
  \/ Only("approvals") /\ ApprovalsNext

EdgesSpec == EdgesInit /\ [][EdgesNext]_allVars

\* Every variable of every component keeps its type.
TypesOK ==
  /\ ActionsTypeOK /\ HistoryTypeOK /\ FilesTypeOK /\ ImagesTypeOK
  /\ AccessTypeOK /\ StreamTypeOK /\ KeepersTypeOK /\ ApprovalsTypeOK

\* Approvals, requests, keys and texts are each interchangeable.
Symmetry == Permutations(Approver) \cup Permutations(Request) \cup Permutations(Speech)
              \cup Permutations(Key)
=============================================================================
