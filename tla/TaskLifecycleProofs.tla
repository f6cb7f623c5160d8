------------------------ MODULE TaskLifecycleProofs ------------------------
(***************************************************************************)
(* Theorems about TaskLifecycle for every number of tasks, requests and    *)
(* concurrent cancellations.  The argument is the inductive invariant IInv *)
(* of TaskLifecycle, proved part by part: each part has a lemma that says  *)
(* a step preserves it, with one step per action that can disturb it.      *)
(***************************************************************************)
EXTENDS TaskLifecycle, TLAPS, SequenceTheorems

\* The status sets of the contract, spelled out for the provers.
LEMMA StatusSets ==
  /\ Contract!Active = {"queued", "running"}
  /\ Contract!Terminal = {"completed", "failed", "cancelled"}
  /\ Contract!Status =
       {"absent", "queued", "running", "completed", "failed", "cancelled"}
  /\ Active = Contract!Active /\ Terminal = Contract!Terminal
BY DEF Active, Terminal, Contract!Active, Contract!Terminal, Contract!Status

\* Logging an event keeps the log well typed.
LEMMA LogTyped ==
  ASSUME events \in [Task -> Seq(Event)], NEW t \in Task, NEW e \in Event, Log(t, e)
  PROVE  events' \in [Task -> Seq(Event)]
<1>1. Append(events[t], e) \in Seq(Event)
  BY AppendProperties
<1>2. QED
  BY <1>1 DEF Log

-----------------------------------------------------------------------------
(* Type correctness *)

\* Every variable starts with its type.
LEMMA InitTyped == Init => TypeOK
BY LifecycleAssumption
   DEF Init, TypeOK, Contract!ContractInit, Contract!ContractTypeOK, Contract!Status,
       Contract!Active, Contract!Terminal, PC, Outcome, Skill, Call, Phase, IdleCall

\* The two shapes in which a cancellation call is updated keep it well typed.
LEMMA CallTyped ==
  ASSUME canc \in [Canceller -> Call], NEW c \in Canceller,
         NEW p \in Phase, NEW T \in SUBSET Task
  PROVE  /\ [canc EXCEPT ![c].phase = p, ![c].todo = T] \in [Canceller -> Call]
         /\ [canc EXCEPT ![c].todo = T] \in [Canceller -> Call]
<1>1. canc[c] \in Call
  OBVIOUS
<1>2. [canc[c] EXCEPT !.todo = T] \in Call
  BY <1>1 DEF Call
<1>3. [[canc[c] EXCEPT !.phase = p] EXCEPT !.todo = T] \in Call
  BY <1>1 DEF Call
<1>4. [canc EXCEPT ![c].phase = p, ![c].todo = T]
        = [canc EXCEPT ![c] = [[canc[c] EXCEPT !.phase = p] EXCEPT !.todo = T]]
  OBVIOUS
<1>5. QED
  BY <1>2, <1>3, <1>4

\* No action of the manager gives a variable a value outside its type.
LEMMA TypedStep == TypeOK /\ [Next]_vars => TypeOK'
<1> SUFFICES ASSUME TypeOK, [Next]_vars PROVE TypeOK'
  OBVIOUS
<1> USE LifecycleAssumption, StatusSets
<1> USE DEF TypeOK, Contract!ContractTypeOK, durable, worker, At
<1> DEFINE Typed == TypeOK'
<1>1. ASSUME NEW r \in Request, NEW T \in SUBSET Task, Send(r, T) PROVE Typed
  BY <1>1 DEF Send, PC
<1>2. ASSUME NEW p \in Task, NEW t \in Task, Delegate(p, t) PROVE Typed
  BY <1>2 DEF Delegate, PC
<1>3. ASSUME NEW t \in Task, ProposeSkill(t) PROVE Typed
  BY <1>3 DEF ProposeSkill, Skill
<1>4. ASSUME NEW t \in Task, Begin(t) PROVE Typed
  <2>1. CASE status[t] = "queued"
    <3>1. status' = [status EXCEPT ![t] = "running"] /\ pc' = [pc EXCEPT ![t] = "starting"]
      BY <1>4, <2>1 DEF Begin
    <3>2. status' \in [Task -> Contract!Status] /\ pc' \in [Task -> PC]
      BY <3>1 DEF PC
    <3>3. QED
      BY <1>4, <2>1, <3>2 DEF Begin
  <2>2. CASE status[t] # "queued"
    BY <1>4, <2>2 DEF Begin, PC
  <2>3. QED
    BY <2>1, <2>2
<1>5. ASSUME NEW t \in Task, StartTurn(t) PROVE Typed
  BY <1>5 DEF StartTurn, PC
<1>6. ASSUME NEW t \in Task, Receive(t) PROVE Typed
  BY <1>6 DEF Receive, Settles, PC, Outcome, Settle
<1>7. ASSUME NEW t \in Task, EndTurn(t) PROVE Typed
  BY <1>7 DEF EndTurn, Settles, PC, Outcome, Settle
<1>8. ASSUME NEW t \in Task, TurnInterrupted(t) PROVE Typed
  BY <1>8 DEF TurnInterrupted, Settles, PC, Outcome, Settle
<1>9. ASSUME NEW t \in Task, TurnFails(t) PROVE Typed
  BY <1>9 DEF TurnFails, Settles, PC, Outcome, Settle
<1>10. ASSUME NEW t \in Task, Thrown(t) PROVE Typed
  BY <1>10 DEF Thrown, Forget, PC, Outcome, Settle
<1>11. ASSUME NEW t \in Task, SaveReply(t) PROVE Typed
  <2>1. events' \in [Task -> Seq(Event)]
    BY <1>11, LogTyped DEF SaveReply, Event
  <2>2. replies' \in [Task -> SUBSET {"final", "partial"}]
    <3>1. CASE text[t] /\ outcome[t] = "completed"
      <4>1. replies' = [replies EXCEPT ![t] = replies[t] \cup {"final"}]
        BY <1>11, <3>1 DEF SaveReply
      <4>2. QED
        BY <4>1
    <3>2. CASE text[t] /\ outcome[t] = "cancelled"
      <4>1. replies' = [replies EXCEPT ![t] = replies[t] \cup {"partial"}]
        BY <1>11, <3>2 DEF SaveReply
      <4>2. QED
        BY <4>1
    <3>3. CASE ~text[t]
      BY <1>11, <3>3 DEF SaveReply
    <3>4. QED
      BY <1>11, <3>1, <3>2, <3>3 DEF SaveReply
  <2>3. pc' \in [Task -> PC]
    BY <1>11 DEF SaveReply, PC, Settle
  <2>4. QED
    BY <1>11, <2>1, <2>2, <2>3 DEF SaveReply
<1>12. ASSUME NEW t \in Task, Finish(t) PROVE Typed
  <2>1. CASE outcome[t] = "completed"
    <3>1. status' = [status EXCEPT ![t] = "completed"] /\ pc' = [pc EXCEPT ![t] = "skills"]
      BY <1>12, <2>1 DEF Finish
    <3>2. status' \in [Task -> Contract!Status] /\ pc' \in [Task -> PC]
      BY <3>1 DEF PC, Settle
    <3>3. QED
      BY <1>12, <2>1, <3>2 DEF Finish
  <2>2. CASE outcome[t] # "completed" /\ status[t] \in Active
    <3>1. outcome[t] \in Contract!Status
      BY DEF Outcome
    <3>2. status' = [status EXCEPT ![t] = outcome[t]] /\ pc' = [pc EXCEPT ![t] = "event"]
      BY <1>12, <2>2 DEF Finish
    <3>3. status' \in [Task -> Contract!Status] /\ pc' \in [Task -> PC]
      BY <3>1, <3>2 DEF PC, Settle
    <3>4. QED
      BY <1>12, <2>2, <3>3 DEF Finish
  <2>3. CASE outcome[t] # "completed" /\ status[t] \notin Active
    BY <1>12, <2>3 DEF Finish, Leave, PC
  <2>4. QED
    BY <2>1, <2>2, <2>3
<1>13. ASSUME NEW t \in Task, FinalizeSkills(t) PROVE Typed
  <2>1. skill' \in [Task -> Skill]
    <3>1. \A s \in {"ready", "discarded"} : SettleSkill(t, s) \in [Task -> Skill]
      BY DEF SettleSkill, Skill
    <3>2. QED
      BY <1>13, <3>1 DEF FinalizeSkills
  <2>2. CASE outcome[t] = "completed"
    BY <1>13, <2>1, <2>2 DEF FinalizeSkills, PC, Settle
  <2>3. CASE outcome[t] # "completed"
    BY <1>13, <2>1, <2>3 DEF FinalizeSkills, Leave, PC
  <2>4. QED
    BY <2>2, <2>3
<1>14. ASSUME NEW t \in Task, AppendEvent(t) PROVE Typed
  <2>1. EventOf(outcome[t]) \in Event
    BY DEF EventOf, Outcome, Event
  <2>2. events' \in [Task -> Seq(Event)]
    BY <1>14, <2>1, LogTyped DEF AppendEvent
  <2>3. QED
    BY <1>14, <2>2 DEF AppendEvent, PC, Settle
<1>15. ASSUME NEW t \in Task, Relay(t) PROVE Typed
  BY <1>15 DEF Relay, Leave, PC
<1>16. ASSUME NEW t \in Task, Release(t) PROVE Typed
  BY <1>16 DEF Release, Forget, PC, Outcome
<1>17. ASSUME NEW t \in Task, CloseTurn(t) PROVE Typed
  BY <1>17 DEF CloseTurn
<1>18. ASSUME NEW c \in Canceller, NEW r \in Request, CancelTree(c, r) PROVE Typed
  <2>1. \A t \in Task : Append(events[t], "task.cancelled") \in Seq(Event)
    BY AppendProperties DEF Event
  <2>2. events' \in [Task -> Seq(Event)]
    BY <1>18, <2>1 DEF CancelTree
  <2>3. canc' \in [Canceller -> Call]
    BY <1>18 DEF CancelTree, Call, Phase, Tree
  <2>4. status' \in [Task -> Contract!Status] /\ flagged' \subseteq Task
    BY <1>18 DEF CancelTree, Tree
  <2>5. QED
    BY <1>18, <2>2, <2>3, <2>4 DEF CancelTree
<1>19. ASSUME NEW c \in Canceller, CancelFinalize(c) PROVE Typed
  <2>1. canc' \in [Canceller -> Call]
    <3>1. canc' = [canc EXCEPT ![c].phase = "gathering", ![c].todo = {}]
      BY <1>19 DEF CancelFinalize
    <3>2. "gathering" \in Phase /\ {} \in SUBSET Task
      BY DEF Phase
    <3>3. QED
      BY <3>1, <3>2, CallTyped
  <2>2. QED
    BY <1>19, <2>1 DEF CancelFinalize, Skill
<1>20. ASSUME NEW c \in Canceller, InterruptAll(c) PROVE Typed
  <2>1. canc' \in [Canceller -> Call]
    BY <1>20, CallTyped DEF InterruptAll, Phase
  <2>2. QED
    BY <1>20, <2>1 DEF InterruptAll
<1>21. ASSUME NEW c \in Canceller, NEW t \in Task, Interrupted(c, t) PROVE Typed
  <2>1. canc' \in [Canceller -> Call]
    <3>1. canc[c] \in Call /\ canc[c].todo \ {t} \in SUBSET Task
      BY DEF Call
    <3>2. canc' = [canc EXCEPT ![c].todo = canc[c].todo \ {t}]
      BY <1>21 DEF Interrupted
    <3>3. \A T \in SUBSET Task : [canc EXCEPT ![c].todo = T] \in [Canceller -> Call]
      BY CallTyped DEF Phase
    <3>4. QED
      BY <3>1, <3>2, <3>3
  <2>2. QED
    BY <1>21, <2>1 DEF Interrupted
<1>22. ASSUME NEW c \in Canceller, CancelReturn(c) PROVE Typed
  BY <1>22 DEF CancelReturn, Call, IdleCall, Phase
<1>23. CASE Close
  BY <1>23 DEF Close
<1>24. CASE Exit \/ Crash
  <2>1. LoseMemory
    BY <1>24 DEF Exit, Crash
  <2>2. IdleCall \in Call
    BY DEF IdleCall, Call, Phase
  <2>3. canc' \in [Canceller -> Call]
    BY <2>1, <2>2 DEF LoseMemory
  <2>4. QED
    BY <2>1, <2>3 DEF LoseMemory, PC, Outcome
<1>25. CASE MarkRestarted
  BY <1>25 DEF MarkRestarted
<1>26. CASE FinishRecovery
  BY <1>26 DEF FinishRecovery, Skill
<1>27. CASE UNCHANGED vars
  BY <1>27 DEF vars
<1>28. QED
  BY <1>1, <1>2, <1>3, <1>4, <1>5, <1>6, <1>7, <1>8, <1>9, <1>10, <1>11, <1>12,
     <1>13, <1>14, <1>15, <1>16, <1>17, <1>18, <1>19, <1>20, <1>21, <1>22, <1>23,
     <1>24, <1>25, <1>26, <1>27
     DEF Next, Worker, CancelStep

\* Every variable keeps its type, for every set of tasks and cancellations.
THEOREM TypeCorrect == Spec => []TypeOK
BY InitTyped, TypedStep, PTL DEF Spec

-----------------------------------------------------------------------------
(* Which steps touch the task table, and what they are for the contract *)

\* Only six kinds of step change the row, the lineage or the request of a task.
LEMMA RowSteps ==
  ASSUME [Next]_vars
  PROVE  \/ UNCHANGED <<status, parent, request>>
         \/ \E r \in Request, T \in SUBSET Task : Send(r, T)
         \/ \E p, t \in Task : Delegate(p, t)
         \/ \E t \in Task : Begin(t) \/ Finish(t)
         \/ \E c \in Canceller, r \in Request : CancelTree(c, r)
         \/ MarkRestarted
<1>1. CASE \E t \in Task : Worker(t) \/ Receive(t) \/ ProposeSkill(t) \/ CloseTurn(t)
  BY <1>1 DEF Worker, StartTurn, EndTurn, TurnInterrupted, TurnFails, Thrown, SaveReply,
              FinalizeSkills, AppendEvent, Relay, Release, Receive, ProposeSkill,
              CloseTurn, Settles, durable
<1>2. CASE \E c \in Canceller : CancelStep(c)
  BY <1>2 DEF CancelStep, CancelFinalize, InterruptAll, Interrupted, CancelReturn, durable
<1>3. CASE Close \/ Exit \/ Crash \/ FinishRecovery
  BY <1>3 DEF Close, Exit, Crash, LoseMemory, FinishRecovery, durable
<1>4. CASE UNCHANGED vars
  BY <1>4 DEF vars, durable
<1>5. QED
  BY <1>1, <1>2, <1>3, <1>4 DEF Next

\* Every created task of a request is reached from the request's roots, and
\* nothing else is: the lineage walk of _cancel_tree finds the whole request.
LEMMA TreeIsRequest ==
  ASSUME TypeOK, LineageSound, NEW r \in Request
  PROVE  Tree(Roots(r)) = {t \in Task : request[t] = r}
<1> DEFINE Same == {t \in Task : request[t] = r}
<1>1. ASSUME NEW t \in Tree(Roots(r)) PROVE t \in Same
  <2>1. Roots(r) \subseteq Same
    BY DEF Roots
  <2>2. \A u \in Task : parent[u] \in Same => u \in Same
    BY LifecycleAssumption DEF LineageSound, TypeOK, Contract!ContractTypeOK
  <2>3. QED
    BY <2>1, <2>2 DEF Tree
<1>2. ASSUME NEW t \in Same PROVE t \in Tree(Roots(r))
  <2> SUFFICES ASSUME NEW S \in SUBSET Task, Roots(r) \subseteq S,
                      \A u \in Task : parent[u] \in S => u \in S
               PROVE  t \in S
    BY DEF Tree
  <2>1. CASE parent[t] = NoTask
    BY <2>1 DEF Roots
  <2>2. CASE parent[t] # NoTask
    <3>1. parent[t] \in Roots(r)
      BY <2>2 DEF Roots, LineageSound, TypeOK, Contract!ContractTypeOK
    <3>2. QED
      BY <3>1
  <2>3. QED
    BY <2>1, <2>2
<1>3. QED
  BY <1>1, <1>2 DEF Tree

\* A request without a root has no task at all.
LEMMA RootlessIsEmpty ==
  ASSUME TypeOK, LineageSound, NEW r \in Request, Roots(r) = {}
  PROVE  \A t \in Task : request[t] # r
<1>1. SUFFICES ASSUME NEW t \in Task, request[t] = r
                PROVE  FALSE
  OBVIOUS
<1>2. \A u \in Task : parent[u] = NoTask => request[u] # r
  BY DEF Roots
<1>3. parent[t] # NoTask
  BY <1>1, <1>2
<1>4. parent[t] \in Task
  BY <1>3 DEF TypeOK, Contract!ContractTypeOK
<1>5. parent[parent[t]] = NoTask /\ request[parent[t]] = r
  BY <1>1, <1>3 DEF LineageSound
<1>6. QED
  BY <1>2, <1>4, <1>5

\* Every step of the manager is a step of TaskContract, or changes no row.
LEMMA StepImplements ==
  ASSUME TypeOK, WorkerFitsRow, LineageSound, [Next]_vars
  PROVE  [Contract!ContractNext]_(Contract!contractVars)
<1> DEFINE Goal == [Contract!ContractNext]_(Contract!contractVars)
<1> USE DEF Contract!ContractNext, Contract!contractVars
<1>1. CASE UNCHANGED <<status, parent, request>>
  BY <1>1
<1>2. ASSUME NEW r \in Request, NEW T \in SUBSET Task, Send(r, T) PROVE Goal
  <2>1. Contract!Ask(r, T)
    BY <1>2, RootlessIsEmpty DEF Send, Contract!Ask
  <2>2. QED
    BY <2>1
<1>3. ASSUME NEW p \in Task, NEW t \in Task, Delegate(p, t) PROVE Goal
  <2>1. Contract!Help(p, t)
    BY <1>3, StatusSets DEF Delegate, MayDelegate, Contract!Help
  <2>2. QED
    BY <2>1
<1>4. ASSUME NEW t \in Task, Begin(t) PROVE Goal
  <2>1. CASE status[t] = "queued"
    <3>1. Contract!Run(t)
      BY <1>4, <2>1 DEF Begin, Contract!Run
    <3>2. QED
      BY <3>1
  <2>2. CASE status[t] # "queued"
    BY <1>4, <2>2 DEF Begin
  <2>3. QED
    BY <2>1, <2>2
<1>5. ASSUME NEW t \in Task, Finish(t) PROVE Goal
  <2>1. CASE outcome[t] = "completed" \/ status[t] \in Active
    <3>1. status[t] = "running"
      BY <1>5, <2>1, StatusSets DEF Finish, WorkerFitsRow, FitsRow
    <3>2. status' = [status EXCEPT ![t] = outcome[t]]
      BY <1>5, <2>1 DEF Finish
    <3>3. outcome[t] \in Contract!Terminal
      BY StatusSets DEF TypeOK, Outcome
    <3>4. Contract!End(t)
      BY <1>5, <3>1, <3>2, <3>3 DEF Finish, Contract!End
    <3>5. QED
      BY <3>4
  <2>2. CASE ~(outcome[t] = "completed" \/ status[t] \in Active)
    BY <1>5, <2>2 DEF Finish
  <2>3. QED
    BY <2>1, <2>2
<1>6. ASSUME NEW c \in Canceller, NEW r \in Request, CancelTree(c, r) PROVE Goal
  <2>1. Contract!Stop(r)
    BY <1>6, TreeIsRequest, StatusSets DEF CancelTree, Contract!Stop
  <2>2. QED
    BY <2>1
<1>7. CASE MarkRestarted
  <2>1. Contract!Recover
    BY <1>7, StatusSets DEF MarkRestarted, Contract!Recover
  <2>2. QED
    BY <2>1
<1>8. QED
  BY <1>1, <1>2, <1>3, <1>4, <1>5, <1>6, <1>7, RowSteps

-----------------------------------------------------------------------------
(* What a step of the contract preserves *)

\* Whatever the task table does, delegation stays one level deep and within
\* one request.
LEMMA RowLineage ==
  ASSUME TypeOK, LineageSound, [Contract!ContractNext]_(Contract!contractVars)
  PROVE  LineageSound'
<1> USE LifecycleAssumption, StatusSets
<1> USE DEF LineageSound, TypeOK, Contract!ContractTypeOK
<1>1. ASSUME NEW r \in Request, NEW T \in SUBSET Task, Contract!Ask(r, T)
      PROVE  LineageSound'
  BY <1>1 DEF Contract!Ask, Contract!Fresh
<1>2. ASSUME NEW p \in Task, NEW t \in Task, Contract!Help(p, t)
      PROVE  LineageSound'
  <2>1. status[p] # "absent" /\ request[p] # NoRequest /\ p # t /\ request[t] = NoRequest
    BY <1>2 DEF Contract!Help
  <2>2. ASSUME NEW u \in Task, parent[u] = t PROVE FALSE
    <3>1. parent[u] # NoTask /\ request[u] = NoRequest
      BY <2>1, <2>2
    <3>2. QED
      BY <3>1
  <2>3. QED
    BY <1>2, <2>1, <2>2 DEF Contract!Help
<1>3. ASSUME NEW t \in Task, Contract!Run(t) \/ Contract!End(t) PROVE LineageSound'
  BY <1>3 DEF Contract!Run, Contract!End
<1>4. ASSUME NEW r \in Request, Contract!Stop(r) PROVE LineageSound'
  BY <1>4 DEF Contract!Stop
<1>5. CASE Contract!Recover
  BY <1>5 DEF Contract!Recover
<1>6. CASE UNCHANGED Contract!contractVars
  BY <1>6 DEF Contract!contractVars
<1>7. QED
  BY <1>1, <1>2, <1>3, <1>4, <1>5, <1>6 DEF Contract!ContractNext

\* A created task keeps its lineage and its request for ever.
LEMMA RowKeeps ==
  ASSUME TypeOK, LineageSound, [Contract!ContractNext]_(Contract!contractVars)
  PROVE  \A t \in Task : request[t] # NoRequest =>
           request'[t] = request[t] /\ parent'[t] = parent[t]
BY DEF LineageSound, TypeOK, Contract!ContractTypeOK, Contract!ContractNext,
       Contract!contractVars, Contract!Ask, Contract!Fresh, Contract!Help, Contract!Run,
       Contract!End, Contract!Stop, Contract!Recover

\* A request that exists and has no active task never gets one again.
LEMMA RowStaysStopped ==
  ASSUME TypeOK, LineageSound, [Contract!ContractNext]_(Contract!contractVars),
         NEW r \in Request, Roots(r) # {},
         \A t \in Task : request[t] = r => status[t] \notin Active
  PROVE  \A t \in Task : request'[t] = r => status'[t] \notin Active
<1> USE LifecycleAssumption, StatusSets
<1> USE DEF LineageSound, TypeOK, Contract!ContractTypeOK
<1> DEFINE Stays == \A t \in Task : request'[t] = r => status'[t] \notin Active
<1>1. ASSUME NEW q \in Request, NEW T \in SUBSET Task, Contract!Ask(q, T) PROVE Stays
  BY <1>1 DEF Contract!Ask, Contract!Fresh, Roots
<1>2. ASSUME NEW p \in Task, NEW t \in Task, Contract!Help(p, t) PROVE Stays
  BY <1>2 DEF Contract!Help
<1>3. ASSUME NEW t \in Task, Contract!Run(t) \/ Contract!End(t) PROVE Stays
  BY <1>3 DEF Contract!Run, Contract!End
<1>4. ASSUME NEW q \in Request, Contract!Stop(q) PROVE Stays
  BY <1>4 DEF Contract!Stop
<1>5. CASE Contract!Recover
  BY <1>5 DEF Contract!Recover
<1>6. CASE UNCHANGED Contract!contractVars
  BY <1>6 DEF Contract!contractVars
<1>7. QED
  BY <1>1, <1>2, <1>3, <1>4, <1>5, <1>6 DEF Contract!ContractNext

\* The contract never rewrites the status of a task that has ended.
LEMMA RowFinal ==
  ASSUME TypeOK, [Contract!ContractNext]_(Contract!contractVars)
  PROVE  \A t \in Task : status[t] \in Terminal => status'[t] = status[t]
BY StatusSets
   DEF TypeOK, Contract!ContractTypeOK, Contract!ContractNext, Contract!contractVars,
       Contract!Ask, Contract!Fresh, Contract!Help, Contract!Run, Contract!End,
       Contract!Stop, Contract!Recover

-----------------------------------------------------------------------------
(* Cancellation calls *)

\* A call in progress was in progress for the same request and the same tree,
\* with nothing new to do, or has just marked the tree of its request.
LEMMA CallSteps ==
  ASSUME TypeOK, [Next]_vars, NEW c \in Canceller, canc'[c].phase # "idle"
  PROVE  \/ /\ canc[c].phase # "idle" /\ canc'[c].request = canc[c].request
            /\ canc'[c].targets = canc[c].targets
            /\ canc'[c].todo \subseteq canc[c].targets \cup canc[c].todo
         \/ \E r \in Request : CancelTree(c, r) /\ canc'[c].request = r
<1> DEFINE Kept == /\ canc[c].phase # "idle" /\ canc'[c].request = canc[c].request
                   /\ canc'[c].targets = canc[c].targets
                   /\ canc'[c].todo \subseteq canc[c].targets \cup canc[c].todo
<1> USE DEF TypeOK
<1>1. CASE canc' = canc
  BY <1>1
<1>2. ASSUME NEW d \in Canceller, NEW r \in Request, CancelTree(d, r)
      PROVE  Kept \/ (d = c /\ canc'[c].request = r)
  BY <1>2 DEF CancelTree
<1>3. ASSUME NEW d \in Canceller, CancelStep(d) PROVE Kept
  <2>1. CASE CancelFinalize(d)
    BY <2>1 DEF CancelFinalize, Call
  <2>2. CASE InterruptAll(d)
    BY <2>2 DEF InterruptAll, Call
  <2>3. CASE \E t \in Task : Interrupted(d, t)
    BY <2>3 DEF Interrupted, Call
  <2>4. CASE CancelReturn(d)
    BY <2>4 DEF CancelReturn, IdleCall
  <2>5. QED
    BY <1>3, <2>1, <2>2, <2>3, <2>4 DEF CancelStep
<1>4. CASE Exit \/ Crash
  BY <1>4 DEF Exit, Crash, LoseMemory, IdleCall
<1>5. \/ canc' = canc \/ Exit \/ Crash
      \/ \E d \in Canceller, r \in Request : CancelTree(d, r)
      \/ \E d \in Canceller : CancelStep(d)
  <2>1. CASE \E t \in Task : Worker(t) \/ Receive(t) \/ ProposeSkill(t) \/ CloseTurn(t)
    BY <2>1 DEF Worker, Begin, StartTurn, EndTurn, TurnInterrupted, TurnFails, Thrown,
                SaveReply, Finish, FinalizeSkills, AppendEvent, Relay, Release, Receive,
                ProposeSkill, CloseTurn, Settles
  <2>2. CASE \/ \E r \in Request, T \in SUBSET Task : Send(r, T)
             \/ \E p, t \in Task : Delegate(p, t)
             \/ Close \/ MarkRestarted \/ FinishRecovery \/ UNCHANGED vars
    BY <2>2 DEF Send, Delegate, Close, MarkRestarted, FinishRecovery, vars
  <2>3. QED
    BY <2>1, <2>2 DEF Next
<1>6. QED
  BY <1>1, <1>2, <1>3, <1>4, <1>5

\* A step leaves no active task in a request whose cancellation is under way.
LEMMA CallsStep ==
  ASSUME TypeOK, WorkerFitsRow, LineageSound, CallsSound, RequestStopped, [Next]_vars
  PROVE  CallsSound' /\ RequestStopped'
<1>1. [Contract!ContractNext]_(Contract!contractVars)
  BY StepImplements
<1> DEFINE Rooted(r) == \E t \in Task : request'[t] = r /\ parent'[t] = NoTask
<1> DEFINE Halted(r) == \A t \in Task : request'[t] = r => status'[t] \notin Active
<1>2. ASSUME NEW r \in Request, Roots(r) # {} PROVE Rooted(r)
  BY <1>1, <1>2, RowKeeps, LifecycleAssumption DEF Roots
<1>3. ASSUME NEW c \in Canceller, canc'[c].phase # "idle"
      PROVE  canc'[c].request \in Request /\ Rooted(canc'[c].request) /\ Halted(canc'[c].request)
  <2>1. CASE canc[c].phase # "idle" /\ canc'[c].request = canc[c].request
    <3>1. canc[c].request \in Request /\ Roots(canc[c].request) # {}
      BY <2>1 DEF CallsSound
    <3>2. Halted(canc[c].request)
      BY <1>1, <2>1, <3>1, RowStaysStopped DEF RequestStopped
    <3>3. QED
      BY <1>2, <2>1, <3>1, <3>2
  <2>2. ASSUME NEW r \in Request, CancelTree(c, r), canc'[c].request = r
        PROVE  Rooted(r) /\ Halted(r)
    <3>1. Rooted(r)
      BY <1>2, <2>2 DEF CancelTree
    <3>2. Halted(r)
      BY <2>2, TreeIsRequest, StatusSets DEF CancelTree
    <3>3. QED
      BY <3>1, <3>2
  <2>3. QED
    BY <1>3, <2>1, <2>2, CallSteps
<1>4. CallsSound'
  BY <1>3 DEF CallsSound, Roots
<1>5. RequestStopped'
  BY <1>3, StatusSets DEF RequestStopped
<1>6. QED
  BY <1>4, <1>5

-----------------------------------------------------------------------------
(* Workers *)

\* A step of one worker disturbs no other: their rows, labels and branches
\* stay, and they keep their flags.
LEMMA OthersFit ==
  ASSUME WorkerFitsRow, mode' = mode, NEW t \in Task, FitsRow(t)',
         \A u \in Task \ {t} : /\ status'[u] = status[u]
                               /\ pc'[u] = pc[u]
                               /\ outcome'[u] = outcome[u]
                               /\ u \in flagged => u \in flagged'
  PROVE  WorkerFitsRow'
BY DEF WorkerFitsRow, FitsRow

\* A step leaves every worker at a place that fits its row and its branch.
LEMMA WorkerStep ==
  ASSUME TypeOK, WorkerFitsRow, [Next]_vars
  PROVE  WorkerFitsRow'
<1> USE StatusSets
<1> USE DEF TypeOK, Contract!ContractTypeOK, durable, worker, At
<1> DEFINE Fits == WorkerFitsRow'
<1>1. ASSUME NEW r \in Request, NEW T \in SUBSET Task, Send(r, T) PROVE Fits
  <2>1. ASSUME NEW t \in T PROVE FitsRow(t)'
    <3>1. pc[t] \in {"none", "releasing"} /\ status'[t] = "queued" /\ mode' # "down"
      BY <1>1 DEF Send, Contract!Fresh, LoopFree, WorkerFitsRow, FitsRow, PC, Settle, Outcome
    <3>2. pc'[t] \in {"none", "releasing", "scheduled"}
      BY <1>1, <3>1 DEF Send
    <3>3. QED
      BY <3>1, <3>2 DEF FitsRow
  <2>2. ASSUME NEW t \in Task \ T PROVE FitsRow(t)'
    <3>1. /\ status'[t] = status[t] /\ pc'[t] = pc[t] /\ outcome' = outcome
          /\ flagged' = flagged /\ mode' = mode
      BY <1>1 DEF Send
    <3>2. QED
      BY <3>1 DEF WorkerFitsRow, FitsRow
  <2>3. QED
    BY <2>1, <2>2 DEF WorkerFitsRow
<1>2. ASSUME NEW p \in Task, NEW t \in Task, Delegate(p, t) PROVE Fits
  BY <1>2 DEF Delegate, LoopFree, WorkerFitsRow, FitsRow
<1>3. ASSUME NEW t \in Task, Begin(t) PROVE Fits
  <2>1. mode' = mode /\ mode # "down"
    BY <1>3 DEF Begin, Resumes, LoopFree
  <2>2. \/ status'[t] = "running" /\ pc'[t] = "starting"
        \/ pc'[t] = "releasing"
    BY <1>3 DEF Begin
  <2>3. FitsRow(t)'
    BY <2>1, <2>2 DEF FitsRow
  <2>4. \A u \in Task \ {t} : /\ status'[u] = status[u]
                              /\ pc'[u] = pc[u]
                              /\ outcome'[u] = outcome[u]
                              /\ u \in flagged => u \in flagged'
    BY <1>3 DEF Begin
  <2>5. QED
    BY <2>1, <2>3, <2>4, OthersFit
<1>4. ASSUME NEW t \in Task, StartTurn(t) PROVE Fits
  BY <1>4, OthersFit DEF StartTurn, Resumes, WorkerFitsRow, FitsRow
<1>5. ASSUME NEW t \in Task,
             Receive(t) \/ EndTurn(t) \/ TurnInterrupted(t) \/ TurnFails(t)
      PROVE  Fits
  <2>1. CASE pc' = pc
    <3>1. pc[t] \in {"starting", "streaming"}
      BY <1>5 DEF Receive, EndTurn, TurnInterrupted, TurnFails, Resumes
    <3>2. \A o \in Outcome : ~Settles(t, o)
      BY <2>1, <3>1 DEF Settles
    <3>3. UNCHANGED <<status, outcome, flagged, mode>>
      BY <1>5, <3>2 DEF Receive, EndTurn, TurnInterrupted, TurnFails, Outcome
    <3>4. QED
      BY <2>1, <3>3 DEF WorkerFitsRow, FitsRow
  <2>2. ASSUME NEW o \in {"completed", "failed", "cancelled"}, Settles(t, o)
        PROVE  Fits
    BY <1>5, <2>2, OthersFit
       DEF Receive, EndTurn, TurnInterrupted, TurnFails, Resumes, Settles,
           WorkerFitsRow, FitsRow
  <2>3. QED
    BY <1>5, <2>1, <2>2 DEF Receive, EndTurn, TurnInterrupted, TurnFails
<1>6. ASSUME NEW t \in Task, Thrown(t) PROVE Fits
  <2>1. mode' = mode /\ mode # "down"
    BY <1>6 DEF Thrown, LoopFree
  <2>2. \/ pc'[t] \in {"none", "releasing"}
        \/ /\ pc[t] \in {"starting", "streaming"} /\ status' = status
           /\ pc'[t] = "reply" /\ outcome'[t] = "cancelled"
    BY <1>6 DEF Thrown
  <2>3. FitsRow(t)'
    BY <2>1, <2>2 DEF WorkerFitsRow, FitsRow
  <2>4. \A u \in Task \ {t} : /\ status'[u] = status[u]
                              /\ pc'[u] = pc[u]
                              /\ outcome'[u] = outcome[u]
                              /\ u \in flagged => u \in flagged'
    BY <1>6 DEF Thrown, Forget
  <2>5. QED
    BY <2>1, <2>3, <2>4, OthersFit
<1>7. ASSUME NEW t \in Task, SaveReply(t) PROVE Fits
  BY <1>7, OthersFit DEF SaveReply, WorkerFitsRow, FitsRow
<1>8. ASSUME NEW t \in Task, Finish(t) PROVE Fits
  <2>1. mode' = mode /\ mode # "down" /\ outcome' = outcome
    BY <1>8 DEF Finish
  <2>2. \/ pc'[t] = "releasing"
        \/ pc'[t] \in {"skills", "event"} /\ status'[t] = outcome[t]
    BY <1>8 DEF Finish, Leave
  <2>3. FitsRow(t)'
    BY <2>1, <2>2 DEF FitsRow
  <2>4. \A u \in Task \ {t} : /\ status'[u] = status[u]
                              /\ pc'[u] = pc[u]
                              /\ u \in flagged => u \in flagged'
    BY <1>8 DEF Finish, Leave
  <2>5. QED
    BY <2>1, <2>3, <2>4, OthersFit
<1>9. ASSUME NEW t \in Task, FinalizeSkills(t) PROVE Fits
  BY <1>9, OthersFit DEF FinalizeSkills, Leave, WorkerFitsRow, FitsRow
<1>10. ASSUME NEW t \in Task, AppendEvent(t) PROVE Fits
  BY <1>10, OthersFit DEF AppendEvent, WorkerFitsRow, FitsRow
<1>11. ASSUME NEW t \in Task, Relay(t) PROVE Fits
  BY <1>11, OthersFit DEF Relay, Leave, WorkerFitsRow, FitsRow
<1>12. ASSUME NEW t \in Task, Release(t) PROVE Fits
  BY <1>12, OthersFit DEF Release, Forget, WorkerFitsRow, FitsRow
<1>13. ASSUME NEW t \in Task, CloseTurn(t) \/ ProposeSkill(t) PROVE Fits
  BY <1>13 DEF CloseTurn, ProposeSkill, WorkerFitsRow, FitsRow
<1>14. ASSUME NEW c \in Canceller, NEW r \in Request, CancelTree(c, r) PROVE Fits
  <2>1. \A t \in Task : pc[t] \notin Settle
    BY <1>14 DEF CancelTree, LoopFree, Settling
  <2>2. QED
    BY <1>14, <2>1 DEF CancelTree, Settle, WorkerFitsRow, FitsRow
<1>15. ASSUME NEW c \in Canceller, CancelStep(c) PROVE Fits
  BY <1>15 DEF CancelStep, CancelFinalize, InterruptAll, Interrupted, CancelReturn,
               WorkerFitsRow, FitsRow
<1>16. CASE Close
  BY <1>16 DEF Close, WorkerFitsRow, FitsRow
<1>17. CASE Exit \/ Crash
  BY <1>17 DEF Exit, Crash, LoseMemory, WorkerFitsRow, FitsRow
<1>18. CASE MarkRestarted
  BY <1>18 DEF MarkRestarted, WorkerFitsRow, FitsRow
<1>19. CASE FinishRecovery
  BY <1>19 DEF FinishRecovery, WorkerFitsRow, FitsRow
<1>20. CASE UNCHANGED vars
  BY <1>20 DEF vars, WorkerFitsRow, FitsRow
<1>21. QED
  BY <1>1, <1>2, <1>3, <1>4, <1>5, <1>6, <1>7, <1>8, <1>9, <1>10, <1>11, <1>12,
     <1>13, <1>14, <1>15, <1>16, <1>17, <1>18, <1>19, <1>20
     DEF Next, Worker

-----------------------------------------------------------------------------
(* Theorems *)

\* The service starts with no task, no worker and no cancellation.
LEMMA InitIInv == Init => IInv
<1> SUFFICES ASSUME Init PROVE IInv
  OBVIOUS
<1>1. TypeOK
  BY InitTyped
<1>2. WorkerFitsRow
  BY DEF Init, WorkerFitsRow, FitsRow
<1>3. LineageSound
  BY DEF Init, Contract!ContractInit, LineageSound
<1>4. CallsSound /\ RequestStopped
  BY DEF Init, IdleCall, CallsSound, RequestStopped
<1>5. QED
  BY <1>1, <1>2, <1>3, <1>4 DEF IInv

\* The invariant is inductive.
LEMMA IInvStep == IInv /\ [Next]_vars => IInv'
<1> SUFFICES ASSUME IInv, [Next]_vars PROVE IInv'
  OBVIOUS
<1>1. TypeOK'
  BY TypedStep DEF IInv
<1>2. WorkerFitsRow'
  BY WorkerStep DEF IInv
<1>3. LineageSound'
  BY StepImplements, RowLineage DEF IInv
<1>4. CallsSound' /\ RequestStopped'
  BY CallsStep DEF IInv
<1>5. QED
  BY <1>1, <1>2, <1>3, <1>4 DEF IInv

\* Worker, row, lineage and cancellation flag never contradict each other.
THEOREM InvariantHolds == Spec => []IInv
BY InitIInv, IInvStep, PTL DEF Spec

\* A cancelled request has no active task, for every number of concurrent
\* cancellations, delegations and restarts.
THEOREM CancellationStops == Spec => []RequestStopped
<1>1. IInv => RequestStopped
  BY DEF IInv
<1>2. QED
  BY <1>1, InvariantHolds, PTL

\* The result of a task that has ended is never rewritten.
THEOREM ResultsAreFinal == Spec => TerminalIsFinal
<1>1. IInv /\ [Next]_vars =>
        [\A t \in Task : status[t] \in Terminal => status'[t] = status[t]]_vars
  BY StepImplements, RowFinal DEF IInv
<1>2. QED
  BY <1>1, InvariantHolds, PTL DEF Spec, TerminalIsFinal

\* The task table behaves as TaskContract says, whatever the workers, the
\* cancelling calls, the shutdowns and the crashes do.
THEOREM Refinement == Spec => ImplementsContract
<1>1. Init => Contract!ContractInit
  BY DEF Init
<1>2. IInv /\ [Next]_vars => [Contract!ContractNext]_(Contract!contractVars)
  BY StepImplements DEF IInv
<1>3. QED
  BY <1>1, <1>2, InvariantHolds, PTL DEF Spec, ImplementsContract, Contract!ContractSpec

-----------------------------------------------------------------------------
(* No task is stranded *)

\* Part of the inductive invariant of NoStrandedTask: a worker is gone, or
\* about to go, only when its task has ended, and recovery has ended every
\* task before the service accepts work again.
Attended(t) ==
  /\ mode = "up" => /\ status[t] \in Active => pc[t] # "none"
                    /\ thrown[t] \/ pc[t] = "releasing" => status[t] \in Terminal
  /\ mode = "recovering" => status[t] \notin Active
  /\ mode \in {"down", "recovering"} => pc[t] = "none" /\ ~thrown[t]

\* A cancelling call only ever names tasks of the request it cancels.
TargetsSound ==
  \A c \in Canceller : canc[c].phase # "idle" =>
    \A t \in canc[c].targets \cup canc[c].todo : request[t] = canc[c].request

AttendedInv == TargetsSound /\ \A t \in Task : Attended(t)

\* A cancelling call keeps naming tasks of its own request.
LEMMA TargetsStep ==
  ASSUME IInv, TargetsSound, [Next]_vars
  PROVE  TargetsSound'
<1> SUFFICES ASSUME NEW c \in Canceller, canc'[c].phase # "idle",
                    NEW t \in canc'[c].targets \cup canc'[c].todo
             PROVE  request'[t] = canc'[c].request
  BY DEF TargetsSound
<1> USE DEF IInv
<1>1. CASE /\ canc[c].phase # "idle" /\ canc'[c].request = canc[c].request
           /\ canc'[c].targets = canc[c].targets
           /\ canc'[c].todo \subseteq canc[c].targets \cup canc[c].todo
  <2>1. t \in Task /\ request[t] = canc[c].request /\ canc[c].request \in Request
    BY <1>1 DEF TargetsSound, CallsSound, TypeOK, Call
  <2>2. request'[t] = request[t]
    BY <2>1, RowKeeps, StepImplements, LifecycleAssumption
  <2>3. QED
    BY <1>1, <2>1, <2>2
<1>2. ASSUME NEW r \in Request, CancelTree(c, r), canc'[c].request = r
      PROVE  request'[t] = canc'[c].request
  <2>1. Tree(Roots(r)) = {u \in Task : request[u] = r}
    BY TreeIsRequest
  <2>2. t \in Tree(Roots(r)) /\ request' = request
    BY <1>2 DEF CancelTree, TypeOK
  <2>3. QED
    BY <1>2, <2>1, <2>2
<1>3. QED
  BY <1>1, <1>2, CallSteps

\* Only the worker t moves: the others stay attended.
LEMMA OthersAttended ==
  ASSUME \A u \in Task : Attended(u), mode' = mode, NEW t \in Task, Attended(t)',
         \A u \in Task \ {t} : /\ status'[u] = status[u]
                               /\ pc'[u] = pc[u]
                               /\ thrown'[u] = thrown[u]
  PROVE  \A u \in Task : Attended(u)'
BY DEF Attended

\* A step leaves no active task without a worker.
LEMMA AttendedStep ==
  ASSUME IInv, AttendedInv, [Next]_vars
  PROVE  \A t \in Task : Attended(t)'
<1> USE StatusSets
<1> USE DEF IInv, TypeOK, Contract!ContractTypeOK, durable, worker, At
<1> DEFINE Kept == \A t \in Task : Attended(t)'
<1>a. \A t \in Task : Attended(t)
  BY DEF AttendedInv
<1>1. ASSUME NEW r \in Request, NEW T \in SUBSET Task, Send(r, T) PROVE Kept
  BY <1>1, <1>a DEF Send, Contract!Fresh, LoopFree, Attended
<1>2. ASSUME NEW p \in Task, NEW t \in Task, Delegate(p, t) PROVE Kept
  BY <1>2, <1>a DEF Delegate, LoopFree, Attended
<1>3. ASSUME NEW t \in Task, Begin(t) PROVE Kept
  <2>1. mode' = mode /\ LoopFree /\ pc[t] = "scheduled" /\ ~thrown[t] /\ thrown' = thrown
    BY <1>3 DEF Begin, Resumes
  <2>2. status[t] \in {"queued", "cancelled"}
    BY <2>1 DEF WorkerFitsRow, FitsRow
  <2>3. \/ pc'[t] = "starting"
        \/ pc'[t] = "releasing" /\ status'[t] = "cancelled"
    BY <1>3, <2>2 DEF Begin
  <2>4. Attended(t)'
    BY <2>1, <2>3 DEF Attended, LoopFree
  <2>5. QED
    BY <1>3, <1>a, <2>1, <2>4, OthersAttended DEF Begin
<1>4. ASSUME NEW t \in Task,
             \/ StartTurn(t) \/ Receive(t) \/ EndTurn(t)
             \/ TurnInterrupted(t) \/ TurnFails(t)
      PROVE  Kept
  <2>1. mode' = mode /\ LoopFree /\ ~thrown[t] /\ thrown' = thrown /\ status' = status
    BY <1>4 DEF StartTurn, Receive, EndTurn, TurnInterrupted, TurnFails, Settles, Resumes
  <2>2. pc'[t] \in {"starting", "streaming", "reply", "finish"}
    BY <1>4 DEF StartTurn, Receive, EndTurn, TurnInterrupted, TurnFails, Settles, Resumes
  <2>3. Attended(t)'
    BY <2>1, <2>2 DEF Attended, LoopFree
  <2>4. \A u \in Task \ {t} : pc'[u] = pc[u]
    BY <1>4 DEF StartTurn, Receive, EndTurn, TurnInterrupted, TurnFails, Settles
  <2>5. QED
    BY <1>a, <2>1, <2>3, <2>4, OthersAttended
<1>5. ASSUME NEW t \in Task, Thrown(t) PROVE Kept
  <2>1. mode' = mode /\ LoopFree /\ thrown[t] /\ ~thrown'[t] /\ status' = status
    BY <1>5 DEF Thrown
  <2>2. mode = "up" => status[t] \in Terminal
    BY <1>a, <2>1 DEF Attended
  <2>3. Attended(t)'
    BY <2>1, <2>2 DEF Attended, LoopFree
  <2>4. \A u \in Task \ {t} : pc'[u] = pc[u] /\ thrown'[u] = thrown[u]
    BY <1>5 DEF Thrown
  <2>5. QED
    BY <1>a, <2>1, <2>3, <2>4, OthersAttended
<1>6. ASSUME NEW t \in Task,
             SaveReply(t) \/ Finish(t) \/ FinalizeSkills(t) \/ AppendEvent(t) \/ Relay(t)
      PROVE  Kept
  <2>1. mode' = mode /\ mode # "down" /\ thrown' = thrown /\ pc[t] # "none"
    BY <1>6 DEF SaveReply, Finish, FinalizeSkills, AppendEvent, Relay
  <2>2. mode \in {"up", "closing"}
    BY <1>a, <2>1 DEF Attended
  <2>3. pc'[t] # "none" /\ (pc'[t] = "releasing" => status'[t] \in Terminal)
    BY <1>6 DEF SaveReply, Finish, FinalizeSkills, AppendEvent, Relay, Leave,
                WorkerFitsRow, FitsRow, Outcome
  <2>4. mode = "up" /\ thrown[t] => status'[t] \in Terminal
    <3>1. mode = "up" /\ thrown[t] => status[t] \in Terminal
      BY <1>a DEF Attended
    <3>2. status[t] \in Terminal => status'[t] = status[t]
      BY StepImplements, RowFinal
    <3>3. QED
      BY <3>1, <3>2
  <2>5. Attended(t)'
    BY <2>1, <2>2, <2>3, <2>4 DEF Attended
  <2>6. \A u \in Task \ {t} : pc'[u] = pc[u] /\ status'[u] = status[u]
    BY <1>6 DEF SaveReply, Finish, FinalizeSkills, AppendEvent, Relay, Leave
  <2>7. QED
    BY <1>a, <2>1, <2>5, <2>6, OthersAttended
<1>7. ASSUME NEW t \in Task, Release(t) PROVE Kept
  BY <1>7, <1>a DEF Release, Resumes, LoopFree, Attended
<1>8. ASSUME NEW t \in Task, CloseTurn(t) \/ ProposeSkill(t) PROVE Kept
  BY <1>8, <1>a DEF CloseTurn, ProposeSkill, Attended
<1>9. ASSUME NEW c \in Canceller, NEW r \in Request, CancelTree(c, r) PROVE Kept
  BY <1>9, <1>a DEF CancelTree, LoopFree, Attended
<1>10. ASSUME NEW c \in Canceller, CancelStep(c) PROVE Kept
  <2>1. CASE CancelFinalize(c) \/ InterruptAll(c) \/ CancelReturn(c)
    BY <1>a, <2>1 DEF CancelFinalize, InterruptAll, CancelReturn, Attended
  <2>2. ASSUME NEW t \in Task, Interrupted(c, t) PROVE Kept
    <3>1. request[t] = canc[c].request /\ canc[c].phase # "idle"
      BY <2>2 DEF Interrupted, AttendedInv, TargetsSound
    <3>2. status[t] \notin Active /\ request[t] \in Request
      BY <3>1 DEF RequestStopped, CallsSound
    <3>3. status[t] \in Terminal
      BY <3>2, LifecycleAssumption DEF LineageSound, Contract!Status
    <3>4. /\ mode' = mode /\ LoopFree /\ status' = status /\ pc' = pc
          /\ \A u \in Task \ {t} : thrown'[u] = thrown[u]
      BY <2>2 DEF Interrupted
    <3>5. Attended(t)'
      BY <3>3, <3>4 DEF Attended, LoopFree
    <3>6. QED
      BY <1>a, <3>4, <3>5, OthersAttended
  <2>3. QED
    BY <1>10, <2>1, <2>2 DEF CancelStep
<1>11. CASE Close
  BY <1>11, <1>a DEF Close, Attended
<1>12. CASE Exit \/ Crash
  BY <1>12 DEF Exit, Crash, LoseMemory, Attended
<1>13. CASE MarkRestarted
  BY <1>13, <1>a DEF MarkRestarted, Attended
<1>14. CASE FinishRecovery
  BY <1>14, <1>a DEF FinishRecovery, Attended
<1>15. CASE UNCHANGED vars
  BY <1>15, <1>a DEF vars, Attended
<1>16. QED
  BY <1>1, <1>2, <1>3, <1>4, <1>5, <1>6, <1>7, <1>8, <1>9, <1>10, <1>11, <1>12,
     <1>13, <1>14, <1>15
     DEF Next, Worker

\* While the service accepts work, an active task has a live worker, through
\* every cancellation, shutdown, crash and restart.
THEOREM NothingIsStranded == Spec => []NoStrandedTask
<1>1. Init => AttendedInv
  BY StatusSets DEF Init, Contract!ContractInit, IdleCall, AttendedInv, TargetsSound, Attended
<1>2. IInv /\ AttendedInv /\ [Next]_vars => AttendedInv'
  BY TargetsStep, AttendedStep DEF AttendedInv
<1>3. AttendedInv => NoStrandedTask
  BY DEF AttendedInv, Attended, NoStrandedTask
<1>4. QED
  BY <1>1, <1>2, <1>3, InvariantHolds, PTL DEF Spec

-----------------------------------------------------------------------------
(* The records of a result agree *)

\* The inductive invariant of ResultsAgree: besides what that property says,
\* a worker that is yet to write the terminal event finds none, and an answer
\* saved for a task that still runs is that of its worker's branch, which has
\* only the row left to settle (or died there).
ResultFits(t) ==
  /\ \A i, j \in Terminals(t) : i = j
  /\ \A i \in Terminals(t) :
       status[t] \in Terminal /\ events[t][i] = EventOf(status[t])
  /\ pc[t] = "event" \/ (pc[t] = "skills" /\ outcome[t] = "completed") =>
       Terminals(t) = {}
  /\ replies[t] # {"final", "partial"}
  /\ "final" \in replies[t] =>
       \/ status[t] \in {"completed", "failed"}
       \/ status[t] = "running" /\ (mode = "down" \/ (pc[t] = "finish" /\ outcome[t] = "completed"))
  /\ "partial" \in replies[t] =>
       \/ status[t] \in {"cancelled", "failed"}
       \/ status[t] = "running" /\ (mode = "down" \/ (pc[t] = "finish" /\ outcome[t] = "cancelled"))
  /\ skill[t] = "ready" => status[t] = "completed"

ResultsFit == \A t \in Task : ResultFits(t)

\* Logging an event adds its place to the terminal ones, or changes none.
LEMMA LoggedTerminals ==
  ASSUME events \in [Task -> Seq(Event)], NEW t \in Task, NEW e \in Event,
         events'[t] = Append(events[t], e)
  PROVE  /\ Terminals(t)' = IF e \in TerminalEvent
                              THEN Terminals(t) \cup {Len(events[t]) + 1}
                              ELSE Terminals(t)
         /\ \A i \in Terminals(t) : events'[t][i] = events[t][i]
         /\ events'[t][Len(events[t]) + 1] = e
<1>1. events[t] \in Seq(Event)
  OBVIOUS
<1>2. /\ DOMAIN events'[t] = DOMAIN events[t] \cup {Len(events[t]) + 1}
      /\ \A i \in DOMAIN events[t] : events'[t][i] = events[t][i]
      /\ events'[t][Len(events[t]) + 1] = e
  BY <1>1
<1>3. QED
  BY <1>2 DEF Terminals

\* Every branch of a worker has its own terminal event.
LEMMA OutcomeEvents ==
  \A o \in Outcome : EventOf(o) \in TerminalEvent /\ EventOf(o) \in Event
BY DEF EventOf, Outcome, TerminalEvent, Event

\* A step that changes none of the records of u, and moves its worker neither
\* towards its event nor away from its last answer, keeps them in agreement.
LEMMA ResultKept ==
  ASSUME NEW u \in Task, ResultFits(u),
         status'[u] = status[u], events'[u] = events[u], replies'[u] = replies[u],
         skill'[u] = skill[u] \/ skill'[u] # "ready",
         mode = "down" => mode' = "down",
         \/ mode' = "down"
         \/ pc[u] # "finish"
         \/ pc'[u] = "finish" /\ outcome'[u] = outcome[u],
         pc'[u] = "event" \/ (pc'[u] = "skills" /\ outcome'[u] = "completed")
           => pc[u] = "event" \/ (pc[u] = "skills" /\ outcome[u] = "completed")
  PROVE  ResultFits(u)'
<1>1. Terminals(u)' = Terminals(u)
  BY DEF Terminals
<1>2. QED
  BY <1>1 DEF ResultFits

\* Only the records of t change: those of the others stay in agreement.
LEMMA OthersResults ==
  ASSUME ResultsFit, mode' = mode, NEW t \in Task, ResultFits(t)',
         \A u \in Task \ {t} : /\ status'[u] = status[u]
                               /\ events'[u] = events[u]
                               /\ replies'[u] = replies[u]
                               /\ skill'[u] = skill[u]
                               /\ pc'[u] = pc[u]
                               /\ outcome'[u] = outcome[u]
  PROVE  ResultsFit'
<1>1. ASSUME NEW u \in Task \ {t} PROVE ResultFits(u)'
  <2>1. ResultFits(u)
    BY DEF ResultsFit
  <2>2. QED
    BY <2>1, ResultKept
<1>2. QED
  BY <1>1 DEF ResultsFit

\* The steps of a worker that write to one of the four records.
LEMMA ResultWorkerStep ==
  ASSUME IInv, ResultsFit, NEW t \in Task,
         \/ Begin(t) \/ SaveReply(t) \/ Finish(t) \/ FinalizeSkills(t)
         \/ AppendEvent(t) \/ ProposeSkill(t)
  PROVE  ResultsFit'
<1> USE StatusSets
<1> USE DEF IInv, TypeOK, Contract!ContractTypeOK, durable, worker, At
<1>a. ResultFits(t)
  BY DEF ResultsFit
<1>b. FitsRow(t)
  BY DEF WorkerFitsRow
<1>1. CASE Begin(t)
  <2>1. /\ mode' = mode /\ mode # "down" /\ outcome' = outcome
        /\ UNCHANGED <<events, replies, skill>>
    BY <1>1 DEF Begin, Resumes, LoopFree
  <2>2. pc[t] = "scheduled" /\ pc'[t] \in {"starting", "releasing"}
    BY <1>1 DEF Begin, Resumes
  <2>3. Terminals(t)' = Terminals(t)
    BY <2>1 DEF Terminals
  <2>4. \/ status[t] = "queued" /\ status'[t] = "running"
        \/ status'[t] = status[t]
    BY <1>1 DEF Begin
  <2>5. ResultFits(t)'
    BY <1>a, <2>1, <2>2, <2>3, <2>4 DEF ResultFits
  <2>6. \A u \in Task \ {t} : status'[u] = status[u] /\ pc'[u] = pc[u]
    BY <1>1 DEF Begin
  <2>7. QED
    BY <2>1, <2>5, <2>6, OthersResults
<1>2. CASE SaveReply(t)
  <2>1. /\ mode' = mode /\ mode # "down" /\ outcome' = outcome
        /\ pc[t] = "reply" /\ pc'[t] = "finish"
        /\ UNCHANGED <<status, skill>>
    BY <1>2 DEF SaveReply
  <2>2. \/ status[t] = "running"
        \/ status[t] = "cancelled" /\ outcome[t] = "cancelled"
    BY <1>b, <2>1 DEF FitsRow
  <2>3. /\ Terminals(t)' = Terminals(t)
        /\ \A i \in Terminals(t) : events'[t][i] = events[t][i]
    <3>1. CASE events' = events
      BY <3>1 DEF Terminals
    <3>2. CASE Log(t, "partial")
      <4>1. events'[t] = Append(events[t], "partial")
        BY <3>2 DEF Log
      <4>2. "partial" \in Event /\ "partial" \notin TerminalEvent
        BY DEF Event, TerminalEvent
      <4>3. QED
        BY <4>1, <4>2, LoggedTerminals
    <3>3. QED
      BY <1>2, <3>1, <3>2 DEF SaveReply
  <2>4. \/ replies'[t] = replies[t]
        \/ outcome[t] = "completed" /\ replies'[t] = replies[t] \cup {"final"}
        \/ outcome[t] = "cancelled" /\ replies'[t] = replies[t] \cup {"partial"}
    BY <1>2 DEF SaveReply
  <2>5. ResultFits(t)'
    <3>1. "final" \notin replies[t]
      BY <1>a, <2>1, <2>2 DEF ResultFits
    <3>2. status[t] = "running" => "partial" \notin replies[t]
      BY <1>a, <2>1 DEF ResultFits
    <3>3. replies'[t] # {"final", "partial"}
      BY <2>2, <2>4, <3>1, <3>2
    <3>4. "final" \in replies'[t] => outcome[t] = "completed" /\ status[t] = "running"
      BY <2>2, <2>4, <3>1
    <3>5. "partial" \in replies'[t] =>
            status[t] = "cancelled" \/ (outcome[t] = "cancelled" /\ status[t] = "running")
      BY <2>2, <2>4, <3>2
    <3>6. QED
      BY <1>a, <2>1, <2>3, <3>3, <3>4, <3>5 DEF ResultFits
  <2>6. \A u \in Task \ {t} : /\ events'[u] = events[u]
                              /\ replies'[u] = replies[u]
                              /\ pc'[u] = pc[u]
    BY <1>2 DEF SaveReply, Log
  <2>7. QED
    BY <2>1, <2>5, <2>6, OthersResults
<1>3. CASE Finish(t)
  <2>1. /\ mode' = mode /\ mode # "down" /\ outcome' = outcome /\ pc[t] = "finish"
        /\ UNCHANGED <<events, replies, skill>>
    BY <1>3 DEF Finish
  <2>2. \/ status[t] = "running"
        \/ status[t] = "cancelled" /\ outcome[t] = "cancelled"
    BY <1>b, <2>1 DEF FitsRow
  <2>3. Terminals(t)' = Terminals(t)
    BY <2>1 DEF Terminals
  <2>4. \/ /\ status[t] = "running" /\ status'[t] = outcome[t]
        \/ /\ status[t] = "cancelled" /\ status'[t] = status[t]
           /\ pc'[t] = "releasing"
    BY <1>3, <2>2 DEF Finish, Leave
  <2>5. status[t] = "running" => Terminals(t) = {}
    BY <1>a DEF ResultFits
  <2>6. outcome[t] \in {"completed", "failed", "cancelled"}
    BY DEF Outcome
  <2>7. ResultFits(t)'
    BY <1>a, <2>1, <2>3, <2>4, <2>5, <2>6 DEF ResultFits
  <2>8. \A u \in Task \ {t} : status'[u] = status[u] /\ pc'[u] = pc[u]
    BY <1>3 DEF Finish, Leave
  <2>9. QED
    BY <2>1, <2>7, <2>8, OthersResults
<1>4. CASE FinalizeSkills(t)
  <2>1. /\ mode' = mode /\ outcome' = outcome /\ pc[t] = "skills"
        /\ UNCHANGED <<status, events, replies>>
    BY <1>4 DEF FinalizeSkills
  <2>2. status[t] = outcome[t]
    BY <1>b, <2>1 DEF FitsRow
  <2>3. skill'[t] = "ready" => skill[t] = "ready" \/ status[t] = "completed"
    BY <1>4, <2>2 DEF FinalizeSkills, SettleSkill
  <2>4. /\ pc'[t] \in {"event", "releasing"}
        /\ pc'[t] = "event" => outcome[t] = "completed"
    BY <1>4 DEF FinalizeSkills, Leave
  <2>5. Terminals(t)' = Terminals(t)
    BY <2>1 DEF Terminals
  <2>6. ResultFits(t)'
    BY <1>a, <2>1, <2>3, <2>4, <2>5 DEF ResultFits
  <2>7. \A u \in Task \ {t} : skill'[u] = skill[u] /\ pc'[u] = pc[u]
    BY <1>4 DEF FinalizeSkills, SettleSkill, Leave
  <2>8. QED
    BY <2>1, <2>6, <2>7, OthersResults
<1>5. CASE AppendEvent(t)
  <2>1. /\ mode' = mode /\ outcome' = outcome /\ pc[t] = "event"
        /\ UNCHANGED <<status, replies, skill>>
    BY <1>5 DEF AppendEvent
  <2>2. status[t] = outcome[t] /\ outcome[t] \in Outcome
    BY <1>b, <2>1 DEF FitsRow
  <2>3. events'[t] = Append(events[t], EventOf(outcome[t]))
    BY <1>5 DEF AppendEvent, Log
  <2>4. Terminals(t) = {}
    BY <1>a, <2>1 DEF ResultFits
  <2>5. EventOf(outcome[t]) \in TerminalEvent /\ EventOf(outcome[t]) \in Event
    BY <2>2, OutcomeEvents
  <2>6. /\ Terminals(t)' = {Len(events[t]) + 1}
        /\ events'[t][Len(events[t]) + 1] = EventOf(outcome[t])
    BY <2>3, <2>4, <2>5, LoggedTerminals
  <2>7. pc'[t] \in {"relay", "skills"} /\ (pc'[t] = "skills" => outcome[t] # "completed")
    BY <1>5 DEF AppendEvent
  <2>8. status[t] \in Terminal
    BY <2>2 DEF Outcome
  <2>9. ResultFits(t)'
    BY <1>a, <2>1, <2>2, <2>6, <2>7, <2>8 DEF ResultFits
  <2>10. \A u \in Task \ {t} : events'[u] = events[u] /\ pc'[u] = pc[u]
    BY <1>5 DEF AppendEvent, Log
  <2>11. QED
    BY <2>1, <2>9, <2>10, OthersResults
<1>6. CASE ProposeSkill(t)
  <2>1. ASSUME NEW u \in Task PROVE ResultFits(u)'
    <3>1. ResultFits(u)
      BY DEF ResultsFit
    <3>2. QED
      BY <1>6, <3>1, ResultKept DEF ProposeSkill
  <2>2. QED
    BY <2>1 DEF ResultsFit
<1>7. QED
  BY <1>1, <1>2, <1>3, <1>4, <1>5, <1>6

\* A step leaves the records of every task in agreement.
LEMMA ResultsStep ==
  ASSUME IInv, ResultsFit, [Next]_vars
  PROVE  ResultsFit'
<1> USE StatusSets
<1> USE DEF IInv, TypeOK, Contract!ContractTypeOK, durable, worker, At
<1> DEFINE Kept == ResultsFit'
<1>1. ASSUME NEW r \in Request, NEW T \in SUBSET Task, Send(r, T) PROVE Kept
  <2>1. ASSUME NEW t \in Task PROVE ResultFits(t)'
    <3>1. ResultFits(t)
      BY DEF ResultsFit
    <3>2. Terminals(t)' = Terminals(t)
      BY <1>1 DEF Send, Terminals
    <3>3. CASE t \in T
      <4>1. status[t] = "absent" /\ status'[t] = "queued" /\ pc[t] \notin Settle
        BY <1>1, <3>3 DEF Send, Contract!Fresh, LoopFree, Settling
      <4>2. pc'[t] \notin {"event", "skills"}
        BY <1>1, <4>1 DEF Send, Settle
      <4>3. QED
        BY <1>1, <3>1, <3>2, <4>1, <4>2 DEF Send, ResultFits
    <3>4. CASE t \notin T
      BY <1>1, <3>1, <3>4, ResultKept DEF Send
    <3>5. QED
      BY <3>3, <3>4
  <2>2. QED
    BY <2>1 DEF ResultsFit
<1>2. ASSUME NEW p \in Task, NEW t \in Task, Delegate(p, t) PROVE Kept
  <2>1. /\ mode' = mode /\ outcome' = outcome /\ status[t] = "absent"
        /\ status'[t] = "queued" /\ pc'[t] \in {"scheduled", "none"}
        /\ UNCHANGED <<events, replies, skill>>
    BY <1>2 DEF Delegate
  <2>2. ResultFits(t) /\ Terminals(t)' = Terminals(t)
    BY <2>1 DEF ResultsFit, Terminals
  <2>3. ResultFits(t)'
    BY <2>1, <2>2 DEF ResultFits
  <2>4. \A u \in Task \ {t} : status'[u] = status[u] /\ pc'[u] = pc[u]
    BY <1>2 DEF Delegate
  <2>5. QED
    BY <2>1, <2>3, <2>4, OthersResults
<1>3. ASSUME NEW t \in Task,
             \/ StartTurn(t) \/ Receive(t) \/ EndTurn(t) \/ TurnInterrupted(t)
             \/ TurnFails(t) \/ Thrown(t) \/ Release(t)
      PROVE  Kept
  <2>1. /\ mode' = mode /\ LoopFree
        /\ UNCHANGED <<status, events, replies, skill>>
    BY <1>3 DEF StartTurn, Receive, EndTurn, TurnInterrupted, TurnFails, Thrown, Release,
                Settles, Resumes
  <2>2. \A u \in Task : pc[u] # "finish"
    BY <2>1 DEF LoopFree, Settling, Settle
  <2>3. pc'[t] \in {"none", "starting", "streaming", "releasing", "reply", "finish"}
    BY <1>3 DEF StartTurn, Receive, EndTurn, TurnInterrupted, TurnFails, Thrown, Release,
                Settles, Resumes
  <2>4. \A u \in Task \ {t} : pc'[u] = pc[u] /\ outcome'[u] = outcome[u]
    BY <1>3 DEF StartTurn, Receive, EndTurn, TurnInterrupted, TurnFails, Thrown, Release,
                Settles, Forget
  <2>5. ResultFits(t)
    BY DEF ResultsFit
  <2>6. ResultFits(t)'
    BY <2>1, <2>2, <2>3, <2>5, ResultKept
  <2>7. QED
    BY <2>1, <2>4, <2>6, OthersResults
<1>4. ASSUME NEW t \in Task, Relay(t) PROVE Kept
  <2>1. /\ mode' = mode /\ outcome' = outcome /\ pc[t] = "relay" /\ pc'[t] = "releasing"
        /\ UNCHANGED <<status, events, replies, skill>>
    BY <1>4 DEF Relay, Leave
  <2>2. ResultFits(t)
    BY DEF ResultsFit
  <2>3. ResultFits(t)'
    BY <2>1, <2>2, ResultKept
  <2>4. \A u \in Task \ {t} : pc'[u] = pc[u]
    BY <1>4 DEF Relay, Leave
  <2>5. QED
    BY <2>1, <2>3, <2>4, OthersResults
<1>5. ASSUME NEW t \in Task,
             \/ Begin(t) \/ SaveReply(t) \/ Finish(t) \/ FinalizeSkills(t)
             \/ AppendEvent(t) \/ ProposeSkill(t)
      PROVE  Kept
  BY <1>5, ResultWorkerStep
<1>6. ASSUME NEW c \in Canceller, NEW r \in Request, CancelTree(c, r) PROVE Kept
  <2>1. ASSUME NEW t \in Task PROVE ResultFits(t)'
    <3>1. ResultFits(t)
      BY DEF ResultsFit
    <3>2. /\ LoopFree /\ mode' = mode
          /\ UNCHANGED <<replies, skill, pc, outcome>>
      BY <1>6 DEF CancelTree
    <3>3. pc[t] \notin {"event", "skills", "finish"} /\ mode # "down"
      BY <3>2 DEF LoopFree, Settling, Settle
    <3>4. CASE status'[t] = status[t] /\ events'[t] = events[t]
      BY <3>1, <3>2, <3>3, <3>4, ResultKept
    <3>5. CASE /\ status[t] \in Active /\ status'[t] = "cancelled"
               /\ events'[t] = Append(events[t], "task.cancelled")
      <4>1. Terminals(t) = {}
        BY <3>1, <3>5 DEF ResultFits
      <4>2. "task.cancelled" \in Event /\ "task.cancelled" \in TerminalEvent
        BY DEF Event, TerminalEvent
      <4>3. /\ Terminals(t)' = {Len(events[t]) + 1}
            /\ events'[t][Len(events[t]) + 1] = "task.cancelled"
        BY <3>5, <4>1, <4>2, LoggedTerminals
      <4>4. EventOf("cancelled") = "task.cancelled"
        BY DEF EventOf
      <4>5. "final" \notin replies[t] /\ "partial" \notin replies[t] /\ skill[t] # "ready"
        BY <3>1, <3>3, <3>5 DEF ResultFits
      <4>6. QED
        BY <3>2, <3>3, <3>5, <4>3, <4>4, <4>5 DEF ResultFits
    <3>6. QED
      BY <1>6, <3>4, <3>5 DEF CancelTree
  <2>2. QED
    BY <2>1 DEF ResultsFit
<1>7. ASSUME NEW c \in Canceller, CancelStep(c) PROVE Kept
  <2>1. /\ mode' = mode /\ UNCHANGED <<status, events, replies, pc, outcome>>
        /\ \A t \in Task : skill'[t] = skill[t] \/ skill'[t] # "ready"
    BY <1>7 DEF CancelStep, CancelFinalize, InterruptAll, Interrupted, CancelReturn
  <2>2. ASSUME NEW t \in Task PROVE ResultFits(t)'
    <3>1. ResultFits(t)
      BY DEF ResultsFit
    <3>2. QED
      BY <2>1, <3>1, ResultKept
  <2>3. QED
    BY <2>2 DEF ResultsFit
<1>8. ASSUME \/ \E t \in Task : CloseTurn(t)
             \/ Close \/ Exit \/ Crash \/ FinishRecovery \/ UNCHANGED vars
      PROVE  Kept
  <2>1. /\ UNCHANGED <<status, events, replies>>
        /\ mode = "down" => mode' = "down"
        /\ mode' = "down" \/ UNCHANGED <<pc, outcome>>
        /\ \A t \in Task : skill'[t] = skill[t] \/ skill'[t] # "ready"
    BY <1>8 DEF CloseTurn, Close, Exit, Crash, LoseMemory, FinishRecovery, LoopFree, vars
  <2>2. ASSUME NEW t \in Task PROVE ResultFits(t)'
    <3>1. ResultFits(t)
      BY DEF ResultsFit
    <3>2. UNCHANGED <<pc, outcome>> \/ pc'[t] = "none"
      BY <1>8 DEF CloseTurn, Close, Exit, Crash, LoseMemory, FinishRecovery, vars
    <3>3. QED
      BY <2>1, <3>1, <3>2, ResultKept
  <2>3. QED
    BY <2>2 DEF ResultsFit
<1>9. CASE MarkRestarted
  <2>1. ASSUME NEW t \in Task PROVE ResultFits(t)'
    <3>1. ResultFits(t) /\ pc[t] = "none" /\ pc' = pc
      BY <1>9 DEF ResultsFit, MarkRestarted, WorkerFitsRow, FitsRow
    <3>2. Terminals(t)' = Terminals(t) /\ UNCHANGED <<events, replies, skill>>
      BY <1>9 DEF MarkRestarted, Terminals
    <3>3. \/ status[t] \in Active /\ status'[t] = "failed"
          \/ status[t] \notin Active /\ status'[t] = status[t]
      BY <1>9 DEF MarkRestarted
    <3>4. QED
      BY <3>1, <3>2, <3>3 DEF ResultFits
  <2>2. QED
    BY <2>1 DEF ResultsFit
<1>10. QED
  BY <1>1, <1>2, <1>3, <1>4, <1>5, <1>6, <1>7, <1>8, <1>9 DEF Next, Worker

\* The row, the log, the transcript and the learned procedure of a task agree
\* about how it ended, whoever ended it and wherever the process died.
THEOREM RecordsAgree == Spec => []ResultsAgree
<1>1. ASSUME Init PROVE ResultsFit
  <2>1. ASSUME NEW t \in Task PROVE ResultFits(t)
    <3>1. /\ events[t] = <<>> /\ replies[t] = {} /\ skill[t] = "none"
          /\ pc[t] = "none" /\ status[t] = "absent"
      BY <1>1 DEF Init, Contract!ContractInit
    <3>2. Terminals(t) = {}
      BY <3>1 DEF Terminals
    <3>3. QED
      BY <3>1, <3>2 DEF ResultFits
  <2>2. QED
    BY <2>1 DEF ResultsFit
<1>2. IInv /\ ResultsFit /\ [Next]_vars => ResultsFit'
  BY ResultsStep
<1>3. ResultsFit => ResultsAgree
  BY DEF ResultsFit, ResultFits, ResultsAgree
<1>4. QED
  BY <1>1, <1>2, <1>3, InvariantHolds, PTL DEF Spec
=============================================================================
