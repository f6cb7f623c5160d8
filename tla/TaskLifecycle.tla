---------------------------- MODULE TaskLifecycle ----------------------------
(***************************************************************************)
(* The TaskManager of backend/app/tasks.py over the tables of store.py:    *)
(* one worker coroutine per task, user cancellation of a request tree,     *)
(* delegation to colleagues, learned-procedure proposals, and what a       *)
(* shutdown, a crash and a restart leave behind.                           *)
(*                                                                         *)
(* Everything runs on one asyncio event loop, so code between two awaits   *)
(* cannot be interleaved with other coroutines, but the process can die    *)
(* between two of its SQLite transactions.  The settling code of a worker  *)
(* (from its last event to its `finally`) is therefore one pc label per    *)
(* transaction: while a worker is at such a label (Settling) no other      *)
(* coroutine moves, and only Crash can separate two of them.               *)
(***************************************************************************)
EXTENDS Naturals, Sequences

CONSTANTS Task, Request, NoTask, NoRequest, MaxChildren,
          Canceller,    \* concurrent cancellation calls (HTTP handlers)
          Proposer      \* tasks whose turns use the skills_save tool

ASSUME LifecycleAssumption ==
  /\ NoTask \notin Task
  /\ NoRequest \notin Request
  /\ MaxChildren \in Nat
  /\ Proposer \subseteq Task

VARIABLES
  \* durable: rows in SQLite, kept by a crash
  status,       \* tasks.status, "absent" before the row exists
  parent,       \* tasks.parent_task_id and tool_task_lineage
  request,      \* tasks.request_id
  events,       \* task_events rows that settle a task, in id order
  replies,      \* kinds of assistant messages saved for the task
  relayed,      \* tasks with a row in message_collaboration_links
  skill,        \* state of the procedure the task proposed
  \* volatile: lost by a crash
  mode,         \* "down" | "recovering" | "up" | "closing"
  pc,           \* where the worker coroutine of a task is; "none" = no handle
  outcome,      \* which branch of _run the worker settles through
  text,         \* text_parts is not empty
  thrown,       \* handle.cancel() was called, CancelledError not delivered yet
  turn,         \* tasks whose runtime turn still accepts tool calls
  flagged,      \* _cancel_requested
  canc,         \* progress of each _cancel_tree call
  recovered     \* ids TaskManager.start read before it marked them failed

durable  == <<status, parent, request, events, replies, relayed, skill>>
worker   == <<pc, outcome, text, thrown, turn>>
vars     == <<durable, mode, worker, flagged, canc, recovered>>

Contract == INSTANCE TaskContract
Active   == Contract!Active
Terminal == Contract!Terminal
Status   == Contract!Status

Settle   == {"reply", "finish", "skills", "event", "relay"}
PC       == {"none", "scheduled", "starting", "streaming", "releasing"} \cup Settle
Outcome  == {"completed", "failed", "cancelled"}
Event    == {"partial", "task.completed", "task.error", "task.cancelled"}
TerminalEvent == {"task.completed", "task.error", "task.cancelled"}
Skill    == {"none", "pending", "ready", "discarded"}
Phase    == {"idle", "finalizing", "gathering", "waiting"}
IdleCall == [phase |-> "idle", request |-> NoRequest, targets |-> {}, todo |-> {}]
Call     == [phase : Phase, request : Request \cup {NoRequest},
             targets : SUBSET Task,  \* the tree the call marked
             todo : SUBSET Task]     \* still to finalize, or still interrupting

TypeOK ==
  /\ Contract!ContractTypeOK
  /\ events \in [Task -> Seq(Event)]
  /\ replies \in [Task -> SUBSET {"final", "partial"}]
  /\ relayed \subseteq Task
  /\ skill \in [Task -> Skill]
  /\ mode \in {"down", "recovering", "up", "closing"}
  /\ pc \in [Task -> PC]
  /\ outcome \in [Task -> Outcome]
  /\ text \in [Task -> BOOLEAN]
  /\ thrown \in [Task -> BOOLEAN]
  /\ turn \subseteq Task
  /\ flagged \subseteq Task
  /\ canc \in [Canceller -> Call]
  /\ recovered \subseteq Task

Init ==
  /\ Contract!ContractInit
  /\ events = [t \in Task |-> <<>>]
  /\ replies = [t \in Task |-> {}]
  /\ relayed = {}
  /\ skill = [t \in Task |-> "none"]
  /\ mode = "up"
  /\ pc = [t \in Task |-> "none"]
  /\ outcome = [t \in Task |-> "failed"]
  /\ text = [t \in Task |-> FALSE]
  /\ thrown = [t \in Task |-> FALSE]
  /\ turn = {}
  /\ flagged = {}
  /\ canc = [c \in Canceller |-> IdleCall]
  /\ recovered = {}

-----------------------------------------------------------------------------
Settling == \E t \in Task : pc[t] \in Settle
Finalizing == \E c \in Canceller : canc[c].phase = "finalizing"

\* The event loop is free to resume another coroutine.
LoopFree == mode \in {"up", "closing"} /\ ~Settling /\ ~Finalizing

\* The worker of t runs its next step rather than receiving CancelledError.
Resumes(t, label) == LoopFree /\ pc[t] = label /\ ~thrown[t]

At(t, label) == pc' = [pc EXCEPT ![t] = label]
Log(t, e) == events' = [events EXCEPT ![t] = Append(@, e)]
SettleSkill(t, s) == IF skill[t] = "pending" THEN [skill EXCEPT ![t] = s] ELSE skill

\* The locals of _run die with its coroutine.
Forget(t) ==
  /\ text' = [text EXCEPT ![t] = FALSE]
  /\ outcome' = [outcome EXCEPT ![t] = "failed"]

\* request_task_ids and the lineage walk of _cancel_tree: the top-level tasks
\* of a request and everything reached from them through tool_task_lineage.
Roots(r) == {t \in Task : request[t] = r /\ parent[t] = NoTask}
Tree(R) ==
  {t \in Task : \A S \in SUBSET Task :
      (R \subseteq S /\ \A u \in Task : parent[u] \in S => u \in S) => t \in S}

-----------------------------------------------------------------------------
(* Creating work *)

\* messenger.send inserts the request's tasks, then the route submits each.
\* A manager that is shutting down refuses the submission after the commit.
Send(r, T) ==
  /\ LoopFree
  /\ T # {} /\ Contract!Fresh(T) /\ Roots(r) = {}
  /\ status'  = [t \in Task |-> IF t \in T THEN "queued" ELSE status[t]]
  /\ request' = [t \in Task |-> IF t \in T THEN r ELSE request[t]]
  /\ pc' = [t \in Task |-> IF t \in T /\ mode = "up" THEN "scheduled" ELSE pc[t]]
  /\ UNCHANGED <<parent, events, replies, relayed, skill, mode, outcome, text,
                 thrown, turn, flagged, canc, recovered>>

\* Mutant: delegation reads the parent without its cancellation.
MayDelegateStale(p) == parent[p] = NoTask /\ Contract!ChildCount(p) < MaxChildren

\* Mutant: a colleague may delegate further.
MayDelegateDeep(p) ==
  status[p] \in Active /\ p \notin flagged /\ Contract!ChildCount(p) < MaxChildren

\* The guards of the delegate_task tool and of messenger.delegate.
MayDelegate(p) ==
  /\ status[p] \in Active /\ p \notin flagged
  /\ parent[p] = NoTask
  /\ Contract!ChildCount(p) < MaxChildren

Delegate(p, t) ==
  /\ LoopFree /\ p \in turn /\ MayDelegate(p)
  /\ status[t] = "absent"
  /\ status'  = [status  EXCEPT ![t] = "queued"]
  /\ parent'  = [parent  EXCEPT ![t] = p]
  /\ request' = [request EXCEPT ![t] = request[p]]
  /\ pc' = [pc EXCEPT ![t] = IF mode = "up" THEN "scheduled" ELSE "none"]
  /\ UNCHANGED <<events, replies, relayed, skill, mode, outcome, text,
                 thrown, turn, flagged, canc, recovered>>

\* The skills_save tool; a second proposal of the same task leaves it pending.
ProposeSkill(t) ==
  /\ LoopFree /\ t \in turn /\ t \in Proposer
  /\ status[t] \in Active /\ skill[t] = "none"
  /\ skill' = [skill EXCEPT ![t] = "pending"]
  /\ UNCHANGED <<status, parent, request, events, replies, relayed, mode,
                 worker, flagged, canc, recovered>>

-----------------------------------------------------------------------------
(* The worker coroutine: TaskManager._run *)

Begin(t) ==
  /\ Resumes(t, "scheduled")
  /\ \/ /\ status[t] = "queued"
        /\ status' = [status EXCEPT ![t] = "running"]
        /\ At(t, "starting")
        /\ UNCHANGED flagged
     \/ /\ status[t] # "queued"
        /\ At(t, "releasing")
        /\ flagged' = flagged \ {t}
        /\ UNCHANGED status
  /\ UNCHANGED <<parent, request, events, replies, relayed, skill, mode, outcome,
                 text, thrown, turn, canc, recovered>>

\* runtime.start() returned; run_turn is entered without a second flag check.
StartTurn(t) ==
  /\ Resumes(t, "starting")
  /\ At(t, "streaming")
  /\ turn' = turn \cup {t}
  /\ UNCHANGED <<durable, mode, outcome, text, thrown, flagged, canc, recovered>>

\* Mutant: the flag is not checked once more after the last event.
SettlesUnchecked(t, o) ==
  /\ outcome' = [outcome EXCEPT ![t] = o]
  /\ At(t, IF o = "failed" THEN "finish" ELSE "reply")
  /\ UNCHANGED <<durable, mode, text, thrown, flagged, canc, recovered>>

\* Leave the streaming loop towards the settling branch o.
Settles(t, o) ==
  /\ outcome' = [outcome EXCEPT ![t] = IF t \in flagged THEN "cancelled" ELSE o]
  /\ At(t, IF o = "failed" /\ t \notin flagged THEN "finish" ELSE "reply")
  /\ UNCHANGED <<durable, mode, text, thrown, flagged, canc, recovered>>

\* The next runtime event: a flagged worker stops before it looks at it.
Receive(t) ==
  /\ Resumes(t, "streaming")
  /\ \/ /\ t \in flagged
        /\ Settles(t, "cancelled")
        /\ UNCHANGED turn
     \/ /\ t \notin flagged
        /\ text' = [text EXCEPT ![t] = TRUE]
        /\ UNCHANGED <<durable, mode, pc, outcome, thrown, turn, flagged, canc,
                       recovered>>

\* The event generator is exhausted; the flag is checked once more.
EndTurn(t) ==
  /\ Resumes(t, "streaming")
  /\ Settles(t, "completed")
  /\ turn' = turn \ {t}

\* turn.completed with an interrupted status: RuntimeTurnInterrupted.
TurnInterrupted(t) ==
  /\ Resumes(t, "streaming")
  /\ Settles(t, "cancelled")
  /\ UNCHANGED turn

\* RuntimeUnavailable, APIError or any other exception before the end.
TurnFails(t) ==
  /\ Resumes(t, "starting") \/ Resumes(t, "streaming")
  /\ Settles(t, "failed")
  /\ turn' = turn \ {t}

\* CancelledError reaches the worker.  A coroutine that never ran has no
\* handler; without the flag it is a shutdown and nothing durable changes.
Thrown(t) ==
  /\ LoopFree /\ thrown[t]
  /\ thrown' = [thrown EXCEPT ![t] = FALSE]
  /\ \/ /\ pc[t] \in {"scheduled", "releasing"}
        /\ At(t, "none")
        /\ Forget(t)
        /\ UNCHANGED turn
     \/ /\ pc[t] \in {"starting", "streaming"}
        /\ turn' = turn \ {t}
        /\ UNCHANGED text
        /\ \/ /\ t \in flagged
              /\ At(t, "reply")
              /\ outcome' = [outcome EXCEPT ![t] = "cancelled"]
           \/ /\ t \notin flagged
              /\ At(t, "releasing")
              /\ UNCHANGED outcome
  /\ UNCHANGED <<durable, mode, flagged, canc, recovered>>

-----------------------------------------------------------------------------
(* Settling a task, one transaction per action *)

\* Enter the `finally` of _run, which drops the cancellation flag.
Leave(t) ==
  /\ At(t, "releasing")
  /\ flagged' = flagged \ {t}

SaveReply(t) ==
  /\ mode # "down" /\ pc[t] = "reply"
  /\ At(t, "finish")
  /\ \/ /\ text[t] /\ outcome[t] = "completed"
        /\ replies' = [replies EXCEPT ![t] = @ \cup {"final"}]
        /\ UNCHANGED events
     \/ /\ text[t] /\ outcome[t] = "cancelled"
        /\ replies' = [replies EXCEPT ![t] = @ \cup {"partial"}]
        /\ Log(t, "partial")
     \/ /\ ~text[t]
        /\ UNCHANGED <<replies, events>>
  /\ UNCHANGED <<status, parent, request, relayed, skill, mode, outcome, text,
                 thrown, turn, flagged, canc, recovered>>

\* Mutant: _record_cancelled ignores that cancel_task changed nothing.
FinishTwice(t) ==
  /\ mode # "down" /\ pc[t] = "finish"
  /\ status' = [status EXCEPT ![t] = IF @ \in Active \/ outcome[t] = "completed"
                                       THEN outcome[t] ELSE @]
  /\ At(t, IF outcome[t] = "completed" THEN "skills" ELSE "event")
  /\ UNCHANGED <<parent, request, events, replies, relayed, skill, mode, outcome,
                 text, thrown, turn, flagged, canc, recovered>>

\* finish_task is unconditional; _record_failure and cancel_task are not.
Finish(t) ==
  /\ mode # "down" /\ pc[t] = "finish"
  /\ \/ /\ outcome[t] = "completed"
        /\ status' = [status EXCEPT ![t] = "completed"]
        /\ At(t, "skills")
        /\ UNCHANGED flagged
     \/ /\ outcome[t] # "completed" /\ status[t] \in Active
        /\ status' = [status EXCEPT ![t] = outcome[t]]
        /\ At(t, "event")
        /\ UNCHANGED flagged
     \/ /\ outcome[t] # "completed" /\ status[t] \notin Active
        /\ Leave(t)
        /\ UNCHANGED status
  /\ UNCHANGED <<parent, request, events, replies, relayed, skill, mode, outcome,
                 text, thrown, turn, canc, recovered>>

FinalizeSkills(t) ==
  /\ mode # "down" /\ pc[t] = "skills"
  /\ \/ /\ outcome[t] = "completed"
        /\ skill' = SettleSkill(t, IF status[t] = "completed" THEN "ready"
                                                             ELSE "discarded")
        /\ At(t, "event")
        /\ UNCHANGED flagged
     \/ /\ outcome[t] # "completed"
        /\ skill' = SettleSkill(t, "discarded")
        /\ Leave(t)
  /\ UNCHANGED <<status, parent, request, events, replies, relayed, mode, outcome,
                 text, thrown, turn, canc, recovered>>

\* Mutant: an event type that no reader of the log knows.
EventOfUnknown(o) == CASE o = "completed" -> "task.completed"
                       [] o = "failed"    -> "task.failed"
                       [] o = "cancelled" -> "task.cancelled"

EventOf(o) == CASE o = "completed" -> "task.completed"
                [] o = "failed"    -> "task.error"
                [] o = "cancelled" -> "task.cancelled"

AppendEvent(t) ==
  /\ mode # "down" /\ pc[t] = "event"
  /\ Log(t, EventOf(outcome[t]))
  /\ At(t, IF outcome[t] = "completed" THEN "relay" ELSE "skills")
  /\ UNCHANGED <<status, parent, request, replies, relayed, skill, mode, outcome,
                 text, thrown, turn, flagged, canc, recovered>>

\* append_collaboration_message puts a colleague's answer in the parent's chat.
Relay(t) ==
  /\ mode # "down" /\ pc[t] = "relay"
  /\ relayed' = IF parent[t] # NoTask /\ text[t] THEN relayed \cup {t} ELSE relayed
  /\ Leave(t)
  /\ UNCHANGED <<status, parent, request, events, replies, skill, mode, outcome,
                 text, thrown, turn, canc, recovered>>

\* desktop.release_task returned and the handle's done callback ran.
Release(t) ==
  /\ Resumes(t, "releasing")
  /\ At(t, "none")
  /\ Forget(t)
  /\ UNCHANGED <<durable, mode, thrown, turn, flagged, canc, recovered>>

\* An event generator its worker left behind is closed when it is collected.
CloseTurn(t) ==
  /\ LoopFree /\ t \in turn /\ pc[t] # "streaming"
  /\ turn' = turn \ {t}
  /\ UNCHANGED <<durable, mode, pc, outcome, text, thrown, flagged, canc, recovered>>

-----------------------------------------------------------------------------
(* User cancellation: TaskManager._cancel_tree *)

\* One immediate transaction discovers the tree and marks it.
CancelTree(c, r) ==
  /\ LoopFree /\ canc[c].phase = "idle" /\ Roots(r) # {}
  /\ LET targets == Tree(Roots(r))
         changed == {t \in targets : status[t] \in Active}
         again   == {t \in targets : status[t] = "cancelled" /\ pc[t] # "none"}
     IN /\ status' = [t \in Task |-> IF t \in changed THEN "cancelled" ELSE status[t]]
        /\ events' = [t \in Task |-> IF t \in changed
                                       THEN Append(events[t], "task.cancelled")
                                       ELSE events[t]]
        /\ flagged' = flagged \cup changed \cup again
        /\ canc' = [canc EXCEPT ![c] =
             [phase |-> "finalizing", request |-> r,
              targets |-> targets, todo |-> changed]]
  /\ UNCHANGED <<parent, request, replies, relayed, skill, mode, worker, recovered>>

\* The changed tasks lose their proposals before the call first yields.
CancelFinalize(c) ==
  /\ mode # "down" /\ canc[c].phase = "finalizing"
  /\ skill' = [t \in Task |-> IF t \in canc[c].todo /\ skill[t] = "pending"
                                THEN "discarded" ELSE skill[t]]
  /\ canc' = [canc EXCEPT ![c].phase = "gathering", ![c].todo = {}]
  /\ UNCHANGED <<status, parent, request, events, replies, relayed, mode, worker,
                 flagged, recovered>>

\* gather starts every interrupt in one pass of the loop; runtime.cancel makes
\* the turns of the still flagged targets refuse further tool calls.
InterruptAll(c) ==
  /\ LoopFree /\ canc[c].phase = "gathering"
  /\ canc' = [canc EXCEPT ![c].phase = "waiting",
                         ![c].todo = canc[c].targets \cap flagged]
  /\ turn' = turn \ (canc[c].targets \cap flagged)
  /\ UNCHANGED <<durable, mode, pc, outcome, text, thrown, flagged, recovered>>

\* Mutant: the call waits for a handle that is already gone.
InterruptedAlive(c, t) ==
  /\ LoopFree /\ canc[c].phase = "waiting" /\ t \in canc[c].todo
  /\ pc[t] # "none"
  /\ canc' = [canc EXCEPT ![c].todo = @ \ {t}]
  /\ thrown' = [thrown EXCEPT ![t] = TRUE]
  /\ UNCHANGED <<durable, mode, pc, outcome, text, turn, flagged, recovered>>

\* runtime.cancel returned or failed; the worker's handle is cancelled.
Interrupted(c, t) ==
  /\ LoopFree /\ canc[c].phase = "waiting" /\ t \in canc[c].todo
  /\ canc' = [canc EXCEPT ![c].todo = @ \ {t}]
  /\ thrown' = [thrown EXCEPT ![t] = @ \/ pc[t] # "none"]
  /\ UNCHANGED <<durable, mode, pc, outcome, text, turn, flagged, recovered>>

\* Mutant: flags are discarded while workers still run.
CancelReturnEarly(c) ==
  /\ LoopFree /\ canc[c].phase = "waiting" /\ canc[c].todo = {}
  /\ \A t \in canc[c].targets : ~(thrown[t] /\ pc[t] = "scheduled")
  /\ flagged' = flagged \ canc[c].targets
  /\ canc' = [canc EXCEPT ![c] = IdleCall]
  /\ UNCHANGED <<durable, mode, worker, recovered>>

\* After the interrupts, sleep(0) lets a worker that never ran be dropped;
\* flags of tasks without a live handle are discarded and the call returns.
CancelReturn(c) ==
  /\ LoopFree /\ canc[c].phase = "waiting" /\ canc[c].todo = {}
  /\ \A t \in canc[c].targets : ~(thrown[t] /\ pc[t] = "scheduled")
  /\ flagged' = flagged \ {t \in canc[c].targets : pc[t] = "none"}
  /\ canc' = [canc EXCEPT ![c] = IdleCall]
  /\ UNCHANGED <<durable, mode, worker, recovered>>

-----------------------------------------------------------------------------
(* Shutdown, crash and recovery *)

\* TaskManager.close: no more submissions, every live handle is cancelled.
Close ==
  /\ mode = "up" /\ LoopFree
  /\ mode' = "closing"
  /\ thrown' = [t \in Task |-> thrown[t] \/ pc[t] # "none"]
  /\ UNCHANGED <<durable, pc, outcome, text, turn, flagged, canc, recovered>>

LoseMemory ==
  /\ mode' = "down"
  /\ pc' = [t \in Task |-> "none"]
  /\ outcome' = [t \in Task |-> "failed"]
  /\ text' = [t \in Task |-> FALSE]
  /\ thrown' = [t \in Task |-> FALSE]
  /\ turn' = {}
  /\ flagged' = {}
  /\ canc' = [c \in Canceller |-> IdleCall]
  /\ recovered' = {}
  /\ UNCHANGED durable

\* close() gathered every handle and the process exits.
Exit ==
  /\ mode = "closing" /\ LoopFree
  /\ \A t \in Task : pc[t] = "none"
  /\ LoseMemory

\* The process dies between any two transactions.
Crash ==
  /\ mode # "down"
  /\ LoseMemory

\* Mutant: recovery forgets the tasks that were still queued.
MarkRestartedRunning ==
  /\ mode = "down"
  /\ mode' = "recovering"
  /\ recovered' = {t \in Task : status[t] = "running"}
  /\ status' = [t \in Task |-> IF status[t] = "running" THEN "failed" ELSE status[t]]
  /\ UNCHANGED <<parent, request, events, replies, relayed, skill, worker, flagged, canc>>

\* TaskManager.start: one transaction fails everything that was in flight.
MarkRestarted ==
  /\ mode = "down"
  /\ mode' = "recovering"
  /\ recovered' = {t \in Task : status[t] \in Active}
  /\ status' = [t \in Task |-> IF status[t] \in Active THEN "failed" ELSE status[t]]
  /\ UNCHANGED <<parent, request, events, replies, relayed, skill, worker, flagged, canc>>

\* It then discards the proposals of those tasks and starts serving.
FinishRecovery ==
  /\ mode = "recovering"
  /\ mode' = "up"
  /\ skill' = [t \in Task |-> IF t \in recovered /\ skill[t] = "pending"
                                THEN "discarded" ELSE skill[t]]
  /\ recovered' = {}
  /\ UNCHANGED <<status, parent, request, events, replies, relayed, worker, flagged, canc>>

-----------------------------------------------------------------------------
Worker(t) ==
  \/ Begin(t) \/ StartTurn(t) \/ EndTurn(t) \/ TurnInterrupted(t) \/ TurnFails(t)
  \/ Thrown(t) \/ SaveReply(t) \/ Finish(t) \/ FinalizeSkills(t) \/ AppendEvent(t)
  \/ Relay(t) \/ Release(t)

CancelStep(c) ==
  \/ CancelFinalize(c) \/ InterruptAll(c) \/ CancelReturn(c)
  \/ \E t \in Task : Interrupted(c, t)

Next ==
  \/ \E r \in Request, T \in SUBSET Task : Send(r, T)
  \/ \E p, t \in Task : Delegate(p, t)
  \/ \E t \in Task : Worker(t) \/ Receive(t) \/ ProposeSkill(t) \/ CloseTurn(t)
  \/ \E c \in Canceller, r \in Request : CancelTree(c, r)
  \/ \E c \in Canceller : CancelStep(c)
  \/ Close \/ Exit \/ Crash \/ MarkRestarted \/ FinishRecovery

Spec == Init /\ [][Next]_vars

(***************************************************************************)
(* The ready queue of the loop is first in, first out, so a coroutine that *)
(* can run again and again does run, however often others hold the loop    *)
(* (hence strong fairness), and the service manager restarts the process.  *)
(* A runtime turn ends: run_turn gives up 1800 seconds after the last      *)
(* event, and a turn is taken not to emit events for ever.  Nothing makes  *)
(* users send, cancel, or shut the service down.                           *)
(***************************************************************************)
Fairness ==
  /\ \A t \in Task : SF_vars(Worker(t))
  /\ \A c \in Canceller : SF_vars(CancelStep(c))
  /\ WF_vars(Exit) /\ WF_vars(MarkRestarted) /\ WF_vars(FinishRecovery)

FairSpec == Spec /\ Fairness

-----------------------------------------------------------------------------
(* Properties *)

\* Part of the inductive invariant: the row of a task fits the place its
\* worker has reached, and every label of a worker fits its branch.
FitsRow(t) ==
  /\ pc[t] = "scheduled" => status[t] \in {"queued", "cancelled"}
  /\ pc[t] \in {"starting", "streaming"} =>
       status[t] = "running" \/ (status[t] = "cancelled" /\ t \in flagged)
  /\ pc[t] \in {"reply", "finish"} =>
       status[t] = "running" \/ (status[t] = "cancelled" /\ outcome[t] = "cancelled")
  /\ pc[t] \in {"skills", "event", "relay"} => status[t] = outcome[t]
  /\ mode = "down" => pc[t] = "none"

WorkerFitsRow == \A t \in Task : FitsRow(t)

\* Part of the inductive invariant: delegation is one level deep, a child
\* works under its parent's request, and only created tasks have lineage.
LineageSound ==
  \A t \in Task :
    /\ status[t] = "absent" <=> request[t] = NoRequest
    /\ status[t] = "absent" => parent[t] = NoTask
    /\ parent[t] # NoTask =>
         parent[parent[t]] = NoTask /\ request[parent[t]] = request[t]

\* Part of the inductive invariant: a cancellation in progress concerns a
\* request that exists.
CallsSound ==
  \A c \in Canceller :
    canc[c].phase # "idle" => canc[c].request \in Request /\ Roots(canc[c].request) # {}

\* From the instant a cancellation has marked its tree, no task of that
\* request is queued or running, whatever its turns delegate meanwhile.
RequestStopped ==
  \A c \in Canceller, t \in Task :
    canc[c].phase # "idle" /\ request[t] = canc[c].request => status[t] \notin Active

\* The inductive strengthening that TaskLifecycleProofs proves: a worker,
\* its row, its lineage and the cancellation flag never contradict each other.
IInv == TypeOK /\ WorkerFitsRow /\ LineageSound /\ CallsSound /\ RequestStopped

\* Nothing rewrites the result of a task that has ended: not a worker that
\* was already past its last check when the user cancelled, not a second
\* cancellation, not recovery (finish_task itself has no such condition).
TerminalIsFinal ==
  [][\A t \in Task : status[t] \in Terminal => status'[t] = status[t]]_vars

\* While the service accepts work, every queued or running task has a live
\* worker: nothing is stranded until the next restart.
NoStrandedTask ==
  mode = "up" => \A t \in Task : status[t] \in Active => pc[t] # "none"

\* The places of the log of t that hold a terminal event.
Terminals(t) == {i \in DOMAIN events[t] : events[t][i] \in TerminalEvent}

\* The four places that tell how a task ended agree, although the cancelling
\* call, the worker and recovery all may end it and the process may die
\* between any two of them: the log has one terminal event at most, that of
\* the row; no transcript shows a finished answer of a cancelled task, a
\* partial one of a completed task, or both; and only completed work becomes
\* a procedure that other turns recall (_run, cancel, finalize_task).
ResultsAgree ==
  \A t \in Task :
    /\ \A i, j \in Terminals(t) : i = j
    /\ \A i \in Terminals(t) :
         status[t] \in Terminal /\ events[t][i] = EventOf(status[t])
    /\ replies[t] # {"final", "partial"}
    /\ "final" \in replies[t] => status[t] \notin {"queued", "cancelled"}
    /\ "partial" \in replies[t] => status[t] \notin {"queued", "completed"}
    /\ skill[t] = "ready" => status[t] = "completed"

\* Every row change of the task table is a step of TaskContract.
ImplementsContract == Contract!ContractSpec

\* A task that was created ends, through shutdowns, crashes and restarts.
EveryTaskEnds == \A t \in Task : status[t] \in Active ~> status[t] \in Terminal

\* A cancellation call returns to the user, whatever the turns do.
CancelReturns == \A c \in Canceller : canc[c].phase # "idle" ~> canc[c].phase = "idle"

\* main.py 614: "Event rows are committed before terminal status", so a
\* stream that sees a terminal row has a terminal event to deliver.
TerminalRowHasEvent ==
  LoopFree => \A t \in Task : status[t] \in Terminal => Terminals(t) # {}

\* scoped_tools.py 670: "The result will appear in the originating chat
\* automatically" once a colleague has completed with an answer.
ColleagueAnswerRelayed ==
  LoopFree => \A t \in Task :
    status[t] = "completed" /\ parent[t] # NoTask /\ "final" \in replies[t]
      => t \in relayed
=============================================================================
