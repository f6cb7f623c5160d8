---------------------------- MODULE RuntimeTurns ----------------------------
(***************************************************************************)
(* The turns of backend/app/codex_runtime.py: run_turn, cancel, compact    *)
(* and the reader that serves the app-server's requests.  Conversations    *)
(* are served one turn at a time and share a few capacity slots; a turn    *)
(* runs on a thread of the app-server, which calls the bot's tools while   *)
(* it works.  A user may cancel a turn at any await, a coroutine may be    *)
(* cancelled or time out, and the app-server may die.                      *)
(*                                                                         *)
(* The app-server is external: it starts a turn it was asked for, calls    *)
(* tools, ends the turn by itself or because it was interrupted.           *)
(***************************************************************************)
EXTENDS Naturals, FiniteSets

CONSTANTS Task,          \* tasks, each of which runs one turn
          Conversation,  \* a partition of Task: the tasks of one context
          Helper,        \* tasks with a parent: they use the helper slot
          Compacted,     \* conversations the user may compact
          MaxRoots,      \* capacity of self.sem
          Slow           \* whether the app-server may outlast the client's
                         \* timeouts for turn/start and turn/interrupt, and
                         \* answer a request before it has carried out an
                         \* earlier interrupt on the same thread

VARIABLES
  pc,        \* where the generator of each turn is
  state,     \* self.active[t], meaningful while t is Active
  inbox,     \* turn/completed events in the queue of a turn: whose turn ended
  endedBy,   \* whose turn/completed ended the stream of a turn
  cancel,    \* progress of the user's cancellation of each task
  thrown,    \* handle.cancel() was called and not delivered yet
  thread,    \* threads.thread of a conversation, 0 without a row
  nextThread,\* the id the app-server gives its next thread
  server,    \* the app-server's view of each task's turn
  tool,      \* the scoped tool call each app-server turn has in flight
  compact,   \* the compaction of each conversation
  compacting \* threads on which the app-server compacts

turnVars == <<pc, state, inbox, endedBy, cancel, thrown, thread, nextThread, server,
          tool, compact, compacting>>

Nobody == "nobody"

ASSUME RuntimeAssumption ==
  /\ UNION Conversation = Task
  /\ \A c, d \in Conversation : c # d => c \cap d = {}
  /\ Helper \subseteq Task /\ Compacted \subseteq Conversation
  /\ IsFiniteSet(Task) /\ Nobody \notin Task
  /\ MaxRoots \in Nat \ {0} /\ Slow \in BOOLEAN

Conv(t) == CHOOSE c \in Conversation : t \in c
Fresh == [thread |-> 0, cancelled |-> FALSE, known |-> FALSE, startDone |-> FALSE,
          interrupt |-> FALSE]
NoTool == [under |-> Nobody, phase |-> "none"]
Thread == 0..Cardinality(Task)

TurnsTypeOK ==
  /\ pc \in [Task -> {"idle", "lock", "slot", "thread", "start", "answer", "stream",
                      "closing", "last", "drain", "done"}]
  /\ state \in [Task -> [thread : Thread, cancelled : BOOLEAN, known : BOOLEAN,
                         startDone : BOOLEAN, interrupt : BOOLEAN]]
  /\ inbox \in [Task -> SUBSET Task]
  /\ endedBy \in [Task -> Task \cup {Nobody}]
  /\ cancel \in [Task -> {"idle", "ready", "interrupting", "tools", "drain", "returned"}]
  /\ thrown \subseteq Task
  /\ thread \in [Conversation -> Thread]
  /\ nextThread \in 1..Cardinality(Task) + 1
  /\ server \in [Task -> {"none", "asked", "running", "ended", "dead"}]
  /\ tool \in [Task -> {NoTool} \cup [under : Task, phase : {"running", "cancelled"}]]
  /\ compact \in [Conversation -> {"idle", "lock", "slot", "running", "heard", "over"}]
  /\ compacting \subseteq Thread

TurnsInit ==
  /\ pc = [t \in Task |-> "idle"]
  /\ state = [t \in Task |-> Fresh]
  /\ inbox = [t \in Task |-> {}]
  /\ endedBy = [t \in Task |-> Nobody]
  /\ cancel = [t \in Task |-> "idle"]
  /\ thrown = {}
  /\ thread = [c \in Conversation |-> 0]
  /\ nextThread = 1
  /\ server = [t \in Task |-> "none"]
  /\ tool = [t \in Task |-> NoTool]
  /\ compact = [c \in Conversation |-> "idle"]
  /\ compacting = {}

-----------------------------------------------------------------------------
At(t, label) == pc' = [pc EXCEPT ![t] = label]
Active(t) == pc[t] \in {"start", "answer", "stream", "closing", "last", "drain"}

\* async with lock, capacity: held from its label to the end of run_turn.
HoldsSlot(t) == pc[t] = "thread" \/ Active(t)
HoldsLock(t) == pc[t] = "slot" \/ HoldsSlot(t)
LockFree(c) == (\A t \in c : ~HoldsLock(t)) /\ compact[c] \in {"idle", "lock", "over"}

\* Mutant: helpers take a slot of the roots.
SlotFreeShared(T) ==
  Cardinality({t \in Task : HoldsSlot(t)}) < MaxRoots

SlotFree(T) ==
  IF T \subseteq Helper
    THEN \A t \in Helper : ~HoldsSlot(t)
    ELSE Cardinality({t \in Task \ Helper : HoldsSlot(t)})
           + Cardinality({c \in Conversation : compact[c] \in {"running", "heard"}}) < MaxRoots

\* A prompt app-server has ended an interrupted turn before it answers the
\* next request about its thread.
Settled(h) ==
  Slow \/ \A u \in Task : server[u] = "running" /\ state[u].thread = h => ~state[u].interrupt

CancelTools(t) ==
  [u \in Task |-> IF tool[u].under = t THEN [tool[u] EXCEPT !.phase = "cancelled"] ELSE tool[u]]

-----------------------------------------------------------------------------
(* run_turn *)

Enter(t) ==
  /\ pc[t] = "idle" /\ cancel[t] = "idle"
  /\ At(t, "lock")
  /\ UNCHANGED <<state, inbox, endedBy, cancel, thrown, thread, nextThread, server,
                 tool, compact, compacting>>

TakeLock(t) ==
  /\ pc[t] = "lock" /\ t \notin thrown /\ LockFree(Conv(t))
  /\ At(t, "slot")
  /\ UNCHANGED <<state, inbox, endedBy, cancel, thrown, thread, nextThread, server,
                 tool, compact, compacting>>

TakeSlot(t) ==
  /\ pc[t] = "slot" /\ t \notin thrown /\ SlotFree({t})
  /\ At(t, "thread")
  /\ UNCHANGED <<state, inbox, endedBy, cancel, thrown, thread, nextThread, server,
                 tool, compact, compacting>>

\* The thread of the conversation is resumed, or a new one started when there
\* is none, its tools are outdated or the app-server has lost it; the turn is
\* registered and asked for.
ThreadReady(t) ==
  /\ pc[t] = "thread" /\ t \notin thrown
  /\ \/ /\ thread[Conv(t)] # 0 /\ Settled(thread[Conv(t)])
        /\ UNCHANGED <<thread, nextThread>>
     \/ /\ thread' = [thread EXCEPT ![Conv(t)] = nextThread]
        /\ nextThread' = nextThread + 1
  /\ state' = [state EXCEPT ![t] = [Fresh EXCEPT !.thread = thread'[Conv(t)]]]
  /\ server' = [server EXCEPT ![t] = "asked"]
  /\ At(t, "start")
  /\ UNCHANGED <<inbox, endedBy, cancel, thrown, tool, compact, compacting>>

\* runtime unavailable, no such model, an rpc error, or handle.cancel() before
\* anything is registered.
LeavesEarly(t) ==
  /\ \/ pc[t] = "thread"
     \/ pc[t] \in {"lock", "slot"} /\ t \in thrown
  /\ At(t, "done")
  /\ thrown' = thrown \ {t}
  /\ UNCHANGED <<state, inbox, endedBy, cancel, thread, nextThread, server, tool,
                 compact, compacting>>

\* turn/start is answered; a cancellation that came meanwhile is caught up.
Started(t) ==
  /\ state' = [state EXCEPT ![t].startDone = TRUE, ![t].known = TRUE,
                            ![t].interrupt = @ \/ state[t].cancelled]
  /\ At(t, IF state[t].cancelled /\ ~state[t].interrupt THEN "answer" ELSE "stream")

TurnStarted(t) ==
  /\ pc[t] = "start" /\ t \notin thrown /\ server[t] \in {"running", "ended"}
  /\ Started(t)
  /\ UNCHANGED <<inbox, endedBy, cancel, thrown, thread, nextThread, server, tool,
                 compact, compacting>>

\* The interrupt sent by the turn itself has been answered.
InterruptAnswered(t) ==
  /\ pc[t] \in {"answer", "last"}
  /\ server[t] \in {"ended", "dead"} \/ Slow
  /\ At(t, IF pc[t] = "answer" THEN "stream" ELSE "drain")
  /\ tool' = IF pc[t] = "last" THEN CancelTools(t) ELSE tool
  /\ UNCHANGED <<state, inbox, endedBy, cancel, thrown, thread, nextThread, server,
                 compact, compacting>>

\* A turn/completed event ends the stream.
Completed(t) ==
  /\ pc[t] = "stream" /\ t \notin thrown
  /\ \E u \in inbox[t] : endedBy' = [endedBy EXCEPT ![t] = u]
  /\ At(t, "drain")
  /\ tool' = CancelTools(t)
  /\ UNCHANGED <<state, inbox, cancel, thrown, thread, nextThread, server, compact,
                 compacting>>

\* Any other way out: a silent turn, a failed image, a lost connection, a
\* CancelledError, a worker that abandons the generator when it sees its flag,
\* a turn/start that is not answered in time.
Interrupted(t) ==
  /\ \/ pc[t] = "stream"
     \/ pc[t] \in {"start", "answer"} /\ (t \in thrown \/ server[t] = "dead" \/ Slow)
  /\ At(t, "closing")
  /\ state' = [state EXCEPT ![t].startDone = TRUE]
  /\ thrown' = thrown \ {t}
  /\ UNCHANGED <<inbox, endedBy, cancel, thread, nextThread, server, tool, compact,
                 compacting>>

\* Mutant: a turn whose stream broke off only stops its tools.
MustInterruptNever(t) == state[t].cancelled /\ state[t].known /\ ~state[t].interrupt

\* _interrupt_state: the turn is known and was not interrupted before.
MustInterrupt(t) == state[t].known /\ ~state[t].interrupt

\* The finally of a turn that did not complete calls self.cancel itself.
Close(t) ==
  LET sends == MustInterrupt(t) IN
  /\ pc[t] = "closing"
  /\ state' = [state EXCEPT ![t].cancelled = TRUE, ![t].interrupt = @ \/ sends]
  /\ At(t, IF sends THEN "last" ELSE "drain")
  /\ tool' = IF sends THEN tool ELSE CancelTools(t)
  /\ UNCHANGED <<inbox, endedBy, cancel, thrown, thread, nextThread, server, compact,
                 compacting>>

\* After the drain of at most five seconds the turn is forgotten.
Pop(t) ==
  /\ pc[t] = "drain"
  /\ At(t, "done")
  /\ inbox' = [inbox EXCEPT ![t] = {}]
  /\ thrown' = thrown \ {t}
  /\ UNCHANGED <<state, endedBy, cancel, thread, nextThread, server, tool, compact,
                 compacting>>

-----------------------------------------------------------------------------
(* TaskManager's interrupt of one task: runtime.cancel, then handle.cancel *)

Interrupts(t) ==
  LET sends == MustInterrupt(t) IN
  /\ state' = [state EXCEPT ![t].cancelled = TRUE, ![t].interrupt = @ \/ sends]
  /\ cancel' = [cancel EXCEPT ![t] = IF sends THEN "interrupting" ELSE "tools"]

Cancel(t) ==
  /\ cancel[t] = "idle" /\ pc[t] \notin {"idle", "done"}
  /\ \/ /\ ~Active(t)
        /\ cancel' = [cancel EXCEPT ![t] = "returned"]
        /\ thrown' = thrown \cup {t}
        /\ UNCHANGED state
     \/ /\ Active(t) /\ ~state[t].known /\ ~state[t].startDone
        /\ cancel' = [cancel EXCEPT ![t] = "ready"]
        /\ state' = [state EXCEPT ![t].cancelled = TRUE]
        /\ UNCHANGED thrown
     \/ /\ Active(t) /\ (state[t].known \/ state[t].startDone)
        /\ Interrupts(t)
        /\ UNCHANGED thrown
  /\ UNCHANGED <<pc, inbox, endedBy, thread, nextThread, server, tool, compact, compacting>>

\* turn_ready is set, or five seconds are over.
CancelReady(t) ==
  /\ cancel[t] = "ready"
  /\ \/ state[t].startDone /\ Interrupts(t)
     \/ /\ ~state[t].startDone /\ Slow
        /\ state' = [state EXCEPT ![t].startDone = TRUE]
        /\ cancel' = [cancel EXCEPT ![t] = "tools"]
  /\ UNCHANGED <<pc, inbox, endedBy, thrown, thread, nextThread, server, tool, compact,
                 compacting>>

CancelAnswered(t) ==
  /\ cancel[t] = "interrupting"
  /\ server[t] \in {"ended", "dead"} \/ Slow
  /\ cancel' = [cancel EXCEPT ![t] = "tools"]
  /\ UNCHANGED <<pc, state, inbox, endedBy, thrown, thread, nextThread, server, tool,
                 compact, compacting>>

CancelDrain(t) ==
  /\ cancel[t] = "tools"
  /\ tool' = CancelTools(t)
  /\ cancel' = [cancel EXCEPT ![t] = "drain"]
  /\ UNCHANGED <<pc, state, inbox, endedBy, thrown, thread, nextThread, server, compact,
                 compacting>>

CancelReturns(t) ==
  /\ cancel[t] = "drain"
  /\ cancel' = [cancel EXCEPT ![t] = "returned"]
  /\ thrown' = IF pc[t] = "done" THEN thrown ELSE thrown \cup {t}
  /\ UNCHANGED <<pc, state, inbox, endedBy, thread, nextThread, server, tool, compact,
                 compacting>>

-----------------------------------------------------------------------------
(* compact *)

\* Bound: one compaction of each conversation.
Compact(c) ==
  /\ c \in Compacted /\ compact[c] = "idle"
  /\ compact' = [compact EXCEPT ![c] = "lock"]
  /\ UNCHANGED <<pc, state, inbox, endedBy, cancel, thrown, thread, nextThread, server,
                 tool, compacting>>

CompactLock(c) ==
  /\ compact[c] = "lock" /\ LockFree(c)
  /\ compact' = [compact EXCEPT ![c] = "slot"]
  /\ UNCHANGED <<pc, state, inbox, endedBy, cancel, thrown, thread, nextThread, server,
                 tool, compacting>>

CompactStart(c) ==
  /\ compact[c] = "slot" /\ SlotFree(Task)
  /\ IF thread[c] = 0
       THEN compact' = [compact EXCEPT ![c] = "over"] /\ UNCHANGED compacting
       ELSE /\ Settled(thread[c])
            /\ compact' = [compact EXCEPT ![c] = "running"]
            /\ compacting' = compacting \cup {thread[c]}
  /\ UNCHANGED <<pc, state, inbox, endedBy, cancel, thrown, thread, nextThread, server, tool>>

\* A turn/completed event on the thread is taken for the end of the compaction.
CompactDone(c) ==
  /\ compact[c] = "heard"
  /\ compact' = [compact EXCEPT ![c] = "over"]
  /\ UNCHANGED <<pc, state, inbox, endedBy, cancel, thrown, thread, nextThread, server,
                 tool, compacting>>

Forgotten(c) == thread' = [thread EXCEPT ![c] = 0]

\* Timeout, cancellation, error or disconnection: the thread is forgotten, and
\* what the app-server does on it is unknown.
CompactFails(c) ==
  /\ compact[c] \in {"running", "heard"}
  /\ Forgotten(c)
  /\ compact' = [compact EXCEPT ![c] = "over"]
  /\ UNCHANGED <<pc, state, inbox, endedBy, cancel, thrown, nextThread, server, tool,
                 compacting>>

-----------------------------------------------------------------------------
(* The app-server, and the reader that answers it *)

ServerStarts(u) ==
  /\ server[u] = "asked"
  /\ server' = [server EXCEPT ![u] = "running"]
  /\ UNCHANGED <<pc, state, inbox, endedBy, cancel, thrown, thread, nextThread, tool,
                 compact, compacting>>

Listens(t, h) == Active(t) /\ state[t].thread = h

\* The turn ends, by itself or interrupted, with no tool call in flight or a
\* cancelled one; whoever owns the queue of its thread is told.
ServerEnds(u) ==
  LET h == state[u].thread IN
  /\ server[u] = "running" /\ tool[u].phase # "running"
  /\ server' = [server EXCEPT ![u] = "ended"]
  /\ inbox' = [t \in Task |-> IF Listens(t, h) THEN inbox[t] \cup {u} ELSE inbox[t]]
  /\ compact' = [c \in Conversation |->
       IF compact[c] = "running" /\ thread[c] = h THEN "heard" ELSE compact[c]]
  /\ UNCHANGED <<pc, state, endedBy, cancel, thrown, thread, nextThread, tool, compacting>>

MayCall(t) == ~state[t].cancelled

\* item/tool/call names a thread; the handler runs it for the task that is
\* active on the thread, and refuses it when there is none.
ToolCall(u) ==
  /\ server[u] = "running" /\ tool[u].phase = "none"
  /\ \E t \in Task :
       /\ Listens(t, state[u].thread) /\ MayCall(t)
       /\ tool' = [tool EXCEPT ![u] = [under |-> t, phase |-> "running"]]
  /\ UNCHANGED <<pc, state, inbox, endedBy, cancel, thrown, thread, nextThread, server,
                 compact, compacting>>

ToolEnds(u) ==
  /\ tool[u].phase # "none"
  /\ tool' = [tool EXCEPT ![u] = NoTool]
  /\ UNCHANGED <<pc, state, inbox, endedBy, cancel, thrown, thread, nextThread, server,
                 compact, compacting>>

CompactionEnds(h) ==
  /\ h \in compacting
  /\ compacting' = compacting \ {h}
  /\ compact' = [c \in Conversation |->
       IF compact[c] = "running" /\ thread[c] = h THEN "heard" ELSE compact[c]]
  /\ UNCHANGED <<pc, state, inbox, endedBy, cancel, thrown, thread, nextThread, server, tool>>

\* The process dies with everything it was doing; calls and queues get errors.
ServerDies ==
  /\ \E u \in Task : server[u] \in {"asked", "running"}
  /\ server' = [u \in Task |-> IF server[u] \in {"asked", "running"} THEN "dead" ELSE server[u]]
  /\ compacting' = {}
  /\ UNCHANGED <<pc, state, inbox, endedBy, cancel, thrown, thread, nextThread, tool, compact>>

Turn(t) == TakeLock(t) \/ TakeSlot(t) \/ ThreadReady(t) \/ LeavesEarly(t) \/ TurnStarted(t)
             \/ InterruptAnswered(t) \/ Completed(t) \/ Interrupted(t) \/ Close(t) \/ Pop(t)
Cancelling(t) == CancelReady(t) \/ CancelAnswered(t) \/ CancelDrain(t) \/ CancelReturns(t)
Compacting(c) == CompactLock(c) \/ CompactStart(c) \/ CompactDone(c) \/ CompactFails(c)

TurnsNext ==
  \/ \E t \in Task : Enter(t) \/ Turn(t) \/ Cancel(t) \/ Cancelling(t)
  \/ \E c \in Conversation : Compact(c) \/ Compacting(c)
  \/ \E u \in Task : ServerStarts(u) \/ ServerEnds(u) \/ ToolCall(u) \/ ToolEnds(u)
  \/ \E h \in Thread : CompactionEnds(h)
  \/ ServerDies

\* A delegating turn may wait for its helper as long as the helper works.
Waiting(u) ==
  /\ u \notin Helper /\ tool[u].phase = "running"
  /\ \E t \in Helper : pc[t] \notin {"idle", "done"}

\* asyncio's locks and semaphores are fair; every await of the runtime ends by
\* an answer, an error or its timeout; so does every tool that does not wait
\* for a helper.
TurnsFairness ==
  /\ \A t \in Task : /\ WF_turnVars(Turn(t)) /\ WF_turnVars(Cancelling(t))
                     /\ WF_turnVars(ServerStarts(t)) /\ WF_turnVars(ServerEnds(t)) /\ WF_turnVars(~Waiting(t) /\ ToolEnds(t))
  /\ \A c \in Conversation : WF_turnVars(Compacting(c))

TurnsSpec == TurnsInit /\ [][TurnsNext]_turnVars
TurnsFairSpec == TurnsSpec /\ TurnsFairness

-----------------------------------------------------------------------------
\* Nothing of a turn outlives it: in the app-server it has ended or its
\* interrupt was sent, its tool calls are over or cancelled, as they are when
\* a cancellation returns ("Do not start another scoped action after the user
\* has cancelled the task"), and what it left on the thread neither ends the
\* next turn nor runs there as its own.  Nor does a turn resume "a thread with
\* an uncertain ongoing compact".
NoOrphan ==
  /\ \A t \in Task : pc[t] = "done" => server[t] \in {"none", "ended", "dead"} \/ state[t].interrupt
  /\ \A t, u \in Task :
       (cancel[t] = "returned" \/ pc[t] = "done") /\ tool[u].under = t => tool[u].phase = "cancelled"
  /\ \A t \in Task : endedBy[t] \in {t, Nobody} /\ tool[t].under \in {t, Nobody}
  /\ \A t \in Task : Active(t) => state[t].thread \notin compacting

\* "A waiting coordinator must not occupy the only slot its helper needs":
\* every turn that is entered ends, whatever waits for locks and slots.
TurnsEnd == \A t \in Task : pc[t] = "lock" ~> pc[t] = "done"

\* "Do not start another scoped action after the user has cancelled the
\* task": nothing a task's own turn asked for runs once it is cancelled.
CancelledTurnIsQuiet == \A t \in Task : cancel[t] = "returned" => tool[t].phase # "running"
=============================================================================
