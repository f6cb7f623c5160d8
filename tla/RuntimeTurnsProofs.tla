------------------------- MODULE RuntimeTurnsProofs -------------------------
(***************************************************************************)
(* Theorems about the turns of the runtime, for every set of tasks and     *)
(* conversations: what outlives a turn while the app-server answers in     *)
(* time, and the types also when it does not.                              *)
(***************************************************************************)
EXTENDS RuntimeTurns, TLAPS, FiniteSetTheorems

-----------------------------------------------------------------------------
(* The inductive invariant *)

Registered(t) == server[t] # "none"
Early(t) == pc[t] \in {"idle", "lock", "slot", "thread"}
Over(t) == server[t] \in {"ended", "dead"}

TurnsTyped ==
  /\ pc \in [Task -> {"idle", "lock", "slot", "thread", "start", "answer", "stream",
                      "closing", "last", "drain", "done"}]
  /\ state \in [Task -> [thread : Nat, cancelled : BOOLEAN, known : BOOLEAN,
                         startDone : BOOLEAN, interrupt : BOOLEAN]]
  /\ inbox \in [Task -> SUBSET Task]
  /\ endedBy \in [Task -> Task \cup {Nobody}]
  /\ cancel \in [Task -> {"idle", "ready", "interrupting", "tools", "drain", "returned"}]
  /\ thrown \subseteq Task
  /\ thread \in [Conversation -> Nat]
  /\ nextThread \in Nat \ {0}
  /\ server \in [Task -> {"none", "asked", "running", "ended", "dead"}]
  /\ tool \in [Task -> {NoTool} \cup [under : Task, phase : {"running", "cancelled"}]]
  /\ compact \in [Conversation -> {"idle", "lock", "slot", "running", "heard", "over"}]
  /\ compacting \subseteq Nat

\* Where a turn is says what the runtime and the app-server know of it.
TurnSound(t) ==
  /\ Early(t) => ~Registered(t)
  /\ Active(t) => Registered(t)
  /\ ~Registered(t) => tool[t] = NoTool /\ ~state[t].known /\ ~state[t].interrupt
  /\ state[t].known => server[t] \in {"running", "ended", "dead"}
  /\ state[t].interrupt => state[t].known /\ state[t].cancelled
  /\ pc[t] \in {"answer", "stream", "last"} => state[t].known
  /\ pc[t] = "closing" => state[t].known \/ server[t] = "dead"
  /\ pc[t] = "start" => /\ cancel[t] \in {"idle", "ready"} /\ t \notin thrown
                        /\ ~state[t].known /\ ~state[t].startDone
  /\ pc[t] \in {"drain", "done"} => ~Registered(t) \/ Over(t) \/ state[t].interrupt

\* How far a cancellation is, and what the tools of the turn do by then.
CancelSound(t) ==
  /\ pc[t] = "idle" => cancel[t] = "idle"
  /\ Early(t) => cancel[t] = "idle" \/ (cancel[t] = "returned" /\ t \in thrown)
  /\ cancel[t] # "idle" /\ Registered(t) => state[t].cancelled
  /\ pc[t] \in {"drain", "done"} \/ cancel[t] \in {"drain", "returned"} => tool[t].phase # "running"

\* What is heard of a thread is its own turn's.
EventsOwn(t) ==
  /\ \A u \in inbox[t] : u = t /\ server[t] = "ended"
  /\ endedBy[t] \in {t, Nobody} /\ tool[t].under \in {t, Nobody}

\* The lock of a conversation is held once.
LocksHeld ==
  /\ \A t, u \in Task : HoldsLock(t) /\ HoldsLock(u) /\ Conv(t) = Conv(u) => t = u
  /\ \A t \in Task : HoldsLock(t) => compact[Conv(t)] \in {"idle", "lock", "over"}

\* A thread is of one conversation, and new threads are new.
ThreadsApart ==
  /\ \A c \in Conversation : thread[c] < nextThread
  /\ \A h \in compacting : 0 < h /\ h < nextThread
  /\ \A t \in Task : Registered(t) => 0 < state[t].thread /\ state[t].thread < nextThread
  /\ \A t, u \in Task : Registered(t) /\ Registered(u) /\ state[t].thread = state[u].thread
                          => Conv(t) = Conv(u)
  /\ \A t \in Task, c \in Conversation : Registered(t) /\ thread[c] = state[t].thread => c = Conv(t)
  /\ \A c, d \in Conversation : thread[c] # 0 /\ thread[c] = thread[d] => c = d

\* On the thread of an active turn, or under a compaction, nothing else is left.
ThreadsQuiet ==
  /\ \A t, u \in Task : Active(t) /\ u # t /\ Registered(u) /\ state[u].thread = state[t].thread => Over(u)
  /\ \A c \in Conversation, u \in Task :
       compact[c] = "running" /\ Registered(u) /\ state[u].thread = thread[c] => Over(u)
  /\ \A c \in Conversation : thread[c] \in compacting => compact[c] = "running"
  /\ \A t \in Task : Active(t) => state[t].thread \notin compacting

TurnsInv ==
  /\ TurnsTyped
  /\ \A t \in Task : TurnSound(t) /\ CancelSound(t) /\ EventsOwn(t)
  /\ LocksHeld /\ ThreadsApart /\ ThreadsQuiet

\* A task is of exactly one conversation.
LEMMA ConvFacts ==
  ASSUME NEW t \in Task
  PROVE  /\ Conv(t) \in Conversation /\ t \in Conv(t)
         /\ \A c \in Conversation : t \in c => c = Conv(t)
<1>1. \E c \in Conversation : t \in c
  BY RuntimeAssumption
<1>2. Conv(t) \in Conversation /\ t \in Conv(t)
  BY <1>1 DEF Conv
<1>3. QED
  BY <1>2, RuntimeAssumption

\* Nothing has happened at the start.
LEMMA TurnsInvInit == TurnsInit => TurnsInv
<1> SUFFICES ASSUME TurnsInit PROVE TurnsInv
  OBVIOUS
<1>1. TurnsTyped
  BY DEF TurnsInit, TurnsTyped, Fresh
<1>2. ASSUME NEW t \in Task PROVE TurnSound(t) /\ CancelSound(t) /\ EventsOwn(t)
  BY DEF TurnsInit, TurnSound, CancelSound, EventsOwn, Registered, Early, Active, Over, Fresh, NoTool
<1>3. LocksHeld /\ ThreadsApart /\ ThreadsQuiet
  BY DEF TurnsInit, LocksHeld, ThreadsApart, ThreadsQuiet, HoldsLock, HoldsSlot, Registered, Active
<1>4. QED
  BY <1>1, <1>2, <1>3 DEF TurnsInv

-----------------------------------------------------------------------------
(* Steps that leave locks and threads alone *)

\* No turn becomes active or is asked for, and what has ended stays ended.
ThreadsStay ==
  /\ UNCHANGED <<thread, nextThread, compacting>>
  /\ \A x \in Task : /\ Registered(x)' <=> Registered(x)
                     /\ Registered(x) => state'[x].thread = state[x].thread
                     /\ Active(x)' => Active(x)
                     /\ Over(x) => Over(x)'

\* What is said of locks and threads stays true then, unless a lock is taken.
LEMMA LocksAndThreadsStay ==
  ASSUME TurnsInv, ThreadsStay, UNCHANGED compact, \A x \in Task : HoldsLock(x)' => HoldsLock(x)
  PROVE  LocksHeld' /\ ThreadsApart' /\ ThreadsQuiet'
<1>1. LocksHeld'
  BY DEF TurnsInv, LocksHeld
<1>2. ThreadsApart'
  BY DEF TurnsInv, ThreadsApart, ThreadsStay
<1>3. \A t \in Task : Active(t) => Registered(t)
  BY DEF TurnsInv, TurnSound
<1>4. ThreadsQuiet'
  BY <1>3 DEF TurnsInv, ThreadsQuiet, ThreadsStay
<1>5. QED
  BY <1>1, <1>2, <1>4

StateRow == [thread : Nat, cancelled : BOOLEAN, known : BOOLEAN, startDone : BOOLEAN, interrupt : BOOLEAN]
ToolRow == {NoTool} \cup [under : Task, phase : {"running", "cancelled"}]

\* What a turn knows changes in one flag, two or three.
LEMMA TurnFacts ==
  ASSUME NEW r \in StateRow, NEW a \in BOOLEAN, NEW b \in BOOLEAN, NEW c \in BOOLEAN
  PROVE  /\ [r EXCEPT !.startDone = a] \in StateRow
         /\ [r EXCEPT !.cancelled = a] \in StateRow
         /\ [r EXCEPT !.cancelled = a, !.interrupt = b] \in StateRow
         /\ [r EXCEPT !.startDone = a, !.known = b, !.interrupt = c] \in StateRow
BY DEF StateRow

\* _interrupt_state marks its own turn only.
LEMMA InterruptsRow ==
  ASSUME TurnsInv, NEW t \in Task,
         state' = [state EXCEPT ![t].cancelled = TRUE, ![t].interrupt = @ \/ MustInterrupt(t)]
  PROVE  /\ state' \in [Task -> StateRow] /\ \A x \in Task \ {t} : state'[x] = state[x]
         /\ state'[t].thread = state[t].thread /\ state'[t].cancelled = TRUE
         /\ state'[t].startDone = state[t].startDone /\ state'[t].known = state[t].known
         /\ state'[t].interrupt = (state[t].interrupt \/ MustInterrupt(t))
<1> DEFINE flag == state[t].interrupt \/ MustInterrupt(t)
<1>1. state \in [Task -> StateRow] /\ state[t] \in StateRow /\ DOMAIN state = Task
  BY DEF TurnsInv, TurnsTyped, StateRow
<1>2. state' = [state EXCEPT ![t] = state'[t]]
  BY <1>1
<1>3. state'[t] = [state[t] EXCEPT !.cancelled = TRUE, !.interrupt = flag]
  BY <1>1
<1>4. flag \in BOOLEAN
  BY <1>1 DEF StateRow, MustInterrupt
<1> HIDE DEF flag
<1>5. state'[t] \in StateRow
  BY <1>1, <1>3, <1>4, TurnFacts
<1>6. /\ state' \in [Task -> StateRow] /\ \A x \in Task \ {t} : state'[x] = state[x]
      /\ state'[t].thread = state[t].thread /\ state'[t].cancelled = TRUE
      /\ state'[t].startDone = state[t].startDone /\ state'[t].known = state[t].known
      /\ state'[t].interrupt = flag
  BY <1>1, <1>2, <1>3, <1>4, <1>5 DEF StateRow
<1>7. QED
  BY <1>6 DEF flag

\* Only the calls that run under a turn are cancelled with it.
LEMMA CancelToolsFacts ==
  ASSUME TurnsInv, NEW t \in Task
  PROVE  /\ CancelTools(t) \in [Task -> ToolRow]
         /\ \A u \in Task : /\ CancelTools(t)[u].under = tool[u].under
                            /\ tool[u].under = t => CancelTools(t)[u].phase = "cancelled"
                            /\ tool[u].under # t => CancelTools(t)[u] = tool[u]
                            /\ tool[u] = NoTool => CancelTools(t)[u] = NoTool
                            /\ CancelTools(t)[u].phase = "running" => tool[u].phase = "running" /\ tool[u].under # t
         /\ CancelTools(t)[t].phase # "running"
<1>1. /\ Nobody \notin Task /\ NoTool.under = Nobody /\ NoTool.phase = "none"
      /\ \A u \in Task : tool[u] \in ToolRow
  BY RuntimeAssumption DEF TurnsInv, TurnsTyped, ToolRow, NoTool
<1>2. ASSUME NEW u \in Task, tool[u].under = t
      PROVE  /\ CancelTools(t)[u] = [tool[u] EXCEPT !.phase = "cancelled"]
             /\ tool[u] \in [under : Task, phase : {"running", "cancelled"}] /\ tool[u] # NoTool
  BY <1>1, <1>2 DEF CancelTools, ToolRow
<1>3. ASSUME NEW u \in Task, tool[u].under = t
      PROVE  /\ CancelTools(t)[u] \in ToolRow /\ CancelTools(t)[u].under = t
             /\ CancelTools(t)[u].phase = "cancelled"
  BY <1>2, <1>3 DEF ToolRow
<1>4. ASSUME NEW u \in Task, tool[u].under # t PROVE CancelTools(t)[u] = tool[u]
  BY <1>4 DEF CancelTools
<1>5. CancelTools(t) \in [Task -> ToolRow]
  <2>1. CancelTools(t) = [u \in Task |-> CancelTools(t)[u]]
    BY DEF CancelTools
  <2>2. QED
    BY <1>1, <1>3, <1>4, <2>1
<1>6. CancelTools(t)[t].phase # "running"
  <2>1. tool[t].under \in {t, Nobody}
    BY DEF TurnsInv, EventsOwn
  <2>2. tool[t].under = Nobody => tool[t] = NoTool
    BY <1>1 DEF ToolRow
  <2>3. QED
    BY <1>1, <1>3, <1>4, <2>1, <2>2
<1>7. QED
  BY <1>1, <1>2, <1>3, <1>4, <1>5, <1>6

\* An entered turn waits for its lock.
LEMMA EnterKeeps ==
  ASSUME TurnsInv, ~Slow, NEW t \in Task, Enter(t)
  PROVE  TurnsInv'
<1>1. TurnsTyped'
  BY DEF TurnsInv, TurnsTyped, StateRow, ToolRow, Enter, At
<1>2. ASSUME NEW x \in Task PROVE TurnSound(x)' /\ CancelSound(x)' /\ EventsOwn(x)'
  <2>1. TurnSound(x) /\ CancelSound(x) /\ EventsOwn(x) /\ TurnSound(t) /\ CancelSound(t) /\ EventsOwn(t) /\ TurnsTyped
    BY DEF TurnsInv
  <2>2. TurnSound(x)'
    BY <1>1, <2>1 DEF TurnsTyped, Enter, At, TurnSound, CancelSound, EventsOwn, Registered, Early, Active, Over, NoTool
  <2>3. CancelSound(x)'
    BY <1>1, <2>1 DEF TurnsTyped, Enter, At, TurnSound, CancelSound, EventsOwn, Registered, Early, Active, Over, NoTool
  <2>4. EventsOwn(x)'
    BY <2>1 DEF TurnsTyped, Enter, EventsOwn, NoTool
  <2>5. QED
    BY <2>2, <2>3, <2>4
<1>3. LocksHeld' /\ ThreadsApart' /\ ThreadsQuiet'
  <2>1. ThreadsStay
    BY <1>1 DEF TurnsInv, TurnsTyped, ThreadsStay, Enter, At, TurnSound, Registered, Early, Active, Over
  <2>2. UNCHANGED compact /\ \A x \in Task : HoldsLock(x)' => HoldsLock(x)
    BY DEF TurnsInv, TurnsTyped, Enter, At, HoldsLock, HoldsSlot, Active
  <2>3. QED
    BY <2>1, <2>2, LocksAndThreadsStay
<1>4. QED
  BY <1>1, <1>2, <1>3 DEF TurnsInv

\* A turn takes a slot with its lock held.
LEMMA TakeSlotKeeps ==
  ASSUME TurnsInv, ~Slow, NEW t \in Task, TakeSlot(t)
  PROVE  TurnsInv'
<1>1. TurnsTyped'
  BY DEF TurnsInv, TurnsTyped, StateRow, ToolRow, TakeSlot, At
<1>2. ASSUME NEW x \in Task PROVE TurnSound(x)' /\ CancelSound(x)' /\ EventsOwn(x)'
  <2>1. TurnSound(x) /\ CancelSound(x) /\ EventsOwn(x) /\ TurnSound(t) /\ CancelSound(t) /\ EventsOwn(t) /\ TurnsTyped
    BY DEF TurnsInv
  <2>2. TurnSound(x)'
    BY <1>1, <2>1 DEF TurnsTyped, TakeSlot, At, TurnSound, CancelSound, EventsOwn, Registered, Early, Active, Over, NoTool
  <2>3. CancelSound(x)'
    BY <1>1, <2>1 DEF TurnsTyped, TakeSlot, At, TurnSound, CancelSound, EventsOwn, Registered, Early, Active, Over, NoTool
  <2>4. EventsOwn(x)'
    BY <2>1 DEF TurnsTyped, TakeSlot, EventsOwn, NoTool
  <2>5. QED
    BY <2>2, <2>3, <2>4
<1>3. LocksHeld' /\ ThreadsApart' /\ ThreadsQuiet'
  <2>1. ThreadsStay
    BY <1>1 DEF TurnsInv, TurnsTyped, ThreadsStay, TakeSlot, At, TurnSound, Registered, Early, Active, Over
  <2>2. UNCHANGED compact /\ \A x \in Task : HoldsLock(x)' => HoldsLock(x)
    BY DEF TurnsInv, TurnsTyped, TakeSlot, At, HoldsLock, HoldsSlot, Active
  <2>3. QED
    BY <2>1, <2>2, LocksAndThreadsStay
<1>4. QED
  BY <1>1, <1>2, <1>3 DEF TurnsInv

\* A turn that leaves early was never registered.
LEMMA LeavesEarlyKeeps ==
  ASSUME TurnsInv, ~Slow, NEW t \in Task, LeavesEarly(t)
  PROVE  TurnsInv'
<1>1. TurnsTyped'
  BY DEF TurnsInv, TurnsTyped, StateRow, ToolRow, LeavesEarly, At
<1>2. ASSUME NEW x \in Task PROVE TurnSound(x)' /\ CancelSound(x)' /\ EventsOwn(x)'
  <2>1. TurnSound(x) /\ CancelSound(x) /\ EventsOwn(x) /\ TurnSound(t) /\ CancelSound(t) /\ EventsOwn(t) /\ TurnsTyped
    BY DEF TurnsInv
  <2>2. TurnSound(x)'
    BY <1>1, <2>1 DEF TurnsTyped, LeavesEarly, At, TurnSound, CancelSound, EventsOwn, Registered, Early, Active, Over, NoTool
  <2>3. CancelSound(x)'
    BY <1>1, <2>1 DEF TurnsTyped, LeavesEarly, At, TurnSound, CancelSound, EventsOwn, Registered, Early, Active, Over, NoTool
  <2>4. EventsOwn(x)'
    BY <2>1 DEF TurnsTyped, LeavesEarly, EventsOwn, NoTool
  <2>5. QED
    BY <2>2, <2>3, <2>4
<1>3. LocksHeld' /\ ThreadsApart' /\ ThreadsQuiet'
  <2>1. ThreadsStay
    BY <1>1 DEF TurnsInv, TurnsTyped, ThreadsStay, LeavesEarly, At, TurnSound, Registered, Early, Active, Over
  <2>2. UNCHANGED compact /\ \A x \in Task : HoldsLock(x)' => HoldsLock(x)
    BY DEF TurnsInv, TurnsTyped, LeavesEarly, At, HoldsLock, HoldsSlot, Active
  <2>3. QED
    BY <2>1, <2>2, LocksAndThreadsStay
<1>4. QED
  BY <1>1, <1>2, <1>3 DEF TurnsInv

\* An answered turn/start is known.
LEMMA TurnStartedKeeps ==
  ASSUME TurnsInv, ~Slow, NEW t \in Task, TurnStarted(t)
  PROVE  TurnsInv'
<1>0. /\ state' \in [Task -> StateRow] /\ \A x \in Task \ {t} : state'[x] = state[x]
      /\ state'[t].thread = state[t].thread /\ state'[t].cancelled = state[t].cancelled
      /\ state'[t].startDone = TRUE /\ state'[t].known = TRUE
      /\ state'[t].interrupt = (state[t].interrupt \/ state[t].cancelled)
  <2> DEFINE flag == state[t].interrupt \/ state[t].cancelled
  <2>1. state \in [Task -> StateRow] /\ state[t] \in StateRow /\ DOMAIN state = Task
    BY DEF TurnsInv, TurnsTyped, StateRow
  <2>2. state' = [state EXCEPT ![t] = state'[t]]
    BY <2>1 DEF TurnStarted, Started
  <2>3. state'[t] = [state[t] EXCEPT !.startDone = TRUE, !.known = TRUE, !.interrupt = flag]
    BY <2>1 DEF TurnStarted, Started
  <2>4. flag \in BOOLEAN
    BY <2>1 DEF StateRow
  <2> HIDE DEF flag
  <2>5. state'[t] \in StateRow
    BY <2>1, <2>3, <2>4 DEF StateRow
  <2>6. /\ state' \in [Task -> StateRow] /\ \A x \in Task \ {t} : state'[x] = state[x]
        /\ state'[t].thread = state[t].thread /\ state'[t].cancelled = state[t].cancelled
        /\ state'[t].startDone = TRUE /\ state'[t].known = TRUE
        /\ state'[t].interrupt = flag
    <3>1. state' \in [Task -> StateRow] /\ \A x \in Task \ {t} : state'[x] = state[x]
      BY <2>1, <2>2, <2>5
    <3>2. /\ state'[t].thread = state[t].thread /\ state'[t].cancelled = state[t].cancelled
          /\ state'[t].startDone = TRUE /\ state'[t].known = TRUE
          /\ state'[t].interrupt = flag
      BY <2>1, <2>3 DEF StateRow
    <3>3. QED
      BY <3>1, <3>2
  <2>7. QED
    BY <2>6 DEF flag
<1>1. TurnsTyped'
  BY <1>0 DEF TurnsInv, TurnsTyped, StateRow, ToolRow, TurnStarted, At, Started
<1>2. ASSUME NEW x \in Task PROVE TurnSound(x)' /\ CancelSound(x)' /\ EventsOwn(x)'
  <2>1. TurnSound(x) /\ CancelSound(x) /\ EventsOwn(x) /\ TurnSound(t) /\ CancelSound(t) /\ EventsOwn(t) /\ TurnsTyped
    BY DEF TurnsInv
  <2>2. TurnSound(x)'
    BY <1>0, <1>1, <2>1 DEF TurnsTyped, TurnStarted, At, Started, TurnSound, CancelSound, EventsOwn, Registered, Early, Active, Over, NoTool
  <2>3. CancelSound(x)'
    BY <1>0, <1>1, <2>1 DEF TurnsTyped, TurnStarted, At, Started, TurnSound, CancelSound, EventsOwn, Registered, Early, Active, Over, NoTool
  <2>4. EventsOwn(x)'
    BY <1>0, <2>1 DEF TurnsTyped, TurnStarted, EventsOwn, NoTool
  <2>5. QED
    BY <2>2, <2>3, <2>4
<1>3. LocksHeld' /\ ThreadsApart' /\ ThreadsQuiet'
  <2>1. ThreadsStay
    BY <1>0, <1>1 DEF TurnsInv, TurnsTyped, ThreadsStay, TurnStarted, At, Started, TurnSound, Registered, Early, Active, Over
  <2>2. UNCHANGED compact /\ \A x \in Task : HoldsLock(x)' => HoldsLock(x)
    BY DEF TurnsInv, TurnsTyped, TurnStarted, At, Started, HoldsLock, HoldsSlot, Active
  <2>3. QED
    BY <2>1, <2>2, LocksAndThreadsStay
<1>4. QED
  BY <1>1, <1>2, <1>3 DEF TurnsInv

\* An interrupt is answered when the turn has ended.
LEMMA InterruptAnsweredKeeps ==
  ASSUME TurnsInv, ~Slow, NEW t \in Task, InterruptAnswered(t)
  PROVE  TurnsInv'
<1>1. TurnsTyped'
  BY CancelToolsFacts DEF TurnsInv, TurnsTyped, StateRow, ToolRow, InterruptAnswered, At
<1>2. ASSUME NEW x \in Task PROVE TurnSound(x)' /\ CancelSound(x)' /\ EventsOwn(x)'
  <2>1. TurnSound(x) /\ CancelSound(x) /\ EventsOwn(x) /\ TurnSound(t) /\ CancelSound(t) /\ EventsOwn(t) /\ TurnsTyped
    BY DEF TurnsInv
  <2>2. TurnSound(x)'
    BY CancelToolsFacts, <1>1, <2>1 DEF TurnsTyped, InterruptAnswered, At, TurnSound, CancelSound, EventsOwn, Registered, Early, Active, Over, NoTool
  <2>3. CancelSound(x)'
    BY CancelToolsFacts, <1>1, <2>1 DEF TurnsTyped, InterruptAnswered, At, TurnSound, CancelSound, EventsOwn, Registered, Early, Active, Over, NoTool
  <2>4. EventsOwn(x)'
    BY CancelToolsFacts, <2>1 DEF TurnsTyped, InterruptAnswered, EventsOwn, NoTool
  <2>5. QED
    BY <2>2, <2>3, <2>4
<1>3. LocksHeld' /\ ThreadsApart' /\ ThreadsQuiet'
  <2>1. ThreadsStay
    BY CancelToolsFacts, <1>1 DEF TurnsInv, TurnsTyped, ThreadsStay, InterruptAnswered, At, TurnSound, Registered, Early, Active, Over
  <2>2. UNCHANGED compact /\ \A x \in Task : HoldsLock(x)' => HoldsLock(x)
    BY DEF TurnsInv, TurnsTyped, InterruptAnswered, At, HoldsLock, HoldsSlot, Active
  <2>3. QED
    BY <2>1, <2>2, LocksAndThreadsStay
<1>4. QED
  BY <1>1, <1>2, <1>3 DEF TurnsInv

\* A turn ends by its own event.
LEMMA CompletedKeeps ==
  ASSUME TurnsInv, ~Slow, NEW t \in Task, Completed(t)
  PROVE  TurnsInv'
<1>1. TurnsTyped'
  BY CancelToolsFacts DEF TurnsInv, TurnsTyped, StateRow, ToolRow, Completed, At
<1>2. ASSUME NEW x \in Task PROVE TurnSound(x)' /\ CancelSound(x)' /\ EventsOwn(x)'
  <2>1. TurnSound(x) /\ CancelSound(x) /\ EventsOwn(x) /\ TurnSound(t) /\ CancelSound(t) /\ EventsOwn(t) /\ TurnsTyped
    BY DEF TurnsInv
  <2>2. TurnSound(x)'
    BY CancelToolsFacts, <1>1, <2>1 DEF TurnsTyped, Completed, At, TurnSound, CancelSound, EventsOwn, Registered, Early, Active, Over, NoTool
  <2>3. CancelSound(x)'
    BY CancelToolsFacts, <1>1, <2>1 DEF TurnsTyped, Completed, At, TurnSound, CancelSound, EventsOwn, Registered, Early, Active, Over, NoTool
  <2>4. EventsOwn(x)'
    BY CancelToolsFacts, <2>1 DEF TurnsTyped, Completed, EventsOwn, NoTool
  <2>5. QED
    BY <2>2, <2>3, <2>4
<1>3. LocksHeld' /\ ThreadsApart' /\ ThreadsQuiet'
  <2>1. ThreadsStay
    BY CancelToolsFacts, <1>1 DEF TurnsInv, TurnsTyped, ThreadsStay, Completed, At, TurnSound, Registered, Early, Active, Over
  <2>2. UNCHANGED compact /\ \A x \in Task : HoldsLock(x)' => HoldsLock(x)
    BY DEF TurnsInv, TurnsTyped, Completed, At, HoldsLock, HoldsSlot, Active
  <2>3. QED
    BY <2>1, <2>2, LocksAndThreadsStay
<1>4. QED
  BY <1>1, <1>2, <1>3 DEF TurnsInv

\* A stream breaks off after its turn is known, or with the app-server.
LEMMA InterruptedKeeps ==
  ASSUME TurnsInv, ~Slow, NEW t \in Task, Interrupted(t)
  PROVE  TurnsInv'
<1>0. /\ state' \in [Task -> StateRow] /\ \A x \in Task \ {t} : state'[x] = state[x]
      /\ state'[t].thread = state[t].thread /\ state'[t].cancelled = state[t].cancelled
      /\ state'[t].startDone = TRUE /\ state'[t].known = state[t].known
      /\ state'[t].interrupt = state[t].interrupt
  <2>1. state \in [Task -> StateRow] /\ state[t] \in StateRow /\ DOMAIN state = Task
    BY DEF TurnsInv, TurnsTyped, StateRow
  <2>2. state' = [state EXCEPT ![t] = state'[t]]
    BY <2>1 DEF Interrupted
  <2>3. state'[t] = [state[t] EXCEPT !.startDone = TRUE]
    BY <2>1 DEF Interrupted
  <2>4. state'[t] \in StateRow
    BY <2>1, <2>3, TurnFacts
  <2>5. QED
    BY <2>1, <2>2, <2>3, <2>4 DEF StateRow
<1>1. TurnsTyped'
  BY <1>0 DEF TurnsInv, TurnsTyped, StateRow, ToolRow, Interrupted, At
<1>2. ASSUME NEW x \in Task PROVE TurnSound(x)' /\ CancelSound(x)' /\ EventsOwn(x)'
  <2>1. TurnSound(x) /\ CancelSound(x) /\ EventsOwn(x) /\ TurnSound(t) /\ CancelSound(t) /\ EventsOwn(t) /\ TurnsTyped
    BY DEF TurnsInv
  <2>2. TurnSound(x)'
    BY <1>0, <1>1, <2>1 DEF TurnsTyped, Interrupted, At, TurnSound, CancelSound, EventsOwn, Registered, Early, Active, Over, NoTool
  <2>3. CancelSound(x)'
    BY <1>0, <1>1, <2>1 DEF TurnsTyped, Interrupted, At, TurnSound, CancelSound, EventsOwn, Registered, Early, Active, Over, NoTool
  <2>4. EventsOwn(x)'
    BY <1>0, <2>1 DEF TurnsTyped, Interrupted, EventsOwn, NoTool
  <2>5. QED
    BY <2>2, <2>3, <2>4
<1>3. LocksHeld' /\ ThreadsApart' /\ ThreadsQuiet'
  <2>1. ThreadsStay
    BY <1>0, <1>1 DEF TurnsInv, TurnsTyped, ThreadsStay, Interrupted, At, TurnSound, Registered, Early, Active, Over
  <2>2. UNCHANGED compact /\ \A x \in Task : HoldsLock(x)' => HoldsLock(x)
    BY DEF TurnsInv, TurnsTyped, Interrupted, At, HoldsLock, HoldsSlot, Active
  <2>3. QED
    BY <2>1, <2>2, LocksAndThreadsStay
<1>4. QED
  BY <1>1, <1>2, <1>3 DEF TurnsInv

\* A turn that broke off interrupts its own turn.
LEMMA CloseKeeps ==
  ASSUME TurnsInv, ~Slow, NEW t \in Task, Close(t)
  PROVE  TurnsInv'
<1>0. /\ state' \in [Task -> StateRow] /\ \A x \in Task \ {t} : state'[x] = state[x]
      /\ state'[t].thread = state[t].thread /\ state'[t].cancelled = TRUE
      /\ state'[t].startDone = state[t].startDone /\ state'[t].known = state[t].known
      /\ state'[t].interrupt = (state[t].interrupt \/ MustInterrupt(t))
  BY InterruptsRow DEF Close
<1>1. TurnsTyped'
  BY <1>0, CancelToolsFacts DEF TurnsInv, TurnsTyped, StateRow, ToolRow, Close, At, MustInterrupt
<1>2. ASSUME NEW x \in Task PROVE TurnSound(x)' /\ CancelSound(x)' /\ EventsOwn(x)'
  <2>1. TurnSound(x) /\ CancelSound(x) /\ EventsOwn(x) /\ TurnSound(t) /\ CancelSound(t) /\ EventsOwn(t) /\ TurnsTyped
    BY DEF TurnsInv
  <2>2. TurnSound(x)'
    BY <1>0, CancelToolsFacts, <1>1, <2>1 DEF TurnsTyped, Close, At, MustInterrupt, TurnSound, CancelSound, EventsOwn, Registered, Early, Active, Over, NoTool
  <2>3. CancelSound(x)'
    BY <1>0, CancelToolsFacts, <1>1, <2>1 DEF TurnsTyped, Close, At, MustInterrupt, TurnSound, CancelSound, EventsOwn, Registered, Early, Active, Over, NoTool
  <2>4. EventsOwn(x)'
    BY <1>0, CancelToolsFacts, <2>1 DEF TurnsTyped, Close, EventsOwn, NoTool
  <2>5. QED
    BY <2>2, <2>3, <2>4
<1>3. LocksHeld' /\ ThreadsApart' /\ ThreadsQuiet'
  <2>1. ThreadsStay
    BY <1>0, CancelToolsFacts, <1>1 DEF TurnsInv, TurnsTyped, ThreadsStay, Close, At, MustInterrupt, TurnSound, Registered, Early, Active, Over
  <2>2. UNCHANGED compact /\ \A x \in Task : HoldsLock(x)' => HoldsLock(x)
    BY DEF TurnsInv, TurnsTyped, Close, At, MustInterrupt, HoldsLock, HoldsSlot, Active
  <2>3. QED
    BY <2>1, <2>2, LocksAndThreadsStay
<1>4. QED
  BY <1>1, <1>2, <1>3 DEF TurnsInv

\* A drained turn is forgotten.
LEMMA PopKeeps ==
  ASSUME TurnsInv, ~Slow, NEW t \in Task, Pop(t)
  PROVE  TurnsInv'
<1>1. TurnsTyped'
  BY DEF TurnsInv, TurnsTyped, StateRow, ToolRow, Pop, At
<1>2. ASSUME NEW x \in Task PROVE TurnSound(x)' /\ CancelSound(x)' /\ EventsOwn(x)'
  <2>1. TurnSound(x) /\ CancelSound(x) /\ EventsOwn(x) /\ TurnSound(t) /\ CancelSound(t) /\ EventsOwn(t) /\ TurnsTyped
    BY DEF TurnsInv
  <2>2. TurnSound(x)'
    BY <1>1, <2>1 DEF TurnsTyped, Pop, At, TurnSound, CancelSound, EventsOwn, Registered, Early, Active, Over, NoTool
  <2>3. CancelSound(x)'
    BY <1>1, <2>1 DEF TurnsTyped, Pop, At, TurnSound, CancelSound, EventsOwn, Registered, Early, Active, Over, NoTool
  <2>4. EventsOwn(x)'
    BY <2>1 DEF TurnsTyped, Pop, EventsOwn, NoTool
  <2>5. QED
    BY <2>2, <2>3, <2>4
<1>3. LocksHeld' /\ ThreadsApart' /\ ThreadsQuiet'
  <2>1. ThreadsStay
    BY <1>1 DEF TurnsInv, TurnsTyped, ThreadsStay, Pop, At, TurnSound, Registered, Early, Active, Over
  <2>2. UNCHANGED compact /\ \A x \in Task : HoldsLock(x)' => HoldsLock(x)
    BY DEF TurnsInv, TurnsTyped, Pop, At, HoldsLock, HoldsSlot, Active
  <2>3. QED
    BY <2>1, <2>2, LocksAndThreadsStay
<1>4. QED
  BY <1>1, <1>2, <1>3 DEF TurnsInv

\* A cancellation begins.
LEMMA CancelKeeps ==
  ASSUME TurnsInv, ~Slow, NEW t \in Task, Cancel(t)
  PROVE  TurnsInv'
<1>0. /\ state' \in [Task -> StateRow] /\ \A x \in Task \ {t} : state'[x] = state[x]
      /\ state'[t].thread = state[t].thread /\ state'[t].cancelled \in {state[t].cancelled, TRUE}
      /\ Active(t) => state'[t].cancelled = TRUE
      /\ state'[t].startDone = state[t].startDone /\ state'[t].known = state[t].known
      /\ state'[t].interrupt => state[t].interrupt \/ (state[t].known /\ state'[t].cancelled)
      /\ state[t].interrupt => state'[t].interrupt
  <2>1. state \in [Task -> StateRow] /\ state[t] \in StateRow /\ DOMAIN state = Task
    BY DEF TurnsInv, TurnsTyped, StateRow
  <2>2. CASE state' = state /\ ~Active(t)
    BY <2>1, <2>2
  <2>3. CASE state' = [state EXCEPT ![t].cancelled = TRUE]
    <3>1. state'[t] = [state[t] EXCEPT !.cancelled = TRUE] /\ state' = [state EXCEPT ![t] = state'[t]]
      BY <2>1, <2>3
    <3>2. state'[t] \in StateRow
      BY <2>1, <3>1, TurnFacts
    <3>3. state' \in [Task -> StateRow] /\ \A x \in Task \ {t} : state'[x] = state[x]
      BY <2>1, <3>1, <3>2
    <3>4. /\ state'[t].thread = state[t].thread /\ state'[t].cancelled = TRUE
          /\ state'[t].startDone = state[t].startDone /\ state'[t].known = state[t].known
          /\ state'[t].interrupt = state[t].interrupt
      BY <2>1, <3>1 DEF StateRow
    <3>5. QED
      BY <3>3, <3>4
  <2>4. CASE Interrupts(t)
    <3>1. /\ state' \in [Task -> StateRow] /\ \A x \in Task \ {t} : state'[x] = state[x]
          /\ state'[t].thread = state[t].thread /\ state'[t].cancelled = TRUE
          /\ state'[t].startDone = state[t].startDone /\ state'[t].known = state[t].known
          /\ state'[t].interrupt = (state[t].interrupt \/ MustInterrupt(t))
      BY <2>4, InterruptsRow DEF Interrupts
    <3>2. QED
      BY <3>1 DEF MustInterrupt
  <2>5. QED
    BY <2>2, <2>3, <2>4 DEF Cancel
<1>1. TurnsTyped'
  BY <1>0 DEF TurnsInv, TurnsTyped, StateRow, ToolRow, Cancel, At, Interrupts, MustInterrupt
<1>2. ASSUME NEW x \in Task PROVE TurnSound(x)' /\ CancelSound(x)' /\ EventsOwn(x)'
  <2>1. TurnSound(x) /\ CancelSound(x) /\ EventsOwn(x) /\ TurnSound(t) /\ CancelSound(t) /\ EventsOwn(t) /\ TurnsTyped
    BY DEF TurnsInv
  <2>2. TurnSound(x)'
    BY <1>0, <1>1, <2>1 DEF TurnsTyped, Cancel, At, Interrupts, MustInterrupt, TurnSound, CancelSound, EventsOwn, Registered, Early, Active, Over, NoTool
  <2>3. CancelSound(x)'
    BY <1>0, <1>1, <2>1 DEF TurnsTyped, Cancel, At, Interrupts, MustInterrupt, TurnSound, CancelSound, EventsOwn, Registered, Early, Active, Over, NoTool
  <2>4. EventsOwn(x)'
    BY <1>0, <2>1 DEF TurnsTyped, Cancel, EventsOwn, NoTool
  <2>5. QED
    BY <2>2, <2>3, <2>4
<1>3. LocksHeld' /\ ThreadsApart' /\ ThreadsQuiet'
  <2>1. ThreadsStay
    BY <1>0, <1>1 DEF TurnsInv, TurnsTyped, ThreadsStay, Cancel, At, Interrupts, MustInterrupt, TurnSound, Registered, Early, Active, Over
  <2>2. UNCHANGED compact /\ \A x \in Task : HoldsLock(x)' => HoldsLock(x)
    BY DEF TurnsInv, TurnsTyped, Cancel, At, Interrupts, MustInterrupt, HoldsLock, HoldsSlot, Active
  <2>3. QED
    BY <2>1, <2>2, LocksAndThreadsStay
<1>4. QED
  BY <1>1, <1>2, <1>3 DEF TurnsInv

\* A cancellation goes on when turn/start is over.
LEMMA CancelReadyKeeps ==
  ASSUME TurnsInv, ~Slow, NEW t \in Task, CancelReady(t)
  PROVE  TurnsInv'
<1>0. /\ state' \in [Task -> StateRow] /\ \A x \in Task \ {t} : state'[x] = state[x]
      /\ state'[t].thread = state[t].thread /\ state'[t].cancelled = TRUE
      /\ state'[t].startDone = state[t].startDone /\ state'[t].known = state[t].known
      /\ state'[t].interrupt = (state[t].interrupt \/ MustInterrupt(t))
  BY InterruptsRow DEF CancelReady, Interrupts
<1>1. TurnsTyped'
  BY <1>0 DEF TurnsInv, TurnsTyped, StateRow, ToolRow, CancelReady, At, Interrupts, MustInterrupt
<1>2. ASSUME NEW x \in Task PROVE TurnSound(x)' /\ CancelSound(x)' /\ EventsOwn(x)'
  <2>1. TurnSound(x) /\ CancelSound(x) /\ EventsOwn(x) /\ TurnSound(t) /\ CancelSound(t) /\ EventsOwn(t) /\ TurnsTyped
    BY DEF TurnsInv
  <2>2. TurnSound(x)'
    BY <1>0, <1>1, <2>1 DEF TurnsTyped, CancelReady, At, Interrupts, MustInterrupt, TurnSound, CancelSound, EventsOwn, Registered, Early, Active, Over, NoTool
  <2>3. CancelSound(x)'
    BY <1>0, <1>1, <2>1 DEF TurnsTyped, CancelReady, At, Interrupts, MustInterrupt, TurnSound, CancelSound, EventsOwn, Registered, Early, Active, Over, NoTool
  <2>4. EventsOwn(x)'
    BY <1>0, <2>1 DEF TurnsTyped, CancelReady, EventsOwn, NoTool
  <2>5. QED
    BY <2>2, <2>3, <2>4
<1>3. LocksHeld' /\ ThreadsApart' /\ ThreadsQuiet'
  <2>1. ThreadsStay
    BY <1>0, <1>1 DEF TurnsInv, TurnsTyped, ThreadsStay, CancelReady, At, Interrupts, MustInterrupt, TurnSound, Registered, Early, Active, Over
  <2>2. UNCHANGED compact /\ \A x \in Task : HoldsLock(x)' => HoldsLock(x)
    BY DEF TurnsInv, TurnsTyped, CancelReady, At, Interrupts, MustInterrupt, HoldsLock, HoldsSlot, Active
  <2>3. QED
    BY <2>1, <2>2, LocksAndThreadsStay
<1>4. QED
  BY <1>1, <1>2, <1>3 DEF TurnsInv

\* A cancellation goes on when its interrupt is answered.
LEMMA CancelAnsweredKeeps ==
  ASSUME TurnsInv, ~Slow, NEW t \in Task, CancelAnswered(t)
  PROVE  TurnsInv'
<1>1. TurnsTyped'
  BY DEF TurnsInv, TurnsTyped, StateRow, ToolRow, CancelAnswered, At
<1>2. ASSUME NEW x \in Task PROVE TurnSound(x)' /\ CancelSound(x)' /\ EventsOwn(x)'
  <2>1. TurnSound(x) /\ CancelSound(x) /\ EventsOwn(x) /\ TurnSound(t) /\ CancelSound(t) /\ EventsOwn(t) /\ TurnsTyped
    BY DEF TurnsInv
  <2>2. TurnSound(x)'
    BY <1>1, <2>1 DEF TurnsTyped, CancelAnswered, At, TurnSound, CancelSound, EventsOwn, Registered, Early, Active, Over, NoTool
  <2>3. CancelSound(x)'
    BY <1>1, <2>1 DEF TurnsTyped, CancelAnswered, At, TurnSound, CancelSound, EventsOwn, Registered, Early, Active, Over, NoTool
  <2>4. EventsOwn(x)'
    BY <2>1 DEF TurnsTyped, CancelAnswered, EventsOwn, NoTool
  <2>5. QED
    BY <2>2, <2>3, <2>4
<1>3. LocksHeld' /\ ThreadsApart' /\ ThreadsQuiet'
  <2>1. ThreadsStay
    BY <1>1 DEF TurnsInv, TurnsTyped, ThreadsStay, CancelAnswered, At, TurnSound, Registered, Early, Active, Over
  <2>2. UNCHANGED compact /\ \A x \in Task : HoldsLock(x)' => HoldsLock(x)
    BY DEF TurnsInv, TurnsTyped, CancelAnswered, At, HoldsLock, HoldsSlot, Active
  <2>3. QED
    BY <2>1, <2>2, LocksAndThreadsStay
<1>4. QED
  BY <1>1, <1>2, <1>3 DEF TurnsInv

\* A cancellation stops the tools.
LEMMA CancelDrainKeeps ==
  ASSUME TurnsInv, ~Slow, NEW t \in Task, CancelDrain(t)
  PROVE  TurnsInv'
<1>1. TurnsTyped'
  BY CancelToolsFacts DEF TurnsInv, TurnsTyped, StateRow, ToolRow, CancelDrain, At
<1>2. ASSUME NEW x \in Task PROVE TurnSound(x)' /\ CancelSound(x)' /\ EventsOwn(x)'
  <2>1. TurnSound(x) /\ CancelSound(x) /\ EventsOwn(x) /\ TurnSound(t) /\ CancelSound(t) /\ EventsOwn(t) /\ TurnsTyped
    BY DEF TurnsInv
  <2>2. TurnSound(x)'
    BY CancelToolsFacts, <1>1, <2>1 DEF TurnsTyped, CancelDrain, At, TurnSound, CancelSound, EventsOwn, Registered, Early, Active, Over, NoTool
  <2>3. CancelSound(x)'
    BY CancelToolsFacts, <1>1, <2>1 DEF TurnsTyped, CancelDrain, At, TurnSound, CancelSound, EventsOwn, Registered, Early, Active, Over, NoTool
  <2>4. EventsOwn(x)'
    BY CancelToolsFacts, <2>1 DEF TurnsTyped, CancelDrain, EventsOwn, NoTool
  <2>5. QED
    BY <2>2, <2>3, <2>4
<1>3. LocksHeld' /\ ThreadsApart' /\ ThreadsQuiet'
  <2>1. ThreadsStay
    BY CancelToolsFacts, <1>1 DEF TurnsInv, TurnsTyped, ThreadsStay, CancelDrain, At, TurnSound, Registered, Early, Active, Over
  <2>2. UNCHANGED compact /\ \A x \in Task : HoldsLock(x)' => HoldsLock(x)
    BY DEF TurnsInv, TurnsTyped, CancelDrain, At, HoldsLock, HoldsSlot, Active
  <2>3. QED
    BY <2>1, <2>2, LocksAndThreadsStay
<1>4. QED
  BY <1>1, <1>2, <1>3 DEF TurnsInv

\* A cancellation returns.
LEMMA CancelReturnsKeeps ==
  ASSUME TurnsInv, ~Slow, NEW t \in Task, CancelReturns(t)
  PROVE  TurnsInv'
<1>1. TurnsTyped'
  BY DEF TurnsInv, TurnsTyped, StateRow, ToolRow, CancelReturns, At
<1>2. ASSUME NEW x \in Task PROVE TurnSound(x)' /\ CancelSound(x)' /\ EventsOwn(x)'
  <2>1. TurnSound(x) /\ CancelSound(x) /\ EventsOwn(x) /\ TurnSound(t) /\ CancelSound(t) /\ EventsOwn(t) /\ TurnsTyped
    BY DEF TurnsInv
  <2>2. TurnSound(x)'
    BY <1>1, <2>1 DEF TurnsTyped, CancelReturns, At, TurnSound, CancelSound, EventsOwn, Registered, Early, Active, Over, NoTool
  <2>3. CancelSound(x)'
    BY <1>1, <2>1 DEF TurnsTyped, CancelReturns, At, TurnSound, CancelSound, EventsOwn, Registered, Early, Active, Over, NoTool
  <2>4. EventsOwn(x)'
    BY <2>1 DEF TurnsTyped, CancelReturns, EventsOwn, NoTool
  <2>5. QED
    BY <2>2, <2>3, <2>4
<1>3. LocksHeld' /\ ThreadsApart' /\ ThreadsQuiet'
  <2>1. ThreadsStay
    BY <1>1 DEF TurnsInv, TurnsTyped, ThreadsStay, CancelReturns, At, TurnSound, Registered, Early, Active, Over
  <2>2. UNCHANGED compact /\ \A x \in Task : HoldsLock(x)' => HoldsLock(x)
    BY DEF TurnsInv, TurnsTyped, CancelReturns, At, HoldsLock, HoldsSlot, Active
  <2>3. QED
    BY <2>1, <2>2, LocksAndThreadsStay
<1>4. QED
  BY <1>1, <1>2, <1>3 DEF TurnsInv

\* The app-server starts a turn.
LEMMA ServerStartsKeeps ==
  ASSUME TurnsInv, ~Slow, NEW t \in Task, ServerStarts(t)
  PROVE  TurnsInv'
<1>1. TurnsTyped'
  BY DEF TurnsInv, TurnsTyped, StateRow, ToolRow, ServerStarts, At
<1>2. ASSUME NEW x \in Task PROVE TurnSound(x)' /\ CancelSound(x)' /\ EventsOwn(x)'
  <2>1. TurnSound(x) /\ CancelSound(x) /\ EventsOwn(x) /\ TurnSound(t) /\ CancelSound(t) /\ EventsOwn(t) /\ TurnsTyped
    BY DEF TurnsInv
  <2>2. TurnSound(x)'
    BY <1>1, <2>1 DEF TurnsTyped, ServerStarts, At, TurnSound, CancelSound, EventsOwn, Registered, Early, Active, Over, NoTool
  <2>3. CancelSound(x)'
    BY <1>1, <2>1 DEF TurnsTyped, ServerStarts, At, TurnSound, CancelSound, EventsOwn, Registered, Early, Active, Over, NoTool
  <2>4. EventsOwn(x)'
    BY <2>1 DEF TurnsTyped, ServerStarts, EventsOwn, NoTool
  <2>5. QED
    BY <2>2, <2>3, <2>4
<1>3. LocksHeld' /\ ThreadsApart' /\ ThreadsQuiet'
  <2>1. ThreadsStay
    BY <1>1 DEF TurnsInv, TurnsTyped, ThreadsStay, ServerStarts, At, TurnSound, Registered, Early, Active, Over
  <2>2. UNCHANGED compact /\ \A x \in Task : HoldsLock(x)' => HoldsLock(x)
    BY DEF TurnsInv, TurnsTyped, ServerStarts, At, HoldsLock, HoldsSlot, Active
  <2>3. QED
    BY <2>1, <2>2, LocksAndThreadsStay
<1>4. QED
  BY <1>1, <1>2, <1>3 DEF TurnsInv

\* A tool ends.
LEMMA ToolEndsKeeps ==
  ASSUME TurnsInv, ~Slow, NEW t \in Task, ToolEnds(t)
  PROVE  TurnsInv'
<1>1. TurnsTyped'
  BY DEF TurnsInv, TurnsTyped, StateRow, ToolRow, ToolEnds, At
<1>2. ASSUME NEW x \in Task PROVE TurnSound(x)' /\ CancelSound(x)' /\ EventsOwn(x)'
  <2>1. TurnSound(x) /\ CancelSound(x) /\ EventsOwn(x) /\ TurnSound(t) /\ CancelSound(t) /\ EventsOwn(t) /\ TurnsTyped
    BY DEF TurnsInv
  <2>2. TurnSound(x)'
    BY <1>1, <2>1 DEF TurnsTyped, ToolEnds, At, TurnSound, CancelSound, EventsOwn, Registered, Early, Active, Over, NoTool
  <2>3. CancelSound(x)'
    BY <1>1, <2>1 DEF TurnsTyped, ToolEnds, At, TurnSound, CancelSound, EventsOwn, Registered, Early, Active, Over, NoTool
  <2>4. EventsOwn(x)'
    BY <2>1 DEF TurnsTyped, ToolEnds, EventsOwn, NoTool
  <2>5. QED
    BY <2>2, <2>3, <2>4
<1>3. LocksHeld' /\ ThreadsApart' /\ ThreadsQuiet'
  <2>1. ThreadsStay
    BY <1>1 DEF TurnsInv, TurnsTyped, ThreadsStay, ToolEnds, At, TurnSound, Registered, Early, Active, Over
  <2>2. UNCHANGED compact /\ \A x \in Task : HoldsLock(x)' => HoldsLock(x)
    BY DEF TurnsInv, TurnsTyped, ToolEnds, At, HoldsLock, HoldsSlot, Active
  <2>3. QED
    BY <2>1, <2>2, LocksAndThreadsStay
<1>4. QED
  BY <1>1, <1>2, <1>3 DEF TurnsInv

-----------------------------------------------------------------------------
(* Steps that take locks, make threads and end turns *)

\* Whoever hears of a turn that runs is that turn itself.
LEMMA OwnListener ==
  ASSUME TurnsInv, NEW t \in Task, NEW u \in Task, server[u] = "running", Listens(t, state[u].thread)
  PROVE  t = u
BY DEF TurnsInv, ThreadsQuiet, Listens, Registered, Over

\* Once the app-server has settled, a turn that holds no lock has ended.
LEMMA QuietWhenSettled ==
  ASSUME TurnsInv, ~Slow, NEW u \in Task, Registered(u), ~HoldsLock(u), Settled(state[u].thread)
  PROVE  Over(u)
<1>1. TurnSound(u) /\ pc[u] = "done"
  <2>1. TurnSound(u)
    BY DEF TurnsInv
  <2>2. pc[u] \in {"idle", "lock", "slot", "thread", "start", "answer", "stream", "closing", "last", "drain", "done"}
    BY DEF TurnsInv, TurnsTyped
  <2>3. QED
    BY <2>1, <2>2 DEF TurnSound, Early, HoldsLock, HoldsSlot, Active
<1>2. Over(u) \/ (state[u].interrupt /\ server[u] \in {"running", "ended", "dead"})
  BY <1>1 DEF TurnSound
<1>3. server[u] = "running" => ~state[u].interrupt
  BY DEF Settled
<1>4. QED
  BY <1>2, <1>3 DEF Over

\* What is said of single turns stays true while nothing happens to them.
LEMMA TurnsStay ==
  ASSUME TurnsInv, UNCHANGED <<pc, state, inbox, endedBy, cancel, thrown, server, tool>>
  PROVE  \A x \in Task : TurnSound(x)' /\ CancelSound(x)' /\ EventsOwn(x)'
BY DEF TurnsInv, TurnSound, CancelSound, EventsOwn, Registered, Early, Active, Over

\* A lock is taken when nobody holds it.
LEMMA TakeLockKeeps ==
  ASSUME TurnsInv, ~Slow, NEW t \in Task, TakeLock(t)
  PROVE  TurnsInv'
<1>1. TurnsTyped'
  BY DEF TurnsInv, TurnsTyped, TakeLock, At
<1>2. ASSUME NEW x \in Task PROVE TurnSound(x)' /\ CancelSound(x)' /\ EventsOwn(x)'
  BY <1>1 DEF TurnsInv, TurnsTyped, TakeLock, At, TurnSound, CancelSound, EventsOwn, Registered, Early, Active, Over
<1>3. LocksHeld'
  <2>1. \A x \in Task : HoldsLock(x)' => x = t \/ HoldsLock(x)
    BY DEF TurnsInv, TurnsTyped, TakeLock, At, HoldsLock, HoldsSlot, Active
  <2>2. \A x \in Task : Conv(x) = Conv(t) => ~HoldsLock(x)
    BY ConvFacts DEF TakeLock, LockFree
  <2>3. compact' = compact /\ compact[Conv(t)] \in {"idle", "lock", "over"}
    BY DEF TakeLock, LockFree
  <2>4. QED
    BY <2>1, <2>2, <2>3 DEF TurnsInv, LocksHeld
<1>4. ThreadsApart' /\ ThreadsQuiet'
  <2>1. ThreadsStay
    BY DEF TurnsInv, TurnsTyped, ThreadsStay, TakeLock, At, Registered, Active, Over
  <2>2. ThreadsApart'
    BY <2>1 DEF TurnsInv, ThreadsApart, ThreadsStay
  <2>3. \A x \in Task : Active(x) => Registered(x)
    BY DEF TurnsInv, TurnSound
  <2>4. compact' = compact
    BY DEF TakeLock
  <2>5. ThreadsQuiet'
    BY <2>1, <2>3, <2>4 DEF TurnsInv, ThreadsQuiet, ThreadsStay
  <2>6. QED
    BY <2>2, <2>5
<1>5. QED
  BY <1>1, <1>2, <1>3, <1>4 DEF TurnsInv

\* A tool runs for its own turn only.
LEMMA ToolCallKeeps ==
  ASSUME TurnsInv, ~Slow, NEW u \in Task, ToolCall(u)
  PROVE  TurnsInv'
<1>1. /\ server[u] = "running" /\ tool' = [tool EXCEPT ![u] = [under |-> u, phase |-> "running"]]
      /\ Active(u) /\ ~state[u].cancelled
      /\ UNCHANGED <<pc, state, inbox, endedBy, cancel, thrown, thread, nextThread, server, compact, compacting>>
  BY OwnListener DEF ToolCall, Listens, MayCall
<1>2. TurnsTyped'
  BY <1>1 DEF TurnsInv, TurnsTyped
<1>3. ASSUME NEW x \in Task PROVE TurnSound(x)' /\ CancelSound(x)' /\ EventsOwn(x)'
  <2>1. TurnSound(x) /\ CancelSound(x) /\ EventsOwn(x) /\ TurnSound(u) /\ CancelSound(u) /\ TurnsTyped
    BY DEF TurnsInv
  <2>2. TurnSound(x)'
    BY <1>1, <2>1 DEF TurnsTyped, TurnSound, Registered, Early, Active, Over
  <2>3. CancelSound(x)'
    BY <1>1, <2>1 DEF TurnsTyped, TurnSound, CancelSound, Registered, Early, Active, Over
  <2>4. EventsOwn(x)'
    BY <1>1, <2>1 DEF TurnsTyped, EventsOwn
  <2>5. QED
    BY <2>2, <2>3, <2>4
<1>4. LocksHeld' /\ ThreadsApart' /\ ThreadsQuiet'
  <2>1. ThreadsStay /\ \A x \in Task : HoldsLock(x)' => HoldsLock(x)
    BY <1>1 DEF ThreadsStay, Registered, Active, Over, HoldsLock, HoldsSlot
  <2>2. QED
    BY <1>1, <2>1, LocksAndThreadsStay
<1>5. QED
  BY <1>2, <1>3, <1>4 DEF TurnsInv

\* A turn that ends is heard of by itself and by no compaction.
LEMMA ServerEndsKeeps ==
  ASSUME TurnsInv, ~Slow, NEW u \in Task, ServerEnds(u)
  PROVE  TurnsInv'
<1>1. /\ server[u] = "running" /\ server' = [server EXCEPT ![u] = "ended"]
      /\ UNCHANGED <<pc, state, endedBy, cancel, thrown, thread, nextThread, tool, compacting>>
      /\ inbox' = [t \in Task |-> IF Listens(t, state[u].thread) THEN inbox[t] \cup {u} ELSE inbox[t]]
  BY DEF ServerEnds
<1>2. \A t \in Task : inbox'[t] \subseteq inbox[t] \cup {u} /\ (u \in inbox'[t] => t = u \/ u \in inbox[t])
  BY <1>1, OwnListener
<1>3. compact' = compact
  <2>1. \A c \in Conversation : ~(compact[c] = "running" /\ thread[c] = state[u].thread)
    BY <1>1 DEF TurnsInv, ThreadsQuiet, Registered, Over
  <2>2. compact' = [c \in Conversation |-> compact[c]]
    BY <2>1 DEF ServerEnds
  <2>3. QED
    BY <2>2 DEF TurnsInv, TurnsTyped
<1>4. TurnsTyped'
  BY <1>1, <1>3 DEF TurnsInv, TurnsTyped
<1>5. ASSUME NEW x \in Task PROVE TurnSound(x)' /\ CancelSound(x)' /\ EventsOwn(x)'
  <2>1. TurnSound(x) /\ CancelSound(x) /\ EventsOwn(x) /\ TurnSound(u) /\ CancelSound(u) /\ TurnsTyped
    BY DEF TurnsInv
  <2>2. TurnSound(x)'
    BY <1>1, <2>1 DEF TurnsTyped, TurnSound, Registered, Early, Active, Over
  <2>3. CancelSound(x)'
    BY <1>1, <2>1 DEF TurnsTyped, TurnSound, CancelSound, Registered, Early, Active, Over
  <2>4. EventsOwn(x)'
    BY <1>1, <1>2, <2>1 DEF TurnsTyped, EventsOwn
  <2>5. QED
    BY <2>2, <2>3, <2>4
<1>6. LocksHeld' /\ ThreadsApart' /\ ThreadsQuiet'
  <2>1. ThreadsStay /\ \A x \in Task : HoldsLock(x)' => HoldsLock(x)
    BY <1>1 DEF TurnsInv, TurnsTyped, ThreadsStay, Registered, Active, Over, HoldsLock, HoldsSlot
  <2>2. QED
    BY <1>3, <2>1, LocksAndThreadsStay
<1>7. QED
  BY <1>4, <1>5, <1>6 DEF TurnsInv

\* The app-server dies with all turns that it has not ended.
LEMMA ServerDiesKeeps == TurnsInv /\ ServerDies => TurnsInv'
<1> SUFFICES ASSUME TurnsInv, ServerDies PROVE TurnsInv'
  OBVIOUS
<1>1. /\ server' = [u \in Task |-> IF server[u] \in {"asked", "running"} THEN "dead" ELSE server[u]]
      /\ compacting' = {}
      /\ UNCHANGED <<pc, state, inbox, endedBy, cancel, thrown, thread, nextThread, tool, compact>>
  BY DEF ServerDies
<1>2. TurnsTyped'
  BY <1>1 DEF TurnsInv, TurnsTyped
<1>3. ASSUME NEW x \in Task
      PROVE  /\ Registered(x)' <=> Registered(x)
             /\ Over(x) => server'[x] = server[x]
             /\ Over(x)' <=> Registered(x)
             /\ server[x] = "ended" => server'[x] = "ended"
             /\ Active(x)' <=> Active(x)
             /\ HoldsLock(x)' <=> HoldsLock(x)
  BY <1>1 DEF TurnsInv, TurnsTyped, Registered, Over, Active, HoldsLock, HoldsSlot
<1>4. ASSUME NEW x \in Task PROVE TurnSound(x)' /\ CancelSound(x)' /\ EventsOwn(x)'
  BY <1>1, <1>3 DEF TurnsInv, TurnSound, CancelSound, EventsOwn, Registered, Early, Over, Active
<1>5. LocksHeld' /\ ThreadsApart' /\ ThreadsQuiet'
  <2>1. LocksHeld'
    BY <1>1, <1>3 DEF TurnsInv, LocksHeld
  <2>2. ThreadsApart'
    BY <1>1, <1>3 DEF TurnsInv, ThreadsApart
  <2>3. ThreadsQuiet'
    BY <1>1, <1>3 DEF TurnsInv, ThreadsQuiet
  <2>4. QED
    BY <2>1, <2>2, <2>3
<1>6. QED
  BY <1>2, <1>4, <1>5 DEF TurnsInv

\* A compaction waits for its lock, and takes it when nobody holds it.
LEMMA CompactLockKeeps ==
  ASSUME TurnsInv, NEW c \in Conversation, Compact(c) \/ CompactLock(c) \/ CompactDone(c)
  PROVE  TurnsInv'
<1>1. /\ UNCHANGED <<pc, state, inbox, endedBy, cancel, thrown, thread, nextThread, server, tool, compacting>>
      /\ \A d \in Conversation \ {c} : compact'[d] = compact[d]
      /\ \/ compact'[c] \in {"lock", "over"}
         \/ compact'[c] = "slot" /\ \A t \in c : ~HoldsLock(t)
      /\ compact[c] # "running"
  BY DEF TurnsInv, TurnsTyped, Compact, CompactLock, CompactDone, LockFree
<1>2. TurnsTyped'
  BY <1>1 DEF TurnsInv, TurnsTyped, Compact, CompactLock, CompactDone
<1>3. \A x \in Task : TurnSound(x)' /\ CancelSound(x)' /\ EventsOwn(x)'
  BY <1>1, TurnsStay
<1>4. LocksHeld'
  <2>1. \A t \in Task : (HoldsLock(t)' <=> HoldsLock(t)) /\ t \in Conv(t) /\ Conv(t) \in Conversation
    BY <1>1, ConvFacts DEF HoldsLock, HoldsSlot, Active
  <2>2. QED
    BY <1>1, <2>1 DEF TurnsInv, LocksHeld
<1>5. ThreadsApart' /\ ThreadsQuiet'
  <2>1. \A d \in Conversation : compact'[d] = "running" <=> compact[d] = "running"
    BY <1>1
  <2>2. QED
    BY <1>1, <2>1 DEF TurnsInv, ThreadsApart, ThreadsQuiet, Registered, Active, Over
<1>6. QED
  BY <1>2, <1>3, <1>4, <1>5 DEF TurnsInv

\* A compaction starts on a thread on which the app-server has settled.
LEMMA CompactStartKeeps ==
  ASSUME TurnsInv, ~Slow, NEW c \in Conversation, CompactStart(c)
  PROVE  TurnsInv'
<1>1. /\ UNCHANGED <<pc, state, inbox, endedBy, cancel, thrown, thread, nextThread, server, tool>>
      /\ compact[c] = "slot"
      /\ \A d \in Conversation \ {c} : compact'[d] = compact[d]
      /\ \/ compact'[c] = "over" /\ compacting' = compacting
         \/ /\ thread[c] # 0 /\ Settled(thread[c]) /\ compact'[c] = "running"
            /\ compacting' = compacting \cup {thread[c]}
  BY DEF TurnsInv, TurnsTyped, CompactStart
<1>2. TurnsTyped'
  <2>1. compact' \in [Conversation -> {"idle", "lock", "slot", "running", "heard", "over"}]
    BY DEF TurnsInv, TurnsTyped, CompactStart
  <2>2. compacting' \subseteq Nat
    <3>1. thread[c] \in Nat /\ compacting \subseteq Nat
      BY DEF TurnsInv, TurnsTyped
    <3>2. QED
      BY <1>1, <3>1
  <2>3. QED
    BY <1>1, <2>1, <2>2 DEF TurnsInv, TurnsTyped
<1>3. \A x \in Task : TurnSound(x)' /\ CancelSound(x)' /\ EventsOwn(x)'
  BY <1>1, TurnsStay
<1>4. \A t \in Task : HoldsLock(t) => Conv(t) # c
  BY <1>1 DEF TurnsInv, LocksHeld
<1>5. LocksHeld'
  <2>1. \A t \in Task : (HoldsLock(t)' <=> HoldsLock(t)) /\ Conv(t) \in Conversation
    BY <1>1, ConvFacts DEF HoldsLock, HoldsSlot, Active
  <2>2. QED
    BY <1>1, <1>4, <2>1 DEF TurnsInv, LocksHeld
<1>6. ThreadsApart'
  <2>1. 0 < thread[c] \/ thread[c] = 0
    BY DEF TurnsInv, TurnsTyped
  <2>2. \A h \in compacting' : 0 < h /\ h < nextThread
    BY <1>1, <2>1 DEF TurnsInv, ThreadsApart
  <2>3. QED
    BY <1>1, <2>2 DEF TurnsInv, ThreadsApart, Registered
<1>7. ThreadsQuiet'
  <2>1. CASE compact'[c] = "over" /\ compacting' = compacting
    BY <1>1, <2>1 DEF TurnsInv, ThreadsQuiet, Registered, Active, Over
  <2>2. CASE /\ thread[c] # 0 /\ Settled(thread[c]) /\ compact'[c] = "running"
             /\ compacting' = compacting \cup {thread[c]}
    <3>1. ASSUME NEW u \in Task, Registered(u), state[u].thread = thread[c] PROVE Over(u) /\ ~Active(u)
      <4>1. Conv(u) = c
        BY <3>1 DEF TurnsInv, ThreadsApart
      <4>2. ~HoldsLock(u)
        BY <1>4, <4>1
      <4>3. Over(u)
        BY <2>2, <3>1, <4>2, QuietWhenSettled
      <4>4. QED
        BY <4>2, <4>3 DEF HoldsLock, HoldsSlot
    <3>2. \A d \in Conversation : thread[d] \in compacting' => d = c \/ thread[d] \in compacting
      BY <2>2 DEF TurnsInv, ThreadsApart
    <3>3. \A t \in Task : Active(t) => Registered(t)
      BY DEF TurnsInv, TurnSound
    <3>4. \A t \in Task : Active(t) => state[t].thread \notin compacting'
      BY <2>2, <3>1, <3>3 DEF TurnsInv, ThreadsQuiet
    <3>5. \A t \in Task : /\ Active(t)' <=> Active(t)
                          /\ Registered(t)' <=> Registered(t)
                          /\ Over(t)' <=> Over(t)
      BY <1>1 DEF Active, Registered, Over
    <3>6. \A d \in Conversation, u \in Task :
            compact'[d] = "running" /\ Registered(u) /\ state[u].thread = thread[d] => Over(u)
      BY <1>1, <3>1 DEF TurnsInv, ThreadsQuiet
    <3>7. QED
      BY <1>1, <2>2, <3>2, <3>4, <3>5, <3>6 DEF TurnsInv, ThreadsQuiet
  <2>3. QED
    BY <1>1, <2>1, <2>2
<1>8. QED
  BY <1>2, <1>3, <1>5, <1>6, <1>7 DEF TurnsInv

\* A compaction that fails forgets its thread.
LEMMA CompactFailsKeeps ==
  ASSUME TurnsInv, NEW c \in Conversation, CompactFails(c)
  PROVE  TurnsInv'
<1>1. /\ UNCHANGED <<pc, state, inbox, endedBy, cancel, thrown, nextThread, server, tool, compacting>>
      /\ compact'[c] = "over" /\ \A d \in Conversation \ {c} : compact'[d] = compact[d]
      /\ thread'[c] = 0 /\ \A d \in Conversation \ {c} : thread'[d] = thread[d]
  BY DEF TurnsInv, TurnsTyped, CompactFails, Forgotten
<1>2. TurnsTyped'
  BY <1>1 DEF TurnsInv, TurnsTyped, CompactFails, Forgotten
<1>3. \A x \in Task : TurnSound(x)' /\ CancelSound(x)' /\ EventsOwn(x)'
  BY <1>1, TurnsStay
<1>4. LocksHeld'
  <2>1. \A t \in Task : (HoldsLock(t)' <=> HoldsLock(t)) /\ Conv(t) \in Conversation
    BY <1>1, ConvFacts DEF HoldsLock, HoldsSlot, Active
  <2>2. QED
    BY <1>1, <2>1 DEF TurnsInv, LocksHeld
<1>5. ThreadsApart'
  <2>1. \A t \in Task : Registered(t)' <=> Registered(t)
    BY <1>1 DEF Registered
  <2>2. nextThread \in Nat /\ 0 < nextThread
    BY DEF TurnsInv, TurnsTyped
  <2>3. \A d \in Conversation : thread'[d] < nextThread
    BY <1>1, <2>2 DEF TurnsInv, ThreadsApart
  <2>4. \A t \in Task, d \in Conversation : Registered(t) /\ thread'[d] = state[t].thread => d = Conv(t)
    BY <1>1 DEF TurnsInv, ThreadsApart
  <2>5. \A d, e \in Conversation : thread'[d] # 0 /\ thread'[d] = thread'[e] => d = e
    BY <1>1 DEF TurnsInv, ThreadsApart
  <2>6. QED
    BY <1>1, <2>1, <2>3, <2>4, <2>5 DEF TurnsInv, ThreadsApart
<1>6. ThreadsQuiet'
  <2>1. 0 \notin compacting
    BY DEF TurnsInv, ThreadsApart
  <2>2. \A t \in Task : /\ Active(t)' <=> Active(t)
                        /\ Registered(t)' <=> Registered(t)
                        /\ Over(t)' <=> Over(t)
    BY <1>1 DEF Active, Registered, Over
  <2>3. QED
    BY <1>1, <2>1, <2>2 DEF TurnsInv, ThreadsQuiet
<1>7. QED
  BY <1>2, <1>3, <1>4, <1>5, <1>6 DEF TurnsInv

\* The app-server ends a compaction.
LEMMA CompactionEndsKeeps ==
  ASSUME TurnsInv, NEW h \in Thread, CompactionEnds(h)
  PROVE  TurnsInv'
<1>1. /\ UNCHANGED <<pc, state, inbox, endedBy, cancel, thrown, thread, nextThread, server, tool>>
      /\ compacting' = compacting \ {h}
      /\ \A c \in Conversation : compact'[c] = IF compact[c] = "running" /\ thread[c] = h THEN "heard" ELSE compact[c]
  BY DEF CompactionEnds
<1>2. TurnsTyped'
  BY <1>1 DEF TurnsInv, TurnsTyped, CompactionEnds
<1>3. \A x \in Task : TurnSound(x)' /\ CancelSound(x)' /\ EventsOwn(x)'
  BY <1>1, TurnsStay
<1>4. LocksHeld'
  <2>1. \A t \in Task : (HoldsLock(t)' <=> HoldsLock(t)) /\ Conv(t) \in Conversation
    BY <1>1, ConvFacts DEF HoldsLock, HoldsSlot, Active
  <2>2. QED
    BY <1>1, <2>1 DEF TurnsInv, LocksHeld
<1>5. ThreadsApart'
  BY <1>1 DEF TurnsInv, TurnsTyped, ThreadsApart, Registered
<1>6. ThreadsQuiet'
  BY <1>1 DEF TurnsInv, ThreadsQuiet, Registered, Active, Over
<1>7. QED
  BY <1>2, <1>3, <1>4, <1>5, <1>6 DEF TurnsInv

\* A turn is asked for on a thread that no other turn and no compaction uses.
LEMMA ThreadReadyKeeps ==
  ASSUME TurnsInv, ~Slow, NEW t \in Task, ThreadReady(t)
  PROVE  TurnsInv'
<1> DEFINE c == Conv(t)
           h == thread'[c]
<1>1. /\ TurnsTyped /\ TurnSound(t) /\ CancelSound(t) /\ EventsOwn(t) /\ LocksHeld /\ ThreadsApart /\ ThreadsQuiet
      /\ c \in Conversation
  BY ConvFacts DEF TurnsInv
<1>2. /\ pc[t] = "thread" /\ t \notin thrown /\ cancel[t] = "idle" /\ ~Registered(t) /\ tool[t] = NoTool
      /\ HoldsLock(t) /\ compact[c] \in {"idle", "lock", "over"}
      /\ \A u \in Task \ {t} : Conv(u) = c => ~HoldsLock(u)
  BY <1>1 DEF ThreadReady, TurnSound, CancelSound, Early, HoldsLock, HoldsSlot, LocksHeld
<1>3. /\ state' = [state EXCEPT ![t] = [Fresh EXCEPT !.thread = h]]
      /\ server' = [server EXCEPT ![t] = "asked"] /\ pc' = [pc EXCEPT ![t] = "start"]
      /\ UNCHANGED <<inbox, endedBy, cancel, thrown, tool, compact, compacting>>
  BY DEF ThreadReady, At
<1>4. /\ \A d \in Conversation \ {c} : thread'[d] = thread[d]
      /\ \/ h = thread[c] /\ h # 0 /\ Settled(h) /\ thread' = thread /\ nextThread' = nextThread
         \/ h = nextThread /\ nextThread' = nextThread + 1
      /\ thread' \in [Conversation -> Nat] /\ nextThread' \in Nat \ {0}
  BY <1>1 DEF ThreadReady, TurnsTyped
<1> HIDE DEF c, h
<1>5. /\ h \in Nat \ {0} /\ h < nextThread' /\ nextThread <= nextThread'
      /\ \A k \in Nat : k < nextThread => k < nextThread'
  BY <1>1, <1>4 DEF h, TurnsTyped, ThreadsApart
<1>6. ASSUME NEW u \in Task \ {t}, Registered(u), state[u].thread = h PROVE Over(u) /\ Conv(u) = c
  <2>1. CASE h = thread[c] /\ Settled(h)
    <3>1. Conv(u) = c
      BY <1>1, <1>6, <2>1 DEF ThreadsApart
    <3>2. ~HoldsLock(u)
      BY <1>2, <3>1
    <3>3. QED
      BY <1>6, <2>1, <3>1, <3>2, QuietWhenSettled
  <2>2. CASE h = nextThread
    BY <1>1, <1>6, <2>2 DEF ThreadsApart, TurnsTyped
  <2>3. QED
    BY <1>4, <2>1, <2>2
<1>7. ASSUME NEW d \in Conversation \ {c} PROVE thread[d] # h
  BY <1>1, <1>4, <1>7 DEF ThreadsApart, TurnsTyped
<1>8. h \notin compacting
  BY <1>1, <1>2, <1>4 DEF ThreadsApart, ThreadsQuiet, TurnsTyped
<1>9. /\ state'[t].thread = h /\ state'[t].known = FALSE /\ state'[t].startDone = FALSE
      /\ state'[t].interrupt = FALSE
      /\ \A x \in Task \ {t} : state'[x] = state[x]
  BY <1>1, <1>3 DEF TurnsTyped, Fresh
<1>10. TurnsTyped'
  <2>1. state' \in [Task -> StateRow]
    <3>1. [Fresh EXCEPT !.thread = h] \in StateRow
      BY <1>5 DEF Fresh, StateRow
    <3>2. QED
      BY <1>1, <1>3, <3>1 DEF TurnsTyped, StateRow
  <2>2. server' \in [Task -> {"none", "asked", "running", "ended", "dead"}]
    BY <1>1, <1>3 DEF TurnsTyped
  <2>3. pc' \in [Task -> {"idle", "lock", "slot", "thread", "start", "answer", "stream",
                          "closing", "last", "drain", "done"}]
    BY <1>1, <1>3 DEF TurnsTyped
  <2>4. QED
    BY <1>1, <1>3, <1>4, <2>1, <2>2, <2>3 DEF TurnsTyped, StateRow
<1>11. ASSUME NEW x \in Task
       PROVE  /\ Registered(x)' <=> x = t \/ Registered(x)
              /\ Active(x)' <=> x = t \/ Active(x)
              /\ HoldsLock(x)' <=> HoldsLock(x)
              /\ Over(x) => x # t
              /\ x # t => (Over(x)' <=> Over(x))
  BY <1>1, <1>2, <1>3 DEF TurnsTyped, Registered, Active, HoldsLock, HoldsSlot, Over
<1>12. ASSUME NEW x \in Task PROVE TurnSound(x)' /\ CancelSound(x)' /\ EventsOwn(x)'
  <2>1. CASE x = t
    <3>1. inbox[t] = {}
      BY <1>1, <1>2 DEF EventsOwn, Registered, TurnsTyped
    <3>2. pc'[t] = "start" /\ server'[t] = "asked"
      BY <1>1, <1>3 DEF TurnsTyped
    <3>3. TurnSound(t)'
      BY <1>2, <1>3, <1>9, <3>2 DEF TurnSound, Registered, Early, Active, Over
    <3>4. CancelSound(t)' /\ EventsOwn(t)'
      BY <1>1, <1>2, <1>3, <3>1, <3>2 DEF CancelSound, EventsOwn, Early, NoTool
    <3>5. QED
      BY <2>1, <3>3, <3>4
  <2>2. CASE x # t
    <3>1. pc'[x] = pc[x] /\ server'[x] = server[x] /\ state'[x] = state[x]
      BY <1>1, <1>3, <2>2 DEF TurnsTyped
    <3>2. QED
      BY <1>3, <3>1 DEF TurnsInv, TurnSound, CancelSound, EventsOwn, Registered, Early, Active, Over
  <2>3. QED
    BY <2>1, <2>2
<1>13. LocksHeld'
  BY <1>1, <1>3, <1>11 DEF LocksHeld
<1>14. ThreadsApart'
  <2>1. \A d \in Conversation : thread'[d] < nextThread'
    BY <1>1, <1>4, <1>5 DEF ThreadsApart, TurnsTyped, h
  <2>2. \A k \in compacting' : 0 < k /\ k < nextThread'
    BY <1>1, <1>3, <1>5 DEF ThreadsApart, TurnsTyped
  <2>3. \A x \in Task : Registered(x)' => 0 < state'[x].thread /\ state'[x].thread < nextThread'
    BY <1>1, <1>5, <1>9, <1>11 DEF ThreadsApart, TurnsTyped
  <2>4. \A x, y \in Task : Registered(x)' /\ Registered(y)' /\ state'[x].thread = state'[y].thread => Conv(x) = Conv(y)
    BY <1>1, <1>6, <1>9, <1>11 DEF ThreadsApart, c
  <2>5. ASSUME NEW x \in Task, NEW d \in Conversation, Registered(x)', thread'[d] = state'[x].thread
        PROVE  d = Conv(x)
    <3>1. CASE d = c
      BY <1>6, <1>9, <1>11, <2>5, <3>1 DEF c, h
    <3>2. CASE d # c
      BY <1>1, <1>4, <1>7, <1>9, <1>11, <2>5, <3>2 DEF ThreadsApart
    <3>3. QED
      BY <3>1, <3>2
  <2>6. \A d, e \in Conversation : thread'[d] # 0 /\ thread'[d] = thread'[e] => d = e
    BY <1>1, <1>4, <1>7 DEF ThreadsApart, h
  <2>7. QED
    BY <2>1, <2>2, <2>3, <2>4, <2>5, <2>6 DEF ThreadsApart
<1>15. ThreadsQuiet'
  <2>1. ASSUME NEW x \in Task, NEW u \in Task, Active(x)', u # x, Registered(u)', state'[u].thread = state'[x].thread
        PROVE  Over(u)'
    <3>1. CASE x = t
      BY <1>6, <1>9, <1>11, <2>1, <3>1
    <3>2. CASE u = t
      <4>1. Active(x) /\ Registered(x) /\ state[x].thread = h /\ x \in Task \ {t}
        BY <1>9, <1>11, <2>1, <3>2 DEF TurnsInv, TurnSound
      <4>2. Conv(x) = c /\ HoldsLock(x)
        BY <1>6, <4>1 DEF HoldsLock, HoldsSlot
      <4>3. QED
        BY <1>2, <4>1, <4>2
    <3>3. CASE x # t /\ u # t
      BY <1>1, <1>9, <1>11, <2>1, <3>3 DEF ThreadsQuiet
    <3>4. QED
      BY <3>1, <3>2, <3>3
  <2>2. ASSUME NEW d \in Conversation, NEW u \in Task, compact'[d] = "running", Registered(u)', state'[u].thread = thread'[d]
        PROVE  Over(u)'
    <3>1. d # c /\ thread'[d] = thread[d] /\ compact[d] = "running" /\ thread[d] # h
      BY <1>2, <1>3, <1>4, <1>7, <2>2
    <3>2. u # t
      BY <1>9, <2>2, <3>1
    <3>3. QED
      BY <1>1, <1>9, <1>11, <2>2, <3>1, <3>2 DEF ThreadsQuiet
  <2>3. \A d \in Conversation : thread'[d] \in compacting' => compact'[d] = "running"
    BY <1>1, <1>3, <1>4, <1>8 DEF ThreadsQuiet, h
  <2>4. \A x \in Task : Active(x)' => state'[x].thread \notin compacting'
    BY <1>1, <1>3, <1>8, <1>9, <1>11 DEF ThreadsQuiet
  <2>5. QED
    BY <2>1, <2>2, <2>3, <2>4 DEF ThreadsQuiet
<1>16. QED
  BY <1>10, <1>12, <1>13, <1>14, <1>15 DEF TurnsInv

-----------------------------------------------------------------------------
(* Theorems *)

\* While the app-server answers in time, a turn owns its thread from its
\* registration to its end, and its lock, its tools and its events are its own.
THEOREM TurnsInvariant == ~Slow => (TurnsSpec => []TurnsInv)
<1> SUFFICES ASSUME ~Slow PROVE TurnsSpec => []TurnsInv
  OBVIOUS
<1>1. TurnsInit => TurnsInv
  BY TurnsInvInit
<1>2. TurnsInv /\ [TurnsNext]_turnVars => TurnsInv'
  <2> SUFFICES ASSUME TurnsInv, [TurnsNext]_turnVars PROVE TurnsInv'
    OBVIOUS
  <2>1. ASSUME NEW t \in Task, Enter(t) \/ Turn(t) PROVE TurnsInv'
    BY <2>1, EnterKeeps, TakeLockKeeps, TakeSlotKeeps, ThreadReadyKeeps, LeavesEarlyKeeps, TurnStartedKeeps,
       InterruptAnsweredKeeps, CompletedKeeps, InterruptedKeeps, CloseKeeps, PopKeeps DEF Turn
  <2>2. ASSUME NEW t \in Task, Cancel(t) \/ Cancelling(t) PROVE TurnsInv'
    BY <2>2, CancelKeeps, CancelReadyKeeps, CancelAnsweredKeeps, CancelDrainKeeps, CancelReturnsKeeps DEF Cancelling
  <2>3. ASSUME NEW c \in Conversation, Compact(c) \/ Compacting(c) PROVE TurnsInv'
    BY <2>3, CompactLockKeeps, CompactStartKeeps, CompactFailsKeeps DEF Compacting
  <2>4. ASSUME NEW u \in Task, ServerStarts(u) \/ ServerEnds(u) \/ ToolCall(u) \/ ToolEnds(u) PROVE TurnsInv'
    BY <2>4, ServerStartsKeeps, ServerEndsKeeps, ToolCallKeeps, ToolEndsKeeps
  <2>5. ASSUME NEW h \in Thread, CompactionEnds(h) PROVE TurnsInv'
    BY <2>5, CompactionEndsKeeps
  <2>6. CASE ServerDies
    BY <2>6, ServerDiesKeeps
  <2>7. CASE UNCHANGED turnVars
    BY <2>7 DEF turnVars, TurnsInv, TurnsTyped, TurnSound, CancelSound, EventsOwn, LocksHeld, ThreadsApart,
                ThreadsQuiet, Registered, Early, Active, Over, HoldsLock, HoldsSlot
  <2>8. QED
    BY <2>1, <2>2, <2>3, <2>4, <2>5, <2>6, <2>7 DEF TurnsNext
<1>3. QED
  BY <1>1, <1>2, PTL DEF TurnsSpec

\* Nothing of a turn outlives it: its server turn has ended or was interrupted,
\* its tools have stopped, its thread is quiet before another turn or a
\* compaction uses it, and no turn hears of another's end.
THEOREM NothingIsOrphaned == ~Slow => (TurnsSpec => []NoOrphan)
<1>1. TurnsInv => NoOrphan
  <2> SUFFICES ASSUME TurnsInv PROVE NoOrphan
    OBVIOUS
  <2>1. ASSUME NEW t \in Task, pc[t] = "done"
        PROVE  server[t] \in {"none", "ended", "dead"} \/ state[t].interrupt
    BY <2>1 DEF TurnsInv, TurnSound, Registered, Over
  <2>2. ASSUME NEW t \in Task, NEW u \in Task, cancel[t] = "returned" \/ pc[t] = "done", tool[u].under = t
        PROVE  tool[u].phase = "cancelled"
    <3>1. u = t /\ tool[u] \in [under : Task, phase : {"running", "cancelled"}]
      BY <2>2, RuntimeAssumption DEF TurnsInv, TurnsTyped, EventsOwn, NoTool
    <3>2. QED
      BY <2>2, <3>1 DEF TurnsInv, CancelSound
  <2>3. \A t \in Task : endedBy[t] \in {t, Nobody} /\ tool[t].under \in {t, Nobody}
    BY DEF TurnsInv, EventsOwn
  <2>4. \A t \in Task : Active(t) => state[t].thread \notin compacting
    BY DEF TurnsInv, ThreadsQuiet
  <2>5. QED
    BY <2>1, <2>2, <2>3, <2>4 DEF NoOrphan
<1>2. QED
  BY <1>1, TurnsInvariant, PTL

-----------------------------------------------------------------------------
(* Types, also when the app-server outlasts the client's timeouts: a turn  *)
(* asks for a new thread at most once, so there are no more than tasks.    *)

Late == {t \in Task : ~Early(t)}
ThreadsCounted == TurnsTypeOK /\ nextThread <= Cardinality(Late) + 1

StateType == [thread : Thread, cancelled : BOOLEAN, known : BOOLEAN,
              startDone : BOOLEAN, interrupt : BOOLEAN]

\* A turn that has passed its early labels does not come back to them.
LEMMA LateGrows ==
  ASSUME nextThread \in Nat, nextThread <= Cardinality(Late) + 1,
         nextThread' = nextThread, Late \subseteq Late'
  PROVE  nextThread' <= Cardinality(Late)' + 1
<1>1. IsFiniteSet(Late')
  BY RuntimeAssumption, FS_Subset DEF Late
<1>2. Cardinality(Late) <= Cardinality(Late') /\ Cardinality(Late) \in Nat /\ Cardinality(Late') \in Nat
  BY <1>1, FS_Subset, FS_CardinalityType
<1>3. QED
  BY <1>2

\* The steps of a turn.
LEMMA TurnTyped ==
  ASSUME ThreadsCounted, NEW t \in Task, Enter(t) \/ Turn(t)
  PROVE  ThreadsCounted'
<1> DEFINE flag == state[t].interrupt \/ MustInterrupt(t)
<1>1. /\ pc \in [Task -> {"idle", "lock", "slot", "thread", "start", "answer", "stream",
                          "closing", "last", "drain", "done"}]
      /\ state \in [Task -> StateType] /\ state[t] \in StateType
      /\ tool \in [Task -> {NoTool} \cup [under : Task, phase : {"running", "cancelled"}]]
      /\ nextThread \in Nat \ {0} /\ Cardinality(Task) \in Nat
      /\ thread \in [Conversation -> Thread]
  BY RuntimeAssumption, FS_CardinalityType DEF ThreadsCounted, TurnsTypeOK, StateType
<1>2. CancelTools(t) \in [Task -> {NoTool} \cup [under : Task, phase : {"running", "cancelled"}]]
  BY <1>1, RuntimeAssumption DEF CancelTools, NoTool
<1>3. Conv(t) \in Conversation
  BY RuntimeAssumption DEF Conv
<1>4. CASE ThreadReady(t)
  <2>1. Late \subseteq Late' /\ t \notin Late /\ t \in Late'
    BY <1>1, <1>4 DEF ThreadReady, At, Late, Early
  <2>2. Late \cup {t} \subseteq Task
    BY DEF Late
  <2>3. /\ Cardinality(Late) \in Nat /\ Cardinality(Late \cup {t}) = Cardinality(Late) + 1
        /\ Cardinality(Late \cup {t}) <= Cardinality(Task)
    <3>1. IsFiniteSet(Late) /\ Cardinality(Late) \in Nat
      BY RuntimeAssumption, FS_Subset, FS_CardinalityType DEF Late
    <3>2. Cardinality(Late \cup {t}) = Cardinality(Late) + 1
      BY <2>1, <3>1, FS_AddElement
    <3>3. QED
      BY <2>2, <3>1, <3>2, RuntimeAssumption, FS_Subset
  <2>4. nextThread \in Thread
    BY <1>1, <2>3 DEF ThreadsCounted, Thread
  <2>5. /\ thread' \in [Conversation -> Thread]
        /\ nextThread' = nextThread \/ nextThread' = nextThread + 1
    BY <1>1, <1>3, <1>4, <2>4 DEF ThreadReady
  <2>6. [Fresh EXCEPT !.thread = thread'[Conv(t)]] \in StateType
    BY <1>3, <2>5 DEF Fresh, StateType
  <2>7. state' \in [Task -> StateType]
    BY <1>1, <1>4, <2>6 DEF ThreadReady
  <2>8. nextThread' \in 1..Cardinality(Task) + 1 /\ nextThread' <= Cardinality(Late) + 2
    BY <1>1, <2>3, <2>5 DEF ThreadsCounted
  <2>9. Cardinality(Late') \in Nat /\ Cardinality(Late) + 1 <= Cardinality(Late')
    <3>1. IsFiniteSet(Late') /\ Late \cup {t} \subseteq Late'
      BY <2>1, RuntimeAssumption, FS_Subset DEF Late
    <3>2. QED
      BY <2>3, <3>1, FS_Subset, FS_CardinalityType
  <2>10. TurnsTypeOK'
    BY <1>4, <2>5, <2>7, <2>8 DEF ThreadReady, At, ThreadsCounted, TurnsTypeOK, StateType
  <2>11. nextThread' <= Cardinality(Late)' + 1
    BY <1>1, <2>3, <2>8, <2>9
  <2>12. QED
    BY <2>10, <2>11 DEF ThreadsCounted
<1>5. CASE ~ThreadReady(t)
  <2>1. nextThread' = nextThread /\ thread' = thread
    BY <1>5 DEF Enter, Turn, TakeLock, TakeSlot, LeavesEarly, TurnStarted, InterruptAnswered, Completed,
                Interrupted, Close, Pop
  <2>2. /\ pc' \in [Task -> {"idle", "lock", "slot", "thread", "start", "answer", "stream",
                             "closing", "last", "drain", "done"}]
        /\ \A x \in Task : x # t => pc'[x] = pc[x]
        /\ ~Early(t) => ~Early(t)'
    BY <1>1, <1>5 DEF Enter, Turn, TakeLock, TakeSlot, LeavesEarly, TurnStarted, InterruptAnswered, Completed,
                      Interrupted, Close, Pop, Started, At, Early
  <2>3. Late \subseteq Late'
    BY <2>2 DEF Late, Early
  <2>4. state' \in [Task -> StateType]
    <3>1. CASE TurnStarted(t)
      <4>1. [state[t] EXCEPT !.startDone = TRUE, !.known = TRUE,
                             !.interrupt = state[t].interrupt \/ state[t].cancelled] \in StateType
        BY <1>1 DEF StateType
      <4>2. state' = [state EXCEPT ![t] = [state[t] EXCEPT !.startDone = TRUE, !.known = TRUE,
                             !.interrupt = state[t].interrupt \/ state[t].cancelled]]
        BY <1>1, <3>1 DEF TurnStarted, Started
      <4>3. QED
        BY <1>1, <4>1, <4>2
    <3>2. CASE Interrupted(t)
      BY <1>1, <3>2 DEF Interrupted, StateType
    <3>3. CASE Close(t)
      <4>1. [state[t] EXCEPT !.cancelled = TRUE, !.interrupt = flag] \in StateType
        BY <1>1 DEF StateType, MustInterrupt
      <4>2. state' = [state EXCEPT ![t] = [state[t] EXCEPT !.cancelled = TRUE, !.interrupt = flag]]
        BY <1>1, <3>3 DEF Close
      <4>3. QED
        BY <1>1, <4>1, <4>2
    <3>4. CASE UNCHANGED state
      BY <1>1, <3>4
    <3>5. QED
      BY <1>5, <3>1, <3>2, <3>3, <3>4 DEF Enter, Turn, TakeLock, TakeSlot, LeavesEarly, InterruptAnswered,
                                          Completed, Pop
  <2>5. tool' \in [Task -> {NoTool} \cup [under : Task, phase : {"running", "cancelled"}]]
    BY <1>1, <1>2, <1>5 DEF Enter, Turn, TakeLock, TakeSlot, LeavesEarly, TurnStarted, InterruptAnswered, Completed,
                            Interrupted, Close, Pop
  <2>6. /\ inbox' \in [Task -> SUBSET Task] /\ thrown' \subseteq Task
        /\ endedBy' \in [Task -> Task \cup {Nobody}]
        /\ UNCHANGED <<cancel, server, compact, compacting>>
    BY <1>5 DEF Enter, Turn, TakeLock, TakeSlot, LeavesEarly, TurnStarted, InterruptAnswered, Completed,
                Interrupted, Close, Pop, ThreadsCounted, TurnsTypeOK
  <2>7. TurnsTypeOK'
    BY <2>1, <2>2, <2>4, <2>5, <2>6 DEF ThreadsCounted, TurnsTypeOK, StateType
  <2>8. nextThread' <= Cardinality(Late)' + 1
    BY <1>1, <2>1, <2>3, LateGrows DEF ThreadsCounted
  <2>9. QED
    BY <2>7, <2>8 DEF ThreadsCounted
<1>6. QED
  BY <1>4, <1>5

\* The steps of a cancellation.
LEMMA CancellationTyped ==
  ASSUME ThreadsCounted, NEW t \in Task, Cancel(t) \/ Cancelling(t)
  PROVE  ThreadsCounted'
<1> DEFINE flag == state[t].interrupt \/ MustInterrupt(t)
<1>1. /\ state \in [Task -> StateType] /\ state[t] \in StateType
      /\ cancel \in [Task -> {"idle", "ready", "interrupting", "tools", "drain", "returned"}]
      /\ tool \in [Task -> {NoTool} \cup [under : Task, phase : {"running", "cancelled"}]]
      /\ nextThread \in Nat
  BY RuntimeAssumption, FS_CardinalityType DEF ThreadsCounted, TurnsTypeOK, StateType
<1>2. CancelTools(t) \in [Task -> {NoTool} \cup [under : Task, phase : {"running", "cancelled"}]]
  BY <1>1, RuntimeAssumption DEF CancelTools, NoTool
<1>3. UNCHANGED <<pc, inbox, endedBy, thread, nextThread, server, compact, compacting>>
  BY DEF Cancel, Cancelling, CancelReady, CancelAnswered, CancelDrain, CancelReturns
<1>4. ASSUME Interrupts(t) PROVE state' \in [Task -> StateType]
  <2>1. [state[t] EXCEPT !.cancelled = TRUE, !.interrupt = flag] \in StateType
    BY <1>1 DEF StateType, MustInterrupt
  <2>2. state' = [state EXCEPT ![t] = [state[t] EXCEPT !.cancelled = TRUE, !.interrupt = flag]]
    BY <1>1, <1>4 DEF Interrupts
  <2>3. QED
    BY <1>1, <2>1, <2>2
<1>5. state' \in [Task -> StateType]
  <2>1. CASE Cancel(t)
    <3>1. CASE state' = [state EXCEPT ![t].cancelled = TRUE]
      BY <1>1, <3>1 DEF StateType
    <3>2. QED
      BY <1>1, <1>4, <2>1, <3>1 DEF Cancel
  <2>2. CASE CancelReady(t)
    <3>1. CASE state' = [state EXCEPT ![t].startDone = TRUE]
      BY <1>1, <3>1 DEF StateType
    <3>2. QED
      BY <1>4, <2>2, <3>1 DEF CancelReady
  <2>3. CASE CancelAnswered(t) \/ CancelDrain(t) \/ CancelReturns(t)
    BY <1>1, <2>3 DEF CancelAnswered, CancelDrain, CancelReturns
  <2>4. QED
    BY <2>1, <2>2, <2>3 DEF Cancelling
<1>6. /\ cancel' \in [Task -> {"idle", "ready", "interrupting", "tools", "drain", "returned"}]
      /\ thrown' \subseteq Task
  BY <1>1 DEF Cancel, Cancelling, CancelReady, CancelAnswered, CancelDrain, CancelReturns, Interrupts,
              ThreadsCounted, TurnsTypeOK
<1>7. tool' \in [Task -> {NoTool} \cup [under : Task, phase : {"running", "cancelled"}]]
  BY <1>1, <1>2 DEF Cancel, Cancelling, CancelReady, CancelAnswered, CancelDrain, CancelReturns
<1>8. TurnsTypeOK'
  BY <1>3, <1>5, <1>6, <1>7 DEF ThreadsCounted, TurnsTypeOK, StateType
<1>9. Late' = Late
  BY <1>3 DEF Late, Early
<1>10. QED
  BY <1>1, <1>3, <1>8, <1>9, LateGrows DEF ThreadsCounted

\* The steps of a compaction and of the app-server.
LEMMA ServerTyped ==
  ASSUME ThreadsCounted,
         \/ \E c \in Conversation : Compact(c) \/ Compacting(c)
         \/ \E u \in Task : ServerStarts(u) \/ ServerEnds(u) \/ ToolCall(u) \/ ToolEnds(u)
         \/ \E h \in Thread : CompactionEnds(h)
         \/ ServerDies
  PROVE  ThreadsCounted'
<1> USE DEF ThreadsCounted
<1>1. UNCHANGED <<pc, state, endedBy, cancel, thrown, nextThread>> /\ nextThread \in Nat
  BY RuntimeAssumption, FS_CardinalityType
     DEF Compact, Compacting, CompactLock, CompactStart, CompactDone, CompactFails, ServerStarts, ServerEnds,
         ToolCall, ToolEnds, CompactionEnds, ServerDies, TurnsTypeOK
<1>2. 0 \in Thread
  BY RuntimeAssumption, FS_CardinalityType DEF Thread
<1>3. ASSUME NEW c \in Conversation, Compact(c) \/ Compacting(c)
      PROVE  TurnsTypeOK'
  <2>1. CASE Compact(c) \/ CompactLock(c) \/ CompactDone(c)
    BY <2>1 DEF Compact, CompactLock, CompactDone, TurnsTypeOK
  <2>2. CASE CompactStart(c)
    BY <2>2 DEF CompactStart, TurnsTypeOK
  <2>3. CASE CompactFails(c)
    BY <1>2, <2>3 DEF CompactFails, Forgotten, TurnsTypeOK
  <2>4. QED
    BY <1>3, <2>1, <2>2, <2>3 DEF Compacting
<1>4. ASSUME NEW u \in Task, ServerStarts(u) \/ ServerEnds(u) \/ ToolCall(u) \/ ToolEnds(u)
      PROVE  TurnsTypeOK'
  <2>1. CASE ServerStarts(u)
    BY <2>1 DEF ServerStarts, TurnsTypeOK
  <2>2. CASE ServerEnds(u)
    BY <2>2 DEF ServerEnds, TurnsTypeOK
  <2>3. CASE ToolCall(u)
    BY <2>3 DEF ToolCall, TurnsTypeOK
  <2>4. CASE ToolEnds(u)
    BY <2>4 DEF ToolEnds, TurnsTypeOK
  <2>5. QED
    BY <1>4, <2>1, <2>2, <2>3, <2>4
<1>5. ASSUME NEW h \in Thread, CompactionEnds(h) PROVE TurnsTypeOK'
  BY <1>5 DEF CompactionEnds, TurnsTypeOK
<1>6. ASSUME ServerDies PROVE TurnsTypeOK'
  BY <1>6 DEF ServerDies, TurnsTypeOK
<1>7. TurnsTypeOK'
  BY <1>3, <1>4, <1>5, <1>6
<1>8. Late' = Late
  BY <1>1 DEF Late, Early
<1>9. QED
  BY <1>1, <1>7, <1>8, LateGrows

\* Every variable of the runtime keeps its type, and the app-server has given
\* out at most one thread for each task, however slow it is.
THEOREM TurnsTypeCorrect == TurnsSpec => []TurnsTypeOK
<1>1. TurnsInit => ThreadsCounted
  <2> SUFFICES ASSUME TurnsInit PROVE ThreadsCounted
    OBVIOUS
  <2>1. Cardinality(Task) \in Nat /\ Late = {} /\ Cardinality(Late) = 0
    BY RuntimeAssumption, FS_CardinalityType, FS_EmptySet DEF TurnsInit, Late, Early
  <2>2. Fresh \in StateType /\ 0 \in Thread /\ 1 \in 1..Cardinality(Task) + 1
    BY <2>1 DEF Fresh, StateType, Thread
  <2>3. TurnsTypeOK
    BY <2>2 DEF TurnsInit, TurnsTypeOK, StateType
  <2>4. QED
    BY <2>1, <2>3 DEF TurnsInit, ThreadsCounted
<1>2. ThreadsCounted /\ [TurnsNext]_turnVars => ThreadsCounted'
  <2> SUFFICES ASSUME ThreadsCounted, [TurnsNext]_turnVars PROVE ThreadsCounted'
    OBVIOUS
  <2>1. CASE UNCHANGED turnVars
    BY <2>1 DEF turnVars, ThreadsCounted, TurnsTypeOK, Late, Early
  <2>2. QED
    BY <2>1, TurnTyped, CancellationTyped, ServerTyped DEF TurnsNext
<1>3. QED
  BY <1>1, <1>2, PTL DEF TurnsSpec, ThreadsCounted
=============================================================================
