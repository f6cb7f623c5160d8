---------------------------- MODULE DesktopPool ----------------------------
(***************************************************************************)
(* The desktop pool of desktop/lifecycle.py as desktop/supervisor.py runs  *)
(* it: private desktops (containers) shared by bot tasks and human         *)
(* viewers, a bounded number of which may run, with leases, ownership      *)
(* generations and a state file that survive a supervisor restart.         *)
(*                                                                         *)
(* A request is a coroutine; it yields at the allocation lock, at desktop  *)
(* locks and at docker commands, and each action below is the code between *)
(* two of these points.  An `inspect` and the code that uses its answer    *)
(* are one action.  asyncio.Lock is fair and has no barging: a release     *)
(* frees the lock and wakes the first waiter, and in between `locked()`    *)
(* is false although the lock is spoken for.                               *)
(*                                                                         *)
(* Time is abstracted: a lease may have expired, and a desktop may have    *)
(* been idle long enough, whenever the code looks.                         *)
(***************************************************************************)
EXTENDS Naturals, Sequences, FiniteSets

CONSTANTS Agent,       \* desktops, one per agent
          Proc,        \* concurrent requests, the watchdog among them
          Task,        \* bot tasks
          Viewer,      \* browser sessions
          NoOne,
          Allocation,  \* the allocation lock
          Capacity,    \* BOT_DESKTOP_MAX_RUNNING
          MaxGen       \* bound: no request or crash above this generation

ASSUME PoolAssumption ==
  /\ Allocation \notin Agent
  /\ NoOne \notin Proc \cup Agent \cup Task \cup Viewer
  /\ Task \cap Viewer = {}
  /\ Capacity \in Nat \ {0} /\ MaxGen \in Nat

VARIABLES
  rec,       \* DesktopPool.records in memory
  disk,      \* the records in desktop-leases.json
  running,   \* agents whose container runs
  vnc,       \* input policy of each container's VNC server
  serving,   \* "down" | "booting" | "up": the supervisor process
  boot,      \* progress of reconcile per agent
  lock,      \* asyncio locks: owner and waiters
  pc,        \* where a request is
  req,       \* what it asks
  at,        \* desktop whose lock it wants or holds
  scan,      \* desktops its _reap_locked has still to visit
  token      \* ownership a task was last granted (DesktopManager._task_generations)

store == <<rec, disk>>
docker == <<running, vnc>>
proc == <<pc, req, at, scan>>
vars == <<store, docker, serving, boot, lock, proc, token>>

Locks == Agent \cup {Allocation}
Op == {"none", "wake", "status", "stop", "control", "beat", "taskbeat", "release",
       "action", "reap"}
PC == {"idle", "alloc", "scan", "sweep", "sweepquiesce", "sweepbody", "sweepstop",
       "desk", "quiesce", "body", "handoff", "starting", "readying", "stopping",
       "acting", "pausing"}
Record == [gen : Nat, mode : {"bot", "manual"},
           phase : {"sleeping", "waiting", "waking", "running", "failed"},
           tasks : [Task -> Nat],      \* generation of each task lease, 0 if none
           viewers : SUBSET Viewer,    \* viewer leases
           quiesce : BOOLEAN]          \* needs_quiesce
Request == [op : Op, agent : Agent \cup {NoOne}, who : Task \cup Viewer \cup {NoOne},
            arg : {"none", "bot", "manual", "visible", "hidden"}, gen : Nat]
NoRequest == [op |-> "none", agent |-> NoOne, who |-> NoOne, arg |-> "none", gen |-> 0]

TypeOK ==
  /\ rec \in [Agent -> Record] /\ disk \in [Agent -> Record]
  /\ running \subseteq Agent
  /\ vnc \in [Agent -> {"none", "bot", "manual"}]
  /\ serving \in {"down", "booting", "up"}
  /\ boot \in [Agent -> {"todo", "quiesce", "done"}]
  /\ lock \in [Locks -> [owner : Proc \cup {NoOne}, queue : Seq(Proc)]]
  /\ pc \in [Proc -> PC] /\ req \in [Proc -> Request]
  /\ at \in [Proc -> Agent \cup {NoOne}]
  /\ scan \in [Proc -> SUBSET Agent]
  /\ token \in [Task -> [agent : Agent \cup {NoOne}, gen : Nat]]

Fresh == [gen |-> 0, mode |-> "bot", phase |-> "sleeping",
          tasks |-> [k \in Task |-> 0], viewers |-> {}, quiesce |-> FALSE]

Init ==
  /\ rec = [a \in Agent |-> Fresh] /\ disk = rec
  /\ running = {} /\ vnc = [a \in Agent |-> "none"]
  /\ serving = "up" /\ boot = [a \in Agent |-> "done"]
  /\ lock = [l \in Locks |-> [owner |-> NoOne, queue |-> <<>>]]
  /\ pc = [p \in Proc |-> "idle"] /\ req = [p \in Proc |-> NoRequest]
  /\ at = [p \in Proc |-> NoOne] /\ scan = [p \in Proc |-> {}]
  /\ token = [k \in Task |-> [agent |-> NoOne, gen |-> 0]]

-----------------------------------------------------------------------------
(* Locks *)

Locked(l) == lock[l].owner # NoOne
Holds(p, l) == lock[l].owner = p

\* acquire(): immediate only if the lock is free and nobody waits.
Claimed(p, l, lk) ==
  IF lk[l].owner = NoOne /\ lk[l].queue = <<>>
    THEN [lk EXCEPT ![l].owner = p]
    ELSE [lk EXCEPT ![l].queue = Append(@, p)]

Freed(L) == [l \in Locks |-> IF l \in L THEN [lock[l] EXCEPT !.owner = NoOne] ELSE lock[l]]
Held(p) == {l \in Locks : Holds(p, l)}

\* p leaves a queue (deque.remove).
Without(s, p) ==
  IF \E i \in DOMAIN s : s[i] = p
    THEN LET i == CHOOSE j \in DOMAIN s : s[j] = p
         IN SubSeq(s, 1, i - 1) \o SubSeq(s, i + 1, Len(s))
    ELSE s

\* Mutant: an exception leaves the allocation lock taken.
DroppedDesktop(p) ==
  [l \in Locks |-> [owner |-> IF Holds(p, l) /\ l # Allocation THEN NoOne ELSE lock[l].owner,
                    queue |-> Without(lock[l].queue, p)]]

\* Leaving every lock and every queue.
Dropped(p) ==
  [l \in Locks |-> [owner |-> IF Holds(p, l) THEN NoOne ELSE lock[l].owner,
                    queue |-> Without(lock[l].queue, p)]]

\* The first waiter resumes with a lock that was released.
Handover(l) ==
  /\ ~Locked(l) /\ lock[l].queue # <<>>
  /\ lock' = [lock EXCEPT ![l] = [owner |-> Head(@.queue), queue |-> Tail(@.queue)]]
  /\ UNCHANGED <<store, docker, serving, boot, proc, token>>

-----------------------------------------------------------------------------
(* Records *)

HasLease(r) == r.viewers # {} \/ \E k \in Task : r.tasks[k] # 0
NoLeases == [k \in Task |-> 0]

\* expire(): drop the leases of T and V; a desktop whose last viewer is gone
\* returns to its bot under a new generation.
Expired(r, T, V) ==
  LET s == [r EXCEPT !.tasks = [k \in Task |-> IF k \in T THEN 0 ELSE @[k]],
                     !.viewers = @ \ V]
  IN IF s.mode = "manual" /\ s.viewers = {}
       THEN [s EXCEPT !.mode = "bot", !.gen = @ + 1, !.quiesce = TRUE]
       ELSE s

\* renew() for a task or a viewer.
Renewed(r, who) ==
  IF who \in Task THEN [r EXCEPT !.tasks[who] = r.gen]
                  ELSE [r EXCEPT !.viewers = @ \cup {who}]

Asleep(r) == [r EXCEPT !.phase = "sleeping", !.gen = @ + 1, !.tasks = NoLeases,
                       !.viewers = {}, !.mode = "bot"]
\* Mutant: a phase that the desktop window does not know.
WakingUnknown(r) ==
  [r EXCEPT !.phase = "starting", !.gen = @ + 1, !.tasks = NoLeases, !.viewers = {}]
Waking(r) == [r EXCEPT !.phase = "waking", !.gen = @ + 1, !.tasks = NoLeases, !.viewers = {}]
Handed(r, mode) == IF r.mode = mode THEN r
                   ELSE [r EXCEPT !.gen = @ + 1, !.mode = mode, !.quiesce = TRUE,
                                  !.tasks = NoLeases]

Keep(a, r) == rec' = [rec EXCEPT ![a] = r] /\ UNCHANGED disk

\* Mutant: records reach the disk with the next reap only.
SaveLater(a, r) == rec' = [rec EXCEPT ![a] = r] /\ UNCHANGED disk
Save(a, r) == rec' = [rec EXCEPT ![a] = r] /\ disk' = rec'

-----------------------------------------------------------------------------
(* The life of a request *)

Goto(p, label) == pc' = [pc EXCEPT ![p] = label]

\* The request is over: its locks are free and it is forgotten.
Done(p) ==
  /\ Goto(p, "idle")
  /\ req' = [req EXCEPT ![p] = NoRequest]
  /\ at' = [at EXCEPT ![p] = NoOne] /\ scan' = [scan EXCEPT ![p] = {}]
  /\ lock' = Dropped(p)

\* An exception leaves the request.  For wake, a desktop that it left waiting
\* goes back to sleep, unless someone holds its lock.  r: records so far.
Failed(p, a, r) ==
  LET b == req[p].agent
      s == [rec EXCEPT ![a] = r]
      reset == req[p].op = "wake" /\ s[b].phase = "waiting" /\ Dropped(p)[b].owner = NoOne
  IN /\ Done(p)
     /\ rec' = IF reset THEN [s EXCEPT ![b].phase = "sleeping"] ELSE s
     /\ disk' = IF reset \/ r # rec[a] THEN rec' ELSE disk

\* Arguments a caller can present: a task knows the generation it was last
\* granted, a viewer the current one, which may be stale when it is used.
Requests ==
  {[op |-> "wake", agent |-> a, who |-> w, arg |-> "none", gen |-> 0] :
     a \in Agent, w \in Task \cup Viewer} \cup
  {[op |-> o, agent |-> a, who |-> NoOne, arg |-> "none", gen |-> 0] :
     o \in {"status", "stop"}, a \in Agent} \cup
  {[op |-> "control", agent |-> a, who |-> v, arg |-> m, gen |-> 0] :
     a \in Agent, v \in Viewer, m \in {"bot", "manual"}} \cup
  {[op |-> "beat", agent |-> a, who |-> v, arg |-> m, gen |-> rec[a].gen] :
     a \in Agent, v \in Viewer, m \in {"visible", "hidden"}} \cup
  {[op |-> o, agent |-> token[k].agent, who |-> k, arg |-> "none", gen |-> token[k].gen] :
     o \in {"taskbeat", "release", "action"},
     k \in {j \in Task : token[j].agent # NoOne}} \cup
  {[op |-> "reap", agent |-> NoOne, who |-> NoOne, arg |-> "none", gen |-> 0]}

\* There is one watchdog, so one reap at a time.
Call(p, r) ==
  /\ serving = "up" /\ pc[p] = "idle"
  /\ \A a \in Agent : rec[a].gen <= MaxGen
  /\ r.op = "reap" => \A q \in Proc : req[q].op # "reap"
  /\ req' = [req EXCEPT ![p] = r]
  /\ IF r.op \in {"wake", "stop", "reap"}
       THEN /\ Goto(p, "alloc")
            /\ lock' = Claimed(p, Allocation, lock)
            /\ UNCHANGED at
       ELSE /\ Goto(p, "desk")
            /\ lock' = Claimed(p, r.agent, lock)
            /\ at' = [at EXCEPT ![p] = r.agent]
  /\ UNCHANGED <<store, docker, serving, boot, scan, token>>

\* wait_for gave up on the allocation lock after 0.25 s; wake asks again.
AllocTimeout(p) ==
  /\ pc[p] = "alloc" /\ req[p].op = "wake" /\ ~Holds(p, Allocation)
  /\ lock' = Claimed(p, Allocation, Dropped(p))
  /\ UNCHANGED <<store, docker, serving, boot, proc, token>>

\* The caller of wake has disconnected or its deadline has passed.
GiveUp(p) ==
  /\ req[p].op = "wake"
  /\ pc[p] = "pausing" \/ (pc[p] = "alloc" /\ ~Holds(p, Allocation))
  /\ Failed(p, req[p].agent, rec[req[p].agent])
  /\ UNCHANGED <<docker, serving, boot, token>>

Retry(p) ==
  /\ pc[p] = "pausing"
  /\ Goto(p, "alloc")
  /\ lock' = Claimed(p, Allocation, lock)
  /\ UNCHANGED <<store, docker, serving, boot, req, at, scan, token>>

\* The allocation lock is held: stop goes to its desktop, the others reap.
Admitted(p) ==
  /\ pc[p] = "alloc" /\ Holds(p, Allocation)
  /\ IF req[p].op = "stop"
       THEN /\ Goto(p, "desk")
            /\ lock' = Claimed(p, req[p].agent, lock)
            /\ at' = [at EXCEPT ![p] = req[p].agent]
            /\ UNCHANGED scan
       ELSE /\ Goto(p, "scan")
            /\ scan' = [scan EXCEPT ![p] = Agent]
            /\ UNCHANGED <<lock, at>>
  /\ UNCHANGED <<store, docker, serving, boot, req, token>>

\* _reap_locked visits the desktops that are not locked.
Visit(p, a) ==
  /\ pc[p] = "scan" /\ a \in scan[p]
  /\ scan' = [scan EXCEPT ![p] = @ \ {a}]
  /\ \/ /\ Locked(a)
        /\ UNCHANGED <<lock, at, pc>>
     \/ /\ ~Locked(a)
        /\ lock' = Claimed(p, a, lock)
        /\ at' = [at EXCEPT ![p] = a]
        /\ Goto(p, "sweep")
  /\ UNCHANGED <<store, docker, serving, boot, req, token>>

\* Back to the loop of _reap_locked.
Leaves(p) ==
  /\ Goto(p, "scan")
  /\ at' = [at EXCEPT ![p] = NoOne]
  /\ lock' = Freed({at[p]})
  /\ UNCHANGED <<req, scan>>

\* After the reap, wake takes its own desktop unless it is locked.
ScanDone(p) ==
  /\ pc[p] = "scan" /\ scan[p] = {}
  /\ disk' = rec
  /\ \/ /\ req[p].op = "reap"
        /\ Done(p)
     \/ /\ req[p].op = "wake" /\ ~Locked(req[p].agent)
        /\ Goto(p, "desk")
        /\ lock' = Claimed(p, req[p].agent, lock)
        /\ at' = [at EXCEPT ![p] = req[p].agent]
        /\ UNCHANGED <<req, scan>>
     \/ /\ req[p].op = "wake" /\ Locked(req[p].agent)
        /\ Goto(p, "pausing")
        /\ lock' = Freed({Allocation})
        /\ UNCHANGED <<req, at, scan>>
  /\ UNCHANGED <<rec, docker, serving, boot, token>>

\* Owning its desktop's lock at a label.
Inside(p, label) == pc[p] = label /\ at[p] \in Agent /\ Holds(p, at[p])

\* An action whose caller disconnected while it queued.
Cancelled(p) ==
  /\ Inside(p, "desk") /\ req[p].op = "action"
  /\ Done(p)
  /\ UNCHANGED <<store, docker, serving, boot, token>>

-----------------------------------------------------------------------------
(* expire_locked *)

AfterExpire == [desk |-> "body", sweep |-> "sweepbody"]
QuiesceAt   == [desk |-> "quiesce", sweep |-> "sweepquiesce"]
AfterQuiesce == [quiesce |-> "body", sweepquiesce |-> "sweepbody", handoff |-> "idle"]

Expire(p) ==
  LET a == at[p] IN
  /\ \/ Inside(p, "sweep")
     \/ Inside(p, "desk") /\ req[p].op \notin {"stop", "release"}
  /\ \E T \in SUBSET {k \in Task : rec[a].tasks[k] # 0}, V \in SUBSET rec[a].viewers :
       LET r == Expired(rec[a], T, V) IN
         IF r.quiesce THEN Save(a, r) /\ Goto(p, QuiesceAt[pc[p]])
                      ELSE Keep(a, r) /\ Goto(p, AfterExpire[pc[p]])
  /\ UNCHANGED <<docker, serving, boot, lock, req, at, scan, token>>

\* The input policy of a running container follows control_mode, or the
\* request fails and needs_quiesce stays for the next one.
Quiesce(p) ==
  LET a == at[p] IN
  /\ \E l \in DOMAIN AfterQuiesce : Inside(p, l)
  /\ \/ /\ vnc' = [vnc EXCEPT ![a] = IF a \in running THEN rec[a].mode ELSE @]
        /\ Save(a, [rec[a] EXCEPT !.quiesce = FALSE])
        /\ IF AfterQuiesce[pc[p]] = "idle"
             THEN Done(p)
             ELSE Goto(p, AfterQuiesce[pc[p]]) /\ UNCHANGED <<lock, req, at, scan>>
     \/ /\ a \in running
        /\ \E v \in {vnc[a], "none", rec[a].mode} : vnc' = [vnc EXCEPT ![a] = v]
        /\ Failed(p, a, rec[a])
  /\ UNCHANGED <<running, serving, boot, token>>

\* Docker does not answer an inspect, and the request fails with it.
InspectFails(p) ==
  /\ \E l \in {"body", "sweepbody"} \cup DOMAIN AfterQuiesce : Inside(p, l)
  /\ Failed(p, at[p], rec[at[p]])
  /\ UNCHANGED <<docker, serving, boot, token>>

-----------------------------------------------------------------------------
(* wake *)

Granted(p, r) ==
  LET s == Renewed([r EXCEPT !.phase = "running"], req[p].who) IN
  /\ Save(at[p], s)
  /\ token' = IF req[p].who \in Task
                THEN [token EXCEPT ![req[p].who] = [agent |-> at[p], gen |-> s.gen]]
                ELSE token
  /\ Done(p)

\* Mutant: capacity is counted in the records, not in docker.
HasRoomInRecords ==
  Cardinality({a \in Agent : rec[a].phase = "running"}) < Capacity
HasRoom == Cardinality(running) < Capacity

WakeBody(p) ==
  LET a == at[p] IN
  /\ Inside(p, "body") /\ req[p].op = "wake"
  /\ \/ /\ req[p].who \in Task /\ rec[a].mode = "manual"
        /\ Failed(p, a, rec[a])
        /\ UNCHANGED token
     \/ /\ ~(req[p].who \in Task /\ rec[a].mode = "manual")
        /\ \/ /\ a \in running
              /\ Granted(p, rec[a])
           \/ /\ a \notin running /\ HasRoom
              /\ Save(a, Waking(rec[a]))
              /\ Goto(p, "starting")
              /\ UNCHANGED <<lock, req, at, scan, token>>
           \/ /\ a \notin running /\ ~HasRoom
              /\ Save(a, [rec[a] EXCEPT !.phase = "waiting"])
              /\ Goto(p, "pausing")
              /\ at' = [at EXCEPT ![p] = NoOne]
              /\ lock' = Freed({a, Allocation})
              /\ UNCHANGED <<req, scan, token>>
  /\ UNCHANGED <<docker, serving, boot>>

\* driver.start: the container's VNC server starts view-only.
Started(p) ==
  LET a == at[p] IN
  /\ Inside(p, "starting")
  /\ \/ /\ running' = running \cup {a} /\ vnc' = [vnc EXCEPT ![a] = "bot"]
        /\ Goto(p, "readying")
        /\ UNCHANGED <<store, lock, req, at, scan>>
     \/ /\ \/ running' = running \cup {a} /\ vnc' = [vnc EXCEPT ![a] = "bot"]
           \/ UNCHANGED docker
        /\ Failed(p, a, [rec[a] EXCEPT !.phase = "failed"])
  /\ UNCHANGED <<serving, boot, token>>

Readied(p) ==
  LET a == at[p] IN
  /\ Inside(p, "readying")
  /\ \/ /\ a \in running
        /\ vnc' = [vnc EXCEPT ![a] = "bot"]
        /\ Granted(p, rec[a])
     \/ /\ \E v \in {vnc[a], "none"} : vnc' = [vnc EXCEPT ![a] = v]
        /\ Failed(p, a, [rec[a] EXCEPT !.phase = "failed"])
        /\ UNCHANGED token
  /\ UNCHANGED <<running, serving, boot>>

-----------------------------------------------------------------------------
(* Pause and idle reassignment: _sleep_locked *)

StopBody(p) ==
  /\ Inside(p, "desk") /\ req[p].op = "stop"
  /\ Save(at[p], Asleep(rec[at[p]]))
  /\ Goto(p, "stopping")
  /\ UNCHANGED <<docker, serving, boot, lock, req, at, scan, token>>

\* Without leases and idle long enough, the desktop is put to sleep.
SweepBody(p) ==
  LET a == at[p] IN
  /\ Inside(p, "sweepbody")
  /\ \/ /\ ~HasLease(rec[a]) /\ a \in running
        /\ Save(a, Asleep(rec[a]))
        /\ Goto(p, "sweepstop")
        /\ UNCHANGED <<lock, req, at, scan>>
     \/ /\ Leaves(p)
        /\ UNCHANGED store
  /\ UNCHANGED <<docker, serving, boot, token>>

Stopped(p) ==
  LET a == at[p] IN
  /\ Inside(p, "stopping") \/ Inside(p, "sweepstop")
  /\ \/ /\ running' = running \ {a} /\ vnc' = [vnc EXCEPT ![a] = "none"]
        /\ IF pc[p] = "stopping" THEN Done(p) ELSE Leaves(p)
        /\ UNCHANGED store
     \/ /\ \/ running' = running \ {a} /\ vnc' = [vnc EXCEPT ![a] = "none"]
           \/ UNCHANGED docker
        /\ Failed(p, a, [rec[a] EXCEPT !.phase = "failed"])
  /\ UNCHANGED <<serving, boot, token>>

-----------------------------------------------------------------------------
(* Requests that take only the desktop lock *)

StatusBody(p) ==
  LET a == at[p] IN
  /\ Inside(p, "body") /\ req[p].op = "status"
  /\ Save(a, IF a \notin running /\ rec[a].phase \notin {"waiting", "waking", "failed"}
               THEN [rec[a] EXCEPT !.phase = "sleeping"] ELSE rec[a])
  /\ Done(p)
  /\ UNCHANGED <<docker, serving, boot, token>>

ControlBody(p) ==
  LET a == at[p]
      r == Renewed(Handed(rec[a], req[p].arg), req[p].who)
  IN
  /\ Inside(p, "body") /\ req[p].op = "control"
  /\ \/ /\ a \notin running
        /\ Done(p)
        /\ UNCHANGED store
     \/ /\ a \in running /\ Save(a, r)
        /\ \/ r.quiesce /\ Goto(p, "handoff") /\ UNCHANGED <<lock, req, at, scan>>
           \/ ~r.quiesce /\ Done(p)
  /\ UNCHANGED <<docker, serving, boot, token>>

BeatBody(p) ==
  LET a == at[p]
      hidden == Expired(rec[a], {}, {req[p].who})
  IN
  /\ Inside(p, "body") /\ req[p].op = "beat"
  /\ \/ /\ req[p].gen # rec[a].gen \/ (req[p].arg = "visible" /\ a \notin running)
        /\ Done(p)
        /\ UNCHANGED store
     \/ /\ req[p].gen = rec[a].gen /\ req[p].arg = "visible" /\ a \in running
        /\ Save(a, Renewed(rec[a], req[p].who))
        /\ Done(p)
     \/ /\ req[p].gen = rec[a].gen /\ req[p].arg = "hidden"
        /\ Save(a, hidden)
        /\ \/ hidden.quiesce /\ Goto(p, "handoff") /\ UNCHANGED <<lock, req, at, scan>>
           \/ ~hidden.quiesce /\ Done(p)
  /\ UNCHANGED <<docker, serving, boot, token>>

\* Mutant: a lease suffices, whatever generation the caller presents.
OwnsAnyGeneration(p) ==
  /\ rec[at[p]].mode = "bot" /\ rec[at[p]].tasks[req[p].who] # 0 /\ at[p] \in running

\* The checks heartbeat_task and action share.
Owns(p) ==
  LET r == rec[at[p]] IN
  /\ req[p].gen = r.gen /\ r.mode = "bot"
  /\ r.tasks[req[p].who] = req[p].gen
  /\ at[p] \in running

TaskBeatBody(p) ==
  LET a == at[p] IN
  /\ Inside(p, "body") /\ req[p].op = "taskbeat"
  /\ \/ Owns(p) /\ Save(a, Renewed(rec[a], req[p].who))
     \/ ~Owns(p) /\ UNCHANGED store
  /\ Done(p)
  /\ UNCHANGED <<docker, serving, boot, token>>

ReleaseBody(p) ==
  LET a == at[p] IN
  /\ Inside(p, "desk") /\ req[p].op = "release"
  /\ Save(a, [rec[a] EXCEPT !.tasks[req[p].who] = 0])
  /\ Done(p)
  /\ UNCHANGED <<docker, serving, boot, token>>

ActionBody(p) ==
  LET a == at[p] IN
  /\ Inside(p, "body") /\ req[p].op = "action"
  /\ \/ /\ Owns(p)
        /\ Save(a, Renewed(rec[a], req[p].who))
        /\ Goto(p, "acting")
        /\ UNCHANGED <<lock, req, at, scan>>
     \/ /\ ~Owns(p)
        /\ Done(p)
        /\ UNCHANGED store
  /\ UNCHANGED <<docker, serving, boot, token>>

\* The in-container operation has ended, well or not, even if the request was
\* cancelled meanwhile.
Acted(p) ==
  /\ Inside(p, "acting")
  /\ Save(at[p], Renewed(rec[at[p]], req[p].who))
  /\ Done(p)
  /\ UNCHANGED <<docker, serving, boot, token>>

-----------------------------------------------------------------------------
(* Containers, crashes and reconcile *)

\* A container exits by itself (out of memory, its viewer died); docker does
\* not restart it.
ContainerDies(a) ==
  /\ a \in running
  /\ running' = running \ {a} /\ vnc' = [vnc EXCEPT ![a] = "none"]
  /\ UNCHANGED <<store, serving, boot, lock, proc, token>>

Agents(label) == {at[p] : p \in {q \in Proc : pc[q] = label}}

\* The supervisor dies; docker may or may not finish what it was asked.
Crash ==
  /\ serving # "down"
  /\ \A a \in Agent : rec[a].gen <= MaxGen
  /\ serving' = "down"
  /\ \E on \in SUBSET Agents("starting"),
        off \in SUBSET (Agents("stopping") \cup Agents("sweepstop")) :
       /\ running' = (running \cup on) \ off
       /\ vnc' = [a \in Agent |-> IF a \in off THEN "none"
                                  ELSE IF a \in on \ running THEN "bot" ELSE vnc[a]]
  /\ lock' = [l \in Locks |-> [owner |-> NoOne, queue |-> <<>>]]
  /\ pc' = [p \in Proc |-> "idle"] /\ req' = [p \in Proc |-> NoRequest]
  /\ at' = [p \in Proc |-> NoOne] /\ scan' = [p \in Proc |-> {}]
  /\ UNCHANGED <<store, boot, token>>

\* The new process reads the state file; what was only in memory is gone.
Load ==
  /\ serving = "down"
  /\ serving' = "booting"
  /\ rec' = disk
  /\ boot' = [a \in Agent |-> "todo"]
  /\ UNCHANGED <<disk, docker, lock, proc, token>>

\* reconcile revokes every old generation and, of a container that does not
\* run, every lease.
Reconcile(a) ==
  /\ serving = "booting" /\ boot[a] = "todo"
  /\ \A b \in Agent : boot[b] # "quiesce"
  /\ \E T \in SUBSET {k \in Task : rec[a].tasks[k] # 0}, V \in SUBSET rec[a].viewers :
       LET r == Expired(rec[a], T, V)
           s == [r EXCEPT !.gen = @ + 1]
       IN IF a \in running
            THEN /\ Save(a, [s EXCEPT !.phase = "running", !.quiesce = TRUE])
                 /\ boot' = [boot EXCEPT ![a] = "quiesce"]
            ELSE /\ rec' = [rec EXCEPT ![a] =
                      [s EXCEPT !.phase = "sleeping", !.quiesce = FALSE,
                                !.tasks = NoLeases, !.viewers = {}, !.mode = "bot"]]
                 /\ disk' = IF r.quiesce
                              THEN [rec EXCEPT ![a] = [r EXCEPT !.quiesce = FALSE]] ELSE disk
                 /\ boot' = [boot EXCEPT ![a] = "done"]
  /\ UNCHANGED <<docker, serving, lock, proc, token>>

\* A failure here aborts the startup, which is a crash.
ReconcileQuiesce(a) ==
  /\ serving = "booting" /\ boot[a] = "quiesce"
  /\ vnc' = [vnc EXCEPT ![a] = IF a \in running THEN rec[a].mode ELSE @]
  /\ Save(a, [rec[a] EXCEPT !.quiesce = FALSE])
  /\ boot' = [boot EXCEPT ![a] = "done"]
  /\ UNCHANGED <<running, serving, lock, proc, token>>

\* The reap that ends reconcile is one a request may make as soon as it serves.
Serve ==
  /\ serving = "booting" /\ \A a \in Agent : boot[a] = "done"
  /\ serving' = "up"
  /\ disk' = rec
  /\ UNCHANGED <<rec, docker, boot, lock, proc, token>>

-----------------------------------------------------------------------------
\* What the event loop and docker do for a request once it was made.
Work(p) ==
  \/ Retry(p) \/ Admitted(p) \/ (\E a \in Agent : Visit(p, a)) \/ ScanDone(p)
  \/ Cancelled(p) \/ Expire(p) \/ Quiesce(p) \/ InspectFails(p)
  \/ WakeBody(p) \/ Started(p) \/ Readied(p)
  \/ StopBody(p) \/ SweepBody(p) \/ Stopped(p)
  \/ StatusBody(p) \/ ControlBody(p) \/ BeatBody(p) \/ TaskBeatBody(p)
  \/ ReleaseBody(p) \/ ActionBody(p) \/ Acted(p)

Restart == Load \/ Serve \/ \E a \in Agent : Reconcile(a) \/ ReconcileQuiesce(a)

Next ==
  \/ \E p \in Proc : (\E r \in Requests : Call(p, r)) \/ Work(p) \/ AllocTimeout(p) \/ GiveUp(p)
  \/ \E l \in Locks : Handover(l)
  \/ \E a \in Agent : ContainerDies(a)
  \/ Crash \/ Restart

Spec == Init /\ [][Next]_vars

(***************************************************************************)
(* Every docker command has a timeout and the loop resumes who can run.    *)
(* A wake has a deadline after which its next check raises (GiveUp), and   *)
(* systemd restarts the supervisor.  Users owe nothing.                    *)
(***************************************************************************)
Fairness ==
  /\ \A p \in Proc : WF_vars(Work(p)) /\ SF_vars(GiveUp(p))
  /\ \A l \in Locks : WF_vars(Handover(l))
  /\ WF_vars(Restart)

FairSpec == Spec /\ Fairness

-----------------------------------------------------------------------------
(* Properties *)

\* No more desktops run than the host was sized for, whatever wakes race,
\* fail half way or are cut short by a crash.
CapacityRespected == Cardinality(running) <= Capacity

\* While an in-container operation runs, its task owns the desktop: the
\* generation is current, no takeover is in force or pending, and no other
\* request stops or hands over the desktop under it.
ActionsAreOwned ==
  \A p \in Proc : pc[p] = "acting" =>
    LET r == rec[at[p]] IN
    /\ req[p].gen = r.gen /\ r.mode = "bot" /\ ~r.quiesce
    /\ r.tasks[req[p].who] = r.gen
    /\ \A q \in Proc \ {p} : at[q] = at[p] => ~Holds(q, at[p])

\* Whenever ownership changes (takeover, return, pause, wake, restart) every
\* generation that a task still holds is older than the new one.
OwnershipIsFresh ==
  [][serving' = "up" =>
       \A a \in Agent, k \in Task :
         \/ serving = "up" /\ rec'[a].gen = rec[a].gen /\ rec'[a].mode = rec[a].mode
         \/ token[k].agent = a => token[k].gen < rec'[a].gen]_vars

\* Every request is answered: the locks are never held in a circle, a failed
\* command frees them, and waiting for capacity ends.
RequestsFinish == \A p \in Proc : pc[p] # "idle" ~> pc[p] = "idle"

\* lifecycle.py 4: "Idle allocation skips busy desktops".
AllocationSkipsBusyDesktops ==
  \A p \in Proc :
    req[p].op \in {"wake", "reap"} /\ Holds(p, Allocation) /\ at[p] # NoOne => Holds(p, at[p])

\* lifecycle.py 67: the input policy change and the disconnection of viewers
\* "complete before this lock admits any new bot action".
ActionsAreViewOnly ==
  \A p \in Proc : pc[p] = "acting" /\ at[p] \in running => vnc[at[p]] # "manual"
=============================================================================
