------------------------- MODULE DesktopPoolProofs -------------------------
(***************************************************************************)
(* Theorems about DesktopPool for every number of desktops, requests,      *)
(* tasks and viewers and every capacity.  The inductive invariant PoolInv  *)
(* says which locks a request holds at each of its labels; capacity,       *)
(* ownership of actions and freshness of generations follow from it.       *)
(***************************************************************************)
EXTENDS DesktopPool, TLAPS, FiniteSetTheorems, SequenceTheorems

\* Labels at which a request works on its desktop, and those at which it is
\* on its way through the reap of an allocation.
Working  == {"quiesce", "body", "handoff", "starting", "readying", "stopping", "acting",
             "sweepquiesce", "sweepbody", "sweepstop"}
Sweeping == {"sweep", "sweepquiesce", "sweepbody", "sweepstop"}
Desk     == {"desk", "quiesce", "body", "starting", "readying", "stopping"}

\* The operations that are at a label.
OpsAt(label) ==
  CASE label = "idle" -> {"none"}
    [] label = "alloc" -> {"wake", "stop", "reap"}
    [] label = "scan" \/ label \in Sweeping -> {"wake", "reap"}
    [] label = "desk" -> Op \ {"none", "reap"}
    [] label \in {"quiesce", "body"} -> Op \ {"none", "reap", "stop", "release"}
    [] label = "handoff" -> {"control", "beat"}
    [] label \in {"starting", "readying", "pausing"} -> {"wake"}
    [] label = "stopping" -> {"stop"}
    [] label = "acting" -> {"action"}

\* A request is at a label its operation passes, with the arguments it needs.
Well(p) ==
  /\ req[p].op \in OpsAt(pc[p])
  /\ req[p].op \notin {"none", "reap"} => req[p].agent \in Agent
  /\ req[p].op = "wake" => req[p].who \in Task \cup Viewer
  /\ req[p].op \in {"control", "beat"} => req[p].who \in Viewer
  /\ req[p].op = "control" => req[p].arg \in {"bot", "manual"}
  /\ req[p].op \in {"taskbeat", "release", "action"} => req[p].who \in Task
  /\ pc[p] \in Working \cup {"desk", "sweep"} => at[p] \in Agent

\* Who works on a desktop holds its lock, and who allocates or stops one holds
\* the allocation lock.
HoldsLocks(p) ==
  /\ pc[p] \in Working => Holds(p, at[p])
  /\ pc[p] \in Sweeping \cup {"scan"} => Holds(p, Allocation)
  /\ pc[p] \in Desk /\ req[p].op \in {"wake", "stop"} => Holds(p, Allocation)

\* The task of request p owns its desktop.
Owned(p) ==
  LET r == rec[at[p]] IN
  /\ req[p].gen = r.gen /\ r.mode = "bot" /\ ~r.quiesce
  /\ r.tasks[req[p].who] = r.gen

\* The policy of a desktop is settled before a request goes on, and an action
\* in the container is its task's.
Sound(p) ==
  /\ Well(p) /\ HoldsLocks(p)
  /\ pc[p] = "body" => ~rec[at[p]].quiesce
  /\ pc[p] = "acting" => Owned(p)

RequestsSound == \A p \in Proc : Sound(p)
AloneAtBoot   == serving # "up" => \A p \in Proc : pc[p] = "idle"

\* The holder of the allocation lock that starts a container has room for it.
Room ==
  /\ IsFiniteSet(running) /\ Cardinality(running) <= Capacity
  /\ (\E p \in Proc : pc[p] = "starting") => Cardinality(running) < Capacity

\* No generation that was granted is newer than the saved one, and a restart
\* outdates every one of them before the pool serves.
Generations ==
  /\ \A a \in Agent, k \in Task : token[k].agent = a => token[k].gen <= disk[a].gen
  /\ serving = "up" => \A a \in Agent : disk[a].gen = rec[a].gen
  /\ serving = "booting" => \A a \in Agent :
       /\ disk[a].gen <= rec[a].gen
       /\ boot[a] # "todo" => \A k \in Task : token[k].agent = a => token[k].gen < rec[a].gen

PoolInv == TypeOK /\ RequestsSound /\ AloneAtBoot /\ Room /\ Generations

-----------------------------------------------------------------------------
(* Operators on records *)

\* What ownership is made of is the same in two records.
SameIn(r, s) == r.gen = s.gen /\ r.mode = s.mode /\ r.quiesce = s.quiesce /\ r.tasks = s.tasks

\* A new phase changes nothing that ownership depends on.
LEMMA PhaseFacts ==
  ASSUME NEW r \in Record, NEW x \in {"sleeping", "waiting", "waking", "running", "failed"}
  PROVE  [r EXCEPT !.phase = x] \in Record /\ SameIn([r EXCEPT !.phase = x], r)
BY DEF Record, SameIn

\* A renewal adds a lease of the present generation and changes nothing else.
LEMMA RenewedFacts ==
  ASSUME NEW r \in Record, NEW who \in Task \cup Viewer
  PROVE  /\ Renewed(r, who) \in Record
         /\ Renewed(r, who).gen = r.gen /\ Renewed(r, who).mode = r.mode
         /\ Renewed(r, who).quiesce = r.quiesce
         /\ who \in Task => Renewed(r, who).tasks[who] = r.gen
<1>1. CASE who \in Task
  <2>1. [r.tasks EXCEPT ![who] = r.gen] \in [Task -> Nat]
    BY <1>1 DEF Record
  <2>2. Renewed(r, who) = [r EXCEPT !.tasks = [r.tasks EXCEPT ![who] = r.gen]]
    BY <1>1 DEF Renewed
  <2>3. QED
    BY <1>1, <2>1, <2>2 DEF Record
<1>2. CASE who \notin Task
  BY <1>2 DEF Record, Renewed
<1>3. QED
  BY <1>1, <1>2

\* Expiry drops leases; a desktop it takes from its viewers gets a generation.
LEMMA ExpiredFacts ==
  ASSUME NEW r \in Record, NEW T, NEW V
  PROVE  /\ Expired(r, T, V) \in Record
         /\ \/ Expired(r, T, V).gen = r.gen /\ Expired(r, T, V).mode = r.mode
            \/ Expired(r, T, V).gen > r.gen /\ Expired(r, T, V).quiesce = TRUE
<1> DEFINE t == [k \in Task |-> IF k \in T THEN 0 ELSE r.tasks[k]]
           s == [r EXCEPT !.tasks = t, !.viewers = r.viewers \ V]
<1>1. t \in [Task -> Nat]
  BY DEF Record
<1>2. /\ s \in Record
      /\ s.gen = r.gen /\ s.mode = r.mode /\ s.quiesce = r.quiesce
  BY <1>1 DEF Record
<1>3. Expired(r, T, V) = IF s.mode = "manual" /\ s.viewers = {}
                           THEN [s EXCEPT !.mode = "bot", !.gen = s.gen + 1, !.quiesce = TRUE]
                           ELSE s
  BY DEF Expired
<1> HIDE DEF s, t
<1>4. CASE s.mode = "manual" /\ s.viewers = {}
  <2>1. Expired(r, T, V) = [gen |-> s.gen + 1, mode |-> "bot", phase |-> s.phase, tasks |-> s.tasks,
                            viewers |-> s.viewers, quiesce |-> TRUE]
    BY <1>2, <1>3, <1>4 DEF Record
  <2>2. QED
    BY <1>2, <2>1 DEF Record
<1>5. QED
  BY <1>2, <1>3, <1>4

\* A pause, a wake and a takeover begin a generation.
LEMMA AsleepFacts ==
  ASSUME NEW r \in Record
  PROVE  Asleep(r) \in Record /\ Asleep(r).gen = r.gen + 1
<1> DEFINE q == [r EXCEPT !.phase = "sleeping"]
           s == [q EXCEPT !.gen = q.gen + 1]
           t == [s EXCEPT !.tasks = NoLeases, !.viewers = {}]
<1>1. s \in Record /\ s.gen = r.gen + 1
  <2>1. q \in Record /\ q.gen = r.gen
    BY DEF Record
  <2> HIDE DEF q
  <2>2. QED
    BY <2>1 DEF Record
<1>2. NoLeases \in [Task -> Nat]
  BY DEF NoLeases
<1>3. t \in Record /\ t.gen = r.gen + 1
  BY <1>1, <1>2 DEF Record
<1>4. Asleep(r) = [t EXCEPT !.mode = "bot"]
  BY DEF Asleep
<1> HIDE DEF s, t
<1>5. QED
  BY <1>3, <1>4 DEF Record

\* A desktop that wakes has a generation of its own and no leases.
LEMMA WakingFacts ==
  ASSUME NEW r \in Record
  PROVE  Waking(r) \in Record /\ Waking(r).gen = r.gen + 1
<1> DEFINE q == [r EXCEPT !.phase = "waking"]
           s == [q EXCEPT !.gen = q.gen + 1]
<1>1. s \in Record /\ s.gen = r.gen + 1
  <2>1. q \in Record /\ q.gen = r.gen
    BY DEF Record
  <2> HIDE DEF q
  <2>2. QED
    BY <2>1 DEF Record
<1>2. NoLeases \in [Task -> Nat]
  BY DEF NoLeases
<1>3. Waking(r) = [s EXCEPT !.tasks = NoLeases, !.viewers = {}]
  BY DEF Waking
<1> HIDE DEF s
<1>4. QED
  BY <1>1, <1>2, <1>3 DEF Record

\* A desktop that changes hands keeps its type, and its generation grows.
LEMMA HandedFacts ==
  ASSUME NEW r \in Record, NEW m \in {"bot", "manual"}
  PROVE  /\ Handed(r, m) \in Record
         /\ Handed(r, m) = r \/ Handed(r, m).gen = r.gen + 1
<1>1. NoLeases \in [Task -> Nat] /\ r.gen + 1 \in Nat
  BY DEF NoLeases, Record
<1>2. CASE r.mode # m
  <2>1. Handed(r, m) = [gen |-> r.gen + 1, mode |-> m, phase |-> r.phase, tasks |-> NoLeases,
                        viewers |-> r.viewers, quiesce |-> TRUE]
    BY <1>2 DEF Handed, Record
  <2>2. QED
    BY <1>1, <2>1 DEF Record
<1>3. QED
  BY <1>2 DEF Handed

-----------------------------------------------------------------------------
(* Operators on locks *)

LockState == [Locks -> [owner : Proc \cup {NoOne}, queue : Seq(Proc)]]

\* Leaving a queue leaves a queue.
LEMMA WithoutTyped ==
  ASSUME NEW s \in Seq(Proc), NEW p
  PROVE  Without(s, p) \in Seq(Proc)
<1>1. ASSUME NEW i \in DOMAIN s PROVE SubSeq(s, 1, i - 1) \o SubSeq(s, i + 1, Len(s)) \in Seq(Proc)
  OBVIOUS
<1>2. CASE \E i \in DOMAIN s : s[i] = p
  <2>1. (CHOOSE j \in DOMAIN s : s[j] = p) \in DOMAIN s
    BY <1>2
  <2>2. QED
    BY <1>1, <1>2, <2>1 DEF Without
<1>3. QED
  BY <1>2 DEF Without

\* Asking for a lock takes it from nobody.
LEMMA ClaimedFacts ==
  ASSUME NEW p \in Proc, NEW l \in Locks, NEW lk \in LockState
  PROVE  /\ Claimed(p, l, lk) \in LockState
         /\ \A m \in Locks : lk[m].owner # NoOne => Claimed(p, l, lk)[m].owner = lk[m].owner
         /\ \A m \in Locks \ {l} : Claimed(p, l, lk)[m] = lk[m]
<1>1. Append(lk[l].queue, p) \in Seq(Proc)
  BY AppendProperties DEF LockState
<1>2. QED
  BY <1>1 DEF Claimed, LockState

\* A request that is dropped or frees locks takes nothing from others.
LEMMA DroppedFacts ==
  ASSUME lock \in LockState, NEW p \in Proc
  PROVE  /\ Dropped(p) \in LockState
         /\ \A m \in Locks : lock[m].owner # p => Dropped(p)[m].owner = lock[m].owner
         /\ \A m \in Locks : Dropped(p)[m].owner # p
BY WithoutTyped, PoolAssumption DEF Dropped, LockState, Holds

\* Locks that are freed are free, the others are as they were.
LEMMA FreedFacts ==
  ASSUME lock \in LockState, NEW L
  PROVE  /\ Freed(L) \in LockState
         /\ \A m \in Locks : m \notin L => Freed(L)[m] = lock[m]
BY DEF Freed, LockState

-----------------------------------------------------------------------------
(* The steps of a request *)

Same(a)  == SameIn(rec'[a], rec[a])
Grows(a) == (rec'[a].gen = rec[a].gen /\ rec'[a].mode = rec[a].mode) \/ rec'[a].gen > rec[a].gen

\* What a step of request p does to the others: it moves no other request and
\* takes no lock of theirs, changes ownership only of the desktop whose lock it
\* holds, outdates grants when it does, and saves every generation it makes.
Effect(p) ==
  /\ \A q \in Proc \ {p} : pc'[q] = pc[q] /\ req'[q] = req[q] /\ at'[q] = at[q]
  /\ \A q \in Proc \ {p}, l \in Locks : Holds(q, l) => Holds(q, l)'
  /\ \A a \in Agent : Same(a) \/ (a = at[p] /\ Holds(p, a))
  /\ \A a \in Agent : Grows(a)
  /\ \A a \in Agent : disk'[a].gen = rec'[a].gen
  /\ \A k \in Task : token'[k] = token[k] \/ token'[k].gen = rec'[token'[k].agent].gen
  /\ serving = "up" /\ serving' = "up"

\* Such a step keeps the invariant, if it leaves its own request sound.
LEMMA EffectKeeps ==
  ASSUME PoolInv, NEW p \in Proc, Effect(p), TypeOK', Sound(p)', Room'
  PROVE  PoolInv'
<1>1. ASSUME NEW q \in Proc \ {p} PROVE Sound(q)'
  <2>1. Sound(q) /\ pc'[q] = pc[q] /\ req'[q] = req[q] /\ at'[q] = at[q]
    BY DEF Effect, PoolInv, RequestsSound
  <2>2. Well(q)'
    BY <2>1 DEF Sound, Well, TypeOK
  <2>3. \A l \in Locks : Holds(q, l) => Holds(q, l)'
    BY DEF Effect
  <2>4. HoldsLocks(q)'
    BY <2>1, <2>3 DEF Sound, HoldsLocks, Well, Locks
  <2>5. ASSUME pc[q] \in Working PROVE Same(at[q])
    <3>1. at[q] \in Agent /\ Holds(q, at[q])
      BY <2>1, <2>5 DEF Sound, Well, HoldsLocks
    <3>2. ~Holds(p, at[q])
      BY <3>1 DEF Holds
    <3>3. QED
      BY <3>1, <3>2 DEF Effect
  <2>6. pc'[q] = "body" => ~rec'[at'[q]].quiesce
    BY <2>1, <2>5 DEF Sound, Same, SameIn, Working
  <2>7. pc'[q] = "acting" => Owned(q)'
    BY <2>1, <2>5 DEF Sound, Owned, Same, SameIn, Working
  <2>8. QED
    BY <2>2, <2>4, <2>6, <2>7 DEF Sound
<1>2. RequestsSound'
  BY <1>1 DEF RequestsSound
<1>3. AloneAtBoot'
  BY DEF AloneAtBoot, Effect
<1>4. Generations'
  <2>1. ASSUME NEW a \in Agent, NEW k \in Task, token'[k].agent = a PROVE token'[k].gen <= disk'[a].gen
    <3>1. CASE token'[k] = token[k]
      <4>1. token[k].gen <= rec[a].gen
        BY <2>1, <3>1 DEF Effect, PoolInv, Generations
      <4>2. token[k].gen \in Nat /\ rec[a].gen \in Nat /\ rec'[a].gen \in Nat
        BY DEF PoolInv, TypeOK, Record
      <4>3. rec[a].gen <= rec'[a].gen /\ rec'[a].gen = disk'[a].gen
        BY <4>2 DEF Effect, Grows
      <4>4. QED
        BY <3>1, <4>1, <4>2, <4>3
    <3>2. CASE token'[k].gen = rec'[token'[k].agent].gen
      <4>1. token'[k].gen = disk'[a].gen /\ token'[k].gen \in Nat
        BY <2>1, <3>2 DEF Effect, TypeOK
      <4>2. QED
        BY <4>1
    <3>3. QED
      BY <3>1, <3>2 DEF Effect
  <2>2. QED
    BY <2>1 DEF Generations, Effect
<1>5. QED
  BY <1>2, <1>3, <1>4 DEF PoolInv

\* And no grant that it outdates is of the new generation.
LEMMA EffectFresh ==
  ASSUME PoolInv, TypeOK', NEW p \in Proc, Effect(p), NEW a \in Agent, NEW k \in Task
  PROVE  \/ serving = "up" /\ rec'[a].gen = rec[a].gen /\ rec'[a].mode = rec[a].mode
         \/ token[k].agent = a => token[k].gen < rec'[a].gen
<1>1. CASE rec'[a].gen > rec[a].gen /\ token[k].agent = a
  <2>1. token[k].gen <= rec[a].gen
    BY <1>1 DEF Effect, PoolInv, Generations
  <2>2. token[k].gen \in Nat /\ rec[a].gen \in Nat /\ rec'[a].gen \in Nat
    BY DEF PoolInv, TypeOK, Record
  <2>3. QED
    BY <1>1, <2>1, <2>2
<1>2. QED
  BY <1>1 DEF Effect, Grows

-----------------------------------------------------------------------------
(* The ways in which a request goes on *)

\* The step of OwnershipIsFresh.
FreshStep ==
  serving' = "up" =>
    \A a \in Agent, k \in Task :
      \/ serving = "up" /\ rec'[a].gen = rec[a].gen /\ rec'[a].mode = rec[a].mode
      \/ token[k].agent = a => token[k].gen < rec'[a].gen

Kept == PoolInv' /\ FreshStep

\* What is left to show of a step that only takes effect on the records.
LEMMA EffectSuffices ==
  ASSUME PoolInv, NEW p \in Proc, Effect(p), TypeOK', Sound(p)', Room'
  PROVE  Kept
BY EffectKeeps, EffectFresh DEF Kept, FreshStep

\* A request that is under way finds the pool serving and its records saved.
LEMMA BusyFacts ==
  ASSUME PoolInv, NEW p \in Proc, pc[p] # "idle"
  PROVE  /\ serving = "up" /\ Sound(p)
         /\ \A a \in Agent : disk[a].gen = rec[a].gen
BY DEF PoolInv, AloneAtBoot, RequestsSound, Generations

\* Room is left when containers only go and no request comes to start one.
LEMMA RoomKept ==
  ASSUME Room, running' \subseteq running, \A q \in Proc : pc'[q] = "starting" => pc[q] = "starting",
         PoolInv
  PROVE  Room'
<1>1. /\ IsFiniteSet(running') /\ Cardinality(running') <= Cardinality(running)
      /\ Cardinality(running') \in Nat /\ Cardinality(running) \in Nat
  BY FS_Subset, FS_CardinalityType DEF Room
<1>2. QED
  BY <1>1, PoolAssumption DEF Room

\* A request that is over is idle, and what others hold and wait for is theirs.
LEMMA DoneFacts ==
  ASSUME TypeOK, NEW p \in Proc, Done(p)
  PROVE  /\ pc' \in [Proc -> PC] /\ req' \in [Proc -> Request]
         /\ at' \in [Proc -> Agent \cup {NoOne}] /\ scan' \in [Proc -> SUBSET Agent]
         /\ lock' \in LockState
         /\ \A q \in Proc \ {p} : pc'[q] = pc[q] /\ req'[q] = req[q] /\ at'[q] = at[q]
         /\ \A q \in Proc \ {p}, l \in Locks : Holds(q, l) => Holds(q, l)'
         /\ Sound(p)' /\ pc'[p] = "idle"
<1>1. lock \in LockState /\ lock' = Dropped(p)
  BY DEF TypeOK, LockState, Done
<1>2. \A q \in Proc \ {p}, l \in Locks : Holds(q, l) => Holds(q, l)'
  BY <1>1, DroppedFacts DEF Holds
<1>3. NoRequest \in Request
  BY DEF NoRequest, Request, Op
<1>4. /\ pc' = [pc EXCEPT ![p] = "idle"] /\ req' = [req EXCEPT ![p] = NoRequest]
      /\ at' = [at EXCEPT ![p] = NoOne] /\ scan' = [scan EXCEPT ![p] = {}]
  BY DEF Done, Goto
<1>5. /\ pc' \in [Proc -> PC] /\ req' \in [Proc -> Request]
      /\ at' \in [Proc -> Agent \cup {NoOne}] /\ scan' \in [Proc -> SUBSET Agent]
  BY <1>3, <1>4 DEF TypeOK, PC
<1>6. pc'[p] = "idle" /\ req'[p] = NoRequest
  BY <1>4 DEF TypeOK
<1>7. Sound(p)'
  BY <1>6 DEF Sound, Well, HoldsLocks, OpsAt, NoRequest, Working, Sweeping, Desk
<1>8. QED
  BY <1>1, <1>2, <1>4, <1>5, <1>6, <1>7, DroppedFacts DEF TypeOK

\* A new record of a desktop replaces its old one, in memory or on disk as well.
LEMMA SaveFacts ==
  ASSUME TypeOK, NEW a \in Agent, NEW r \in Record, Save(a, r) \/ Keep(a, r)
  PROVE  /\ rec' \in [Agent -> Record] /\ disk' \in [Agent -> Record]
         /\ rec'[a] = r /\ \A b \in Agent \ {a} : rec'[b] = rec[b]
         /\ Save(a, r) => disk' = rec'
         /\ disk' = rec' \/ disk' = disk
<1>1. rec' = [rec EXCEPT ![a] = r] /\ (disk' = rec' \/ disk' = disk)
  BY DEF Save, Keep
<1>2. [rec EXCEPT ![a] = r] \in [Agent -> Record] /\ disk \in [Agent -> Record]
  BY DEF TypeOK
<1>3. /\ rec' \in [Agent -> Record] /\ disk' \in [Agent -> Record]
      /\ rec'[a] = r /\ \A b \in Agent \ {a} : rec'[b] = rec[b]
  BY <1>1, <1>2 DEF TypeOK
<1>4. QED
  BY <1>1, <1>3 DEF Save

\* A failure changes phases only.
LEMMA FailedFacts ==
  ASSUME PoolInv, NEW p \in Proc, NEW a \in Agent, NEW r \in Record, SameIn(r, rec[a]),
         pc[p] # "idle", Failed(p, a, r)
  PROVE  /\ rec' \in [Agent -> Record] /\ disk' \in [Agent -> Record]
         /\ \A x \in Agent : Same(x) /\ disk'[x].gen = rec'[x].gen
         /\ Done(p)
<1> DEFINE b == req[p].agent
           s == [rec EXCEPT ![a] = r]
           t == [s EXCEPT ![b].phase = "sleeping"]
<1>1. TypeOK /\ Sound(p) /\ \A x \in Agent : disk[x].gen = rec[x].gen
  BY BusyFacts DEF PoolInv
<1>2. s \in [Agent -> Record] /\ \A x \in Agent : SameIn(s[x], rec[x])
  BY <1>1 DEF TypeOK, SameIn
<1>3. CASE req[p].op = "wake" /\ s[b].phase = "waiting" /\ Dropped(p)[b].owner = NoOne
  <2>1. b \in Agent
    BY <1>1, <1>3 DEF Sound, Well
  <2>2. t = [s EXCEPT ![b] = [s[b] EXCEPT !.phase = "sleeping"]]
    OBVIOUS
  <2> HIDE DEF s
  <2>3. [s[b] EXCEPT !.phase = "sleeping"] \in Record /\ SameIn([s[b] EXCEPT !.phase = "sleeping"], s[b])
    BY <1>2, <2>1, PhaseFacts
  <2>4. t \in [Agent -> Record] /\ \A x \in Agent : SameIn(t[x], rec[x])
    BY <1>2, <2>1, <2>2, <2>3 DEF SameIn
  <2>5. rec' = t /\ disk' = rec' /\ Done(p)
    BY <1>3 DEF Failed, s
  <2>6. QED
    BY <2>4, <2>5 DEF Same
<1>4. CASE ~(req[p].op = "wake" /\ s[b].phase = "waiting" /\ Dropped(p)[b].owner = NoOne)
  <2>1. rec' = s /\ (disk' = rec' \/ disk' = disk) /\ Done(p)
    BY <1>4 DEF Failed
  <2>2. QED
    BY <1>1, <1>2, <2>1 DEF Same, SameIn, TypeOK
<1>5. QED
  BY <1>3, <1>4

\* A request ends after it saved a record of the desktop whose lock it holds.
LEMMA SavedAndDone ==
  ASSUME PoolInv, NEW p \in Proc, pc[p] # "idle", at[p] \in Agent, Holds(p, at[p]),
         NEW r \in Record,
         (r.gen = rec[at[p]].gen /\ r.mode = rec[at[p]].mode) \/ r.gen > rec[at[p]].gen,
         Save(at[p], r), Done(p),
         running' \subseteq running, vnc' \in [Agent -> {"none", "bot", "manual"}],
         UNCHANGED <<serving, boot>>,
         token' \in [Task -> [agent : Agent \cup {NoOne}, gen : Nat]],
         \A k \in Task : token'[k] = token[k] \/ token'[k].gen = rec'[token'[k].agent].gen
  PROVE  Kept
<1>1. TypeOK /\ serving = "up"
  BY BusyFacts DEF PoolInv
<1>2. /\ rec' \in [Agent -> Record] /\ disk' = rec'
      /\ rec'[at[p]] = r /\ \A b \in Agent \ {at[p]} : rec'[b] = rec[b]
  BY <1>1, SaveFacts
<1>3. TypeOK'
  BY <1>1, <1>2, DoneFacts DEF TypeOK, LockState
<1>4. Effect(p)
  BY <1>1, <1>2, DoneFacts DEF Effect, Same, SameIn, Grows
<1>5. Room'
  BY <1>1, RoomKept, DoneFacts DEF PoolInv
<1>6. QED
  BY <1>1, <1>3, <1>4, <1>5, DoneFacts, EffectSuffices

\* A request ends with a failure.
LEMMA FailedKeeps ==
  ASSUME PoolInv, NEW p \in Proc, pc[p] # "idle", NEW a \in Agent, NEW r \in Record,
         SameIn(r, rec[a]), Failed(p, a, r), Room', running' \subseteq Agent,
         vnc' \in [Agent -> {"none", "bot", "manual"}], UNCHANGED <<serving, boot, token>>
  PROVE  Kept
<1>1. TypeOK /\ serving = "up"
  BY BusyFacts DEF PoolInv
<1>2. /\ rec' \in [Agent -> Record] /\ disk' \in [Agent -> Record]
      /\ \A x \in Agent : Same(x) /\ disk'[x].gen = rec'[x].gen
      /\ Done(p)
  BY FailedFacts
<1>3. TypeOK'
  BY <1>1, <1>2, DoneFacts DEF TypeOK, LockState
<1>4. Effect(p)
  BY <1>1, <1>2, DoneFacts DEF Effect, Same, SameIn, Grows
<1>5. QED
  BY <1>1, <1>2, <1>3, <1>4, DoneFacts, EffectSuffices

\* A request ends and leaves the desktops as they are.
LEMMA JustDone ==
  ASSUME PoolInv, NEW p \in Proc, pc[p] # "idle", Done(p), disk' = disk \/ disk' = rec,
         running' \subseteq running, vnc' \in [Agent -> {"none", "bot", "manual"}],
         UNCHANGED <<rec, serving, boot, token>>
  PROVE  Kept
<1>1. TypeOK /\ serving = "up" /\ \A a \in Agent : disk[a].gen = rec[a].gen
  BY BusyFacts DEF PoolInv
<1>2. TypeOK'
  BY <1>1, DoneFacts DEF TypeOK, LockState
<1>3. Effect(p)
  BY <1>1, DoneFacts DEF Effect, Same, SameIn, Grows
<1>4. Room'
  BY <1>1, RoomKept, DoneFacts DEF PoolInv
<1>5. QED
  BY <1>1, <1>2, <1>3, <1>4, DoneFacts, EffectSuffices

\* A request goes on to label l with its locks and a new record of its desktop.
LEMMA GoesOn ==
  ASSUME PoolInv, NEW p \in Proc, pc[p] # "idle", at[p] \in Agent, Holds(p, at[p]),
         NEW r \in Record,
         (r.gen = rec[at[p]].gen /\ r.mode = rec[at[p]].mode) \/ r.gen > rec[at[p]].gen,
         Save(at[p], r) \/ (Keep(at[p], r) /\ r.gen = rec[at[p]].gen),
         NEW l \in PC, Goto(p, l), Sound(p)', Room',
         running' \subseteq Agent, vnc' \in [Agent -> {"none", "bot", "manual"}],
         UNCHANGED <<serving, boot, lock, req, at, scan, token>>
  PROVE  Kept
<1>1. TypeOK /\ serving = "up" /\ \A a \in Agent : disk[a].gen = rec[a].gen
  BY BusyFacts DEF PoolInv
<1>2. /\ rec' \in [Agent -> Record] /\ disk' \in [Agent -> Record]
      /\ rec'[at[p]] = r /\ \A b \in Agent \ {at[p]} : rec'[b] = rec[b]
      /\ disk' = rec' \/ (disk' = disk /\ r.gen = rec[at[p]].gen)
  BY <1>1, SaveFacts DEF Keep
<1>3. pc' \in [Proc -> PC] /\ \A q \in Proc \ {p} : pc'[q] = pc[q]
  BY <1>1 DEF Goto, TypeOK
<1>4. TypeOK'
  BY <1>1, <1>2, <1>3 DEF TypeOK
<1>5. Effect(p)
  BY <1>1, <1>2, <1>3 DEF Effect, Same, SameIn, Grows, Holds
<1>6. QED
  BY <1>4, <1>5, EffectSuffices

\* A request goes on and the desktops stay as they are; the disk may catch up.
LEMMA MovesOn ==
  ASSUME PoolInv, NEW p \in Proc, serving = "up",
         running' \subseteq running, vnc' \in [Agent -> {"none", "bot", "manual"}],
         UNCHANGED <<rec, serving, boot, token>>, disk' = disk \/ disk' = rec,
         NEW l \in PC, l # "starting", Goto(p, l), lock' \in LockState,
         req' \in [Proc -> Request], at' \in [Proc -> Agent \cup {NoOne}],
         scan' \in [Proc -> SUBSET Agent],
         \A q \in Proc \ {p} : req'[q] = req[q] /\ at'[q] = at[q],
         \A q \in Proc \ {p}, m \in Locks : Holds(q, m) => Holds(q, m)',
         Sound(p)'
  PROVE  Kept
<1>1. TypeOK /\ \A a \in Agent : disk[a].gen = rec[a].gen
  BY DEF PoolInv, Generations
<1>2. pc' \in [Proc -> PC] /\ pc'[p] = l /\ \A q \in Proc \ {p} : pc'[q] = pc[q]
  BY <1>1 DEF Goto, TypeOK
<1>3. TypeOK'
  BY <1>1, <1>2 DEF TypeOK, LockState
<1>4. Effect(p)
  BY <1>1, <1>2 DEF Effect, Same, SameIn, Grows
<1>5. Room'
  BY <1>2, RoomKept DEF PoolInv
<1>6. QED
  BY <1>3, <1>4, <1>5, EffectSuffices

-----------------------------------------------------------------------------
(* Requests that take only the desktop lock *)

\* A request inside a label holds the lock of its desktop.
LEMMA InsideFacts ==
  ASSUME PoolInv, NEW p \in Proc, NEW label, label # "idle", Inside(p, label)
  PROVE  /\ TypeOK /\ Sound(p) /\ pc[p] = label /\ pc[p] # "idle" /\ serving = "up"
         /\ at[p] \in Agent /\ Holds(p, at[p]) /\ rec[at[p]] \in Record
         /\ running \subseteq Agent /\ vnc \in [Agent -> {"none", "bot", "manual"}]
         /\ token \in [Task -> [agent : Agent \cup {NoOne}, gen : Nat]]
BY BusyFacts DEF Inside, PoolInv, TypeOK

\* A request that goes on with its locks is sound at a label that asks for
\* no more locks than it holds.
LEMMA SoundOn ==
  ASSUME TypeOK, NEW p \in Proc, Sound(p), NEW l \in Working, Goto(p, l), UNCHANGED <<req, at, lock>>,
         req[p].op \in OpsAt(l), at[p] \in Agent, Holds(p, at[p]),
         l \in Sweeping => pc[p] \in Sweeping,
         l \in Desk => pc[p] \in Desk,
         l = "body" => ~rec'[at[p]].quiesce,
         l = "acting" => Owned(p)'
  PROVE  Sound(p)'
<1>1. pc'[p] = l /\ req'[p] = req[p] /\ at'[p] = at[p] /\ \A m \in Locks : Holds(p, m)' = Holds(p, m)
  BY DEF Goto, TypeOK, Holds
<1>2. Well(p)'
  BY <1>1 DEF Sound, Well
<1>3. HoldsLocks(p)'
  BY <1>1 DEF Sound, HoldsLocks, Locks, Working
<1>4. QED
  BY <1>1, <1>2, <1>3 DEF Sound

\* Going on to a label other than "starting" needs no room.
LEMMA GotoRoom ==
  ASSUME PoolInv, NEW p \in Proc, NEW l, l # "starting", Goto(p, l), running' \subseteq running
  PROVE  Room'
<1>1. pc' = [pc EXCEPT ![p] = l] /\ pc \in [Proc -> PC]
  BY DEF Goto, PoolInv, TypeOK
<1>2. QED
  BY <1>1, RoomKept DEF PoolInv

\* "status" repairs a phase and ends.
LEMMA StatusBodyKeeps ==
  ASSUME PoolInv, NEW p \in Proc, StatusBody(p)
  PROVE  Kept
<1>1. PICK r \in Record : Save(at[p], r) /\ SameIn(r, rec[at[p]])
  <2>1. rec[at[p]] \in Record
    BY InsideFacts DEF StatusBody
  <2>2. QED
    BY <2>1, PhaseFacts DEF StatusBody, SameIn
<1>2. QED
  BY <1>1, InsideFacts, SavedAndDone DEF StatusBody, SameIn, docker

\* A heartbeat renews the lease of a task that owns the desktop.
LEMMA TaskBeatBodyKeeps ==
  ASSUME PoolInv, NEW p \in Proc, TaskBeatBody(p)
  PROVE  Kept
<1>1. CASE Owns(p)
  <2>1. req[p].who \in Task
    BY InsideFacts DEF TaskBeatBody, Sound, Well
  <2>2. QED
    BY <1>1, <2>1, InsideFacts, RenewedFacts, SavedAndDone DEF TaskBeatBody, docker
<1>2. CASE ~Owns(p)
  BY <1>2, InsideFacts, JustDone DEF TaskBeatBody, docker, store
<1>3. QED
  BY <1>1, <1>2

\* A task gives its lease back.
LEMMA ReleaseBodyKeeps ==
  ASSUME PoolInv, NEW p \in Proc, ReleaseBody(p)
  PROVE  Kept
<1> DEFINE r == rec[at[p]]
           s == [r EXCEPT !.tasks = [r.tasks EXCEPT ![req[p].who] = 0]]
<1>1. r \in Record
  BY InsideFacts DEF ReleaseBody
<1>2. s \in Record /\ s.gen = r.gen /\ s.mode = r.mode
  <2>1. [r.tasks EXCEPT ![req[p].who] = 0] \in [Task -> Nat]
    BY <1>1 DEF Record
  <2> HIDE DEF r
  <2>2. QED
    BY <1>1, <2>1 DEF Record
<1>3. Save(at[p], s)
  BY DEF ReleaseBody
<1>4. QED
  BY <1>2, <1>3, InsideFacts, SavedAndDone DEF ReleaseBody, docker

\* A viewer's beat renews its lease, or expires it when its page is hidden.
LEMMA BeatBodyKeeps ==
  ASSUME PoolInv, NEW p \in Proc, BeatBody(p)
  PROVE  Kept
<1> DEFINE hidden == Expired(rec[at[p]], {}, {req[p].who})
<1>0. Inside(p, "body") /\ req[p].op = "beat" /\ UNCHANGED <<docker, serving, boot, token>>
  BY DEF BeatBody
<1>1. /\ PoolInv /\ pc[p] # "idle" /\ at[p] \in Agent /\ Holds(p, at[p]) /\ rec[at[p]] \in Record
      /\ running' \subseteq running /\ running' \subseteq Agent
      /\ vnc' \in [Agent -> {"none", "bot", "manual"}]
      /\ token' \in [Task -> [agent : Agent \cup {NoOne}, gen : Nat]]
      /\ req[p].who \in Viewer
  BY <1>0, InsideFacts DEF docker, Sound, Well
<1>2. /\ hidden \in Record
      /\ (hidden.gen = rec[at[p]].gen /\ hidden.mode = rec[at[p]].mode) \/ hidden.gen > rec[at[p]].gen
  BY <1>1, ExpiredFacts
<1> HIDE DEF hidden
<1>3. CASE Done(p) /\ UNCHANGED store
  BY <1>0, <1>1, <1>3, JustDone DEF store, docker
<1>4. CASE Save(at[p], Renewed(rec[at[p]], req[p].who)) /\ Done(p)
  BY <1>0, <1>1, <1>4, RenewedFacts, SavedAndDone
<1>5. CASE Save(at[p], hidden) /\ Done(p)
  BY <1>0, <1>1, <1>2, <1>5, SavedAndDone
<1>6. CASE Save(at[p], hidden) /\ Goto(p, "handoff") /\ UNCHANGED <<lock, req, at, scan>>
  <2>1. Sound(p)'
    BY <1>0, <1>1, <1>6, InsideFacts, SoundOn DEF Working, Sweeping, Desk, OpsAt
  <2>2. Room'
    BY <1>1, <1>6, GotoRoom
  <2>3. QED
    BY <1>0, <1>1, <1>2, <1>6, <2>1, <2>2, GoesOn DEF PC
<1>7. QED
  BY <1>3, <1>4, <1>5, <1>6 DEF BeatBody, hidden

\* A takeover or a return starts a generation and revokes the task leases.
LEMMA ControlBodyKeeps ==
  ASSUME PoolInv, NEW p \in Proc, ControlBody(p)
  PROVE  Kept
<1> DEFINE h == Handed(rec[at[p]], req[p].arg)
           r == Renewed(h, req[p].who)
<1>0. Inside(p, "body") /\ req[p].op = "control" /\ UNCHANGED <<docker, serving, boot, token>>
  BY DEF ControlBody
<1>1. /\ pc[p] # "idle" /\ at[p] \in Agent /\ Holds(p, at[p]) /\ rec[at[p]] \in Record
      /\ running' \subseteq running /\ running' \subseteq Agent
      /\ vnc' \in [Agent -> {"none", "bot", "manual"}]
      /\ token' \in [Task -> [agent : Agent \cup {NoOne}, gen : Nat]]
      /\ req[p].who \in Viewer /\ req[p].arg \in {"bot", "manual"}
  BY <1>0, InsideFacts DEF docker, Sound, Well
<1>2. h \in Record /\ (h = rec[at[p]] \/ h.gen > rec[at[p]].gen)
  <2>1. h \in Record /\ (h = rec[at[p]] \/ h.gen = rec[at[p]].gen + 1)
    BY <1>1, HandedFacts
  <2> HIDE DEF h
  <2>2. rec[at[p]].gen \in Nat
    BY <1>1 DEF Record
  <2>3. QED
    BY <2>1, <2>2
<1> HIDE DEF h
<1>3. r \in Record /\ ((r.gen = rec[at[p]].gen /\ r.mode = rec[at[p]].mode) \/ r.gen > rec[at[p]].gen)
  BY <1>1, <1>2, RenewedFacts
<1> HIDE DEF r
<1>4. CASE Done(p) /\ UNCHANGED store
  BY <1>0, <1>1, <1>4, JustDone DEF store, docker
<1>5. CASE Save(at[p], r) /\ Done(p)
  BY <1>0, <1>1, <1>3, <1>5, SavedAndDone
<1>6. CASE Save(at[p], r) /\ Goto(p, "handoff") /\ UNCHANGED <<lock, req, at, scan>>
  <2>1. Sound(p)'
    BY <1>0, <1>1, <1>6, InsideFacts, SoundOn DEF Working, Sweeping, Desk, OpsAt
  <2>2. Room'
    BY <1>1, <1>6, GotoRoom
  <2>3. QED
    BY <1>0, <1>1, <1>3, <1>6, <2>1, <2>2, GoesOn DEF PC
<1>7. QED
  BY <1>4, <1>5, <1>6 DEF ControlBody, h, r

\* An action starts under the lock, for the task that owns the desktop.
LEMMA ActionBodyKeeps ==
  ASSUME PoolInv, NEW p \in Proc, ActionBody(p)
  PROVE  Kept
<1> DEFINE r == Renewed(rec[at[p]], req[p].who)
<1>0. Inside(p, "body") /\ req[p].op = "action" /\ UNCHANGED <<docker, serving, boot, token>>
  BY DEF ActionBody
<1>1. CASE Owns(p)
  <2>1. Save(at[p], r) /\ Goto(p, "acting") /\ UNCHANGED <<lock, req, at, scan>>
    BY <1>1 DEF ActionBody
  <2>2. /\ pc[p] = "body" /\ at[p] \in Agent /\ Holds(p, at[p]) /\ rec[at[p]] \in Record
        /\ running' \subseteq running /\ running' \subseteq Agent
        /\ vnc' \in [Agent -> {"none", "bot", "manual"}]
        /\ req[p].who \in Task /\ ~rec[at[p]].quiesce
    BY <1>0, InsideFacts DEF docker, Sound, Well
  <2>3. /\ r \in Record /\ r.gen = rec[at[p]].gen /\ r.mode = rec[at[p]].mode
        /\ r.quiesce = rec[at[p]].quiesce /\ r.tasks[req[p].who] = r.gen
    BY <2>2, RenewedFacts
  <2> HIDE DEF r
  <2>4. Owned(p)'
    <3>1. rec'[at[p]] = r /\ req' = req /\ at' = at
      BY <2>1, <2>2, <2>3, SaveFacts DEF PoolInv
    <3>2. QED
      BY <1>1, <2>2, <2>3, <3>1 DEF Owned, Owns
  <2>5. Sound(p)'
    BY <1>0, <2>1, <2>2, <2>4, InsideFacts, SoundOn DEF Working, Sweeping, Desk, OpsAt
  <2>6. Room'
    BY <2>1, <2>2, GotoRoom
  <2>7. QED
    BY <1>0, <2>1, <2>2, <2>3, <2>5, <2>6, GoesOn DEF PC
<1>2. CASE ~Owns(p)
  BY <1>0, <1>2, InsideFacts, JustDone DEF ActionBody, docker, store
<1>3. QED
  BY <1>1, <1>2

\* It ends with a renewal of its lease.
LEMMA ActedKeeps ==
  ASSUME PoolInv, NEW p \in Proc, Acted(p)
  PROVE  Kept
<1>1. Inside(p, "acting") /\ UNCHANGED <<docker, serving, boot, token>>
  BY DEF Acted
<1>2. req[p].who \in Task
  BY <1>1, InsideFacts DEF Sound, Well, OpsAt, Sweeping
<1>3. QED
  BY <1>1, <1>2, InsideFacts, RenewedFacts, SavedAndDone DEF Acted, docker

\* A request that is cancelled in the queue of its desktop leaves it.
LEMMA CancelledKeeps ==
  ASSUME PoolInv, NEW p \in Proc, Cancelled(p)
  PROVE  Kept
BY InsideFacts, JustDone DEF Cancelled, docker, store

\* Docker does not answer: the request fails and its desktop is as before.
LEMMA InspectFailsKeeps ==
  ASSUME PoolInv, NEW p \in Proc, InspectFails(p)
  PROVE  Kept
<1>1. PICK l \in {"body", "sweepbody"} \cup DOMAIN AfterQuiesce : Inside(p, l)
  BY DEF InspectFails
<1>2. l # "idle"
  BY DEF AfterQuiesce
<1>3. Room'
  <2>1. Done(p) /\ running' = running
    BY DEF InspectFails, Failed, docker
  <2>2. QED
    BY <1>1, <1>2, <2>1, InsideFacts, DoneFacts, RoomKept DEF PoolInv
<1>4. QED
  BY <1>1, <1>2, <1>3, InsideFacts, FailedKeeps DEF InspectFails, docker, SameIn

\* A wake whose caller is gone gives up.
LEMMA GiveUpKeeps ==
  ASSUME PoolInv, NEW p \in Proc, GiveUp(p)
  PROVE  Kept
<1>1. /\ pc[p] # "idle" /\ req[p].op = "wake" /\ UNCHANGED <<docker, serving, boot, token>>
      /\ Failed(p, req[p].agent, rec[req[p].agent])
  BY DEF GiveUp
<1>2. TypeOK /\ req[p].agent \in Agent /\ rec[req[p].agent] \in Record
  BY <1>1, BusyFacts DEF Sound, Well, PoolInv, TypeOK
<1>3. Room'
  <2>1. Done(p) /\ running' = running
    BY <1>1 DEF Failed, docker
  <2>2. QED
    BY <1>2, <2>1, DoneFacts, RoomKept DEF PoolInv
<1>4. QED
  BY <1>1, <1>2, <1>3, FailedKeeps DEF docker, SameIn, TypeOK

-----------------------------------------------------------------------------
(* Expiry and the input policy *)

\* What QuiesceAt, AfterExpire and AfterQuiesce name.
LEMMA Labels ==
  /\ QuiesceAt["desk"] = "quiesce" /\ QuiesceAt["sweep"] = "sweepquiesce"
  /\ AfterExpire["desk"] = "body" /\ AfterExpire["sweep"] = "sweepbody"
  /\ DOMAIN AfterQuiesce = {"quiesce", "sweepquiesce", "handoff"}
  /\ AfterQuiesce["quiesce"] = "body" /\ AfterQuiesce["sweepquiesce"] = "sweepbody"
  /\ AfterQuiesce["handoff"] = "idle"
BY DEF QuiesceAt, AfterExpire, AfterQuiesce

\* Expiry begins a generation only when the policy must be settled next.
LEMMA ExpireKeeps ==
  ASSUME PoolInv, NEW p \in Proc, Expire(p)
  PROVE  Kept
<1>1. PICK T \in SUBSET {k \in Task : rec[at[p]].tasks[k] # 0}, V \in SUBSET rec[at[p]].viewers :
        LET r == Expired(rec[at[p]], T, V) IN
          IF r.quiesce THEN Save(at[p], r) /\ Goto(p, QuiesceAt[pc[p]])
                       ELSE Keep(at[p], r) /\ Goto(p, AfterExpire[pc[p]])
  BY DEF Expire
<1> DEFINE r == Expired(rec[at[p]], T, V)
<1>2. /\ UNCHANGED <<docker, serving, boot, lock, req, at, scan, token>>
      /\ Inside(p, "sweep") \/ (Inside(p, "desk") /\ req[p].op \notin {"stop", "release"})
  BY DEF Expire
<1>3. /\ TypeOK /\ Sound(p) /\ pc[p] \in {"sweep", "desk"}
      /\ at[p] \in Agent /\ Holds(p, at[p]) /\ rec[at[p]] \in Record
      /\ running' \subseteq running /\ running' \subseteq Agent
      /\ vnc' \in [Agent -> {"none", "bot", "manual"}]
  BY <1>2, InsideFacts DEF docker
<1>4. /\ r \in Record
      /\ \/ r.gen = rec[at[p]].gen /\ r.mode = rec[at[p]].mode
         \/ r.gen > rec[at[p]].gen /\ r.quiesce = TRUE
  BY <1>3, ExpiredFacts
<1> HIDE DEF r
<1>5. PICK l \in {"quiesce", "sweepquiesce", "body", "sweepbody"} :
        /\ Goto(p, l)
        /\ Save(at[p], r) \/ (Keep(at[p], r) /\ r.gen = rec[at[p]].gen)
        /\ l = "body" => ~r.quiesce
        /\ pc[p] = "sweep" <=> l \in {"sweepquiesce", "sweepbody"}
  <2>1. CASE r.quiesce
    BY <1>1, <1>3, <2>1, Labels DEF r
  <2>2. CASE ~r.quiesce
    <3>1. Keep(at[p], r) /\ r.gen = rec[at[p]].gen
      BY <1>1, <1>4, <2>2 DEF r
    <3>2. Goto(p, AfterExpire[pc[p]])
      BY <1>1, <2>2 DEF r
    <3>3. QED
      BY <1>3, <2>2, <3>1, <3>2, Labels
  <2>3. QED
    BY <2>1, <2>2
<1>6. Sound(p)'
  <2>1. rec'[at[p]] = r
    BY <1>3, <1>4, <1>5, SaveFacts
  <2>2. req[p].op \in OpsAt(l)
    BY <1>2, <1>3, <1>5 DEF Inside, Sound, Well, OpsAt, Sweeping
  <2>3. QED
    BY <1>2, <1>3, <1>5, <2>1, <2>2, SoundOn DEF Working, Sweeping, Desk
<1>7. Room'
  BY <1>3, <1>5, GotoRoom
<1>8. QED
  BY <1>2, <1>3, <1>4, <1>5, <1>6, <1>7, GoesOn DEF PC

\* The policy of the desktop is settled, or the request fails.
LEMMA QuiesceKeeps ==
  ASSUME PoolInv, NEW p \in Proc, Quiesce(p)
  PROVE  Kept
<1> DEFINE r == [rec[at[p]] EXCEPT !.quiesce = FALSE]
<1>1. PICK l \in {"quiesce", "sweepquiesce", "handoff"} : Inside(p, l)
  BY Labels DEF Quiesce
<1>2. /\ TypeOK /\ Sound(p) /\ pc[p] = l /\ pc[p] # "idle"
      /\ at[p] \in Agent /\ Holds(p, at[p]) /\ rec[at[p]] \in Record
      /\ running' \subseteq running /\ running' \subseteq Agent /\ UNCHANGED <<serving, boot, token>>
      /\ token' \in [Task -> [agent : Agent \cup {NoOne}, gen : Nat]]
  BY <1>1, InsideFacts DEF Quiesce
<1>3. vnc' \in [Agent -> {"none", "bot", "manual"}]
  <2>1. rec[at[p]].mode \in {"none", "bot", "manual"} /\ vnc \in [Agent -> {"none", "bot", "manual"}]
    BY <1>2 DEF Record, TypeOK
  <2>2. QED
    BY <1>2, <2>1 DEF Quiesce
<1>4. r \in Record /\ r.gen = rec[at[p]].gen /\ r.mode = rec[at[p]].mode /\ ~r.quiesce
  BY <1>2 DEF Record
<1>5. CASE Save(at[p], r) /\ Done(p)
  BY <1>2, <1>3, <1>4, <1>5, SavedAndDone
<1>6. ASSUME NEW m \in {"body", "sweepbody"}, m = AfterQuiesce[pc[p]],
             Save(at[p], r) /\ Goto(p, m) /\ UNCHANGED <<lock, req, at, scan>>
      PROVE  Kept
  <2>1. rec'[at[p]] = r
    BY <1>2, <1>4, <1>6, SaveFacts
  <2>2. Sound(p)'
    BY <1>2, <1>4, <1>6, <2>1, Labels, SoundOn DEF Sound, Well, Working, Sweeping, Desk, OpsAt
  <2>3. Room'
    BY <1>2, <1>6, GotoRoom
  <2>4. QED
    BY <1>2, <1>3, <1>4, <1>6, <2>2, <2>3, GoesOn DEF PC
<1>7. CASE Failed(p, at[p], rec[at[p]])
  <2>1. Room'
    BY <1>2, <1>7, DoneFacts, RoomKept DEF Failed, PoolInv
  <2>2. QED
    BY <1>2, <1>3, <1>7, <2>1, FailedKeeps DEF SameIn
<1> HIDE DEF r
<1>8. CASE Save(at[p], r) /\ (IF AfterQuiesce[pc[p]] = "idle"
              THEN Done(p) ELSE Goto(p, AfterQuiesce[pc[p]]) /\ UNCHANGED <<lock, req, at, scan>>)
  BY <1>2, <1>5, <1>6, <1>8, Labels
<1>9. QED
  BY <1>7, <1>8 DEF Quiesce, r

-----------------------------------------------------------------------------
(* Wake, pause and idle reassignment *)

\* A grant is of the present generation.
LEMMA GrantedKeeps ==
  ASSUME PoolInv, NEW p \in Proc, pc[p] # "idle", at[p] \in Agent, Holds(p, at[p]),
         req[p].op = "wake", Granted(p, rec[at[p]]),
         running' \subseteq running, vnc' \in [Agent -> {"none", "bot", "manual"}],
         UNCHANGED <<serving, boot>>
  PROVE  Kept
<1> DEFINE q == [rec[at[p]] EXCEPT !.phase = "running"]
           s == Renewed(q, req[p].who)
<1>1. TypeOK /\ rec[at[p]] \in Record /\ req[p].who \in Task \cup Viewer
  BY BusyFacts DEF Sound, Well, PoolInv, TypeOK
<1>2. q \in Record /\ SameIn(q, rec[at[p]])
  BY <1>1, PhaseFacts
<1> HIDE DEF q
<1>3. s \in Record /\ s.gen = rec[at[p]].gen /\ s.mode = rec[at[p]].mode
  BY <1>1, <1>2, RenewedFacts DEF SameIn
<1> HIDE DEF s
<1>4. /\ Save(at[p], s) /\ Done(p)
      /\ token' = IF req[p].who \in Task
                    THEN [token EXCEPT ![req[p].who] = [agent |-> at[p], gen |-> s.gen]] ELSE token
  BY DEF Granted, s, q
<1>5. rec'[at[p]] = s
  BY <1>1, <1>3, <1>4, SaveFacts
<1>6. /\ token' \in [Task -> [agent : Agent \cup {NoOne}, gen : Nat]]
      /\ \A k \in Task : token'[k] = token[k] \/ token'[k].gen = rec'[token'[k].agent].gen
  <2>1. s.gen \in Nat /\ token \in [Task -> [agent : Agent \cup {NoOne}, gen : Nat]]
    BY <1>1, <1>3 DEF Record, TypeOK
  <2>2. QED
    BY <1>4, <1>5, <2>1
<1>7. QED
  BY <1>3, <1>4, <1>6, SavedAndDone

\* Two requests never hold a lock, so at most one starts a container, and it
\* holds the allocation lock.
LEMMA StartingAlone ==
  ASSUME PoolInv, NEW p \in Proc, pc[p] = "starting"
  PROVE  \A q \in Proc : pc[q] = "starting" => q = p
<1>1. ASSUME NEW q \in Proc, pc[q] = "starting" PROVE Holds(q, Allocation)
  BY <1>1, BusyFacts DEF Sound, Well, HoldsLocks, OpsAt, Sweeping, Desk
<1>2. QED
  BY <1>1 DEF Holds

\* Who holds the allocation lock without starting a container has nobody beside
\* it who does.
LEMMA NobodyStarts ==
  ASSUME PoolInv, NEW p \in Proc, Holds(p, Allocation), pc[p] # "starting"
  PROVE  \A q \in Proc : pc[q] # "starting"
BY BusyFacts DEF Sound, Well, HoldsLocks, OpsAt, Sweeping, Desk, Holds

\* A wake holds both locks until it pauses.
LEMMA WakeHolds ==
  ASSUME PoolInv, NEW p \in Proc, Inside(p, "body"), req[p].op = "wake"
  PROVE  Holds(p, Allocation) /\ req[p].who \in Task \cup Viewer
BY InsideFacts DEF Sound, Well, HoldsLocks, Desk

\* A wake grants, starts the container it has room for, or waits for room.
LEMMA WakeBodyKeeps ==
  ASSUME PoolInv, NEW p \in Proc, WakeBody(p)
  PROVE  Kept
<1> DEFINE a == at[p]
           w == Waking(rec[at[p]])
           z == [rec[at[p]] EXCEPT !.phase = "waiting"]
<1>0. Inside(p, "body") /\ req[p].op = "wake" /\ UNCHANGED <<docker, serving, boot>>
  BY DEF WakeBody
<1>1. /\ TypeOK /\ Sound(p) /\ pc[p] = "body" /\ a \in Agent /\ Holds(p, a) /\ rec[a] \in Record
      /\ running' = running /\ running' \subseteq Agent /\ serving = "up"
      /\ vnc' = vnc /\ vnc' \in [Agent -> {"none", "bot", "manual"}]
      /\ Holds(p, Allocation)
      /\ \A b \in Agent : disk[b].gen = rec[b].gen
  BY <1>0, InsideFacts, WakeHolds, BusyFacts DEF docker
<1>2. CASE Failed(p, a, rec[a]) /\ UNCHANGED token
  <2>1. Room'
    BY <1>1, <1>2, DoneFacts, RoomKept DEF Failed, PoolInv
  <2>2. QED
    BY <1>0, <1>1, <1>2, <2>1, FailedKeeps DEF SameIn
<1>3. CASE Granted(p, rec[a])
  BY <1>0, <1>1, <1>3, GrantedKeeps
<1>4. CASE HasRoom /\ Save(a, w) /\ Goto(p, "starting") /\ UNCHANGED <<lock, req, at, scan, token>>
  <2>1. w \in Record /\ w.gen > rec[a].gen
    <3>1. rec[a].gen \in Nat /\ w \in Record /\ w.gen = rec[a].gen + 1
      BY <1>1, WakingFacts DEF Record
    <3>2. QED
      BY <3>1
  <2> HIDE DEF w
  <2>2. Sound(p)'
    BY <1>0, <1>1, <1>4, SoundOn DEF Working, Sweeping, Desk, OpsAt
  <2>3. Room'
    BY <1>1, <1>4 DEF HasRoom, PoolInv, Room
  <2>4. QED
    BY <1>0, <1>1, <1>4, <2>1, <2>2, <2>3, GoesOn DEF PC
<1>5. CASE /\ Save(a, z) /\ Goto(p, "pausing")
           /\ at' = [at EXCEPT ![p] = NoOne] /\ lock' = Freed({a, Allocation})
           /\ UNCHANGED <<req, scan, token>>
  <2>1. z \in Record /\ SameIn(z, rec[a])
    BY <1>1, PhaseFacts
  <2> HIDE DEF z
  <2>2. /\ rec' \in [Agent -> Record] /\ disk' = rec'
        /\ rec'[a] = z /\ \A b \in Agent \ {a} : rec'[b] = rec[b]
    BY <1>1, <1>5, <2>1, SaveFacts
  <2>3. lock' \in LockState /\ \A m \in Locks \ {a, Allocation} : lock'[m] = lock[m]
    BY <1>1, <1>5, FreedFacts DEF TypeOK, LockState
  <2>4. /\ pc' \in [Proc -> PC] /\ pc'[p] = "pausing" /\ \A q \in Proc \ {p} : pc'[q] = pc[q]
        /\ at' \in [Proc -> Agent \cup {NoOne}] /\ \A q \in Proc \ {p} : at'[q] = at[q]
    BY <1>1, <1>5 DEF Goto, TypeOK, PC
  <2>5. TypeOK'
    BY <1>0, <1>1, <1>5, <2>2, <2>3, <2>4 DEF TypeOK, LockState
  <2>6. Sound(p)'
    BY <1>0, <1>1, <1>5, <2>4 DEF Sound, Well, HoldsLocks, OpsAt, Working, Sweeping, Desk
  <2>7. \A q \in Proc \ {p}, m \in Locks : Holds(q, m) => Holds(q, m)'
    <3>1. ASSUME NEW q \in Proc \ {p}, NEW m \in Locks, Holds(q, m) PROVE m \notin {a, Allocation}
      BY <1>1, <3>1 DEF Holds
    <3>2. QED
      BY <2>3, <3>1 DEF Holds
  <2>8. Effect(p)
    BY <1>0, <1>1, <1>5, <2>1, <2>2, <2>4, <2>7 DEF Effect, Same, SameIn, Grows
  <2>9. Room'
    BY <1>1, <1>5, GotoRoom
  <2>10. QED
    BY <2>5, <2>6, <2>8, <2>9, EffectSuffices
<1>6. QED
  BY <1>2, <1>3, <1>4, <1>5 DEF WakeBody, w, z

\* A container that starts takes the room that was left for it.
LEMMA StartedRoom ==
  ASSUME PoolInv, NEW p \in Proc, pc[p] = "starting", NEW a, running' = running \cup {a},
         pc'[p] # "starting", \A q \in Proc \ {p} : pc'[q] = pc[q]
  PROVE  Room'
<1>1. /\ IsFiniteSet(running) /\ Cardinality(running) < Capacity
      /\ Cardinality(running) \in Nat
  BY FS_CardinalityType DEF PoolInv, Room
<1>2. /\ IsFiniteSet(running')
      /\ Cardinality(running') = Cardinality(running) \/ Cardinality(running') = Cardinality(running) + 1
  BY <1>1, FS_AddElement
<1>3. \A q \in Proc : pc'[q] # "starting"
  BY StartingAlone
<1>4. QED
  BY <1>1, <1>2, <1>3, PoolAssumption DEF Room

\* driver.start runs the container, or fails before or after it runs.
LEMMA StartedKeeps ==
  ASSUME PoolInv, NEW p \in Proc, Started(p)
  PROVE  Kept
<1> DEFINE a == at[p]
           f == [rec[at[p]] EXCEPT !.phase = "failed"]
<1>0. Inside(p, "starting") /\ UNCHANGED <<serving, boot, token>>
  BY DEF Started
<1>1. /\ TypeOK /\ Sound(p) /\ pc[p] = "starting" /\ a \in Agent /\ Holds(p, a) /\ rec[a] \in Record
      /\ running \subseteq Agent /\ serving = "up"
      /\ vnc \in [Agent -> {"none", "bot", "manual"}]
      /\ req[p].op = "wake"
      /\ \A b \in Agent : disk[b].gen = rec[b].gen
  BY <1>0, InsideFacts, BusyFacts DEF Well, Sound, OpsAt, Sweeping
<1>2. /\ running' = running \/ running' = running \cup {a}
      /\ running' \subseteq Agent /\ vnc' \in [Agent -> {"none", "bot", "manual"}]
  BY <1>1 DEF Started, docker
<1>3. CASE Goto(p, "readying") /\ running' = running \cup {a} /\ UNCHANGED <<store, lock, req, at, scan>>
  <2>1. pc' \in [Proc -> PC] /\ pc'[p] = "readying" /\ \A q \in Proc \ {p} : pc'[q] = pc[q]
    BY <1>1, <1>3 DEF Goto, TypeOK, PC
  <2>2. TypeOK'
    BY <1>0, <1>1, <1>2, <1>3, <2>1 DEF TypeOK, store
  <2>3. Effect(p)
    BY <1>0, <1>1, <1>3, <2>1 DEF Effect, Same, SameIn, Grows, Holds, store
  <2>4. Sound(p)'
    BY <1>1, <1>3, SoundOn DEF Working, Sweeping, Desk, OpsAt
  <2>5. Room'
    BY <1>1, <1>3, <2>1, StartedRoom
  <2>6. QED
    BY <2>2, <2>3, <2>4, <2>5, EffectSuffices
<1>4. CASE Failed(p, a, f)
  <2>1. f \in Record /\ SameIn(f, rec[a])
    BY <1>1, PhaseFacts
  <2> HIDE DEF f
  <2>2. /\ pc'[p] = "idle" /\ \A q \in Proc \ {p} : pc'[q] = pc[q]
    BY <1>1, <1>4, DoneFacts DEF Failed
  <2>3. Room'
    <3>1. CASE running' = running
      <4>1. running' \subseteq running /\ \A q \in Proc : pc'[q] = "starting" => pc[q] = "starting"
        BY <2>2, <3>1
      <4>2. QED
        BY <4>1, RoomKept DEF PoolInv
    <3>2. CASE running' = running \cup {a}
      BY <1>1, <2>2, <3>2, StartedRoom
    <3>3. QED
      BY <1>2, <3>1, <3>2
  <2>4. QED
    BY <1>0, <1>1, <1>2, <1>4, <2>1, <2>3, FailedKeeps
<1>5. QED
  BY <1>3, <1>4 DEF Started, f

\* The started desktop becomes ready and is granted, or the wake fails.
LEMMA ReadiedKeeps ==
  ASSUME PoolInv, NEW p \in Proc, Readied(p)
  PROVE  Kept
<1> DEFINE a == at[p]
           f == [rec[at[p]] EXCEPT !.phase = "failed"]
<1>0. Inside(p, "readying") /\ UNCHANGED <<running, serving, boot>>
  BY DEF Readied
<1>1. /\ TypeOK /\ pc[p] = "readying" /\ a \in Agent /\ Holds(p, a) /\ rec[a] \in Record
      /\ running' \subseteq running /\ running' \subseteq Agent
      /\ vnc \in [Agent -> {"none", "bot", "manual"}] /\ req[p].op = "wake"
  BY <1>0, InsideFacts DEF Well, Sound, OpsAt, Sweeping
<1>2. vnc' \in [Agent -> {"none", "bot", "manual"}]
  BY <1>1 DEF Readied
<1>3. CASE Granted(p, rec[a])
  BY <1>0, <1>1, <1>2, <1>3, GrantedKeeps
<1>4. CASE Failed(p, a, f) /\ UNCHANGED token
  <2>1. f \in Record /\ SameIn(f, rec[a])
    BY <1>1, PhaseFacts
  <2> HIDE DEF f
  <2>2. Room'
    BY <1>1, <1>4, DoneFacts, RoomKept DEF Failed, PoolInv
  <2>3. QED
    BY <1>0, <1>1, <1>2, <1>4, <2>1, <2>2, FailedKeeps
<1>5. QED
  BY <1>3, <1>4 DEF Readied, f

\* A paused desktop is recorded asleep before its container stops.
LEMMA StopBodyKeeps ==
  ASSUME PoolInv, NEW p \in Proc, StopBody(p)
  PROVE  Kept
<1> DEFINE r == Asleep(rec[at[p]])
<1>0. /\ Inside(p, "desk") /\ req[p].op = "stop" /\ Save(at[p], r) /\ Goto(p, "stopping")
      /\ UNCHANGED <<docker, serving, boot, lock, req, at, scan, token>>
  BY DEF StopBody
<1>1. /\ TypeOK /\ Sound(p) /\ pc[p] = "desk" /\ at[p] \in Agent /\ Holds(p, at[p])
      /\ rec[at[p]] \in Record /\ rec[at[p]].gen \in Nat
      /\ running' \subseteq running /\ running' \subseteq Agent
      /\ vnc' \in [Agent -> {"none", "bot", "manual"}]
  BY <1>0, InsideFacts DEF docker, Record
<1>2. r \in Record /\ r.gen > rec[at[p]].gen
  BY <1>1, AsleepFacts
<1> HIDE DEF r
<1>3. Sound(p)'
  BY <1>0, <1>1, SoundOn DEF Working, Sweeping, Desk, OpsAt
<1>4. Room'
  BY <1>0, <1>1, GotoRoom
<1>5. QED
  BY <1>0, <1>1, <1>2, <1>3, <1>4, GoesOn DEF PC

\* The reap leaves a desktop and keeps the allocation lock.
LEMMA LeavesKeeps ==
  ASSUME PoolInv, NEW p \in Proc, NEW l \in Sweeping, Inside(p, l), Leaves(p),
         running' \subseteq running, vnc' \in [Agent -> {"none", "bot", "manual"}],
         UNCHANGED <<store, serving, boot, token>>
  PROVE  Kept
<1>1. /\ TypeOK /\ Sound(p) /\ pc[p] = l /\ at[p] \in Agent /\ Holds(p, at[p]) /\ serving = "up"
      /\ Holds(p, Allocation) /\ req[p].op \in {"wake", "reap"}
  BY InsideFacts DEF Sound, Well, HoldsLocks, OpsAt, Sweeping
<1>2. lock' \in LockState /\ \A m \in Locks \ {at[p]} : lock'[m] = lock[m]
  BY <1>1, FreedFacts DEF TypeOK, LockState, Leaves
<1>3. /\ at' \in [Proc -> Agent \cup {NoOne}] /\ \A q \in Proc \ {p} : at'[q] = at[q]
      /\ pc'[p] = "scan" /\ UNCHANGED <<req, scan>>
  BY <1>1 DEF Leaves, Goto, TypeOK
<1>4. \A q \in Proc \ {p}, m \in Locks : Holds(q, m) => Holds(q, m)'
  <2>1. ASSUME NEW q \in Proc \ {p}, NEW m \in Locks, Holds(q, m) PROVE m # at[p]
    BY <1>1, <2>1 DEF Holds
  <2>2. QED
    BY <1>2, <2>1 DEF Holds
<1>5. Sound(p)'
  <2>1. Holds(p, Allocation)'
    BY <1>1, <1>2, PoolAssumption DEF Holds, Locks
  <2>2. QED
    BY <1>1, <1>3, <2>1 DEF Sound, Well, HoldsLocks, OpsAt, Working, Sweeping, Desk
<1>6. QED
  BY <1>1, <1>2, <1>3, <1>4, <1>5, MovesOn DEF Leaves, store, PC, TypeOK

\* A desktop that is idle is recorded asleep, or the reap leaves it.
LEMMA SweepBodyKeeps ==
  ASSUME PoolInv, NEW p \in Proc, SweepBody(p)
  PROVE  Kept
<1> DEFINE r == Asleep(rec[at[p]])
<1>0. Inside(p, "sweepbody") /\ UNCHANGED <<docker, serving, boot, token>>
  BY DEF SweepBody
<1>1. /\ TypeOK /\ Sound(p) /\ pc[p] = "sweepbody" /\ at[p] \in Agent /\ Holds(p, at[p])
      /\ rec[at[p]] \in Record /\ rec[at[p]].gen \in Nat
      /\ running' \subseteq running /\ running' \subseteq Agent
      /\ vnc' \in [Agent -> {"none", "bot", "manual"}]
  BY <1>0, InsideFacts DEF docker, Record
<1>2. r \in Record /\ r.gen > rec[at[p]].gen
  BY <1>1, AsleepFacts
<1> HIDE DEF r
<1>3. CASE Save(at[p], r) /\ Goto(p, "sweepstop") /\ UNCHANGED <<lock, req, at, scan>>
  <2>1. Sound(p)'
    BY <1>1, <1>3, SoundOn DEF Sound, Well, Working, Sweeping, Desk, OpsAt
  <2>2. Room'
    BY <1>1, <1>3, GotoRoom
  <2>3. QED
    BY <1>0, <1>1, <1>2, <1>3, <2>1, <2>2, GoesOn DEF PC
<1>4. CASE Leaves(p) /\ UNCHANGED store
  BY <1>0, <1>1, <1>4, LeavesKeeps DEF Sweeping
<1>5. QED
  BY <1>3, <1>4 DEF SweepBody, r

\* driver.stop removes the container, or fails before or after it is gone.
LEMMA StoppedKeeps ==
  ASSUME PoolInv, NEW p \in Proc, Stopped(p)
  PROVE  Kept
<1> DEFINE f == [rec[at[p]] EXCEPT !.phase = "failed"]
<1>0. UNCHANGED <<serving, boot, token>>
  BY DEF Stopped
<1>1. PICK l \in {"stopping", "sweepstop"} : Inside(p, l)
  BY DEF Stopped
<1>2. /\ TypeOK /\ pc[p] = l /\ at[p] \in Agent /\ Holds(p, at[p]) /\ rec[at[p]] \in Record
      /\ running \subseteq Agent /\ vnc \in [Agent -> {"none", "bot", "manual"}]
  BY <1>1, InsideFacts
<1>3. /\ running' \subseteq running /\ running' \subseteq Agent
      /\ vnc' \in [Agent -> {"none", "bot", "manual"}]
  BY <1>2 DEF Stopped, docker
<1>4. CASE Failed(p, at[p], f)
  <2>1. f \in Record /\ SameIn(f, rec[at[p]])
    BY <1>2, PhaseFacts
  <2> HIDE DEF f
  <2>2. Room'
    BY <1>2, <1>3, <1>4, DoneFacts, RoomKept DEF Failed, PoolInv
  <2>3. QED
    BY <1>0, <1>2, <1>3, <1>4, <2>1, <2>2, FailedKeeps
<1>5. CASE Done(p) /\ UNCHANGED store
  BY <1>0, <1>2, <1>3, <1>5, JustDone DEF store
<1>6. CASE pc[p] # "stopping" /\ Leaves(p) /\ UNCHANGED store
  BY <1>0, <1>1, <1>2, <1>3, <1>6, LeavesKeeps DEF Sweeping
<1>7. QED
  BY <1>4, <1>5, <1>6 DEF Stopped, f

-----------------------------------------------------------------------------
(* On the way to a desktop *)

\* Claiming a lock takes nothing from the others, whatever the claimant drops.
LEMMA ClaimKeepsOthers ==
  ASSUME NEW p \in Proc, NEW l \in Locks, NEW lk \in LockState, lock' = Claimed(p, l, lk),
         \A q \in Proc \ {p}, m \in Locks : Holds(q, m) => lk[m].owner = q
  PROVE  /\ lock' \in LockState
         /\ \A q \in Proc \ {p}, m \in Locks : Holds(q, m) => Holds(q, m)'
         /\ \A m \in Locks : lk[m].owner = p => Holds(p, m)'
<1>1. /\ lock' \in LockState
      /\ \A m \in Locks : lk[m].owner # NoOne => lock'[m].owner = lk[m].owner
  BY ClaimedFacts
<1>2. QED
  BY <1>1, PoolAssumption DEF Holds

\* A wake that did not get the allocation lock in time asks for it again.
LEMMA AllocTimeoutKeeps ==
  ASSUME PoolInv, NEW p \in Proc, AllocTimeout(p)
  PROVE  Kept
<1>1. /\ TypeOK /\ serving = "up" /\ Sound(p) /\ pc[p] = "alloc"
  BY BusyFacts DEF AllocTimeout, PoolInv
<1>2. lock \in LockState /\ Dropped(p) \in LockState /\ Allocation \in Locks
  BY <1>1, DroppedFacts DEF TypeOK, LockState, Locks
<1>3. \A q \in Proc \ {p}, m \in Locks : Holds(q, m) => Dropped(p)[m].owner = q
  BY <1>2, DroppedFacts DEF Holds
<1>4. /\ lock' \in LockState /\ \A q \in Proc \ {p}, m \in Locks : Holds(q, m) => Holds(q, m)'
  BY <1>2, <1>3, ClaimKeepsOthers DEF AllocTimeout
<1>5. Sound(p)' /\ Goto(p, "alloc")
  BY <1>1 DEF AllocTimeout, proc, Sound, Well, HoldsLocks, OpsAt, Working, Sweeping, Desk, TypeOK, Goto
<1>6. QED
  BY <1>1, <1>4, <1>5, MovesOn DEF AllocTimeout, store, docker, proc, PC, TypeOK

\* A paused wake comes back to the allocation lock.
LEMMA RetryKeeps ==
  ASSUME PoolInv, NEW p \in Proc, Retry(p)
  PROVE  Kept
<1>1. /\ TypeOK /\ serving = "up" /\ Sound(p) /\ pc[p] = "pausing" /\ Goto(p, "alloc")
      /\ UNCHANGED <<req, at, scan>>
  BY BusyFacts DEF Retry, PoolInv
<1>2. lock \in LockState /\ Allocation \in Locks
  BY <1>1 DEF TypeOK, LockState, Locks
<1>3. /\ lock' \in LockState /\ \A q \in Proc \ {p}, m \in Locks : Holds(q, m) => Holds(q, m)'
  BY <1>2, ClaimKeepsOthers DEF Retry, Holds
<1>4. Sound(p)'
  BY <1>1 DEF Sound, Well, HoldsLocks, OpsAt, Working, Sweeping, Desk, TypeOK, Goto
<1>5. QED
  BY <1>1, <1>3, <1>4, MovesOn DEF Retry, store, docker, PC, TypeOK

\* A request with the allocation lock queues for its desktop or reaps first.
LEMMA AdmittedKeeps ==
  ASSUME PoolInv, NEW p \in Proc, Admitted(p)
  PROVE  Kept
<1>1. /\ TypeOK /\ serving = "up" /\ Sound(p) /\ pc[p] = "alloc" /\ Holds(p, Allocation)
      /\ lock \in LockState /\ Allocation \in Locks
  BY BusyFacts DEF Admitted, PoolInv, TypeOK, LockState, Locks
<1>2. CASE req[p].op = "stop"
  <2>1. /\ Goto(p, "desk") /\ lock' = Claimed(p, req[p].agent, lock)
        /\ at' = [at EXCEPT ![p] = req[p].agent] /\ UNCHANGED <<req, scan>>
        /\ req[p].agent \in Agent
    BY <1>1, <1>2 DEF Admitted, Sound, Well
  <2>2. /\ lock' \in LockState /\ \A q \in Proc \ {p}, m \in Locks : Holds(q, m) => Holds(q, m)'
        /\ Holds(p, Allocation)'
    BY <1>1, <2>1, ClaimKeepsOthers DEF Holds, Locks
  <2>3. Sound(p)'
    BY <1>1, <1>2, <2>1, <2>2 DEF Sound, Well, HoldsLocks, OpsAt, Working, Sweeping, Desk, Op, TypeOK, Goto
  <2>4. QED
    BY <1>1, <2>1, <2>2, <2>3, MovesOn DEF Admitted, store, docker, PC, TypeOK
<1>3. CASE req[p].op # "stop"
  <2>1. Goto(p, "scan") /\ scan' = [scan EXCEPT ![p] = Agent] /\ UNCHANGED <<lock, at, req>>
    BY <1>1, <1>3 DEF Admitted
  <2>2. scan' \in [Proc -> SUBSET Agent]
    BY <1>1, <2>1 DEF TypeOK
  <2>3. Sound(p)'
    BY <1>1, <1>3, <2>1 DEF Sound, Well, HoldsLocks, OpsAt, Working, Sweeping, Desk, Holds, TypeOK, Goto
  <2>4. QED
    BY <1>1, <2>1, <2>2, <2>3, MovesOn DEF Admitted, store, docker, PC, TypeOK, Holds
<1>4. QED
  BY <1>2, <1>3

\* The reap visits a desktop or skips it.
LEMMA VisitKeeps ==
  ASSUME PoolInv, NEW p \in Proc, NEW a \in Agent, Visit(p, a)
  PROVE  Kept
<1>1. /\ TypeOK /\ serving = "up" /\ Sound(p) /\ pc[p] = "scan" /\ Holds(p, Allocation)
      /\ lock \in LockState /\ Allocation \in Locks /\ a \in Locks
  BY BusyFacts DEF Visit, PoolInv, TypeOK, LockState, Locks, Sound, HoldsLocks
<1>2. scan' \in [Proc -> SUBSET Agent] /\ UNCHANGED req
  BY <1>1 DEF Visit, TypeOK
<1>3. CASE UNCHANGED <<lock, at, pc>>
  <2>1. Sound(p)' /\ Goto(p, "scan")
    BY <1>1, <1>2, <1>3 DEF Sound, Well, HoldsLocks, OpsAt, Working, Sweeping, Desk, Holds, TypeOK, Goto
  <2>2. QED
    BY <1>1, <1>2, <1>3, <2>1, MovesOn DEF Visit, store, docker, PC, TypeOK, Holds
<1>4. CASE lock' = Claimed(p, a, lock) /\ at' = [at EXCEPT ![p] = a] /\ Goto(p, "sweep")
  <2>1. /\ lock' \in LockState /\ \A q \in Proc \ {p}, m \in Locks : Holds(q, m) => Holds(q, m)'
        /\ Holds(p, Allocation)'
    BY <1>1, <1>4, ClaimKeepsOthers DEF Holds, Locks
  <2>2. Sound(p)'
    BY <1>1, <1>2, <1>4, <2>1 DEF Sound, Well, HoldsLocks, OpsAt, Working, Sweeping, Desk, TypeOK, Goto
  <2>3. QED
    BY <1>1, <1>2, <1>4, <2>1, <2>2, MovesOn DEF Visit, store, docker, PC, TypeOK
<1>5. QED
  BY <1>3, <1>4 DEF Visit

\* After the reap a wake queues for its desktop or pauses; a reap is over.
LEMMA ScanDoneKeeps ==
  ASSUME PoolInv, NEW p \in Proc, ScanDone(p)
  PROVE  Kept
<1>1. /\ TypeOK /\ serving = "up" /\ Sound(p) /\ pc[p] = "scan" /\ Holds(p, Allocation)
      /\ lock \in LockState /\ Allocation \in Locks
      /\ UNCHANGED <<rec, docker, serving, boot, token>> /\ disk' = rec
  BY BusyFacts DEF ScanDone, PoolInv, TypeOK, LockState, Locks, Sound, HoldsLocks
<1>2. CASE Done(p)
  BY <1>1, <1>2, JustDone DEF docker, TypeOK
<1>3. CASE /\ req[p].op = "wake" /\ Goto(p, "desk") /\ lock' = Claimed(p, req[p].agent, lock)
           /\ at' = [at EXCEPT ![p] = req[p].agent] /\ UNCHANGED <<req, scan>>
  <2>1. req[p].agent \in Agent
    BY <1>1, <1>3 DEF Sound, Well
  <2>2. /\ lock' \in LockState /\ \A q \in Proc \ {p}, m \in Locks : Holds(q, m) => Holds(q, m)'
        /\ Holds(p, Allocation)'
    BY <1>1, <1>3, <2>1, ClaimKeepsOthers DEF Holds, Locks
  <2>3. Sound(p)'
    BY <1>1, <1>3, <2>1, <2>2 DEF Sound, Well, HoldsLocks, OpsAt, Working, Sweeping, Desk, Op, TypeOK, Goto
  <2>4. QED
    BY <1>1, <1>3, <2>1, <2>2, <2>3, MovesOn DEF docker, PC, TypeOK
<1>4. CASE /\ req[p].op = "wake" /\ Goto(p, "pausing") /\ lock' = Freed({Allocation})
           /\ UNCHANGED <<req, at, scan>>
  <2>1. lock' \in LockState /\ \A m \in Locks \ {Allocation} : lock'[m] = lock[m]
    BY <1>1, <1>4, FreedFacts
  <2>2. \A q \in Proc \ {p}, m \in Locks : Holds(q, m) => Holds(q, m)'
    <3>1. ASSUME NEW q \in Proc \ {p}, NEW m \in Locks, Holds(q, m) PROVE m # Allocation
      BY <1>1, <3>1 DEF Holds
    <3>2. QED
      BY <2>1, <3>1 DEF Holds
  <2>3. Sound(p)'
    BY <1>1, <1>4 DEF Sound, Well, HoldsLocks, OpsAt, Working, Sweeping, Desk, TypeOK, Goto
  <2>4. QED
    BY <1>1, <1>4, <2>1, <2>2, <2>3, MovesOn DEF docker, PC, TypeOK
<1>5. QED
  BY <1>2, <1>3, <1>4 DEF ScanDone

\* A caller presents a request its operation can be made with.
LEMMA RequestFacts ==
  ASSUME TypeOK, NEW r \in Requests
  PROVE  /\ r \in Request /\ r.op \in Op \ {"none"}
         /\ r.op # "reap" => r.agent \in Agent
         /\ r.op = "wake" => r.who \in Task \cup Viewer
         /\ r.op \in {"control", "beat"} => r.who \in Viewer
         /\ r.op = "control" => r.arg \in {"bot", "manual"}
         /\ r.op \in {"taskbeat", "release", "action"} => r.who \in Task
<1>1. \A a \in Agent : rec[a].gen \in Nat
  BY DEF TypeOK, Record
<1>2. \A k \in Task : token[k].agent # NoOne => token[k].agent \in Agent /\ token[k].gen \in Nat
  BY DEF TypeOK
<1>3. QED
  BY <1>1, <1>2 DEF Requests, Request, Op

\* A new request queues for the lock its operation takes first.
LEMMA CallKeeps ==
  ASSUME PoolInv, NEW p \in Proc, NEW r \in Requests, Call(p, r)
  PROVE  Kept
<1>1. /\ TypeOK /\ serving = "up" /\ pc[p] = "idle" /\ req' = [req EXCEPT ![p] = r]
      /\ lock \in LockState /\ Allocation \in Locks /\ Agent \subseteq Locks
      /\ UNCHANGED <<store, docker, serving, boot, scan, token>>
  BY DEF Call, PoolInv, TypeOK, LockState, Locks
<1>2. /\ req' \in [Proc -> Request] /\ req'[p] = r /\ \A q \in Proc \ {p} : req'[q] = req[q]
  BY <1>1, RequestFacts DEF TypeOK
<1>3. CASE /\ r.op \in {"wake", "stop", "reap"}
           /\ Goto(p, "alloc") /\ lock' = Claimed(p, Allocation, lock) /\ UNCHANGED at
  <2>1. lock' \in LockState /\ \A q \in Proc \ {p}, m \in Locks : Holds(q, m) => Holds(q, m)'
    BY <1>1, <1>3, ClaimKeepsOthers DEF Holds
  <2>2. Sound(p)'
    BY <1>1, <1>2, <1>3, RequestFacts
       DEF Sound, Well, HoldsLocks, OpsAt, Working, Sweeping, Desk, TypeOK, Goto
  <2>3. QED
    BY <1>1, <1>2, <1>3, <2>1, <2>2, MovesOn DEF store, docker, PC, TypeOK
<1>4. CASE /\ r.op \notin {"wake", "stop", "reap"}
           /\ Goto(p, "desk") /\ lock' = Claimed(p, r.agent, lock) /\ at' = [at EXCEPT ![p] = r.agent]
  <2>1. r.agent \in Agent
    BY <1>4, RequestFacts, <1>1
  <2>2. lock' \in LockState /\ \A q \in Proc \ {p}, m \in Locks : Holds(q, m) => Holds(q, m)'
    BY <1>1, <1>4, <2>1, ClaimKeepsOthers DEF Holds
  <2>3. Sound(p)'
    BY <1>1, <1>2, <1>4, RequestFacts
       DEF Sound, Well, HoldsLocks, OpsAt, Working, Sweeping, Desk, Op, TypeOK, Goto
  <2>4. QED
    BY <1>1, <1>2, <1>4, <2>1, <2>2, <2>3, MovesOn DEF store, docker, PC, TypeOK
<1>5. QED
  BY <1>3, <1>4 DEF Call

-----------------------------------------------------------------------------
(* Steps that no request takes *)

\* A waiter takes a lock that nobody holds.
LEMMA HandoverKeeps ==
  ASSUME PoolInv, NEW l \in Locks, Handover(l)
  PROVE  Kept
<1>1. /\ TypeOK /\ lock[l].owner = NoOne /\ lock[l].queue # <<>> /\ lock[l].queue \in Seq(Proc)
      /\ lock' = [lock EXCEPT ![l] = [owner |-> Head(lock[l].queue), queue |-> Tail(lock[l].queue)]]
      /\ UNCHANGED <<store, docker, serving, boot, proc, token>>
  BY DEF Handover, Locked, PoolInv, TypeOK
<1>2. Head(lock[l].queue) \in Proc /\ Tail(lock[l].queue) \in Seq(Proc)
  BY <1>1, HeadTailProperties
<1>3. TypeOK'
  BY <1>1, <1>2 DEF TypeOK, store, docker, proc
<1>4. \A q \in Proc, m \in Locks : Holds(q, m) => Holds(q, m)'
  BY <1>1, PoolAssumption DEF Holds, TypeOK
<1>5. ASSUME NEW q \in Proc PROVE Sound(q)'
  <2>1. Sound(q) /\ UNCHANGED <<pc, req, at, rec>>
    BY <1>1 DEF PoolInv, RequestsSound, proc, store
  <2>2. HoldsLocks(q)'
    BY <1>4, <2>1 DEF Sound, HoldsLocks, Well, Locks
  <2>3. Well(q)' /\ (Owned(q) => Owned(q)')
    BY <2>1 DEF Sound, Well, Owned
  <2>4. QED
    BY <2>1, <2>2, <2>3 DEF Sound
<1>6. PoolInv'
  BY <1>1, <1>3, <1>5 DEF PoolInv, RequestsSound, AloneAtBoot, Room, Generations, store, docker, proc
<1>7. QED
  BY <1>1, <1>6 DEF Kept, FreshStep, store

\* A container that exits by itself leaves room.
LEMMA ContainerDiesKeeps ==
  ASSUME PoolInv, NEW a \in Agent, ContainerDies(a)
  PROVE  Kept
<1>1. /\ TypeOK /\ running' \subseteq running /\ UNCHANGED <<store, serving, boot, lock, proc, token>>
      /\ vnc' = [vnc EXCEPT ![a] = "none"]
  BY DEF ContainerDies, PoolInv
<1>2. TypeOK'
  BY <1>1 DEF TypeOK, store, proc
<1>3. RequestsSound'
  BY <1>1 DEF PoolInv, RequestsSound, Sound, Well, HoldsLocks, Holds, Owned, store, proc
<1>4. Room'
  BY <1>1, RoomKept DEF PoolInv, proc
<1>5. PoolInv'
  BY <1>1, <1>2, <1>3, <1>4 DEF PoolInv, AloneAtBoot, Generations, store, proc
<1>6. QED
  BY <1>1, <1>5 DEF Kept, FreshStep, store

\* A crash ends every request; the one container that was starting had room.
LEMMA CrashKeeps ==
  ASSUME PoolInv, Crash
  PROVE  Kept
<1>1. PICK on \in SUBSET Agents("starting"),
           off \in SUBSET (Agents("stopping") \cup Agents("sweepstop")) :
        /\ running' = (running \cup on) \ off
        /\ vnc' = [a \in Agent |-> IF a \in off THEN "none"
                                   ELSE IF a \in on \ running THEN "bot" ELSE vnc[a]]
  BY DEF Crash
<1>2. /\ TypeOK /\ serving' = "down" /\ UNCHANGED <<store, boot, token>>
      /\ lock' = [l \in Locks |-> [owner |-> NoOne, queue |-> <<>>]]
      /\ pc' = [p \in Proc |-> "idle"] /\ req' = [p \in Proc |-> NoRequest]
      /\ at' = [p \in Proc |-> NoOne] /\ scan' = [p \in Proc |-> {}]
  BY DEF Crash, PoolInv
<1>3. on \subseteq Agent
  BY BusyFacts DEF Agents, Sound, Well, Working
<1>4. TypeOK'
  <2>1. NoRequest \in Request /\ "idle" \in PC /\ <<>> \in Seq(Proc)
    BY DEF NoRequest, Request, Op, PC
  <2>2. running' \subseteq Agent /\ vnc' \in [Agent -> {"none", "bot", "manual"}]
    BY <1>1, <1>2, <1>3 DEF TypeOK
  <2>3. QED
    BY <1>2, <2>1, <2>2 DEF TypeOK, store
<1>5. RequestsSound'
  BY <1>2 DEF RequestsSound, Sound, Well, HoldsLocks, OpsAt, NoRequest, Working, Sweeping, Desk
<1>6. Room'
  <2>1. IsFiniteSet(running) /\ Cardinality(running) \in Nat /\ Cardinality(running) <= Capacity
    BY FS_CardinalityType DEF PoolInv, Room
  <2>2. CASE \E p \in Proc : pc[p] = "starting"
    <3>1. PICK p \in Proc : pc[p] = "starting"
      BY <2>2
    <3>2. on \subseteq {at[p]}
      BY <3>1, StartingAlone DEF Agents
    <3>3. /\ IsFiniteSet(running \cup {at[p]})
          /\ Cardinality(running \cup {at[p]}) <= Cardinality(running) + 1
          /\ Cardinality(running \cup {at[p]}) \in Nat
      <4>1. /\ IsFiniteSet(running \cup {at[p]})
            /\ \/ Cardinality(running \cup {at[p]}) = Cardinality(running)
               \/ Cardinality(running \cup {at[p]}) = Cardinality(running) + 1
        BY <2>1, FS_AddElement
      <4>2. QED
        BY <2>1, <4>1
    <3>4. running' \subseteq running \cup {at[p]}
      BY <1>1, <3>2
    <3>5. /\ IsFiniteSet(running') /\ Cardinality(running') <= Cardinality(running \cup {at[p]})
          /\ Cardinality(running') \in Nat
      BY <3>3, <3>4, FS_Subset, FS_CardinalityType
    <3>6. Cardinality(running) < Capacity
      BY <3>1 DEF PoolInv, Room
    <3>7. QED
      BY <1>2, <2>1, <3>3, <3>5, <3>6, PoolAssumption DEF Room
  <2>3. CASE ~\E p \in Proc : pc[p] = "starting"
    <3>1. running' \subseteq running
      BY <1>1, <2>3 DEF Agents
    <3>2. QED
      BY <1>2, <3>1, RoomKept DEF PoolInv
  <2>4. QED
    BY <2>2, <2>3
<1>7. PoolInv'
  BY <1>2, <1>4, <1>5, <1>6 DEF PoolInv, AloneAtBoot, Generations, store
<1>8. QED
  BY <1>2, <1>7 DEF Kept, FreshStep

\* While the supervisor does not serve, every request stays idle and sound.
LEMMA BootSound ==
  ASSUME PoolInv, serving # "up", UNCHANGED <<lock, proc>>
  PROVE  RequestsSound' /\ AloneAtBoot' /\ \A p \in Proc : pc'[p] = "idle"
BY DEF PoolInv, AloneAtBoot, RequestsSound, Sound, Well, HoldsLocks, Working, Sweeping, Desk, proc

\* A restart begins with the records that were saved.
LEMMA LoadKeeps ==
  ASSUME PoolInv, Load
  PROVE  Kept
<1>1. /\ TypeOK /\ serving = "down" /\ serving' = "booting" /\ rec' = disk
      /\ boot' = [a \in Agent |-> "todo"] /\ UNCHANGED <<disk, docker, lock, proc, token>>
  BY DEF Load, PoolInv
<1>2. TypeOK'
  BY <1>1 DEF TypeOK, docker, proc
<1>3. Room'
  BY <1>1, RoomKept DEF PoolInv, docker, proc
<1>4. Generations'
  BY <1>1, <1>2 DEF PoolInv, Generations, TypeOK, Record
<1>5. QED
  BY <1>1, <1>2, <1>3, <1>4, BootSound DEF PoolInv, Kept, FreshStep

\* Reconcile makes a desktop's generation newer than every grant of it.
LEMMA ReconcileKeeps ==
  ASSUME PoolInv, NEW a \in Agent, Reconcile(a)
  PROVE  Kept
<1>1. /\ TypeOK /\ serving = "booting" /\ boot[a] = "todo"
      /\ UNCHANGED <<docker, serving, lock, proc, token>>
  BY DEF Reconcile, PoolInv
<1>2. PICK T \in SUBSET {k \in Task : rec[a].tasks[k] # 0}, V \in SUBSET rec[a].viewers :
        LET r == Expired(rec[a], T, V)
            s == [r EXCEPT !.gen = @ + 1]
        IN IF a \in running
             THEN /\ Save(a, [s EXCEPT !.phase = "running", !.quiesce = TRUE])
                  /\ boot' = [boot EXCEPT ![a] = "quiesce"]
             ELSE /\ rec' = [rec EXCEPT ![a] =
                       [s EXCEPT !.phase = "sleeping", !.quiesce = FALSE,
                                 !.tasks = NoLeases, !.viewers = {}, !.mode = "bot"]]
                  /\ disk' = IF r.quiesce
                               THEN [rec EXCEPT ![a] = [r EXCEPT !.quiesce = FALSE]] ELSE disk
                  /\ boot' = [boot EXCEPT ![a] = "done"]
  BY DEF Reconcile
<1> DEFINE r == Expired(rec[a], T, V)
           s == [r EXCEPT !.gen = r.gen + 1]
           u == [s EXCEPT !.phase = "running", !.quiesce = TRUE]
           v == [s EXCEPT !.phase = "sleeping", !.quiesce = FALSE,
                          !.tasks = NoLeases, !.viewers = {}, !.mode = "bot"]
           w == [r EXCEPT !.quiesce = FALSE]
<1>3. r \in Record /\ r.gen \in Nat /\ rec[a].gen \in Nat /\ r.gen >= rec[a].gen
  <2>1. rec[a] \in Record
    BY <1>1 DEF TypeOK
  <2>2. r \in Record /\ (r.gen = rec[a].gen \/ r.gen > rec[a].gen)
    BY <2>1, ExpiredFacts
  <2> HIDE DEF r
  <2>3. QED
    BY <2>1, <2>2 DEF Record
<1>4. CASE a \in running
  <2>1. Save(a, u) /\ boot' = [boot EXCEPT ![a] = "quiesce"]
    BY <1>2, <1>4
  <2> HIDE DEF r
  <2>2. s \in Record /\ s.gen = r.gen + 1
    BY <1>3 DEF Record
  <2> HIDE DEF s
  <2>3. u \in Record /\ u.gen = s.gen
    BY <2>2 DEF Record
  <2> HIDE DEF u
  <2>4. QED
    <3>1. rec' = [rec EXCEPT ![a] = u] /\ disk' = rec'
      BY <2>1 DEF Save
    <3>2. TypeOK'
      BY <1>1, <2>1, <2>3, <3>1 DEF TypeOK, docker, proc
    <3>3. rec'[a].gen > rec[a].gen /\ \A b \in Agent \ {a} : rec'[b] = rec[b]
      BY <1>1, <1>3, <2>2, <2>3, <3>1 DEF TypeOK
    <3>4. \A b \in Agent : rec'[b].gen \in Nat /\ rec[b].gen \in Nat /\ disk[b].gen \in Nat
      BY <1>1, <3>2 DEF TypeOK, Record
    <3>5. \A k \in Task : token[k].gen \in Nat
      BY <1>1 DEF TypeOK
    <3>6. Generations'
      BY <1>1, <2>1, <3>1, <3>3, <3>4, <3>5 DEF Generations, PoolInv, TypeOK
    <3>7. Room'
      BY <1>1, RoomKept DEF PoolInv, docker, proc
    <3>8. QED
      BY <1>1, <3>2, <3>6, <3>7, BootSound DEF PoolInv, Kept, FreshStep
<1>5. CASE a \notin running
  <2>1. /\ rec' = [rec EXCEPT ![a] = v] /\ boot' = [boot EXCEPT ![a] = "done"]
        /\ disk' = IF r.quiesce THEN [rec EXCEPT ![a] = w] ELSE disk
    BY <1>2, <1>5
  <2> HIDE DEF r
  <2>2. w \in Record /\ w.gen = r.gen
    BY <1>3 DEF Record
  <2>3. s \in Record /\ s.gen = r.gen + 1
    BY <1>3 DEF Record
  <2> HIDE DEF s, w
  <2>4. v \in Record /\ v.gen = r.gen + 1
    <3>1. NoLeases \in [Task -> Nat]
      BY DEF NoLeases
    <3> DEFINE t1 == [s EXCEPT !.phase = "sleeping", !.quiesce = FALSE]
               t2 == [t1 EXCEPT !.tasks = NoLeases, !.viewers = {}]
    <3>2. t1 \in Record /\ t1.gen = s.gen
      BY <2>3 DEF Record
    <3>3. v = [t2 EXCEPT !.mode = "bot"]
      BY DEF v
    <3> HIDE DEF t1
    <3>4. t2 \in Record /\ t2.gen = s.gen
      BY <3>1, <3>2 DEF Record
    <3> HIDE DEF t2, v
    <3>5. QED
      BY <2>3, <3>3, <3>4 DEF Record
  <2> HIDE DEF v
  <2>5. rec' \in [Agent -> Record] /\ disk' \in [Agent -> Record]
    BY <1>1, <2>1, <2>2, <2>4 DEF TypeOK
  <2>6. TypeOK'
    BY <1>1, <2>1, <2>5 DEF TypeOK, docker, proc
  <2>7. /\ rec'[a].gen = r.gen + 1 /\ \A b \in Agent \ {a} : rec'[b] = rec[b]
        /\ disk' = disk \/ (disk'[a].gen = r.gen /\ \A b \in Agent \ {a} : disk'[b] = rec[b])
    BY <1>1, <2>1, <2>2, <2>4 DEF TypeOK
  <2>8. \A b \in Agent : rec'[b].gen \in Nat /\ rec[b].gen \in Nat /\ disk[b].gen \in Nat
    BY <1>1, <2>6 DEF TypeOK, Record
  <2>9. \A k \in Task : token[k].gen \in Nat
    BY <1>1 DEF TypeOK
  <2>10. Generations'
    BY <1>1, <1>3, <2>1, <2>7, <2>8, <2>9 DEF Generations, PoolInv, TypeOK
  <2>11. Room'
    BY <1>1, RoomKept DEF PoolInv, docker, proc
  <2>12. QED
    BY <1>1, <2>6, <2>10, <2>11, BootSound DEF PoolInv, Kept, FreshStep
<1>6. QED
  BY <1>4, <1>5

\* The policy of a running desktop is settled before the pool serves.
LEMMA ReconcileQuiesceKeeps ==
  ASSUME PoolInv, NEW a \in Agent, ReconcileQuiesce(a)
  PROVE  Kept
<1> DEFINE r == [rec[a] EXCEPT !.quiesce = FALSE]
<1>1. /\ TypeOK /\ serving = "booting" /\ boot[a] = "quiesce" /\ boot' = [boot EXCEPT ![a] = "done"]
      /\ rec' = [rec EXCEPT ![a] = r] /\ disk' = rec'
      /\ vnc' = [vnc EXCEPT ![a] = IF a \in running THEN rec[a].mode ELSE @]
      /\ UNCHANGED <<running, serving, lock, proc, token>>
  BY DEF ReconcileQuiesce, PoolInv, Save
<1>2. r \in Record /\ r.gen = rec[a].gen /\ rec[a].mode \in {"none", "bot", "manual"}
  <2>1. rec[a] \in Record
    BY <1>1 DEF TypeOK
  <2>2. QED
    BY <2>1 DEF Record
<1> HIDE DEF r
<1>3. TypeOK'
  BY <1>1, <1>2 DEF TypeOK, proc
<1>4. \A b \in Agent : rec'[b].gen = rec[b].gen
  BY <1>1, <1>2 DEF TypeOK
<1>5. \A b \in Agent : rec[b].gen \in Nat /\ disk[b].gen \in Nat
  BY <1>1 DEF TypeOK, Record
<1>6. \A k \in Task : token[k].gen \in Nat
  BY <1>1 DEF TypeOK
<1>7. Generations'
  <2>1. \A b \in Agent : disk[b].gen <= rec'[b].gen /\ disk'[b].gen = rec'[b].gen
    BY <1>1, <1>4 DEF PoolInv, Generations
  <2>2. \A b \in Agent, k \in Task : token[k].agent = b => token[k].gen <= disk'[b].gen
    BY <1>4, <1>5, <1>6, <2>1 DEF PoolInv, Generations
  <2>3. \A b \in Agent, k \in Task :
          boot'[b] # "todo" /\ token[k].agent = b => token[k].gen < rec'[b].gen
    BY <1>1, <1>4 DEF PoolInv, Generations, TypeOK
  <2>4. QED
    BY <1>1, <1>3, <2>1, <2>2, <2>3 DEF Generations, TypeOK, Record
<1>8. Room'
  BY <1>1, RoomKept DEF PoolInv, proc
<1>9. QED
  BY <1>1, <1>3, <1>7, <1>8, BootSound DEF PoolInv, Kept, FreshStep

\* When the pool serves again every grant is older than its desktop.
LEMMA ServeKeeps ==
  ASSUME PoolInv, Serve
  PROVE  Kept
<1>1. /\ TypeOK /\ serving = "booting" /\ \A a \in Agent : boot[a] = "done"
      /\ serving' = "up" /\ disk' = rec /\ UNCHANGED <<rec, docker, boot, lock, proc, token>>
  BY DEF Serve, PoolInv
<1>2. TypeOK'
  BY <1>1 DEF TypeOK, docker, proc
<1>3. \A a \in Agent, k \in Task : token[k].agent = a => token[k].gen < rec[a].gen
  BY <1>1 DEF PoolInv, Generations
<1>4. (\A a \in Agent : rec[a].gen \in Nat) /\ (\A k \in Task : token[k].gen \in Nat)
  BY <1>1 DEF TypeOK, Record
<1>5. Generations'
  BY <1>1, <1>3, <1>4 DEF Generations
<1>6. Room'
  BY <1>1, RoomKept DEF PoolInv, docker, proc
<1>7. QED
  BY <1>1, <1>2, <1>3, <1>5, <1>6, BootSound DEF PoolInv, Kept, FreshStep

-----------------------------------------------------------------------------
(* The invariant and what follows from it *)

\* An empty pool satisfies the invariant.
LEMMA PoolInvInit ==
  ASSUME Init
  PROVE  PoolInv
<1>1. NoLeases \in [Task -> Nat] /\ NoLeases = [k \in Task |-> 0]
  BY DEF NoLeases
<1>2. Fresh \in Record
  BY <1>1 DEF Fresh, Record
<1>3. NoRequest \in Request /\ <<>> \in Seq(Proc)
  BY DEF NoRequest, Request, Op
<1>4. TypeOK
  BY <1>2, <1>3 DEF Init, TypeOK, PC
<1>5. RequestsSound
  BY DEF Init, RequestsSound, Sound, Well, HoldsLocks, OpsAt, NoRequest, Working, Sweeping, Desk
<1>6. Room
  <2>1. IsFiniteSet({}) /\ Cardinality({}) = 0
    BY FS_EmptySet
  <2>2. QED
    BY <2>1, PoolAssumption DEF Init, Room
<1>7. Generations
  BY PoolAssumption DEF Init, Generations
<1>8. QED
  BY <1>4, <1>5, <1>6, <1>7 DEF PoolInv, AloneAtBoot, Init

\* Every step keeps it and takes no ownership back.
LEMMA PoolInvStep ==
  ASSUME PoolInv, [Next]_vars
  PROVE  PoolInv' /\ (FreshStep \/ UNCHANGED vars)
<1>1. ASSUME NEW p \in Proc, Work(p) PROVE Kept
  BY <1>1, RetryKeeps, AdmittedKeeps, VisitKeeps, ScanDoneKeeps, CancelledKeeps, ExpireKeeps,
     QuiesceKeeps, InspectFailsKeeps, WakeBodyKeeps, StartedKeeps, ReadiedKeeps, StopBodyKeeps,
     SweepBodyKeeps, StoppedKeeps, StatusBodyKeeps, ControlBodyKeeps, BeatBodyKeeps,
     TaskBeatBodyKeeps, ReleaseBodyKeeps, ActionBodyKeeps, ActedKeeps
     DEF Work
<1>2. ASSUME Restart PROVE Kept
  <2>1. ASSUME NEW a \in Agent, Reconcile(a) \/ ReconcileQuiesce(a) PROVE Kept
    BY <2>1, ReconcileKeeps, ReconcileQuiesceKeeps
  <2>2. QED
    BY <1>2, <2>1, LoadKeeps, ServeKeeps DEF Restart
<1>3. CASE Next
  BY <1>1, <1>2, <1>3, CallKeeps, AllocTimeoutKeeps, GiveUpKeeps, HandoverKeeps,
     ContainerDiesKeeps, CrashKeeps DEF Next, Kept
<1>4. CASE UNCHANGED vars
  BY <1>4 DEF vars, store, docker, proc, PoolInv, TypeOK, RequestsSound, Sound, Well, HoldsLocks,
       Holds, Owned, AloneAtBoot, Room, Generations
<1>5. QED
  BY <1>2, <1>3, <1>4 DEF Kept

\* The invariant holds in every state the pool reaches.
THEOREM PoolInvariant == Spec => []PoolInv
<1>1. Init => PoolInv
  BY PoolInvInit
<1>2. PoolInv /\ [Next]_vars => PoolInv'
  BY PoolInvStep
<1>3. QED
  BY <1>1, <1>2, PTL DEF Spec

\* Every variable of the pool keeps its type.
THEOREM Typed == Spec => []TypeOK
<1>1. PoolInv => TypeOK
  BY DEF PoolInv
<1>2. QED
  BY <1>1, PoolInvariant, PTL

\* No more desktops run than the host was sized for: capacity is counted under
\* the allocation lock, which the wake keeps until its container runs.
THEOREM Capacious == Spec => []CapacityRespected
<1>1. PoolInv => CapacityRespected
  BY DEF PoolInv, Room, CapacityRespected
<1>2. QED
  BY <1>1, PoolInvariant, PTL

\* While an operation runs in a container its task owns the desktop, and no
\* other request holds the desktop's lock.
THEOREM OwnedActions == Spec => []ActionsAreOwned
<1>1. ASSUME PoolInv PROVE ActionsAreOwned
  <2>1. ASSUME NEW p \in Proc, pc[p] = "acting" PROVE Holds(p, at[p]) /\ Owned(p)
    BY <1>1, <2>1, BusyFacts DEF Sound, HoldsLocks, Working
  <2>2. QED
    BY <2>1 DEF ActionsAreOwned, Owned, Holds
<1>2. QED
  BY <1>1, PoolInvariant, PTL

\* When ownership changes, every generation a task still holds is older than
\* the new one, across takeovers, pauses, wakes and restarts.
THEOREM FreshOwnership == Spec => OwnershipIsFresh
<1>1. PoolInv /\ [Next]_vars => [FreshStep]_vars
  BY PoolInvStep
<1>2. Spec => [][FreshStep]_vars
  BY <1>1, PoolInvariant, PTL DEF Spec
<1>3. QED
  BY <1>2, PTL DEF OwnershipIsFresh, FreshStep
=============================================================================
