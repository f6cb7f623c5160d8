--------------------------- MODULE DesktopKeepers ---------------------------
(***************************************************************************)
(* How one task of a bot uses its desktop (desktops.py): computer_start    *)
(* and computer_action calls ask the supervisor for a lease, a keeper task *)
(* renews it, and the worker releases both when it ends.  Calls of a turn  *)
(* run side by side; a request whose caller gave up may still reach the    *)
(* supervisor (DesktopPool has that side in full), and a takeover or a     *)
(* restart revokes the lease at any time.                                  *)
(***************************************************************************)
EXTENDS Naturals, FiniteSets

CONSTANTS Call,           \* tool calls of the turn that may overlap
          Keeper,         \* keeper tasks that may be alive at one time
          MaxGeneration,  \* bound: generations of the desktop
          MaxStray        \* bound: abandoned requests on their way at one time

ASSUME KeeperAssumption == MaxGeneration \in Nat \ {0} /\ MaxStray \in Nat

VARIABLES
  generation,  \* of the desktop
  lease,       \* generation of the task's lease at the supervisor, 0 for none
  cached,      \* _task_generations of the task, 0 for none
  registered,  \* _task_keepers of the task: a set of one keeper, or empty
  keepers,     \* generation that each keeper renews, 0 when it has ended
  toolCalls,   \* where each call of create is, and the generation it was given
  stray,       \* requests whose caller is gone: Start, or the generation of a heartbeat
  worker,      \* the worker of the task
  revived      \* history: the release failed, or a stray start came after it

keeperVars == <<generation, lease, cached, registered, keepers, toolCalls, stray, worker, revived>>

NoCall    == [pc |-> "idle", gen |-> 0]
Alive     == {k \in Keeper : keepers[k] # 0}
Start     == 0

KeepersTypeOK ==
  /\ generation \in 1..MaxGeneration /\ lease \in 0..MaxGeneration /\ cached \in 0..MaxGeneration
  /\ registered \subseteq Keeper /\ Cardinality(registered) <= 1
  /\ keepers \in [Keeper -> 0..MaxGeneration]
  /\ toolCalls \in [Call -> [pc : {"idle", "post", "granted", "replacing"}, gen : 0..MaxGeneration]]
  /\ stray \subseteq {Start} \cup 1..MaxGeneration /\ Cardinality(stray) <= MaxStray
  /\ worker \in {"running", "closing", "posting", "done"} /\ revived \in BOOLEAN

KeepersInit ==
  /\ generation = 1 /\ lease = 0 /\ cached = 0 /\ registered = {}
  /\ keepers = [k \in Keeper |-> 0] /\ toolCalls = [c \in Call |-> NoCall]
  /\ stray = {} /\ worker = "running" /\ revived = FALSE

-----------------------------------------------------------------------------
(* create, and action when it has no generation of the task *)

Post(c) ==
  /\ worker = "running" /\ toolCalls[c].pc = "idle"
  /\ toolCalls' = [toolCalls EXCEPT ![c].pc = "post"]
  /\ UNCHANGED <<generation, lease, cached, registered, keepers, stray, worker, revived>>

\* The supervisor grants the lease; or it is full, away, or answers nothing.
Granted(c) ==
  /\ toolCalls[c].pc = "post"
  /\ lease' = generation
  /\ toolCalls' = [toolCalls EXCEPT ![c] = [pc |-> "granted", gen |-> generation]]
  /\ UNCHANGED <<generation, cached, registered, keepers, stray, worker, revived>>

\* In the last case the request may still arrive.
Refuse(c, arrives) ==
  /\ toolCalls[c].pc = "post"
  /\ arrives => Cardinality(stray \cup {Start}) <= MaxStray
  /\ toolCalls' = [toolCalls EXCEPT ![c] = NoCall]
  /\ stray' = IF arrives THEN stray \cup {Start} ELSE stray
  /\ UNCHANGED <<generation, lease, cached, registered, keepers, worker, revived>>

\* A new keeper for generation g; whoever was registered is forgotten.
NewKeeper(g) ==
  /\ Alive # Keeper
  /\ LET k == CHOOSE i \in Keeper : i \notin Alive
     IN keepers' = [keepers EXCEPT ![k] = g] /\ registered' = {k}

\* The call takes the answer; it cancels the previous keeper and waits for it.
TakeAnswer(c) ==
  /\ toolCalls[c].pc = "granted"
  /\ cached' = toolCalls[c].gen
  /\ IF registered # {}
       THEN /\ keepers' = [k \in Keeper |-> IF k \in registered THEN 0 ELSE keepers[k]]
            /\ registered' = {} /\ toolCalls' = [toolCalls EXCEPT ![c].pc = "replacing"]
       ELSE NewKeeper(toolCalls[c].gen) /\ toolCalls' = [toolCalls EXCEPT ![c] = NoCall]
  /\ UNCHANGED <<generation, lease, stray, worker, revived>>

\* It registers its own keeper, whatever another call has registered meanwhile.
ReplaceKeeper(c) ==
  /\ toolCalls[c].pc = "replacing"
  /\ NewKeeper(toolCalls[c].gen)
  /\ toolCalls' = [toolCalls EXCEPT ![c] = NoCall]
  /\ UNCHANGED <<generation, lease, cached, stray, worker, revived>>

-----------------------------------------------------------------------------
(* _keep_task *)

\* heartbeat_task renews only a lease of its generation.
Renews(g) == lease = g /\ generation = g

\* A refused or lost heartbeat ends the keeper.
Beat(k, lost) ==
  /\ k \in Alive
  /\ lease' = IF Renews(keepers[k]) /\ ~lost THEN keepers[k] ELSE lease
  /\ keepers' = IF Renews(keepers[k]) /\ ~lost THEN keepers ELSE [keepers EXCEPT ![k] = 0]
  /\ UNCHANGED <<generation, cached, registered, toolCalls, stray, worker, revived>>

\* Nobody renews the lease until it expires.
ExpireLease ==
  /\ lease # 0 /\ \A k \in Alive : ~Renews(keepers[k])
  /\ lease' = 0
  /\ UNCHANGED <<generation, cached, registered, keepers, toolCalls, stray, worker, revived>>

-----------------------------------------------------------------------------
(* The end of the task *)

\* Mutant: calls outlive the turn.
CutLater == toolCalls

\* _cancel_tool_tasks: no call goes on.
Cut == [c \in Call |-> NoCall]

\* The turn ends; start requests and a heartbeat that were under way may still
\* arrive.
CloseTurn ==
  /\ worker = "running" /\ worker' = "closing"
  /\ toolCalls' = Cut
  /\ \E some \in SUBSET ((IF \E c \in Call : toolCalls[c].pc = "post" THEN {Start} ELSE {})
                         \cup {keepers[k] : k \in Alive}) :
       /\ stray' = stray \cup some
       /\ Cardinality(stray') <= MaxStray
  /\ UNCHANGED <<generation, lease, cached, registered, keepers, revived>>

\* release_task forgets the task and cancels its keeper ...
ForgetTask ==
  /\ worker = "closing" /\ worker' = "posting"
  /\ cached' = 0 /\ registered' = {}
  /\ keepers' = [k \in Keeper |-> IF k \in registered THEN 0 ELSE keepers[k]]
  /\ UNCHANGED <<generation, lease, toolCalls, stray, revived>>

\* ... and asks the supervisor to release the lease, which may fail.
ReleaseLease(ok) ==
  /\ worker = "posting" /\ worker' = "done"
  /\ lease' = IF ok THEN 0 ELSE lease
  /\ revived' = ~ok
  /\ UNCHANGED <<generation, cached, registered, keepers, toolCalls, stray>>

\* An abandoned request is handled, or lost.
HandleStray(x, lost) ==
  /\ x \in stray /\ stray' = stray \ {x}
  /\ lease' = IF lost THEN lease
              ELSE IF x = Start THEN generation ELSE IF Renews(x) THEN x ELSE lease
  /\ revived' = (revived \/ (x = Start /\ ~lost /\ worker = "done"))
  /\ UNCHANGED <<generation, cached, registered, keepers, toolCalls, worker>>

\* A takeover, a pause or a restart of the desktop
Revoke ==
  /\ generation < MaxGeneration /\ generation' = generation + 1 /\ lease' = 0
  /\ UNCHANGED <<cached, registered, keepers, toolCalls, stray, worker, revived>>

KeepersNext ==
  \/ \E c \in Call : Post(c) \/ Granted(c) \/ TakeAnswer(c) \/ ReplaceKeeper(c)
  \/ \E c \in Call, arrives \in BOOLEAN : Refuse(c, arrives)
  \/ \E k \in Keeper, lost \in BOOLEAN : Beat(k, lost)
  \/ \E ok \in BOOLEAN : ReleaseLease(ok)
  \/ \E x \in stray, lost \in BOOLEAN : HandleStray(x, lost)
  \/ ExpireLease \/ CloseTurn \/ ForgetTask \/ Revoke

KeepersSpec == KeepersInit /\ [][KeepersNext]_keeperVars

-----------------------------------------------------------------------------
\* Once a worker has released its desktop, no call of its turn registers a
\* keeper or a generation again, and no late or stray heartbeat brings its
\* lease back: only a failed release, or a start request that arrives after
\* it, leaves a lease (create, _keep_task, release_task).
LeaseStaysReleased ==
  /\ worker \in {"posting", "done"} => registered = {} /\ cached = 0
  /\ worker = "done" /\ lease # 0 => revived

\* "The owning task explicitly releases it in its finally" (desktops.py:162):
\* every keeper is one that release_task can find.  Two calls that overlap
\* while a third one's keeper is replaced leave one that it cannot.
KeepersAreRegistered == Alive \subseteq registered
=============================================================================
