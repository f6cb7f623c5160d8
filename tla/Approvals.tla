----------------------------- MODULE Approvals ------------------------------
(***************************************************************************)
(* The approvals the app-server asks for while a turn runs: the requests   *)
(* codex_runtime.py holds, the rows the task worker and the list route     *)
(* write, and the decisions users post.  Each task of this module has a    *)
(* thread of its own; turns that share a thread are in RuntimeTurns.       *)
(* A decision waits for the write lock and again for the pipe to drain;    *)
(* the turn may end, the app-server die or another decision arrive there.  *)
(***************************************************************************)
EXTENDS Naturals, FiniteSets

CONSTANTS Job,      \* tasks, each of which runs one turn
          ApprovalId,      \* approval ids
          Decider,  \* requests that post decisions, at most one each at a time
          MaxApps   \* bound: processes of the app-server

Verdict == {"accept", "decline"}   \* "cancel" is treated as they are
Nothing == "nothing"

ASSUME ApprovalsAssumption == MaxApps \in Nat /\ Nothing \notin Job

VARIABLES
  app,     \* the app-server's process: its number, and is it alive
  run,     \* run_turn of each task, and the process it started under
  ask,     \* who asked for an approval: the task and the process
  held,    \* runtime.approvals
  queued,  \* approval events the worker has not read
  stored,  \* approvals.status
  post,    \* decide_approval: where it is, its approval, its decision
  answers  \* decisions written to the app-server for an approval

approvalVars == <<app, run, ask, held, queued, stored, post, answers>>

NoPost == [pc |-> "idle", ask |-> Nothing, verdict |-> Nothing]
Active(t) == run[t].pc \in {"stream", "closing"}
AsksOf(t) == {a \in ApprovalId : ask[a].job = t}

ApprovalsTypeOK ==
  /\ app \in [number : 0..MaxApps, alive : BOOLEAN]
  /\ run \in [Job -> [pc : {"idle", "stream", "closing", "over"}, app : 0..MaxApps]]
  /\ ask \in [ApprovalId -> [job : Job \cup {Nothing}, app : 0..MaxApps]]
  /\ held \subseteq ApprovalId /\ queued \subseteq ApprovalId
  /\ stored \in [ApprovalId -> Verdict \cup {"none", "pending"}]
  /\ post \in [Decider -> [pc : {"idle", "lock", "drain"}, ask : ApprovalId \cup {Nothing},
                           verdict : Verdict \cup {Nothing}]]
  /\ answers \in [ApprovalId -> SUBSET Verdict]

ApprovalsInit ==
  /\ app = [number |-> 0, alive |-> FALSE]
  /\ run = [t \in Job |-> [pc |-> "idle", app |-> 0]]
  /\ ask = [a \in ApprovalId |-> [job |-> Nothing, app |-> 0]]
  /\ held = {} /\ queued = {} /\ stored = [a \in ApprovalId |-> "none"]
  /\ post = [d \in Decider |-> NoPost] /\ answers = [a \in ApprovalId |-> {}]

-----------------------------------------------------------------------------
(* Turns *)

\* start() starts the app-server again when it has died.
BeginTurn(t) ==
  /\ run[t].pc = "idle" /\ (app.alive \/ app.number < MaxApps)
  /\ app' = IF app.alive THEN app ELSE [number |-> app.number + 1, alive |-> TRUE]
  /\ run' = [run EXCEPT ![t] = [pc |-> "stream", app |-> app'.number]]
  /\ UNCHANGED <<ask, held, queued, stored, post, answers>>

\* A request for approval reaches the reader; it is refused without a turn.
AskApproval(t, a) ==
  /\ ask[a].job = Nothing
  /\ run[t].pc # "idle" /\ app.alive /\ run[t].app = app.number
  /\ ask' = [ask EXCEPT ![a] = [job |-> t, app |-> app.number]]
  /\ held' = IF Active(t) THEN held \cup {a} ELSE held
  /\ queued' = IF Active(t) THEN queued \cup {a} ELSE queued
  /\ UNCHANGED <<app, run, stored, post, answers>>

\* The worker takes an approval event and upserts a pending row.
ReadApproval(a) ==
  /\ a \in queued /\ run[ask[a].job].pc = "stream"
  /\ queued' = queued \ {a}
  /\ stored' = [stored EXCEPT ![a] = "pending"]
  /\ UNCHANGED <<app, run, ask, held, post, answers>>

\* Mutant: the approvals are dropped before the finally block's awaits.
DroppedEarly(t, pc) == IF pc = "closing" THEN AsksOf(t) ELSE {}

\* The approvals of a turn are dropped with its entry in self.active.
Dropped(t, pc) == IF pc = "over" THEN AsksOf(t) ELSE {}

\* The turn completes, fails or is cancelled, or the app-server has died: the
\* finally block first interrupts the turn and waits for its tools.
LeaveStream(t) ==
  /\ run[t].pc = "stream"
  /\ run' = [run EXCEPT ![t].pc = "closing"]
  /\ held' = held \ Dropped(t, "closing")
  /\ UNCHANGED <<app, ask, queued, stored, post, answers>>

EndTurn(t) ==
  /\ run[t].pc = "closing"
  /\ run' = [run EXCEPT ![t].pc = "over"]
  /\ held' = held \ Dropped(t, "over")
  /\ queued' = queued \ AsksOf(t)
  /\ UNCHANGED <<app, ask, stored, post, answers>>

-----------------------------------------------------------------------------
(* The routes *)

\* GET lists what the runtime holds and upserts each as a pending row.
ListApprovals(t) ==
  /\ \E a \in AsksOf(t) \cap held : stored[a] # "pending"
  /\ stored' = [a \in ApprovalId |-> IF a \in AsksOf(t) \cap held THEN "pending" ELSE stored[a]]
  /\ UNCHANGED <<app, run, ask, held, queued, post, answers>>

\* POST looks the approval up, then waits for the write lock.
DecideApproval(d, a, v) ==
  /\ post[d].pc = "idle" /\ stored[a] # "none" /\ a \in held
  /\ post' = [post EXCEPT ![d] = [pc |-> "lock", ask |-> a, verdict |-> v]]
  /\ UNCHANGED <<app, run, ask, held, queued, stored, answers>>

\* The answer is written to the process that lives now.
WriteDecision(d) ==
  /\ post[d].pc = "lock" /\ app.alive /\ \A e \in Decider : post[e].pc # "drain"
  /\ answers' = [answers EXCEPT ![post[d].ask] = @ \cup {post[d].verdict}]
  /\ post' = [post EXCEPT ![d].pc = "drain"]
  /\ UNCHANGED <<app, run, ask, held, queued, stored>>

\* The pipe has drained: the approval is popped and its row updated.
RecordDecision(d) ==
  /\ post[d].pc = "drain"
  /\ held' = held \ {post[d].ask}
  /\ stored' = [stored EXCEPT ![post[d].ask] = post[d].verdict]
  /\ post' = [post EXCEPT ![d] = NoPost]
  /\ UNCHANGED <<app, run, ask, queued, answers>>

\* RuntimeUnavailable, or the drain fails: 503, and the approval is kept.
FailDecision(d) ==
  /\ post[d].pc \in {"lock", "drain"} /\ ~app.alive
  /\ post' = [post EXCEPT ![d] = NoPost]
  /\ UNCHANGED <<app, run, ask, held, queued, stored, answers>>

-----------------------------------------------------------------------------
(* Failures *)

AppDies ==
  /\ app.alive /\ app' = [app EXCEPT !.alive = FALSE]
  /\ UNCHANGED <<run, ask, held, queued, stored, post, answers>>

\* The backend dies with its app-server: only the rows remain.
BackendDies ==
  /\ app' = [app EXCEPT !.alive = FALSE]
  /\ run' = [t \in Job |-> IF run[t].pc = "idle" THEN run[t] ELSE [run[t] EXCEPT !.pc = "over"]]
  /\ held' = {} /\ queued' = {} /\ post' = [d \in Decider |-> NoPost]
  /\ UNCHANGED <<ask, stored, answers>>

ApprovalsNext ==
  \/ \E t \in Job : BeginTurn(t) \/ LeaveStream(t) \/ EndTurn(t) \/ ListApprovals(t)
  \/ \E t \in Job, a \in ApprovalId : AskApproval(t, a)
  \/ \E a \in ApprovalId : ReadApproval(a)
  \/ \E d \in Decider, a \in ApprovalId, v \in Verdict : DecideApproval(d, a, v)
  \/ \E d \in Decider : WriteDecision(d) \/ RecordDecision(d) \/ FailDecision(d)
  \/ AppDies \/ BackendDies

ApprovalsSpec == ApprovalsInit /\ [][ApprovalsNext]_approvalVars

-----------------------------------------------------------------------------
(* Properties *)

\* A decision on record was sent, whatever failed on the way; an approval that
\* can be decided belongs to a turn that is not over, however late it was
\* asked for; and while the turn streams its user gets to see it.
ApprovalsFollowTurns ==
  /\ \A a \in ApprovalId : stored[a] \in Verdict => stored[a] \in answers[a]
  /\ \A a \in held :
       /\ Active(ask[a].job)
       /\ run[ask[a].job].pc = "stream" => a \in queued \/ stored[a] # "none"

\* Not so: a decided approval may turn pending again (the worker reads its event
\* after a list and a decision), and two decisions may both be sent.
DecidedStaysDecided ==
  [][\A a \in ApprovalId : stored[a] \in Verdict => stored'[a] = stored[a]]_stored
=============================================================================
