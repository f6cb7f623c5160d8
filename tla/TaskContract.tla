---------------------------- MODULE TaskContract ----------------------------
(***************************************************************************)
(* What the task table promises to everything that reads it: the chat      *)
(* history, the task list, the event stream and the coordinator that       *)
(* waits for a colleague.  A task is created queued, runs, and ends once.  *)
(* A user cancellation stops a whole request at one instant, and a         *)
(* restart ends everything that was still in flight at one instant.        *)
(* TaskLifecycle is shown to implement this.                               *)
(***************************************************************************)
EXTENDS FiniteSets, Naturals

CONSTANTS Task,         \* task identifiers
          Request,      \* identifiers of user requests
          NoTask,       \* parent of a task that no task delegated
          NoRequest,    \* request of a task that was never created
          MaxChildren   \* children one task may delegate

VARIABLES status,       \* status[t]: column tasks.status, or "absent"
          parent,       \* parent[t]: column tasks.parent_task_id
          request       \* request[t]: column tasks.request_id

contractVars == <<status, parent, request>>

Active   == {"queued", "running"}
Terminal == {"completed", "failed", "cancelled"}
Status   == {"absent"} \cup Active \cup Terminal

ContractTypeOK ==
  /\ status  \in [Task -> Status]
  /\ parent  \in [Task -> Task \cup {NoTask}]
  /\ request \in [Task -> Request \cup {NoRequest}]

ContractInit ==
  /\ status  = [t \in Task |-> "absent"]
  /\ parent  = [t \in Task |-> NoTask]
  /\ request = [t \in Task |-> NoRequest]

ChildCount(p) == Cardinality({t \in Task : parent[t] = p})

Fresh(T) == \A t \in T : status[t] = "absent"

\* A user message asks one or several bots at once under a new request.
Ask(r, T) ==
  /\ T # {} /\ Fresh(T)
  /\ \A t \in Task : request[t] # r
  /\ status'  = [t \in Task |-> IF t \in T THEN "queued" ELSE status[t]]
  /\ request' = [t \in Task |-> IF t \in T THEN r ELSE request[t]]
  /\ UNCHANGED parent

\* An active top-level task hands work to a colleague under its own request.
Help(p, t) ==
  /\ status[p] \in Active /\ parent[p] = NoTask
  /\ status[t] = "absent"
  /\ ChildCount(p) < MaxChildren
  /\ status'  = [status  EXCEPT ![t] = "queued"]
  /\ parent'  = [parent  EXCEPT ![t] = p]
  /\ request' = [request EXCEPT ![t] = request[p]]

Run(t) ==
  /\ status[t] = "queued"
  /\ status' = [status EXCEPT ![t] = "running"]
  /\ UNCHANGED <<parent, request>>

\* Only a task that is running ends by itself, and it ends once.
End(t) ==
  /\ status[t] = "running"
  /\ \E s \in Terminal : status' = [status EXCEPT ![t] = s]
  /\ UNCHANGED <<parent, request>>

\* No task of a cancelled request stays active past the cancellation.
Stop(r) ==
  /\ status' = [t \in Task |-> IF request[t] = r /\ status[t] \in Active
                                 THEN "cancelled" ELSE status[t]]
  /\ UNCHANGED <<parent, request>>

Recover ==
  /\ status' = [t \in Task |-> IF status[t] \in Active THEN "failed" ELSE status[t]]
  /\ UNCHANGED <<parent, request>>

ContractNext ==
  \/ \E r \in Request, T \in SUBSET Task : Ask(r, T)
  \/ \E p, t \in Task : Help(p, t)
  \/ \E t \in Task : Run(t) \/ End(t)
  \/ \E r \in Request : Stop(r)
  \/ Recover

ContractSpec == ContractInit /\ [][ContractNext]_contractVars
=============================================================================
