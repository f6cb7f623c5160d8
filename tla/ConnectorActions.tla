-------------------------- MODULE ConnectorActions --------------------------
(***************************************************************************)
(* Reviewed connector actions: Extensions.propose_action, decide and       *)
(* disconnect of backend/app/extension_service.py over the private fields  *)
(* of private_fields.py.  A bot proposes an action; approvals of it run    *)
(* concurrently through awaits of the provider; one claims the request,    *)
(* reserves the private fields it names, pins the account on a session of  *)
(* its own and dispatches.  The process may die anywhere, the provider's   *)
(* key may be rotated, and any awaited call may fail or be cancelled.      *)
(***************************************************************************)
EXTENDS Naturals, FiniteSets

CONSTANTS Request,    \* ids of proposed actions, all on one account
          Approver,   \* decide(..., 'approve') calls in flight
          Field,      \* private field ids
          OneTime,    \* the fields saved without "remember"
          Key,        \* provider keys
          MaxRestarts \* bound

NoRequest == "nobody"
NoKey == "none"

ASSUME ConnectorAssumption ==
  /\ OneTime \subseteq Field
  /\ MaxRestarts \in Nat
  /\ NoRequest \notin Request   \* claimed_by is NULL or the id of a request
  /\ Key # {}                   \* a provider key is configured

VARIABLES
  status,     \* chat_requests.status, "absent" before the row
  uses,       \* private_revisions: the fields the action names
  reviewed,   \* provider_hash: the key when the action was proposed
  overdue,    \* requests whose expires_at has passed
  field,      \* private_fields.state; "absent" before, "gone" after the row
  claimedBy,  \* private_fields.claimed_by
  key,        \* the key provider_key would load now
  stage, job,    \* where each approval is, and its request
  bound,      \* the key of the provider object an approval dispatches with
  sent,       \* dispatches of each request, as the provider sees them
  spent,      \* dispatches each field's value was part of
  unsettled,  \* history: requests whose approval ended without writing how
  restarts

rows   == <<status, uses, reviewed, overdue>>
fields == <<field, claimedBy>>
calls  == <<stage, job, bound>>
history == <<sent, spent, unsettled, restarts>>
actionVars   == <<rows, fields, key, calls, history>>

Dispatch == [key : Key, n : 1..2]     \* n-th dispatch, to count up to two

ActionsTypeOK ==
  /\ status \in [Request -> {"absent", "pending", "executing", "completed", "failed",
                             "uncertain", "denied", "expired"}]
  /\ uses \in [Request -> SUBSET Field]
  /\ reviewed \in [Request -> Key \cup {NoKey}]
  /\ overdue \subseteq Request
  /\ field \in [Field -> {"absent", "ready", "reserved", "quarantined", "gone"}]
  /\ claimedBy \in [Field -> Request \cup {NoRequest}]
  /\ key \in Key
  /\ stage \in [Approver -> {"idle", "accounts", "search", "reserve", "pinning",
                          "executing", "complete", "finish", "fail", "undo"}]
  /\ job \in [Approver -> Request \cup {NoRequest}]
  /\ bound \in [Approver -> Key \cup {NoKey}]
  /\ sent \in [Request -> SUBSET Dispatch]
  /\ spent \in [Field -> 0..2]
  /\ unsettled \subseteq Request
  /\ restarts \in 0..MaxRestarts

ActionsInit ==
  /\ status = [r \in Request |-> "absent"]
  /\ uses = [r \in Request |-> {}]
  /\ overdue = {}
  /\ field = [f \in Field |-> "absent"]
  /\ claimedBy = [f \in Field |-> NoRequest]
  /\ key \in Key
  /\ reviewed = [r \in Request |-> NoKey]
  /\ stage = [a \in Approver |-> "idle"]
  /\ job = [a \in Approver |-> NoRequest]
  /\ bound = [a \in Approver |-> NoKey]
  /\ sent = [r \in Request |-> {}]
  /\ spent = [f \in Field |-> 0]
  /\ unsettled = {}
  /\ restarts = 0

-----------------------------------------------------------------------------
\* Between two of these labels an approval does not yield: only a crash
\* separates its transactions.
Busy == {"reserve", "complete", "finish", "fail", "undo"}
ActionsLoopFree == \A a \in Approver : stage[a] \notin Busy

\* An approval goes on to a label, or returns and leaves nothing behind.
Moves(a, label) == stage' = [stage EXCEPT ![a] = label] /\ UNCHANGED job
Returns(a) ==
  /\ stage' = [stage EXCEPT ![a] = "idle"]
  /\ job'   = [job EXCEPT ![a] = NoRequest]
  /\ bound' = [bound EXCEPT ![a] = NoKey]
Awaits(a, label) == ActionsLoopFree /\ stage[a] = label
Set(r, s) == status' = [status EXCEPT ![r] = s]
FieldsOf(r) == {f \in Field : claimedBy[f] = r}

-----------------------------------------------------------------------------
(* Fields and proposals *)

SaveField(f) ==
  /\ ActionsLoopFree /\ field[f] = "absent"
  /\ field' = [field EXCEPT ![f] = "ready"]
  /\ UNCHANGED <<rows, claimedBy, key, calls, history>>

MayDelete(f) == field[f] \in {"ready", "quarantined"}

\* The user deletes a field, or it expires: an expired field is neither
\* listed nor claimed, and the next save removes it.
FieldGoes(f) ==
  /\ ActionsLoopFree /\ MayDelete(f)
  /\ field' = [field EXCEPT ![f] = "gone"]
  /\ claimedBy' = [claimedBy EXCEPT ![f] = NoRequest]
  /\ UNCHANGED <<rows, key, calls, history>>

\* The end of propose_action, after its await: the fields must be there now.
Propose(r, F) ==
  /\ ActionsLoopFree /\ status[r] = "absent"
  /\ \A f \in F : field[f] = "ready"
  /\ Set(r, "pending")
  /\ uses' = [uses EXCEPT ![r] = F]
  /\ reviewed' = [reviewed EXCEPT ![r] = key]
  /\ UNCHANGED <<overdue, fields, key, calls, history>>

TimePasses(r) ==
  /\ ActionsLoopFree /\ status[r] \in {"pending", "executing"} /\ r \notin overdue
  /\ overdue' = overdue \cup {r}
  /\ UNCHANGED <<status, uses, reviewed, fields, key, calls, history>>

\* get_request and requests expire what waited too long.
Expires(r) == r \in overdue /\ status[r] = "pending"

Read(r) ==
  /\ ActionsLoopFree /\ Expires(r)
  /\ Set(r, "expired")
  /\ UNCHANGED <<uses, reviewed, overdue, fields, key, calls, history>>

Deny(r) ==
  /\ ActionsLoopFree /\ status[r] = "pending" /\ ~Expires(r)
  /\ Set(r, "denied")
  /\ UNCHANGED <<uses, reviewed, overdue, fields, key, calls, history>>

\* The open requests of the account expire before the provider is told.
Disconnect ==
  /\ ActionsLoopFree /\ \E r \in Request : status[r] = "pending"
  /\ status' = [r \in Request |-> IF status[r] = "pending" THEN "expired" ELSE status[r]]
  /\ UNCHANGED <<uses, reviewed, overdue, fields, key, calls, history>>

RotateKey(k) ==
  /\ ActionsLoopFree /\ key' = k
  /\ UNCHANGED <<rows, fields, calls, history>>

-----------------------------------------------------------------------------
(* An approval *)

Approve(a, r) ==
  /\ Awaits(a, "idle") /\ status[r] = "pending" /\ ~Expires(r)
  /\ stage' = [stage EXCEPT ![a] = "accounts"]
  /\ job' = [job EXCEPT ![a] = r]
  /\ UNCHANGED <<rows, fields, key, bound, history>>

\* The account is still the reviewed one and so is the key.
AccountsRead(a) ==
  /\ Awaits(a, "accounts") /\ key = reviewed[job[a]]
  /\ Moves(a, "search")
  /\ UNCHANGED <<rows, fields, key, bound, history>>

\* Changed account, failed or cancelled preflight call: nothing was touched.
Abandons(a) ==
  /\ ActionsLoopFree /\ stage[a] \in {"accounts", "search"}
  /\ Returns(a)
  /\ UNCHANGED <<rows, fields, key, history>>

SchemaChanged(a) ==
  /\ Awaits(a, "search")
  /\ Returns(a)
  /\ IF status[job[a]] = "pending" THEN Set(job[a], "expired") ELSE UNCHANGED status
  /\ UNCHANGED <<uses, reviewed, overdue, fields, key, history>>

\* Mutant: the status read before the awaits is taken for the present one.
MayClaimStale(r) == status[r] # "absent"

MayClaim(r) == status[r] = "pending" /\ r \notin overdue

\* The reviewed schema is still the live one: claim the request, if no other
\* decision came first.
ClaimRequest(a) ==
  /\ Awaits(a, "search")
  /\ IF MayClaim(job[a])
       THEN Set(job[a], "executing") /\ Moves(a, "reserve") /\ UNCHANGED bound
       ELSE Returns(a) /\ UNCHANGED status
  /\ UNCHANGED <<uses, reviewed, overdue, fields, key, history>>

Claimable(f) == field[f] = "ready"

\* Mutant: the provider is built from whatever key is configured now.
BindsAny(r) == TRUE

Binds(r) == key = reviewed[r]

\* private.claim takes all fields or, when one is not ready or the storage
\* fails, none; the arguments are validated and the provider object is bound
\* to the reviewed key.
ReserveFields(a) ==
  LET r == job[a] IN
  /\ stage[a] = "reserve"
  /\ \/ /\ \A f \in uses[r] : Claimable(f)
        /\ field' = [f \in Field |-> IF f \in uses[r] THEN "reserved" ELSE field[f]]
        /\ claimedBy' = [f \in Field |-> IF f \in uses[r] THEN r ELSE claimedBy[f]]
        /\ \/ Binds(r) /\ bound' = [bound EXCEPT ![a] = key] /\ Moves(a, "pinning")
           \/ Moves(a, "fail") /\ UNCHANGED bound
     \/ Moves(a, "fail") /\ UNCHANGED <<fields, bound>>
  /\ UNCHANGED <<rows, key, history>>

\* The pinned session exists: the call goes out, with its effect.
Execute(a) ==
  LET r == job[a] IN
  /\ Awaits(a, "pinning")
  /\ sent' = [sent EXCEPT ![r] = @ \cup {[key |-> bound[a], n |-> IF @ = {} THEN 1 ELSE 2]}]
  /\ spent' = [f \in Field |-> IF f \in uses[r] /\ spent[f] < 2 THEN spent[f] + 1 ELSE spent[f]]
  /\ Moves(a, "executing")
  /\ UNCHANGED <<rows, fields, key, bound, unsettled, restarts>>

\* The provider confirms, or the outcome is an error, a timeout or a
\* cancellation; a call that cannot be pinned was not dispatched.
Answered(a) ==
  /\ ActionsLoopFree
  /\ \/ stage[a] = "executing" /\ \E l \in {"complete", "fail"} : Moves(a, l)
     \/ stage[a] = "pinning" /\ Moves(a, "fail")
  /\ UNCHANGED <<rows, fields, key, bound, history>>

\* Either transaction of a success may fail in storage; the handler then
\* tries to record an uncertain outcome.
Complete(a) ==
  /\ stage[a] = "complete"
  /\ \/ Set(job[a], "completed") /\ Moves(a, "finish")
     \/ Moves(a, "fail") /\ UNCHANGED status
  /\ UNCHANGED <<uses, reviewed, overdue, fields, key, bound, history>>

\* finish(consumed): a used one-time field is deleted, the others are free.
Consumed(r) ==
  /\ field' = [f \in Field |-> IF f \notin FieldsOf(r) THEN field[f]
                               ELSE IF f \in OneTime THEN "gone" ELSE "ready"]
  /\ claimedBy' = [f \in Field |-> IF f \in FieldsOf(r) THEN NoRequest ELSE claimedBy[f]]

Finish(a) ==
  /\ stage[a] = "finish"
  /\ \/ Consumed(job[a]) /\ Returns(a)
     \/ Moves(a, "fail") /\ UNCHANGED <<fields, bound>>
  /\ UNCHANGED <<rows, key, history>>

\* Mutant: an outcome nobody saw is reported as not started.
FailureStatusBlunt(r) == "failed"

\* Mutant: a status of its own for what was cancelled.
FailureStatusNew(r) == IF sent[r] # {} THEN "uncertain" ELSE "cancelled"

\* The local flag `dispatched`: this approval sent the request.
FailureStatus(r) == IF sent[r] # {} THEN "uncertain" ELSE "failed"

\* The handler writes how the approval ended.  That transaction may fail as
\* well: the error leaves decide and nothing of this request is written until
\* the next start.
Fail(a) ==
  /\ stage[a] = "fail"
  /\ \/ Set(job[a], FailureStatus(job[a])) /\ Moves(a, "undo") /\ UNCHANGED <<bound, unsettled>>
     \/ Returns(a) /\ unsettled' = unsettled \cup {job[a]} /\ UNCHANGED status
  /\ UNCHANGED <<uses, reviewed, overdue, fields, key, sent, spent, restarts>>

\* Mutant: the fields of an uncertain action are free again.
ReleasedReady(r) == "ready"

\* finish(uncertain) locks the fields, finish(consumed=False) frees them; when
\* its transaction fails they stay reserved until the next start.
Released(r) == IF sent[r] # {} THEN "quarantined" ELSE "ready"

Undo(a) ==
  LET r == job[a] IN
  /\ stage[a] = "undo"
  /\ \/ /\ field' = [f \in Field |-> IF f \in FieldsOf(r) THEN Released(r) ELSE field[f]]
        /\ claimedBy' = [f \in Field |->
                           IF f \in FieldsOf(r) /\ sent[r] = {} THEN NoRequest ELSE claimedBy[f]]
     \/ UNCHANGED fields
  /\ Returns(a)
  /\ UNCHANGED <<rows, key, history>>

-----------------------------------------------------------------------------
Recovered(f) == IF field[f] = "reserved" THEN "quarantined" ELSE field[f]

RecoveredStatus(r) == IF status[r] = "executing" THEN "uncertain" ELSE status[r]

\* The process dies anywhere; Extensions.__init__ repairs both tables.
ActionsRestart ==
  /\ restarts < MaxRestarts
  /\ restarts' = restarts + 1
  /\ status' = [r \in Request |-> RecoveredStatus(r)]
  /\ field' = [f \in Field |-> Recovered(f)]
  /\ stage' = [a \in Approver |-> "idle"]
  /\ job'   = [a \in Approver |-> NoRequest]
  /\ bound' = [a \in Approver |-> NoKey]
  /\ unsettled' = {}
  /\ UNCHANGED <<uses, reviewed, overdue, claimedBy, key, sent, spent>>

\* What an approval does by itself once it has claimed; the provider's calls
\* time out, so each of them ends.
Dispatching(a) == ReserveFields(a) \/ Execute(a) \/ Answered(a) \/ Complete(a)
                    \/ Finish(a) \/ Fail(a) \/ Undo(a)

ActionsNext ==
  \/ \E f \in Field : SaveField(f) \/ FieldGoes(f)
  \/ \E r \in Request : \/ \E F \in SUBSET Field : Propose(r, F)
                        \/ TimePasses(r) \/ Read(r) \/ Deny(r)
  \/ Disconnect \/ ActionsRestart
  \/ \E k \in Key : RotateKey(k)
  \/ \E a \in Approver : \/ \E r \in Request : Approve(a, r)
                         \/ AccountsRead(a) \/ Abandons(a) \/ SchemaChanged(a)
                         \/ ClaimRequest(a) \/ Dispatching(a)

ActionsSpec == ActionsInit /\ [][ActionsNext]_actionVars

-----------------------------------------------------------------------------
\* One approval dispatches a request at most once, whatever approvals,
\* denials, expiries and restarts race with it: the request is claimed first
\* and closed afterwards.
ActionOnce == INSTANCE OnceOnly WITH
  Job     <- Request,
  phase   <- [r \in Request |-> CASE status[r] \in {"absent", "pending"} -> "open"
                                  [] status[r] = "executing" -> "claimed"
                                  [] OTHER -> "closed"],
  effects <- [r \in Request |-> Cardinality(sent[r])]
ActionsImplementOnce == ActionOnce!OnceSpec

\* A request says it was completed only when it was dispatched, and says it
\* failed, was denied or expired only when it never was: "uncertain" is the
\* word for everything that may have happened.  And it says it is executing
\* only while the approval that claimed it is on its way to settle it, or when
\* the storage refused to write how that approval ended; the next start then
\* tells it.
StatusIsHonest ==
  \A r \in Request :
    /\ IF sent[r] = {} THEN status[r] # "completed"
                       ELSE status[r] \in {"executing", "completed", "uncertain"}
    /\ status[r] = "executing" =>
         \/ r \in unsettled
         \/ \E a \in Approver : job[a] = r /\ stage[a] \notin {"idle", "accounts", "search"}

\* "A key-file reload cannot silently switch provider accounts between
\* preflight and execution": every dispatch uses the key that was reviewed.
DispatchedAsReviewed == \A r \in Request : \A d \in sent[r] : d.key = reviewed[r]

\* The value of a one-time field leaves the vault at most once, and a value
\* that was part of an action that is not known to have completed is not used
\* again, whatever fails while the approval settles it: its fields are
\* reserved, locked or deleted, never ready for another action.
FieldsAreSafe ==
  /\ \A f \in OneTime : spent[f] <= 1
  /\ \A r \in Request : sent[r] # {} /\ status[r] # "completed" =>
       \A f \in uses[r] : field[f] \in {"reserved", "quarantined", "gone"}
=============================================================================
