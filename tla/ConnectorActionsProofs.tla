----------------------- MODULE ConnectorActionsProofs -----------------------
(***************************************************************************)
(* Theorems about ConnectorActions for every number of requests, of        *)
(* approvals racing for them, of private fields and of provider keys.  The *)
(* inductive invariant ActionsInv ties the stage of an approval to the     *)
(* rows it owns; each part has a lemma that says a step preserves it.      *)
(***************************************************************************)
EXTENDS ConnectorActions, TLAPS, FiniteSetTheorems

\* The approval has claimed its request and has not settled it yet.
Owner(a) == stage[a] \notin {"idle", "accounts", "search"}

\* Where the dispatch may have happened, and where fields are surely held.
Open   == {"absent", "pending"}
Held   == {"pinning", "executing", "complete", "finish"}

\* A decision in flight has a request, and one request has one owner.
OwnersApart ==
  /\ \A a \in Approver : stage[a] # "idle" => job[a] \in Request
  /\ \A a, b \in Approver : Owner(a) /\ Owner(b) /\ job[a] = job[b] => a = b

\* What the owner's stage says of the request's row and of the dispatch.
InPlace(a) ==
  /\ stage[a] \in {"reserve", "pinning", "executing", "complete"} => status[job[a]] = "executing"
  /\ stage[a] = "finish" => status[job[a]] = "completed"
  /\ stage[a] = "fail" => status[job[a]] \in {"executing", "completed"}
  /\ stage[a] = "undo" => status[job[a]] = FailureStatus(job[a])
  /\ stage[a] \in {"reserve", "pinning"} => sent[job[a]] = {}
  /\ stage[a] \in {"executing", "complete", "finish"} => sent[job[a]] # {}
  /\ stage[a] = "pinning" => bound[a] \in Key /\ bound[a] = reviewed[job[a]]

OwnersPlace == \A a \in Approver : InPlace(a)

\* A dispatch is the first, and made with the reviewed key.
SentOnce == \A r \in Request : \A d \in sent[r] : d = [key |-> reviewed[r], n |-> 1]

\* Only a request that was claimed was sent, and what was not sent was not
\* completed; an executing request has its owner, or its end was not written.
StatusTold ==
  \A r \in Request :
    /\ sent[r] = {} => status[r] # "completed"
    /\ sent[r] # {} => status[r] \in {"executing", "completed", "uncertain"}
    /\ status[r] = "executing" => r \in unsettled \/ \E a \in Approver : job[a] = r /\ Owner(a)

\* A field has a claimant exactly while it is reserved or locked, and the
\* claimant's request was claimed before.  Its owner holds it reserved.
FieldsClaimed ==
  /\ \A f \in Field : claimedBy[f] # NoRequest =>
       field[f] \in {"reserved", "quarantined"} /\ status[claimedBy[f]] \notin Open
  /\ \A f \in Field, a \in Approver : Owner(a) /\ claimedBy[f] = job[a] =>
       field[f] = "reserved" /\ stage[a] # "reserve"

\* Every field of a dispatch is held until the dispatch is settled.
FieldsHeld ==
  \A a \in Approver :
    stage[a] \in Held \/ (Owner(a) /\ sent[job[a]] # {}) =>
      \A f \in uses[job[a]] : field[f] = "reserved" /\ claimedBy[f] = job[a]

\* A one-time value that was sent is on its way, locked or deleted.
FieldsSpent ==
  \A f \in OneTime :
    /\ spent[f] <= 1
    /\ spent[f] = 1 => \/ field[f] \in {"quarantined", "gone"}
                       \/ field[f] = "reserved" /\ claimedBy[f] # NoRequest
                          /\ sent[claimedBy[f]] # {}

\* The fields of a dispatched action that is not known to have completed stay
\* its own, reserved or locked.
FieldsLocked ==
  \A r \in Request : sent[r] # {} /\ status[r] # "completed" =>
    \A f \in uses[r] : \/ field[f] = "gone"
                       \/ field[f] \in {"reserved", "quarantined"} /\ claimedBy[f] = r

ActionsInv ==
  /\ ActionsTypeOK /\ OwnersApart /\ OwnersPlace /\ SentOnce /\ StatusTold
  /\ FieldsClaimed /\ FieldsHeld /\ FieldsSpent /\ FieldsLocked

-----------------------------------------------------------------------------
(* Steps *)

\* A saved field is nobody's.
LEMMA SaveFieldKeeps ==
  ASSUME ActionsInv, NEW f \in Field, SaveField(f)
  PROVE  ActionsInv'
<1> USE ConnectorAssumption DEF ActionsInv, Owner, InPlace, rows, fields, calls, history, SaveField
<1>1. ActionsTypeOK'
  BY DEF ActionsTypeOK, Dispatch
<1>2. FieldsClaimed'
  BY DEF ActionsTypeOK, OwnersApart, OwnersPlace, FieldsClaimed, Open
<1>3. FieldsHeld'
  BY DEF ActionsTypeOK, OwnersApart, OwnersPlace, FieldsHeld, Held
<1>4. FieldsSpent'
  BY DEF ActionsTypeOK, OwnersApart, OwnersPlace, FieldsSpent
<1>5. FieldsLocked'
  BY DEF ActionsTypeOK, OwnersApart, OwnersPlace, FieldsLocked
<1>6. OwnersApart' /\ OwnersPlace' /\ SentOnce' /\ StatusTold'
  BY DEF OwnersApart, OwnersPlace, SentOnce, StatusTold, FailureStatus
<1> QED
  BY <1>1, <1>2, <1>3, <1>4, <1>5, <1>6

\* Only a field that no owner holds can be deleted.
LEMMA FieldGoesKeeps ==
  ASSUME ActionsInv, NEW f \in Field, FieldGoes(f)
  PROVE  ActionsInv'
<1> USE ConnectorAssumption DEF ActionsInv, Owner, InPlace, rows, fields, calls, history, FieldGoes,
         MayDelete
<1>1. ActionsTypeOK'
  BY DEF ActionsTypeOK, Dispatch
<1>2. FieldsClaimed'
  BY DEF ActionsTypeOK, OwnersApart, OwnersPlace, FieldsClaimed, Open
<1>3. FieldsHeld'
  BY DEF ActionsTypeOK, OwnersApart, OwnersPlace, FieldsHeld, Held
<1>4. FieldsSpent'
  BY DEF ActionsTypeOK, OwnersApart, OwnersPlace, FieldsSpent
<1>5. FieldsLocked'
  BY DEF ActionsTypeOK, OwnersApart, OwnersPlace, FieldsLocked
<1>6. OwnersApart' /\ OwnersPlace' /\ SentOnce' /\ StatusTold'
  BY DEF OwnersApart, OwnersPlace, SentOnce, StatusTold, FailureStatus
<1> QED
  BY <1>1, <1>2, <1>3, <1>4, <1>5, <1>6

\* A proposal writes the row of a request that nobody has claimed or sent.
LEMMA ProposeKeeps ==
  ASSUME ActionsInv, NEW r \in Request, NEW F \in SUBSET Field, Propose(r, F)
  PROVE  ActionsInv'
<1> USE ConnectorAssumption DEF ActionsInv, Owner, InPlace, rows, fields, calls, history, Propose, Set
<1>1. ActionsTypeOK'
  BY DEF ActionsTypeOK, Dispatch
<1>2. OwnersPlace'
  BY DEF ActionsTypeOK, OwnersApart, OwnersPlace, FailureStatus
<1>3. SentOnce'
  BY DEF ActionsTypeOK, StatusTold, SentOnce
<1>4. StatusTold'
  BY DEF ActionsTypeOK, OwnersApart, OwnersPlace, StatusTold
<1>5. FieldsClaimed'
  BY DEF ActionsTypeOK, OwnersApart, OwnersPlace, FieldsClaimed, Open
<1>6. FieldsHeld'
  BY SMTT(30) DEF ActionsTypeOK, OwnersPlace, FieldsHeld, Held, FailureStatus, StatusTold
<1>7. FieldsLocked'
  BY DEF ActionsTypeOK, OwnersApart, OwnersPlace, StatusTold, FieldsLocked
<1>8. OwnersApart' /\ FieldsSpent'
  BY DEF OwnersApart, FieldsSpent
<1> QED
  BY <1>1, <1>2, <1>3, <1>4, <1>5, <1>6, <1>7, <1>8

\* Deadlines are compared with the clock only when a request is claimed or read.
LEMMA TimePassesKeeps ==
  ASSUME ActionsInv, NEW r \in Request, TimePasses(r)
  PROVE  ActionsInv'
<1> USE ConnectorAssumption DEF ActionsInv, Owner, InPlace, rows, fields, calls, history, TimePasses
<1>1. ActionsTypeOK'
  BY DEF ActionsTypeOK, Dispatch
<1>2. /\ OwnersApart' /\ OwnersPlace' /\ SentOnce' /\ StatusTold'
      /\ FieldsClaimed' /\ FieldsHeld' /\ FieldsSpent' /\ FieldsLocked'
  BY DEF OwnersApart, OwnersPlace, SentOnce, StatusTold, FieldsClaimed, FieldsHeld,
         FieldsSpent, FieldsLocked, FailureStatus
<1> QED
  BY <1>1, <1>2

\* A pending request that expires has no owner.
LEMMA ReadKeeps ==
  ASSUME ActionsInv, NEW r \in Request, Read(r)
  PROVE  ActionsInv'
<1> USE ConnectorAssumption DEF ActionsInv, Owner, InPlace, rows, fields, calls, history, Read, Set, Expires
<1>1. ActionsTypeOK'
  BY DEF ActionsTypeOK, Dispatch
<1>2. OwnersPlace'
  BY DEF ActionsTypeOK, OwnersApart, OwnersPlace, FailureStatus
<1>3. StatusTold'
  BY DEF ActionsTypeOK, OwnersApart, OwnersPlace, StatusTold
<1>4. FieldsClaimed'
  BY DEF ActionsTypeOK, OwnersApart, OwnersPlace, FieldsClaimed, Open
<1>5. FieldsLocked'
  BY DEF ActionsTypeOK, OwnersApart, OwnersPlace, FieldsLocked
<1>6. OwnersApart' /\ SentOnce' /\ FieldsHeld' /\ FieldsSpent'
  BY DEF OwnersApart, SentOnce, FieldsHeld, FieldsSpent
<1> QED
  BY <1>1, <1>2, <1>3, <1>4, <1>5, <1>6

\* A pending request that is denied has no owner.
LEMMA DenyKeeps ==
  ASSUME ActionsInv, NEW r \in Request, Deny(r)
  PROVE  ActionsInv'
<1> USE ConnectorAssumption DEF ActionsInv, Owner, InPlace, rows, fields, calls, history, Deny, Set, Expires
<1>1. ActionsTypeOK'
  BY DEF ActionsTypeOK, Dispatch
<1>2. OwnersPlace'
  BY DEF ActionsTypeOK, OwnersApart, OwnersPlace, FailureStatus
<1>3. StatusTold'
  BY DEF ActionsTypeOK, OwnersApart, OwnersPlace, StatusTold
<1>4. FieldsClaimed'
  BY DEF ActionsTypeOK, OwnersApart, OwnersPlace, FieldsClaimed, Open
<1>5. FieldsLocked'
  BY DEF ActionsTypeOK, OwnersApart, OwnersPlace, FieldsLocked
<1>6. OwnersApart' /\ SentOnce' /\ FieldsHeld' /\ FieldsSpent'
  BY DEF OwnersApart, SentOnce, FieldsHeld, FieldsSpent
<1> QED
  BY <1>1, <1>2, <1>3, <1>4, <1>5, <1>6

\* Disconnecting closes pending requests, which have no owner.
LEMMA DisconnectKeeps ==
  ASSUME ActionsInv, Disconnect
  PROVE  ActionsInv'
<1> USE ConnectorAssumption DEF ActionsInv, Owner, InPlace, rows, fields, calls, history, Disconnect
<1>1. ActionsTypeOK'
  BY DEF ActionsTypeOK, Dispatch
<1>2. OwnersPlace'
  BY DEF ActionsTypeOK, OwnersApart, OwnersPlace, FailureStatus
<1>3. StatusTold'
  BY DEF ActionsTypeOK, OwnersApart, OwnersPlace, StatusTold
<1>4. FieldsClaimed'
  BY DEF ActionsTypeOK, OwnersApart, OwnersPlace, FieldsClaimed, Open
<1>5. FieldsLocked'
  BY DEF ActionsTypeOK, OwnersApart, OwnersPlace, FieldsLocked
<1>6. OwnersApart' /\ SentOnce' /\ FieldsHeld' /\ FieldsSpent'
  BY DEF OwnersApart, SentOnce, FieldsHeld, FieldsSpent
<1> QED
  BY <1>1, <1>2, <1>3, <1>4, <1>5, <1>6

\* After a crash every claim is uncertain and every field it held is locked.
LEMMA ActionsRestartKeeps ==
  ASSUME ActionsInv, ActionsRestart
  PROVE  ActionsInv'
<1> USE ConnectorAssumption DEF ActionsInv, Owner, InPlace, rows, fields, calls, history,
         ActionsRestart, RecoveredStatus, Recovered
<1>1. ActionsTypeOK'
  BY DEF ActionsTypeOK, Dispatch
<1>2. OwnersApart'
  BY DEF ActionsTypeOK, OwnersApart
<1>3. OwnersPlace'
  BY DEF ActionsTypeOK, OwnersApart, OwnersPlace, FailureStatus
<1>4. StatusTold'
  BY DEF ActionsTypeOK, OwnersApart, OwnersPlace, StatusTold
<1>5. FieldsClaimed'
  BY DEF ActionsTypeOK, OwnersApart, OwnersPlace, FieldsClaimed, Open
<1>6. FieldsHeld'
  BY DEF ActionsTypeOK, OwnersApart, OwnersPlace, FieldsHeld, Held
<1>7. FieldsSpent'
  BY DEF ActionsTypeOK, OwnersApart, OwnersPlace, FieldsSpent
<1>8. FieldsLocked'
  BY DEF ActionsTypeOK, FieldsLocked
<1>9. SentOnce'
  BY DEF SentOnce
<1> QED
  BY <1>1, <1>2, <1>3, <1>4, <1>5, <1>6, <1>7, <1>8, <1>9

\* What an approval dispatches with was bound before.
LEMMA RotateKeyKeeps ==
  ASSUME ActionsInv, NEW k \in Key, RotateKey(k)
  PROVE  ActionsInv'
<1> USE ConnectorAssumption DEF ActionsInv, Owner, InPlace, rows, fields, calls, history, RotateKey
<1>1. ActionsTypeOK'
  BY DEF ActionsTypeOK, Dispatch
<1>2. /\ OwnersApart' /\ OwnersPlace' /\ SentOnce' /\ StatusTold'
      /\ FieldsClaimed' /\ FieldsHeld' /\ FieldsSpent' /\ FieldsLocked'
  BY DEF OwnersApart, OwnersPlace, SentOnce, StatusTold, FieldsClaimed, FieldsHeld,
         FieldsSpent, FieldsLocked, FailureStatus
<1> QED
  BY <1>1, <1>2

\* An approval starts without owning anything.
LEMMA ApproveKeeps ==
  ASSUME ActionsInv, NEW a \in Approver, NEW r \in Request, Approve(a, r)
  PROVE  ActionsInv'
<1> USE ConnectorAssumption DEF ActionsInv, Owner, InPlace, rows, fields, calls, history, Approve, Awaits
<1>1. ActionsTypeOK'
  BY DEF ActionsTypeOK, Dispatch
<1>2. OwnersApart'
  BY DEF ActionsTypeOK, OwnersApart
<1>3. OwnersPlace'
  BY DEF ActionsTypeOK, OwnersApart, OwnersPlace, FailureStatus
<1>4. StatusTold'
  BY DEF ActionsTypeOK, OwnersApart, OwnersPlace, StatusTold
<1>5. FieldsClaimed'
  BY DEF ActionsTypeOK, OwnersApart, OwnersPlace, FieldsClaimed, Open
<1>6. FieldsHeld'
  BY DEF ActionsTypeOK, OwnersApart, OwnersPlace, FieldsHeld, Held
<1>7. FieldsLocked'
  BY DEF ActionsTypeOK, OwnersApart, OwnersPlace, FieldsLocked
<1>8. SentOnce' /\ FieldsSpent'
  BY DEF SentOnce, FieldsSpent
<1> QED
  BY <1>1, <1>2, <1>3, <1>4, <1>5, <1>6, <1>7, <1>8

\* Reading the accounts claims nothing.
LEMMA AccountsReadKeeps ==
  ASSUME ActionsInv, NEW a \in Approver, AccountsRead(a)
  PROVE  ActionsInv'
<1> USE ConnectorAssumption DEF ActionsInv, Owner, InPlace, rows, fields, calls, history, AccountsRead,
         Awaits, Moves
<1>1. ActionsTypeOK'
  BY DEF ActionsTypeOK, Dispatch
<1>2. OwnersApart'
  BY DEF ActionsTypeOK, OwnersApart
<1>3. OwnersPlace'
  BY DEF ActionsTypeOK, OwnersApart, OwnersPlace, FailureStatus
<1>4. StatusTold'
  BY DEF ActionsTypeOK, OwnersApart, OwnersPlace, StatusTold
<1>5. FieldsClaimed'
  BY DEF ActionsTypeOK, OwnersApart, OwnersPlace, FieldsClaimed, Open
<1>6. FieldsHeld'
  BY DEF ActionsTypeOK, OwnersApart, OwnersPlace, FieldsHeld, Held
<1>7. FieldsLocked'
  BY DEF ActionsTypeOK, OwnersApart, OwnersPlace, FieldsLocked
<1>8. SentOnce' /\ FieldsSpent'
  BY DEF SentOnce, FieldsSpent
<1> QED
  BY <1>1, <1>2, <1>3, <1>4, <1>5, <1>6, <1>7, <1>8

\* An approval that gives up before its claim leaves nothing behind.
LEMMA AbandonsKeeps ==
  ASSUME ActionsInv, NEW a \in Approver, Abandons(a)
  PROVE  ActionsInv'
<1> USE ConnectorAssumption DEF ActionsInv, Owner, InPlace, rows, fields, calls, history, Abandons, Returns
<1>1. ActionsTypeOK'
  BY DEF ActionsTypeOK, Dispatch
<1>2. OwnersApart'
  BY DEF ActionsTypeOK, OwnersApart
<1>3. OwnersPlace'
  BY DEF ActionsTypeOK, OwnersApart, OwnersPlace, FailureStatus
<1>4. StatusTold'
  BY DEF ActionsTypeOK, OwnersApart, OwnersPlace, StatusTold
<1>5. FieldsClaimed'
  BY DEF ActionsTypeOK, OwnersApart, OwnersPlace, FieldsClaimed, Open
<1>6. FieldsHeld'
  BY DEF ActionsTypeOK, OwnersApart, OwnersPlace, FieldsHeld, Held
<1>7. FieldsLocked'
  BY DEF ActionsTypeOK, OwnersApart, OwnersPlace, FieldsLocked
<1>8. SentOnce' /\ FieldsSpent'
  BY DEF SentOnce, FieldsSpent
<1> QED
  BY <1>1, <1>2, <1>3, <1>4, <1>5, <1>6, <1>7, <1>8

\* A changed schema expires the request only while it is still pending.
LEMMA SchemaChangedKeeps ==
  ASSUME ActionsInv, NEW a \in Approver, SchemaChanged(a)
  PROVE  ActionsInv'
<1> USE ConnectorAssumption DEF ActionsInv, Owner, InPlace, rows, fields, calls, history, SchemaChanged,
         Awaits, Returns, Set
<1>1. ActionsTypeOK'
  BY DEF ActionsTypeOK, Dispatch
<1>2. OwnersApart'
  BY DEF ActionsTypeOK, OwnersApart
<1>3. OwnersPlace'
  BY DEF ActionsTypeOK, OwnersApart, OwnersPlace, FailureStatus
<1>4. StatusTold'
  BY DEF ActionsTypeOK, OwnersApart, OwnersPlace, StatusTold
<1>5. FieldsClaimed'
  BY DEF ActionsTypeOK, OwnersApart, OwnersPlace, FieldsClaimed, Open
<1>6. FieldsHeld'
  BY DEF ActionsTypeOK, OwnersApart, OwnersPlace, FieldsHeld, Held
<1>7. FieldsLocked'
  BY DEF ActionsTypeOK, OwnersApart, OwnersPlace, FieldsLocked
<1>8. SentOnce' /\ FieldsSpent'
  BY DEF SentOnce, FieldsSpent
<1> QED
  BY <1>1, <1>2, <1>3, <1>4, <1>5, <1>6, <1>7, <1>8

\* Of the approvals of a request only the first finds it pending: it becomes its owner.
LEMMA ClaimRequestKeeps ==
  ASSUME ActionsInv, NEW a \in Approver, ClaimRequest(a)
  PROVE  ActionsInv'
<1> USE ConnectorAssumption DEF ActionsInv, Owner, InPlace, rows, fields, calls, history, ClaimRequest,
         Awaits, MayClaim, Set, Moves, Returns
<1>1. ActionsTypeOK'
  BY DEF ActionsTypeOK, Dispatch
<1>2. OwnersApart'
  BY DEF ActionsTypeOK, OwnersApart, OwnersPlace, FailureStatus, StatusTold
<1>3. OwnersPlace'
  BY SMTT(30) DEF ActionsTypeOK, OwnersApart, OwnersPlace, StatusTold, FailureStatus
<1>4. StatusTold'
  BY DEF ActionsTypeOK, OwnersApart, OwnersPlace, StatusTold
<1>5. FieldsClaimed'
  BY DEF ActionsTypeOK, OwnersApart, OwnersPlace, FieldsClaimed, Open, FailureStatus
<1>6. FieldsHeld'
  BY DEF ActionsTypeOK, OwnersApart, OwnersPlace, StatusTold, FieldsHeld, Held, FailureStatus
<1>7. FieldsLocked'
  BY DEF ActionsTypeOK, OwnersApart, OwnersPlace, FieldsLocked
<1>8. SentOnce' /\ FieldsSpent'
  BY DEF SentOnce, FieldsSpent
<1> QED
  BY <1>1, <1>2, <1>3, <1>4, <1>5, <1>6, <1>7, <1>8

\* The owner reserves all fields of its request, or none, and binds the reviewed key.
LEMMA ReserveFieldsKeeps ==
  ASSUME ActionsInv, NEW a \in Approver, ReserveFields(a)
  PROVE  ActionsInv'
<1> USE ConnectorAssumption DEF ActionsInv, Owner, InPlace, rows, fields, calls, history, ReserveFields,
         Claimable, Binds, Moves
<1>1. ActionsTypeOK'
  BY DEF ActionsTypeOK, Dispatch
<1>2. OwnersApart'
  BY DEF ActionsTypeOK, OwnersApart
<1>3. OwnersPlace'
  BY DEF ActionsTypeOK, OwnersApart, OwnersPlace, FailureStatus
<1>4. StatusTold'
  BY DEF ActionsTypeOK, OwnersApart, OwnersPlace, StatusTold
<1>5. FieldsClaimed'
  BY DEF ActionsTypeOK, OwnersApart, OwnersPlace, FieldsClaimed, Open
<1>6. FieldsHeld'
  BY DEF ActionsTypeOK, OwnersApart, OwnersPlace, FieldsHeld, Held
<1>7. FieldsSpent'
  BY DEF ActionsTypeOK, OwnersApart, OwnersPlace, FieldsSpent
<1>8. FieldsLocked'
  BY DEF ActionsTypeOK, OwnersApart, OwnersPlace, FieldsLocked
<1>9. SentOnce'
  BY DEF SentOnce
<1> QED
  BY <1>1, <1>2, <1>3, <1>4, <1>5, <1>6, <1>7, <1>8, <1>9

\* The dispatch is the first of its request and the first of each one-time field.
LEMMA ExecuteKeeps ==
  ASSUME ActionsInv, NEW a \in Approver, Execute(a)
  PROVE  ActionsInv'
<1> USE ConnectorAssumption DEF ActionsInv, Owner, InPlace, rows, fields, calls, history, Execute,
         Awaits, Moves
<1>1. ActionsTypeOK'
  BY DEF ActionsTypeOK, OwnersApart, OwnersPlace, Dispatch
<1>2. OwnersApart'
  BY DEF ActionsTypeOK, OwnersApart
<1>3. OwnersPlace'
  <2>1. job[a] \in Request /\ sent'[job[a]] # {}
    BY DEF ActionsTypeOK, OwnersApart
  <2>2. \A b \in Approver \ {a} :
          /\ stage'[b] = stage[b]
          /\ Owner(b) => job[b] # job[a] /\ sent'[job[b]] = sent[job[b]]
    BY <2>1 DEF ActionsTypeOK, OwnersApart
  <2>3. stage'[a] = "executing" /\ status[job[a]] = "executing"
    BY DEF ActionsTypeOK, OwnersPlace
  <2>4. InPlace(a)'
    BY <2>1, <2>3
  <2>5. ASSUME NEW b \in Approver \ {a} PROVE InPlace(b)'
    <3>1. UNCHANGED <<job, status, bound, reviewed>>
      OBVIOUS
    <3>2. InPlace(b)
      BY DEF OwnersPlace
    <3> HIDE DEF Execute
    <3>3. CASE Owner(b)
      BY <2>2, <3>1, <3>2, <3>3 DEF FailureStatus
    <3>4. CASE ~Owner(b)
      BY <2>2, <3>4
    <3>5. QED
      BY <3>3, <3>4
  <2>6. QED
    BY <2>4, <2>5 DEF OwnersPlace
<1>4. SentOnce'
  BY DEF ActionsTypeOK, OwnersApart, OwnersPlace, SentOnce
<1>5. StatusTold'
  BY DEF ActionsTypeOK, OwnersApart, OwnersPlace, StatusTold
<1>6. FieldsClaimed'
  BY DEF ActionsTypeOK, OwnersApart, OwnersPlace, FieldsClaimed, Open
<1>7. FieldsHeld'
  BY DEF ActionsTypeOK, OwnersApart, OwnersPlace, FieldsHeld, Held
<1>8. FieldsSpent'
  <2>1. SUFFICES ASSUME NEW f \in OneTime
                 PROVE  /\ spent'[f] <= 1
                        /\ spent'[f] = 1 => \/ field[f] \in {"quarantined", "gone"}
                                            \/ field[f] = "reserved" /\ claimedBy[f] # NoRequest
                                               /\ sent'[claimedBy[f]] # {}
    BY DEF FieldsSpent
  <2>2. CASE f \in uses[job[a]]
    <3>1. field[f] = "reserved" /\ claimedBy[f] = job[a]
      BY <2>2 DEF FieldsHeld, Held
    <3>2. spent[f] = 0 /\ sent[job[a]] = {}
      BY <3>1 DEF ActionsTypeOK, OwnersPlace, FieldsSpent
    <3>3. spent'[f] = 1
      BY <2>2, <3>2 DEF ActionsTypeOK
    <3>4. job[a] \in Request
      BY DEF OwnersApart
    <3>5. sent'[job[a]] # {}
      BY <3>4 DEF ActionsTypeOK
    <3>6. QED
      BY <3>1, <3>3, <3>4, <3>5
  <2>3. CASE f \notin uses[job[a]]
    <3>1. spent'[f] = spent[f]
      BY <2>3 DEF ActionsTypeOK
    <3>2. \A r \in Request : sent[r] # {} => sent'[r] # {}
      BY DEF ActionsTypeOK
    <3>3. QED
      BY <3>1, <3>2 DEF ActionsTypeOK, FieldsSpent
  <2>4. QED
    BY <2>2, <2>3
<1>9. FieldsLocked'
  BY DEF ActionsTypeOK, OwnersApart, OwnersPlace, FieldsHeld, Held, FieldsLocked
<1> QED
  BY <1>1, <1>2, <1>3, <1>4, <1>5, <1>6, <1>7, <1>8, <1>9

\* The answer of the provider moves the owner on.
LEMMA AnsweredKeeps ==
  ASSUME ActionsInv, NEW a \in Approver, Answered(a)
  PROVE  ActionsInv'
<1> USE ConnectorAssumption DEF ActionsInv, Owner, InPlace, rows, fields, calls, history, Answered, Moves
<1>1. ActionsTypeOK'
  BY DEF ActionsTypeOK, Dispatch
<1>2. OwnersApart'
  BY DEF ActionsTypeOK, OwnersApart
<1>3. OwnersPlace'
  BY DEF ActionsTypeOK, OwnersApart, OwnersPlace, FailureStatus
<1>4. StatusTold'
  BY DEF ActionsTypeOK, OwnersApart, OwnersPlace, StatusTold
<1>5. FieldsClaimed'
  BY DEF ActionsTypeOK, OwnersApart, OwnersPlace, FieldsClaimed, Open
<1>6. FieldsHeld'
  BY DEF ActionsTypeOK, OwnersApart, OwnersPlace, FieldsHeld, Held
<1>7. FieldsLocked'
  BY DEF ActionsTypeOK, OwnersApart, OwnersPlace, FieldsLocked
<1>8. SentOnce' /\ FieldsSpent'
  BY DEF SentOnce, FieldsSpent
<1> QED
  BY <1>1, <1>2, <1>3, <1>4, <1>5, <1>6, <1>7, <1>8

\* Completing the request keeps its fields held.
LEMMA CompleteKeeps ==
  ASSUME ActionsInv, NEW a \in Approver, Complete(a)
  PROVE  ActionsInv'
<1> USE ConnectorAssumption DEF ActionsInv, Owner, InPlace, rows, fields, calls, history, Complete, Set,
         Moves
<1>1. ActionsTypeOK'
  BY DEF ActionsTypeOK, Dispatch
<1>2. OwnersApart'
  BY DEF ActionsTypeOK, OwnersApart
<1>3. OwnersPlace'
  BY DEF ActionsTypeOK, OwnersApart, OwnersPlace, FailureStatus
<1>4. StatusTold'
  BY DEF ActionsTypeOK, OwnersApart, OwnersPlace, StatusTold
<1>5. FieldsClaimed'
  BY DEF ActionsTypeOK, OwnersApart, OwnersPlace, FieldsClaimed, Open
<1>6. FieldsHeld'
  BY DEF ActionsTypeOK, OwnersApart, OwnersPlace, FieldsHeld, Held
<1>7. FieldsLocked'
  BY DEF ActionsTypeOK, OwnersApart, OwnersPlace, FieldsLocked
<1>8. SentOnce' /\ FieldsSpent'
  BY DEF SentOnce, FieldsSpent
<1> QED
  BY <1>1, <1>2, <1>3, <1>4, <1>5, <1>6, <1>7, <1>8

\* A consumed one-time field is deleted, and only the owner's fields are touched.
LEMMA FinishKeeps ==
  ASSUME ActionsInv, NEW a \in Approver, Finish(a)
  PROVE  ActionsInv'
<1> USE ConnectorAssumption DEF ActionsInv, Owner, InPlace, rows, fields, calls, history, Finish,
         Consumed, FieldsOf, Moves, Returns
<1>1. ActionsTypeOK'
  BY DEF ActionsTypeOK, OwnersApart, FieldsClaimed, Dispatch
<1>2. OwnersApart'
  BY DEF ActionsTypeOK, OwnersApart
<1>3. OwnersPlace'
  BY DEF ActionsTypeOK, OwnersApart, OwnersPlace, FailureStatus
<1>4. StatusTold'
  BY DEF ActionsTypeOK, OwnersApart, OwnersPlace, StatusTold
<1>5. FieldsClaimed'
  BY DEF ActionsTypeOK, OwnersApart, OwnersPlace, FieldsClaimed, Open
<1>6. FieldsHeld'
  BY DEF ActionsTypeOK, OwnersApart, OwnersPlace, FieldsHeld, Held
<1>7. FieldsSpent'
  BY DEF ActionsTypeOK, OwnersApart, OwnersPlace, FieldsSpent
<1>8. FieldsLocked'
  BY DEF ActionsTypeOK, OwnersApart, OwnersPlace, FieldsClaimed, FieldsLocked
<1>9. SentOnce'
  BY DEF SentOnce
<1> QED
  BY <1>1, <1>2, <1>3, <1>4, <1>5, <1>6, <1>7, <1>8, <1>9

\* What was dispatched and failed is uncertain, whatever was recorded before.
LEMMA FailKeeps ==
  ASSUME ActionsInv, NEW a \in Approver, Fail(a)
  PROVE  ActionsInv'
<1> USE ConnectorAssumption DEF ActionsInv, Owner, InPlace, rows, fields, calls, history, Fail, Set,
         Moves, Returns
<1>1. ActionsTypeOK'
  BY DEF ActionsTypeOK, OwnersApart, FailureStatus
<1>2. OwnersApart'
  BY DEF ActionsTypeOK, OwnersApart
<1>3. OwnersPlace'
  BY DEF ActionsTypeOK, OwnersApart, OwnersPlace, FailureStatus
<1>4. StatusTold'
  BY DEF ActionsTypeOK, OwnersApart, OwnersPlace, StatusTold, FailureStatus
<1>5. FieldsClaimed'
  BY DEF ActionsTypeOK, OwnersApart, OwnersPlace, FieldsClaimed, Open, FailureStatus
<1>6. FieldsHeld'
  BY DEF ActionsTypeOK, OwnersApart, OwnersPlace, FieldsHeld, Held
<1>7. FieldsLocked'
  BY DEF ActionsTypeOK, OwnersApart, OwnersPlace, FieldsHeld, FieldsLocked, FailureStatus
<1>8. SentOnce' /\ FieldsSpent'
  BY DEF SentOnce, FieldsSpent
<1> QED
  BY <1>1, <1>2, <1>3, <1>4, <1>5, <1>6, <1>7, <1>8

\* The owner's fields are locked when they may have been sent and free otherwise.
LEMMA UndoKeeps ==
  ASSUME ActionsInv, NEW a \in Approver, Undo(a)
  PROVE  ActionsInv'
<1> USE ConnectorAssumption DEF ActionsInv, Owner, InPlace, rows, fields, calls, history, Undo,
         FieldsOf, Released, Returns
<1>1. ActionsTypeOK'
  BY DEF ActionsTypeOK, Dispatch
<1>2. OwnersApart'
  BY DEF ActionsTypeOK, OwnersApart
<1>3. OwnersPlace'
  BY DEF ActionsTypeOK, OwnersApart, OwnersPlace, FailureStatus
<1>4. StatusTold'
  BY DEF ActionsTypeOK, OwnersApart, OwnersPlace, StatusTold, FailureStatus
<1>5. FieldsClaimed'
  BY DEF ActionsTypeOK, OwnersApart, OwnersPlace, FieldsClaimed, Open
<1>6. FieldsHeld'
  BY DEF ActionsTypeOK, OwnersApart, OwnersPlace, FieldsHeld, Held
<1>7. FieldsSpent'
  BY DEF ActionsTypeOK, OwnersApart, OwnersPlace, FieldsClaimed, FieldsSpent
<1>8. FieldsLocked'
  BY DEF ActionsTypeOK, OwnersApart, OwnersPlace, StatusTold, FieldsClaimed, FieldsHeld,
         FieldsLocked, FailureStatus, Held
<1>9. SentOnce'
  BY DEF SentOnce
<1> QED
  BY <1>1, <1>2, <1>3, <1>4, <1>5, <1>6, <1>7, <1>8, <1>9

\* Initially there is nothing to own.
LEMMA ActionsInvInit == ActionsInit => ActionsInv
BY ConnectorAssumption
   DEF ActionsInit, ActionsInv, ActionsTypeOK, OwnersApart, OwnersPlace, InPlace, Owner, SentOnce,
         StatusTold, FieldsClaimed, FieldsHeld, FieldsSpent, FieldsLocked, Held

\* Every step of the service preserves the invariant.
LEMMA ActionsInvStep == ActionsInv /\ [ActionsNext]_actionVars => ActionsInv'
<1> SUFFICES ASSUME ActionsInv, [ActionsNext]_actionVars PROVE ActionsInv'
  OBVIOUS
<1>1. ASSUME NEW f \in Field, SaveField(f) \/ FieldGoes(f) PROVE ActionsInv'
  BY <1>1, SaveFieldKeeps, FieldGoesKeeps
<1>2. ASSUME NEW r \in Request, NEW F \in SUBSET Field, Propose(r, F) PROVE ActionsInv'
  BY <1>2, ProposeKeeps
<1>3. ASSUME NEW r \in Request, TimePasses(r) \/ Read(r) \/ Deny(r) PROVE ActionsInv'
  BY <1>3, TimePassesKeeps, ReadKeeps, DenyKeeps
<1>4. ASSUME Disconnect \/ ActionsRestart PROVE ActionsInv'
  BY <1>4, DisconnectKeeps, ActionsRestartKeeps
<1>5. ASSUME NEW k \in Key, RotateKey(k) PROVE ActionsInv'
  BY <1>5, RotateKeyKeeps
<1>6. ASSUME NEW a \in Approver, NEW r \in Request, Approve(a, r) PROVE ActionsInv'
  BY <1>6, ApproveKeeps
<1>7. ASSUME NEW a \in Approver,
             AccountsRead(a) \/ Abandons(a) \/ SchemaChanged(a) \/ ClaimRequest(a)
      PROVE  ActionsInv'
  BY <1>7, AccountsReadKeeps, AbandonsKeeps, SchemaChangedKeeps, ClaimRequestKeeps
<1>8. ASSUME NEW a \in Approver, Dispatching(a) PROVE ActionsInv'
  BY <1>8, ReserveFieldsKeeps, ExecuteKeeps, AnsweredKeeps, CompleteKeeps, FinishKeeps,
     FailKeeps, UndoKeeps DEF Dispatching
<1>9. CASE UNCHANGED actionVars
  BY <1>9
     DEF actionVars, rows, fields, calls, history, ActionsInv, ActionsTypeOK, OwnersApart, OwnersPlace,
         InPlace, Owner, SentOnce, StatusTold, FieldsClaimed, FieldsHeld, FieldsSpent, FieldsLocked,
         FailureStatus
<1>10. QED
  BY <1>1, <1>2, <1>3, <1>4, <1>5, <1>6, <1>7, <1>8, <1>9 DEF ActionsNext

\* The invariant holds in every reachable state.
THEOREM ActionsInvariant == ActionsSpec => []ActionsInv
<1>1. QED
  BY ActionsInvInit, ActionsInvStep, PTL DEF ActionsSpec

-----------------------------------------------------------------------------
(* What the service promises of reviewed actions *)

\* The variables of the connector actions keep their types.
THEOREM ActionsTyped == ActionsSpec => []ActionsTypeOK
<1>1. ActionsInv => ActionsTypeOK
  BY DEF ActionsInv
<1>2. QED
  BY <1>1, ActionsInvariant, PTL

\* A request's row tells the truth about its dispatch, and "executing" has an
\* approval that will settle it or an end that could not be written (decide).
THEOREM Honest == ActionsSpec => []StatusIsHonest
<1>1. ActionsInv => StatusIsHonest
  BY DEF ActionsInv, StatusTold, StatusIsHonest, Owner
<1>2. QED
  BY <1>1, ActionsInvariant, PTL

\* Every dispatch uses the provider key that was reviewed (decide).
THEOREM Reviewed == ActionsSpec => []DispatchedAsReviewed
<1>1. ActionsInv => DispatchedAsReviewed
  BY DEF ActionsInv, SentOnce, DispatchedAsReviewed
<1>2. QED
  BY <1>1, ActionsInvariant, PTL

\* A one-time value leaves the vault once, and what was part of an action of
\* unknown outcome is never ready again (private_fields.py).
THEOREM Safe == ActionsSpec => []FieldsAreSafe
<1>1. ActionsInv => FieldsAreSafe
  BY DEF ActionsInv, FieldsSpent, FieldsLocked, FieldsAreSafe
<1>2. QED
  BY <1>1, ActionsInvariant, PTL

-----------------------------------------------------------------------------
(* Reviewed actions implement OnceOnly *)

\* The abstract view of the state (see ActionOnce).
PhaseOf(s) == CASE s \in {"absent", "pending"} -> "open"
                [] s = "executing" -> "claimed"
                [] OTHER -> "closed"
Phases  == [r \in Request |-> PhaseOf(status[r])]
Effects == [r \in Request |-> Cardinality(sent[r])]

\* Every step claims one request, dispatches one claimed request for the first
\* time, closes some or changes nothing that the abstract view shows.
LEMMA StepImplements ==
  ASSUME ActionsInv, [ActionsNext]_actionVars
  PROVE  [ActionOnce!OnceNext]_(ActionOnce!onceVars)
<1> DEFINE Goal == [ActionOnce!OnceNext]_(ActionOnce!onceVars)
<1> USE DEF ActionsInv, history
\* Nothing but the statuses moves, and in the abstract view some requests are closed.
<1>1. ASSUME sent' = sent, NEW J \in SUBSET Request,
             \A r \in Request : PhaseOf(status'[r]) = IF r \in J THEN "closed" ELSE PhaseOf(status[r])
      PROVE  Goal
  <2>1. Phases' = [r \in Request |-> IF r \in J THEN "closed" ELSE Phases[r]] /\ Effects' = Effects
    BY <1>1 DEF Phases, Effects
  <2>2. ActionOnce!Close(J)
    BY <2>1 DEF ActionOnce!Close, Phases, Effects, PhaseOf
  <2>3. QED
    BY <2>2 DEF ActionOnce!OnceNext
\* One request moves.
<1>2. ASSUME sent' = sent, NEW r \in Request, NEW s, Set(r, s), PhaseOf(s) \in {PhaseOf(status[r]), "closed"}
      PROVE  Goal
  <2>1. \A q \in Request : status'[q] = IF q = r THEN s ELSE status[q]
    BY <1>2 DEF Set, ActionsTypeOK
  <2>2. \A q \in Request : PhaseOf(status'[q]) =
          IF q \in {p \in {r} : PhaseOf(s) = "closed"} THEN "closed" ELSE PhaseOf(status[q])
    BY <1>2, <2>1
  <2>3. QED
    BY <1>1, <1>2, <2>2
<1>3. ASSUME UNCHANGED <<status, sent>> PROVE Goal
  BY <1>3 DEF ActionOnce!onceVars
<1>4. ASSUME NEW r \in Request, NEW F \in SUBSET Field, Propose(r, F) PROVE Goal
  <2>1. PhaseOf("pending") = PhaseOf(status[r])
    BY <1>4 DEF Propose, PhaseOf
  <2>2. QED
    BY <1>2, <1>4, <2>1 DEF Propose
<1>5. ASSUME NEW r \in Request, Read(r) \/ Deny(r) PROVE Goal
  <2>1. PhaseOf("expired") = "closed" /\ PhaseOf("denied") = "closed"
    BY DEF PhaseOf
  <2>2. QED
    BY <1>2, <1>5, <2>1 DEF Read, Deny
<1>6. CASE Disconnect
  <2>1. \A r \in Request : PhaseOf(status'[r]) =
          IF r \in {q \in Request : status[q] = "pending"} THEN "closed" ELSE PhaseOf(status[r])
    BY <1>6 DEF Disconnect, PhaseOf
  <2>2. QED
    BY <1>1, <1>6, <2>1 DEF Disconnect
<1>7. CASE ActionsRestart
  <2>1. \A r \in Request : PhaseOf(status'[r]) =
          IF r \in {q \in Request : status[q] = "executing"} THEN "closed" ELSE PhaseOf(status[r])
    BY <1>7 DEF ActionsRestart, RecoveredStatus, PhaseOf
  <2>2. QED
    BY <1>1, <1>7, <2>1 DEF ActionsRestart
<1>8. ASSUME NEW a \in Approver, SchemaChanged(a) PROVE Goal
  <2>1. job[a] \in Request /\ PhaseOf("expired") = "closed"
    BY <1>8 DEF SchemaChanged, Awaits, OwnersApart, PhaseOf
  <2>2. QED
    BY <1>2, <1>3, <1>8, <2>1 DEF SchemaChanged
<1>9. ASSUME NEW a \in Approver, ClaimRequest(a) PROVE Goal
  <2>1. job[a] \in Request
    BY <1>9 DEF ClaimRequest, Awaits, OwnersApart
  <2>2. CASE MayClaim(job[a])
    <3>1. PhaseOf("executing") = "claimed" /\ Phases[job[a]] = "open"
      BY <2>1, <2>2 DEF MayClaim, Phases, PhaseOf
    <3>2. \A r \in Request : status'[r] = IF r = job[a] THEN "executing" ELSE status[r]
      BY <1>9, <2>2 DEF ClaimRequest, Set, ActionsTypeOK
    <3>3. Phases' = [Phases EXCEPT ![job[a]] = "claimed"]
      BY <2>1, <3>1, <3>2 DEF Phases
    <3>4. Effects' = Effects
      BY <1>9 DEF ClaimRequest, Effects
    <3>5. \E j \in Request : ActionOnce!Claim(j)
      BY <2>1, <3>1, <3>3, <3>4 DEF ActionOnce!Claim, Phases, Effects, PhaseOf
    <3>6. QED
      BY <3>5 DEF ActionOnce!OnceNext
  <2>3. CASE ~MayClaim(job[a])
    BY <1>3, <1>9, <2>3 DEF ClaimRequest
  <2>4. QED
    BY <2>2, <2>3
<1>10. ASSUME NEW a \in Approver, Execute(a) PROVE Goal
  <2>1. job[a] \in Request /\ status[job[a]] = "executing" /\ sent[job[a]] = {}
    BY <1>10 DEF Execute, Awaits, OwnersApart, OwnersPlace, InPlace
  <2>2. \A r \in Request : sent'[r] = IF r = job[a] THEN {[key |-> bound[a], n |-> 1]} ELSE sent[r]
    BY <1>10, <2>1 DEF Execute, ActionsTypeOK
  <2>3. Effects[job[a]] = 0 /\ Cardinality(sent'[job[a]]) = 1
    <3>1. Cardinality(sent[job[a]]) = 0
      BY <2>1, FS_EmptySet
    <3>2. sent'[job[a]] = {[key |-> bound[a], n |-> 1]}
      BY <2>1, <2>2
    <3>3. QED
      BY <2>1, <3>1, <3>2, FS_Singleton DEF Effects
  <2>4. Effects' = [Effects EXCEPT ![job[a]] = 1]
    BY <2>1, <2>2, <2>3 DEF Effects
  <2>5. Phases' = Phases /\ Phases[job[a]] = "claimed"
    BY <1>10, <2>1 DEF Execute, rows, Phases, PhaseOf
  <2>6. ActionOnce!Perform(job[a])
    BY <2>3, <2>4, <2>5 DEF ActionOnce!Perform, Phases, Effects, PhaseOf
  <2>7. QED
    BY <2>1, <2>6 DEF ActionOnce!OnceNext
<1>11. ASSUME NEW a \in Approver, Complete(a) PROVE Goal
  <2>1. job[a] \in Request /\ PhaseOf("completed") = "closed"
    BY <1>11 DEF Complete, OwnersApart, PhaseOf
  <2>2. QED
    BY <1>2, <1>3, <1>11, <2>1 DEF Complete
<1>12. ASSUME NEW a \in Approver, Fail(a) PROVE Goal
  <2>1. job[a] \in Request /\ PhaseOf(FailureStatus(job[a])) = "closed"
    BY <1>12 DEF Fail, OwnersApart, PhaseOf, FailureStatus
  <2>2. QED
    BY <1>2, <1>3, <1>12, <2>1 DEF Fail
<1>13. ASSUME NEW f \in Field, SaveField(f) \/ FieldGoes(f) PROVE Goal
  BY <1>3, <1>13 DEF SaveField, FieldGoes, rows
<1>14. ASSUME NEW a \in Approver, NEW r \in Request, Approve(a, r) PROVE Goal
  BY <1>3, <1>14 DEF Approve, rows
<1>15. ASSUME NEW a \in Approver,
              AccountsRead(a) \/ Abandons(a) \/ ReserveFields(a) \/ Answered(a) \/ Finish(a) \/ Undo(a)
       PROVE  Goal
  BY <1>3, <1>15 DEF AccountsRead, Abandons, ReserveFields, Answered, Finish, Undo, rows
<1>16. ASSUME (\E k \in Key : RotateKey(k)) \/ (\E r \in Request : TimePasses(r)) \/ UNCHANGED actionVars
       PROVE  Goal
  BY <1>3, <1>16 DEF RotateKey, TimePasses, actionVars, rows
<1>17. QED
  BY <1>4, <1>5, <1>6, <1>7, <1>8, <1>9, <1>10, <1>11, <1>12, <1>13, <1>14, <1>15, <1>16
     DEF ActionsNext, Dispatching

\* A request is claimed before its dispatch, dispatched at most once and
\* closed afterwards, whatever races with it (decide, disconnect, __init__).
THEOREM ImplementsOnce == ActionsSpec => ActionsImplementOnce
<1>1. ActionsInit => ActionOnce!OnceInit
  BY FS_EmptySet DEF ActionsInit, ActionOnce!OnceInit
<1>2. ActionsInv /\ [ActionsNext]_actionVars => [ActionOnce!OnceNext]_(ActionOnce!onceVars)
  BY StepImplements
<1>3. QED
  BY <1>1, <1>2, ActionsInvariant, PTL DEF ActionsSpec, ActionsImplementOnce, ActionOnce!OnceSpec
=============================================================================
