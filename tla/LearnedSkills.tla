--------------------------- MODULE LearnedSkills ---------------------------
(***************************************************************************)
(* The learned procedures of one bot: backend/app/learned_skills.py, with  *)
(* the calls that tasks.py makes to it.  A procedure is a name with        *)
(* revisions.  A turn proposes a revision; it becomes the recalled one     *)
(* only when its task has completed.  Several tasks may propose revisions  *)
(* of one name and end in any order; a crash may separate the end of a     *)
(* task from the finalization of its proposals.                            *)
(***************************************************************************)
EXTENDS Naturals, Sequences

CONSTANTS Name,     \* procedure names
          Author,     \* tasks of the bot
          Text,     \* (trigger, instructions) pairs
          MaxRev    \* bound: no proposal when a name has this many revisions

ASSUME SkillsAssumption == MaxRev \in Nat

VARIABLES
  revisions, \* revisions[n]: the rows of n, revision r at index r
  outcome,   \* tasks.status
  due       \* ended tasks whose proposals are still to be finalized; volatile

skillVars == <<revisions, outcome, due>>

State == {"pending", "ready", "superseded", "discarded"}
Row == [task : Author, text : Text, state : State, enabled : BOOLEAN]

SkillsTypeOK ==
  /\ revisions \in [Name -> Seq(Row)]
  /\ outcome \in [Author -> {"absent", "active", "completed", "failed"}]
  /\ due \subseteq Author

SkillsInit ==
  /\ revisions = [n \in Name |-> <<>>]
  /\ outcome = [t \in Author |-> "absent"]
  /\ due = {}

\* Settling code never yields: only a crash comes between a task's end and
\* the finalization of its proposals.
SkillsLoopFree == due = {}

Latest(n) == revisions[n][Len(revisions[n])]
Ready(n) == {i \in DOMAIN revisions[n] : revisions[n][i].state = "ready"}

Begin(t) ==
  /\ SkillsLoopFree /\ outcome[t] = "absent"
  /\ outcome' = [outcome EXCEPT ![t] = "active"]
  /\ UNCHANGED <<revisions, due>>

-----------------------------------------------------------------------------
\* The latest revision already says the same: nothing is added.
SameAsLatest(n, t, x) ==
  /\ revisions[n] # <<>>
  /\ Latest(n).text = x
  /\ \/ Latest(n).state = "ready"
     \/ Latest(n).state = "pending" /\ Latest(n).task = t

\* A new revision keeps the user's switch of the name.
InheritedSwitch(n) == IF revisions[n] = <<>> THEN TRUE ELSE Latest(n).enabled

MayPropose(t) == outcome[t] \in {"active", "completed"}

\* propose(): the proposal of a task that had already completed is finalized
\* in a transaction of its own.
ProposeSkill(t, n, x) ==
  /\ SkillsLoopFree /\ MayPropose(t)
  /\ ~SameAsLatest(n, t, x)
  /\ Len(revisions[n]) < MaxRev
  /\ revisions' = [revisions EXCEPT ![n] = Append(@,
       [task |-> t, text |-> x, state |-> "pending", enabled |-> InheritedSwitch(n)])]
  /\ due' = IF outcome[t] = "completed" THEN {t} ELSE due
  /\ UNCHANGED outcome

\* A worker records how its task ended; finalize_task is its next statement.
End(t) ==
  /\ SkillsLoopFree /\ outcome[t] = "active"
  /\ \E s \in {"completed", "failed"} : outcome' = [outcome EXCEPT ![t] = s]
  /\ due' = {t}
  /\ UNCHANGED revisions

-----------------------------------------------------------------------------
Pending(n, t) == {i \in DOMAIN revisions[n] : revisions[n][i].task = t /\ revisions[n][i].state = "pending"}

\* Mutant: a proposal becomes ready although a newer revision already is.
PromotedBlind(n, t) ==
  [i \in DOMAIN revisions[n] |->
     IF i \in Pending(n, t) THEN [revisions[n][i] EXCEPT !.state = "ready"]
     ELSE IF i \in Ready(n) /\ \E p \in Pending(n, t) : p > i
       THEN [revisions[n][i] EXCEPT !.state = "superseded"]
     ELSE revisions[n][i]]

\* The loop of finalize_task over the pending rows of a completed task, in any
\* order: a proposal retires the older ready revisions, and is itself retired
\* when a newer one is ready (a later completion may have come first).
Promoted(n, t) ==
  LET P == Pending(n, t)
  IN [i \in DOMAIN revisions[n] |->
        IF i \in P THEN
          [revisions[n][i] EXCEPT !.state =
             IF \E j \in P \cup Ready(n) : j > i THEN "superseded" ELSE "ready"]
        ELSE IF i \in Ready(n) /\ \E p \in P : p > i
          THEN [revisions[n][i] EXCEPT !.state = "superseded"]
        ELSE revisions[n][i]]

\* Mutant: a failed task takes every revision of the name with it.
DiscardedName(n, t) ==
  [i \in DOMAIN revisions[n] |->
     IF Pending(n, t) # {} THEN [revisions[n][i] EXCEPT !.state = "discarded"] ELSE revisions[n][i]]

\* Mutant: a state the readers of the table do not know.
DiscardedFailed(n, t) ==
  [i \in DOMAIN revisions[n] |->
     IF i \in Pending(n, t) THEN [revisions[n][i] EXCEPT !.state = "failed"] ELSE revisions[n][i]]

Discarded(n, t) ==
  [i \in DOMAIN revisions[n] |->
     IF i \in Pending(n, t) THEN [revisions[n][i] EXCEPT !.state = "discarded"] ELSE revisions[n][i]]

Finalize(t) ==
  /\ t \in due
  /\ revisions' = [n \in Name |-> IF outcome[t] = "completed" THEN Promoted(n, t)
                                                        ELSE Discarded(n, t)]
  /\ due' = due \ {t}
  /\ UNCHANGED outcome

\* _finalize_skills swallows an error of the procedure table.
FinalizeFails(t) ==
  /\ t \in due
  /\ due' = due \ {t}
  /\ UNCHANGED <<revisions, outcome>>

-----------------------------------------------------------------------------
\* The user switches a recalled procedure: every revision of the name, pending
\* ones included, takes the new value.
Switch(n, b) ==
  /\ SkillsLoopFree /\ Ready(n) # {}
  /\ revisions' = [revisions EXCEPT ![n] = [i \in DOMAIN @ |-> [@[i] EXCEPT !.enabled = b]]]
  /\ UNCHANGED <<outcome, due>>

\* The user deletes a recalled procedure with its whole history.
Delete(n) ==
  /\ SkillsLoopFree /\ Ready(n) # {}
  /\ revisions' = [revisions EXCEPT ![n] = <<>>]
  /\ UNCHANGED <<outcome, due>>

\* The process dies, possibly before a finalization, and restarts: tasks in
\* flight fail and their proposals are to be discarded one by one.
SkillsRestart ==
  /\ outcome' = [t \in Author |-> IF outcome[t] = "active" THEN "failed" ELSE outcome[t]]
  /\ due' = {t \in Author : outcome[t] = "active"}
  /\ UNCHANGED revisions

SkillsNext ==
  \/ \E t \in Author : Begin(t) \/ End(t) \/ Finalize(t) \/ FinalizeFails(t)
  \/ \E t \in Author, n \in Name, x \in Text : ProposeSkill(t, n, x)
  \/ \E n \in Name : Delete(n) \/ \E b \in BOOLEAN : Switch(n, b)
  \/ SkillsRestart

SkillsSpec == SkillsInit /\ [][SkillsNext]_skillVars

-----------------------------------------------------------------------------
\* At most one revision of a name is recalled: one whose work completed, and
\* the newest such, so that a slow task that finishes after a newer one does
\* not bring its older steps back.  All revisions of a name share one switch:
\* a procedure the user switched off does not come back with a revision.
NewestWins ==
  \A n \in Name :
    /\ \A i, j \in Ready(n) : i = j
    /\ \A i \in Ready(n) : outcome[revisions[n][i].task] = "completed"
    /\ \A i \in DOMAIN revisions[n] :
         revisions[n][i].state = "superseded" => \E j \in Ready(n) : j > i
    /\ \A i, j \in DOMAIN revisions[n] : revisions[n][i].enabled = revisions[n][j].enabled

\* "An unsuccessful attempt cannot replace a working procedure": a recalled
\* revision gives way only to a newer one that is recalled at once, or to
\* the user's deletion.
WorkingProcedureKept ==
  [][\A n \in Name : Ready(n) # {} /\ revisions'[n] # <<>> =>
       \E i \in Ready(n) : \E j \in DOMAIN revisions'[n] : j >= i /\ revisions'[n][j].state = "ready"]_skillVars
=============================================================================
