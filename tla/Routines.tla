------------------------------ MODULE Routines ------------------------------
(***************************************************************************)
(* One routine of backend/app/routines.py: its row, its occurrences, the   *)
(* chat requests they cause and the tasks that serve them.  run() claims   *)
(* an occurrence, sends its request under a key derived from the           *)
(* occurrence, records the task and submits it: three transactions and a   *)
(* call.  No await separates them, so only a crash or a storage error      *)
(* comes between; the scheduler's tick resumes what was left claimed.      *)
(***************************************************************************)
EXTENDS Naturals, Sequences, FiniteSets

CONSTANTS Click,        \* client_request_ids of manual runs
          MaxTime,      \* bound: last due instant of the clock
          MaxRevision,  \* bound: no edit of a routine with this revision
          MaxPauses,    \* bound: times the user pauses or resumes the bot
          MaxFaults     \* bound: storage errors and crashes

ASSUME RoutinesAssumption ==
  /\ {MaxTime, MaxPauses, MaxFaults} \subseteq Nat
  /\ MaxRevision \in Nat \ {0}   \* a routine starts with revision 1
  /\ Click \cap Nat = {}

Scheduled == 1..MaxTime        \* "scheduled:<next_due>"
Occurrence == Click \cup Scheduled

VARIABLES
  enabled, archived, revision, nextDue,   \* the row of routines
  claim,     \* claim[o]: routine_occurrences.status, "none" before the row
  payload,   \* payload[o]: the revision whose instruction was saved at the claim
  chats,     \* chats[o]: tasks created by requests for o: text and status
  active,    \* agents.status = 'active'
  pauses,    \* pauses and resumptions so far
  now,       \* due instants passed by the wall clock
  run,       \* the occurrence run() is working on and its next transaction
  tick,      \* what the scheduler's tick still has to do
  faults     \* errors and crashes so far

bot  == <<active, pauses>>
row  == <<enabled, archived, revision, nextDue>>
routineVars == <<row, claim, payload, chats, bot, now, run, tick, faults>>

NoRun  == [occ |-> 0, at |-> "idle"]
NoTick == [on |-> FALSE, pending |-> {}, due |-> 0, revision |-> 0]

RoutinesTypeOK ==
  /\ enabled \in BOOLEAN /\ archived \in BOOLEAN /\ active \in BOOLEAN
  /\ revision \in 1..MaxRevision + 1
  /\ nextDue \in 1..MaxTime + 1 /\ now \in 0..MaxTime
  /\ claim \in [Occurrence -> {"none", "claimed", "submitted", "skipped"}]
  /\ payload \in [Occurrence -> 0..MaxRevision + 1]
  /\ chats \in [Occurrence -> Seq([text : 1..MaxRevision + 1,
                                   status : {"queued", "running", "ended"}])]
  /\ run \in [occ : Occurrence \cup {0}, at : {"idle", "send", "record"}]
  /\ tick \in [on : BOOLEAN, pending : SUBSET Occurrence,
               due : 0..MaxTime + 1, revision : 0..MaxRevision + 1]
  /\ faults \in 0..MaxFaults /\ pauses \in 0..MaxPauses

RoutinesInit ==
  /\ enabled = TRUE /\ archived = FALSE /\ revision = 1 /\ nextDue = 1
  /\ claim = [o \in Occurrence |-> "none"]
  /\ payload = [o \in Occurrence |-> 0]
  /\ chats = [o \in Occurrence |-> <<>>]
  /\ active = TRUE /\ pauses = 0 /\ now = 0
  /\ run = NoRun /\ tick = NoTick /\ faults = 0

-----------------------------------------------------------------------------
\* Neither a run nor a tick is under way: another handler may start.
RoutinesLoopFree == run = NoRun /\ ~tick.on

Live(o) == \E i \in DOMAIN chats[o] : chats[o][i].status # "ended"

\* Mutant: an occurrence without a task does not count as working.
WorkingOnTasks == \E o \in Occurrence : claim[o] = "submitted" /\ Live(o)

\* The join is on the occurrence's task: one that was skipped names none, also
\* when its request had been sent before.
Working == \E o \in Occurrence : \/ claim[o] = "claimed"
                                 \/ claim[o] = "submitted" /\ Live(o)

\* Mutant: a resumed claim is not compared with the routine's revision.
MayRunStale(o) ==
  /\ ~archived /\ active
  /\ o \in Scheduled => enabled
  /\ claim[o] = "none" => ~Working

\* The guards of run(), up to the end of its claiming transaction.
MayRun(o) ==
  /\ ~archived /\ active
  /\ o \in Scheduled => enabled
  /\ IF claim[o] = "none" THEN ~Working
     ELSE claim[o] # "submitted" /\ o \in Scheduled => payload[o] = revision

\* The claim saves the instruction; a repeated run keeps the saved one.
Claims(o) ==
  /\ MayRun(o)
  /\ IF claim[o] = "none"
       THEN /\ claim' = [claim EXCEPT ![o] = "claimed"]
            /\ payload' = [payload EXCEPT ![o] = revision]
       ELSE UNCHANGED <<claim, payload>>
  /\ run' = [occ |-> o, at |-> "send"]

RunNow(m) ==
  /\ RoutinesLoopFree /\ Claims(m)
  /\ UNCHANGED <<row, chats, bot, now, tick, faults>>

\* Mutant: the request key is fresh at every attempt.
SentAfresh(o) == Append(chats[o], [text |-> payload[o], status |-> "queued"])

\* messenger.send replays the request of a key it has seen before.
Sent(o) == IF chats[o] = <<>> THEN Append(chats[o], [text |-> payload[o], status |-> "queued"])
                              ELSE chats[o]

Send ==
  /\ run.at = "send"
  /\ chats' = [chats EXCEPT ![run.occ] = Sent(run.occ)]
  /\ run' = [run EXCEPT !.at = "record"]
  /\ UNCHANGED <<row, claim, payload, bot, now, tick, faults>>

\* The claim gets its task and the task its worker, unless it was recorded
\* and has ended in the meantime.
Record ==
  /\ run.at = "record"
  /\ claim' = [claim EXCEPT ![run.occ] = "submitted"]
  /\ chats' = [chats EXCEPT ![run.occ][1].status = IF @ = "queued" THEN "running" ELSE @]
  /\ run' = NoRun
  /\ UNCHANGED <<row, payload, bot, now, tick, faults>>

-----------------------------------------------------------------------------
(* The scheduler *)

DuePending == IF archived THEN {} ELSE {o \in Occurrence : claim[o] = "claimed"}

Due == IF enabled /\ ~archived /\ nextDue <= now THEN nextDue ELSE 0

Tick ==
  /\ RoutinesLoopFree
  /\ DuePending # {} \/ Due # 0
  /\ tick' = [on |-> TRUE, pending |-> DuePending, due |-> Due, revision |-> revision]
  /\ UNCHANGED <<row, claim, payload, chats, bot, now, run, faults>>

\* Mutant: a refused occurrence stays claimed.
SkippedNever(o) == UNCHANGED claim

Skipped(o) == claim' = [claim EXCEPT ![o] = "skipped"]

\* An occurrence that was left claimed is run again or given up.
TickPending(o) ==
  /\ tick.on /\ run = NoRun /\ o \in tick.pending
  /\ tick' = [tick EXCEPT !.pending = @ \ {o}]
  /\ \/ Claims(o)
     \/ ~MayRun(o) /\ Skipped(o) /\ UNCHANGED <<payload, run>>
  /\ UNCHANGED <<row, chats, bot, now, faults>>

Advanced == IF revision = tick.revision THEN now + 1 ELSE nextDue

\* The due occurrence runs, or is refused: the row goes on to the next
\* instant either way.
TickDue ==
  /\ tick.on /\ run = NoRun /\ tick.pending = {}
  /\ \/ /\ tick.due # 0 /\ claim[tick.due] # "submitted" /\ Claims(tick.due)
        /\ UNCHANGED <<nextDue, tick>>
     \/ /\ tick.due # 0 => claim[tick.due] = "submitted" \/ ~MayRun(tick.due)
        /\ nextDue' = IF tick.due = 0 THEN nextDue ELSE Advanced
        /\ tick' = NoTick
        /\ UNCHANGED <<claim, payload, run>>
  /\ UNCHANGED <<enabled, archived, revision, chats, bot, now, faults>>

-----------------------------------------------------------------------------
(* The user, the bot's work, time and failures *)

Save(b) ==
  /\ RoutinesLoopFree /\ ~archived /\ revision < MaxRevision
  /\ enabled' = b
  /\ revision' = revision + 1
  /\ nextDue' = now + 1
  /\ UNCHANGED <<archived, claim, payload, chats, bot, now, run, tick, faults>>

Archive ==
  /\ RoutinesLoopFree /\ ~archived
  /\ archived' = TRUE /\ enabled' = FALSE
  /\ revision' = revision + 1
  /\ UNCHANGED <<nextDue, claim, payload, chats, bot, now, run, tick, faults>>

PauseOrResume ==
  /\ RoutinesLoopFree /\ pauses < MaxPauses
  /\ active' = ~active
  /\ pauses' = pauses + 1
  /\ UNCHANGED <<row, claim, payload, chats, now, run, tick, faults>>

\* The worker ends, or the user cancels the task; one without a worker too.
TaskEnds(o) ==
  /\ RoutinesLoopFree
  /\ \E i \in DOMAIN chats[o] :
       /\ chats[o][i].status # "ended"
       /\ chats' = [chats EXCEPT ![o][i].status = "ended"]
  /\ UNCHANGED <<row, claim, payload, bot, now, run, tick, faults>>

Clock ==
  /\ RoutinesLoopFree /\ now < MaxTime
  /\ now' = now + 1
  /\ UNCHANGED <<row, claim, payload, chats, bot, run, tick, faults>>

\* A transaction of run() fails in storage: the route answers 500, a tick is
\* abandoned as it stands.
StorageError ==
  /\ run # NoRun /\ faults < MaxFaults
  /\ faults' = faults + 1
  /\ run' = NoRun /\ tick' = NoTick
  /\ UNCHANGED <<row, claim, payload, chats, bot, now>>

\* The process dies anywhere; TaskManager.start fails the tasks in flight
\* before the scheduler starts.
RoutinesRestart ==
  /\ faults < MaxFaults
  /\ faults' = faults + 1
  /\ chats' = [o \in Occurrence |->
                 [i \in DOMAIN chats[o] |-> [chats[o][i] EXCEPT !.status = "ended"]]]
  /\ run' = NoRun /\ tick' = NoTick
  /\ UNCHANGED <<row, claim, payload, bot, now>>

RunStep == Send \/ Record
TickStep == TickDue \/ \E o \in Occurrence : TickPending(o)

RoutinesNext ==
  \/ RunStep \/ Tick \/ TickStep
  \/ \E m \in Click : RunNow(m)
  \/ \E b \in BOOLEAN : Save(b)
  \/ \E o \in Occurrence : TaskEnds(o)
  \/ Archive \/ PauseOrResume \/ Clock \/ StorageError \/ RoutinesRestart

\* Started code goes on, and the loop's timers are served: the scheduler
\* ticks again although other handlers keep starting.
RoutinesFairness == WF_routineVars(RunStep) /\ WF_routineVars(TickStep) /\ SF_routineVars(Tick)

RoutinesSpec == RoutinesInit /\ [][RoutinesNext]_routineVars
RoutinesFairSpec == RoutinesSpec /\ RoutinesFairness

-----------------------------------------------------------------------------
WorkedOn(o) == \E i \in DOMAIN chats[o] : chats[o][i].status = "running"
AtWork(o) == claim[o] = "claimed" \/ WorkedOn(o)

\* "no overlap": of the occurrences of a routine at most one is claimed or
\* has a task with a worker.
OccurrencesNeverOverlap == \A o, p \in Occurrence : AtWork(o) /\ AtWork(p) => o = p

\* While the user does not pause the bot, claims, storage errors, crashes,
\* retries of clicks and edits never let two occurrences work at once.  (A
\* pause may, and an occurrence that was skipped after its request was sent
\* leaves a queued task without a worker: see the README on
\* OccurrencesNeverOverlap and SkippedLeaveNothing.)
NoOverlap == pauses = 0 => OccurrencesNeverOverlap

\* What the code does not keep: an occurrence that is given up has no task.
SkippedLeaveNothing == \A o \in Occurrence : claim[o] = "skipped" => ~Live(o)

\* A scheduled occurrence never speaks for a routine that was edited,
\* disabled or deleted since it was claimed; a manual one never for one that
\* was deleted.
OnlyCurrentSends ==
  [][\A o \in Occurrence : Len(chats'[o]) > Len(chats[o]) =>
       /\ ~archived
       /\ o \in Scheduled => enabled /\ payload[o] = revision]_routineVars

\* "one occurrence, one chat request": an occurrence is claimed before its
\* request exists, causes at most one however often it is retried, and causes
\* none once its task was recorded.
RoutineOnce == INSTANCE OnceOnly WITH
  Job     <- Occurrence,
  phase   <- [o \in Occurrence |-> CASE claim[o] = "none" -> "open"
                                    [] claim[o] = "submitted" -> "closed"
                                    [] OTHER -> "claimed"],
  effects <- [o \in Occurrence |-> Len(chats[o])]
RoutinesImplementOnce == RoutineOnce!OnceSpec

\* "A claim without a task is resumed by the scheduler": every claim is
\* submitted or given up, unless the routine is deleted meanwhile.
ClaimsSettle ==
  \A o \in Occurrence : claim[o] = "claimed" ~> claim[o] # "claimed" \/ archived
=============================================================================
