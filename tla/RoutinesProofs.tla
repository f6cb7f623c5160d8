--------------------------- MODULE RoutinesProofs ---------------------------
(***************************************************************************)
(* Theorems about Routines for every number of clicks, due instants, edits *)
(* and faults: no two occurrences overlap, what is sent is current, and a  *)
(* routine implements OnceOnly.                                            *)
(***************************************************************************)
EXTENDS Routines, TLAPS, SequenceTheorems

\* A request is sent under a claim, at most once; a submitted occurrence has
\* one, and its instruction is of a revision the routine has had.
Chats ==
  /\ \A o \in Occurrence :
       /\ Len(chats[o]) \in {0, 1}
       /\ claim[o] = "none" => chats[o] = <<>>
       /\ claim[o] = "submitted" => Len(chats[o]) = 1
       /\ claim[o] # "none" => payload[o] \in 1..revision
  /\ ~archived => revision <= MaxRevision

\* The checks that admitted a run hold until it is recorded.
RunStands ==
  run # NoRun =>
    LET o == run.occ IN
    /\ o \in Occurrence /\ run.at \in {"send", "record"}
    /\ ~archived /\ active /\ claim[o] # "none" /\ o \notin tick.pending
    /\ o \in Scheduled => enabled /\ (claim[o] # "submitted" => payload[o] = revision)
    /\ run.at = "record" => chats[o] # <<>>

\* Only a submitted occurrence has a worker, and a submitted one had it.
Served ==
  \A o \in Occurrence :
    /\ WorkedOn(o) => claim[o] = "submitted"
    /\ claim[o] = "submitted" => \A i \in DOMAIN chats[o] : chats[o][i].status \in {"running", "ended"}

\* What a tick has still to resume is still claimed.
TickStands ==
  /\ ~tick.on => tick = NoTick
  /\ tick.due \in Scheduled \cup {0}
  /\ \A o \in tick.pending : claim[o] = "claimed"

\* A refused occurrence stays refused, unless the user pauses the bot.
RefusedForGood ==
  pauses = 0 =>
    /\ active
    /\ \A o \in Occurrence : claim[o] = "skipped" =>
         archived \/ (o \in Scheduled /\ (~enabled \/ payload[o] # revision))

RoutinesInv ==
  RoutinesTypeOK /\ Chats /\ RunStands /\ TickStands /\ RefusedForGood /\ Served /\ NoOverlap

-----------------------------------------------------------------------------
(* Lemmas about the operators *)

ChatRow == [text : 1..MaxRevision + 1, status : {"queued", "running", "ended"}]
TickRow == [on : BOOLEAN, pending : SUBSET Occurrence, due : 0..MaxTime + 1, revision : 0..MaxRevision + 1]

\* The absent occurrence is none.
LEMMA NoOccurrence == 0 \notin Occurrence /\ Scheduled \subseteq Occurrence
BY RoutinesAssumption DEF Occurrence, Scheduled

\* A run is at rest or on an occurrence.
LEMMA RunFacts ==
  ASSUME RunStands, RoutinesTypeOK, run.at # "idle" \/ run # NoRun
  PROVE  /\ run # NoRun /\ run.occ \in Occurrence /\ run.at \in {"send", "record"}
         /\ run.at = "record" => chats[run.occ] # <<>>
  BY DEF RunStands, NoRun

\* Two lists of chats of which the new one differs only by work that ended.
Quieter(new, old) ==
  \A i \in DOMAIN new : i \in DOMAIN old /\ new[i].status \in {old[i].status, "ended"}

\* Overlap is not made by work that ends.
LEMMA QuieterKeeps ==
  ASSUME Served, NoOverlap, UNCHANGED <<claim, pauses>>,
         \A o \in Occurrence : Quieter(chats'[o], chats[o])
  PROVE  Served' /\ NoOverlap'
<1>1. ASSUME NEW o \in Occurrence, WorkedOn(o)' PROVE WorkedOn(o)
  BY <1>1 DEF WorkedOn, Quieter
<1>2. \A o \in Occurrence : AtWork(o)' => AtWork(o)
  BY <1>1 DEF AtWork
<1>3. Served'
  BY <1>1 DEF Served, Quieter
<1>4. QED
  BY <1>2, <1>3 DEF NoOverlap, OccurrencesNeverOverlap

-----------------------------------------------------------------------------
(* A run *)

\* A run that is admitted claims its occurrence, or finds it claimed.
LEMMA ClaimsKeep ==
  ASSUME RoutinesInv, NEW o \in Occurrence, Claims(o), run = NoRun,
         UNCHANGED <<row, chats, bot, now, faults>>,
         tick' \in TickRow, tick'.pending = tick.pending \ {o}, tick'.due = tick.due,
         ~tick'.on => tick' = NoTick
  PROVE  RoutinesInv'
<1>1. /\ RoutinesTypeOK /\ Chats /\ TickStands /\ RefusedForGood /\ Served /\ NoOverlap
      /\ revision \in 1..MaxRevision + 1
      /\ MayRun(o) /\ run' = [occ |-> o, at |-> "send"]
      /\ UNCHANGED <<enabled, archived, revision, nextDue, chats, active, pauses, now, faults>>
  BY DEF Claims, RoutinesInv, RoutinesTypeOK, row, bot
<1>2. CASE claim[o] = "none"
  <2>1. claim' = [claim EXCEPT ![o] = "claimed"] /\ payload' = [payload EXCEPT ![o] = revision]
    BY <1>2 DEF Claims
  <2>2. RoutinesTypeOK'
    <3>1. run' \in [occ : Occurrence \cup {0}, at : {"idle", "send", "record"}]
      BY <1>1
    <3>2. claim' \in [Occurrence -> {"none", "claimed", "submitted", "skipped"}]
      BY <1>1, <2>1 DEF RoutinesTypeOK
    <3>3. payload' \in [Occurrence -> 0..MaxRevision + 1]
      <4>1. revision \in 0..MaxRevision + 1
        BY <1>1
      <4>2. QED
        BY <1>1, <2>1, <4>1 DEF RoutinesTypeOK
    <3>4. QED
      BY <1>1, <3>1, <3>2, <3>3 DEF RoutinesTypeOK, TickRow
  <2>3. /\ claim'[o] = "claimed" /\ payload'[o] = revision
        /\ \A p \in Occurrence \ {o} : claim'[p] = claim[p] /\ payload'[p] = payload[p]
    BY <1>1, <2>1 DEF RoutinesTypeOK
  <2>4. Chats'
    BY <1>1, <1>2, <2>3 DEF Chats
  <2>5. RunStands'
    BY <1>1, <2>3 DEF RunStands, MayRun
  <2>6. TickStands'
    BY <1>1, <2>3 DEF TickStands, RoutinesTypeOK
  <2>7. RefusedForGood'
    BY <1>1, <2>3 DEF RefusedForGood
  <2>8. Served' /\ NoOverlap'
    <3>1. \A p \in Occurrence : claim[p] # "claimed" /\ (claim[p] = "submitted" => ~Live(p))
      BY <1>1, <1>2 DEF MayRun, Working
    <3>2. \A p \in Occurrence : ~WorkedOn(p)
      BY <1>1, <3>1 DEF Served, WorkedOn, Live
    <3>3. \A p \in Occurrence : ~WorkedOn(p)'
      BY <1>1, <3>2 DEF WorkedOn
    <3>4. \A p \in Occurrence : AtWork(p)' => p = o
      BY <2>3, <3>1, <3>3 DEF AtWork
    <3>5. Served'
      BY <1>1, <1>2, <2>3, <3>3 DEF Served
    <3>6. QED
      BY <3>4, <3>5 DEF NoOverlap, OccurrencesNeverOverlap
  <2>9. QED
    BY <2>2, <2>4, <2>5, <2>6, <2>7, <2>8 DEF RoutinesInv
<1>3. CASE claim[o] # "none"
  <2>1. claim' = claim /\ payload' = payload
    BY <1>3 DEF Claims
  <2>2. RoutinesTypeOK'
    BY <1>1, <2>1 DEF RoutinesTypeOK, TickRow
  <2>3. RunStands'
    BY <1>1, <1>3, <2>1 DEF RunStands, MayRun
  <2>4. TickStands' /\ Chats' /\ RefusedForGood'
    BY <1>1, <2>1 DEF TickStands, Chats, RefusedForGood
  <2>5. Served' /\ NoOverlap'
    BY <1>1, <2>1 DEF NoOverlap, OccurrencesNeverOverlap, AtWork, WorkedOn, Served
  <2>6. QED
    BY <2>2, <2>3, <2>4, <2>5 DEF RoutinesInv
<1>4. QED
  BY <1>2, <1>3

\* A manual run starts outside of ticks.
LEMMA RunNowKeeps ==
  ASSUME RoutinesInv, NEW m \in Click, RunNow(m)
  PROVE  RoutinesInv'
<1>1. /\ m \in Occurrence /\ Claims(m) /\ run = NoRun /\ ~tick.on /\ tick' = tick
      /\ tick \in TickRow /\ tick = NoTick
      /\ UNCHANGED <<row, chats, bot, now, faults>>
  BY DEF RunNow, RoutinesLoopFree, Occurrence, RoutinesInv, RoutinesTypeOK, TickRow, TickStands
<1>2. tick.pending = tick.pending \ {m}
  BY <1>1 DEF NoTick
<1>3. QED
  BY <1>1, <1>2, ClaimsKeep

\* The request of an occurrence is sent once; a repeated one is replayed.
LEMMA SendKeeps ==
  ASSUME RoutinesInv, Send
  PROVE  RoutinesInv'
<1> DEFINE o == run.occ
           c == [text |-> payload[o], status |-> "queued"]
<1>1. /\ RoutinesTypeOK /\ Chats /\ RunStands /\ TickStands /\ RefusedForGood /\ Served /\ NoOverlap
      /\ run.at = "send" /\ chats' = [chats EXCEPT ![o] = Sent(o)] /\ run' = [run EXCEPT !.at = "record"]
      /\ UNCHANGED <<enabled, archived, revision, nextDue, claim, payload, active, pauses, now, tick, faults>>
  BY DEF Send, RoutinesInv, row, bot
<1>2. /\ run # NoRun /\ o \in Occurrence /\ ~archived /\ active /\ claim[o] # "none" /\ o \notin tick.pending
      /\ o \in Scheduled => enabled /\ (claim[o] # "submitted" => payload[o] = revision)
  BY <1>1, RunFacts DEF RunStands
<1>3. /\ run' = [occ |-> o, at |-> "record"]
      /\ chats[o] \in Seq(ChatRow) /\ chats \in [Occurrence -> Seq(ChatRow)]
  BY <1>1, <1>2 DEF RoutinesTypeOK, ChatRow
<1>4. c \in ChatRow
  BY <1>1, <1>2 DEF Chats, ChatRow, RoutinesTypeOK
<1> HIDE DEF c
<1>5. /\ Sent(o) \in Seq(ChatRow) /\ Len(Sent(o)) = 1 /\ Sent(o) # <<>>
      /\ chats[o] = <<>> => Sent(o)[1] = c
      /\ chats[o] # <<>> => Sent(o) = chats[o]
  <2>1. CASE chats[o] = <<>>
    <3>1. Sent(o) = Append(<<>>, c)
      BY <2>1 DEF Sent, c
    <3>2. QED
      BY <1>4, <2>1, <3>1
  <2>2. CASE chats[o] # <<>>
    <3>1. Sent(o) = chats[o]
      BY <2>2 DEF Sent
    <3>2. Len(chats[o]) \in Nat /\ Len(chats[o]) # 0
      BY <1>3, <2>2, EmptySeq
    <3>3. Len(chats[o]) \in {0, 1}
      BY <1>1, <1>2 DEF Chats
    <3>4. Len(chats[o]) = 1
      BY <3>2, <3>3
    <3>5. QED
      BY <1>3, <2>2, <3>1, <3>4
  <2>3. QED
    BY <2>1, <2>2
<1>6. chats' \in [Occurrence -> Seq(ChatRow)] /\ chats'[o] = Sent(o)
      /\ \A p \in Occurrence \ {o} : chats'[p] = chats[p]
  BY <1>1, <1>2, <1>3, <1>5
<1>7. RoutinesTypeOK'
  BY <1>1, <1>2, <1>3, <1>6 DEF RoutinesTypeOK, ChatRow
<1>8. Chats'
  <2>1. ASSUME NEW p \in Occurrence
        PROVE  /\ Len(chats'[p]) \in {0, 1}
               /\ claim[p] = "none" => chats'[p] = <<>>
               /\ claim[p] = "submitted" => Len(chats'[p]) = 1
               /\ claim[p] # "none" => payload[p] \in 1..revision
    <3>1. CASE p = o
      BY <1>1, <1>2, <1>5, <1>6, <3>1 DEF Chats
    <3>2. CASE p # o
      BY <1>1, <1>6, <3>2 DEF Chats
    <3>3. QED
      BY <3>1, <3>2
  <2>2. QED
    BY <1>1, <2>1 DEF Chats
<1>9. RunStands'
  BY <1>1, <1>2, <1>3, <1>5, <1>6 DEF RunStands
<1>10. TickStands' /\ RefusedForGood'
  BY <1>1 DEF TickStands, RefusedForGood
<1>11. Served' /\ NoOverlap'
  <2>1. claim[o] = "submitted" => chats[o] # <<>>
    <3>1. Len(<<>>) = 0
      OBVIOUS
    <3>2. QED
      BY <1>1, <1>2, <3>1 DEF Chats
  <2>2. chats[o] = <<>> => \A i \in DOMAIN Sent(o) : Sent(o)[i].status = "queued"
    <3>1. DOMAIN Sent(o) = {1}
      BY <1>5
    <3>2. QED
      BY <1>5, <3>1 DEF c
  <2>3. \A p \in Occurrence : WorkedOn(p)' <=> WorkedOn(p)
    BY <1>5, <1>6, <2>2 DEF WorkedOn
  <2>4. Served'
    BY <1>1, <1>5, <1>6, <2>1, <2>3 DEF Served
  <2>5. QED
    BY <1>1, <2>3, <2>4 DEF NoOverlap, OccurrencesNeverOverlap, AtWork
<1>12. QED
  BY <1>7, <1>8, <1>9, <1>10, <1>11 DEF RoutinesInv

\* The occurrence is submitted with the task its request made.
LEMMA RecordKeeps ==
  ASSUME RoutinesInv, Record
  PROVE  RoutinesInv'
<1> DEFINE o == run.occ
           s == chats[o]
           c == [s[1] EXCEPT !.status = IF s[1].status = "queued" THEN "running" ELSE s[1].status]
           e == [s EXCEPT ![1] = c]
<1>1. /\ RoutinesTypeOK /\ Chats /\ RunStands /\ TickStands /\ RefusedForGood /\ Served /\ NoOverlap
      /\ claim' = [claim EXCEPT ![o] = "submitted"] /\ run' = NoRun
      /\ run.at = "record"
      /\ UNCHANGED <<enabled, archived, revision, nextDue, payload, active, pauses, now, tick, faults>>
  BY DEF Record, RoutinesInv, row, bot
<1>2. chats' = [chats EXCEPT ![o] = e]
  BY DEF Record
<1>3. /\ o \in Occurrence /\ claim[o] # "none" /\ s # <<>> /\ o \notin tick.pending
      /\ chats \in [Occurrence -> Seq(ChatRow)] /\ s \in Seq(ChatRow)
  BY <1>1, RunFacts DEF RunStands, RoutinesTypeOK, ChatRow
<1>4. Len(s) = 1 /\ DOMAIN s = {1} /\ s[1] \in ChatRow
  <2>1. Len(s) \in Nat /\ Len(s) # 0
    BY <1>3, EmptySeq
  <2>2. Len(s) = 1
    <3>1. Len(s) \in {0, 1}
      BY <1>1, <1>3 DEF Chats
    <3>2. QED
      BY <2>1, <3>1
  <2>3. QED
    BY <1>3, <2>2
<1> HIDE DEF s
<1>5. /\ c \in ChatRow /\ c.status \in {"running", "ended"}
      /\ c.status = "running" => s[1].status \in {"queued", "running"}
  BY <1>4 DEF ChatRow
<1> HIDE DEF c
<1>6. e \in Seq(ChatRow) /\ Len(e) = 1 /\ DOMAIN e = {1} /\ e[1] = c
  BY <1>3, <1>4, <1>5
<1> HIDE DEF e
<1>7. /\ chats' \in [Occurrence -> Seq(ChatRow)] /\ chats'[o] = e
      /\ \A p \in Occurrence \ {o} : chats'[p] = chats[p]
      /\ claim'[o] = "submitted" /\ \A p \in Occurrence \ {o} : claim'[p] = claim[p]
  BY <1>1, <1>2, <1>3, <1>6 DEF RoutinesTypeOK
<1>8. RoutinesTypeOK'
  BY <1>1, <1>3, <1>7 DEF RoutinesTypeOK, ChatRow, NoRun
<1>9. Chats'
  <2>1. ASSUME NEW p \in Occurrence
        PROVE  /\ Len(chats'[p]) \in {0, 1}
               /\ claim'[p] = "none" => chats'[p] = <<>>
               /\ claim'[p] = "submitted" => Len(chats'[p]) = 1
               /\ claim'[p] # "none" => payload[p] \in 1..revision
    <3>1. CASE p = o
      BY <1>1, <1>3, <1>6, <1>7, <3>1 DEF Chats
    <3>2. CASE p # o
      BY <1>1, <1>7, <3>2 DEF Chats
    <3>3. QED
      BY <3>1, <3>2
  <2>2. QED
    BY <1>1, <2>1 DEF Chats
<1>10. RunStands' /\ TickStands' /\ RefusedForGood'
  BY <1>1, <1>3, <1>7 DEF RunStands, TickStands, RefusedForGood
<1>11. Served' /\ NoOverlap'
  <2>1. /\ \A p \in Occurrence \ {o} : WorkedOn(p)' <=> WorkedOn(p)
        /\ \A i \in DOMAIN chats'[o] : chats'[o][i].status \in {"running", "ended"}
    BY <1>5, <1>6, <1>7 DEF WorkedOn
  <2>2. Served'
    BY <1>1, <1>7, <2>1 DEF Served
  <2>3. ASSUME pauses = 0, NEW p \in Occurrence, p = o, WorkedOn(p)' PROVE AtWork(p)
    <3>1. claim[o] # "skipped"
      <4>1. run # NoRun
        BY <1>1, RunFacts
      <4>2. QED
        BY <1>1, <1>3, <2>3, <4>1 DEF RunStands, RefusedForGood
    <3>2. CASE claim[o] = "submitted"
      <4>1. s[1].status \in {"running", "ended"}
        BY <1>1, <1>3, <1>4, <3>2 DEF Served, s
      <4>2. c.status = "running"
        <5>1. \E i \in DOMAIN e : e[i].status = "running"
          BY <1>7, <2>3 DEF WorkedOn
        <5>2. QED
          BY <1>6, <5>1
      <4>3. s[1].status = "running"
        BY <1>5, <4>1, <4>2
      <4>4. QED
        BY <1>4, <2>3, <4>3 DEF WorkedOn, AtWork, s
    <3>3. QED
      BY <1>1, <1>3, <2>3, <3>1, <3>2 DEF RoutinesTypeOK, AtWork
  <2>4. pauses = 0 => \A p \in Occurrence : AtWork(p)' => AtWork(p)
    BY <1>1, <1>3, <1>7, <2>1, <2>3 DEF AtWork
  <2>5. QED
    BY <1>1, <2>2, <2>4 DEF NoOverlap, OccurrencesNeverOverlap
<1>12. QED
  BY <1>8, <1>9, <1>10, <1>11 DEF RoutinesInv

-----------------------------------------------------------------------------
(* The scheduler *)

\* A tick plans to resume what is claimed and to run what is due.
LEMMA TickKeeps ==
  ASSUME RoutinesInv, Tick
  PROVE  RoutinesInv'
<1>1. /\ RoutinesTypeOK /\ Chats /\ RunStands /\ RefusedForGood /\ Served /\ NoOverlap /\ run = NoRun
      /\ tick' = [on |-> TRUE, pending |-> DuePending, due |-> Due, revision |-> revision]
      /\ UNCHANGED <<enabled, archived, revision, nextDue, claim, payload, chats, active, pauses, now,
                     run, faults>>
  BY DEF Tick, RoutinesLoopFree, RoutinesInv, row, bot
<1>2. DuePending \subseteq Occurrence /\ \A o \in DuePending : claim[o] = "claimed"
  BY DEF DuePending
<1>3. Due \in Scheduled \cup {0}
  <2>1. /\ nextDue \in Nat /\ now \in Nat /\ now <= MaxTime /\ 1 <= nextDue /\ MaxTime \in Nat
    BY <1>1, RoutinesAssumption DEF RoutinesTypeOK
  <2>2. QED
    BY <2>1 DEF Due, Scheduled
<1>4. RoutinesTypeOK'
  <2>1. Due \in 0..MaxTime + 1 /\ revision \in 0..MaxRevision + 1
    BY <1>1, <1>3, RoutinesAssumption DEF Scheduled, RoutinesTypeOK
  <2>2. QED
    BY <1>1, <1>2, <2>1 DEF RoutinesTypeOK
<1>5. TickStands' /\ RunStands'
  BY <1>1, <1>2, <1>3 DEF TickStands, RunStands, NoRun
<1>6. Chats' /\ RefusedForGood'
  BY <1>1 DEF Chats, RefusedForGood
<1>7. Served' /\ NoOverlap'
  BY <1>1 DEF NoOverlap, OccurrencesNeverOverlap, AtWork, WorkedOn, Served
<1>8. QED
  BY <1>4, <1>5, <1>6, <1>7 DEF RoutinesInv

\* A claim that was left is run again or given up for good.
LEMMA TickPendingKeeps ==
  ASSUME RoutinesInv, NEW o \in Occurrence, TickPending(o)
  PROVE  RoutinesInv'
<1>1. /\ RoutinesTypeOK /\ Chats /\ RunStands /\ TickStands /\ RefusedForGood /\ Served /\ NoOverlap
      /\ tick.on /\ run = NoRun /\ o \in tick.pending /\ tick \in TickRow
      /\ tick' = [tick EXCEPT !.pending = tick.pending \ {o}]
      /\ UNCHANGED <<row, chats, bot, now, faults>>
  BY DEF TickPending, RoutinesInv, RoutinesTypeOK, TickRow
<1>2. /\ tick' \in TickRow /\ tick'.pending = tick.pending \ {o} /\ tick'.due = tick.due
      /\ tick'.on = tick.on
  BY <1>1 DEF TickRow
<1>3. CASE Claims(o)
  BY <1>1, <1>2, <1>3, ClaimsKeep
<1>4. CASE ~MayRun(o) /\ Skipped(o) /\ UNCHANGED <<payload, run>>
  <2>1. /\ claim[o] = "claimed" /\ claim' = [claim EXCEPT ![o] = "skipped"]
        /\ UNCHANGED <<enabled, archived, revision, nextDue, payload, chats, active, pauses, now, run, faults>>
    BY <1>1, <1>4 DEF TickStands, Skipped, row, bot
  <2>2. claim'[o] = "skipped" /\ \A p \in Occurrence \ {o} : claim'[p] = claim[p]
    BY <1>1, <2>1 DEF RoutinesTypeOK
  <2>3. RoutinesTypeOK'
    BY <1>1, <1>2, <2>1 DEF RoutinesTypeOK, TickRow
  <2>4. Chats'
    BY <1>1, <2>1, <2>2 DEF Chats
  <2>5. RunStands' /\ TickStands'
    BY <1>1, <1>2, <2>1, <2>2 DEF RunStands, TickStands, RoutinesTypeOK
  <2>6. RefusedForGood'
    BY <1>1, <1>4, <2>1, <2>2 DEF RefusedForGood, MayRun
  <2>7. Served' /\ NoOverlap'
    BY <1>1, <2>1, <2>2 DEF NoOverlap, OccurrencesNeverOverlap, AtWork, WorkedOn, Served
  <2>8. QED
    BY <2>3, <2>4, <2>5, <2>6, <2>7 DEF RoutinesInv
<1>5. QED
  BY <1>3, <1>4 DEF TickPending

\* The due occurrence runs, or the routine goes on to its next instant.
LEMMA TickDueKeeps ==
  ASSUME RoutinesInv, TickDue
  PROVE  RoutinesInv'
<1>1. /\ RoutinesTypeOK /\ Chats /\ RunStands /\ TickStands /\ RefusedForGood /\ Served /\ NoOverlap
      /\ tick.on /\ run = NoRun /\ tick.pending = {} /\ tick \in TickRow
      /\ UNCHANGED <<enabled, archived, revision, chats, bot, now, faults>>
  BY DEF TickDue, RoutinesInv, RoutinesTypeOK, TickRow
<1>2. CASE tick.due # 0 /\ Claims(tick.due) /\ UNCHANGED <<nextDue, tick>>
  <2>1. tick.due \in Occurrence
    BY <1>1, <1>2 DEF TickStands, Occurrence
  <2>2. tick.pending = tick.pending \ {tick.due}
    BY <1>1
  <2>3. QED
    BY <1>1, <1>2, <2>1, <2>2, ClaimsKeep DEF row
<1>3. CASE /\ nextDue' = IF tick.due = 0 THEN nextDue ELSE Advanced
           /\ tick' = NoTick /\ UNCHANGED <<claim, payload, run>>
  <2>1. nextDue' \in 1..MaxTime + 1
    <3>1. now + 1 \in 1..MaxTime + 1
      BY <1>1, RoutinesAssumption DEF RoutinesTypeOK
    <3>2. QED
      BY <1>1, <1>3, <3>1 DEF RoutinesTypeOK, Advanced
  <2>2. NoTick \in TickRow
    BY RoutinesAssumption DEF NoTick, TickRow
  <2>3. RoutinesTypeOK'
    BY <1>1, <1>3, <2>1, <2>2 DEF RoutinesTypeOK, TickRow, bot
  <2>4. Chats' /\ RunStands' /\ TickStands' /\ RefusedForGood'
    BY <1>1, <1>3 DEF Chats, RunStands, TickStands, RefusedForGood, NoTick, bot
  <2>5. Served' /\ NoOverlap'
    BY <1>1, <1>3 DEF NoOverlap, OccurrencesNeverOverlap, AtWork, WorkedOn, Served, bot
  <2>6. QED
    BY <2>3, <2>4, <2>5 DEF RoutinesInv
<1>4. QED
  BY <1>2, <1>3 DEF TickDue

-----------------------------------------------------------------------------
(* The user, the bot's work, time and failures *)

\* An edit makes a new revision, which no refused occurrence has.
LEMMA SaveKeeps ==
  ASSUME RoutinesInv, NEW b \in BOOLEAN, Save(b)
  PROVE  RoutinesInv'
<1>1. /\ RoutinesTypeOK /\ Chats /\ RunStands /\ TickStands /\ RefusedForGood /\ Served /\ NoOverlap
      /\ run = NoRun /\ ~archived /\ revision < MaxRevision
      /\ enabled' = b /\ revision' = revision + 1 /\ nextDue' = now + 1
      /\ UNCHANGED <<archived, claim, payload, chats, active, pauses, now, run, tick, faults>>
  BY DEF Save, RoutinesLoopFree, RoutinesInv, bot
<1>2. /\ revision \in Nat /\ 1 <= revision /\ now \in Nat /\ now <= MaxTime
      /\ MaxTime \in Nat /\ MaxRevision \in Nat
  BY <1>1, RoutinesAssumption DEF RoutinesTypeOK
<1>3. revision' \in 1..MaxRevision + 1 /\ nextDue' \in 1..MaxTime + 1
  BY <1>1, <1>2
<1>4. RoutinesTypeOK'
  BY <1>1, <1>3 DEF RoutinesTypeOK
<1>5. \A o \in Occurrence : claim[o] # "none" => payload[o] \in 1..revision' /\ payload[o] # revision'
  BY <1>1, <1>2 DEF Chats
<1>6. Chats'
  BY <1>1, <1>2, <1>5 DEF Chats
<1>7. RunStands' /\ TickStands'
  BY <1>1 DEF RunStands, TickStands
<1>8. RefusedForGood'
  BY <1>1, <1>5 DEF RefusedForGood
<1>9. Served' /\ NoOverlap'
  BY <1>1 DEF NoOverlap, OccurrencesNeverOverlap, AtWork, WorkedOn, Served
<1>10. QED
  BY <1>4, <1>6, <1>7, <1>8, <1>9 DEF RoutinesInv

\* A deleted routine refuses everything.
LEMMA ArchiveKeeps ==
  ASSUME RoutinesInv, Archive
  PROVE  RoutinesInv'
<1>1. /\ RoutinesTypeOK /\ Chats /\ RunStands /\ TickStands /\ RefusedForGood /\ Served /\ NoOverlap
      /\ run = NoRun /\ ~archived /\ revision <= MaxRevision
      /\ archived' = TRUE /\ enabled' = FALSE /\ revision' = revision + 1
      /\ UNCHANGED <<nextDue, claim, payload, chats, active, pauses, now, run, tick, faults>>
  BY DEF Archive, RoutinesLoopFree, RoutinesInv, bot, Chats
<1>2. revision \in Nat /\ 1 <= revision /\ MaxRevision \in Nat
  BY <1>1, RoutinesAssumption DEF RoutinesTypeOK
<1>3. revision' \in 1..MaxRevision + 1
  BY <1>1, <1>2
<1>4. RoutinesTypeOK'
  BY <1>1, <1>3 DEF RoutinesTypeOK
<1>5. \A o \in Occurrence : claim[o] # "none" => payload[o] \in 1..revision'
  BY <1>1, <1>2 DEF Chats
<1>6. Chats'
  BY <1>1, <1>5 DEF Chats
<1>7. RunStands' /\ TickStands' /\ RefusedForGood'
  BY <1>1 DEF RunStands, TickStands, RefusedForGood
<1>8. Served' /\ NoOverlap'
  BY <1>1 DEF NoOverlap, OccurrencesNeverOverlap, AtWork, WorkedOn, Served
<1>9. QED
  BY <1>4, <1>6, <1>7, <1>8 DEF RoutinesInv

\* After a pause nothing is said about what was refused or overlaps.
LEMMA PauseKeeps ==
  ASSUME RoutinesInv, PauseOrResume
  PROVE  RoutinesInv'
<1>1. /\ RoutinesTypeOK /\ Chats /\ RunStands /\ TickStands /\ Served /\ run = NoRun
      /\ active' = ~active /\ pauses' = pauses + 1 /\ pauses < MaxPauses
      /\ UNCHANGED <<enabled, archived, revision, nextDue, claim, payload, chats, now, run, tick, faults>>
  BY DEF PauseOrResume, RoutinesLoopFree, RoutinesInv, row
<1>2. pauses' \in 0..MaxPauses /\ pauses' # 0
  BY <1>1, RoutinesAssumption DEF RoutinesTypeOK
<1>3. RoutinesTypeOK'
  BY <1>1, <1>2 DEF RoutinesTypeOK
<1>4. Chats' /\ RunStands' /\ TickStands' /\ Served'
  BY <1>1 DEF Chats, RunStands, TickStands, Served, WorkedOn
<1>5. QED
  BY <1>2, <1>3, <1>4 DEF RoutinesInv, RefusedForGood, NoOverlap

\* A task of an occurrence ends.
LEMMA TaskEndsKeeps ==
  ASSUME RoutinesInv, NEW o \in Occurrence, TaskEnds(o)
  PROVE  RoutinesInv'
<1>1. /\ RoutinesTypeOK /\ Chats /\ RunStands /\ TickStands /\ RefusedForGood /\ Served /\ NoOverlap /\ run = NoRun
      /\ UNCHANGED <<enabled, archived, revision, nextDue, claim, payload, active, pauses, now, run, tick,
                     faults>>
  BY DEF TaskEnds, RoutinesLoopFree, RoutinesInv, row, bot
<1> DEFINE s == chats[o]
<1>2. PICK i \in DOMAIN s : chats' = [chats EXCEPT ![o][i].status = "ended"]
  BY DEF TaskEnds
<1> DEFINE c == [s[i] EXCEPT !.status = "ended"]
           e == [s EXCEPT ![i] = c]
<1>3. /\ s \in Seq(ChatRow) /\ DOMAIN s = 1..Len(s) /\ s[i] \in ChatRow /\ i \in 1..Len(s)
      /\ chats \in [Occurrence -> Seq(ChatRow)] /\ chats' = [chats EXCEPT ![o] = e]
  <2>1. chats \in [Occurrence -> Seq(ChatRow)] /\ s \in Seq(ChatRow)
    BY <1>1 DEF RoutinesTypeOK, ChatRow
  <2>2. DOMAIN s = 1..Len(s) /\ i \in 1..Len(s)
    BY <2>1, LenProperties
  <2>3. s[i] \in ChatRow
    BY <2>1, <2>2, ElementOfSeq
  <2>4. QED
    BY <1>2, <2>1, <2>2, <2>3
<1> HIDE DEF s
<1>4. c \in ChatRow /\ c.status = "ended"
  BY <1>3 DEF ChatRow
<1> HIDE DEF c
<1>5. /\ e \in Seq(ChatRow) /\ Len(e) = Len(s) /\ DOMAIN e = DOMAIN s
      /\ \A j \in DOMAIN s : e[j] = IF j = i THEN c ELSE s[j]
  BY <1>3, <1>4, ExceptSeq, LenProperties
<1> HIDE DEF e
<1>6. /\ chats' \in [Occurrence -> Seq(ChatRow)] /\ chats'[o] = e
      /\ \A p \in Occurrence \ {o} : chats'[p] = chats[p]
  BY <1>3, <1>5
<1>7. RoutinesTypeOK'
  BY <1>1, <1>6 DEF RoutinesTypeOK, ChatRow
<1>8. \A p \in Occurrence : Len(chats'[p]) = Len(chats[p])
  BY <1>5, <1>6 DEF s
<1>9. Chats'
  <2>1. chats[o] # <<>> /\ claim[o] # "none"
    <3>1. s # <<>>
      BY <1>3
    <3>2. QED
      BY <1>1, <3>1 DEF Chats, s
  <2>2. QED
    BY <1>1, <1>6, <1>8, <2>1 DEF Chats
<1>10. RunStands' /\ TickStands' /\ RefusedForGood'
  BY <1>1 DEF RunStands, TickStands, RefusedForGood
<1>11. Served' /\ NoOverlap'
  <2>1. \A p \in Occurrence : Quieter(chats'[p], chats[p])
    BY <1>4, <1>5, <1>6 DEF Quieter, s
  <2>2. QED
    BY <1>1, <2>1, QuieterKeeps
<1>12. QED
  BY <1>7, <1>9, <1>10, <1>11 DEF RoutinesInv

\* Time passes.
LEMMA ClockKeeps ==
  ASSUME RoutinesInv, Clock
  PROVE  RoutinesInv'
<1>1. /\ RoutinesTypeOK /\ now < MaxTime /\ now' = now + 1
      /\ UNCHANGED <<enabled, archived, revision, nextDue, claim, payload, chats, active, pauses, run,
                     tick, faults>>
  BY DEF Clock, RoutinesInv, row, bot
<1>2. now' \in 0..MaxTime
  BY <1>1, RoutinesAssumption DEF RoutinesTypeOK
<1>3. RoutinesTypeOK'
  BY <1>1, <1>2 DEF RoutinesTypeOK
<1>4. QED
  BY <1>1, <1>3 DEF RoutinesInv, Chats, RunStands, TickStands, RefusedForGood, NoOverlap,
       OccurrencesNeverOverlap, AtWork, WorkedOn, Served

\* A fault abandons the run and the tick as they stand.
LEMMA StorageErrorKeeps ==
  ASSUME RoutinesInv, StorageError
  PROVE  RoutinesInv'
<1>1. /\ RoutinesTypeOK /\ faults < MaxFaults /\ faults' = faults + 1 /\ run' = NoRun /\ tick' = NoTick
      /\ UNCHANGED <<enabled, archived, revision, nextDue, claim, payload, chats, active, pauses, now>>
  BY DEF StorageError, RoutinesInv, row, bot
<1>2. faults' \in 0..MaxFaults /\ NoTick \in TickRow
  BY <1>1, RoutinesAssumption DEF RoutinesTypeOK, NoTick, TickRow
<1>3. RoutinesTypeOK'
  BY <1>1, <1>2 DEF RoutinesTypeOK, NoRun, TickRow
<1>4. RunStands' /\ TickStands'
  BY <1>1 DEF RunStands, TickStands, NoTick
<1>5. QED
  BY <1>1, <1>3, <1>4 DEF RoutinesInv, Chats, RefusedForGood, NoOverlap,
       OccurrencesNeverOverlap, AtWork, WorkedOn, Served

\* A crash ends every task.
LEMMA RestartKeeps ==
  ASSUME RoutinesInv, RoutinesRestart
  PROVE  RoutinesInv'
<1>1. /\ RoutinesTypeOK /\ Chats /\ Served /\ NoOverlap /\ RefusedForGood
      /\ faults < MaxFaults /\ faults' = faults + 1 /\ run' = NoRun /\ tick' = NoTick
      /\ UNCHANGED <<enabled, archived, revision, nextDue, claim, payload, active, pauses, now>>
  BY DEF RoutinesRestart, RoutinesInv, row, bot
<1>2. faults' \in 0..MaxFaults /\ NoTick \in TickRow
  BY <1>1, RoutinesAssumption DEF RoutinesTypeOK, NoTick, TickRow
<1>3. ASSUME NEW o \in Occurrence
      PROVE  /\ chats'[o] \in Seq(ChatRow) /\ Len(chats'[o]) = Len(chats[o])
             /\ chats[o] = <<>> => chats'[o] = <<>>
             /\ Quieter(chats'[o], chats[o])
  <2> DEFINE s == chats[o]
             e == [i \in DOMAIN s |-> [s[i] EXCEPT !.status = "ended"]]
  <2>1. /\ chats'[o] = e
        /\ s \in Seq(ChatRow) /\ Len(s) \in Nat /\ DOMAIN s = 1..Len(s)
        /\ \A i \in DOMAIN s : s[i] \in ChatRow
    <3>1. chats'[o] = e
      BY DEF RoutinesRestart
    <3>2. s \in Seq(ChatRow)
      BY <1>1 DEF RoutinesTypeOK, ChatRow
    <3>3. QED
      BY <3>1, <3>2, LenProperties, ElementOfSeq
  <2>2. DOMAIN e = DOMAIN s /\ \A i \in DOMAIN s : e[i] = [s[i] EXCEPT !.status = "ended"]
    OBVIOUS
  <2>3. e = [i \in 1..Len(s) |-> e[i]]
    BY <2>1
  <2> HIDE DEF s, e
  <2>4. \A i \in DOMAIN s : e[i] \in ChatRow /\ e[i].status = "ended"
    BY <2>1, <2>2 DEF ChatRow
  <2>5. e \in [1..Len(s) -> ChatRow]
    BY <2>1, <2>2, <2>3, <2>4
  <2>6. e \in Seq(ChatRow)
    BY <2>1, <2>5, SeqDef
  <2>7. Len(e) = Len(s)
    <3>1. DOMAIN e = 1..Len(e) /\ Len(e) \in Nat
      BY <2>6, LenProperties
    <3>2. \A m, n \in Nat : 1..m = 1..n => m = n
      OBVIOUS
    <3>3. QED
      BY <2>1, <2>2, <3>1, <3>2
  <2>8. s = <<>> => e = <<>>
    BY <2>1, <2>6, <2>7, EmptySeq
  <2>9. Quieter(e, s)
    BY <2>2, <2>4 DEF Quieter
  <2>10. QED
    BY <2>1, <2>6, <2>7, <2>8, <2>9 DEF s
<1>4. chats' \in [Occurrence -> Seq(ChatRow)]
  BY <1>3 DEF RoutinesRestart
<1>5. RoutinesTypeOK'
  BY <1>1, <1>2, <1>4 DEF RoutinesTypeOK, NoRun, TickRow, ChatRow
<1>6. Chats'
  BY <1>1, <1>3 DEF Chats
<1>7. RunStands' /\ TickStands' /\ RefusedForGood'
  BY <1>1 DEF RunStands, TickStands, NoTick, RefusedForGood
<1>8. Served' /\ NoOverlap'
  BY <1>1, <1>3, QuieterKeeps
<1>9. QED
  BY <1>5, <1>6, <1>7, <1>8 DEF RoutinesInv

-----------------------------------------------------------------------------
(* The invariant and what follows from it *)

\* A new routine satisfies the invariant.
LEMMA RoutinesInvInit ==
  ASSUME RoutinesInit
  PROVE  RoutinesInv
<1>1. /\ enabled = TRUE /\ archived = FALSE /\ revision = 1 /\ nextDue = 1
      /\ claim = [o \in Occurrence |-> "none"] /\ payload = [o \in Occurrence |-> 0]
      /\ chats = [o \in Occurrence |-> <<>>]
      /\ active = TRUE /\ pauses = 0 /\ now = 0 /\ run = NoRun /\ tick = NoTick /\ faults = 0
  BY DEF RoutinesInit
<1>2. RoutinesTypeOK
  <2>1. NoTick \in TickRow /\ <<>> \in Seq(ChatRow)
    BY RoutinesAssumption DEF NoTick, TickRow
  <2>2. 1 \in 1..MaxRevision + 1 /\ 1 \in 1..MaxTime + 1 /\ 0 \in 0..MaxTime
        /\ 0 \in 0..MaxRevision + 1 /\ 0 \in 0..MaxFaults /\ 0 \in 0..MaxPauses
    BY RoutinesAssumption
  <2>3. QED
    BY <1>1, <2>1, <2>2 DEF RoutinesTypeOK, TickRow, ChatRow, NoRun
<1>3. Chats
  BY <1>1, RoutinesAssumption DEF Chats
<1>4. RunStands /\ TickStands /\ RefusedForGood
  BY <1>1 DEF RunStands, TickStands, RefusedForGood, NoTick
<1>5. Served /\ NoOverlap
  <2>1. \A o \in Occurrence : claim[o] # "claimed" /\ DOMAIN chats[o] = {}
    BY <1>1
  <2>2. QED
    BY <2>1 DEF NoOverlap, OccurrencesNeverOverlap, AtWork, WorkedOn, Served
<1>6. QED
  BY <1>2, <1>3, <1>4, <1>5 DEF RoutinesInv

\* Every step keeps it.
LEMMA RoutinesInvStep ==
  ASSUME RoutinesInv, [RoutinesNext]_routineVars
  PROVE  RoutinesInv'
<1>1. CASE RoutinesNext
  BY <1>1, SendKeeps, RecordKeeps, TickKeeps, TickDueKeeps, TickPendingKeeps, RunNowKeeps, SaveKeeps,
     TaskEndsKeeps, ArchiveKeeps, PauseKeeps, ClockKeeps, StorageErrorKeeps, RestartKeeps
     DEF RoutinesNext, RunStep, TickStep
<1>2. CASE UNCHANGED routineVars
  <2>1. UNCHANGED <<enabled, archived, revision, nextDue, claim, payload, chats, active, pauses,
                    now, run, tick, faults>>
    BY <1>2 DEF routineVars, row, bot
  <2>2. RoutinesTypeOK'
    BY <2>1 DEF RoutinesInv, RoutinesTypeOK
  <2>3. Chats' /\ RunStands' /\ TickStands' /\ RefusedForGood'
    BY <2>1 DEF RoutinesInv, Chats, RunStands, TickStands, RefusedForGood
  <2>4. Served' /\ NoOverlap'
    BY <2>1 DEF RoutinesInv, NoOverlap, OccurrencesNeverOverlap, AtWork, WorkedOn, Served
  <2>5. QED
    BY <2>2, <2>3, <2>4 DEF RoutinesInv
<1>3. QED
  BY <1>1, <1>2

\* The invariant holds in every state of a routine.
THEOREM RoutinesInvariant == RoutinesSpec => []RoutinesInv
<1>1. RoutinesInit => RoutinesInv
  BY RoutinesInvInit
<1>2. RoutinesInv /\ [RoutinesNext]_routineVars => RoutinesInv'
  BY RoutinesInvStep
<1>3. QED
  BY <1>1, <1>2, PTL DEF RoutinesSpec

\* "no overlap": while the user does not pause the bot, at most one occurrence
\* is claimed or has a task at work, across retries, edits, errors and crashes.
THEOREM NeverOverlap == RoutinesSpec => []NoOverlap
<1>1. RoutinesInv => NoOverlap
  BY DEF RoutinesInv
<1>2. QED
  BY <1>1, RoutinesInvariant, PTL

-----------------------------------------------------------------------------
(* What a step sends *)

\* Only Send sends, and only when nothing was sent.
LEMMA OnlySendSends ==
  ASSUME RoutinesInv, RoutinesNext, ~Send
  PROVE  \A o \in Occurrence : Len(chats'[o]) = Len(chats[o])
<1>1. \A o \in Occurrence : chats[o] \in Seq(ChatRow)
  BY DEF RoutinesInv, RoutinesTypeOK, ChatRow
<1>2. ASSUME NEW s \in Seq(ChatRow), NEW i \in DOMAIN s, NEW x \in {"queued", "running", "ended"}
      PROVE  Len([s EXCEPT ![i].status = x]) = Len(s)
  <2>1. i \in 1..Len(s) /\ s[i] \in ChatRow
    BY LenProperties, ElementOfSeq
  <2>2. [s[i] EXCEPT !.status = x] \in ChatRow
    BY <2>1 DEF ChatRow
  <2>3. QED
    BY <2>1, <2>2, ExceptSeq
<1>3. CASE Record
  <2> DEFINE o == run.occ
             s == chats[o]
  <2>1. o \in Occurrence /\ s # <<>>
    BY <1>3, RunFacts DEF Record, RoutinesInv
  <2>2. s \in Seq(ChatRow) /\ 1 \in DOMAIN s /\ s[1].status \in {"queued", "running", "ended"}
    <3>1. s \in Seq(ChatRow) /\ Len(s) \in Nat \ {0} /\ DOMAIN s = 1..Len(s)
      BY <1>1, <2>1, EmptySeq, LenProperties
    <3>2. 1 \in 1..Len(s)
      BY <3>1
    <3>3. s[1] \in ChatRow
      BY <3>1, <3>2, ElementOfSeq
    <3>4. QED
      BY <3>1, <3>2, <3>3 DEF ChatRow
  <2>3. PICK x \in {"queued", "running", "ended"} : chats' = [chats EXCEPT ![o] = [s EXCEPT ![1].status = x]]
    <3>1. chats' = [chats EXCEPT ![o] = [s EXCEPT ![1].status =
                       IF s[1].status = "queued" THEN "running" ELSE s[1].status]]
      BY <1>3 DEF Record
    <3>2. QED
      BY <2>2, <3>1
  <2>4. QED
    BY <1>1, <1>2, <2>1, <2>2, <2>3 DEF RoutinesInv, RoutinesTypeOK
<1>4. ASSUME NEW o \in Occurrence, TaskEnds(o) PROVE \A p \in Occurrence : Len(chats'[p]) = Len(chats[p])
  BY <1>1, <1>2, <1>4 DEF TaskEnds, RoutinesInv, RoutinesTypeOK
<1>5. CASE RoutinesRestart
  <2>1. ASSUME NEW s \in Seq(ChatRow) PROVE Len([i \in DOMAIN s |-> [s[i] EXCEPT !.status = "ended"]]) = Len(s)
    <3>1. Len(s) \in Nat /\ DOMAIN s = 1..Len(s)
      BY LenProperties
    <3>2. QED
      BY <3>1
  <2>2. QED
    BY <1>1, <1>5, <2>1 DEF RoutinesRestart
<1>6. CASE chats' = chats
  BY <1>6
<1>7. QED
  BY <1>3, <1>4, <1>5, <1>6 DEF RoutinesNext, RunStep, TickStep, Tick, TickDue, TickPending, RunNow, Save,
     Archive, PauseOrResume, Clock, StorageError

\* Send makes the first chat of its occurrence, or none.
LEMMA SendFacts ==
  ASSUME RoutinesInv, Send
  PROVE  /\ run.occ \in Occurrence /\ ~archived /\ claim[run.occ] \notin {"none"}
         /\ \A o \in Occurrence \ {run.occ} : chats'[o] = chats[o]
         /\ chats[run.occ] # <<>> => chats' = chats
         /\ chats[run.occ] = <<>> =>
              /\ Len(chats'[run.occ]) = 1 /\ Len(chats[run.occ]) = 0 /\ claim[run.occ] # "submitted"
              /\ run.occ \in Scheduled => enabled /\ payload[run.occ] = revision
<1> DEFINE o == run.occ
           c == [text |-> payload[o], status |-> "queued"]
<1>1. /\ RoutinesTypeOK /\ Chats /\ RunStands /\ run.at = "send" /\ chats' = [chats EXCEPT ![o] = Sent(o)]
      /\ chats \in [Occurrence -> Seq(ChatRow)]
  BY DEF Send, RoutinesInv, RoutinesTypeOK, ChatRow
<1>2. /\ o \in Occurrence /\ ~archived /\ claim[o] # "none"
      /\ o \in Scheduled => enabled /\ (claim[o] # "submitted" => payload[o] = revision)
  BY <1>1, RunFacts DEF RunStands
<1>3. CASE chats[o] = <<>>
  <2>1. chats'[o] = Append(<<>>, c) /\ \A p \in Occurrence \ {o} : chats'[p] = chats[p]
    BY <1>1, <1>2, <1>3 DEF Sent
  <2>2. Len(chats'[o]) = 1 /\ Len(chats[o]) = 0
    BY <1>3, <2>1
  <2>3. claim[o] # "submitted"
    BY <1>1, <1>2, <2>2 DEF Chats
  <2>4. QED
    BY <1>2, <1>3, <2>1, <2>2, <2>3
<1>4. CASE chats[o] # <<>>
  <2>1. chats' = chats
    BY <1>1, <1>2, <1>4 DEF Sent
  <2>2. QED
    BY <1>2, <1>4, <2>1
<1>5. QED
  BY <1>3, <1>4

\* A scheduled occurrence never speaks for a routine that was edited, disabled
\* or deleted since it was claimed, a manual one never for a deleted one.
THEOREM CurrentSends == RoutinesSpec => OnlyCurrentSends
<1> DEFINE Current ==
      \A o \in Occurrence : Len(chats'[o]) > Len(chats[o]) =>
        /\ ~archived
        /\ o \in Scheduled => enabled /\ payload[o] = revision
<1>1. ASSUME RoutinesInv, RoutinesNext PROVE Current
  <2>1. \A o \in Occurrence : Len(chats[o]) \in Nat
    BY <1>1, LenProperties DEF RoutinesInv, RoutinesTypeOK
  <2>2. CASE Send
    <3>1. \A o \in Occurrence : Len(chats'[o]) > Len(chats[o]) => o = run.occ /\ chats[o] = <<>>
      BY <1>1, <2>1, <2>2, SendFacts
    <3>2. QED
      BY <1>1, <2>2, <3>1, SendFacts
  <2>3. CASE ~Send
    BY <1>1, <2>1, <2>3, OnlySendSends
  <2>4. QED
    BY <2>2, <2>3
<1>2. RoutinesInv /\ [RoutinesNext]_routineVars => [Current]_routineVars
  BY <1>1
<1>3. RoutinesSpec => [][Current]_routineVars
  BY <1>2, RoutinesInvariant, PTL DEF RoutinesSpec
<1>4. QED
  BY <1>3, PTL DEF OnlyCurrentSends

-----------------------------------------------------------------------------
(* A routine implements OnceOnly *)

PhaseOf(s) == CASE s = "none" -> "open" [] s = "submitted" -> "closed" [] OTHER -> "claimed"

Phases  == [o \in Occurrence |-> PhaseOf(claim[o])]
Effects == [o \in Occurrence |-> Len(chats[o])]

\* A step of a routine is a step of OnceOnly, or none, in the abstract view.
LEMMA RoutineStepImplements ==
  ASSUME RoutinesInv, [RoutinesNext]_routineVars
  PROVE  [RoutineOnce!OnceNext]_(RoutineOnce!onceVars)
<1> DEFINE Goal == [RoutineOnce!OnceNext]_(RoutineOnce!onceVars)
           SameEffects == \A o \in Occurrence : Len(chats'[o]) = Len(chats[o])
<1>1. RoutinesTypeOK /\ Chats /\ RunStands /\ TickStands
  BY DEF RoutinesInv
\* No chat is made, and no occurrence moves in the abstract view.
<1>2. ASSUME SameEffects, \A o \in Occurrence : PhaseOf(claim'[o]) = PhaseOf(claim[o]) PROVE Goal
  <2>1. Phases' = Phases /\ Effects' = Effects
    BY <1>2 DEF Phases, Effects
  <2>2. QED
    BY <2>1 DEF RoutineOnce!onceVars, Phases, Effects, PhaseOf
\* An admitted run claims its occurrence, or finds it claimed.
<1>3. ASSUME NEW o \in Occurrence, Claims(o), SameEffects PROVE Goal
  <2>1. CASE claim[o] = "none"
    <3>1. \A p \in Occurrence : claim'[p] = IF p = o THEN "claimed" ELSE claim[p]
      BY <1>1, <1>3, <2>1 DEF Claims, RoutinesTypeOK
    <3>2. PhaseOf("claimed") = "claimed" /\ Phases[o] = "open"
      BY <2>1 DEF Phases, PhaseOf
    <3>3. Phases' = [Phases EXCEPT ![o] = "claimed"] /\ Effects' = Effects
      BY <1>3, <3>1, <3>2 DEF Phases, Effects
    <3>4. \E p \in Occurrence : RoutineOnce!Claim(p)
      BY <3>2, <3>3 DEF RoutineOnce!Claim, Phases, Effects, PhaseOf
    <3>5. QED
      BY <3>4 DEF RoutineOnce!OnceNext
  <2>2. CASE claim[o] # "none"
    BY <1>2, <1>3, <2>2 DEF Claims
  <2>3. QED
    BY <2>1, <2>2
\* A request is sent once, under the claim.
<1>4. CASE Send
  <2>0. PICK o : o = run.occ
    OBVIOUS
  <2>1. claim' = claim /\ o \in Occurrence
    BY <1>4, <2>0, SendFacts DEF Send
  <2>2. CASE chats[o] # <<>>
    BY <1>2, <1>4, <2>0, <2>1, <2>2, SendFacts
  <2>3. CASE chats[o] = <<>>
    <3>1. Phases' = Phases /\ Phases[o] = "claimed"
      BY <1>4, <2>0, <2>1, <2>3, SendFacts DEF Phases, PhaseOf
    <3>2. \A p \in Occurrence : Len(chats'[p]) = IF p = o THEN 1 ELSE Len(chats[p])
      BY <1>4, <2>0, <2>3, SendFacts
    <3>3. Effects' = [Effects EXCEPT ![o] = 1] /\ Effects[o] = 0
      BY <1>4, <2>0, <2>1, <2>3, <3>2, SendFacts DEF Effects
    <3>4. RoutineOnce!Perform(o)
      BY <3>1, <3>3 DEF RoutineOnce!Perform, Phases, Effects, PhaseOf
    <3>5. QED
      BY <2>1, <3>4 DEF RoutineOnce!OnceNext
  <2>4. QED
    BY <2>2, <2>3
\* The recorded occurrence is closed.
<1>5. CASE Record
  <2>0. PICK o : o = run.occ
    OBVIOUS
  <2>1. o \in Occurrence /\ ~Send
    BY <1>1, <1>5, <2>0, RunFacts DEF Record, Send
  <2>2. SameEffects
    BY <1>5, <2>0, <2>1, OnlySendSends DEF RoutinesNext, RunStep
  <2>3. \A p \in Occurrence : claim'[p] = IF p = o THEN "submitted" ELSE claim[p]
    BY <1>1, <1>5, <2>0, <2>1 DEF Record, RoutinesTypeOK
  <2>4. PhaseOf("submitted") = "closed"
    BY DEF PhaseOf
  <2>5. Phases' = [p \in Occurrence |-> IF p \in {o} THEN "closed" ELSE Phases[p]] /\ Effects' = Effects
    BY <2>2, <2>3, <2>4 DEF Phases, Effects
  <2>6. RoutineOnce!Close({o})
    BY <2>5 DEF RoutineOnce!Close, Phases, Effects, PhaseOf
  <2>7. QED
    BY <2>1, <2>6 DEF RoutineOnce!OnceNext
<1>6. ASSUME NEW o \in Occurrence, TickPending(o) PROVE Goal
  <2>1. SameEffects
    BY <1>6 DEF TickPending
  <2>2. CASE Claims(o)
    BY <1>3, <2>1, <2>2
  <2>3. CASE Skipped(o)
    <3>1. claim[o] = "claimed"
      BY <1>1, <1>6 DEF TickPending, TickStands
    <3>2. \A p \in Occurrence : claim'[p] = IF p = o THEN "skipped" ELSE claim[p]
      BY <1>1, <2>3 DEF Skipped, RoutinesTypeOK
    <3>3. PhaseOf("skipped") = "claimed" /\ PhaseOf("claimed") = "claimed"
      BY DEF PhaseOf
    <3>4. \A p \in Occurrence : PhaseOf(claim'[p]) = PhaseOf(claim[p])
      BY <3>1, <3>2, <3>3
    <3>5. QED
      BY <1>2, <2>1, <3>4
  <2>4. QED
    BY <1>6, <2>2, <2>3 DEF TickPending
<1>7. CASE TickDue
  <2>1. SameEffects
    BY <1>7 DEF TickDue
  <2>2. CASE tick.due # 0 /\ Claims(tick.due)
    <3>1. tick.due \in Occurrence
      BY <1>1, <2>2, NoOccurrence DEF TickStands
    <3>2. QED
      BY <1>3, <2>1, <2>2, <3>1
  <2>3. CASE claim' = claim
    BY <1>2, <2>1, <2>3
  <2>4. QED
    BY <1>7, <2>2, <2>3 DEF TickDue
<1>8. ASSUME NEW m \in Click, RunNow(m) PROVE Goal
  BY <1>3, <1>8 DEF RunNow, Occurrence
<1>9. ASSUME RoutinesNext, ~Send, claim' = claim PROVE Goal
  BY <1>2, <1>9, OnlySendSends
<1>10. CASE UNCHANGED routineVars
  <2>1. claim' = claim /\ chats' = chats
    BY <1>10 DEF routineVars
  <2>2. QED
    BY <1>2, <2>1
<1>11. QED
  BY <1>4, <1>5, <1>6, <1>7, <1>8, <1>9, <1>10 DEF RoutinesNext, RunStep, TickStep, Tick, Save, TaskEnds,
     Archive, PauseOrResume, Clock, StorageError, RoutinesRestart

\* "one occurrence, one chat request": a routine implements OnceOnly.
THEOREM RoutinesImplementOnceOnly == RoutinesSpec => RoutinesImplementOnce
<1>1. RoutinesInit => RoutineOnce!OnceInit
  <2>1. ASSUME RoutinesInit PROVE Phases = [o \in Occurrence |-> "open"] /\ Effects = [o \in Occurrence |-> 0]
    <3>1. \A o \in Occurrence : PhaseOf(claim[o]) = "open" /\ Len(chats[o]) = 0
      BY <2>1 DEF RoutinesInit, PhaseOf
    <3>2. QED
      BY <3>1 DEF Phases, Effects
  <2>2. QED
    BY <2>1 DEF RoutineOnce!OnceInit, Phases, Effects, PhaseOf
<1>2. RoutinesInv /\ [RoutinesNext]_routineVars => [RoutineOnce!OnceNext]_(RoutineOnce!onceVars)
  BY RoutineStepImplements
<1>3. QED
  BY <1>1, <1>2, RoutinesInvariant, PTL DEF RoutinesSpec, RoutinesImplementOnce, RoutineOnce!OnceSpec
=============================================================================
