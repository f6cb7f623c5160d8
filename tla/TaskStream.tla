----------------------------- MODULE TaskStream -----------------------------
(***************************************************************************)
(* A browser watches one task: watchTask (taskStream.ts) reads the events  *)
(* that main.py streams from task_events, reconnects behind its cursor     *)
(* when the transport fails, and asks for the task when a stream ends      *)
(* without a last event.  The worker and the stream share an event loop,   *)
(* and the stream is suspended at each event it yields.  The process dies  *)
(* and recovery fails the task without an event (see TaskLifecycle).       *)
(***************************************************************************)
EXTENDS Naturals, Sequences, FiniteSets

CONSTANTS PageSize,    \* the limit of list_task_events
          MaxEvents,   \* bound: events of the task
          MaxAttempts  \* failed attempts before the watch gives up

ASSUME StreamAssumption == PageSize \in Nat \ {0} /\ MaxEvents \in Nat /\ MaxAttempts \in Nat

VARIABLES
  events,   \* task_events of the task in id order: a step, or its last event
  over,     \* is the status of the task terminal
  feed,     \* task_events_stream: where it is, its cursor, what it must yield
  pipe,     \* ids on their way to the browser; 0 is the end of the stream
  watch,    \* watchTask: where it is, its cursor, its failed attempts
  shown     \* ids passed to onEvent; 0 is the event made up from the task

streamVars == <<events, over, feed, pipe, watch, shown>>

NoFeed == [pc |-> "none", cursor |-> 0, page |-> <<>>]
After(i) == [k \in 1..(Len(events) - i) |-> i + k]

StreamTypeOK ==
  /\ events \in Seq({"step", "last"}) /\ Len(events) <= MaxEvents /\ over \in BOOLEAN
  /\ feed \in [pc : {"none", "poll", "yield", "check"}, cursor : 0..MaxEvents,
               page : Seq(1..MaxEvents)]
  /\ pipe \in Seq(0..MaxEvents)
  /\ watch \in [pc : {"connect", "read", "ask", "returned", "failed"}, cursor : 0..MaxEvents,
                attempts : 0..(MaxAttempts + 1)]
  /\ shown \in Seq(0..MaxEvents)

StreamInit ==
  /\ events = <<>> /\ over = FALSE /\ feed = NoFeed /\ pipe = <<>>
  /\ watch = [pc |-> "connect", cursor |-> 0, attempts |-> 0] /\ shown = <<>>

-----------------------------------------------------------------------------
(* The worker *)

\* append_task_event while the task runs; an approval.decided may come later.
AppendStep ==
  /\ Len(events) < MaxEvents
  /\ over => \E i \in DOMAIN events : events[i] = "last"
  /\ events' = Append(events, "step")
  /\ UNCHANGED <<over, feed, pipe, watch, shown>>

\* The terminal status and the last event, with no await between them
FinishTask ==
  /\ ~over /\ Len(events) < MaxEvents
  /\ over' = TRUE /\ events' = Append(events, "last")
  /\ UNCHANGED <<feed, pipe, watch, shown>>

-----------------------------------------------------------------------------
(* task_events_stream *)

\* Mutant: the terminal status ends the stream.
EndOfFeedNow == IF over THEN "none" ELSE "poll"

\* The terminal status ends the stream unless events follow the cursor.
EndOfFeed == IF over /\ After(feed.cursor) = <<>> THEN "none" ELSE "poll"

PollEvents ==
  LET found == After(feed.cursor)
      page  == SubSeq(found, 1, IF Len(found) < PageSize THEN Len(found) ELSE PageSize)
  IN /\ feed.pc = "poll"
     /\ feed' = [feed EXCEPT !.page = page, !.pc = IF page = <<>> THEN "check" ELSE "yield"]
     /\ UNCHANGED <<events, over, pipe, watch, shown>>

YieldEvent ==
  /\ feed.pc = "yield"
  /\ pipe' = Append(pipe, Head(feed.page))
  /\ feed' = [pc |-> IF Len(feed.page) = 1 THEN "check" ELSE "yield",
              cursor |-> Head(feed.page), page |-> Tail(feed.page)]
  /\ UNCHANGED <<events, over, watch, shown>>

CheckTask ==
  /\ feed.pc = "check"
  /\ feed' = IF EndOfFeed = "none" THEN NoFeed ELSE [feed EXCEPT !.pc = "poll"]
  /\ pipe' = IF EndOfFeed = "none" THEN Append(pipe, 0) ELSE pipe
  /\ UNCHANGED <<events, over, watch, shown>>

-----------------------------------------------------------------------------
(* watchTask *)

Connect ==
  /\ watch.pc = "connect"
  /\ watch' = [watch EXCEPT !.pc = "read"]
  /\ feed' = [pc |-> "poll", cursor |-> watch.cursor, page |-> <<>>] /\ pipe' = <<>>
  /\ UNCHANGED <<events, over, shown>>

\* One read of the reader brings n events: emit passes on all that are new,
\* also those behind the last event, which ends the watch.  Ids arrive in
\* increasing order: the first m of the read were passed on before.
ReadEvents(n, m) ==
  LET fresh == SubSeq(pipe, m + 1, n)
  IN /\ watch.pc = "read" /\ n <= Len(pipe) /\ \A k \in 1..n : pipe[k] # 0
     /\ \A k \in 1..n : k <= m <=> pipe[k] <= watch.cursor
     /\ pipe' = SubSeq(pipe, n + 1, Len(pipe))
     /\ shown' = shown \o fresh
     /\ watch' = [watch EXCEPT
          !.cursor = IF fresh = <<>> THEN @ ELSE fresh[Len(fresh)],
          !.pc = IF \E k \in DOMAIN fresh : events[fresh[k]] = "last" THEN "returned" ELSE @]
     /\ UNCHANGED <<events, over, feed>>

ReadEnd ==
  /\ watch.pc = "read" /\ pipe # <<>> /\ Head(pipe) = 0
  /\ pipe' = Tail(pipe) /\ watch' = [watch EXCEPT !.pc = "ask"]
  /\ UNCHANGED <<events, over, feed, shown>>

\* A failed attempt, and the next one
Again == [watch EXCEPT !.attempts = @ + 1,
                       !.pc = IF watch.attempts + 1 > MaxAttempts THEN "failed" ELSE "connect"]

\* The end of a stream is not the end of the task: the task is asked for.
AskTask ==
  /\ watch.pc = "ask"
  /\ IF over THEN watch' = [watch EXCEPT !.pc = "returned"] /\ shown' = Append(shown, 0)
             ELSE watch' = Again /\ UNCHANGED shown
  /\ UNCHANGED <<events, over, feed, pipe>>

\* The transport fails, or a request is refused: what was on its way is lost.
DropPipe ==
  /\ watch.pc \in {"read", "ask"} /\ watch' = Again
  /\ feed' = NoFeed /\ pipe' = <<>>
  /\ UNCHANGED <<events, over, shown>>

\* The process dies, and recovery fails the task.
RestartTask ==
  /\ ~over /\ over' = TRUE
  /\ feed' = NoFeed /\ pipe' = <<>>
  /\ watch' = IF watch.pc \in {"read", "ask"} THEN Again ELSE watch
  /\ UNCHANGED <<events, shown>>

StreamNext ==
  \/ AppendStep \/ FinishTask \/ RestartTask
  \/ PollEvents \/ YieldEvent \/ CheckTask
  \/ Connect \/ (\E n \in 1..MaxEvents : \E m \in 0..n : ReadEvents(n, m)) \/ ReadEnd \/ AskTask \/ DropPipe

StreamSpec == StreamInit /\ [][StreamNext]_streamVars

-----------------------------------------------------------------------------
\* A watch passes on every event of the task once and in order, over however
\* many connections that end or fail, and returns after exactly one terminal
\* event: the task's own, or, only if it has none, one made up after all of its
\* events (watchTask, task_events_stream).
WatchIsExact ==
  LET ends == {k \in DOMAIN shown : shown[k] = 0 \/ events[shown[k]] = "last"} IN
  /\ \A k \in DOMAIN shown :
       shown[k] = k \/ (shown[k] = 0 /\ k = Len(shown) /\ k = Len(events) + 1)
  /\ Cardinality(ends) = IF watch.pc = "returned" THEN 1 ELSE 0
=============================================================================
