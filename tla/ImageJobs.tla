----------------------------- MODULE ImageJobs -----------------------------
(***************************************************************************)
(* One call of KieImageGenerator.generate (image_generation.py): create a  *)
(* provider task, poll it, resolve the URL of its image, fetch it through  *)
(* redirects, save it and register it.  Every wait is for a child (a       *)
(* request, a sleep, a lookup) that the call must not leave behind, and    *)
(* meets at any moment the caller's cancel event, its cancel_check, the    *)
(* total timeout and a cancellation of the calling task itself, also while *)
(* the child of an earlier one is still being stopped.  A host name is     *)
(* looked up by a thread, which nothing can stop.  (poll's own deadline    *)
(* starts later than the total timeout and cannot come first.)             *)
(***************************************************************************)
EXTENDS Naturals

CONSTANTS MaxHops,   \* max_redirects
          MaxPolls   \* bound: polls before the provider decides

ASSUME ImageAssumption == MaxHops \in Nat /\ MaxPolls \in Nat

VARIABLES
  phase,     \* what is awaited: create, poll, rest between polls, url, fetch, save
  at,        \* the call: at a cancellation check, waits, stops a child, saves,
             \* registers, removes what was not registered, ended
  child,     \* the awaited child: made, running, done, or told to stop
  event,     \* is the cancel event set
  hook,      \* does cancel_check answer TRUE
  pending,   \* a CancelledError that the call receives when it next runs
  fired,     \* which of the two sources of CancelledError have fired
  reason,    \* why the child is being stopped
  polls, hops, \* requests of poll so far, redirects so far
  lateSent,  \* history: requests that left after the event or the hook was set
  straggler, \* does the thread of a lookup outlive the wait for it
  disposed   \* what became of the call, and of the image on disk and in the
             \* table; slip: its row was not seen, or its file not removed

surroundings == <<event, hook, fired>>
imageVars == <<phase, at, child, surroundings, pending, reason, polls, hops, lateSent, straggler,
               disposed>>

Sources == {"timeout", "caller"}
Ends    == {"returned", "failed", "cancelled"} \cup Sources

ImagesTypeOK ==
  /\ phase \in {"create", "poll", "rest", "url", "fetch", "save"}
  /\ at \in {"check", "wait", "stop", "save", "register", "undo", "ended"}
  /\ child \in {"none", "made", "running", "done", "stopping"}
  /\ event \in BOOLEAN /\ hook \in BOOLEAN
  /\ pending \in Sources \cup {"none"} /\ fired \subseteq Sources
  /\ reason \in Ends \cup {"none"}
  /\ polls \in 0..MaxPolls /\ hops \in 0..MaxHops /\ lateSent \in 0..2
  /\ straggler \in BOOLEAN
  /\ disposed \in [end : Ends \cup {"none"}, file : BOOLEAN, row : BOOLEAN, slip : BOOLEAN]

ImagesInit ==
  /\ phase = "create" /\ at = "check" /\ child = "none"
  /\ event = FALSE /\ hook = FALSE /\ pending = "none" /\ fired = {} /\ reason = "none"
  /\ polls = 0 /\ hops = 0 /\ lateSent = 0
  /\ straggler = FALSE
  /\ disposed = [end |-> "none", file |-> FALSE, row |-> FALSE, slip |-> FALSE]

-----------------------------------------------------------------------------
(* The surroundings of the call *)

\* Without an await nothing comes between saving and registering.
Suspended == at \in {"check", "wait", "stop"}
Others == <<phase, at, pending, reason, polls, hops, disposed>>

SetEvent ==
  /\ Suspended /\ ~event /\ event' = TRUE
  /\ UNCHANGED <<Others, child, hook, fired, lateSent, straggler>>

SetHook ==
  /\ Suspended /\ ~hook /\ hook' = TRUE
  /\ UNCHANGED <<Others, child, event, fired, lateSent, straggler>>

\* asyncio.timeout expires, or the caller's own task is cancelled: only while
\* the call is suspended.
CancelCall(s) ==
  /\ at \in {"wait", "stop"} /\ pending = "none" /\ s \notin fired
  /\ pending' = s /\ fired' = fired \cup {s}
  /\ UNCHANGED <<phase, at, child, event, hook, reason, polls, hops, lateSent, straggler, disposed>>

\* The child runs for the first time: a request leaves.
ChildStarts ==
  /\ child = "made" /\ child' = "running"
  /\ lateSent' = IF phase \in {"create", "poll", "fetch"} /\ (event \/ hook) THEN lateSent + 1 ELSE lateSent
  /\ UNCHANGED <<Others, surroundings, straggler>>

\* It has its result, or it has stopped.  What was stopped in a lookup, its
\* own or that of a connection, may leave the lookup to its thread.
ChildEnds ==
  /\ child \in {"running", "stopping"} /\ child' = "done"
  /\ \/ UNCHANGED straggler
     \/ child = "stopping" /\ phase # "rest" /\ straggler' = TRUE
  /\ UNCHANGED <<Others, surroundings, lateSent>>

\* The thread has its answer, which nobody waits for.
StragglerEnds ==
  /\ straggler /\ straggler' = FALSE
  /\ UNCHANGED <<Others, child, surroundings, lateSent>>

-----------------------------------------------------------------------------
(* The call *)

End(e) == at' = "ended" /\ disposed' = [disposed EXCEPT !.end = e]

\* _check_cancelled_async, and the child that is then created; a failing
\* cancel_check counts as no.
CheckAndStart ==
  /\ at = "check"
  /\ IF event \/ hook
       THEN End("cancelled") /\ UNCHANGED child
       ELSE at' = "wait" /\ child' = "made" /\ UNCHANGED disposed
  /\ UNCHANGED <<phase, surroundings, pending, reason, polls, hops, lateSent, straggler>>

\* operation_task.cancel() and the gather that waits for it
StopChild(why) ==
  /\ child' = IF child = "done" THEN "done" ELSE "stopping"
  /\ at' = "stop" /\ reason' = why

\* The event wakes the wait first (a lookup of a URL does not listen).
WokenByEvent ==
  /\ at = "wait" /\ pending = "none" /\ event /\ phase # "url" /\ child # "done"
  /\ StopChild("cancelled")
  /\ UNCHANGED <<phase, surroundings, pending, polls, hops, lateSent, straggler, disposed>>

\* wait_for gives a lookup ten seconds.
LookupTimesOut ==
  /\ at = "wait" /\ pending = "none" /\ phase = "url" /\ child # "done"
  /\ StopChild("timeout")
  /\ UNCHANGED <<phase, surroundings, pending, polls, hops, lateSent, straggler, disposed>>

\* The wait receives a CancelledError, whatever else is ready.
Interrupted ==
  /\ at = "wait" /\ pending # "none"
  /\ StopChild(pending)
  /\ pending' = "none"
  /\ UNCHANGED <<phase, surroundings, polls, hops, lateSent, straggler, disposed>>

\* Mutant: the call does not wait until its child is gone.
StoppedAtOnce ==
  /\ at = "stop"
  /\ End(IF pending = "none" THEN reason ELSE pending) /\ pending' = "none"
  /\ UNCHANGED <<phase, child, surroundings, reason, polls, hops, lateSent, straggler>>

\* The child is gone; gather has held back a CancelledError until then.
Stopped ==
  /\ at = "stop" /\ child = "done"
  /\ End(IF pending = "none" THEN reason ELSE pending) /\ pending' = "none"
  /\ UNCHANGED <<phase, child, surroundings, reason, polls, hops, lateSent, straggler>>

ChildAnswered(p) == at = "wait" /\ pending = "none" /\ child = "done" /\ phase = p

\* The next phase begins at its cancellation check.
Proceed(p) == phase' = p /\ at' = "check" /\ UNCHANGED <<child, disposed>>

\* Any answer may be an error, or not what the call can use.
Refused ==
  /\ at = "wait" /\ pending = "none" /\ child = "done" /\ phase # "rest"
  /\ End("failed")
  /\ UNCHANGED <<phase, child, surroundings, pending, reason, polls, hops, lateSent, straggler>>

TaskCreated ==
  /\ ChildAnswered("create") /\ Proceed("poll")
  /\ UNCHANGED <<surroundings, pending, reason, polls, hops, lateSent, straggler>>

\* poll: not decided yet, or a URL of the image
Polled(decided) ==
  /\ ChildAnswered("poll")
  /\ IF decided THEN Proceed("url") /\ UNCHANGED polls
                ELSE polls < MaxPolls /\ polls' = polls + 1 /\ Proceed("rest")
  /\ UNCHANGED <<surroundings, pending, reason, hops, lateSent, straggler>>

Rested ==
  /\ ChildAnswered("rest") /\ Proceed("poll")
  /\ UNCHANGED <<surroundings, pending, reason, polls, hops, lateSent, straggler>>

\* validate_public_https_url has accepted the address.
Resolved ==
  /\ ChildAnswered("url") /\ Proceed("fetch")
  /\ UNCHANGED <<surroundings, pending, reason, polls, hops, lateSent, straggler>>

\* A redirect is resolved without a check before it.
Redirected ==
  /\ ChildAnswered("fetch")
  /\ IF hops < MaxHops
       THEN /\ hops' = hops + 1 /\ phase' = "url" /\ child' = "made"
            /\ UNCHANGED <<at, disposed>>
       ELSE End("failed") /\ UNCHANGED <<hops, phase, child>>
  /\ UNCHANGED <<surroundings, pending, reason, polls, lateSent, straggler>>

FetchedImage ==
  /\ ChildAnswered("fetch") /\ phase' = "save" /\ at' = "save"
  /\ UNCHANGED <<child, surroundings, pending, reason, polls, hops, lateSent, straggler, disposed>>

\* The image is stored step by step, without an await: nothing but at and
\* disposed moves.
Storing(label) ==
  /\ at = label
  /\ UNCHANGED <<phase, child, surroundings, pending, reason, polls, hops, lateSent, straggler>>

SaveImage(ok) ==
  /\ Storing("save")
  /\ IF ok THEN at' = "register" /\ disposed' = [disposed EXCEPT !.file = TRUE] ELSE End("failed")

\* create_file writes the row and reads it back; either may fail.
RegisterImage(written, read) ==
  /\ Storing("register")
  /\ IF written /\ read
       THEN at' = "ended" /\ disposed' = [disposed EXCEPT !.end = "returned", !.row = TRUE]
       ELSE at' = "undo" /\ disposed' = [disposed EXCEPT !.row = written, !.slip = written]

\* The file goes; that it cannot is swallowed.
RemoveImage(ok) ==
  /\ Storing("undo")
  /\ at' = "ended"
  /\ disposed' = [disposed EXCEPT !.end = "failed", !.file = ~ok, !.slip = @ \/ ~ok]

ImagesNext ==
  \/ SetEvent \/ SetHook \/ ChildStarts \/ ChildEnds \/ StragglerEnds
  \/ \E s \in Sources : CancelCall(s)
  \/ CheckAndStart \/ WokenByEvent \/ LookupTimesOut \/ Interrupted \/ Stopped
  \/ Refused \/ TaskCreated \/ Rested \/ Resolved \/ Redirected \/ FetchedImage
  \/ \E ok \in BOOLEAN : \/ Polled(ok) \/ SaveImage(ok) \/ RemoveImage(ok)
                         \/ \E read \in BOOLEAN : RegisterImage(ok, read)

ImagesSpec == ImagesInit /\ [][ImagesNext]_imageVars

-----------------------------------------------------------------------------
\* However a call ends, also when a timeout meets a cancellation, no request
\* and no sleep of it is left running; a lookup is left only by a call that was
\* stopped.  At most one request, whose child was made already, leaves after
\* the cancellation was visible.  A call that returned has its image on disk
\* and in the table; any other has it nowhere, unless the storage would not
\* read a row it had written or the file not be removed (_await_operation,
\* _wait_interval, _download_image, generate).
CallLeavesNothing ==
  /\ lateSent <= 1
  /\ at = "ended" =>
       /\ child \in {"none", "done"}
       /\ straggler => disposed.end \in {"cancelled"} \cup Sources
       /\ IF disposed.end = "returned" THEN disposed.file /\ disposed.row
          ELSE disposed.file \/ disposed.row => disposed.slip /\ disposed.end = "failed"
=============================================================================
