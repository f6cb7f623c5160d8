---------------------------- MODULE EdgesProofs ----------------------------
(***************************************************************************)
(* Theorems about the smaller components where the backend meets a         *)
(* provider, a file system, a browser, the desktops, the app-server and    *)
(* Telegram's gateway, for every value of their constants.  Each part      *)
(* names the inductive invariant that its theorem rests on; the last part  *)
(* is about the composition that TLC explores.                             *)
(***************************************************************************)
EXTENDS MCEdges, ConnectorActionsProofs, TLAPS, FiniteSetTheorems, SequenceTheorems

-----------------------------------------------------------------------------
(* ImageJobs: what the call awaits, and what it has left behind *)

\* The child is where the call thinks it is.
ChildFits ==
  /\ at \in {"check", "ended", "save", "register", "undo"} => child \in {"none", "done"}
  /\ at = "wait" => child \in {"made", "running", "done"}
  /\ at = "stop" => child \in {"stopping", "done"} /\ reason \in Sources \cup {"cancelled"}
  /\ straggler => \/ at = "stop"
                  \/ at = "ended" /\ disposed.end \in Sources \cup {"cancelled"}

\* A request that left late was of a child made before the cancellation was
\* visible; from then on only lookups, which send nothing, are begun.
OneLate ==
  /\ lateSent <= 1
  /\ lateSent = 1 => /\ event \/ hook
                     /\ child = "made" => phase \notin {"create", "poll", "fetch"}

\* The image is saved, registered or removed by the last steps of a call.
ImageFits ==
  /\ at \notin {"register", "undo", "ended"} => ~disposed.file
  /\ at \notin {"undo", "ended"} => ~disposed.row
  /\ at # "ended" => disposed.end = "none"
  /\ at = "register" => disposed.file
  /\ at = "undo" /\ disposed.row => disposed.slip
  /\ at = "ended" => IF disposed.end = "returned" THEN disposed.file /\ disposed.row
                     ELSE (disposed.file \/ disposed.row => disposed.slip /\ disposed.end = "failed")

ImagesInv == ImagesTypeOK /\ ChildFits /\ OneLate /\ ImageFits

\* A call that starts satisfies the invariant.
LEMMA ImagesInvInit == ImagesInit => ImagesInv
<1> SUFFICES ASSUME ImagesInit PROVE ImagesInv
  OBVIOUS
<1>1. /\ phase = "create" /\ at = "check" /\ child = "none" /\ event = FALSE /\ hook = FALSE
      /\ pending = "none" /\ fired = {} /\ reason = "none" /\ polls = 0 /\ hops = 0 /\ lateSent = 0
      /\ straggler = FALSE
      /\ disposed = [end |-> "none", file |-> FALSE, row |-> FALSE, slip |-> FALSE]
  BY DEF ImagesInit
<1>2. ImagesTypeOK
  <2>1. disposed \in [end : Ends \cup {"none"}, file : BOOLEAN, row : BOOLEAN, slip : BOOLEAN]
    BY <1>1
  <2>2. polls \in 0..MaxPolls /\ hops \in 0..MaxHops
    BY <1>1, ImageAssumption
  <2>3. event \in BOOLEAN /\ hook \in BOOLEAN /\ straggler \in BOOLEAN
    BY <1>1
  <2>4. /\ phase \in {"create", "poll", "rest", "url", "fetch", "save"}
        /\ at \in {"check", "wait", "stop", "save", "register", "undo", "ended"}
        /\ child \in {"none", "made", "running", "done", "stopping"}
        /\ pending \in Sources \cup {"none"} /\ fired \subseteq Sources
        /\ reason \in Ends \cup {"none"} /\ lateSent \in 0..2
    BY <1>1
  <2>5. QED
    BY <2>1, <2>2, <2>3, <2>4 DEF ImagesTypeOK
<1>3. ChildFits /\ OneLate
  BY <1>1 DEF ChildFits, OneLate
<1>4. ImageFits
  BY <1>1 DEF ImageFits
<1>5. QED
  BY <1>2, <1>3, <1>4 DEF ImagesInv

\* What becomes of the call and of the image, field by field.
LEMMA DisposedFields ==
  ASSUME ImagesTypeOK
  PROVE  /\ disposed = [end |-> disposed.end, file |-> disposed.file, row |-> disposed.row,
                        slip |-> disposed.slip]
         /\ disposed.end \in Ends \cup {"none"} /\ disposed.file \in BOOLEAN
         /\ disposed.row \in BOOLEAN /\ disposed.slip \in BOOLEAN
BY DEF ImagesTypeOK

\* A call that ends has its reason, and the image stays what it is.
LEMMA EndFacts ==
  ASSUME ImagesTypeOK, NEW e, End(e)
  PROVE  /\ at' = "ended" /\ disposed'.end = e /\ disposed'.file = disposed.file
         /\ disposed'.row = disposed.row /\ disposed'.slip = disposed.slip
         /\ e \in Ends => disposed' \in [end : Ends \cup {"none"}, file : BOOLEAN, row : BOOLEAN,
                                         slip : BOOLEAN]
<1>1. disposed' = [end |-> e, file |-> disposed.file, row |-> disposed.row, slip |-> disposed.slip]
  BY DisposedFields DEF End
<1>2. at' = "ended"
  BY DEF End
<1>3. QED
  BY <1>1, <1>2, DisposedFields

\* The surroundings keep the invariant.
LEMMA SurroundingsKeep ==
  ASSUME ImagesInv,
         SetEvent \/ SetHook \/ ChildStarts \/ ChildEnds \/ StragglerEnds \/ \E s \in Sources : CancelCall(s)
  PROVE  ImagesInv'
<1> USE DEF ImagesInv, Others, surroundings
<1>1. /\ UNCHANGED <<phase, at, reason, polls, hops, disposed>>
      /\ event' \in BOOLEAN /\ hook' \in BOOLEAN /\ straggler' \in BOOLEAN
      /\ event \/ hook => event' \/ hook'
  BY DEF SetEvent, SetHook, ChildStarts, ChildEnds, StragglerEnds, CancelCall, ImagesTypeOK
<1>2. pending' \in Sources \cup {"none"} /\ fired' \subseteq Sources
  BY DEF SetEvent, SetHook, ChildStarts, ChildEnds, StragglerEnds, CancelCall, ImagesTypeOK
<1>3. child' \in {"none", "made", "running", "done", "stopping"} /\ lateSent' \in 0..2
  BY DEF SetEvent, SetHook, ChildStarts, ChildEnds, StragglerEnds, CancelCall, ImagesTypeOK, OneLate
<1>4. ImagesTypeOK'
  BY <1>1, <1>2, <1>3 DEF ImagesTypeOK
<1>5. ChildFits'
  BY <1>1 DEF SetEvent, SetHook, ChildStarts, ChildEnds, StragglerEnds, CancelCall, ChildFits, ImagesTypeOK
<1>6. OneLate'
  BY <1>1, <1>3 DEF SetEvent, SetHook, ChildStarts, ChildEnds, StragglerEnds, CancelCall, OneLate, ImagesTypeOK
<1>7. ImageFits'
  BY <1>1 DEF ImageFits
<1>8. QED
  BY <1>4, <1>5, <1>6, <1>7

\* The waits keep it: what is checked, begun, stopped and answered.
LEMMA WaitsKeep ==
  ASSUME ImagesInv,
         \/ CheckAndStart \/ WokenByEvent \/ LookupTimesOut \/ Interrupted \/ Stopped
         \/ Refused \/ TaskCreated \/ Rested \/ Resolved \/ Redirected
         \/ \E ok \in BOOLEAN : Polled(ok)
  PROVE  ImagesInv'
<1> USE ImageAssumption DEF ImagesInv, surroundings
<1>1. /\ UNCHANGED <<event, hook, fired, lateSent, straggler>>
      /\ at \in {"check", "wait", "stop"} /\ disposed.end = "none" /\ ~disposed.file /\ ~disposed.row
  BY DEF CheckAndStart, WokenByEvent, LookupTimesOut, Interrupted, Stopped, Refused, TaskCreated, Rested,
         Resolved, Redirected, Polled, ChildAnswered, ImageFits
<1>2. ASSUME NEW e \in Ends \ {"returned"}, End(e), child' = child, child \in {"none", "done"},
             straggler => e \in Sources \cup {"cancelled"}, UNCHANGED <<phase, polls, hops, reason>>,
             pending' \in Sources \cup {"none"}
      PROVE  ImagesInv'
  <2>1. /\ at' = "ended" /\ disposed'.end = e /\ ~disposed'.file /\ ~disposed'.row
        /\ disposed' \in [end : Ends \cup {"none"}, file : BOOLEAN, row : BOOLEAN, slip : BOOLEAN]
    BY <1>1, <1>2, EndFacts
  <2>2. ImagesTypeOK'
    BY <1>1, <1>2, <2>1 DEF ImagesTypeOK
  <2>3. ChildFits' /\ OneLate' /\ ImageFits'
    BY <1>1, <1>2, <2>1 DEF ChildFits, OneLate, ImageFits
  <2>4. QED
    BY <2>2, <2>3
<1>3. "cancelled" \in Ends \ {"returned"} /\ "failed" \in Ends \ {"returned"}
      /\ Sources \subseteq Ends \ {"returned"} /\ pending \in Sources \cup {"none"} /\ "none" \notin Sources
      /\ lateSent \in 0..2
  BY DEF Ends, Sources, ImagesTypeOK
<1>4. CASE CheckAndStart
  <2>1. CASE event \/ hook
    BY <1>1, <1>2, <1>3, <1>4, <2>1 DEF CheckAndStart, ChildFits
  <2>2. CASE ~(event \/ hook)
    <3>1. /\ at' = "wait" /\ child' = "made"
          /\ UNCHANGED <<phase, pending, reason, polls, hops, disposed>>
      BY <1>4, <2>2 DEF CheckAndStart
    <3>2. ImagesTypeOK'
      BY <1>1, <3>1 DEF ImagesTypeOK
    <3>3. ChildFits' /\ OneLate' /\ ImageFits'
      BY <1>1, <1>3, <1>4, <2>2, <3>1 DEF CheckAndStart, ChildFits, OneLate, ImageFits
    <3>4. QED
      BY <3>2, <3>3
  <2>3. QED
    BY <2>1, <2>2
<1>5. CASE WokenByEvent \/ LookupTimesOut \/ Interrupted
  <2>1. /\ at' = "stop" /\ child' = (IF child = "done" THEN "done" ELSE "stopping")
        /\ reason' \in Sources \cup {"cancelled"} /\ pending' \in Sources \cup {"none"}
        /\ UNCHANGED <<phase, polls, hops, disposed>>
    BY <1>3, <1>5 DEF WokenByEvent, LookupTimesOut, Interrupted, StopChild, Sources
  <2>2. ImagesTypeOK'
    BY <1>1, <1>3, <2>1 DEF ImagesTypeOK
  <2>3. ChildFits' /\ OneLate' /\ ImageFits'
    BY <1>1, <1>3, <2>1 DEF ChildFits, OneLate, ImageFits
  <2>4. QED
    BY <2>2, <2>3
<1>6. CASE Stopped
  <2>1. PICK e \in Sources \cup {"cancelled"} : End(e)
    BY <1>3, <1>6 DEF Stopped, ChildFits
  <2>2. child' = child /\ child = "done" /\ UNCHANGED <<phase, polls, hops, reason>> /\ pending' = "none"
    BY <1>6 DEF Stopped
  <2>3. QED
    BY <1>2, <1>3, <2>1, <2>2
<1>7. CASE Refused
  <2>1. ~straggler
    BY <1>7 DEF Refused, ChildFits
  <2>2. End("failed") /\ child' = child /\ child = "done" /\ UNCHANGED <<phase, polls, hops, reason, pending>>
    BY <1>7 DEF Refused
  <2>3. QED
    BY <1>2, <1>3, <2>1, <2>2
<1>8. ASSUME NEW p \in {"poll", "rest", "url", "fetch"}, Proceed(p), child = "done", at = "wait",
             polls' \in 0..MaxPolls, UNCHANGED <<pending, reason, hops>>
      PROVE  ImagesInv'
  <2>1. phase' = p /\ at' = "check" /\ UNCHANGED <<child, disposed>>
    BY <1>8 DEF Proceed
  <2>2. ImagesTypeOK'
    BY <1>1, <1>8, <2>1 DEF ImagesTypeOK
  <2>3. ChildFits' /\ OneLate' /\ ImageFits'
    BY <1>1, <1>8, <2>1 DEF ChildFits, OneLate, ImageFits
  <2>4. QED
    BY <2>2, <2>3
<1>9. CASE TaskCreated \/ Rested \/ Resolved
  <2>1. polls' = polls /\ polls \in 0..MaxPolls /\ UNCHANGED <<pending, reason, hops>>
    BY <1>9 DEF TaskCreated, Rested, Resolved, ImagesTypeOK
  <2>2. QED
    BY <1>8, <1>9, <2>1 DEF TaskCreated, Rested, Resolved, ChildAnswered
<1>10. ASSUME NEW ok \in BOOLEAN, Polled(ok) PROVE ImagesInv'
  <2>1. polls' \in 0..MaxPolls
    BY <1>10 DEF Polled, ImagesTypeOK
  <2>2. (Proceed("url") \/ Proceed("rest")) /\ child = "done" /\ at = "wait" /\ UNCHANGED <<pending, reason, hops>>
    BY <1>10 DEF Polled, ChildAnswered
  <2>3. QED
    BY <1>8, <2>1, <2>2
<1>11. CASE Redirected
  <2>1. ~straggler /\ at = "wait" /\ child = "done" /\ UNCHANGED <<pending, reason, polls>>
    BY <1>11 DEF Redirected, ChildAnswered, ChildFits
  <2>2. CASE hops < MaxHops
    <3>1. /\ hops' = hops + 1 /\ hops' \in 0..MaxHops /\ phase' = "url" /\ child' = "made"
          /\ UNCHANGED <<at, disposed>>
      BY <1>11, <2>2 DEF Redirected, ImagesTypeOK
    <3>2. ImagesTypeOK'
      BY <1>1, <2>1, <3>1 DEF ImagesTypeOK
    <3>3. ChildFits' /\ OneLate' /\ ImageFits'
      BY <1>1, <2>1, <3>1 DEF ChildFits, OneLate, ImageFits
    <3>4. QED
      BY <3>2, <3>3
  <2>3. CASE ~(hops < MaxHops)
    BY <1>2, <1>3, <1>11, <2>1, <2>3 DEF Redirected
  <2>4. QED
    BY <2>2, <2>3
<1>12. QED
  BY <1>4, <1>5, <1>6, <1>7, <1>9, <1>10, <1>11

\* Saving, registering and removing the image keep it.
LEMMA StoringKeeps ==
  ASSUME ImagesInv,
         \/ FetchedImage
         \/ \E ok \in BOOLEAN : \/ SaveImage(ok) \/ RemoveImage(ok)
                                \/ \E read \in BOOLEAN : RegisterImage(ok, read)
  PROVE  ImagesInv'
<1> USE DEF ImagesInv, surroundings
<1>1. /\ disposed = [end |-> disposed.end, file |-> disposed.file, row |-> disposed.row, slip |-> disposed.slip]
      /\ disposed.end \in Ends \cup {"none"} /\ disposed.file \in BOOLEAN
      /\ disposed.row \in BOOLEAN /\ disposed.slip \in BOOLEAN
      /\ "returned" \in Ends /\ "failed" \in Ends /\ "failed" # "returned"
  BY DisposedFields DEF Ends
<1>2. CASE FetchedImage
  <2>1. ImagesTypeOK'
    BY <1>2 DEF FetchedImage, ImagesTypeOK
  <2>2. ChildFits' /\ OneLate' /\ ImageFits'
    BY <1>2 DEF FetchedImage, ChildAnswered, ChildFits, OneLate, ImageFits
  <2>3. QED
    BY <2>1, <2>2
<1>3. ASSUME NEW label \in {"save", "register", "undo"}, Storing(label),
             NEW e \in Ends \cup {"none"}, NEW f \in BOOLEAN, NEW r \in BOOLEAN, NEW s \in BOOLEAN,
             disposed' = [end |-> e, file |-> f, row |-> r, slip |-> s],
             at' \in {"register", "undo", "ended"},
             (at' # "ended") => (e = "none"),
             (at' = "register") => (f /\ ~r),
             (at' = "undo" /\ r) => s,
             (at' = "ended") => IF e = "returned" THEN f /\ r ELSE (f \/ r => s /\ e = "failed")
      PROVE  ImagesInv'
  <2>1. at = label /\ UNCHANGED <<phase, child, event, hook, fired, pending, reason, polls, hops, lateSent, straggler>>
    BY <1>3 DEF Storing
  <2>2. disposed'.end = e /\ disposed'.file = f /\ disposed'.row = r /\ disposed'.slip = s
    BY <1>3
  <2>3. ImagesTypeOK'
    BY <1>3, <2>1 DEF ImagesTypeOK
  <2>4. child \in {"none", "done"} /\ ~straggler
    BY <2>1 DEF ChildFits
  <2>5. ChildFits' /\ OneLate'
    BY <1>3, <2>1, <2>4 DEF ChildFits, OneLate
  <2>6. ImageFits'
    BY <1>3, <2>2 DEF ImageFits
  <2>7. QED
    BY <2>3, <2>5, <2>6
<1>4. ASSUME NEW ok \in BOOLEAN, SaveImage(ok) PROVE ImagesInv'
  <2>1. Storing("save") /\ disposed.end = "none" /\ ~disposed.file /\ ~disposed.row
    BY <1>4 DEF SaveImage, Storing, ImageFits
  <2>2. CASE ok
    <3>1. at' = "register" /\ disposed' = [end |-> "none", file |-> TRUE, row |-> FALSE, slip |-> disposed.slip]
      BY <1>1, <1>4, <2>1, <2>2 DEF SaveImage
    <3>2. QED
      BY <1>1, <1>3, <2>1, <3>1
  <2>3. CASE ~ok
    <3>1. at' = "ended" /\ disposed' = [end |-> "failed", file |-> FALSE, row |-> FALSE, slip |-> disposed.slip]
      BY <1>1, <1>4, <2>1, <2>3 DEF SaveImage, End
    <3>2. QED
      BY <1>1, <1>3, <2>1, <3>1
  <2>4. QED
    BY <2>2, <2>3
<1>5. ASSUME NEW w \in BOOLEAN, NEW read \in BOOLEAN, RegisterImage(w, read) PROVE ImagesInv'
  <2>1. Storing("register") /\ disposed.end = "none" /\ disposed.file /\ ~disposed.row
    BY <1>5 DEF RegisterImage, Storing, ImageFits
  <2>2. CASE w /\ read
    <3>1. at' = "ended" /\ disposed' = [end |-> "returned", file |-> TRUE, row |-> TRUE, slip |-> disposed.slip]
      BY <1>1, <1>5, <2>1, <2>2 DEF RegisterImage
    <3>2. QED
      BY <1>1, <1>3, <2>1, <3>1
  <2>3. CASE ~(w /\ read)
    <3>1. at' = "undo" /\ disposed' = [end |-> "none", file |-> TRUE, row |-> w, slip |-> w]
      BY <1>1, <1>5, <2>1, <2>3 DEF RegisterImage
    <3>2. QED
      BY <1>1, <1>3, <2>1, <3>1
  <2>4. QED
    BY <2>2, <2>3
<1>6. ASSUME NEW ok \in BOOLEAN, RemoveImage(ok) PROVE ImagesInv'
  <2>1. Storing("undo") /\ (disposed.row => disposed.slip)
    BY <1>6 DEF RemoveImage, Storing, ImageFits
  <2>2. at' = "ended"
        /\ disposed' = [end |-> "failed", file |-> ~ok, row |-> disposed.row, slip |-> disposed.slip \/ ~ok]
    BY <1>1, <1>6 DEF RemoveImage
  <2>3. (~ok) \in BOOLEAN /\ (disposed.slip \/ ~ok) \in BOOLEAN
    OBVIOUS
  <2>4. QED
    BY <1>1, <1>3, <2>1, <2>2, <2>3
<1>7. QED
  BY <1>2, <1>4, <1>5, <1>6

\* Every step keeps the invariant.
LEMMA ImagesInvStep ==
  ASSUME ImagesInv, [ImagesNext]_imageVars
  PROVE  ImagesInv'
<1>1. CASE ImagesNext
  BY <1>1, SurroundingsKeep, WaitsKeep, StoringKeeps DEF ImagesNext
<1>2. CASE UNCHANGED imageVars
  BY <1>2 DEF imageVars, surroundings, ImagesInv, ImagesTypeOK, ChildFits, OneLate, ImageFits
<1>3. QED
  BY <1>1, <1>2

\* A call, its child and its image fit each other at every step.
THEOREM ImagesInvariant == ImagesSpec => []ImagesInv
<1>1. ImagesInv /\ [ImagesNext]_imageVars => ImagesInv'
  BY ImagesInvStep
<1>2. QED
  BY <1>1, ImagesInvInit, PTL DEF ImagesSpec

\* However a call ends, no request or sleep of it is left running and a lookup
\* only by a call that was stopped, at most one request leaves after a
\* cancellation was visible, and an image is on disk and in the table if the
\* call returned it, and nowhere otherwise but for a row that could not be read
\* back or a file that could not be removed.
THEOREM CallsLeaveNothing == ImagesSpec => []CallLeavesNothing
<1>1. ImagesInv => CallLeavesNothing
  BY DEF ImagesInv, ChildFits, OneLate, ImageFits, CallLeavesNothing
<1>2. QED
  BY <1>1, ImagesInvariant, PTL

-----------------------------------------------------------------------------
(* WorkspaceFiles: disk and table between the steps of a handler *)

\* What the running handler has done to a path that only handlers touched.
PathsAgree ==
  /\ saver.pc # "idle" => saver.path \in Path
  /\ \A p \in Path \ foreign :
       /\ p # saver.path \/ saver.pc \in {"idle", "unlink"} => Agree(lapses[p], disk[p], fileRows[p])
       /\ p = saver.path =>
            /\ saver.pc \in {"write", "replace", "forget"} => disk[p] = Absent
            /\ saver.pc \in {"register", "undo"} => disk[p] = saver.blob
            /\ saver.pc \in {"write", "replace", "register", "undo"} /\ lapses[p] = 0 => fileRows[p] = Absent

FilesInv == FilesTypeOK /\ PathsAgree

\* No handler at all is a handler.
LEMMA NoSaverTyped ==
  /\ NoSaver \in [pc : {"idle", "write", "replace", "register", "undo", "unlink", "forget"},
                   path : Path \cup {Absent}, blob : Blob \cup {Absent}]
  /\ NoSaver.pc = "idle"
BY DEF NoSaver

\* The empty workspace satisfies the invariant.
LEMMA FilesInvInit == FilesInit => FilesInv
<1> SUFFICES ASSUME FilesInit PROVE FilesInv
  OBVIOUS
<1>1. saver = NoSaver /\ saver.pc = "idle" /\ shellSteps \in 0..MaxShell
  BY FilesAssumption DEF FilesInit, NoSaver
<1>2. FilesTypeOK
  BY <1>1, NoSaverTyped DEF FilesInit, FilesTypeOK
<1>3. PathsAgree
  BY <1>1 DEF FilesInit, PathsAgree, Agree
<1>4. QED
  BY <1>2, <1>3 DEF FilesInv

\* The history of a path goes on or, when both sides are without it, is over.
LEMMA MarksFacts ==
  ASSUME NEW f \in SUBSET Path, NEW l \in [Path -> 0..2], Marks(f, l)
  PROVE  /\ foreign' \subseteq Path /\ lapses' \in [Path -> 0..2]
         /\ \A p \in Path :
              \/ (p \in foreign' <=> p \in f) /\ lapses'[p] = l[p]
              \/ disk'[p] = Absent /\ fileRows'[p] = Absent /\ p # saver'.path /\ lapses'[p] = 0
BY DEF Marks

\* A lapse is counted for the handler's path.
LEMMA LapseFacts ==
  ASSUME lapses \in [Path -> 0..2]
  PROVE  /\ Lapse \in [Path -> 0..2]
         /\ \A p \in Path :
              /\ p # saver.path => Lapse[p] = lapses[p]
              /\ p = saver.path => Lapse[p] # 0 /\ (Lapse[p] = 1 => lapses[p] = 0)
<1>1. Lapse = [p \in Path |-> IF p # saver.path THEN lapses[p] ELSE IF lapses[p] < 2 THEN lapses[p] + 1 ELSE 2]
  BY DEF Lapse
<1>2. \A n \in 0..2 : /\ (IF n < 2 THEN n + 1 ELSE 2) \in 1..2
                      /\ (IF n < 2 THEN n + 1 ELSE 2) = 1 => n = 0
  OBVIOUS
<1>3. QED
  BY <1>1, <1>2

\* Saving keeps it.
LEMMA SavingKeeps ==
  ASSUME FilesInv,
         \/ \E p \in Path, b \in Blob : BeginSave(p, b)
         \/ \E ok \in BOOLEAN : WriteTemp(ok) \/ Replace(ok) \/ Register(ok) \/ UndoReplace(ok)
         \/ RegisterUnseen
  PROVE  FilesInv'
<1> USE DEF FilesInv, FilesTypeOK, At
<1>1. foreign \in SUBSET Path /\ lapses \in [Path -> 0..2]
  OBVIOUS
<1>2. ASSUME NEW p \in Path, NEW b \in Blob, BeginSave(p, b) PROVE FilesInv'
  <2>1. /\ foreign' \subseteq Path /\ lapses' \in [Path -> 0..2]
        /\ \A q \in Path :
             \/ (q \in foreign' <=> q \in foreign) /\ lapses'[q] = lapses[q]
             \/ disk'[q] = Absent /\ fileRows'[q] = Absent /\ q # saver'.path /\ lapses'[q] = 0
    BY <1>1, <1>2, MarksFacts DEF BeginSave
  <2>2. FilesTypeOK'
    BY <1>2, <2>1, NoSaverTyped, FilesAssumption DEF BeginSave
  <2>3. PathsAgree'
    BY <1>2, <2>1, NoSaverTyped, LapseFacts DEF BeginSave, PathsAgree, Exists, Agree
  <2>4. QED
    BY <2>2, <2>3
<1>3. ASSUME NEW ok \in BOOLEAN, WriteTemp(ok) PROVE FilesInv'
  <2>1. /\ foreign' \subseteq Path /\ lapses' \in [Path -> 0..2]
        /\ \A q \in Path :
             \/ (q \in foreign' <=> q \in foreign) /\ lapses'[q] = lapses[q]
             \/ disk'[q] = Absent /\ fileRows'[q] = Absent /\ q # saver'.path /\ lapses'[q] = 0
    BY <1>1, <1>3, MarksFacts DEF WriteTemp
  <2>2. FilesTypeOK'
    BY <1>3, <2>1, NoSaverTyped, FilesAssumption DEF WriteTemp
  <2>3. PathsAgree'
    BY <1>3, <2>1, NoSaverTyped, LapseFacts DEF WriteTemp, PathsAgree, Exists, Agree
  <2>4. QED
    BY <2>2, <2>3
<1>4. ASSUME NEW ok \in BOOLEAN, Replace(ok) PROVE FilesInv'
  <2>1. /\ foreign' \subseteq Path /\ lapses' \in [Path -> 0..2]
        /\ \A q \in Path :
             \/ (q \in foreign' <=> q \in foreign) /\ lapses'[q] = lapses[q]
             \/ disk'[q] = Absent /\ fileRows'[q] = Absent /\ q # saver'.path /\ lapses'[q] = 0
    BY <1>1, <1>4, MarksFacts DEF Replace
  <2>2. FilesTypeOK'
    <3>1. CASE ok
      <4>1. saver' = [saver EXCEPT !.pc = "register"]
        BY <1>4, <3>1 DEF Replace
      <4>2. disk' \in [Path -> Blob \cup {Absent}]
        BY <1>4, <3>1 DEF Replace
      <4>3. UNCHANGED <<fileRows, shellSteps>>
        BY <1>4, <3>1 DEF Replace
      <4>4. QED
        BY <2>1, <4>1, <4>2, <4>3
    <3>2. CASE ~ok
      BY <1>4, <2>1, <3>2, NoSaverTyped DEF Replace
    <3>3. QED
      BY <3>1, <3>2
  <2>3. PathsAgree'
    BY <1>4, <2>1, NoSaverTyped, LapseFacts DEF Replace, PathsAgree, Exists, Agree
  <2>4. QED
    BY <2>2, <2>3
<1>5. ASSUME NEW ok \in BOOLEAN, Register(ok) PROVE FilesInv'
  <2>1. /\ foreign' \subseteq Path /\ lapses' \in [Path -> 0..2]
        /\ \A q \in Path :
             \/ (q \in foreign' <=> q \in foreign) /\ lapses'[q] = lapses[q]
             \/ disk'[q] = Absent /\ fileRows'[q] = Absent /\ q # saver'.path /\ lapses'[q] = 0
    BY <1>1, <1>5, MarksFacts DEF Register
  <2>2. FilesTypeOK'
    BY <1>5, <2>1, NoSaverTyped, FilesAssumption DEF Register
  <2>3. PathsAgree'
    BY <1>5, <2>1, NoSaverTyped, LapseFacts DEF Register, PathsAgree, Exists, Agree
  <2>4. QED
    BY <2>2, <2>3
<1>6. CASE RegisterUnseen
  <2>1. /\ foreign' \subseteq Path /\ lapses' \in [Path -> 0..2]
        /\ \A q \in Path :
             \/ (q \in foreign' <=> q \in foreign) /\ lapses'[q] = Lapse[q]
             \/ disk'[q] = Absent /\ fileRows'[q] = Absent /\ q # saver'.path /\ lapses'[q] = 0
    BY <1>1, <1>6, LapseFacts, MarksFacts DEF RegisterUnseen
  <2>2. FilesTypeOK'
    BY <1>6, <2>1, NoSaverTyped, FilesAssumption DEF RegisterUnseen
  <2>3. PathsAgree'
    BY <1>6, <2>1, NoSaverTyped, LapseFacts DEF RegisterUnseen, PathsAgree, Exists, Agree
  <2>4. QED
    BY <2>2, <2>3
<1>7. ASSUME NEW ok \in BOOLEAN, UndoReplace(ok) PROVE FilesInv'
  <2>1. /\ foreign' \subseteq Path /\ lapses' \in [Path -> 0..2]
        /\ \A q \in Path :
             \/ (q \in foreign' <=> q \in foreign) /\ lapses'[q] = IF ok THEN lapses[q] ELSE Lapse[q]
             \/ disk'[q] = Absent /\ fileRows'[q] = Absent /\ q # saver'.path /\ lapses'[q] = 0
    <3> DEFINE l == IF ok THEN lapses ELSE Lapse
    <3>1. l \in [Path -> 0..2]
      BY <1>1, LapseFacts
    <3>2. Marks(foreign, l)
      BY <1>7 DEF UndoReplace
    <3> HIDE DEF l
    <3>3. /\ foreign' \subseteq Path /\ lapses' \in [Path -> 0..2]
          /\ \A q \in Path :
               \/ (q \in foreign' <=> q \in foreign) /\ lapses'[q] = l[q]
               \/ disk'[q] = Absent /\ fileRows'[q] = Absent /\ q # saver'.path /\ lapses'[q] = 0
      BY <1>1, <3>1, <3>2, MarksFacts
    <3>4. QED
      BY <3>3 DEF l
  <2>2. FilesTypeOK'
    BY <1>7, <2>1, NoSaverTyped, FilesAssumption DEF UndoReplace
  <2>3. PathsAgree'
    BY <1>7, <2>1, NoSaverTyped, LapseFacts DEF UndoReplace, PathsAgree, Exists, Agree
  <2>4. QED
    BY <2>2, <2>3
<1>8. QED
  BY <1>2, <1>3, <1>4, <1>5, <1>6, <1>7

\* Deleting, the shell and a death of the process keep it.
LEMMA DeletingKeeps ==
  ASSUME FilesInv,
         \/ \E p \in Path : BeginDelete(p)
         \/ \E ok \in BOOLEAN : Unlink(ok) \/ ForgetFile(ok)
         \/ \E p \in Path, b \in Blob \cup {Absent} : Shell(p, b)
         \/ DieInHandler
  PROVE  FilesInv'
<1> USE DEF FilesInv, FilesTypeOK, At
<1>1. foreign \in SUBSET Path /\ lapses \in [Path -> 0..2]
  OBVIOUS
<1>2. ASSUME NEW p \in Path, BeginDelete(p) PROVE FilesInv'
  <2>1. /\ foreign' \subseteq Path /\ lapses' \in [Path -> 0..2]
        /\ \A q \in Path :
             \/ (q \in foreign' <=> q \in foreign) /\ lapses'[q] = lapses[q]
             \/ disk'[q] = Absent /\ fileRows'[q] = Absent /\ q # saver'.path /\ lapses'[q] = 0
    BY <1>1, <1>2, MarksFacts DEF BeginDelete
  <2>2. FilesTypeOK'
    BY <1>2, <2>1, NoSaverTyped, FilesAssumption DEF BeginDelete
  <2>3. PathsAgree'
    BY <1>2, <2>1, NoSaverTyped, LapseFacts DEF BeginDelete, PathsAgree, Exists, Agree
  <2>4. QED
    BY <2>2, <2>3
<1>3. ASSUME NEW ok \in BOOLEAN, Unlink(ok) PROVE FilesInv'
  <2>1. /\ foreign' \subseteq Path /\ lapses' \in [Path -> 0..2]
        /\ \A q \in Path :
             \/ (q \in foreign' <=> q \in foreign) /\ lapses'[q] = lapses[q]
             \/ disk'[q] = Absent /\ fileRows'[q] = Absent /\ q # saver'.path /\ lapses'[q] = 0
    BY <1>1, <1>3, MarksFacts DEF Unlink
  <2>2. FilesTypeOK'
    <3>1. CASE ok
      <4>1. saver' = [saver EXCEPT !.pc = "forget"]
        BY <1>3, <3>1 DEF Unlink
      <4>2. disk' \in [Path -> Blob \cup {Absent}]
        BY <1>3, <3>1 DEF Unlink
      <4>3. UNCHANGED <<fileRows, shellSteps>>
        BY <1>3, <3>1 DEF Unlink
      <4>4. QED
        BY <2>1, <4>1, <4>2, <4>3
    <3>2. CASE ~ok
      BY <1>3, <2>1, <3>2, NoSaverTyped DEF Unlink
    <3>3. QED
      BY <3>1, <3>2
  <2>3. PathsAgree'
    BY <1>3, <2>1, NoSaverTyped, LapseFacts DEF Unlink, PathsAgree, Exists, Agree
  <2>4. QED
    BY <2>2, <2>3
<1>4. ASSUME NEW ok \in BOOLEAN, ForgetFile(ok) PROVE FilesInv'
  <2>1. /\ foreign' \subseteq Path /\ lapses' \in [Path -> 0..2]
        /\ \A q \in Path :
             \/ (q \in foreign' <=> q \in foreign) /\ lapses'[q] = IF ok THEN lapses[q] ELSE Lapse[q]
             \/ disk'[q] = Absent /\ fileRows'[q] = Absent /\ q # saver'.path /\ lapses'[q] = 0
    <3> DEFINE l == IF ok THEN lapses ELSE Lapse
    <3>1. l \in [Path -> 0..2]
      BY <1>1, LapseFacts
    <3>2. Marks(foreign, l)
      BY <1>4 DEF ForgetFile
    <3> HIDE DEF l
    <3>3. /\ foreign' \subseteq Path /\ lapses' \in [Path -> 0..2]
          /\ \A q \in Path :
               \/ (q \in foreign' <=> q \in foreign) /\ lapses'[q] = l[q]
               \/ disk'[q] = Absent /\ fileRows'[q] = Absent /\ q # saver'.path /\ lapses'[q] = 0
      BY <1>1, <3>1, <3>2, MarksFacts
    <3>4. QED
      BY <3>3 DEF l
  <2>2. FilesTypeOK'
    BY <1>4, <2>1, NoSaverTyped, FilesAssumption DEF ForgetFile
  <2>3. PathsAgree'
    BY <1>4, <2>1, NoSaverTyped, LapseFacts DEF ForgetFile, PathsAgree, Exists, Agree
  <2>4. QED
    BY <2>2, <2>3
<1>5. ASSUME NEW p \in Path, NEW b \in Blob \cup {Absent}, Shell(p, b) PROVE FilesInv'
  <2>1. /\ foreign' \subseteq Path /\ lapses' \in [Path -> 0..2]
        /\ \A q \in Path :
             \/ (q \in foreign' <=> q \in foreign \cup {p}) /\ lapses'[q] = lapses[q]
             \/ disk'[q] = Absent /\ fileRows'[q] = Absent /\ q # saver'.path /\ lapses'[q] = 0
    <3>1. foreign \cup {p} \in SUBSET Path /\ Marks(foreign \cup {p}, lapses)
      BY <1>1, <1>5 DEF Shell
    <3>2. QED
      BY <1>1, <3>1, MarksFacts
  <2>2. FilesTypeOK'
    <3>1. disk' \in [Path -> Blob \cup {Absent}] /\ shellSteps' \in 0..MaxShell
      BY <1>5, FilesAssumption DEF Shell
    <3>2. QED
      BY <1>5, <2>1, <3>1 DEF Shell
  <2>3. PathsAgree'
    BY <1>5, <2>1, NoSaverTyped, LapseFacts DEF Shell, PathsAgree, Exists, Agree
  <2>4. QED
    BY <2>2, <2>3
<1>6. CASE DieInHandler
  <2>1. /\ foreign' \subseteq Path /\ lapses' \in [Path -> 0..2]
        /\ \A q \in Path :
             \/ (q \in foreign' <=> q \in foreign) /\ lapses'[q] = IF saver.pc \notin {"register", "undo", "forget"} THEN lapses[q] ELSE Lapse[q]
             \/ disk'[q] = Absent /\ fileRows'[q] = Absent /\ q # saver'.path /\ lapses'[q] = 0
    <3> DEFINE l == IF saver.pc \in {"register", "undo", "forget"} THEN Lapse ELSE lapses
    <3>1. l \in [Path -> 0..2]
      BY <1>1, LapseFacts
    <3>2. Marks(foreign, l)
      BY <1>6 DEF DieInHandler
    <3> HIDE DEF l
    <3>3. /\ foreign' \subseteq Path /\ lapses' \in [Path -> 0..2]
          /\ \A q \in Path :
               \/ (q \in foreign' <=> q \in foreign) /\ lapses'[q] = l[q]
               \/ disk'[q] = Absent /\ fileRows'[q] = Absent /\ q # saver'.path /\ lapses'[q] = 0
      BY <1>1, <3>1, <3>2, MarksFacts
    <3>4. QED
      BY <3>3 DEF l
  <2>2. FilesTypeOK'
    BY <1>6, <2>1, NoSaverTyped, FilesAssumption DEF DieInHandler
  <2>3. PathsAgree'
    BY <1>6, <2>1, NoSaverTyped, LapseFacts DEF DieInHandler, PathsAgree, Exists, Agree
  <2>4. QED
    BY <2>2, <2>3
<1>7. QED
  BY <1>2, <1>3, <1>4, <1>5, <1>6

\* Each handler knows what it has put on disk and what it has not.
THEOREM FilesInvariant == FilesSpec => []FilesInv
<1>1. FilesInv /\ [FilesNext]_filesVars => FilesInv'
  <2>1. CASE FilesNext
    BY <2>1, SavingKeeps, DeletingKeeps DEF FilesNext
  <2>2. CASE UNCHANGED filesVars
    BY <2>2 DEF filesVars, FilesInv, FilesTypeOK, PathsAgree, Agree
  <2>3. QED
    BY <2>1, <2>2
<1>2. QED
  BY <1>1, FilesInvInit, PTL DEF FilesSpec

\* Between handlers, disk and table agree on every path that only handlers
\* have touched; one failed clean-up leaves one side without the file.
THEOREM FilesAgree == FilesSpec => []FilesMatchRows
<1>1. FilesInv => FilesMatchRows
  BY DEF FilesInv, PathsAgree, FilesMatchRows
<1>2. QED
  BY <1>1, FilesInvariant, PTL

-----------------------------------------------------------------------------
(* AccessSessions: links and sessions *)

\* A link from which a session came is used up, and no other session came from it.
LinksUsedOnce ==
  \A s \in Login :
    /\ \A n \in used[s].from : nonces[n].at \in {"consumed", "purged"}
    /\ \A r \in Login \ {s} : used[s].from \cap used[r].from = {}

\* An open session lives on from its last renewal, which is less than a
\* cadence behind its last use.
RenewalFollows ==
  \A s \in Login : sessions[s].at = "open" =>
    /\ sessions[s].expires = sessions[s].seen + IdleLife
    /\ sessions[s].seen <= used[s].last /\ used[s].last < sessions[s].seen + Cadence

AccessInv == AccessTypeOK /\ IsFiniteSet(asking) /\ LinksUsedOnce /\ RenewalFollows

LinkRow  == [expires : Times, at : {"none", "open", "consumed", "purged"}]
LoginRow == [seen : Times, expires : Times, at : {"none", "open", "revoked"}]
UseRow   == [last : Times, from : SUBSET Nonce]

\* Nobody has signed in yet.
LEMMA AccessInvInit == AccessInit => AccessInv
<1> SUFFICES ASSUME AccessInit PROVE AccessInv
  OBVIOUS
<1>1. 0 \in Times /\ clock \in 0..MaxClock
  BY AccessAssumption DEF AccessInit, Times
<1>2. NoLink \in LinkRow /\ NoLogin \in LoginRow /\ [last |-> 0, from |-> {}] \in UseRow
  BY <1>1 DEF NoLink, NoLogin, LinkRow, LoginRow, UseRow
<1>3. asking = {} /\ IsFiniteSet(asking) /\ Cardinality(asking) <= MaxAsking
  BY FS_EmptySet, AccessAssumption DEF AccessInit
<1>4. AccessTypeOK
  BY <1>1, <1>2, <1>3 DEF AccessInit, AccessTypeOK, LinkRow, LoginRow, UseRow
<1>5. LinksUsedOnce /\ RenewalFollows
  BY DEF AccessInit, LinksUsedOnce, RenewalFollows, NoLogin
<1>6. QED
  BY <1>3, <1>4, <1>5 DEF AccessInv

\* A request leaves the queue.
LEMMA Served ==
  ASSUME AccessInv, NEW x, asking' = asking \ {x}
  PROVE  /\ IsFiniteSet(asking)' /\ Cardinality(asking') <= MaxAsking
         /\ asking' \subseteq ((Nonce \cup Login) \X (0..MaxClock))
<1>1. IsFiniteSet(asking) /\ Cardinality(asking) <= MaxAsking /\ MaxAsking \in Nat
  BY AccessAssumption DEF AccessInv, AccessTypeOK
<1>2. IsFiniteSet(asking \ {x}) /\ Cardinality(asking \ {x}) <= Cardinality(asking)
  BY <1>1, FS_Subset
<1>3. Cardinality(asking) \in Nat /\ Cardinality(asking \ {x}) \in Nat
  BY <1>1, <1>2, FS_CardinalityType
<1>4. QED
  BY <1>1, <1>2, <1>3 DEF AccessInv, AccessTypeOK

\* Links come to be, and requests reach the queue.
LEMMA AskingKeeps ==
  ASSUME AccessInv,
         \/ AccessTick
         \/ \E n \in Nonce : CreateNonce(n)
         \/ \E x \in Nonce \cup Login : Ask(x)
  PROVE  AccessInv'
<1> USE AccessAssumption DEF AccessInv
<1>1. CASE AccessTick
  BY <1>1 DEF AccessTick, AccessTypeOK, LinksUsedOnce, RenewalFollows
<1>2. ASSUME NEW n \in Nonce, CreateNonce(n) PROVE AccessInv'
  <2>1. nonces' \in [Nonce -> LinkRow]
    <3>1. clock + LinkLife \in Times
      BY DEF AccessTypeOK, Times
    <3>2. \A m \in Nonce : [nonces[m] EXCEPT !.at = "purged"] \in LinkRow /\ nonces[m] \in LinkRow
      BY DEF AccessTypeOK, LinkRow
    <3>3. [expires |-> clock + LinkLife, at |-> "open"] \in LinkRow
      BY <3>1 DEF LinkRow
    <3>4. QED
      BY <1>2, <3>2, <3>3 DEF CreateNonce
  <2>2. \A m \in Nonce : nonces[m].at \in {"consumed", "purged"} => nonces'[m].at \in {"consumed", "purged"}
    BY <1>2 DEF CreateNonce, AccessTypeOK
  <2>3. UNCHANGED <<clock, sessions, asking, used>>
    BY <1>2 DEF CreateNonce
  <2>4. AccessTypeOK'
    BY <2>1, <2>3 DEF AccessTypeOK, LinkRow
  <2>5. LinksUsedOnce'
    BY <2>2, <2>3 DEF LinksUsedOnce, AccessTypeOK
  <2>6. RenewalFollows' /\ IsFiniteSet(asking)'
    BY <2>3 DEF RenewalFollows
  <2>7. QED
    BY <2>4, <2>5, <2>6
<1>3. ASSUME NEW x \in Nonce \cup Login, Ask(x) PROVE AccessInv'
  <2>1. /\ asking' = asking \cup {<<x, clock>>} /\ <<x, clock>> \notin asking
        /\ Cardinality(asking) < MaxAsking /\ UNCHANGED <<clock, nonces, sessions, used>>
    BY <1>3 DEF Ask
  <2>2. IsFiniteSet(asking)' /\ Cardinality(asking') <= MaxAsking
    <3>1. IsFiniteSet(asking') /\ Cardinality(asking') = Cardinality(asking) + 1
      BY <2>1, FS_AddElement
    <3>2. Cardinality(asking) \in Nat
      BY FS_CardinalityType
    <3>3. QED
      BY <2>1, <3>1, <3>2
  <2>3. AccessTypeOK'
    BY <2>1, <2>2 DEF AccessTypeOK
  <2>4. QED
    BY <2>1, <2>2, <2>3 DEF LinksUsedOnce, RenewalFollows
<1>4. QED
  BY <1>1, <1>2, <1>3

\* A link that is exchanged gives its only session.
LEMMA ExchangeKeeps ==
  ASSUME AccessInv, NEW n \in Nonce, NEW t \in 0..clock, NEW s \in Login, Exchange(n, t, s)
  PROVE  AccessInv'
<1> USE AccessAssumption
<1>1. /\ IsFiniteSet(asking)' /\ Cardinality(asking') <= MaxAsking
      /\ asking' \subseteq ((Nonce \cup Login) \X (0..MaxClock)) /\ clock' = clock
  BY Served DEF Exchange
<1>2. CASE nonces[n].at = "open" /\ nonces[n].expires > t
  <2>1. /\ nonces' = [nonces EXCEPT ![n].at = "consumed"]
        /\ sessions' = [sessions EXCEPT ![s] = [seen |-> t, expires |-> t + IdleLife, at |-> "open"]]
        /\ used' = [used EXCEPT ![s] = [last |-> t, from |-> {n}]]
    BY <1>2 DEF Exchange
  <2>2. t \in Times /\ t + IdleLife \in Times /\ t \in Nat
    BY DEF AccessInv, AccessTypeOK, Times
  <2>3. AccessTypeOK'
    <3>1. nonces' \in [Nonce -> LinkRow]
      BY <2>1 DEF AccessInv, AccessTypeOK, LinkRow
    <3>2. sessions' \in [Login -> LoginRow]
      BY <2>1, <2>2 DEF AccessInv, AccessTypeOK, LoginRow
    <3>3. used' \in [Login -> UseRow]
      BY <2>1, <2>2 DEF AccessInv, AccessTypeOK, UseRow
    <3>4. QED
      BY <1>1, <3>1, <3>2, <3>3 DEF AccessInv, AccessTypeOK, LinkRow, LoginRow, UseRow
  <2>4. \A m \in Nonce : nonces'[m].at = IF m = n THEN "consumed" ELSE nonces[m].at
    BY <2>1 DEF AccessInv, AccessTypeOK
  <2>5. \A r \in Login : used'[r].from = (IF r = s THEN {n} ELSE used[r].from) /\ used[r].from \subseteq Nonce
    BY <2>1 DEF AccessInv, AccessTypeOK
  <2>6. \A r \in Login : n \notin used[r].from
    BY <1>2 DEF AccessInv, LinksUsedOnce
  <2>7. LinksUsedOnce'
    BY <2>4, <2>5, <2>6 DEF AccessInv, LinksUsedOnce
  <2>8. RenewalFollows'
    BY <2>1, <2>2 DEF AccessInv, RenewalFollows, AccessTypeOK
  <2>9. QED
    BY <1>1, <2>3, <2>7, <2>8 DEF AccessInv
<1>3. CASE ~(nonces[n].at = "open" /\ nonces[n].expires > t)
  <2>1. UNCHANGED <<nonces, sessions, used>>
    BY <1>3 DEF Exchange
  <2>2. QED
    BY <1>1, <2>1 DEF AccessInv, AccessTypeOK, LinksUsedOnce, RenewalFollows
<1>4. QED
  BY <1>2, <1>3

\* A request renews the session at the cadence, in whatever order it comes.
LEMMA GetSessionKeeps ==
  ASSUME AccessInv, NEW s \in Login, NEW t \in 0..clock, GetSession(s, t)
  PROVE  AccessInv'
<1> USE AccessAssumption
<1>1. /\ IsFiniteSet(asking)' /\ Cardinality(asking') <= MaxAsking
      /\ asking' \subseteq ((Nonce \cup Login) \X (0..MaxClock)) /\ clock' = clock /\ nonces' = nonces
  BY Served DEF GetSession
<1>2. CASE sessions[s].at = "open" /\ sessions[s].expires > t
  <2> DEFINE row == sessions[s]
             new == Renewed(row, t)
             last == IF t > used[s].last THEN t ELSE used[s].last
  <2>1. sessions' = [sessions EXCEPT ![s] = new] /\ used' = [used EXCEPT ![s].last = last]
    BY <1>2 DEF GetSession
  <2>2. row \in LoginRow /\ used[s] \in UseRow /\ t \in Nat /\ t \in Times /\ t + IdleLife \in Times
    BY DEF AccessInv, AccessTypeOK, Times, LoginRow, UseRow
  <2>3. /\ row.seen \in Nat /\ row.expires \in Nat /\ used[s].last \in Nat
        /\ row.expires = row.seen + IdleLife /\ row.seen <= used[s].last /\ used[s].last < row.seen + Cadence
    BY <1>2, <2>2 DEF AccessInv, RenewalFollows, LoginRow, UseRow, Times
  <2>4. new \in LoginRow /\ new.at = "open"
    BY <1>2, <2>2 DEF Renewed, LoginRow
  <2>5. new.expires = new.seen + IdleLife /\ new.seen <= last /\ last < new.seen + Cadence
    <3>1. CASE t >= row.seen + Cadence
      <4>1. new.seen = t /\ new.expires = t + IdleLife
        BY <2>2, <3>1 DEF Renewed, LoginRow
      <4>2. QED
        BY <2>2, <2>3, <3>1, <4>1
    <3>2. CASE ~(t >= row.seen + Cadence)
      <4>1. new = row
        BY <3>2 DEF Renewed
      <4>2. QED
        BY <2>2, <2>3, <3>2, <4>1
    <3>3. QED
      BY <3>1, <3>2
  <2>6. last \in Times
    BY <2>2 DEF UseRow
  <2> HIDE DEF new, last
  <2>7. \A r \in Login : sessions'[r] = IF r = s THEN new ELSE sessions[r]
    BY <2>1 DEF AccessInv, AccessTypeOK
  <2>8. \A r \in Login : /\ used'[r].last = IF r = s THEN last ELSE used[r].last
                         /\ used'[r].from = used[r].from
    BY <2>1 DEF AccessInv, AccessTypeOK
  <2>9. AccessTypeOK'
    <3>1. sessions' \in [Login -> LoginRow]
      BY <2>1, <2>4 DEF AccessInv, AccessTypeOK, LoginRow
    <3>2. used' \in [Login -> UseRow]
      BY <2>1, <2>6 DEF AccessInv, AccessTypeOK, UseRow
    <3>3. QED
      BY <1>1, <3>1, <3>2 DEF AccessInv, AccessTypeOK, LoginRow, UseRow
  <2>10. LinksUsedOnce'
    BY <1>1, <2>8 DEF AccessInv, LinksUsedOnce
  <2>11. RenewalFollows'
    BY <2>5, <2>7, <2>8 DEF AccessInv, RenewalFollows
  <2>12. QED
    BY <1>1, <2>9, <2>10, <2>11 DEF AccessInv
<1>3. CASE ~(sessions[s].at = "open" /\ sessions[s].expires > t)
  <2>1. UNCHANGED <<sessions, used>>
    BY <1>3 DEF GetSession
  <2>2. QED
    BY <1>1, <2>1 DEF AccessInv, AccessTypeOK, LinksUsedOnce, RenewalFollows
<1>4. QED
  BY <1>2, <1>3

\* A revoked session is not open.
LEMMA RevokeKeeps ==
  ASSUME AccessInv, NEW some \in SUBSET Login, RevokeSessions(some)
  PROVE  AccessInv'
<1>1. UNCHANGED <<clock, nonces, asking, used>>
  BY DEF RevokeSessions
<1>2. sessions' \in [Login -> LoginRow]
  <2>1. \A s \in Login : sessions[s] \in LoginRow /\ [sessions[s] EXCEPT !.at = "revoked"] \in LoginRow
    BY DEF AccessInv, AccessTypeOK, LoginRow
  <2>2. QED
    BY <2>1 DEF RevokeSessions
<1>3. \A s \in Login : sessions'[s].at = "open" => sessions'[s] = sessions[s]
  BY DEF RevokeSessions, AccessInv, AccessTypeOK
<1>4. AccessTypeOK'
  BY <1>1, <1>2 DEF AccessInv, AccessTypeOK, LoginRow
<1>5. LinksUsedOnce' /\ IsFiniteSet(asking)'
  BY <1>1 DEF AccessInv, LinksUsedOnce
<1>6. RenewalFollows'
  BY <1>1, <1>3 DEF AccessInv, RenewalFollows
<1>7. QED
  BY <1>4, <1>5, <1>6 DEF AccessInv

\* The expiry of a session follows the renewals that reached the database.
THEOREM AccessInvariant == AccessSpec => []AccessInv
<1>1. AccessInv /\ [AccessNext]_accessVars => AccessInv'
  <2>1. CASE AccessNext
    BY <2>1, AskingKeeps, ExchangeKeeps, GetSessionKeeps, RevokeKeeps DEF AccessNext
  <2>2. CASE UNCHANGED accessVars
    BY <2>2 DEF accessVars, AccessInv, AccessTypeOK, LinksUsedOnce, RenewalFollows
  <2>3. QED
    BY <2>1, <2>2
<1>2. QED
  BY <1>1, AccessInvInit, PTL DEF AccessSpec

\* A link gives one session at most, and a session that nobody revoked lives
\* for its idle time after its last use, up to the cadence and no longer.
THEOREM SessionsFollow == AccessSpec => []SessionsFollowUse
<1>1. AccessInv => SessionsFollowUse
  <2>1. ASSUME AccessInv, NEW s \in Login, sessions[s].at = "open"
        PROVE  /\ sessions[s].expires <= used[s].last + IdleLife
               /\ sessions[s].expires + Cadence > used[s].last + IdleLife
    <3>1. sessions[s].seen \in Nat /\ used[s].last \in Nat
      BY <2>1 DEF AccessInv, AccessTypeOK, Times
    <3>2. QED
      BY <2>1, <3>1, AccessAssumption DEF AccessInv, RenewalFollows
  <2>2. QED
    BY <2>1 DEF AccessInv, LinksUsedOnce, SessionsFollowUse
<1>2. QED
  BY <1>1, AccessInvariant, PTL

-----------------------------------------------------------------------------
(* Approvals: what the runtime holds and what is on record *)

\* A decision that waits for the pipe was written.
PostsSound ==
  \A d \in Decider : post[d].pc # "idle" =>
    /\ post[d].ask \in ApprovalId /\ post[d].verdict \in Verdict
    /\ post[d].pc = "drain" => post[d].verdict \in answers[post[d].ask]

ApprovalsInv ==
  /\ ApprovalsTypeOK /\ PostsSound /\ ApprovalsFollowTurns
  /\ \A a \in held : ask[a].job \in Job

PostRow == [pc : {"idle", "lock", "drain"}, ask : ApprovalId \cup {Nothing}, verdict : Verdict \cup {Nothing}]
AskRow  == [job : Job \cup {Nothing}, app : 0..MaxApps]
RunRow  == [pc : {"idle", "stream", "closing", "over"}, app : 0..MaxApps]

\* The backend starts without approvals.
LEMMA ApprovalsInvInit == ApprovalsInit => ApprovalsInv
<1> SUFFICES ASSUME ApprovalsInit PROVE ApprovalsInv
  OBVIOUS
<1>1. 0 \in 0..MaxApps /\ NoPost \in PostRow
  BY ApprovalsAssumption DEF NoPost, PostRow
<1>2. ApprovalsTypeOK
  BY <1>1 DEF ApprovalsInit, ApprovalsTypeOK, PostRow
<1>3. PostsSound
  BY DEF ApprovalsInit, PostsSound, NoPost
<1>4. ApprovalsFollowTurns
  BY DEF ApprovalsInit, ApprovalsFollowTurns, Verdict
<1>5. QED
  BY <1>2, <1>3, <1>4 DEF ApprovalsInv, ApprovalsInit

\* Turns begin, ask and end.
LEMMA TurnsKeep ==
  ASSUME ApprovalsInv, NEW t \in Job,
         \/ BeginTurn(t) \/ LeaveStream(t) \/ EndTurn(t)
         \/ \E a \in ApprovalId : AskApproval(t, a)
  PROVE  ApprovalsInv'
<1> USE ApprovalsAssumption DEF ApprovalsInv
<1>1. CASE BeginTurn(t)
  <2>1. app' \in [number : 0..MaxApps, alive : BOOLEAN] /\ app'.number \in 0..MaxApps
    <3>1. app.number \in 0..MaxApps
      BY DEF ApprovalsTypeOK
    <3>2. CASE app.alive
      BY <1>1, <3>1, <3>2 DEF BeginTurn, ApprovalsTypeOK
    <3>3. CASE ~app.alive
      <4>1. app.number + 1 \in 0..MaxApps /\ app' = [number |-> app.number + 1, alive |-> TRUE]
        BY <1>1, <3>1, <3>3 DEF BeginTurn
      <4>2. QED
        BY <4>1
    <3>4. QED
      BY <3>2, <3>3
  <2>2. run' = [run EXCEPT ![t] = [pc |-> "stream", app |-> app'.number]] /\ run[t].pc = "idle"
    BY <1>1 DEF BeginTurn
  <2>3. run' \in [Job -> RunRow] /\ \A u \in Job \ {t} : run'[u] = run[u]
    BY <2>1, <2>2 DEF ApprovalsTypeOK, RunRow
  <2>4. UNCHANGED <<ask, held, queued, stored, post, answers>>
    BY <1>1 DEF BeginTurn
  <2>5. \A a \in held : ask[a].job # t
    BY <2>2 DEF ApprovalsFollowTurns, Active
  <2>6. ApprovalsTypeOK' /\ PostsSound'
    BY <2>1, <2>3, <2>4 DEF ApprovalsTypeOK, PostsSound, RunRow
  <2>7. ApprovalsFollowTurns'
    BY <2>3, <2>4, <2>5 DEF ApprovalsFollowTurns, Active
  <2>8. QED
    BY <2>4, <2>6, <2>7
<1>2. CASE LeaveStream(t)
  <2>1. run' = [run EXCEPT ![t].pc = "closing"] /\ held' = held /\ run[t].pc = "stream"
        /\ UNCHANGED <<app, ask, queued, stored, post, answers>>
    BY <1>2 DEF LeaveStream, Dropped
  <2>2. ApprovalsTypeOK' /\ PostsSound'
    BY <2>1 DEF ApprovalsTypeOK, PostsSound
  <2>3. \A u \in Job : run'[u].pc = IF u = t THEN "closing" ELSE run[u].pc
    BY <2>1 DEF ApprovalsTypeOK
  <2>4. QED
    BY <2>1, <2>2, <2>3 DEF ApprovalsFollowTurns, Active
<1>3. CASE EndTurn(t)
  <2>1. run' = [run EXCEPT ![t].pc = "over"] /\ held' = held \ AsksOf(t) /\ queued' = queued \ AsksOf(t)
        /\ UNCHANGED <<app, ask, stored, post, answers>>
    BY <1>3 DEF EndTurn, Dropped
  <2>2. ApprovalsTypeOK' /\ PostsSound'
    BY <2>1 DEF ApprovalsTypeOK, PostsSound
  <2>3. \A u \in Job : run'[u].pc = IF u = t THEN "over" ELSE run[u].pc
    BY <2>1 DEF ApprovalsTypeOK
  <2>4. \A a \in held' : a \in held /\ ask[a].job # t /\ (a \in queued => a \in queued')
    BY <2>1 DEF AsksOf, ApprovalsTypeOK
  <2>5. QED
    BY <2>1, <2>2, <2>3, <2>4 DEF ApprovalsFollowTurns, Active
<1>4. ASSUME NEW a \in ApprovalId, AskApproval(t, a) PROVE ApprovalsInv'
  <2>1. /\ ask' = [ask EXCEPT ![a] = [job |-> t, app |-> app.number]] /\ ask[a].job = Nothing
        /\ UNCHANGED <<app, run, stored, post, answers>>
        /\ held' = (IF Active(t) THEN held \cup {a} ELSE held)
        /\ queued' = (IF Active(t) THEN queued \cup {a} ELSE queued)
    BY <1>4 DEF AskApproval
  <2>2. app.number \in 0..MaxApps /\ a \notin held
    BY <2>1 DEF ApprovalsTypeOK
  <2>3. ask' \in [ApprovalId -> AskRow]
    BY <2>1, <2>2 DEF ApprovalsTypeOK, AskRow
  <2>4. ApprovalsTypeOK' /\ PostsSound'
    BY <2>1, <2>3 DEF ApprovalsTypeOK, PostsSound, AskRow
  <2>5. ask'[a].job = t /\ \A b \in ApprovalId \ {a} : ask'[b] = ask[b]
    BY <2>1 DEF ApprovalsTypeOK
  <2>6. QED
    BY <2>1, <2>2, <2>4, <2>5 DEF ApprovalsFollowTurns, Active, ApprovalsTypeOK
<1>5. QED
  BY <1>1, <1>2, <1>3, <1>4

\* The worker and the list route write pending rows.
LEMMA RowsKeep ==
  ASSUME ApprovalsInv,
         (\E a \in ApprovalId : ReadApproval(a)) \/ (\E t \in Job : ListApprovals(t))
  PROVE  ApprovalsInv'
<1> USE DEF ApprovalsInv
<1>1. /\ UNCHANGED <<app, run, ask, held, post, answers>>
      /\ stored' \in [ApprovalId -> Verdict \cup {"none", "pending"}]
      /\ queued' \subseteq queued
      /\ \A a \in ApprovalId : stored'[a] = stored[a] \/ stored'[a] = "pending"
      /\ \A a \in queued \ queued' : stored'[a] = "pending"
  BY DEF ReadApproval, ListApprovals, ApprovalsTypeOK
<1>2. ApprovalsTypeOK' /\ PostsSound'
  BY <1>1 DEF ApprovalsTypeOK, PostsSound
<1>3. ApprovalsFollowTurns'
  BY <1>1 DEF ApprovalsFollowTurns, ApprovalsTypeOK, Active, Verdict
<1>4. QED
  BY <1>1, <1>2, <1>3

\* A decision is recorded after it was written.
LEMMA DecisionsKeep ==
  ASSUME ApprovalsInv, NEW d \in Decider,
         \/ \E a \in ApprovalId, v \in Verdict : DecideApproval(d, a, v)
         \/ WriteDecision(d) \/ RecordDecision(d) \/ FailDecision(d)
  PROVE  ApprovalsInv'
<1> USE DEF ApprovalsInv
<1>1. NoPost \in PostRow /\ NoPost.pc = "idle"
  BY DEF NoPost, PostRow
<1>2. ASSUME NEW a \in ApprovalId, NEW v \in Verdict, DecideApproval(d, a, v) PROVE ApprovalsInv'
  <2>1. post' = [post EXCEPT ![d] = [pc |-> "lock", ask |-> a, verdict |-> v]]
        /\ UNCHANGED <<app, run, ask, held, queued, stored, answers>>
    BY <1>2 DEF DecideApproval
  <2>2. post' \in [Decider -> PostRow]
    BY <2>1 DEF ApprovalsTypeOK, PostRow
  <2>3. PostsSound'
    BY <2>1 DEF PostsSound, ApprovalsTypeOK
  <2>4. QED
    BY <2>1, <2>2, <2>3 DEF ApprovalsTypeOK, PostRow, ApprovalsFollowTurns, Active
<1>3. CASE WriteDecision(d)
  <2> DEFINE a == post[d].ask
             v == post[d].verdict
  <2>1. answers' = [answers EXCEPT ![a] = @ \cup {v}] /\ post' = [post EXCEPT ![d].pc = "drain"]
        /\ UNCHANGED <<app, run, ask, held, queued, stored>> /\ a \in ApprovalId /\ v \in Verdict
    BY <1>3 DEF WriteDecision, PostsSound
  <2>2. answers' \in [ApprovalId -> SUBSET Verdict]
        /\ \A b \in ApprovalId : answers'[b] = IF b = a THEN answers[b] \cup {v} ELSE answers[b]
    BY <2>1 DEF ApprovalsTypeOK
  <2>3. post' \in [Decider -> PostRow]
    <3>1. [post[d] EXCEPT !.pc = "drain"] \in PostRow /\ post \in [Decider -> PostRow]
      BY DEF ApprovalsTypeOK, PostRow
    <3>2. post' = [post EXCEPT ![d] = [post[d] EXCEPT !.pc = "drain"]]
      BY <2>1
    <3>3. QED
      BY <3>1, <3>2
  <2>4. \A e \in Decider : /\ post'[e].ask = post[e].ask /\ post'[e].verdict = post[e].verdict
                           /\ post'[e].pc = IF e = d THEN "drain" ELSE post[e].pc
    BY <2>1 DEF ApprovalsTypeOK
  <2>5. PostsSound'
    BY <2>1, <2>2, <2>4 DEF PostsSound
  <2>6. QED
    BY <2>1, <2>2, <2>3, <2>5 DEF ApprovalsTypeOK, PostRow, ApprovalsFollowTurns, Active
<1>4. CASE RecordDecision(d)
  <2> DEFINE a == post[d].ask
             v == post[d].verdict
  <2>1. /\ stored' = [stored EXCEPT ![a] = v] /\ post' = [post EXCEPT ![d] = NoPost]
        /\ UNCHANGED <<app, run, ask, queued, answers>> /\ held' = held \ {a}
        /\ a \in ApprovalId /\ v \in Verdict /\ v \in answers[a]
    BY <1>4 DEF RecordDecision, PostsSound
  <2>2. stored' \in [ApprovalId -> Verdict \cup {"none", "pending"}]
        /\ \A b \in ApprovalId : stored'[b] = IF b = a THEN v ELSE stored[b]
    BY <2>1 DEF ApprovalsTypeOK
  <2>3. post' \in [Decider -> PostRow] /\ \A e \in Decider : post'[e] = IF e = d THEN NoPost ELSE post[e]
    BY <1>1, <2>1 DEF ApprovalsTypeOK, PostRow
  <2>4. ApprovalsTypeOK' /\ PostsSound'
    BY <1>1, <2>1, <2>2, <2>3 DEF ApprovalsTypeOK, PostsSound, PostRow
  <2>5. ApprovalsFollowTurns'
    BY <2>1, <2>2 DEF ApprovalsFollowTurns, ApprovalsTypeOK, Active
  <2>6. QED
    BY <2>1, <2>4, <2>5
<1>5. CASE FailDecision(d)
  <2>1. post' = [post EXCEPT ![d] = NoPost] /\ UNCHANGED <<app, run, ask, held, queued, stored, answers>>
    BY <1>5 DEF FailDecision
  <2>2. post' \in [Decider -> PostRow] /\ \A e \in Decider : post'[e] = IF e = d THEN NoPost ELSE post[e]
    BY <1>1, <2>1 DEF ApprovalsTypeOK, PostRow
  <2>3. QED
    BY <1>1, <2>1, <2>2 DEF ApprovalsTypeOK, PostsSound, PostRow, ApprovalsFollowTurns, Active
<1>6. QED
  BY <1>2, <1>3, <1>4, <1>5

\* A death leaves only rows, which say what was sent.
LEMMA DeathsKeep ==
  ASSUME ApprovalsInv, AppDies \/ BackendDies
  PROVE  ApprovalsInv'
<1> USE DEF ApprovalsInv
<1>1. app' \in [number : 0..MaxApps, alive : BOOLEAN]
  BY DEF AppDies, BackendDies, ApprovalsTypeOK
<1>2. CASE AppDies
  BY <1>1, <1>2 DEF AppDies, ApprovalsTypeOK, PostsSound, ApprovalsFollowTurns, Active
<1>3. CASE BackendDies
  <2>1. run' \in [Job -> RunRow]
    <3>1. \A t \in Job : run[t] \in RunRow /\ [run[t] EXCEPT !.pc = "over"] \in RunRow
      BY DEF ApprovalsTypeOK, RunRow
    <3>2. QED
      BY <1>3, <3>1 DEF BackendDies
  <2>2. post' = [d \in Decider |-> NoPost] /\ NoPost \in PostRow /\ NoPost.pc = "idle"
    BY <1>3 DEF BackendDies, NoPost, PostRow
  <2>3. held' = {} /\ queued' = {} /\ UNCHANGED <<ask, stored, answers>>
    BY <1>3 DEF BackendDies
  <2>4. ApprovalsTypeOK'
    BY <1>1, <2>1, <2>2, <2>3 DEF ApprovalsTypeOK, RunRow, PostRow
  <2>5. PostsSound' /\ ApprovalsFollowTurns'
    BY <2>2, <2>3 DEF PostsSound, ApprovalsFollowTurns
  <2>6. QED
    BY <2>3, <2>4, <2>5
<1>4. QED
  BY <1>2, <1>3

\* Approvals, turns and the decisions on their way fit each other.
THEOREM ApprovalsInvariant == ApprovalsSpec => []ApprovalsInv
<1>1. ApprovalsInv /\ [ApprovalsNext]_approvalVars => ApprovalsInv'
  <2>1. CASE ApprovalsNext
    BY <2>1, TurnsKeep, RowsKeep, DecisionsKeep, DeathsKeep DEF ApprovalsNext
  <2>2. CASE UNCHANGED approvalVars
    BY <2>2 DEF approvalVars, ApprovalsInv, ApprovalsTypeOK, PostsSound, ApprovalsFollowTurns, Active
  <2>3. QED
    BY <2>1, <2>2
<1>2. QED
  BY <1>1, ApprovalsInvInit, PTL DEF ApprovalsSpec

\* A decision on record was sent; an approval that can be decided belongs to a
\* turn that is not over, and while the turn streams its user gets to see it.
THEOREM ApprovalsFollow == ApprovalsSpec => []ApprovalsFollowTurns
<1>1. ApprovalsInv => ApprovalsFollowTurns
  BY DEF ApprovalsInv
<1>2. QED
  BY <1>1, ApprovalsInvariant, PTL

-----------------------------------------------------------------------------
(* DesktopKeepers: what is left of a lease after the end of the task *)

\* No call outlives the turn; so nothing is registered once it was forgotten.
KeepersInv ==
  /\ KeepersTypeOK /\ LeaseStaysReleased
  /\ worker # "running" => \A c \in Call : toolCalls[c] = NoCall

CallRow == [pc : {"idle", "post", "granted", "replacing"}, gen : 0..MaxGeneration]

\* A worker starts without a lease.
LEMMA KeepersInvInit == KeepersInit => KeepersInv
<1> SUFFICES ASSUME KeepersInit PROVE KeepersInv
  OBVIOUS
<1> USE KeeperAssumption
<1>1. NoCall \in CallRow /\ 0 \in 0..MaxGeneration /\ 1 \in 1..MaxGeneration
  BY DEF NoCall, CallRow
<1>2. Cardinality({}) = 0 /\ 0 <= MaxStray
  BY FS_EmptySet
<1>3. revived \in BOOLEAN
  BY DEF KeepersInit
<1>4. KeepersTypeOK
  BY <1>1, <1>2, <1>3 DEF KeepersInit, KeepersTypeOK, CallRow
<1>5. QED
  BY <1>4 DEF KeepersInit, KeepersInv, LeaseStaysReleased

\* There is a keeper to take, and it is the only one that is registered then.
LEMMA NewKeeperFacts ==
  ASSUME KeepersInv, NEW g \in 0..MaxGeneration, NewKeeper(g)
  PROVE  /\ keepers' \in [Keeper -> 0..MaxGeneration]
         /\ registered' \subseteq Keeper /\ Cardinality(registered') <= 1
<1>1. PICK k \in Keeper : keepers' = [keepers EXCEPT ![k] = g] /\ registered' = {k}
  <2>1. \E k \in Keeper : k \notin Alive
    BY DEF NewKeeper, Alive
  <2>2. QED
    BY <2>1 DEF NewKeeper
<1>2. Cardinality({k}) = 1
  BY FS_Singleton
<1>3. QED
  BY <1>1, <1>2 DEF KeepersInv, KeepersTypeOK

\* The calls of a running turn keep the invariant.
LEMMA CallsKeep ==
  ASSUME KeepersInv, NEW c \in Call,
         \/ Post(c) \/ Granted(c) \/ TakeAnswer(c) \/ ReplaceKeeper(c)
         \/ \E arrives \in BOOLEAN : Refuse(c, arrives)
  PROVE  KeepersInv'
<1> USE KeeperAssumption
<1>1. worker = "running" /\ worker' = worker /\ generation' = generation /\ revived' = revived
  BY DEF KeepersInv, NoCall, Post, Granted, TakeAnswer, ReplaceKeeper, Refuse
<1>2. toolCalls[c].gen \in 0..MaxGeneration /\ NoCall \in CallRow
      /\ generation \in 1..MaxGeneration /\ 0 \in 0..MaxGeneration
  BY DEF KeepersInv, KeepersTypeOK, NoCall, CallRow
<1>3. CASE Post(c)
  <2>1. toolCalls' \in [Call -> CallRow]
    BY <1>3 DEF Post, KeepersInv, KeepersTypeOK, CallRow
  <2>2. QED
    BY <1>1, <1>3, <2>1 DEF Post, KeepersInv, KeepersTypeOK, CallRow, LeaseStaysReleased
<1>4. CASE Granted(c)
  <2>1. toolCalls' \in [Call -> CallRow]
    BY <1>2, <1>4 DEF Granted, KeepersInv, KeepersTypeOK, CallRow
  <2>2. QED
    BY <1>1, <1>4, <2>1 DEF Granted, KeepersInv, KeepersTypeOK, CallRow, LeaseStaysReleased
<1>5. CASE TakeAnswer(c)
  <2>1. UNCHANGED <<lease, stray>> /\ cached' \in 0..MaxGeneration
    BY <1>2, <1>5 DEF TakeAnswer
  <2>2. toolCalls' \in [Call -> CallRow]
    <3>1. toolCalls' = [toolCalls EXCEPT ![c].pc = "replacing"] \/ toolCalls' = [toolCalls EXCEPT ![c] = NoCall]
      BY <1>5 DEF TakeAnswer
    <3>2. QED
      BY <1>2, <3>1 DEF KeepersInv, KeepersTypeOK, CallRow
  <2>3. /\ keepers' \in [Keeper -> 0..MaxGeneration]
        /\ registered' \subseteq Keeper /\ Cardinality(registered') <= 1
    <3>1. CASE registered # {}
      <4>1. registered' = {} /\ keepers' = [k \in Keeper |-> IF k \in registered THEN 0 ELSE keepers[k]]
        BY <1>5, <3>1 DEF TakeAnswer
      <4>2. keepers' \in [Keeper -> 0..MaxGeneration]
        BY <1>2, <4>1 DEF KeepersInv, KeepersTypeOK
      <4>3. Cardinality(registered') = 0
        BY <4>1, FS_EmptySet
      <4>4. QED
        BY <4>1, <4>2, <4>3
    <3>2. CASE registered = {}
      BY <1>2, <1>5, <3>2, NewKeeperFacts DEF TakeAnswer
    <3>3. QED
      BY <3>1, <3>2
  <2>4. QED
    BY <1>1, <2>1, <2>2, <2>3 DEF KeepersInv, KeepersTypeOK, CallRow, LeaseStaysReleased
<1>6. CASE ReplaceKeeper(c)
  <2>1. UNCHANGED <<lease, cached, stray>> /\ toolCalls' = [toolCalls EXCEPT ![c] = NoCall]
    BY <1>6 DEF ReplaceKeeper
  <2>2. toolCalls' \in [Call -> CallRow]
    BY <1>2, <2>1 DEF KeepersInv, KeepersTypeOK, CallRow
  <2>3. /\ keepers' \in [Keeper -> 0..MaxGeneration]
        /\ registered' \subseteq Keeper /\ Cardinality(registered') <= 1
    BY <1>2, <1>6, NewKeeperFacts DEF ReplaceKeeper
  <2>4. QED
    BY <1>1, <2>1, <2>2, <2>3 DEF KeepersInv, KeepersTypeOK, CallRow, LeaseStaysReleased
<1>7. ASSUME NEW arrives \in BOOLEAN, Refuse(c, arrives) PROVE KeepersInv'
  <2>1. UNCHANGED <<lease, cached, registered, keepers>> /\ toolCalls' = [toolCalls EXCEPT ![c] = NoCall]
    BY <1>7 DEF Refuse
  <2>2. toolCalls' \in [Call -> CallRow]
    BY <1>2, <2>1 DEF KeepersInv, KeepersTypeOK, CallRow
  <2>3. stray' \subseteq {Start} \cup 1..MaxGeneration /\ Cardinality(stray') <= MaxStray
    BY <1>7 DEF Refuse, KeepersInv, KeepersTypeOK
  <2>4. QED
    BY <1>1, <2>1, <2>2, <2>3 DEF KeepersInv, KeepersTypeOK, CallRow, LeaseStaysReleased
<1>8. QED
  BY <1>3, <1>4, <1>5, <1>6, <1>7

\* Keepers and the supervisor keep it: a heartbeat renews only what is there.
LEMMA LeasesKeep ==
  ASSUME KeepersInv,
         (\E k \in Keeper, lost \in BOOLEAN : Beat(k, lost)) \/ ExpireLease \/ Revoke
  PROVE  KeepersInv'
<1> USE KeeperAssumption
<1>1. ASSUME NEW k \in Keeper, NEW lost \in BOOLEAN, Beat(k, lost) PROVE KeepersInv'
  <2>1. lease' = lease /\ UNCHANGED <<generation, cached, registered, toolCalls, stray, worker, revived>>
    BY <1>1 DEF Beat, Renews
  <2>2. keepers' \in [Keeper -> 0..MaxGeneration]
    BY <1>1 DEF Beat, KeepersInv, KeepersTypeOK
  <2>3. QED
    BY <2>1, <2>2 DEF KeepersInv, KeepersTypeOK, LeaseStaysReleased
<1>2. CASE ExpireLease
  BY <1>2 DEF ExpireLease, KeepersInv, KeepersTypeOK, LeaseStaysReleased
<1>3. CASE Revoke
  BY <1>3 DEF Revoke, KeepersInv, KeepersTypeOK, LeaseStaysReleased
<1>4. QED
  BY <1>1, <1>2, <1>3

\* The end of the task, and requests that come after it, keep it.
LEMMA EndKeeps ==
  ASSUME KeepersInv,
         \/ CloseTurn \/ ForgetTask \/ \E ok \in BOOLEAN : ReleaseLease(ok)
         \/ \E x \in stray, lost \in BOOLEAN : HandleStray(x, lost)
  PROVE  KeepersInv'
<1> USE KeeperAssumption
<1>1. generation \in 1..MaxGeneration /\ lease \in 0..MaxGeneration /\ 0 \in 0..MaxGeneration
      /\ stray \subseteq {Start} \cup 1..MaxGeneration /\ keepers \in [Keeper -> 0..MaxGeneration]
  BY DEF KeepersInv, KeepersTypeOK
<1>2. CASE CloseTurn
  <2>1. worker' = "closing" /\ toolCalls' = [c \in Call |-> NoCall]
        /\ UNCHANGED <<generation, lease, cached, registered, keepers, revived>>
    BY <1>2 DEF CloseTurn, Cut
  <2>2. toolCalls' \in [Call -> CallRow]
    BY <2>1 DEF NoCall, CallRow
  <2>3. stray' \subseteq {Start} \cup 1..MaxGeneration /\ Cardinality(stray') <= MaxStray
    <3>1. PICK some \in SUBSET ((IF \E c \in Call : toolCalls[c].pc = "post" THEN {Start} ELSE {})
                                \cup {keepers[k] : k \in Alive}) :
            stray' = stray \cup some /\ Cardinality(stray') <= MaxStray
      BY <1>2 DEF CloseTurn
    <3>2. {keepers[k] : k \in Alive} \subseteq 1..MaxGeneration
      BY <1>1 DEF Alive
    <3>3. QED
      BY <1>1, <3>1, <3>2
  <2>4. QED
    BY <2>1, <2>2, <2>3 DEF KeepersInv, KeepersTypeOK, CallRow, LeaseStaysReleased
<1>3. CASE ForgetTask
  <2>1. /\ worker = "closing" /\ worker' = "posting" /\ cached' = 0 /\ registered' = {}
        /\ UNCHANGED <<generation, lease, toolCalls, stray, revived>>
        /\ keepers' \in [Keeper -> 0..MaxGeneration] /\ Cardinality({}) = 0
    BY <1>1, <1>3, FS_EmptySet DEF ForgetTask
  <2>2. QED
    BY <1>1, <2>1 DEF KeepersInv, KeepersTypeOK, LeaseStaysReleased
<1>4. ASSUME NEW ok \in BOOLEAN, ReleaseLease(ok) PROVE KeepersInv'
  BY <1>1, <1>4 DEF ReleaseLease, KeepersInv, KeepersTypeOK, LeaseStaysReleased
<1>5. ASSUME NEW x \in stray, NEW lost \in BOOLEAN, HandleStray(x, lost) PROVE KeepersInv'
  <2>1. stray' = stray \ {x} /\ UNCHANGED <<generation, cached, registered, keepers, toolCalls, worker>>
    BY <1>5 DEF HandleStray
  <2>2. stray' \subseteq {Start} \cup 1..MaxGeneration /\ Cardinality(stray') <= MaxStray
    <3>1. IsFiniteSet(0..MaxGeneration) /\ stray \subseteq 0..MaxGeneration
      BY <1>1, FS_Interval DEF Start
    <3>2. IsFiniteSet(stray)
      BY <3>1, FS_Subset
    <3>3. IsFiniteSet(stray \ {x}) /\ Cardinality(stray \ {x}) <= Cardinality(stray)
      BY <3>2, FS_Subset
    <3>4. Cardinality(stray) \in Nat /\ Cardinality(stray \ {x}) \in Nat /\ Cardinality(stray) <= MaxStray
      BY <3>2, <3>3, FS_CardinalityType DEF KeepersInv, KeepersTypeOK
    <3>5. QED
      BY <1>1, <2>1, <3>3, <3>4
  <2>3. revived' \in BOOLEAN /\ (revived => revived')
    BY <1>5 DEF HandleStray, KeepersInv, KeepersTypeOK
  <2>4. lease' \in 0..MaxGeneration
    BY <1>1, <1>5 DEF HandleStray
  <2>5. worker = "done" /\ lease' # 0 => revived'
    <3>1. CASE x = Start /\ ~lost
      BY <1>5, <3>1 DEF HandleStray
    <3>2. CASE ~(x = Start /\ ~lost)
      <4>1. lease' = lease
        BY <1>5, <3>2 DEF HandleStray, Renews
      <4>2. QED
        BY <2>3, <4>1 DEF KeepersInv, LeaseStaysReleased
    <3>3. QED
      BY <3>1, <3>2
  <2>6. QED
    BY <2>1, <2>2, <2>3, <2>4, <2>5 DEF KeepersInv, KeepersTypeOK, LeaseStaysReleased
<1>6. QED
  BY <1>2, <1>3, <1>4, <1>5

\* Calls, keepers and the lease of the desktop fit each other.
THEOREM KeepersInvariant == KeepersSpec => []KeepersInv
<1>1. KeepersInv /\ [KeepersNext]_keeperVars => KeepersInv'
  <2>1. CASE KeepersNext
    BY <2>1, CallsKeep, LeasesKeep, EndKeeps DEF KeepersNext
  <2>2. CASE UNCHANGED keeperVars
    BY <2>2 DEF keeperVars, KeepersInv, KeepersTypeOK, LeaseStaysReleased
  <2>3. QED
    BY <2>1, <2>2
<1>2. QED
  BY <1>1, KeepersInvInit, PTL DEF KeepersSpec

\* Once a worker has released its desktop, nothing of its turn is registered
\* again, and only a failed release or a start request that arrives after it
\* leaves a lease.
THEOREM LeasesStayReleased == KeepersSpec => []LeaseStaysReleased
<1>1. KeepersInv => LeaseStaysReleased
  BY DEF KeepersInv
<1>2. QED
  BY <1>1, KeepersInvariant, PTL

-----------------------------------------------------------------------------
(* TaskStream: what the browser has, what is on its way, what is left *)

\* One of the first n events is the last one.
HasLast(n) == \E i \in 1..n : events[i] = "last"

\* Nothing that a stream which ended at cursor n left out can matter.
Ended(n) == over /\ n <= Len(events) /\ (n = Len(events) \/ HasLast(n))

\* A task has one last event at most, and only when it is over.
LastOnce ==
  /\ \A i, j \in DOMAIN events : events[i] = "last" /\ events[j] = "last" => i = j
  /\ HasLast(Len(events)) => over

\* The stream has yielded what its cursor covers and holds what follows.
FeedFits ==
  /\ feed.cursor + Len(feed.page) <= Len(events)
  /\ \A k \in 1..Len(feed.page) : feed.page[k] = feed.cursor + k
  /\ feed.pc = "yield" <=> feed.page # <<>>

\* The watch has passed on what its cursor covers, and returned at a last
\* event or behind all events of a task that has none.
ShownFits ==
  /\ watch.cursor <= Len(events)
  /\ \A k \in 1..watch.cursor : shown[k] = k
  /\ \/ Len(shown) = watch.cursor /\ (watch.pc = "returned" <=> HasLast(watch.cursor))
     \/ /\ Len(shown) = watch.cursor + 1 /\ shown[watch.cursor + 1] = 0
        /\ watch.pc = "returned" /\ watch.cursor = Len(events)
        /\ over /\ ~HasLast(Len(events))

\* Between the two, the events on their way are those in between; a stream
\* that has ended left none behind.
PipeFits ==
  /\ watch.pc = "read" =>
       \/ /\ feed.pc # "none" /\ feed.cursor = watch.cursor + Len(pipe)
          /\ \A k \in 1..Len(pipe) : pipe[k] = watch.cursor + k
       \/ /\ feed.pc = "none" /\ pipe # <<>> /\ pipe[Len(pipe)] = 0
          /\ \A k \in 1..(Len(pipe) - 1) : pipe[k] = watch.cursor + k
          /\ Ended(watch.cursor + Len(pipe) - 1)
  /\ watch.pc = "ask" => Ended(watch.cursor)
  /\ watch.pc \in {"connect", "read", "ask"} => watch.attempts <= MaxAttempts

StreamInv == StreamTypeOK /\ LastOnce /\ FeedFits /\ ShownFits /\ PipeFits

\* The watch starts with a task that has no event.
LEMMA StreamInvInit == StreamInit => StreamInv
<1> SUFFICES ASSUME StreamInit PROVE StreamInv
  OBVIOUS
<1> USE StreamAssumption
<1>1. /\ events = <<>> /\ over = FALSE /\ feed = NoFeed /\ pipe = <<>> /\ shown = <<>>
      /\ watch = [pc |-> "connect", cursor |-> 0, attempts |-> 0]
  BY DEF StreamInit
<1>2. StreamTypeOK
  <2>1. /\ events \in Seq({"step", "last"}) /\ Len(events) <= MaxEvents /\ over \in BOOLEAN
        /\ pipe \in Seq(0..MaxEvents) /\ shown \in Seq(0..MaxEvents)
    <3>1. events \in Seq({"step", "last"}) /\ Len(events) = 0
      BY <1>1, EmptySeq
    <3>2. pipe \in Seq(0..MaxEvents) /\ shown \in Seq(0..MaxEvents)
      BY <1>1, EmptySeq
    <3>3. over \in BOOLEAN
      BY <1>1
    <3>4. QED
      BY <3>1, <3>2, <3>3
  <2>2. feed \in [pc : {"none", "poll", "yield", "check"}, cursor : 0..MaxEvents,
                 page : Seq(1..MaxEvents)]
    <3>1. <<>> \in Seq(1..MaxEvents) /\ 0 \in 0..MaxEvents
      OBVIOUS
    <3>2. QED
      BY <1>1, <3>1 DEF NoFeed
  <2>3. watch \in [pc : {"connect", "read", "ask", "returned", "failed"}, cursor : 0..MaxEvents,
                  attempts : 0..(MaxAttempts + 1)]
    BY <1>1
  <2>4. QED
    BY <2>1, <2>2, <2>3 DEF StreamTypeOK
<1>3. LastOnce /\ FeedFits
  BY <1>1 DEF LastOnce, HasLast, FeedFits, NoFeed
<1>4. ShownFits /\ PipeFits
  BY <1>1 DEF ShownFits, PipeFits, HasLast
<1>5. QED
  BY <1>2, <1>3, <1>4 DEF StreamInv

\* Another event leaves what was said of the earlier ones alone.
LEMMA EventAdded ==
  ASSUME events \in Seq({"step", "last"}), NEW e \in {"step", "last"}, events' = Append(events, e)
  PROVE  /\ Len(events') = Len(events) + 1 /\ events' \in Seq({"step", "last"})
         /\ \A i \in 1..Len(events) : events'[i] = events[i]
         /\ events'[Len(events) + 1] = e
         /\ \A n \in 0..Len(events) : HasLast(n)' <=> HasLast(n)
         /\ HasLast(Len(events))' <=> HasLast(Len(events)) \/ e = "last"
<1>1. /\ Len(events') = Len(events) + 1 /\ events' \in Seq({"step", "last"})
      /\ \A i \in 1..Len(events) : events'[i] = events[i]
      /\ events'[Len(events) + 1] = e
  OBVIOUS
<1>2. \A n \in 0..Len(events) : HasLast(n)' <=> HasLast(n)
  BY <1>1 DEF HasLast
<1>3. HasLast(Len(events))' <=> HasLast(Len(events)) \/ e = "last"
  <2>1. HasLast(Len(events))' <=> \E i \in 1..(Len(events) + 1) : events'[i] = "last"
    BY <1>1 DEF HasLast
  <2>2. \A i \in 1..(Len(events) + 1) : i \in 1..Len(events) \/ i = Len(events) + 1
    OBVIOUS
  <2>3. Len(events) + 1 \in 1..(Len(events) + 1) /\ \A i \in 1..Len(events) : i \in 1..(Len(events) + 1)
    OBVIOUS
  <2>4. QED
    BY <1>1, <2>1, <2>2, <2>3 DEF HasLast
<1>4. QED
  BY <1>1, <1>2, <1>3

\* The task only moves on: what a watch and its stream have is still right.
LEMMA WorkerEvents ==
  ASSUME StreamInv, AppendStep \/ FinishTask
  PROVE  StreamInv'
<1> USE StreamAssumption
<1>1. PICK e \in {"step", "last"} :
        /\ events' = Append(events, e) /\ Len(events) < MaxEvents
        /\ UNCHANGED <<feed, pipe, watch, shown>>
        /\ over' \in BOOLEAN
        /\ \/ e = "step" /\ over' = over /\ (over => HasLast(Len(events)))
           \/ e = "last" /\ ~over /\ over'
  <2>1. ASSUME AppendStep
        PROVE  /\ events' = Append(events, "step") /\ Len(events) < MaxEvents
               /\ UNCHANGED <<over, feed, pipe, watch, shown>>
               /\ over => HasLast(Len(events))
    BY <2>1 DEF AppendStep, HasLast, StreamInv, StreamTypeOK
  <2>2. over \in BOOLEAN
    BY DEF StreamInv, StreamTypeOK
  <2>3. CASE AppendStep
    BY <2>1, <2>2, <2>3
  <2>4. CASE FinishTask
    BY <2>4 DEF FinishTask
  <2>5. QED
    BY <2>3, <2>4
<1> DEFINE N == Len(events)
<1>2. N \in Nat /\ watch.cursor \in Nat /\ pipe \in Seq(0..MaxEvents)
  BY DEF StreamInv, StreamTypeOK
<1>3. /\ Len(events') = N + 1 /\ events' \in Seq({"step", "last"})
      /\ \A i \in 1..N : events'[i] = events[i]
      /\ events'[N + 1] = e
      /\ \A n \in 0..N : HasLast(n)' <=> HasLast(n)
      /\ HasLast(Len(events))' <=> HasLast(N) \/ e = "last"
  BY <1>1, EventAdded DEF StreamInv, StreamTypeOK
<1> HIDE DEF N
<1>4. StreamTypeOK'
  BY <1>1, <1>2, <1>3 DEF StreamInv, StreamTypeOK, N
<1>5. HasLast(N) => over
  BY DEF StreamInv, LastOnce, N
<1>6. LastOnce'
  <2>1. \A i \in DOMAIN events' : i \in 1..N \/ i = N + 1
    BY <1>2, <1>3
  <2>2. e = "last" => \A i \in 1..N : events[i] # "last"
    BY <1>1, <1>5 DEF HasLast
  <2>3. \A i, j \in DOMAIN events' : events'[i] = "last" /\ events'[j] = "last" => i = j
    BY <1>1, <1>3, <2>1, <2>2 DEF StreamInv, LastOnce, StreamTypeOK, N
  <2>4. HasLast(Len(events))' => over'
    <3>1. CASE e = "last"
      BY <1>1, <3>1
    <3>2. CASE e = "step"
      BY <1>1, <1>3, <1>5, <3>2
    <3>3. QED
      BY <3>1, <3>2
  <2>5. QED
    BY <2>3, <2>4 DEF LastOnce
<1>7. FeedFits'
  BY <1>1, <1>2, <1>3 DEF StreamInv, StreamTypeOK, FeedFits, N
<1>8. ASSUME NEW n \in 0..N, Ended(n) PROVE Ended(n)'
  BY <1>1, <1>2, <1>3, <1>5, <1>8 DEF Ended, N
<1>9. ShownFits'
  <2>1. watch.cursor <= N
    BY DEF StreamInv, ShownFits, N
  <2>2. HasLast(watch.cursor)' <=> HasLast(watch.cursor)
    BY <1>1, <1>2, <1>3, <2>1
  <2>3. CASE Len(shown) = watch.cursor /\ (watch.pc = "returned" <=> HasLast(watch.cursor))
    BY <1>1, <1>2, <1>3, <2>1, <2>2, <2>3 DEF StreamInv, ShownFits
  <2>4. CASE over /\ ~HasLast(N)
    BY <1>1, <2>4 DEF N
  <2>5. QED
    BY <2>3, <2>4 DEF StreamInv, ShownFits, N
<1>10. PipeFits'
  <2>1. ASSUME watch.pc = "read", feed.pc = "none" PROVE Ended(watch.cursor + Len(pipe) - 1)'
    <3>1. Ended(watch.cursor + Len(pipe) - 1) /\ pipe # <<>>
      BY <2>1 DEF StreamInv, PipeFits
    <3>2. watch.cursor + Len(pipe) - 1 \in 0..N
      BY <1>2, <3>1 DEF Ended, N
    <3>3. QED
      BY <1>1, <1>8, <3>1, <3>2
  <2>2. ASSUME watch.pc = "ask" PROVE Ended(watch.cursor)'
    <3>1. Ended(watch.cursor)
      BY <2>2 DEF StreamInv, PipeFits
    <3>2. watch.cursor \in 0..N
      BY <1>2, <3>1 DEF Ended, N
    <3>3. QED
      BY <1>1, <1>8, <3>1, <3>2
  <2>3. QED
    BY <1>1, <2>1, <2>2 DEF StreamInv, PipeFits
<1>11. QED
  BY <1>4, <1>6, <1>7, <1>9, <1>10 DEF StreamInv

\* The steps of the stream: it yields the events that follow its cursor.
LEMMA FeedSteps ==
  ASSUME StreamInv, PollEvents \/ YieldEvent \/ CheckTask
  PROVE  StreamInv'
<1> USE StreamAssumption
<1> DEFINE N == Len(events)
<1> DEFINE found == After(feed.cursor)
<1>1. /\ N \in Nat /\ N <= MaxEvents /\ events \in Seq({"step", "last"}) /\ over \in BOOLEAN
      /\ feed \in [pc : {"none", "poll", "yield", "check"}, cursor : 0..MaxEvents,
                   page : Seq(1..MaxEvents)]
      /\ pipe \in Seq(0..MaxEvents) /\ watch.cursor \in Nat
  BY DEF StreamInv, StreamTypeOK
<1>2. feed.cursor <= N
  BY <1>1 DEF StreamInv, FeedFits
<1>3. /\ found \in Seq(1..MaxEvents) /\ Len(found) = N - feed.cursor
      /\ \A k \in 1..Len(found) : found[k] = feed.cursor + k
  <2>1. N - feed.cursor \in Nat
    BY <1>1, <1>2
  <2>2. \A k \in 1..(N - feed.cursor) : feed.cursor + k \in 1..MaxEvents
    BY <1>1, <1>2
  <2> DEFINE d == N - feed.cursor
  <2>3. found = [k \in 1..d |-> feed.cursor + k]
    BY DEF After
  <2>4. d \in Nat /\ \A k \in 1..d : feed.cursor + k \in 1..MaxEvents
    BY <2>1, <2>2
  <2> HIDE DEF d, found
  <2>5. found \in Seq(1..MaxEvents) /\ Len(found) = d /\ \A k \in 1..d : found[k] = feed.cursor + k
    BY <2>3, <2>4
  <2>6. QED
    BY <2>5 DEF d
<1>4. LastOnce' /\ ShownFits'
  BY DEF StreamInv, LastOnce, ShownFits, HasLast, PollEvents, YieldEvent, CheckTask
<1>5. ASSUME PollEvents PROVE StreamInv'
  <2> DEFINE q == IF Len(found) < PageSize THEN Len(found) ELSE PageSize
  <2> DEFINE page == SubSeq(found, 1, q)
  <2>1. q \in 0..Len(found) /\ Len(found) \in Nat
    BY <1>3
  <2>2. /\ page \in Seq(1..MaxEvents) /\ Len(page) = q
        /\ \A k \in 1..Len(page) : page[k] = feed.cursor + k
    <3> HIDE DEF q, found
    <3>1. QED
      BY <1>3, <2>1
  <2>3. feed' = [feed EXCEPT !.page = page, !.pc = IF page = <<>> THEN "check" ELSE "yield"]
    BY <1>5 DEF PollEvents
  <2>4. UNCHANGED <<events, over, pipe, watch, shown>> /\ feed.pc = "poll"
    BY <1>5 DEF PollEvents
  <2>5. feed.cursor + Len(page) <= N
    <3> HIDE DEF page, q, found
    <3>1. QED
      BY <1>1, <1>3, <2>1, <2>2
  <2> HIDE DEF page, q, found
  <2>6. /\ feed'.page = page /\ feed'.cursor = feed.cursor
        /\ feed'.pc = IF page = <<>> THEN "check" ELSE "yield"
        /\ feed' \in [pc : {"none", "poll", "yield", "check"}, cursor : 0..MaxEvents,
                      page : Seq(1..MaxEvents)]
    BY <1>1, <2>2, <2>3
  <2>7. StreamTypeOK' /\ FeedFits'
    BY <1>1, <2>2, <2>4, <2>5, <2>6 DEF StreamInv, StreamTypeOK, FeedFits
  <2>8. PipeFits'
    BY <2>4, <2>6 DEF StreamInv, PipeFits, Ended, HasLast
  <2>9. QED
    BY <1>4, <2>7, <2>8 DEF StreamInv
<1>6. ASSUME YieldEvent PROVE StreamInv'
  <2>1. /\ UNCHANGED <<events, over, watch, shown>> /\ feed.pc = "yield"
        /\ pipe' = Append(pipe, Head(feed.page))
        /\ feed' = [pc |-> IF Len(feed.page) = 1 THEN "check" ELSE "yield",
                    cursor |-> Head(feed.page), page |-> Tail(feed.page)]
    BY <1>6 DEF YieldEvent
  <2>2. feed.page # <<>> /\ feed.page \in Seq(1..MaxEvents)
    BY <1>1, <2>1 DEF StreamInv, FeedFits
  <2>3. /\ Len(feed.page) >= 1 /\ Len(feed.page) \in Nat
        /\ Head(feed.page) = feed.page[1] /\ Head(feed.page) \in 1..MaxEvents
        /\ Tail(feed.page) \in Seq(1..MaxEvents) /\ Len(Tail(feed.page)) = Len(feed.page) - 1
        /\ \A k \in 1..(Len(feed.page) - 1) : Tail(feed.page)[k] = feed.page[k + 1]
    <3>1. Len(feed.page) >= 1 /\ Len(feed.page) \in Nat
      BY <2>2, EmptySeq
    <3>2. Head(feed.page) = feed.page[1] /\ Head(feed.page) \in 1..MaxEvents
      BY <2>2, HeadTailProperties
    <3>3. /\ Tail(feed.page) \in Seq(1..MaxEvents) /\ Len(Tail(feed.page)) = Len(feed.page) - 1
          /\ \A k \in 1..Len(Tail(feed.page)) : Tail(feed.page)[k] = feed.page[k + 1]
      BY <2>2, HeadTailProperties
    <3>4. QED
      BY <3>1, <3>2, <3>3
  <2>4. Head(feed.page) = feed.cursor + 1
    BY <2>3 DEF StreamInv, FeedFits
  <2>5. StreamTypeOK'
    BY <1>1, <2>1, <2>3 DEF StreamInv, StreamTypeOK
  <2>6. FeedFits'
    <3>1. feed'.cursor = feed.cursor + 1 /\ feed'.page = Tail(feed.page) /\ events' = events
      BY <2>1, <2>4
    <3>2. feed'.cursor + Len(feed'.page) <= Len(events')
      BY <1>1, <2>3, <3>1 DEF StreamInv, FeedFits
    <3>3. \A k \in 1..Len(feed'.page) : feed'.page[k] = feed'.cursor + k
      <4>1. \A k \in 1..Len(feed.page) : feed.page[k] = feed.cursor + k
        BY DEF StreamInv, FeedFits
      <4>2. QED
        BY <1>1, <2>3, <3>1, <4>1
    <3>4. feed'.pc = "yield" <=> feed'.page # <<>>
      <4>1. Tail(feed.page) = <<>> <=> Len(Tail(feed.page)) = 0
        BY <2>3, EmptySeq
      <4>2. QED
        BY <2>1, <2>3, <4>1
    <3>5. QED
      BY <3>2, <3>3, <3>4 DEF FeedFits
  <2>7. PipeFits'
    <3>1. /\ Len(pipe') = Len(pipe) + 1 /\ pipe'[Len(pipe) + 1] = feed.cursor + 1
          /\ \A k \in 1..Len(pipe) : pipe'[k] = pipe[k]
      BY <1>1, <2>1, <2>3, <2>4
    <3>2. feed'.pc # "none" /\ feed'.cursor = feed.cursor + 1 /\ watch' = watch
      BY <2>1, <2>4
    <3>3. ASSUME watch.pc = "read"
          PROVE  /\ feed'.cursor = watch'.cursor + Len(pipe')
                 /\ \A k \in 1..Len(pipe') : pipe'[k] = watch'.cursor + k
      <4>1. /\ feed.cursor = watch.cursor + Len(pipe)
            /\ \A k \in 1..Len(pipe) : pipe[k] = watch.cursor + k
        BY <2>1, <3>3 DEF StreamInv, PipeFits
      <4>2. watch.cursor \in Nat /\ Len(pipe) \in Nat /\ watch'.cursor = watch.cursor
        BY <1>1, <3>2
      <4>a. watch.cursor + Len(pipe) + 1 = watch.cursor + (Len(pipe) + 1)
        BY <4>2
      <4>3. feed'.cursor = watch'.cursor + Len(pipe')
        <5>1. feed'.cursor = watch.cursor + Len(pipe) + 1
          BY <3>2, <4>1
        <5>2. Len(pipe') = Len(pipe) + 1
          BY <3>1
        <5>3. QED
          BY <4>2, <5>1, <5>2
      <4>4. ASSUME NEW k \in 1..Len(pipe') PROVE pipe'[k] = watch'.cursor + k
        <5>1. k \in 1..Len(pipe) \/ k = Len(pipe) + 1
          BY <3>1, <4>2
        <5>2. CASE k \in 1..Len(pipe)
          BY <3>1, <4>1, <4>2, <5>2
        <5>3. CASE k = Len(pipe) + 1
          <6>1. pipe'[k] = watch.cursor + Len(pipe) + 1
            BY <3>1, <4>1, <5>3
          <6>2. QED
            BY <4>2, <4>a, <5>3, <6>1
        <5>4. QED
          BY <5>1, <5>2, <5>3
      <4>5. QED
        BY <4>3, <4>4
    <3>4. QED
      BY <2>1, <3>2, <3>3 DEF StreamInv, PipeFits, Ended, HasLast
  <2>8. QED
    BY <1>4, <2>5, <2>6, <2>7 DEF StreamInv
<1>7. ASSUME CheckTask PROVE StreamInv'
  <2>1. UNCHANGED <<events, over, watch, shown>> /\ feed.pc = "check"
    BY <1>7 DEF CheckTask
  <2>2. feed.page = <<>>
    BY <1>1, <2>1 DEF StreamInv, FeedFits
  <2>3. CASE over /\ found = <<>>
    <3>1. feed' = NoFeed /\ pipe' = Append(pipe, 0)
      BY <1>7, <2>3 DEF CheckTask, EndOfFeed
    <3>2. feed.cursor = N
      BY <1>1, <1>2, <1>3, <2>3
    <3>3. StreamTypeOK' /\ FeedFits'
      BY <1>1, <2>1, <3>1 DEF StreamInv, StreamTypeOK, FeedFits, NoFeed
    <3>4. /\ Len(pipe') = Len(pipe) + 1 /\ pipe'[Len(pipe) + 1] = 0
          /\ \A k \in 1..Len(pipe) : pipe'[k] = pipe[k]
      BY <1>1, <3>1
    <3>5. ASSUME watch.pc = "read"
          PROVE  Ended(watch.cursor + Len(pipe) - 1)' /\ \A k \in 1..Len(pipe) : pipe[k] = watch.cursor + k
      <4>1. /\ feed.cursor = watch.cursor + Len(pipe)
            /\ \A k \in 1..Len(pipe) : pipe[k] = watch.cursor + k
        BY <2>1, <3>5 DEF StreamInv, PipeFits
      <4>2. watch.cursor + Len(pipe') - 1 = N
        BY <1>1, <3>2, <3>4, <4>1
      <4>3. QED
        <5>1. (watch.cursor + Len(pipe) - 1)' = N
          BY <2>1, <4>2
        <5>2. N' = N /\ over'
          BY <2>1, <2>3
        <5>3. (over /\ (watch.cursor + Len(pipe) - 1) <= Len(events)
                 /\ watch.cursor + Len(pipe) - 1 = Len(events))'
          BY <1>1, <5>1, <5>2
        <5>4. Ended(watch.cursor + Len(pipe) - 1)'
          BY <5>3 DEF Ended
        <5>5. QED
          BY <4>1, <5>4
    <3>6. PipeFits'
      <4>1. Len(pipe') - 1 = Len(pipe) /\ pipe' # <<>> /\ feed'.pc = "none"
        <5>1. Len(pipe') = Len(pipe) + 1 /\ Len(pipe) \in Nat
          BY <1>1, <3>4
        <5>2. feed'.pc = "none"
          BY <3>1 DEF NoFeed
        <5>3. QED
          BY <5>1, <5>2, EmptySeq
      <4>2. ASSUME watch.pc = "ask" PROVE Ended(watch.cursor)'
        BY <2>1, <4>2 DEF StreamInv, PipeFits, Ended, HasLast
      <4>3. ASSUME watch.pc = "read"
            PROVE  /\ pipe'[Len(pipe')] = 0
                   /\ \A k \in 1..(Len(pipe') - 1) : pipe'[k] = watch.cursor + k
        BY <1>1, <3>4, <3>5, <4>1, <4>3
      <4>4. QED
        BY <2>1, <3>5, <4>1, <4>2, <4>3 DEF StreamInv, PipeFits
    <3>7. QED
      BY <1>4, <3>3, <3>6 DEF StreamInv
  <2>4. CASE ~(over /\ found = <<>>)
    <3>1. feed' = [feed EXCEPT !.pc = "poll"] /\ pipe' = pipe
      BY <1>7, <2>4 DEF CheckTask, EndOfFeed
    <3>2. StreamTypeOK' /\ FeedFits'
      BY <1>1, <2>1, <2>2, <3>1 DEF StreamInv, StreamTypeOK, FeedFits
    <3>3. PipeFits'
      BY <1>1, <2>1, <3>1 DEF StreamInv, PipeFits, Ended, HasLast
    <3>4. QED
      BY <1>4, <3>2, <3>3 DEF StreamInv
  <2>5. QED
    BY <2>3, <2>4
<1>8. QED
  BY <1>5, <1>6, <1>7

\* A failed attempt leaves what was passed on, and counts.
LEMMA AgainFits ==
  ASSUME StreamInv, watch.pc \in {"read", "ask"}
  PROVE  /\ Again \in [pc : {"connect", "read", "ask", "returned", "failed"},
                       cursor : 0..MaxEvents, attempts : 0..(MaxAttempts + 1)]
         /\ Again.cursor = watch.cursor /\ Again.pc \in {"connect", "failed"}
         /\ Again.pc = "connect" => Again.attempts <= MaxAttempts
<1>1. watch.attempts <= MaxAttempts
  BY DEF StreamInv, PipeFits
<1>2. /\ watch \in [pc : {"connect", "read", "ask", "returned", "failed"},
                     cursor : 0..MaxEvents, attempts : 0..(MaxAttempts + 1)]
      /\ MaxAttempts \in Nat
  BY StreamAssumption DEF StreamInv, StreamTypeOK
<1>3. /\ watch.attempts + 1 \in 0..(MaxAttempts + 1)
      /\ watch.attempts + 1 > MaxAttempts \/ watch.attempts + 1 <= MaxAttempts
  BY <1>1, <1>2
<1>4. QED
  BY <1>2, <1>3 DEF Again

\* What the browser does with its connection, but for reading events.
LEMMA WatchSteps ==
  ASSUME StreamInv, Connect \/ ReadEnd \/ AskTask \/ DropPipe \/ RestartTask
  PROVE  StreamInv'
<1> USE StreamAssumption
<1> DEFINE N == Len(events)
<1> DEFINE Watches == [pc : {"connect", "read", "ask", "returned", "failed"},
                       cursor : 0..MaxEvents, attempts : 0..(MaxAttempts + 1)]
<1>1. /\ N \in Nat /\ N <= MaxEvents /\ over \in BOOLEAN /\ watch \in Watches
      /\ pipe \in Seq(0..MaxEvents) /\ shown \in Seq(0..MaxEvents)
      /\ watch.cursor \in Nat /\ watch.cursor <= N /\ events' = events
  BY DEF StreamInv, StreamTypeOK, ShownFits, Connect, ReadEnd, AskTask, DropPipe, RestartTask
<1>2. <<>> \in Seq(0..MaxEvents) /\ <<>> \in Seq(1..MaxEvents)
  BY EmptySeq
<1>3. NoFeed \in [pc : {"none", "poll", "yield", "check"}, cursor : 0..MaxEvents,
                  page : Seq(1..MaxEvents)]
  BY <1>2 DEF NoFeed
<1>4. ASSUME Connect PROVE StreamInv'
  <2>1. /\ watch.pc = "connect" /\ watch' = [watch EXCEPT !.pc = "read"]
        /\ feed' = [pc |-> "poll", cursor |-> watch.cursor, page |-> <<>>] /\ pipe' = <<>>
        /\ UNCHANGED <<events, over, shown>>
    BY <1>4 DEF Connect
  <2>2. StreamTypeOK'
    BY <1>1, <1>2, <2>1 DEF StreamInv, StreamTypeOK
  <2>3. LastOnce' /\ FeedFits'
    BY <1>1, <2>1 DEF StreamInv, LastOnce, HasLast, FeedFits
  <2>4. ShownFits'
    BY <1>1, <2>1 DEF StreamInv, ShownFits, HasLast
  <2>5. PipeFits'
    BY <1>1, <2>1 DEF StreamInv, PipeFits
  <2>6. QED
    BY <2>2, <2>3, <2>4, <2>5 DEF StreamInv
<1>5. ASSUME ReadEnd PROVE StreamInv'
  <2>1. /\ watch.pc = "read" /\ pipe # <<>> /\ Head(pipe) = 0
        /\ pipe' = Tail(pipe) /\ watch' = [watch EXCEPT !.pc = "ask"]
        /\ UNCHANGED <<events, over, feed, shown>>
    BY <1>5 DEF ReadEnd
  <2>2. /\ Head(pipe) = pipe[1] /\ Len(pipe) \in Nat /\ Len(pipe) >= 1
        /\ Tail(pipe) \in Seq(0..MaxEvents)
    BY <1>1, <2>1, HeadTailProperties, EmptySeq
  <2>3. StreamTypeOK'
    BY <1>1, <2>1, <2>2 DEF StreamInv, StreamTypeOK
  <2>4. LastOnce' /\ FeedFits'
    BY <1>1, <2>1 DEF StreamInv, LastOnce, HasLast, FeedFits
  <2>5. ShownFits'
    BY <1>1, <2>1 DEF StreamInv, ShownFits, HasLast
  <2>6. Ended(watch.cursor)
    <3>1. /\ feed.pc = "none" /\ \A k \in 1..(Len(pipe) - 1) : pipe[k] = watch.cursor + k
          /\ Ended(watch.cursor + Len(pipe) - 1)
      <4>1. 1 \in 1..Len(pipe) /\ pipe[1] # watch.cursor + 1
        BY <1>1, <2>1, <2>2
      <4>2. feed.pc = "none"
        BY <2>1, <4>1 DEF StreamInv, PipeFits
      <4>3. QED
        BY <2>1, <4>2 DEF StreamInv, PipeFits
    <3>2. Len(pipe) = 1
      <4>1. 1 \notin 1..(Len(pipe) - 1)
        <5>1. pipe[1] = 0 /\ watch.cursor + 1 # 0
          BY <1>1, <2>1, <2>2
        <5>2. QED
          BY <3>1, <5>1
      <4>2. Len(pipe) \in Nat /\ Len(pipe) >= 1
        BY <2>2
      <4>3. ASSUME NEW l \in Nat, l >= 1, 1 \notin 1..(l - 1) PROVE l = 1
        BY <4>3
      <4>4. QED
        BY <4>1, <4>2, <4>3
    <3>3. watch.cursor + Len(pipe) - 1 = watch.cursor
      BY <1>1, <3>2
    <3>4. QED
      BY <3>1, <3>3
  <2>7. PipeFits'
    BY <1>1, <2>1, <2>6 DEF StreamInv, PipeFits, Ended, HasLast
  <2>8. QED
    BY <2>3, <2>4, <2>5, <2>7 DEF StreamInv
<1>6. ASSUME AskTask PROVE StreamInv'
  <2>1. /\ watch.pc = "ask" /\ UNCHANGED <<events, over, feed, pipe>>
        /\ watch' = [watch EXCEPT !.pc = "returned"] /\ shown' = Append(shown, 0)
    BY <1>6 DEF AskTask, StreamInv, PipeFits, Ended
  <2>2. Ended(watch.cursor)
    BY <2>1 DEF StreamInv, PipeFits
  <2>3. Len(shown) = watch.cursor /\ ~HasLast(watch.cursor)
    BY <2>1 DEF StreamInv, ShownFits
  <2>4. watch.cursor = N /\ over
    BY <2>2, <2>3 DEF Ended
  <2>5. StreamTypeOK'
    <3>1. shown' \in Seq(0..MaxEvents)
      BY <1>1, <2>1, AppendProperties
    <3>2. watch' \in Watches
      BY <1>1, <2>1
    <3>3. QED
      BY <1>1, <2>1, <3>1, <3>2 DEF StreamInv, StreamTypeOK
  <2>6. LastOnce' /\ FeedFits'
    BY <1>1, <2>1 DEF StreamInv, LastOnce, HasLast, FeedFits
  <2>7. ShownFits'
    <3>1. /\ Len(shown') = watch.cursor + 1 /\ shown'[watch.cursor + 1] = 0
          /\ \A k \in 1..watch.cursor : shown'[k] = shown[k]
      BY <1>1, <2>1, <2>3
    <3>2. watch'.cursor = watch.cursor /\ watch'.pc = "returned"
      BY <1>1, <2>1
    <3>3. HasLast(Len(events))' <=> HasLast(Len(events))
      BY <2>1 DEF HasLast
    <3>4. QED
      BY <1>1, <2>1, <2>3, <2>4, <3>1, <3>2, <3>3 DEF StreamInv, ShownFits
  <2>8. PipeFits'
    BY <1>1, <2>1 DEF PipeFits
  <2>9. QED
    BY <2>5, <2>6, <2>7, <2>8 DEF StreamInv
<1>7. ASSUME DropPipe \/ RestartTask PROVE StreamInv'
  <2>1. /\ feed' = NoFeed /\ pipe' = <<>> /\ UNCHANGED <<events, shown>>
        /\ watch.pc \in {"read", "ask"} => watch' = Again
        /\ watch.pc \notin {"read", "ask"} => watch' = watch
    BY <1>7 DEF DropPipe, RestartTask
  <2>2. /\ watch' \in Watches /\ watch'.cursor = watch.cursor
        /\ watch'.pc \notin {"read", "ask"}
        /\ watch'.pc = "returned" <=> watch.pc = "returned"
        /\ watch'.pc = "connect" => watch'.attempts <= MaxAttempts
    <3>1. CASE watch.pc \in {"read", "ask"}
      BY <2>1, <3>1, AgainFits
    <3>2. CASE watch.pc \notin {"read", "ask"}
      BY <1>1, <2>1, <3>2 DEF StreamInv, PipeFits
    <3>3. QED
      BY <3>1, <3>2
  <2>3. over' \in BOOLEAN /\ (over => over')
    <3>1. CASE DropPipe
      BY <1>1, <3>1 DEF DropPipe
    <3>2. CASE RestartTask
      BY <3>2 DEF RestartTask
    <3>3. QED
      BY <1>7, <3>1, <3>2
  <2>4. StreamTypeOK'
    BY <1>1, <1>2, <1>3, <2>1, <2>2, <2>3 DEF StreamInv, StreamTypeOK
  <2>5. LastOnce' /\ FeedFits'
    BY <1>1, <2>1, <2>3 DEF StreamInv, LastOnce, HasLast, FeedFits, NoFeed
  <2>6. ShownFits'
    BY <1>1, <2>1, <2>2, <2>3 DEF StreamInv, ShownFits, HasLast
  <2>7. PipeFits'
    BY <2>2 DEF PipeFits
  <2>8. QED
    BY <2>4, <2>5, <2>6, <2>7 DEF StreamInv
<1>8. QED
  BY <1>4, <1>5, <1>6, <1>7

\* A read passes on the next events, in order and none twice.
LEMMA ReadStep ==
  ASSUME StreamInv, NEW n \in 1..MaxEvents, NEW m \in 0..n, ReadEvents(n, m)
  PROVE  StreamInv'
<1> USE StreamAssumption
<1> DEFINE w == watch.cursor
<1> DEFINE L == Len(pipe)
<1> DEFINE fresh == SubSeq(pipe, m + 1, n)
<1>1. /\ watch.pc = "read" /\ n <= L /\ \A k \in 1..n : pipe[k] # 0
      /\ \A k \in 1..n : k <= m <=> pipe[k] <= w
      /\ pipe' = SubSeq(pipe, n + 1, L)
      /\ shown' = shown \o fresh
      /\ watch' = [watch EXCEPT
           !.cursor = IF fresh = <<>> THEN w ELSE fresh[Len(fresh)],
           !.pc = IF \E k \in DOMAIN fresh : events[fresh[k]] = "last" THEN "returned"
                  ELSE watch.pc]
      /\ UNCHANGED <<events, over, feed>>
  BY DEF ReadEvents
<1>2. /\ w \in Nat /\ w <= Len(events) /\ L \in Nat /\ n \in Nat /\ n >= 1 /\ Len(events) \in Nat
      /\ Len(events) <= MaxEvents
      /\ pipe \in Seq(0..MaxEvents) /\ shown \in Seq(0..MaxEvents)
      /\ watch \in [pc : {"connect", "read", "ask", "returned", "failed"}, cursor : 0..MaxEvents,
                    attempts : 0..(MaxAttempts + 1)]
  BY DEF StreamInv, StreamTypeOK, ShownFits
<1>a. w = watch.cursor /\ L = Len(pipe)
  OBVIOUS
<1>b. n <= L /\ (feed' = feed /\ events' = events /\ over' = over)
  BY <1>1
<1>3. /\ Len(shown) = w /\ ~HasLast(w) /\ \A k \in 1..w : shown[k] = k
  BY <1>1 DEF StreamInv, ShownFits
<1> HIDE DEF w, L
<1>4. /\ \A k \in 1..n : pipe[k] = w + k
      /\ w + n <= Len(events)
      /\ feed.pc = "none" => n <= L - 1
  <2>1. CASE feed.pc # "none"
    <3>1. feed.cursor = w + L /\ \A k \in 1..L : pipe[k] = w + k
      BY <1>1, <1>a, <2>1 DEF StreamInv, PipeFits
    <3>2. feed.cursor <= Len(events)
      <4>1. Len(feed.page) \in Nat /\ feed.cursor \in Nat
        BY DEF StreamInv, StreamTypeOK
      <4>2. feed.cursor + Len(feed.page) <= Len(events)
        BY DEF StreamInv, FeedFits
      <4>3. Len(events) \in Nat
        BY <1>2
      <4>4. QED
        BY <4>1, <4>2, <4>3
    <3>3. QED
      BY <1>b, <1>2, <2>1, <3>1, <3>2
  <2>2. CASE feed.pc = "none"
    <3>1. /\ pipe[L] = 0 /\ \A k \in 1..(L - 1) : pipe[k] = w + k
          /\ w + L - 1 <= Len(events)
      BY <1>1, <1>a, <2>2 DEF StreamInv, PipeFits, Ended
    <3>2. n <= L - 1
      <4>1. n # L
        <5>1. CASE n = L
          <6>1. L \in 1..n
            BY <1>2, <5>1
          <6>2. pipe[L] # 0
            BY <1>1, <6>1
          <6>3. QED
            BY <3>1, <6>2
        <5>2. QED
          BY <5>1
      <4>2. n \in Nat /\ L \in Nat /\ n <= L
        BY <1>b, <1>2
      <4>3. QED
        BY <4>1, <4>2
    <3>3. \A k \in 1..n : pipe[k] = w + k
      <4>1. \A k \in 1..n : k \in 1..(L - 1)
        BY <1>2, <3>2
      <4>2. QED
        BY <3>1, <4>1
    <3>4. w + n <= Len(events)
      BY <1>2, <3>1, <3>2
    <3>5. QED
      BY <3>2, <3>3, <3>4
  <2>3. QED
    BY <2>1, <2>2
<1>5. m = 0
  <2>1. 1 \in 1..n /\ ~(pipe[1] <= w)
    BY <1>2, <1>4
  <2>2. ~(1 <= m)
    BY <1>1, <2>1
  <2>3. QED
    BY <2>2
<1>6. /\ fresh \in Seq(0..MaxEvents) /\ Len(fresh) = n
      /\ \A k \in 1..n : fresh[k] = w + k
  <2>1. fresh = SubSeq(pipe, 1, n)
    BY <1>5
  <2>2. /\ SubSeq(pipe, 1, n) \in Seq(0..MaxEvents) /\ Len(SubSeq(pipe, 1, n)) = n
        /\ \A k \in 1..n : SubSeq(pipe, 1, n)[k] = pipe[k]
    <3>1. \A i \in 1..n : pipe[i] \in 0..MaxEvents
      <4>1. \A i \in 1..n : i \in 1..Len(pipe)
        BY <1>b, <1>2, <1>a
      <4>2. pipe \in Seq(0..MaxEvents)
        BY <1>2
      <4>3. QED
        BY <4>1, <4>2
    <3>2. QED
      BY <1>2, <3>1, SubSeqProperties
  <2>3. QED
    BY <1>4, <2>1, <2>2
<1>7. /\ pipe' \in Seq(0..MaxEvents) /\ Len(pipe') = L - n
      /\ \A k \in 1..(L - n) : pipe'[k] = pipe[n + k]
  <2>1. \A i \in (n + 1)..L : pipe[i] \in 0..MaxEvents
    <3>1. \A i \in (n + 1)..L : i \in 1..Len(pipe)
      BY <1>b, <1>2, <1>a
    <3>2. pipe \in Seq(0..MaxEvents)
      BY <1>2
    <3>3. QED
      BY <3>1, <3>2
  <2>2. /\ SubSeq(pipe, n + 1, L) \in Seq(0..MaxEvents)
        /\ Len(SubSeq(pipe, n + 1, L)) = L - n
        /\ \A k \in 1..(L - n) : SubSeq(pipe, n + 1, L)[k] = pipe[n + k]
    <3> DEFINE rest == SubSeq(pipe, n + 1, L)
    <3>1. /\ rest \in Seq(0..MaxEvents)
          /\ Len(rest) = IF n + 1 <= L THEN L - (n + 1) + 1 ELSE 0
          /\ \A k \in 1..(L - (n + 1) + 1) : rest[k] = pipe[n + 1 + k - 1]
      BY <1>2, <2>1, SubSeqProperties
    <3> HIDE DEF rest
    <3>2. /\ rest \in Seq(0..MaxEvents) /\ Len(rest) = L - n
          /\ \A k \in 1..(L - n) : rest[k] = pipe[n + k]
      <4>a. n \in Nat /\ L \in Nat /\ n <= L
        BY <1>b, <1>2
      <4>1. Len(rest) = L - n
        <5>1. Len(rest) = IF n + 1 <= L THEN L - (n + 1) + 1 ELSE 0
          BY <3>1
        <5>2. QED
          BY <4>a, <5>1
      <4>2. ASSUME NEW k \in 1..(L - n) PROVE rest[k] = pipe[n + k]
        <5>1. k \in 1..(L - (n + 1) + 1) /\ n + 1 + k - 1 = n + k
          BY <4>a
        <5>2. QED
          BY <3>1, <5>1
      <4>3. QED
        BY <3>1, <4>1, <4>2
    <3>3. QED
      BY <3>2 DEF rest
  <2>3. QED
    BY <1>1, <2>2
<1>8. /\ shown' \in Seq(0..MaxEvents) /\ Len(shown') = w + n
      /\ \A k \in 1..w : shown'[k] = k
      /\ \A k \in 1..n : shown'[w + k] = w + k
  <2> HIDE DEF fresh
  <2>0. shown \in Seq(0..MaxEvents) /\ fresh \in Seq(0..MaxEvents)
    BY <1>2, <1>6
  <2>1. /\ Len(shown') = Len(shown) + Len(fresh) /\ shown' \in Seq(0..MaxEvents)
        /\ \A k \in 1..Len(shown) : shown'[k] = shown[k]
        /\ \A k \in 1..Len(fresh) : shown'[Len(shown) + k] = fresh[k]
    <3>1. shown' = shown \o fresh
      BY <1>1
    <3>2. shown \o fresh \in Seq(0..MaxEvents) /\ Len(shown \o fresh) = Len(shown) + Len(fresh)
      BY <2>0, ConcatProperties
    <3>3. /\ \A k \in 1..Len(shown) : (shown \o fresh)[k] = shown[k]
          /\ \A k \in 1..Len(fresh) : (shown \o fresh)[Len(shown) + k] = fresh[k]
      BY <2>0
    <3>4. QED
      BY <3>1, <3>2, <3>3
  <2>2. QED
    BY <1>3, <1>6, <2>1
<1> HIDE DEF fresh
<1>9. /\ watch'.cursor = w + n /\ watch'.attempts = watch.attempts
      /\ watch'.pc = IF HasLast(w + n) THEN "returned" ELSE "read"
      /\ watch' \in [pc : {"connect", "read", "ask", "returned", "failed"}, cursor : 0..MaxEvents,
                     attempts : 0..(MaxAttempts + 1)]
  <2>1. fresh # <<>> /\ DOMAIN fresh = 1..n
    BY <1>2, <1>6
  <2>2. fresh[Len(fresh)] = w + n /\ w + n \in 0..MaxEvents
    <3>1. fresh[n] = w + n
      BY <1>2, <1>6
    <3>2. QED
      BY <1>2, <1>4, <1>6, <3>1
  <2>3. HasLast(w + n) <=> \E k \in DOMAIN fresh : events[fresh[k]] = "last"
    <3>1. ASSUME NEW i \in 1..(w + n), events[i] = "last"
          PROVE  \E k \in DOMAIN fresh : events[fresh[k]] = "last"
      <4>1. i \notin 1..w
        BY <1>3, <3>1 DEF HasLast
      <4>2. i - w \in 1..n /\ w + (i - w) = i
        BY <1>2, <4>1
      <4>3. fresh[i - w] = i
        BY <1>6, <4>2
      <4>4. QED
        BY <2>1, <3>1, <4>2, <4>3
    <3>2. ASSUME NEW k \in DOMAIN fresh, events[fresh[k]] = "last" PROVE HasLast(w + n)
      <4>1. fresh[k] = w + k /\ k \in 1..n
        BY <1>6, <2>1
      <4>2. w + k \in 1..(w + n)
        BY <1>2, <4>1
      <4>3. QED
        BY <3>2, <4>1, <4>2 DEF HasLast
    <3>3. QED
      BY <3>1, <3>2 DEF HasLast
  <2>4. QED
    BY <1>1, <1>2, <2>1, <2>2, <2>3
<1>10. StreamTypeOK'
  BY <1>1, <1>7, <1>8, <1>9 DEF StreamInv, StreamTypeOK
<1>11. LastOnce' /\ FeedFits'
  BY <1>1 DEF StreamInv, LastOnce, HasLast, FeedFits
<1>12. ShownFits'
  <2>1. \A k \in 1..(w + n) : shown'[k] = k
    <3>1. ASSUME NEW k \in 1..(w + n), k \notin 1..w PROVE shown'[k] = k
      <4>1. k - w \in 1..n /\ w + (k - w) = k
        BY <1>2, <3>1
      <4>2. QED
        BY <1>8, <4>1
    <3>2. QED
      BY <1>8, <3>1
  <2>2. HasLast(watch.cursor)' <=> HasLast(w + n)
    BY <1>1, <1>9 DEF HasLast
  <2>3. QED
    BY <1>1, <1>4, <1>8, <1>9, <2>1, <2>2 DEF ShownFits
<1>13. PipeFits'
  <2>1. watch'.attempts <= MaxAttempts
    BY <1>1, <1>9 DEF StreamInv, PipeFits
  <2>2. CASE feed.pc # "none"
    <3>1. feed.cursor = w + L /\ \A k \in 1..L : pipe[k] = w + k
      BY <1>1, <1>a, <2>2 DEF StreamInv, PipeFits
    <3>2. feed'.pc # "none" /\ feed'.cursor = watch'.cursor + Len(pipe')
      <4>1. feed' = feed /\ Len(pipe') = L - n /\ watch'.cursor = w + n
        BY <1>1, <1>2, <1>7, <1>9
      <4>2. feed.cursor = w + L
        BY <3>1
      <4>3. QED
        BY <1>2, <2>2, <4>1, <4>2
    <3>3. \A k \in 1..Len(pipe') : pipe'[k] = watch'.cursor + k
      <4>1. ASSUME NEW k \in 1..(L - n) PROVE pipe'[k] = w + n + k
        <5>1. n + k \in 1..L
          BY <1>b, <1>2
        <5>2. pipe[n + k] = w + (n + k)
          BY <3>1, <5>1
        <5>3. QED
          BY <1>2, <1>7, <5>2
      <4>2. QED
        BY <1>7, <1>9, <4>1
    <3>4. QED
      BY <1>9, <2>1, <3>2, <3>3 DEF PipeFits
  <2>3. CASE feed.pc = "none"
    <3>1. /\ pipe[L] = 0 /\ \A k \in 1..(L - 1) : pipe[k] = w + k
          /\ Ended(w + L - 1)
      BY <1>1, <1>a, <2>3 DEF StreamInv, PipeFits
    <3>2. /\ pipe' # <<>> /\ pipe'[Len(pipe')] = 0
      <4>1. Len(pipe') >= 1 /\ n + Len(pipe') = L
        BY <1>2, <1>4, <1>7, <2>3
      <4>2. QED
        BY <1>7, <3>1, <4>1
    <3>3. \A k \in 1..(Len(pipe') - 1) : pipe'[k] = watch'.cursor + k
      <4>1. ASSUME NEW k \in 1..(L - n - 1) PROVE pipe'[k] = w + n + k
        <5>1. n + k \in 1..(L - 1) /\ k \in 1..(L - n)
          BY <1>b, <1>2
        <5>2. pipe[n + k] = w + (n + k)
          BY <3>1, <5>1
        <5>3. QED
          BY <1>2, <1>7, <5>1, <5>2
      <4>2. Len(pipe') - 1 = L - n - 1
        BY <1>2, <1>7
      <4>3. QED
        BY <1>9, <4>1, <4>2
    <3>4. Ended(watch.cursor + Len(pipe) - 1)'
      <4>1. (watch.cursor + Len(pipe) - 1)' = w + L - 1
        <5>1. watch'.cursor = w + n /\ Len(pipe') = L - n
          BY <1>7, <1>9
        <5>2. w \in Nat /\ n \in Nat /\ L \in Nat
          BY <1>2
        <5>3. QED
          BY <5>1, <5>2
      <4>2. QED
        BY <1>1, <3>1, <4>1 DEF Ended, HasLast
    <3>5. QED
      BY <1>1, <1>9, <2>1, <2>3, <3>2, <3>3, <3>4 DEF PipeFits
  <2>4. QED
    BY <2>2, <2>3
<1>14. QED
  BY <1>10, <1>11, <1>12, <1>13 DEF StreamInv

\* The invariant says what the watch promises: the positions that end it are
\* one when it has returned and none before.
LEMMA StreamInvExact == StreamInv => WatchIsExact
<1> SUFFICES ASSUME StreamInv PROVE WatchIsExact
  OBVIOUS
<1> DEFINE w == watch.cursor
<1> DEFINE ends == {k \in DOMAIN shown : shown[k] = 0 \/ events[shown[k]] = "last"}
<1>1. /\ w \in Nat /\ shown \in Seq(0..MaxEvents) /\ Len(events) \in Nat /\ w <= Len(events)
      /\ DOMAIN shown = 1..Len(shown) /\ DOMAIN events = 1..Len(events)
      /\ \A k \in 1..w : shown[k] = k
      /\ LastOnce
  BY DEF StreamInv, StreamTypeOK, ShownFits
<1>2. CASE Len(shown) = w /\ watch.pc # "returned"
  <2>1. \A k \in 1..w : events[k] # "last"
    BY <1>2 DEF StreamInv, ShownFits, HasLast
  <2>2. ends = {}
    BY <1>1, <1>2, <2>1
  <2>3. \A k \in DOMAIN shown : shown[k] = k
    BY <1>1, <1>2
  <2>4. Cardinality(ends) = 0
    BY <2>2, FS_EmptySet
  <2>5. QED
    BY <1>2, <2>3, <2>4 DEF WatchIsExact
<1>3. CASE Len(shown) = w /\ watch.pc = "returned"
  <2>1. PICK i \in 1..w : events[i] = "last"
    BY <1>3 DEF StreamInv, ShownFits, HasLast
  <2>2. \A k \in 1..w : events[k] = "last" => k = i
    BY <1>1, <2>1 DEF LastOnce
  <2>3. ends = {i}
    BY <1>1, <1>3, <2>1, <2>2
  <2>4. \A k \in DOMAIN shown : shown[k] = k
    BY <1>1, <1>3
  <2>5. Cardinality(ends) = 1
    BY <2>3, FS_Singleton
  <2>6. QED
    BY <1>3, <2>4, <2>5 DEF WatchIsExact
<1>4. CASE /\ Len(shown) = w + 1 /\ shown[w + 1] = 0
           /\ watch.pc = "returned" /\ w = Len(events) /\ ~HasLast(Len(events))
  <2>1. \A k \in 1..w : events[k] # "last"
    BY <1>4 DEF HasLast
  <2>2. \A k \in 1..(w + 1) : k \in 1..w \/ k = w + 1
    BY <1>1
  <2>3. ends = {w + 1}
    BY <1>1, <1>4, <2>1, <2>2
  <2>4. \A k \in DOMAIN shown :
          shown[k] = k \/ (shown[k] = 0 /\ k = Len(shown) /\ k = Len(events) + 1)
    BY <1>1, <1>4, <2>2
  <2>5. Cardinality(ends) = 1
    BY <2>3, FS_Singleton
  <2>6. QED
    BY <1>4, <2>4, <2>5 DEF WatchIsExact
<1>5. QED
  BY <1>2, <1>3, <1>4 DEF StreamInv, ShownFits

\* The events of a task, of its stream, on their way and shown fit each other.
THEOREM StreamInvariant == StreamSpec => []StreamInv
<1>1. StreamInv /\ [StreamNext]_streamVars => StreamInv'
  <2> SUFFICES ASSUME StreamInv, [StreamNext]_streamVars PROVE StreamInv'
    OBVIOUS
  <2>1. CASE UNCHANGED streamVars
    BY <2>1 DEF streamVars, StreamInv, StreamTypeOK, LastOnce, HasLast, FeedFits, ShownFits,
                PipeFits, Ended
  <2>2. QED
    BY <2>1, WorkerEvents, FeedSteps, WatchSteps, ReadStep DEF StreamNext
<1>2. QED
  BY <1>1, StreamInvInit, PTL DEF StreamSpec

\* Over however many connections that end or fail, a watch passes on every event
\* once and in order and returns after exactly one terminal event, for every page
\* size, number of attempts and bound.
THEOREM WatchesAreExact == StreamSpec => []WatchIsExact
<1>1. QED
  BY StreamInvariant, StreamInvExact, PTL

-----------------------------------------------------------------------------
(* TelegramHistory: what a copy looks like, and what a sync has covered *)

GateRow == [text : Speech, kind : MsgKinds, time : 1..MaxRows,
            state : {"active", "compacted", "rewound"}]

SavedRow == [cursor : 0..MaxRows, identity : 0..MaxRestores, skipped : SUBSET (1..MaxRows)]

SyncRow == [pc : {"idle", "read", "sent", "save"}, cursor : 0..MaxRows,
            identity : 0..MaxRestores, items : SUBSET Item, more : BOOLEAN,
            skipped : SUBSET (1..MaxRows)]

\* A row that a query may return and that repeats row i
Repeats(j, i) ==
  gateRows[j].text = gateRows[i].text /\ gateRows[j].kind # "marker" /\ gateRows[j].state # "rewound"

\* A time is that of the row or of one before it, a turn's its own; a copy
\* stands behind its marker, and only a turn is rewound.  What tells a copy
\* from a turn is the first compacted row of its text, or a marker.
RowFits(i) ==
  /\ gateRows[i].time <= i
  /\ gateRows[i].kind \in {"turn", "marker"} => gateRows[i].time = i
  /\ gateRows[i].kind # "turn" => gateRows[i].state # "rewound"
  /\ gateRows[i].kind \in {"copy", "recopy"} => i > 1 /\ gateRows[i - 1].kind = "marker"
  /\ gateRows[i].kind = "copy" =>
       /\ Originals(i) # {}
       /\ \/ \E k \in 1..(i - 1) : gateRows[k].kind = "marker" /\ gateRows[k].time = gateRows[i].time
          \/ \E f \in Originals(i) :
               gateRows[f].time = gateRows[i].time /\ \A j \in Ids : Repeats(j, i) => f <= j

RowsFit == \A i \in Ids : RowFits(i)

\* Of the ids up to a cursor, those without a row and the turns that the
\* archive does not show as they are
Missing(cursor) ==
  {i \in 1..cursor :
     i \in Ids => gateRows[i].kind = "turn" /\ gateRows[i].state # "rewound" /\ ~Shown(i)}

\* A request that is on its way holds rows as the database has them, or ones
\* that a restore gave up.
WireFits ==
  \A b \in wire : \A m \in b :
    /\ m.kind \in Turnlike
    /\ m.id \notin crossed => m.id \in Ids /\ m.text = gateRows[m.id].text

\* A cursor, saved or at work, has only passed what is archived, in the batch
\* the sync waits for, or overtaken by a restore.
SyncFits ==
  /\ Missing(saved.cursor) \subseteq saved.skipped \cup crossed
  /\ syncing.pc # "idle" =>
       /\ syncing.pc = "sent" => syncing.items \in wire
       /\ syncing.pc \in {"read", "save"} =>
            Missing(syncing.cursor) \subseteq syncing.skipped \cup crossed
       /\ Missing(syncing.cursor) \subseteq
            syncing.skipped \cup crossed \cup {m.id : m \in syncing.items}

HistoryInv ==
  /\ HistoryTypeOK /\ RowsFit /\ WireFits /\ SyncFits
  /\ \A i \in DOMAIN archive : archive[i].kind \in Turnlike

\* Nothing is archived, and no row is there to be.
LEMMA HistoryInvInit == HistoryInit => HistoryInv
<1> SUFFICES ASSUME HistoryInit PROVE HistoryInv
  OBVIOUS
<1> USE HistoryAssumption
<1>1. /\ gateRows = <<>> /\ identity = 0 /\ restores = 0
      /\ saved = [cursor |-> 0, identity |-> 0, skipped |-> {}]
      /\ syncing = Idle /\ wire = {} /\ archive = <<>> /\ crossed = {}
  BY DEF HistoryInit
<1>2. Len(gateRows) = 0 /\ Ids = {} /\ gateRows \in Seq(GateRow) /\ DOMAIN archive = {}
  BY <1>1, EmptySeq DEF Ids
<1>3. HistoryTypeOK
  <2>1. syncing \in SyncRow /\ saved \in SavedRow
    BY <1>1 DEF Idle, SyncRow, SavedRow
  <2>2. QED
    BY <1>1, <1>2, <2>1 DEF HistoryTypeOK, GateRow, SyncRow, SavedRow
<1>4. RowsFit /\ WireFits
  BY <1>1, <1>2 DEF RowsFit, WireFits
<1>5. Missing(saved.cursor) = {}
  BY <1>1 DEF Missing
<1>6. SyncFits
  BY <1>1, <1>5 DEF SyncFits, Idle
<1>7. QED
  BY <1>2, <1>3, <1>4, <1>6 DEF HistoryInv

\* The types of the parts, for the provers.
LEMMA HistoryTypes ==
  ASSUME HistoryTypeOK
  PROVE  /\ gateRows \in Seq(GateRow) /\ Len(gateRows) \in Nat /\ Len(gateRows) <= MaxRows
         /\ Ids = 1..Len(gateRows) /\ \A i \in Ids : i \in Nat /\ gateRows[i] \in GateRow
         /\ saved \in SavedRow /\ saved.cursor \in Nat
         /\ syncing \in SyncRow /\ syncing.cursor \in Nat /\ MaxRows \in Nat
<1>1. gateRows \in Seq(GateRow) /\ Len(gateRows) <= MaxRows
  BY DEF HistoryTypeOK, GateRow
<1>2. /\ Len(gateRows) \in Nat /\ Ids = 1..Len(gateRows)
      /\ \A i \in Ids : i \in Nat /\ gateRows[i] \in GateRow
  BY <1>1 DEF Ids
<1>3. saved \in SavedRow /\ saved.cursor \in Nat
  BY DEF HistoryTypeOK, SavedRow
<1>4. syncing \in SyncRow /\ syncing.cursor \in Nat
  BY DEF HistoryTypeOK, SyncRow
<1>5. QED
  BY <1>1, <1>2, <1>3, <1>4, HistoryAssumption

\* The rows fit as long as nothing happens to them.
LEMMA RowsUntouched ==
  ASSUME RowsFit, UNCHANGED gateRows
  PROVE  RowsFit'
<1>1. Ids' = Ids
  BY DEF Ids
<1>2. ASSUME NEW i \in Ids PROVE RowFits(i)'
  <2>1. RowFits(i)
    BY DEF RowsFit
  <2>2. Originals(i)' = Originals(i)
    BY DEF Originals
  <2>3. QED
    BY <1>1, <2>1, <2>2 DEF RowFits, Repeats
<1>3. QED
  BY <1>1, <1>2 DEF RowsFit

\* Rows that keep their text, kind and time, and are not brought back, stay
\* fitting and as archived as they were; new ones do not concern the cursors.
LEMMA RowsKept ==
  ASSUME HistoryInv, UNCHANGED <<identity, restores, saved, syncing, wire, archive, crossed>>,
         gateRows' \in Seq(GateRow), Len(gateRows') <= MaxRows, Len(gateRows) <= Len(gateRows'),
         \A i \in Ids : /\ gateRows'[i].text = gateRows[i].text
                        /\ gateRows'[i].kind = gateRows[i].kind
                        /\ gateRows'[i].time = gateRows[i].time
                        /\ gateRows[i].state = "compacted" => gateRows'[i].state = "compacted"
                        /\ gateRows[i].state = "rewound" => gateRows'[i].state = "rewound"
                        /\ gateRows[i].kind # "turn" =>
                             (gateRows'[i].state = "rewound" => gateRows[i].state = "rewound"),
         \A i \in Ids' \ Ids : RowFits(i)'
  PROVE  HistoryInv'
<1>1. /\ Len(gateRows) \in Nat /\ Len(gateRows') \in Nat /\ Ids = 1..Len(gateRows)
      /\ Ids' = 1..Len(gateRows') /\ Ids \subseteq Ids'
  BY HistoryTypes DEF HistoryInv, Ids
<1>2. HistoryTypeOK'
  BY DEF HistoryInv, HistoryTypeOK, GateRow
<1>3. ASSUME NEW i \in Ids PROVE RowFits(i)'
  <2>1. RowFits(i) /\ i \in Nat
    BY <1>1 DEF HistoryInv, RowsFit
  <2>2. /\ gateRows'[i].time <= i
        /\ gateRows'[i].kind \in {"turn", "marker"} => gateRows'[i].time = i
        /\ gateRows'[i].kind # "turn" => gateRows'[i].state # "rewound"
    BY <2>1 DEF RowFits
  <2>3. gateRows'[i].kind \in {"copy", "recopy"} => i > 1 /\ gateRows'[i - 1].kind = "marker"
    <3>1. i > 1 => i - 1 \in Ids
      BY <1>1, <2>1
    <3>2. QED
      BY <2>1, <3>1 DEF RowFits
  <2>4. ASSUME gateRows[i].kind = "copy"
        PROVE  /\ Originals(i)' # {}
               /\ \/ \E k \in 1..(i - 1) : gateRows'[k].kind = "marker" /\ gateRows'[k].time = gateRows'[i].time
                  \/ \E f \in Originals(i)' :
                       gateRows'[f].time = gateRows'[i].time /\ \A j \in Ids' : Repeats(j, i)' => f <= j
    <3>1. Originals(i) \subseteq Originals(i)'
      BY <1>1 DEF Originals
    <3>2. ASSUME NEW k \in 1..(i - 1), gateRows[k].kind = "marker", gateRows[k].time = gateRows[i].time
          PROVE  gateRows'[k].kind = "marker" /\ gateRows'[k].time = gateRows'[i].time
      BY <1>1, <3>2
    <3>3. ASSUME NEW f \in Originals(i), gateRows[f].time = gateRows[i].time,
                 \A j \in Ids : Repeats(j, i) => f <= j
          PROVE  gateRows'[f].time = gateRows'[i].time /\ \A j \in Ids' : Repeats(j, i)' => f <= j
      <4>1. f \in 1..(i - 1) /\ f \in Ids
        BY <1>1 DEF Originals
      <4>2. ASSUME NEW j \in Ids', Repeats(j, i)' PROVE f <= j
        <5>1. CASE j \in Ids
          BY <3>3, <4>2, <5>1 DEF Repeats
        <5>2. CASE j \notin Ids
          BY <1>1, <4>1, <5>2
        <5>3. QED
          BY <5>1, <5>2
      <4>3. QED
        BY <3>3, <4>1, <4>2
    <3>4. Originals(i)' # {}
      BY <2>1, <2>4, <3>1 DEF RowFits
    <3>5. QED
      BY <2>1, <2>4, <3>1, <3>2, <3>3, <3>4 DEF RowFits
  <2>5. QED
    BY <2>2, <2>3, <2>4 DEF RowFits
<1>4. RowsFit'
  BY <1>3 DEF RowsFit
<1>5. WireFits'
  BY <1>1 DEF HistoryInv, WireFits
<1>6. ASSUME NEW c PROVE Missing(c)' \subseteq Missing(c)
  BY <1>1 DEF Missing, Shown
<1>7. Missing(saved.cursor)' \subseteq Missing(saved.cursor) /\ Missing(syncing.cursor)' \subseteq Missing(syncing.cursor)
  <2>1. saved' = saved /\ syncing' = syncing
    OBVIOUS
  <2>2. \A i \in Ids' : i \in Ids => Shown(i)' = Shown(i)
    BY DEF Shown
  <2>3. QED
    BY <1>1, <2>1, <2>2 DEF Missing
<1>8. SyncFits'
  BY <1>7 DEF HistoryInv, SyncFits
<1>9. QED
  BY <1>2, <1>4, <1>5, <1>8 DEF HistoryInv

\* What follows in a concatenation.
LEMMA Appended ==
  ASSUME NEW S, NEW s \in Seq(S), NEW t \in Seq(S), NEW k \in 1..Len(t)
  PROVE  (s \o t)[Len(s) + k] = t[k]
<1>1. /\ Len(s) \in Nat /\ Len(t) \in Nat
      /\ \A i \in 1..(Len(s) + Len(t)) : (s \o t)[i] = IF i <= Len(s) THEN s[i] ELSE t[i - Len(s)]
  BY ConcatProperties
<1>2. Len(s) + k \in 1..(Len(s) + Len(t)) /\ ~(Len(s) + k <= Len(s)) /\ Len(s) + k - Len(s) = k
  BY <1>1
<1>3. QED
  BY <1>1, <1>2

\* The gateway adds turns, takes them back and compacts its context.
LEMMA GateSteps ==
  ASSUME HistoryInv,
         \/ \E x \in Speech : Turn(x)
         \/ \E i \in Ids : Rewind(i)
         \/ \E i \in 0..Len(gateRows), keeps \in BOOLEAN : Compact(i, keeps)
  PROVE  HistoryInv'
<1> USE HistoryAssumption
<1> DEFINE n == Len(gateRows)
<1>1. /\ gateRows \in Seq(GateRow) /\ n \in Nat /\ n <= MaxRows /\ Ids = 1..n
      /\ \A i \in Ids : gateRows[i] \in GateRow
  BY HistoryTypes DEF HistoryInv
<1>a. n = Len(gateRows) /\ MaxRows \in Nat
  OBVIOUS
<1>b. \A i \in Ids : RowFits(i)
  BY DEF HistoryInv, RowsFit
<1> HIDE DEF n
<1>2. ASSUME NEW x \in Speech, Turn(x) PROVE HistoryInv'
  <2> DEFINE row == Row(x, "turn", n + 1)
  <2>1. gateRows' = Append(gateRows, row) /\ n < MaxRows
    BY <1>2, <1>a DEF Turn
  <2>2. row \in GateRow /\ row.kind = "turn" /\ row.time = n + 1
    BY <1>1, <2>1 DEF Row, GateRow, MsgKinds
  <2> HIDE DEF row
  <2>3. /\ gateRows' \in Seq(GateRow) /\ Len(gateRows') = n + 1
        /\ gateRows'[n + 1] = row /\ \A i \in 1..n : gateRows'[i] = gateRows[i]
    BY <1>1, <1>a, <2>1, <2>2
  <2>4. Ids' = 1..(n + 1)
    BY <2>3 DEF Ids
  <2>5. \A i \in Ids' \ Ids : i = n + 1
    BY <1>1, <2>4
  <2>6. \A i \in Ids' \ Ids : RowFits(i)'
    BY <1>1, <2>2, <2>3, <2>5 DEF RowFits
  <2>7. n + 1 <= MaxRows /\ n <= n + 1
    BY <1>1, <1>a, <2>1
  <2>8. QED
    BY <1>1, <1>2, <1>a, <2>3, <2>6, <2>7, RowsKept DEF Turn
<1>3. ASSUME NEW r \in Ids, Rewind(r) PROVE HistoryInv'
  <2>1. /\ gateRows[r].state = "active" /\ gateRows[r].kind = "turn"
        /\ gateRows' = [gateRows EXCEPT ![r].state = "rewound"]
        /\ UNCHANGED <<identity, restores, saved, syncing, wire, archive, crossed>>
    BY <1>3 DEF Rewind
  <2>2. [gateRows[r] EXCEPT !.state = "rewound"] \in GateRow
    BY <1>1 DEF GateRow
  <2>3. gateRows' = [gateRows EXCEPT ![r] = [gateRows[r] EXCEPT !.state = "rewound"]]
    BY <2>1
  <2>4. gateRows' \in Seq(GateRow) /\ Len(gateRows') = n
    BY <1>1, <1>a, <2>2, <2>3
  <2>5. Ids' = Ids
    BY <1>1, <2>4 DEF Ids
  <2>6. /\ \A i \in Ids : i # r => gateRows'[i] = gateRows[i]
        /\ gateRows'[r] = [gateRows[r] EXCEPT !.state = "rewound"]
    BY <1>1, <1>a, <2>3
  <2>7. \A i \in Ids : /\ gateRows'[i].text = gateRows[i].text
                       /\ gateRows'[i].kind = gateRows[i].kind
                       /\ gateRows'[i].time = gateRows[i].time
                       /\ gateRows[i].state = "compacted" => gateRows'[i].state = "compacted"
                       /\ gateRows[i].state = "rewound" => gateRows'[i].state = "rewound"
                       /\ gateRows[i].kind # "turn" =>
                            (gateRows'[i].state = "rewound" => gateRows[i].state = "rewound")
    BY <1>1, <2>1, <2>6 DEF GateRow
  <2>8. QED
    BY <1>1, <1>a, <2>1, <2>4, <2>5, <2>7, RowsKept
<1>4. ASSUME NEW c \in 0..n, NEW keeps \in BOOLEAN, Compact(c, keeps) PROVE HistoryInv'
  <2> DEFINE seen == [j \in Ids |-> IF gateRows[j].state = "active"
                                      THEN [gateRows[j] EXCEPT !.state = "compacted"]
                                      ELSE gateRows[j]]
  <2> DEFINE marker == Row(gateRows[1].text, "marker", n + 1)
  <2> DEFINE copy == Row(gateRows[c].text, CopyKind(c, keeps), IF keeps THEN gateRows[c].time ELSE n + 1)
  <2> DEFINE added == IF c = 0 THEN <<marker>> ELSE <<marker, copy>>
  <2>1. /\ gateRows # <<>>
        /\ c # 0 => gateRows[c].state = "active" /\ gateRows[c].kind # "marker"
        /\ gateRows' = seen \o added
        /\ Len(gateRows') <= MaxRows
        /\ UNCHANGED <<identity, restores, saved, syncing, wire, archive, crossed>>
    BY <1>4, <1>a DEF Compact
  <2>2. n >= 1 /\ 1 \in Ids
    BY <1>1, <1>a, <2>1, EmptySeq
  <2>31. \A j \in Ids : seen[j] = IF gateRows[j].state = "active"
                                    THEN [gateRows[j] EXCEPT !.state = "compacted"]
                                    ELSE gateRows[j]
    OBVIOUS
  <2>32. seen \in [1..n -> GateRow]
    <3>1. \A j \in Ids : [gateRows[j] EXCEPT !.state = "compacted"] \in GateRow
      BY <1>1 DEF GateRow
    <3>2. \A j \in Ids : seen[j] \in GateRow
      BY <1>1, <3>1
    <3>3. QED
      BY <1>1, <3>2
  <2> HIDE DEF seen
  <2>33. seen \in Seq(GateRow) /\ Len(seen) = n
    BY <1>1, <2>32, SeqDef
  <2>3. /\ seen \in Seq(GateRow) /\ Len(seen) = n
        /\ \A j \in Ids : /\ seen[j].text = gateRows[j].text /\ seen[j].kind = gateRows[j].kind
                          /\ seen[j].time = gateRows[j].time
                          /\ gateRows[j].state = "active" => seen[j].state = "compacted"
                          /\ gateRows[j].state # "active" => seen[j].state = gateRows[j].state
    <3>1. ASSUME NEW j \in Ids
          PROVE  /\ seen[j].text = gateRows[j].text /\ seen[j].kind = gateRows[j].kind
                 /\ seen[j].time = gateRows[j].time
                 /\ gateRows[j].state = "active" => seen[j].state = "compacted"
                 /\ gateRows[j].state # "active" => seen[j].state = gateRows[j].state
      BY <1>1, <2>31 DEF GateRow
    <3>2. QED
      BY <2>33, <3>1
  <2>4. /\ marker.kind = "marker" /\ marker.time = n + 1 /\ marker.state = "active"
        /\ c # 0 => /\ copy.kind = CopyKind(c, keeps) /\ copy.text = gateRows[c].text
                    /\ copy.state = "active"
                    /\ copy.time = IF keeps THEN gateRows[c].time ELSE n + 1
    BY DEF Row
  <2>5. c # 0 => c \in Ids /\ gateRows[c].time <= c
    BY <1>1, <1>b DEF RowFits
  <2>51. c # 0 => CopyKind(c, keeps) \in {"copy", "recopy"}
    BY <1>1, <2>1, <2>5 DEF CopyKind, GateRow, MsgKinds
  <2>6. n + 1 <= MaxRows
    <3>1. Len(added) \in Nat /\ Len(added) >= 1
      OBVIOUS
    <3>2. Len(gateRows') = n + Len(added)
      <4> HIDE DEF marker, copy
      <4>1. \E S : added \in Seq(S) /\ GateRow \subseteq S
        <5>1. /\ <<marker>> \in Seq(GateRow \cup {marker, copy})
              /\ <<marker, copy>> \in Seq(GateRow \cup {marker, copy})
          OBVIOUS
        <5>2. added \in Seq(GateRow \cup {marker, copy})
          BY <5>1
        <5>3. QED
          BY <5>2
      <4> HIDE DEF added
      <4>2. Len(seen \o added) = Len(seen) + Len(added)
        <5>1. PICK S : added \in Seq(S) /\ GateRow \subseteq S
          BY <4>1
        <5>2. seen \in Seq(S)
          BY <2>3, <5>1
        <5>3. QED
          BY <5>1, <5>2, ConcatProperties
      <4>3. QED
        BY <2>1, <2>3, <4>2
    <3>3. QED
      BY <1>1, <1>a, <2>1, <3>1, <3>2
  <2>7. marker \in GateRow /\ (c # 0 => copy \in GateRow)
    <3>1. n + 1 \in 1..MaxRows
      BY <1>1, <1>a, <2>6
    <3>2. marker \in GateRow
      BY <1>1, <2>2, <3>1 DEF Row, GateRow, MsgKinds
    <3>3. ASSUME c # 0 PROVE copy \in GateRow
      <4>1. gateRows[c] \in GateRow
        BY <1>1, <2>5, <3>3
      <4>2. QED
        BY <2>51, <3>1, <3>3, <4>1 DEF Row, GateRow, MsgKinds
    <3>4. QED
      BY <3>2, <3>3
  <2> HIDE DEF marker, copy
  <2>8. /\ added \in Seq(GateRow) /\ added[1] = marker
        /\ Len(added) = IF c = 0 THEN 1 ELSE 2
        /\ c # 0 => added[2] = copy
    BY <2>7
  <2> HIDE DEF added
  <2>9. /\ gateRows' \in Seq(GateRow) /\ Len(gateRows') = n + Len(added)
        /\ \A j \in Ids : gateRows'[j] = seen[j]
        /\ gateRows'[n + 1] = marker
        /\ c # 0 => gateRows'[n + 2] = copy
    <3> DEFINE both == seen \o added
    <3> HIDE DEF both
    <3>1. /\ both \in Seq(GateRow) /\ Len(both) = n + Len(added)
          /\ \A j \in 1..(n + Len(added)) : both[j] = IF j <= n THEN seen[j] ELSE added[j - n]
      BY <2>3, <2>8, ConcatProperties DEF both
    <3>2. gateRows' = both
      BY <2>1 DEF both
    <3>3. \A j \in Ids : gateRows'[j] = seen[j]
      <4>1. \A j \in Ids : j \in 1..(n + Len(added)) /\ j <= n
        BY <1>1, <2>8
      <4>2. QED
        BY <3>1, <3>2, <4>1
    <3>4. gateRows'[n + 1] = marker
      <4>1. 1 \in 1..Len(added)
        BY <2>8
      <4>2. (seen \o added)[Len(seen) + 1] = added[1]
        BY <2>3, <2>8, <4>1, Appended
      <4>3. QED
        BY <2>1, <2>3, <2>8, <4>2
    <3>5. ASSUME c # 0 PROVE gateRows'[n + 2] = copy
      <4>1. 2 \in 1..Len(added)
        BY <2>8, <3>5
      <4>2. (seen \o added)[Len(seen) + 2] = added[2]
        BY <2>3, <2>8, <4>1, Appended
      <4>3. QED
        BY <2>1, <2>3, <2>8, <3>5, <4>2
    <3>6. QED
      BY <3>1, <3>2, <3>3, <3>4, <3>5
  <2>10. Ids' = 1..(n + Len(added)) /\ Ids \subseteq Ids'
    BY <1>1, <2>8, <2>9 DEF Ids
  <2>11. ASSUME NEW i \in Ids' \ Ids PROVE RowFits(i)'
    <3>1. i = n + 1 \/ (c # 0 /\ i = n + 2)
      BY <1>1, <2>8, <2>10
    <3>2. CASE i = n + 1
      BY <1>1, <2>4, <2>9, <3>2 DEF RowFits
    <3>3. CASE c # 0 /\ i = n + 2
      <4>1. /\ gateRows'[i] = copy /\ gateRows'[c] = seen[c] /\ gateRows'[n + 1] = marker
            /\ c \in 1..(i - 1) /\ n + 1 \in 1..(i - 1)
        BY <1>1, <2>5, <2>9, <3>3
      <4>2. c \in Originals(i)'
        <5>1. gateRows'[c] = seen[c] /\ gateRows'[i] = copy /\ copy.text = gateRows[c].text
          BY <2>4, <3>3, <4>1
        <5>2. c \in Ids /\ c \in 1..(i - 1)
          BY <2>5, <3>3, <4>1
        <5>3. /\ seen[c].text = gateRows[c].text /\ seen[c].kind # "marker"
              /\ seen[c].state = "compacted"
          BY <2>1, <2>3, <3>3, <5>2
        <5>4. QED
          BY <5>1, <5>2, <5>3 DEF Originals
      <4>3. ASSUME CopyKind(c, keeps) = "copy"
            PROVE  \/ \E k \in 1..(i - 1) : gateRows'[k].kind = "marker" /\ gateRows'[k].time = gateRows'[i].time
                   \/ \E f \in Originals(i)' :
                        gateRows'[f].time = gateRows'[i].time /\ \A j \in Ids' : Repeats(j, i)' => f <= j
        \* What repeats the copy also repeats its row, or is behind that.
        <5>1. ASSUME NEW j \in Ids', Repeats(j, i)'
              PROVE  (j \in Ids /\ Repeats(j, c)) \/ (j \notin Ids /\ c <= j)
          <6>1. CASE j \in Ids
            <7>1. /\ gateRows'[j] = seen[j] /\ gateRows'[i].text = gateRows[c].text
                  /\ seen[j].text = gateRows[j].text /\ seen[j].kind = gateRows[j].kind
                  /\ gateRows[j].state = "rewound" => seen[j].state = "rewound"
              BY <2>3, <2>4, <2>9, <3>3, <4>1, <6>1
            <7>2. QED
              BY <5>1, <6>1, <7>1 DEF Repeats
          <6>2. CASE j \notin Ids
            BY <1>1, <2>5, <2>8, <2>10, <3>3, <6>2
          <6>3. QED
            BY <6>1, <6>2
        <5>2. CASE ~keeps
          BY <2>4, <3>3, <4>1, <5>2
        <5>3. CASE keeps /\ gateRows[c].kind = "turn"
          <6>1. gateRows'[c].time = gateRows'[i].time
            BY <2>3, <2>4, <2>5, <3>3, <4>1, <5>3
          <6>2. IsFirst(c)
            BY <4>3, <5>3 DEF CopyKind
          <6>3. ASSUME NEW j \in Ids', Repeats(j, i)' PROVE c <= j
            BY <5>1, <6>2, <6>3 DEF IsFirst, Repeats
          <6>4. QED
            BY <4>2, <6>1, <6>3
        <5>4. CASE keeps /\ gateRows[c].kind # "turn"
          <6>1. gateRows[c].kind = "copy" /\ gateRows'[i].time = gateRows[c].time /\ c \in Ids
            BY <2>4, <2>5, <3>3, <4>1, <4>3, <5>4 DEF CopyKind
          <6>2. ASSUME NEW k \in 1..(c - 1), gateRows[k].kind = "marker",
                       gateRows[k].time = gateRows[c].time
                PROVE  k \in 1..(i - 1) /\ gateRows'[k].kind = "marker" /\ gateRows'[k].time = gateRows'[i].time
            <7>1. k \in Ids /\ k \in 1..(i - 1)
              BY <1>1, <3>3, <6>1
            <7>2. QED
              BY <2>3, <2>9, <6>1, <6>2, <7>1
          <6>3. ASSUME NEW f \in Originals(c), gateRows[f].time = gateRows[c].time,
                       \A j \in Ids : Repeats(j, c) => f <= j
                PROVE  /\ f \in Originals(i)' /\ gateRows'[f].time = gateRows'[i].time
                       /\ \A j \in Ids' : Repeats(j, i)' => f <= j
            <7>1. /\ f \in Ids /\ f \in 1..(i - 1) /\ f < c
                  /\ gateRows[f].state = "compacted" /\ gateRows[f].kind # "marker"
                  /\ gateRows[f].text = gateRows[c].text
              BY <1>1, <3>3, <6>1 DEF Originals
            <7>2. gateRows'[f] = seen[f] /\ gateRows'[i].text = gateRows[c].text
              BY <2>4, <2>9, <3>3, <4>1, <7>1
            <7>3. /\ seen[f].text = gateRows[f].text /\ seen[f].kind = gateRows[f].kind
                  /\ seen[f].time = gateRows[f].time /\ seen[f].state = "compacted"
              BY <2>3, <7>1
            <7>4. f \in Originals(i)'
              BY <7>1, <7>2, <7>3 DEF Originals
            <7>5. ASSUME NEW j \in Ids', Repeats(j, i)' PROVE f <= j
              <8>1. CASE j \in Ids /\ Repeats(j, c)
                BY <6>3, <8>1
              <8>2. CASE j \notin Ids /\ c <= j
                BY <1>1, <2>8, <2>10, <6>1, <7>1, <8>2
              <8>3. QED
                BY <5>1, <7>5, <8>1, <8>2
            <7>6. QED
              BY <6>1, <6>3, <7>2, <7>3, <7>4, <7>5
          <6>4. RowFits(c)
            BY <1>b, <6>1
          <6>5. QED
            BY <6>1, <6>2, <6>3, <6>4 DEF RowFits
        <5>5. QED
          BY <5>2, <5>3, <5>4
      <4>4. gateRows'[i].time <= i
        <5>1. copy.time = gateRows[c].time \/ copy.time = n + 1
          BY <2>4, <3>3
        <5>2. gateRows[c].time \in Nat
          BY <1>1, <1>a, <2>5, <3>3 DEF GateRow
        <5>3. QED
          BY <1>1, <2>5, <3>3, <4>1, <5>1, <5>2
      <4>5. /\ gateRows'[i].kind = CopyKind(c, keeps) /\ gateRows'[i].state # "rewound"
            /\ i > 1 /\ gateRows'[i - 1].kind = "marker"
        <5>1. i - 1 = n + 1 /\ i > 1
          BY <1>1, <3>3
        <5>2. QED
          BY <2>4, <2>9, <3>3, <4>1, <5>1
      <4>6. CopyKind(c, keeps) \in {"copy", "recopy"}
        BY <2>51, <3>3
      <4>7. QED
        BY <4>2, <4>3, <4>4, <4>5, <4>6 DEF RowFits
    <3>4. QED
      BY <3>1, <3>2, <3>3
  <2>12. \A i \in Ids : /\ gateRows'[i].text = gateRows[i].text
                        /\ gateRows'[i].kind = gateRows[i].kind
                        /\ gateRows'[i].time = gateRows[i].time
                        /\ gateRows[i].state = "compacted" => gateRows'[i].state = "compacted"
                        /\ gateRows[i].state = "rewound" => gateRows'[i].state = "rewound"
                        /\ gateRows[i].kind # "turn" =>
                             (gateRows'[i].state = "rewound" => gateRows[i].state = "rewound")
    BY <2>3, <2>9
  <2>13. Len(gateRows) <= Len(gateRows')
    BY <1>1, <1>a, <2>8, <2>9
  <2>14. QED
    BY <2>1, <2>9, <2>11, <2>12, <2>13, RowsKept
<1>5. QED
  BY <1>2, <1>3, <1>4, <1>a

\* A backup has lost its last rows and shows others again; the cursors remember
\* what of it they had passed.
LEMMA RestoreStep ==
  ASSUME HistoryInv, NEW n \in 0..Len(gateRows), NEW back \in SUBSET Ids,
         NEW who \in 0..MaxRestores, Restore(n, back, who)
  PROVE  HistoryInv'
<1> USE HistoryAssumption
<1>1. /\ gateRows \in Seq(GateRow) /\ Len(gateRows) \in Nat /\ Len(gateRows) <= MaxRows
      /\ Ids = 1..Len(gateRows) /\ \A i \in Ids : i \in Nat /\ gateRows[i] \in GateRow
      /\ saved \in SavedRow /\ syncing \in SyncRow /\ MaxRows \in Nat
      /\ \A i \in Ids : RowFits(i)
  BY HistoryTypes DEF HistoryInv, RowsFit
<1> DEFINE again(i) == i \in back \/ (gateRows[i].state = "compacted" /\ Uncompacted(i, n))
<1>2. /\ restores < MaxRestores /\ restores' = restores + 1 /\ identity' = who
      /\ \A i \in back : i <= n /\ gateRows[i].state = "rewound" /\ Uncompacted(i, n)
      /\ gateRows' = [i \in 1..n |-> IF again(i) THEN [gateRows[i] EXCEPT !.state = "active"]
                                     ELSE gateRows[i]]
      /\ saved' = [saved EXCEPT !.skipped = @ \cup Overtaken(saved.cursor, n, back)]
      /\ syncing' = [syncing EXCEPT !.skipped = @ \cup Overtaken(syncing.cursor, n, back)]
      /\ crossed' = crossed \cup {i \in Ids : i > n /\ \E b \in wire : \E m \in b : m.id = i}
      /\ wire' = wire /\ archive' = archive
  BY DEF Restore
<1>3. n \in Nat /\ n <= Len(gateRows) /\ \A i \in 1..n : i \in Ids
  BY <1>1
<1>4. \A i \in 1..n : gateRows'[i] = IF again(i) THEN [gateRows[i] EXCEPT !.state = "active"]
                                     ELSE gateRows[i]
  BY <1>2
<1> HIDE DEF again
<1>5. /\ gateRows' \in Seq(GateRow) /\ Len(gateRows') = n
      /\ Ids' = 1..n /\ Ids' \subseteq Ids
  <2>1. \A i \in 1..n : [gateRows[i] EXCEPT !.state = "active"] \in GateRow /\ gateRows[i] \in GateRow
    BY <1>1, <1>3 DEF GateRow
  <2>2. gateRows' \in [1..n -> GateRow]
    BY <1>2, <2>1
  <2>3. gateRows' \in Seq(GateRow) /\ Len(gateRows') = n
    BY <1>3, <2>2
  <2>4. QED
    BY <1>1, <1>3, <2>3 DEF Ids
<1>6. \A i \in 1..n : /\ gateRows'[i].text = gateRows[i].text
                      /\ gateRows'[i].kind = gateRows[i].kind
                      /\ gateRows'[i].time = gateRows[i].time
                      /\ gateRows'[i].state = IF again(i) THEN "active" ELSE gateRows[i].state
  <2>1. ASSUME NEW i \in 1..n
        PROVE  /\ gateRows'[i].text = gateRows[i].text
               /\ gateRows'[i].kind = gateRows[i].kind
               /\ gateRows'[i].time = gateRows[i].time
               /\ gateRows'[i].state = IF again(i) THEN "active" ELSE gateRows[i].state
    <3>1. gateRows[i] \in GateRow
      BY <1>1, <1>3
    <3>2. QED
      BY <1>4, <3>1 DEF GateRow
  <2>2. QED
    BY <2>1
<1>7. HistoryTypeOK'
  <2>1. /\ Overtaken(saved.cursor, n, back) \subseteq 1..MaxRows
        /\ Overtaken(syncing.cursor, n, back) \subseteq 1..MaxRows
    BY <1>1 DEF Overtaken, SavedRow, SyncRow
  <2>2. saved' \in SavedRow
    BY <1>1, <1>2, <2>1 DEF SavedRow
  <2>3. syncing' \in SyncRow
    BY <1>1, <1>2, <2>1 DEF SyncRow
  <2>4. crossed' \subseteq 1..MaxRows
    BY <1>1, <1>2 DEF HistoryInv, HistoryTypeOK
  <2>5. restores' \in 0..MaxRestores /\ identity' \in 0..MaxRestores /\ Len(gateRows') <= MaxRows
    BY <1>1, <1>2, <1>3, <1>5 DEF HistoryInv, HistoryTypeOK
  <2>6. QED
    BY <1>2, <1>5, <2>2, <2>3, <2>4, <2>5
       DEF HistoryInv, HistoryTypeOK, GateRow, SavedRow, SyncRow
<1>8. ASSUME NEW i \in Ids' PROVE RowFits(i)'
  <2>1. RowFits(i) /\ i \in 1..n /\ i \in Ids /\ i \in Nat
    BY <1>1, <1>3, <1>5
  <2>2. /\ gateRows'[i].time <= i
        /\ gateRows'[i].kind \in {"turn", "marker"} => gateRows'[i].time = i
        /\ gateRows'[i].kind # "turn" => gateRows'[i].state # "rewound"
    BY <1>6, <2>1 DEF RowFits
  <2>3. ASSUME gateRows[i].kind \in {"copy", "recopy"}
        PROVE  i > 1 /\ gateRows'[i - 1].kind = "marker"
    <3>1. i > 1 /\ gateRows[i - 1].kind = "marker"
      BY <2>1, <2>3 DEF RowFits
    <3>2. i - 1 \in 1..n
      BY <1>3, <2>1, <3>1
    <3>3. QED
      BY <1>6, <3>1, <3>2
  <2>4. ASSUME gateRows[i].kind = "copy"
        PROVE  /\ Originals(i)' # {}
               /\ \/ \E k \in 1..(i - 1) : gateRows'[k].kind = "marker" /\ gateRows'[k].time = gateRows'[i].time
                  \/ \E f \in Originals(i)' :
                       gateRows'[f].time = gateRows'[i].time /\ \A j \in Ids' : Repeats(j, i)' => f <= j
    <3>1. i - 1 \in Ids /\ i - 1 <= n /\ gateRows[i - 1].kind = "marker"
      BY <1>1, <2>1, <2>4 DEF RowFits
    \* The marker before the copy has taken everything before it in.
    <3>2. ASSUME NEW j \in Ids, Uncompacted(j, n) PROVE j >= i - 1
      BY <1>1, <3>1, <3>2 DEF Uncompacted
    <3>3. ASSUME NEW f \in Originals(i)
          PROVE  f \in Originals(i)' /\ f \in 1..n /\ f < i - 1
      <4>1. /\ f \in 1..(i - 1) /\ gateRows[f].state = "compacted" /\ gateRows[f].kind # "marker"
            /\ gateRows[f].text = gateRows[i].text
        BY DEF Originals
      <4>2. f \in 1..n /\ f \in Ids /\ f < i - 1
        BY <1>1, <1>3, <2>1, <3>1, <4>1
      <4>3. ~again(f)
        <5>1. ~Uncompacted(f, n)
          BY <1>1, <3>1, <3>2, <4>2
        <5>2. f \notin back
          BY <1>2, <4>1
        <5>3. QED
          BY <5>1, <5>2 DEF again
      <4>4. gateRows'[f].state = "compacted" /\ gateRows'[f].kind # "marker" /\ gateRows'[f].text = gateRows'[i].text
        BY <1>6, <2>1, <4>1, <4>2, <4>3
      <4>5. QED
        BY <4>1, <4>2, <4>4 DEF Originals
    <3>4. ASSUME NEW k \in 1..(i - 1), gateRows[k].kind = "marker", gateRows[k].time = gateRows[i].time
          PROVE  gateRows'[k].kind = "marker" /\ gateRows'[k].time = gateRows'[i].time
      <4>1. k \in 1..n
        BY <1>3, <2>1
      <4>2. QED
        BY <1>6, <2>1, <3>4, <4>1
    <3>5. ASSUME NEW f \in Originals(i), gateRows[f].time = gateRows[i].time,
                 \A j \in Ids : Repeats(j, i) => f <= j
          PROVE  gateRows'[f].time = gateRows'[i].time /\ \A j \in Ids' : Repeats(j, i)' => f <= j
      <4>1. gateRows'[f].time = gateRows'[i].time
        BY <1>6, <2>1, <3>3, <3>5
      <4>2. ASSUME NEW j \in Ids', Repeats(j, i)' PROVE f <= j
        <5>1. j \in 1..n /\ j \in Ids /\ j \in Nat
          BY <1>1, <1>5
        <5>2. CASE again(j)
          <6>1. Uncompacted(j, n)
            BY <1>2, <5>2 DEF again
          <6>2. j >= i - 1 /\ f < i - 1 /\ f \in Nat
            BY <3>2, <3>3, <5>1, <6>1
          <6>3. QED
            BY <2>1, <5>1, <6>2
        <5>3. CASE ~again(j)
          <6>1. Repeats(j, i)
            BY <1>6, <2>1, <4>2, <5>1, <5>3 DEF Repeats
          <6>2. QED
            BY <3>5, <5>1, <6>1
        <5>4. QED
          BY <5>2, <5>3
      <4>3. QED
        BY <4>1, <4>2
    <3>6. Originals(i)' # {}
      BY <2>1, <2>4, <3>3 DEF RowFits
    <3>7. CASE \E k \in 1..(i - 1) : gateRows[k].kind = "marker" /\ gateRows[k].time = gateRows[i].time
      BY <3>4, <3>6, <3>7
    <3>8. CASE \E f \in Originals(i) :
                 gateRows[f].time = gateRows[i].time /\ \A j \in Ids : Repeats(j, i) => f <= j
      BY <3>3, <3>5, <3>6, <3>8
    <3>9. QED
      BY <2>1, <2>4, <3>7, <3>8 DEF RowFits
  <2>5. gateRows'[i].kind = gateRows[i].kind
    BY <1>6, <2>1
  <2>6. QED
    BY <2>2, <2>3, <2>4, <2>5 DEF RowFits
<1>9. WireFits'
  <2>1. ASSUME NEW b \in wire', NEW m \in b
        PROVE  /\ m.kind \in Turnlike
               /\ m.id \notin crossed' => m.id \in Ids' /\ m.text = gateRows'[m.id].text
    <3>1. /\ m.kind \in Turnlike
          /\ m.id \notin crossed => m.id \in Ids /\ m.text = gateRows[m.id].text
      BY <1>2 DEF HistoryInv, WireFits
    <3>2. ASSUME m.id \notin crossed' PROVE m.id \in Ids' /\ m.text = gateRows'[m.id].text
      <4>1. m.id \notin crossed /\ m.id \in Ids /\ ~(m.id > n)
        BY <1>2, <3>1, <3>2
      <4>2. m.id \in 1..n
        BY <1>1, <1>3, <4>1
      <4>3. QED
        BY <1>5, <1>6, <3>1, <4>1, <4>2
    <3>3. QED
      BY <3>1, <3>2
  <2>2. QED
    BY <2>1 DEF WireFits
<1>10. /\ Missing(saved.cursor)' \subseteq Missing(saved.cursor) \cup Overtaken(saved.cursor, n, back)
       /\ Missing(syncing.cursor)' \subseteq Missing(syncing.cursor) \cup Overtaken(syncing.cursor, n, back)
  <2>1. saved'.cursor = saved.cursor /\ syncing'.cursor = syncing.cursor
    BY <1>1, <1>2 DEF SavedRow, SyncRow
  <2>2. ASSUME NEW i \in Nat, i \in Ids' => gateRows'[i].kind = "turn" /\ gateRows'[i].state # "rewound" /\ ~Shown(i)',
               ~(i > n \/ i \in back)
        PROVE  i \in Ids => gateRows[i].kind = "turn" /\ gateRows[i].state # "rewound" /\ ~Shown(i)
    <3>1. ASSUME i \in Ids
          PROVE  gateRows[i].kind = "turn" /\ gateRows[i].state # "rewound" /\ ~Shown(i)
      <4>1. i \in 1..n /\ i \in Ids'
        BY <1>1, <1>3, <1>5, <2>2, <3>1
      <4>2. gateRows[i].state # "rewound"
        BY <1>6, <2>2, <4>1 DEF again
      <4>3. Shown(i)' = Shown(i)
        BY <1>2, <1>6, <4>1 DEF Shown
      <4>4. QED
        BY <1>6, <2>2, <4>1, <4>2, <4>3
    <3>2. QED
      BY <3>1
  <2>3. QED
    BY <2>1, <2>2 DEF Missing, Overtaken
<1>11. SyncFits'
  <2>1. /\ saved'.skipped = saved.skipped \cup Overtaken(saved.cursor, n, back)
        /\ syncing'.skipped = syncing.skipped \cup Overtaken(syncing.cursor, n, back)
        /\ syncing'.pc = syncing.pc /\ syncing'.items = syncing.items
        /\ crossed \subseteq crossed' /\ wire' = wire
    BY <1>1, <1>2 DEF SavedRow, SyncRow
  <2>2. Missing(saved.cursor)' \subseteq saved'.skipped \cup crossed'
    BY <1>10, <2>1 DEF HistoryInv, SyncFits
  <2>3. ASSUME syncing.pc # "idle"
        PROVE  /\ syncing.pc \in {"read", "save"} =>
                    Missing(syncing.cursor)' \subseteq syncing'.skipped \cup crossed'
               /\ Missing(syncing.cursor)' \subseteq
                    syncing'.skipped \cup crossed' \cup {m.id : m \in syncing.items}
    BY <1>10, <2>1, <2>3 DEF HistoryInv, SyncFits
  <2>4. QED
    BY <2>1, <2>2, <2>3 DEF HistoryInv, SyncFits
<1>12. RowsFit'
  BY <1>8 DEF RowsFit
<1>13. QED
  BY <1>2, <1>7, <1>9, <1>11, <1>12 DEF HistoryInv

\* A sync starts where the saved cursor, if it is for this file, ends.
LEMMA StartStep ==
  ASSUME HistoryInv, StartSync
  PROVE  HistoryInv'
<1> USE HistoryAssumption
<1> DEFINE known == IF saved.identity = identity THEN saved.skipped ELSE {}
<1>1. /\ UNCHANGED <<gateRows, identity, restores, saved, wire, archive, crossed>>
      /\ syncing' = [Idle EXCEPT !.pc = "read", !.cursor = StartCursor, !.identity = identity,
                                 !.skipped = known]
      /\ saved \in SavedRow /\ identity \in 0..MaxRestores /\ MaxRows \in Nat
  BY HistoryTypes DEF StartSync, HistoryInv, HistoryTypeOK
<1>2. StartCursor \in 0..MaxRows /\ known \subseteq 1..MaxRows
  BY <1>1 DEF StartCursor, SavedRow
<1>3. syncing' = [pc |-> "read", cursor |-> StartCursor, identity |-> identity,
                  items |-> {}, more |-> FALSE, skipped |-> known]
  BY <1>1 DEF Idle
<1>4. Missing(StartCursor) \subseteq known \cup crossed
  <2>1. CASE saved.identity = identity
    BY <2>1 DEF StartCursor, HistoryInv, SyncFits
  <2>2. CASE saved.identity # identity
    <3>1. StartCursor = 0
      BY <2>2 DEF StartCursor
    <3>2. QED
      BY <3>1 DEF Missing
  <2>3. QED
    BY <2>1, <2>2
<1> HIDE DEF known
<1>5. HistoryTypeOK'
  <2>1. syncing' \in SyncRow
    <3>1. identity \in 0..MaxRestores /\ known \in SUBSET (1..MaxRows)
      BY <1>1, <1>2
    <3> HIDE <1>1
    <3>2. QED
      BY <1>2, <1>3, <3>1 DEF SyncRow
  <2>2. QED
    BY <1>1, <2>1 DEF HistoryInv, HistoryTypeOK, SyncRow
<1>6. RowsFit' /\ WireFits'
  <2>1. gateRows' = gateRows /\ wire' = wire /\ crossed' = crossed
    BY <1>1
  <2>2. RowsFit'
    BY <2>1, RowsUntouched DEF HistoryInv
  <2>3. WireFits'
    BY <2>1 DEF HistoryInv, WireFits, Ids
  <2>4. QED
    BY <2>2, <2>3
<1>7. /\ syncing'.pc = "read" /\ syncing'.cursor = StartCursor /\ syncing'.items = {}
      /\ syncing'.skipped = known
  BY <1>3
<1>8. Missing(saved.cursor)' = Missing(saved.cursor) /\ Missing(syncing.cursor)' = Missing(StartCursor)
  BY <1>1, <1>7 DEF Missing, Ids, Shown
<1>9. SyncFits'
  <2>1. Missing(saved.cursor)' \subseteq saved'.skipped \cup crossed'
    BY <1>1, <1>8 DEF HistoryInv, SyncFits
  <2>2. Missing(syncing.cursor)' \subseteq syncing'.skipped \cup crossed'
    BY <1>1, <1>4, <1>7, <1>8
  <2>3. QED
    BY <1>7, <2>1, <2>2 DEF SyncFits
<1>10. QED
  BY <1>1, <1>5, <1>6, <1>9 DEF HistoryInv

\* A row that is read and not excluded looks like a turn, and no turn is
\* excluded.
LEMMA TurnsOnly ==
  ASSUME HistoryInv, NEW i \in Ids, gateRows[i].state # "rewound"
  PROVE  /\ ~Excluded(i) => gateRows[i].kind \in Turnlike
         /\ gateRows[i].kind = "turn" => ~Excluded(i)
<1>1. /\ RowFits(i) /\ Ids = 1..Len(gateRows) /\ Len(gateRows) \in Nat
      /\ gateRows[i].kind \in {"turn", "marker", "copy", "recopy"}
      /\ \A j \in Ids : RowFits(j)
      /\ \A j \in Ids : gateRows[j].time \in Nat
  BY HistoryTypes DEF HistoryInv, RowsFit, GateRow, MsgKinds
<1>2. \A j \in Originals(i) : j \in 1..(i - 1) /\ j \in Ids /\ Repeats(j, i)
  BY <1>1 DEF Originals, Repeats
<1>3. CASE gateRows[i].kind = "marker"
  BY <1>3 DEF Excluded
<1>4. CASE gateRows[i].kind = "copy"
  <2>1. CASE \E k \in 1..(i - 1) : gateRows[k].kind = "marker" /\ gateRows[k].time = gateRows[i].time
    BY <1>1, <1>4, <2>1 DEF RowFits, Excluded
  <2>2. ASSUME NEW f \in Originals(i), gateRows[f].time = gateRows[i].time,
               \A j \in Ids : Repeats(j, i) => f <= j
        PROVE  Excluded(i)
    <3>1. \A j \in Originals(i) : f <= j
      BY <1>2, <2>2
    <3>2. QED
      BY <2>2, <3>1 DEF Excluded
  <2>3. QED
    BY <1>1, <1>4, <2>1, <2>2 DEF RowFits
<1>5. CASE gateRows[i].kind = "turn"
  <2>1. gateRows[i].time = i
    BY <1>1, <1>5 DEF RowFits
  <2>2. \A k \in 1..(i - 1) : k \in Ids /\ gateRows[k].time <= k /\ gateRows[k].time # i
    <3>1. ASSUME NEW k \in 1..(i - 1)
          PROVE  k \in Ids /\ gateRows[k].time <= k /\ gateRows[k].time # i
      <4>1. k \in Ids /\ k < i
        BY <1>1
      <4>2. gateRows[k].time <= k /\ gateRows[k].time \in Nat
        BY <1>1, <4>1 DEF RowFits
      <4>3. QED
        BY <1>1, <4>1, <4>2
    <3>2. QED
      BY <3>1
  <2>3. QED
    BY <1>2, <1>5, <2>1, <2>2 DEF Excluded, Turnlike
<1>6. QED
  BY <1>1, <1>3, <1>4, <1>5 DEF Turnlike

\* A batch leaves out no row up to the one it ends with, whatever its size.
LEMMA BatchIsWhole ==
  ASSUME HistoryInv, NEW cursor \in Nat, NEW last \in Fetched(cursor),
         NEW i \in Ids, i > cursor, i <= last, gateRows[i].state # "rewound"
  PROVE  i \in Fetched(cursor)
<1> DEFINE all == {j \in Ids : j > cursor /\ gateRows[j].state # "rewound"}
<1> DEFINE upto(k) == {j \in all : j <= k}
<1>1. Ids = 1..Len(gateRows) /\ Len(gateRows) \in Nat
  BY HistoryTypes DEF HistoryInv
<1>2. last \in all /\ Cardinality(upto(last)) <= Batch /\ i \in all
  BY DEF Fetched
<1>3. IsFiniteSet(upto(last))
  <2>1. IsFiniteSet(1..Len(gateRows))
    <3>1. 1 \in Int /\ Len(gateRows) \in Int
      BY <1>1
    <3>2. QED
      BY <3>1, FS_Interval
  <2>2. upto(last) \subseteq 1..Len(gateRows)
    BY <1>1
  <2>3. QED
    BY <2>1, <2>2, FS_Subset
<1>4. upto(i) \subseteq upto(last)
  BY <1>1, <1>2
<1>5. /\ Cardinality(upto(i)) <= Cardinality(upto(last))
      /\ Cardinality(upto(i)) \in Nat /\ Cardinality(upto(last)) \in Nat
  BY <1>3, <1>4, FS_Subset, FS_CardinalityType
<1>6. Cardinality(upto(i)) <= Batch
  <2> HIDE DEF upto
  <2>1. QED
    BY <1>2, <1>5, HistoryAssumption
<1>7. QED
  BY <1>2, <1>6 DEF Fetched

\* What a sync reads is sent, or there is nothing new to archive.
LEMMA ReadStepFits ==
  ASSUME HistoryInv, NEW last \in 0..MaxRows, ReadBatch(last)
  PROVE  HistoryInv'
<1> USE HistoryAssumption
<1> DEFINE got == Fetched(syncing.cursor)
<1> DEFINE taken == {i \in got : i <= last /\ ~Excluded(i)}
<1> DEFINE items == {[id |-> i, text |-> gateRows[i].text, kind |-> gateRows[i].kind] : i \in taken}
<1> DEFINE more == Cardinality(got) = Batch \/ \E i \in got : i > last
<1>1. /\ syncing.pc = "read"
      /\ last \in got \/ (got = {} /\ last = syncing.cursor)
      /\ syncing' = [syncing EXCEPT !.pc = IF items = {} THEN "save" ELSE "sent",
                                    !.items = items, !.cursor = last, !.more = more]
      /\ wire' = IF items = {} THEN wire ELSE wire \cup {items}
      /\ UNCHANGED <<gateRows, identity, restores, saved, archive, crossed>>
  BY DEF ReadBatch
<1>2. /\ Len(gateRows) \in Nat /\ Ids = 1..Len(gateRows) /\ Len(gateRows) <= MaxRows
      /\ \A i \in Ids : gateRows[i] \in GateRow
      /\ syncing.cursor \in Nat /\ syncing \in SyncRow /\ MaxRows \in Nat
  BY HistoryTypes DEF HistoryInv
<1>3. Missing(syncing.cursor) \subseteq syncing.skipped \cup crossed
  BY <1>1 DEF HistoryInv, SyncFits
<1>4. \A i \in got : i \in Ids /\ gateRows[i].state # "rewound"
  BY DEF Fetched
<1>5. \A i \in taken : i \in Ids /\ gateRows[i].kind \in Turnlike
  BY <1>4, TurnsOnly
<1>6. ASSUME NEW i \in Missing(last), i \notin Missing(syncing.cursor) PROVE i \in taken
  <2>1. /\ i \in 1..last /\ i > syncing.cursor
        /\ i \in Ids => gateRows[i].kind = "turn" /\ gateRows[i].state # "rewound"
    BY <1>2, <1>6 DEF Missing
  <2>2. last \in got /\ last \in Ids
    BY <1>1, <1>2, <1>4, <2>1
  <2>3. i \in Ids /\ i <= last
    BY <1>2, <2>1, <2>2
  <2>4. i \in got
    BY <1>2, <2>1, <2>2, <2>3, BatchIsWhole
  <2>5. ~Excluded(i)
    BY <2>1, <2>3, TurnsOnly
  <2>6. QED
    BY <2>3, <2>4, <2>5
<1>7. items \subseteq Item /\ \A m \in items :
        m.kind \in Turnlike /\ m.id \in Ids /\ m.text = gateRows[m.id].text
  <2>1. ASSUME NEW i \in taken
        PROVE  [id |-> i, text |-> gateRows[i].text, kind |-> gateRows[i].kind] \in Item
    <3>1. i \in 1..MaxRows /\ gateRows[i] \in GateRow
      BY <1>2, <1>5
    <3>2. QED
      BY <3>1 DEF Item, GateRow
  <2>2. QED
    BY <1>5, <2>1
<1>8. Missing(last) \subseteq Missing(syncing.cursor) \cup {m.id : m \in items}
  <2>1. ASSUME NEW i \in Missing(last), i \notin Missing(syncing.cursor)
        PROVE  i \in {m.id : m \in items}
    <3> DEFINE mine == [id |-> i, text |-> gateRows[i].text, kind |-> gateRows[i].kind]
    <3>1. mine \in items /\ mine.id = i
      BY <1>6, <2>1
    <3>2. QED
      BY <3>1
  <2>2. QED
    BY <2>1
<1> HIDE DEF items, taken, got, more
<1>9. /\ syncing'.items = items /\ syncing'.cursor = last /\ syncing'.skipped = syncing.skipped
      /\ syncing'.pc = IF items = {} THEN "save" ELSE "sent"
      /\ syncing' \in SyncRow
  <2>1. more \in BOOLEAN
    BY DEF more
  <2>2. QED
    BY <1>1, <1>2, <1>7, <2>1 DEF SyncRow
<1>10. HistoryTypeOK'
  <2>1. \A b \in wire' : b \subseteq Item
    BY <1>1, <1>7 DEF HistoryInv, HistoryTypeOK
  <2>2. QED
    BY <1>1, <1>9, <2>1 DEF HistoryInv, HistoryTypeOK, SyncRow
<1>11. RowsFit'
  BY <1>1, RowsUntouched DEF HistoryInv
<1>12. WireFits'
  <2>1. Ids' = Ids
    BY <1>1 DEF Ids
  <2>2. QED
    BY <1>1, <1>7, <2>1 DEF HistoryInv, WireFits
<1>13. Missing(saved.cursor)' = Missing(saved.cursor) /\ Missing(syncing.cursor)' = Missing(last)
  BY <1>1, <1>9 DEF Missing, Ids, Shown
<1>14. SyncFits'
  <2>1. items = {} => Missing(last) \subseteq syncing.skipped \cup crossed
    BY <1>3, <1>8
  <2>2. items # {} => syncing'.items \in wire'
    BY <1>1, <1>9
  <2>3. Missing(saved.cursor)' \subseteq saved'.skipped \cup crossed'
    BY <1>1, <1>13 DEF HistoryInv, SyncFits
  <2>4. syncing'.pc = "sent" => syncing'.items \in wire'
    BY <1>9, <2>2
  <2>5. syncing'.pc \in {"read", "save"} =>
          Missing(syncing.cursor)' \subseteq syncing'.skipped \cup crossed'
    BY <1>1, <1>9, <1>13, <2>1
  <2>6. Missing(syncing.cursor)' \subseteq
          syncing'.skipped \cup crossed' \cup {m.id : m \in syncing'.items}
    BY <1>1, <1>3, <1>8, <1>9, <1>13
  <2>7. QED
    BY <2>3, <2>4, <2>5, <2>6 DEF SyncFits
<1>15. QED
  BY <1>1, <1>10, <1>11, <1>12, <1>14 DEF HistoryInv

\* The cursor is saved when what it has passed is archived; a sync that dies
\* or a request that is lost leaves the saved cursor where it was.
LEMMA OtherSyncSteps ==
  ASSUME HistoryInv, SaveCursor \/ StopSync \/ \E b \in wire : LoseRequest(b)
  PROVE  HistoryInv'
<1> USE HistoryAssumption
<1>1. /\ syncing \in SyncRow /\ saved \in SavedRow /\ SyncFits
      /\ UNCHANGED <<gateRows, identity, restores, archive, crossed>>
  BY HistoryTypes DEF HistoryInv, SaveCursor, StopSync, LoseRequest
<1>2. RowsFit'
  <2>1. gateRows' = gateRows
    BY <1>1
  <2>2. QED
    BY <2>1, RowsUntouched DEF HistoryInv
<1>3. Idle \in SyncRow /\ Idle.pc = "idle"
  BY DEF Idle, SyncRow
<1>4. CASE SaveCursor
  <2>1. /\ syncing.pc = "save"
        /\ saved' = [cursor |-> syncing.cursor, identity |-> syncing.identity, skipped |-> syncing.skipped]
        /\ wire' = wire
        /\ syncing' = IF syncing.more THEN [syncing EXCEPT !.pc = "read", !.more = FALSE] ELSE Idle
    BY <1>4 DEF SaveCursor
  <2>2. Missing(syncing.cursor) \subseteq syncing.skipped \cup crossed
    BY <1>1, <2>1 DEF SyncFits
  <2>3. /\ syncing' \in SyncRow
        /\ \/ syncing'.pc = "idle"
           \/ /\ syncing'.pc = "read" /\ syncing'.cursor = syncing.cursor
              /\ syncing'.skipped = syncing.skipped
    BY <1>1, <1>3, <2>1 DEF SyncRow
  <2>4. saved' \in SavedRow
    BY <1>1, <2>1 DEF SyncRow, SavedRow
  <2>5. HistoryTypeOK'
    BY <1>1, <2>1, <2>3, <2>4 DEF HistoryInv, HistoryTypeOK, SyncRow, SavedRow
  <2>6. WireFits'
    BY <1>1, <2>1 DEF HistoryInv, WireFits, Ids
  <2>7. Missing(saved.cursor)' = Missing(syncing.cursor)
    <3>1. saved'.cursor = syncing.cursor
      BY <2>1
    <3>2. QED
      BY <1>1, <3>1 DEF Missing, Ids, Shown
  <2>8. syncing'.pc = "read" => Missing(syncing.cursor)' = Missing(syncing.cursor)
    <3>1. ASSUME syncing'.cursor = syncing.cursor
          PROVE  Missing(syncing.cursor)' = Missing(syncing.cursor)
      BY <1>1, <3>1 DEF Missing, Ids, Shown
    <3>2. QED
      BY <2>3, <3>1
  <2>9. SyncFits'
    <3>1. Missing(saved.cursor)' \subseteq saved'.skipped \cup crossed'
      BY <1>1, <2>1, <2>2, <2>7
    <3>2. syncing'.pc = "read" => Missing(syncing.cursor)' \subseteq syncing'.skipped \cup crossed'
      BY <1>1, <2>2, <2>3, <2>8
    <3>3. QED
      BY <2>3, <3>1, <3>2 DEF SyncFits
  <2>10. QED
    BY <1>1, <1>2, <2>5, <2>6, <2>9 DEF HistoryInv
<1>5. CASE StopSync
  <2>1. syncing' = Idle /\ UNCHANGED <<saved, wire>>
    BY <1>5 DEF StopSync
  <2>2. HistoryTypeOK' /\ WireFits'
    BY <1>1, <1>3, <2>1 DEF HistoryInv, HistoryTypeOK, SyncRow, WireFits, Ids
  <2>3. Missing(saved.cursor)' = Missing(saved.cursor)
    BY <1>1, <2>1 DEF Missing, Ids, Shown
  <2>4. SyncFits'
    BY <1>1, <1>3, <2>1, <2>3 DEF SyncFits
  <2>5. QED
    BY <1>1, <1>2, <2>2, <2>4 DEF HistoryInv
<1>6. ASSUME NEW b \in wire, LoseRequest(b) PROVE HistoryInv'
  <2>1. /\ ~(syncing.pc = "sent" /\ syncing.items = b)
        /\ wire' = wire \ {b} /\ UNCHANGED <<saved, syncing>>
    BY <1>6 DEF LoseRequest
  <2>2. HistoryTypeOK' /\ WireFits'
    BY <1>1, <2>1 DEF HistoryInv, HistoryTypeOK, WireFits, Ids
  <2>3. Missing(saved.cursor)' = Missing(saved.cursor) /\ Missing(syncing.cursor)' = Missing(syncing.cursor)
    BY <1>1, <2>1 DEF Missing, Ids, Shown
  <2>4. SyncFits'
    BY <1>1, <2>1, <2>3 DEF SyncFits
  <2>5. QED
    BY <1>1, <1>2, <2>2, <2>4 DEF HistoryInv
<1>7. QED
  BY <1>4, <1>5, <1>6

\* Archiving a batch shows its rows as the database has them, unless a restore
\* gave them up, and takes nothing else that is shown away.
LEMMA ArchiveStep ==
  ASSUME HistoryInv, NEW b \in wire, NEW answered \in BOOLEAN, ImportHistory(b, answered)
  PROVE  HistoryInv'
<1> USE HistoryAssumption
<1>1. /\ archive' = Archived(b) /\ wire' = wire \ {b}
      /\ answered => syncing.pc = "sent" /\ syncing.items = b
      /\ syncing' = IF answered THEN [syncing EXCEPT !.pc = "save", !.items = {}]
                    ELSE IF syncing.pc = "sent" /\ syncing.items = b THEN Idle ELSE syncing
      /\ UNCHANGED <<gateRows, identity, restores, saved, crossed>>
  BY DEF ImportHistory
<1>2. /\ b \subseteq Item
      /\ \A m \in b : /\ m.kind \in Turnlike
                      /\ m.id \notin crossed => m.id \in Ids /\ m.text = gateRows[m.id].text
      /\ syncing \in SyncRow
  BY HistoryTypes DEF HistoryInv, HistoryTypeOK, WireFits
<1> DEFINE ids == {m.id : m \in b}
<1>3. /\ DOMAIN archive' = DOMAIN archive \cup ids
      /\ \A i \in ids : \E m \in b : m.id = i /\ archive'[i] = [text |-> m.text, kind |-> m.kind]
      /\ \A i \in DOMAIN archive \ ids : archive'[i] = archive[i]
  <2>1. DOMAIN archive' = DOMAIN archive \cup ids
    BY <1>1 DEF Archived
  <2>2. ASSUME NEW i \in ids
        PROVE  \E m \in b : m.id = i /\ archive'[i] = [text |-> m.text, kind |-> m.kind]
    <3> DEFINE one == CHOOSE m \in b : m.id = i
    <3>1. \E m \in b : m.id = i
      OBVIOUS
    <3>2. one \in b /\ one.id = i
      BY <3>1
    <3>3. archive'[i] = [text |-> one.text, kind |-> one.kind]
      BY <1>1, <2>1, <3>1 DEF Archived
    <3>4. QED
      BY <3>2, <3>3
  <2>3. ASSUME NEW i \in DOMAIN archive \ ids PROVE archive'[i] = archive[i]
    <3>1. ~\E m \in b : m.id = i
      BY <2>3
    <3>2. QED
      BY <1>1, <2>1, <3>1 DEF Archived
  <2>4. QED
    BY <2>1, <2>2, <2>3
<1> HIDE DEF ids
<1>4. Ids' = Ids
  BY <1>1 DEF Ids
<1>5. /\ DOMAIN archive' \subseteq 1..MaxRows
      /\ \A i \in DOMAIN archive' : archive'[i] \in [text : Speech, kind : MsgKinds]
      /\ \A i \in DOMAIN archive' : archive'[i].kind \in Turnlike
  <2>1. /\ DOMAIN archive \subseteq 1..MaxRows
        /\ \A i \in DOMAIN archive : archive[i] \in [text : Speech, kind : MsgKinds]
        /\ \A i \in DOMAIN archive : archive[i].kind \in Turnlike
    BY DEF HistoryInv, HistoryTypeOK
  <2>2. \A m \in b : m.id \in 1..MaxRows /\ m.text \in Speech /\ m.kind \in MsgKinds
    BY <1>2 DEF Item
  <2>3. DOMAIN archive' \subseteq 1..MaxRows
    BY <1>3, <2>1, <2>2 DEF ids
  <2>4. ASSUME NEW i \in DOMAIN archive'
        PROVE  archive'[i] \in [text : Speech, kind : MsgKinds] /\ archive'[i].kind \in Turnlike
    <3>1. CASE i \in ids
      <4>1. PICK m \in b : archive'[i] = [text |-> m.text, kind |-> m.kind]
        BY <1>3, <3>1
      <4>2. QED
        BY <1>2, <2>2, <4>1
    <3>2. CASE i \notin ids
      BY <1>3, <2>1, <3>2
    <3>3. QED
      BY <3>1, <3>2
  <2>5. QED
    BY <2>3, <2>4
<1>6. /\ syncing' \in SyncRow
      /\ \/ syncing'.pc = "idle"
         \/ /\ answered /\ syncing.pc = "sent" /\ syncing.items = b
            /\ syncing'.pc = "save" /\ syncing'.cursor = syncing.cursor
            /\ syncing'.skipped = syncing.skipped
         \/ syncing' = syncing /\ ~(syncing.pc = "sent" /\ syncing.items = b)
  <2>1. CASE answered
    BY <1>1, <1>2, <2>1 DEF SyncRow
  <2>2. CASE ~answered /\ syncing.pc = "sent" /\ syncing.items = b
    <3>1. syncing' = Idle
      BY <1>1, <2>2
    <3>2. QED
      BY <3>1 DEF Idle, SyncRow
  <2>3. CASE ~answered /\ ~(syncing.pc = "sent" /\ syncing.items = b)
    <3>1. syncing' = syncing
      BY <1>1, <2>3
    <3>2. QED
      BY <1>2, <2>3, <3>1
  <2>4. QED
    BY <2>1, <2>2, <2>3
<1>7. HistoryTypeOK'
  BY <1>1, <1>5, <1>6 DEF HistoryInv, HistoryTypeOK, SyncRow
<1>8. RowsFit' /\ WireFits'
  <2>1. UNCHANGED gateRows
    BY <1>1
  <2>2. RowsFit'
    BY <2>1, RowsUntouched DEF HistoryInv
  <2>3. WireFits'
    BY <1>1, <1>4 DEF HistoryInv, WireFits
  <2>4. QED
    BY <2>2, <2>3
<1>9. ASSUME NEW i \in Ids, i \notin crossed
      PROVE  /\ Shown(i) => Shown(i)'
             /\ i \in ids => Shown(i)'
  <2>1. CASE i \in ids
    <3>1. PICK m \in b : m.id = i /\ archive'[i] = [text |-> m.text, kind |-> m.kind]
      BY <1>3, <2>1
    <3>2. m.text = gateRows[i].text /\ i \in DOMAIN archive'
      BY <1>2, <1>3, <1>9, <2>1, <3>1
    <3>3. QED
      BY <1>1, <3>1, <3>2 DEF Shown
  <2>2. CASE i \notin ids
    BY <1>1, <1>3, <2>2 DEF Shown
  <2>3. QED
    BY <2>1, <2>2
<1>10. /\ Missing(saved.cursor)' \subseteq Missing(saved.cursor) \cup crossed
       /\ syncing'.cursor = syncing.cursor =>
            /\ Missing(syncing.cursor)' \subseteq Missing(syncing.cursor) \cup crossed
            /\ \A i \in Missing(syncing.cursor)' : i \in Ids => i \in crossed \/ i \notin ids
  BY <1>1, <1>4, <1>9 DEF Missing
<1>11. SyncFits'
  <2>1. SyncFits
    BY DEF HistoryInv
  <2>2. Missing(saved.cursor)' \subseteq saved'.skipped \cup crossed'
    BY <1>1, <1>10, <2>1 DEF SyncFits
  <2>3. CASE syncing'.pc = "idle"
    BY <2>2, <2>3 DEF SyncFits
  <2>4. CASE /\ answered /\ syncing.pc = "sent" /\ syncing.items = b
             /\ syncing'.pc = "save" /\ syncing'.cursor = syncing.cursor
             /\ syncing'.skipped = syncing.skipped
    <3>1. Missing(syncing.cursor) \subseteq syncing.skipped \cup crossed \cup ids
      BY <2>1, <2>4 DEF SyncFits, ids
    <3>2. \A i \in ids : i \in crossed \/ i \in Ids
      BY <1>2 DEF ids
    <3>3. Missing(syncing.cursor)' \subseteq syncing'.skipped \cup crossed'
      <4>1. ASSUME NEW i \in Missing(syncing.cursor)', i \notin crossed PROVE i \in syncing.skipped
        <5>1. i \in syncing.skipped \/ i \in ids
          BY <1>10, <2>4, <3>1, <4>1
        <5>2. i \in ids => i \in Ids
          BY <3>2, <4>1
        <5>3. QED
          BY <1>10, <2>4, <4>1, <5>1, <5>2
      <4>2. QED
        BY <1>1, <2>4, <4>1
    <3>4. QED
      BY <2>2, <2>4, <3>3 DEF SyncFits
  <2>5. CASE syncing' = syncing /\ ~(syncing.pc = "sent" /\ syncing.items = b)
    <3>1. Missing(syncing.cursor)' \subseteq Missing(syncing.cursor) \cup crossed
      BY <1>10, <2>5
    <3>2. QED
      BY <1>1, <2>1, <2>2, <2>5, <3>1 DEF SyncFits
  <2>6. QED
    BY <1>6, <2>3, <2>4, <2>5
<1>12. QED
  BY <1>5, <1>7, <1>8, <1>11 DEF HistoryInv

\* What a copy looks like and what the cursors have covered stays so in every
\* step: the rows, the requests, the sync and what is saved keep their types.
THEOREM HistoryInvariant == HistorySpec => []HistoryInv
<1>1. HistoryInv /\ [HistoryNext]_historyVars => HistoryInv'
  <2> SUFFICES ASSUME HistoryInv, [HistoryNext]_historyVars PROVE HistoryInv'
    OBVIOUS
  <2>1. CASE UNCHANGED historyVars
    <3>1. UNCHANGED <<gateRows, identity, restores, saved, syncing, wire, archive, crossed>>
      BY <2>1 DEF historyVars
    <3>2. HistoryTypeOK' /\ \A i \in DOMAIN archive' : archive'[i].kind \in Turnlike
      BY <3>1 DEF HistoryInv, HistoryTypeOK
    <3>3. RowsFit'
      <4>1. gateRows' = gateRows
        BY <3>1
      <4>2. QED
        BY <4>1, RowsUntouched DEF HistoryInv
    <3>4. WireFits'
      BY <3>1 DEF HistoryInv, WireFits, Ids
    <3>5. Missing(saved.cursor)' = Missing(saved.cursor) /\ Missing(syncing.cursor)' = Missing(syncing.cursor)
      BY <3>1 DEF Missing, Ids, Shown
    <3>6. SyncFits'
      BY <3>1, <3>5 DEF HistoryInv, SyncFits
    <3>7. QED
      BY <3>2, <3>3, <3>4, <3>6 DEF HistoryInv
  <2>2. QED
    BY <2>1, GateSteps, RestoreStep, StartStep, ReadStepFits, OtherSyncSteps, ArchiveStep
       DEF HistoryNext
<1>2. QED
  BY <1>1, HistoryInvInit, PTL DEF HistorySpec

\* Whatever is lost, late, repeated or restored, in a file of the same inode
\* or of another, the archive holds no copy that the database tells from a turn
\* and misses no turn behind the saved cursor but those that a restore let the
\* cursor or a request overtake, for every size of a batch.
THEOREM ArchivesAreFaithful == HistorySpec => []ArchiveIsFaithful
<1>1. HistoryInv => ArchiveIsFaithful
  <2> SUFFICES ASSUME HistoryInv PROVE ArchiveIsFaithful
    OBVIOUS
  <2>1. /\ \A i \in Ids : i \in Nat /\ i >= 1
        /\ saved.cursor \in Nat
    BY HistoryTypes DEF HistoryInv
  <2>2. ASSUME NEW i \in Ids, i <= saved.cursor, i \notin saved.skipped \cup crossed,
               gateRows[i].kind = "turn", gateRows[i].state # "rewound"
        PROVE  Shown(i)
    <3>1. i \notin Missing(saved.cursor)
      BY <2>2 DEF HistoryInv, SyncFits
    <3>2. i \in 1..saved.cursor
      BY <2>1, <2>2
    <3>3. QED
      BY <2>2, <3>1, <3>2 DEF Missing
  <2>3. QED
    BY <2>2 DEF HistoryInv, ArchiveIsFaithful
<1>2. QED
  BY <1>1, HistoryInvariant, PTL

-----------------------------------------------------------------------------
(* The components together: what TLC explores one part of at a time *)

\* A behaviour of the composition is one of each component: the steps of the
\* others leave its variables alone.
THEOREM EdgesImplement ==
  EdgesSpec => /\ ActionsSpec /\ HistorySpec /\ FilesSpec /\ ImagesSpec
               /\ AccessSpec /\ StreamSpec /\ KeepersSpec /\ ApprovalsSpec
<1>1. EdgesSpec => ActionsSpec
  <2>1. EdgesInit => ActionsInit
    BY DEF EdgesInit
  <2>2. [EdgesNext]_allVars => [ActionsNext]_actionVars
    BY DEF EdgesNext, Only, allVars, partVars
  <2>3. QED
    BY <2>1, <2>2, PTL DEF EdgesSpec, ActionsSpec
<1>2. EdgesSpec => HistorySpec
  <2>1. EdgesInit => HistoryInit
    BY DEF EdgesInit
  <2>2. [EdgesNext]_allVars => [HistoryNext]_historyVars
    BY DEF EdgesNext, Only, allVars, partVars
  <2>3. QED
    BY <2>1, <2>2, PTL DEF EdgesSpec, HistorySpec
<1>3. EdgesSpec => FilesSpec
  <2>1. EdgesInit => FilesInit
    BY DEF EdgesInit
  <2>2. [EdgesNext]_allVars => [FilesNext]_filesVars
    BY DEF EdgesNext, Only, allVars, partVars
  <2>3. QED
    BY <2>1, <2>2, PTL DEF EdgesSpec, FilesSpec
<1>4. EdgesSpec => ImagesSpec
  <2>1. EdgesInit => ImagesInit
    BY DEF EdgesInit
  <2>2. [EdgesNext]_allVars => [ImagesNext]_imageVars
    BY DEF EdgesNext, Only, allVars, partVars
  <2>3. QED
    BY <2>1, <2>2, PTL DEF EdgesSpec, ImagesSpec
<1>5. EdgesSpec => AccessSpec
  <2>1. EdgesInit => AccessInit
    BY DEF EdgesInit
  <2>2. [EdgesNext]_allVars => [AccessNext]_accessVars
    BY DEF EdgesNext, Only, allVars, partVars
  <2>3. QED
    BY <2>1, <2>2, PTL DEF EdgesSpec, AccessSpec
<1>6. EdgesSpec => StreamSpec
  <2>1. EdgesInit => StreamInit
    BY DEF EdgesInit
  <2>2. [EdgesNext]_allVars => [StreamNext]_streamVars
    BY DEF EdgesNext, Only, allVars, partVars
  <2>3. QED
    BY <2>1, <2>2, PTL DEF EdgesSpec, StreamSpec
<1>7. EdgesSpec => KeepersSpec
  <2>1. EdgesInit => KeepersInit
    BY DEF EdgesInit
  <2>2. [EdgesNext]_allVars => [KeepersNext]_keeperVars
    BY DEF EdgesNext, Only, allVars, partVars
  <2>3. QED
    BY <2>1, <2>2, PTL DEF EdgesSpec, KeepersSpec
<1>8. EdgesSpec => ApprovalsSpec
  <2>1. EdgesInit => ApprovalsInit
    BY DEF EdgesInit
  <2>2. [EdgesNext]_allVars => [ApprovalsNext]_approvalVars
    BY DEF EdgesNext, Only, allVars, partVars
  <2>3. QED
    BY <2>1, <2>2, PTL DEF EdgesSpec, ApprovalsSpec
<1>9. QED
  BY <1>1, <1>2, <1>3, <1>4, <1>5, <1>6, <1>7, <1>8

\* Every variable keeps its type, in all components together: this joins the
\* type invariants of the components, each of which rests on its invariant.
THEOREM EdgesTyped == EdgesSpec => []TypesOK
<1>1. ActionsSpec => []ActionsTypeOK
  BY ActionsTyped
<1>2. FilesSpec => []FilesTypeOK
  <2>1. FilesInv => FilesTypeOK
    BY DEF FilesInv
  <2>2. QED
    BY <2>1, FilesInvariant, PTL
<1>3. ImagesSpec => []ImagesTypeOK
  <2>1. ImagesInv => ImagesTypeOK
    BY DEF ImagesInv
  <2>2. QED
    BY <2>1, ImagesInvariant, PTL
<1>4. AccessSpec => []AccessTypeOK
  <2>1. AccessInv => AccessTypeOK
    BY DEF AccessInv
  <2>2. QED
    BY <2>1, AccessInvariant, PTL
<1>5. StreamSpec => []StreamTypeOK
  <2>1. StreamInv => StreamTypeOK
    BY DEF StreamInv
  <2>2. QED
    BY <2>1, StreamInvariant, PTL
<1>6. KeepersSpec => []KeepersTypeOK
  <2>1. KeepersInv => KeepersTypeOK
    BY DEF KeepersInv
  <2>2. QED
    BY <2>1, KeepersInvariant, PTL
<1>7. ApprovalsSpec => []ApprovalsTypeOK
  <2>1. ApprovalsInv => ApprovalsTypeOK
    BY DEF ApprovalsInv
  <2>2. QED
    BY <2>1, ApprovalsInvariant, PTL
<1>8. HistorySpec => []HistoryTypeOK
  <2>1. HistoryInv => HistoryTypeOK
    BY DEF HistoryInv
  <2>2. QED
    BY <2>1, HistoryInvariant, PTL
<1>9. /\ ActionsTypeOK /\ HistoryTypeOK /\ FilesTypeOK /\ ImagesTypeOK
      /\ AccessTypeOK /\ StreamTypeOK /\ KeepersTypeOK /\ ApprovalsTypeOK
      => TypesOK
  BY DEF TypesOK
<1>10. QED
  BY <1>1, <1>2, <1>3, <1>4, <1>5, <1>6, <1>7, <1>8, <1>9, EdgesImplement, PTL
=============================================================================
