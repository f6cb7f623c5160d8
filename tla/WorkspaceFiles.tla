--------------------------- MODULE WorkspaceFiles ---------------------------
(***************************************************************************)
(* The files of one bot: each is a file in its workspace and a row of the  *)
(* files table, written one after the other by uploads (main.py), by the   *)
(* files_write tool (scoped_tools.py) and by generated images              *)
(* (codex_images.py).  These handlers do not await between their steps and *)
(* images get fresh names, so that one handler is at work at a time.  Any  *)
(* step may fail, the steps that clean up after a failure too; the bot's   *)
(* own shell works on the same directory meanwhile, and the process dies   *)
(* between any two steps.                                                  *)
(***************************************************************************)
EXTENDS Naturals, FiniteSets

CONSTANTS Path,         \* relative paths
          Blob,         \* contents of files
          MaxShell      \* bound: what the shell does while nothing is settled

ASSUME FilesAssumption == MaxShell \in Nat

VARIABLES
  disk,       \* path to content of the file there, Absent for none
  fileRows,   \* path to the content (sha256, size) its row describes
  saver,      \* the handler at work
  shellSteps, \* bound: steps of the shell
  foreign,    \* history: paths the shell changed
  lapses      \* history: how often, up to two, a handler left disk and table
              \* of a path to themselves (a failed clean-up, a failed row, a
              \* death); both since disk and table were last without the path

filesVars == <<disk, fileRows, saver, shellSteps, foreign, lapses>>

Absent  == "absent"
NoSaver == [pc |-> "idle", path |-> Absent, blob |-> Absent]
Exists(p) == disk[p] # Absent

FilesTypeOK ==
  /\ disk \in [Path -> Blob \cup {Absent}] /\ fileRows \in [Path -> Blob \cup {Absent}]
  /\ saver \in [pc : {"idle", "write", "replace", "register", "undo", "unlink", "forget"},
                path : Path \cup {Absent}, blob : Blob \cup {Absent}]
  /\ shellSteps \in 0..MaxShell /\ foreign \subseteq Path
  /\ lapses \in [Path -> 0..2]

FilesInit ==
  /\ disk = [p \in Path |-> Absent] /\ fileRows = [p \in Path |-> Absent]
  /\ saver = NoSaver /\ shellSteps = 0
  /\ foreign = {} /\ lapses = [p \in Path |-> 0]

\* What was done to a path is over when, after the step, neither side knows of
\* it and no handler works on it.
Marks(f, l) ==
  LET over == {p \in Path : disk'[p] = Absent /\ fileRows'[p] = Absent /\ p # saver'.path} IN
  /\ foreign' = f \ over
  /\ lapses'  = [p \in Path |-> IF p \in over THEN 0 ELSE l[p]]
Lapse == [lapses EXCEPT ![saver.path] = IF @ < 2 THEN @ + 1 ELSE 2]

At(label) == saver' = [saver EXCEPT !.pc = label]

-----------------------------------------------------------------------------
(* Saving *)

\* A handler starts unless something exists at the path.
BeginSave(p, b) ==
  /\ saver.pc = "idle" /\ ~Exists(p)
  /\ saver' = [pc |-> "write", path |-> p, blob |-> b]
  /\ UNCHANGED <<disk, fileRows, shellSteps>>
  /\ Marks(foreign, lapses)

\* save_stream fills a temporary file and looks at the destination again.
\* Too much, an error or a file there gives up.
WriteTemp(ok) ==
  /\ saver.pc = "write" /\ (ok => ~Exists(saver.path))
  /\ IF ok THEN At("replace") ELSE saver' = NoSaver
  /\ UNCHANGED <<disk, fileRows, shellSteps>>
  /\ Marks(foreign, lapses)

\* os.replace
Replace(ok) ==
  /\ saver.pc = "replace"
  /\ disk' = IF ok THEN [disk EXCEPT ![saver.path] = saver.blob] ELSE disk
  /\ IF ok THEN At("register") ELSE saver' = NoSaver
  /\ UNCHANGED <<fileRows, shellSteps>>
  /\ Marks(foreign, lapses)

\* create_file: a row of the path (UNIQUE), a missing bot or an error refuses.
Register(ok) ==
  /\ saver.pc = "register"
  /\ ok => fileRows[saver.path] = Absent
  /\ fileRows' = IF ok THEN [fileRows EXCEPT ![saver.path] = saver.blob] ELSE fileRows
  /\ IF ok THEN saver' = NoSaver ELSE At("undo")
  /\ UNCHANGED <<disk, shellSteps>>
  /\ Marks(foreign, lapses)

\* The row is written, but reading it back fails: the handler takes it for
\* refused.
RegisterUnseen ==
  /\ saver.pc = "register" /\ fileRows[saver.path] = Absent
  /\ fileRows' = [fileRows EXCEPT ![saver.path] = saver.blob]
  /\ At("undo")
  /\ UNCHANGED <<disk, shellSteps>>
  /\ Marks(foreign, Lapse)

\* Mutant: a file that could not be registered stays.
UndoNothing(ok) ==
  /\ saver.pc = "undo" /\ saver' = NoSaver
  /\ UNCHANGED <<disk, fileRows, shellSteps>>
  /\ Marks(foreign, lapses)

\* The file that could not be registered is removed; that it cannot is
\* swallowed or reported, and the file stays.
UndoReplace(ok) ==
  /\ saver.pc = "undo"
  /\ disk' = IF ok THEN [disk EXCEPT ![saver.path] = Absent] ELSE disk
  /\ saver' = NoSaver
  /\ UNCHANGED <<fileRows, shellSteps>>
  /\ Marks(foreign, IF ok THEN lapses ELSE Lapse)

-----------------------------------------------------------------------------
(* Deleting *)

BeginDelete(p) ==
  /\ saver.pc = "idle" /\ fileRows[p] # Absent
  /\ saver' = [pc |-> "unlink", path |-> p, blob |-> Absent]
  /\ UNCHANGED <<disk, fileRows, shellSteps>>
  /\ Marks(foreign, lapses)

\* The file goes first; if it cannot, its row stays.
Unlink(ok) ==
  /\ saver.pc = "unlink"
  /\ disk' = IF ok THEN [disk EXCEPT ![saver.path] = Absent] ELSE disk
  /\ IF ok THEN At("forget") ELSE saver' = NoSaver
  /\ UNCHANGED <<fileRows, shellSteps>>
  /\ Marks(foreign, lapses)

\* store.delete_file; when it fails, the row outlives the file.
ForgetFile(ok) ==
  /\ saver.pc = "forget"
  /\ fileRows' = IF ok THEN [fileRows EXCEPT ![saver.path] = Absent] ELSE fileRows
  /\ saver' = NoSaver
  /\ UNCHANGED <<disk, shellSteps>>
  /\ Marks(foreign, IF ok THEN lapses ELSE Lapse)

-----------------------------------------------------------------------------
\* The bot's shell writes or removes a file.
Shell(p, b) ==
  /\ shellSteps < MaxShell /\ b # disk[p]
  /\ disk' = [disk EXCEPT ![p] = b]
  /\ shellSteps' = shellSteps + 1
  /\ UNCHANGED <<fileRows, saver>>
  /\ Marks(foreign \cup {p}, lapses)

\* The process dies in a handler: nothing cleans up after it.
DieInHandler ==
  /\ saver.pc # "idle"
  /\ saver' = NoSaver
  /\ UNCHANGED <<disk, fileRows, shellSteps>>
  /\ Marks(foreign, IF saver.pc \in {"register", "undo", "forget"} THEN Lapse ELSE lapses)

FilesNext ==
  \/ \E p \in Path, b \in Blob : BeginSave(p, b)
  \/ \E ok \in BOOLEAN : \/ WriteTemp(ok) \/ Replace(ok) \/ Register(ok) \/ UndoReplace(ok)
                         \/ Unlink(ok) \/ ForgetFile(ok)
  \/ RegisterUnseen
  \/ \E p \in Path : BeginDelete(p)
  \/ \E p \in Path, b \in Blob \cup {Absent} : Shell(p, b)
  \/ DieInHandler

FilesSpec == FilesInit /\ [][FilesNext]_filesVars

-----------------------------------------------------------------------------
\* Disk and table agree after so many lapses: with one of them a side may be
\* without the file, with two nothing is known.
Agree(n, d, r) ==
  /\ n = 0 => d = r
  /\ n = 1 => d = r \/ d = Absent \/ r = Absent

\* Between handlers, disk and table agree on every path that only handlers
\* have touched, whatever a handler refused or undid on the way.  One clean-up
\* that failed leaves a file without a row or a row without a file, never a
\* row that describes another file, however often the path is uploaded and
\* deleted afterwards; and a deletion that succeeds makes the path as new
\* (main.py upload_file and delete_file, codex_images.py, scoped_tools.py).
FilesMatchRows ==
  saver.pc = "idle" => \A p \in Path \ foreign : Agree(lapses[p], disk[p], fileRows[p])
=============================================================================
