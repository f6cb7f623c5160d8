# Bot Mode: TLA+ specifications

Bot Mode gives a household's chat service personal bots: a FastAPI backend
(`backend/app`) with a SQLite store, a Codex app-server that runs the bots'
turns, a supervisor of private desktops in containers (`desktop`), and a bridge
to a Telegram gateway (`integration`). This directory specifies the parts whose
correctness rests on interleavings, crashes and partial failures, checks them
with TLC on small instances, and proves their safety with TLAPS.

## The system

Everything in the backend runs on one asyncio event loop in one process: code
between two `await`s is atomic with respect to other coroutines, and what can
separate two SQLite transactions is another coroutine (at an `await`) or the
death of the process. The supervisor is a second process built the same way; it
talks to docker through subprocesses that may fail, time out or be abandoned.

| Component | State | Operations | Interacts with |
| --- | --- | --- | --- |
| Task manager (`tasks.py`) | task rows, event log, `_handles`, `_cancel_requested` | submit, run, cancel, cancel_request, start, close | store, runtime, messenger, learned procedures, desktops |
| Desktop pool (`lifecycle.py`, `supervisor.py`, `vnc_server.py`) | records, leases, generations, state file, locks; containers | wake, status, stop, control, heartbeat, heartbeat_task, release_task, action, reap, reconcile | docker; called by the desktop manager and viewers over HTTP |
| Desktop manager (`desktops.py`) | cached generations, ports, keepers | create, stop, action, control, release_task, viewer proxy | desktop pool; task manager releases leases |
| Codex runtime (`codex_runtime.py`) | context locks, two semaphores, active turns, queues, approvals, thread table | run_turn, cancel, respond_approval, compact, close | app-server over JSON-RPC; scoped tools |
| Scoped tools (`scoped_tools.py`) | lineage table | delegate_task, colleague_result, files, memory, computer, skills_save | messenger, task manager, desktops |
| Messenger (`messenger.py`) | homes, aliases, groups, members, grants, message requests | send, delegate, create/update group, grant/revoke files, mark_read | store |
| Learned procedures (`learned_skills.py`) | revisions per name: pending, ready, superseded, discarded | propose, finalize_task, change, list | task rows |
| Routines (`routines.py`) | routines, occurrences, next due time | save, archive, run, tick | messenger, task manager |
| Connector actions (`extension_service.py`, `private_fields.py`) | chat requests, sign-in links, private fields and their claims | propose_action, decide, submit_private, continue_request, link, callback, disconnect | a connection provider over HTTP |
| Memory and its synchronisation (`store.py`, `telegram_bridge.py`, `hermes_bridge/sync.py`) | memory entries, supersession links, digests | create, update, delete, sync_memory | files of the gateway |
| History archive (`telegram_bridge.py`, `hermes_bridge/sync.py`) | archived source ids; the cursor file | sync_history, import_history | the gateway's database, over HTTP |
| Authentication (`auth.py`) | nonces, sessions | create_nonce, exchange, get_session, revoke | HTTP routes |
| Workspace files (`workspace.py`, `main.py`, `scoped_tools.py`, `codex_images.py`) | files on disk, the files table | upload, files_write, persisted images, delete | the bot's shell in the same directory |
| Image generation (`image_generation.py`) | one job per call, child tasks of its waits | generate, cancel | an image provider over HTTP |
| Event stream (`main.py`, `taskStream.ts`) | cursors of the stream and of the browser | task_events_stream, watchTask | the event log |
| Approvals (`codex_runtime.py`, `main.py`, `store.py`) | held requests, approval rows | list, decide | app-server, task workers |

The remaining parts (teachings, history search, voice, configuration, the
installers in `integration`, the rest of the web client) are listed with reasons
in `PROJECT.json`.

What makes each of them correct:

* Tasks: one end per task, told the same by row, event log, transcript and
  learned procedures; a cancelled request stops as a whole; every task ends.
* Desktops: capacity is respected; a bot acts only while it owns the desktop;
  generations are never reused; takeovers fail closed; every request returns.
* Runtime: at most one turn per conversation and bot; capacity is given back;
  no scoped action starts after a cancellation; an approval that can be decided
  belongs to a turn, and a recorded decision was sent.
* Messenger: a retried message creates nothing new; who may read a file is who
  was granted it; delegated work stays within its request.
* Procedures: at most one ready revision of a name; failed work teaches nothing.
* Routines: one request per occurrence, no overlap, none lost by a restart.
* Connector actions: dispatched at most once, exactly as reviewed.
* Memory: corrections never hide a chain altogether; one active version of a
  synchronised document.
* History archive: every turn once, no marker and no copy that can be told from a
  turn, also after the gateway's database was restored from a backup.
* Authentication: a link signs in once; a session lives as long as it is used.
* Files: disk and table agree on whatever only the handlers touched.
* Images: a call that ends leaves no request running, and no stray image while
  its clean-up works.
* Event stream: the browser sees every event once, in order, and one end.

## Modules

| Module | Models |
| --- | --- |
| `TaskContract` | the promise of the task table: what any reader of `tasks` may rely on |
| `TaskLifecycle` | `TaskManager` over the store: workers, cancellation, delegation, shutdown, crash, recovery |
| `TaskLifecycleProofs` | theorems about `TaskLifecycle` |
| `MCTaskLifecycle` | symmetry for TLC |
| `DesktopPool` | `DesktopPool` of `lifecycle.py` under `supervisor.py`: requests, locks, docker, state file, crashes |
| `MCDesktopPool` | symmetry for TLC |
| `DesktopPoolProofs` | theorems about `DesktopPool` |
| `OnceOnly` | the promise of claimed work: the effect happens once, under its claim |
| `LearnedSkills` | the revisions of procedures (`learned_skills.py`) |
| `LearnedSkillsProofs` | theorems about `LearnedSkills` |
| `Routines` | one routine: claims, requests, the tick, pauses, restarts (`routines.py`) |
| `RoutinesProofs` | theorems about `Routines` |
| `RuntimeTurns` | `run_turn`, `cancel`, `compact`, the reader (`codex_runtime.py`) |
| `RuntimeTurnsProofs` | theorems about `RuntimeTurns` |
| `Groups` | a group conversation: members, coordinator, file grants, sends, helpers (`messenger.py`) |
| `Homes` | the direct conversations of a bot: home, aliases, read mark, paging (`messenger.py`, `store.py`) |
| `Memory` | memory entries and imported snapshots (`store.py`, `telegram_bridge.py`) |
| `MCServices` | `LearnedSkills` to `Memory` for TLC |
| `ServicesProofs` | theorems about `Groups`, `Homes`, `Memory` and `MCServices` |
| `ConnectorActions` | reviewed actions and private fields (`extension_service.py`, `private_fields.py`) |
| `ConnectorActionsProofs` | theorems about `ConnectorActions` |
| `TelegramHistory` | the history archive (`sync.py`, `telegram_bridge.py`) |
| `WorkspaceFiles` | files on disk and in the table |
| `ImageJobs` | one image call and its ways to end (`image_generation.py`) |
| `AccessSessions` | links and sessions (`auth.py`) |
| `TaskStream` | the event stream and its reader (`main.py`, `taskStream.ts`) |
| `DesktopKeepers` | the backend's use of a desktop (`desktops.py`) |
| `Approvals` | approvals of the app-server |
| `MCEdges` | `ConnectorActions` to `Approvals` for TLC |
| `EdgesProofs` | theorems about `TelegramHistory` to `Approvals` and `MCEdges` |

### TaskLifecycle

`status`, `parent`, `request`, `events`, `replies`, `relayed` and `skill` are
rows in SQLite and survive a crash; `pc`, `outcome`, `text`, `thrown`, `turn`,
`flagged` and `canc` are the coroutines and the memory of the process. `pc[t]`
says where the worker `_run` of task `t` is:

* `scheduled`: `submit` has created the asyncio task, which has not run yet;
* `starting`: the row is running, the worker awaits `runtime.start()`;
* `streaming`: inside `async for event in runner`;
* `reply`, `finish`, `skills`, `event`, `relay`: the transactions of the settling
  code, in the order of the branch that `outcome` names. The settling code has
  no `await`, so while a worker is at one of these labels (`Settling`) no other
  coroutine moves, but `Crash` may come between any two of them;
* `releasing`: the `finally` of `_run`, which awaits `desktop.release_task`.

`thrown[t]` is a `handle.cancel()` that was not delivered yet. `Thrown` delivers
it: a coroutine that never ran is dropped without its `finally`, a worker with
its flag set settles as cancelled, and one without (a shutdown) leaves its row
to recovery. `turn` holds the tasks whose runtime turn still accepts tool calls;
it may outlive the streaming of its worker. A cancellation call goes through
`CancelTree` (one immediate transaction over the lineage), `CancelFinalize`
(before the call first yields), `InterruptAll`, `Interrupted` for each task,
and `CancelReturn`. Recovery is two steps because a crash can separate the
transaction that fails rows from the one that discards procedures.

### TaskContract

The contract has only the rows: a request creates tasks at one instant
(`Ask`), a top-level active task hands work to a colleague (`Help`), a task runs
and ends once, a cancellation stops a whole request at one instant and a restart
fails everything in flight at one instant. `ImplementsContract` says that
TaskLifecycle, with its many workers, calls and crashes, does nothing else.

### DesktopPool

A request is a process `p` with a label `pc[p]`; each action is the code between
two points where it yields: the allocation lock, a desktop lock, a docker
command. `inspect` and the code that uses its answer are one action, since the
desktop lock is held and only the container itself can change meanwhile.
`asyncio.Lock` is modelled as it works: `release` frees the lock and wakes the
first waiter, which takes it later (`Handover`); nobody barges in between, but
`locked()` is false. `rec` and `disk` are the records in memory and in the state
file: every action that calls `save` writes both. `running` and `vnc` are
docker's side: which containers run, and whether their VNC server is view-only
(`bot`) or interactive (`manual`). A docker command may fail before or after its
effect; a supervisor crash keeps `disk`, `running` and `vnc`, and `Load`,
`Reconcile` and `Serve` are the next start.

Time is abstracted. A lease may have expired, a desktop may have been idle long
enough and a deadline may have passed whenever the code looks; every schedule of
the real clock is among these.

### LearnedSkills

`revisions[n]` are the rows of a name in order of revision, `outcome` the status
of the tasks that wrote them, `due` the ended tasks whose `finalize_task` is still
to run: it is volatile, since a crash or a storage error before the finalization
leaves proposals pending for ever. Proposals, finalizations in any order, the
user's switch and deletions are actions.

### Routines and OnceOnly

A run of an occurrence is three transactions and a call (claim, send, update,
submit); `run` says which comes next, and a crash or a storage error may come
before each. `tick` is the scheduler's loop over what was left claimed, what is
due and what is skipped. `Working` is the join that admits a run: it takes what
is claimed and what has a live task on record, and overlooks the task of an
occurrence that was given up after its request had been sent, because a skipped
row names no task. Such a task is queued without a worker until the next start
fails it; the overlap that the specification speaks of is of claims and of tasks
that have a worker (`AtWork`). Due instants are an ordered sequence: calendar
arithmetic is left out. `OnceOnly` is the abstract specification of a claimed
piece of work; `RoutinesImplementOnce` and `ActionsImplementOnce` say that
occurrences and connector actions implement it under the mappings in their
modules.

### RuntimeTurns and Approvals

`pc[t]` is where the generator of a turn is: waiting for the lock of its
conversation, for a slot, for the thread, for the answer to `turn/start`,
streaming, or in its `finally`. `server`, `tool` and `compacting` are the
app-server's side, `inbox` the queue, `cancel` and `thrown` the two ways a turn is
stopped. With `Slow = FALSE` the app-server answers interrupts and `turn/start`
within the client's five seconds and carries out an interrupt before it answers a
later request of the thread; with `Slow = TRUE` it does neither.

`Approvals` has the approvals of turns that do not share a thread: requests held
by the runtime, events on their way to the worker, rows, and the two waits of a
decision (write lock, drain). The app-server may die and be started again by
another turn in any of them, and the backend may die with it.

### Groups, Homes and Memory

Every method of the messenger and of the store is one transaction, so these three
are about sequences of legal calls rather than interleavings. `Groups` has the
tables of one group, the user's edits, archived bots, deleted and revoked files,
repeated client requests and the helpers of responders. `Homes` has the
conversations that older builds made of one bot, the home all lookups go through,
read marks of several devices and a client that pages backwards while messages
arrive, several in a second. In the home of the chief, `import_history` of the
Telegram bridge inserts messages with the times they had and edits those it has
imported, their times included. A page starts before wherever its cursor message
is by then, so the client may miss what was imported or edited while it read
(`reader.late`), and an edit may move its cursor back past messages it then never
asks for (`reader.adrift`). `Memory` has the entries with their supersession
links and the snapshots of one imported document. Imports are told by their
source, which any request may set. `meddled` records that somebody corrected or
relinked an import or deleted a hidden one (`"linked"`), or made or unmade one by
its source (`"posed"`): the cases in which `OneImport` is not promised.

### ConnectorActions

`stage[a]` is where an approval is: preflight, claim, a reserved set of private
fields, a provider session, dispatch, settlement. Every awaited call may fail, be
cancelled or outlive the process; the provider's key may be replaced at any time.
Every transaction of an approval that has claimed may fail in storage, those of
the `except` handler too: if the handler cannot write how the approval ended, the
request stays `executing` with its fields reserved until the next start
(`unsettled`), and if it cannot settle the fields they stay reserved.
`sent` and `spent` are what the provider has seen of requests and of one-time
field values.

### TelegramHistory

The gateway's database (external) gets turns, is rewound, and compacts its
context: it marks its rows, writes a marker and copies a row it retains, with the
time of the row or of the marker. A copy with the time of a later row of an
earlier text is a `recopy`: `history_exclusion` looks at the first row of a text
only, and nothing in the database tells such a copy from a turn. A sync reads
batches behind its checkpoint, posts them and saves the cursor; requests and
answers are lost, late and repeated.

`Restore` puts a backup in place at any time, while a sync runs and requests are
on their way: the last rows are gone and their ids are given out again, rewound
rows are back, and the file has any identity, the same one included, since
`sync.py` knows it by device and inode. `skipped` remembers with each cursor, and
`crossed` for the requests on their way, which ids a restore has overtaken; the
archive may lack or misrepresent these and no others.

### WorkspaceFiles, ImageJobs, AccessSessions, TaskStream, DesktopKeepers

`WorkspaceFiles` has the handlers that write a file and its row one after the
other, the bot's shell in the same directory and the death of the process between
any two steps. Any step may fail: the unlink that undoes a save, whose error is
swallowed or reported, the row that outlives its file, a row that is written but
cannot be read back and is taken for refused. `foreign` marks the paths the shell
has touched, `lapses` counts the clean-ups of a path that did not happen; both
are settled when disk and table are without the path again.
`ImageJobs` is one call of `KieImageGenerator.generate`: each of its waits is a
child task that meets the cancel event, the hook, the total timeout and a
cancellation of the caller. A host name is looked up in a thread that nobody can
stop: `straggler` is one that outlives the call. Saving, registering and removing
the image are steps that may fail each. (No route constructs this generator at this commit;
images come from the app-server through `persist_codex_image`.) `AccessSessions`
separates the reading of the clock from the transaction, as the code does, so
requests may reach the database in another order; the clock does not go back.
`TaskStream` has the server's page of events, the transport and the browser's
cursor and attempts. `DesktopKeepers` has overlapping `computer_start` calls of a
turn, the keepers they make and replace, abandoned requests that reach the
supervisor late, and `release_task`.

## Runs

| Run | Instance | Shows |
| --- | --- | --- |
| `task_cancel` | 2 tasks, 2 cancellations at once, 1 request | type and inductive invariant; row, log, transcript and procedures tell one end (`ResultsAgree`); ended tasks stay as they ended |
| `task_tree` | 3 tasks, 1 child per task, 1 cancellation | a cancelled request has no active task; no task without a worker; refinement of `TaskContract` |
| `task_live` | 2 tasks, 1 cancellation, fairness | every task ends; every cancellation returns |
| `task_restart_event` | 2 tasks | finding: terminal rows without a terminal event |
| `task_lost_relay` | 2 tasks | finding: a colleague's answer that is never relayed |
| `desktop_capacity` | 2 desktops, capacity 1, 2 requests | no more containers run than the capacity |
| `desktop_ownership` | 1 desktop, 3 requests, 1 task, 1 viewer | actions are owned; ownership changes revoke old generations, also over a crash |
| `desktop_live` | 1 desktop, 2 requests, fairness | every request is answered |
| `desktop_viewonly` | 1 desktop, 1 request | finding: a bot acts while viewers can type |
| `services` | each part of `MCServices` | procedures: the newest completed revision is recalled, none is lost to failed work; routines: only the current revision sends, one request per occurrence, no overlap; turns: nothing outlives its turn; groups, homes and memory stay whole |
| `services_live` | routines; a turn and its helper | every claim is settled; every turn that is entered ends |
| `edges` | each part of `MCEdges` | connector actions: once, as reviewed, honest about what may have happened; archive, files, images, sessions, event stream, desktop leases and approvals survive loss, delay, repetition, cancellation and death |

`MCServices` and `MCEdges` check components that share no state. A variable
`part` is chosen in the initial state and only that component moves, so a run
explores the sum of the components and not their product; since no action of one
reads a variable of another, nothing is lost by it (`ServicesImplement` and
`EdgesImplement` prove that the compositions do what each component's
specification allows). The pairs of components that
do interact are joined inside a module (workers, rows, procedures and runtime in
`TaskLifecycle`; rows, stream and browser in `TaskStream`; keepers and leases in
`DesktopKeepers`; fields and actions in `ConnectorActions`).

Deadlock is checked only in the task runs: the bounded components stop when a
bound is reached, and an idle pool has nothing to do. `RequestsFinish`,
`TurnsEnd` and `ClaimsSettle` rule out the deadlocks that matter.

Bounds and why they suffice:

* Two tasks are a parent and a child, or two bots asked at once; three are a
  parent, a child and a bystander of the same request, or two roots and a child.
  Tasks interact only through lineage, the request and the event loop.
* One request: requests share nothing but the loop (tasks of another request are
  in no tree of this one; `TaskLifecycleProofs` covers any number).
* Two cancellations exercise the second call that finds flags and handles of the
  first. `MaxChildren = 1` makes the limit bite; the code's limit only counts.
* A log holds at most one partial and one terminal event per task in any
  reachable state, so the state space is finite without a bound on `events`, and
  the number of crashes and restarts is unbounded.
* Two desktops and room for one is the smallest instance in which allocation
  must choose; a reap that sweeps one desktop for a request that wants another
  happens there. Three requests on one desktop are a holder, a waiter and a
  newcomer, which the lock's release-then-resume window needs.
* `MaxGen` stops new requests and crashes when a generation has passed it;
  every kind of ownership change happens below it.
* Procedures: one name with three revisions by two tasks is the smallest case in
  which an old proposal ends between two newer ones. Names do not interact.
* Routines: two due instants and two manual runs of one routine, with two faults
  and two edits, are a run that meets a scheduled one, a repeated click and a
  crash in the resumption of a crash. `MaxPauses` bounds the user's pauses.
* Turns: two turns of one conversation on one thread in `services`; in
  `services_live` a coordinator and its helper compete for slots. A third turn
  would only wait for the second.
* Groups: three bots are a coordinator, a member and a newcomer; the upper limit
  of six members does not bite. One letter may be repeated any number of times.
* Homes: two conversations, two messages, two seconds, two rows of an import and
  pages of one are the ties, the late alias and the moved cursor that paging has
  to survive; the theorem is for any number.
* Memory: three rows, in two scopes, are two imports of which one is uncovered
  and a third that must replace it, or a cycle of corrections. The
  counterexample of `Services_memory.cfg` has four.
* Connector actions: two requests and two approvals race for one one-time field
  under two keys, with one restart. Requests, approvals and keys are symmetric.
* History: three rows are a turn, a marker and a copy of it, in batches of two,
  with one request on its way and one restore, at any moment, of a backup that
  lacks at most one row. Larger instances were simulated; the theorem is for any.
* Files: two paths and contents, two steps of the shell between settled states.
* Images: two polls and two redirects pass through every wait more than once.
* Sessions: two links, two sessions, a life of three ticks renewed every second
  one, and two requests that wait for the database.
* Stream: four events in pages of two with two failed attempts.
* Keepers: two overlapping calls, three keepers (one being replaced by each
  call), two stray requests, two generations.
* Approvals: two turns, one approval, two decisions of it, and one restart of the
  app-server.

Fairness. The ready queue of an asyncio loop is first in, first out, so a
coroutine that can run does run: workers and cancellation calls are strongly
fair because settling code of others disables them again and again, requests of
the pool weakly fair. A runtime turn ends because `run_turn` gives up 1800
seconds after its last event and because we take it that a turn does not emit
events for ever: `Receive` (one more event) is outside the fair actions. Every
docker command has a timeout. A wake has a deadline, which is why `GiveUp` is
strongly fair; the service manager restarts both processes. Nobody is obliged to
send, cancel, shut down, crash or let a container die.

`Routines` has weak fairness of the steps of a run and of a tick in progress (no
`await` between them) and strong fairness of the start of a tick, which the
scheduler's loop does again and again but a crash disables; the user stops
pausing and faults are bounded, as `MaxPauses = 0` and `MaxFaults` say.
`RuntimeTurns` has weak fairness of turns, cancellations and compactions, of the
app-server's start and end of a turn (the client's timeouts stand behind both),
and of the end of a tool call that does not wait for a helper's turn: one that
does ends only when the helper's turn has, which is what `TurnsEnd` is about.
The other components have no liveness claim.

## Findings

1. `task_restart_event`: `main.py:614` says event rows are committed before the
   terminal status. Recovery (`store.py:744`) writes a terminal row and no event:
   `Send`, `Crash`, `MarkRestarted` is enough. The stream ends without an end.
2. `task_lost_relay`: `scoped_tools.py:670` promises that a colleague's result
   appears in the originating chat automatically. A crash between the completed
   row (`tasks.py:520`) and the relay (`tasks.py:530`) loses it for good.
3. `desktop_viewonly`: `lifecycle.py:67` says input policy changes complete
   before any new bot action and fail closed. A pause of a desktop under manual
   control whose `docker stop` fails has already put `control_mode` back to `bot`
   without `needs_quiesce`; the container runs on with an interactive VNC server,
   and the next wake grants a task lease on it.

### Behaviours seen and not listed as findings

These configurations are kept beside the runs. Each one reproduces something that
the code does against a comment or an expectation, in a rarer case than those above.

| Configuration | Module | Property that fails | What happens |
| --- | --- | --- | --- |
| `DesktopPool_busy.cfg` | `MCDesktopPool` | `AllocationSkipsBusyDesktops` | `locked()` is false between the release of a lock and the resumption of its waiter; the reap of an allocation queues behind that waiter with the allocation lock (`lifecycle.py:134`) |
| `Routines_paused.cfg` | `Routines` | `OccurrencesNeverOverlap` | a claim is given up while the bot is paused, another run starts, and a repeated click revives the first (`routines.py:134`) |
| `RuntimeTurns_slow.cfg` | `RuntimeTurns` | `CancelledTurnIsQuiet` | an interrupt that is carried out late leaves a turn whose tool calls are served under the next turn of the thread (`codex_runtime.py:233`) |
| `Routines_skipped.cfg` | `Routines` | `SkippedLeaveNothing` | a storage error after `send`, an edit and a tick give up an occurrence whose request was sent: its task stays queued, with no worker and no occurrence that names it (`routines.py:164`), and a manual run is admitted beside it (`routines.py:142`) |
| `Services_memory.cfg` | `MCServices` | `NoContradiction` | an import hidden by a chat correction while the next one looks for it comes back when the correction is deleted (`telegram_bridge.py:159`) |
| `Edges_history.cfg` | `MCEdges` | `NoCopyArchived` | `history_exclusion` compares a copy with the first compacted row of its text only: a repeated text may be archived as a turn again (`sync.py:72`) |
| `Edges_restored.cfg` | `MCEdges` | `CursorIsExact` | a backup restored in place keeps its inode, so the saved cursor stays: turns that get ids behind it are never archived (`sync.py:132`) |
| `Edges_keepers.cfg` | `MCEdges` | `KeepersAreRegistered` | two `computer_start` calls that overlap while a keeper is replaced leave a keeper that `release_task` cannot find; its heartbeats are refused once the lease is released (`desktops.py:82`) |
| `Edges_approvals.cfg` | `MCEdges` | `DecidedStaysDecided` | list, decide, and only then the worker reads the approval's event: the row is pending again (`store.py:917`) |

Read in the code and modelled as it is, without a property: two decisions of one
approval can both be sent, the row keeps the last and the app-server acts on the
first; a decision that waits for the write lock may go to a later process of the
app-server; approval rows of an ended turn stay pending. A client that pages back
while a backfill of the Telegram history arrives misses what was imported behind
it. An action whose outcome could not be written stays `executing` until the next
start. A crash between
`os.replace` and `create_file`, or an unlink that fails after it, leaves a file that blocks its path and that no
route removes. A file of a revoked coordinator stays revoked when it is attached
again. A group message whose active members are all archived is committed and then
raises `IndexError`. The browser's attempts are never reset.

## Proofs

Every invariant of a passing run, and every action property and refinement, is
the property of a theorem. They hold for every value of the constants that
satisfies the named `ASSUME` of the module: any number of tasks, desktops,
requests, bots, rows, and any value of the bounds that the configurations fix.
A proof never needs a bound to be small.

| Module | Theorems |
| --- | --- |
| `TaskLifecycleProofs` | `TypeCorrect`, `InvariantHolds` (`IInv`), `CancellationStops` (`RequestStopped`), `ResultsAreFinal` (`TerminalIsFinal`), `NothingIsStranded` (`NoStrandedTask`), `RecordsAgree` (`ResultsAgree`), `Refinement` (`ImplementsContract`) |
| `DesktopPoolProofs` | `Typed`, `PoolInvariant`, `Capacious` (`CapacityRespected`), `OwnedActions` (`ActionsAreOwned`), `FreshOwnership` (`OwnershipIsFresh`) |
| `ConnectorActionsProofs` | `ActionsTyped`, `ActionsInvariant`, `Honest` (`StatusIsHonest`), `Reviewed` (`DispatchedAsReviewed`), `Safe` (`FieldsAreSafe`), `ImplementsOnce` (`ActionsImplementOnce`) |
| `LearnedSkillsProofs` | `SkillsInvariant`, `Newest` (`NewestWins`), `WorkingKept` (`WorkingProcedureKept`) |
| `RoutinesProofs` | `RoutinesInvariant`, `NeverOverlap` (`NoOverlap`), `CurrentSends` (`OnlyCurrentSends`), `RoutinesImplementOnceOnly` (`RoutinesImplementOnce`) |
| `RuntimeTurnsProofs` | `TurnsTypeCorrect`; with `~Slow`: `TurnsInvariant`, `NothingIsOrphaned` (`NoOrphan`) |
| `ServicesProofs` | `GroupsInvariant`, `GroupsAreWhole` (`GroupIsWhole`), `ScopesHold` (`WithinScope`), `MemoryInvariant`, `FactsAlwaysSurface` (`FactsSurface`), `ImportsAgree` (`OneImport`), `HomesInvariant`, `HistoriesAreWhole` (`HistoryIsWhole`), `ServicesImplement`, `ServicesTyped` (`TypesOK`) |
| `EdgesProofs` | `CallsLeaveNothing` (`CallLeavesNothing`), `FilesAgree` (`FilesMatchRows`), `SessionsFollow` (`SessionsFollowUse`), `ApprovalsFollow` (`ApprovalsFollowTurns`), `LeasesStayReleased` (`LeaseStaysReleased`), `WatchesAreExact` (`WatchIsExact`), `ArchivesAreFaithful` (`ArchiveIsFaithful`), `EdgesImplement`, `EdgesTyped` (`TypesOK`) |

Two theorems have a hypothesis on a constant: `TurnsInvariant` and
`NothingIsOrphaned` are about an app-server that answers within the client's
timeouts (`~Slow`); with a slow one the property is false
(`RuntimeTurns_slow.cfg`). Other properties name their exceptions inside:
`NoOverlap` the user's pauses (`Routines_paused.cfg`), `OneImport` meddling with
imports (`Services_memory.cfg`), `HistoryIsWhole` what was imported while the
client read, `FilesMatchRows` the clean-ups that failed, `ArchiveIsFaithful` the
ids that a restore has overtaken (`Edges_restored.cfg`).

### Tasks

`RequestStopped` and `TerminalIsFinal` are not inductive. `Finish` writes
`completed` without looking at the row, so that nothing is overwritten depends on
what a worker at `finish` can be: `WorkerFitsRow` relates the label and branch of
a worker to its row and says that a running worker whose row was cancelled still
has its flag, which `Settles` then finds. That the flag is still there depends on
`CancelReturn` dropping flags of finished workers only. `RequestStopped` needs
that a cancellation's tree is the whole request: `LineageSound` (delegation is
one level deep and stays in its request) gives the lemma `TreeIsRequest`, and
`CallsSound` that the request of a call has a root, so that no new message can
reopen it. `IInv` is their conjunction.

The argument for the steps goes through the contract: `StepImplements` shows that
under the invariant every step is a contract step or leaves the rows alone, and
the lemmas `RowLineage`, `RowKeeps`, `RowStaysStopped` and `RowFinal` say what a
contract step preserves, so each row property is argued on six small actions
instead of twenty-seven.

`NoStrandedTask` needs `AttendedInv`: while the process serves, a task with an
active row has a worker and an exception is thrown only into a worker whose row
has ended; and a cancelling call names tasks of its own request only
(`TargetsSound`), all of which its first transaction has ended. `ResultsAgree` needs `ResultsFit`, which also says
what is written before the row is: a reply that was saved for a running task is
that of its worker's branch, which has only the row left to settle or died with
the process; a worker on its way to the terminal event has logged none yet; a
task never has both a partial and a final reply.

### Desktops

`PoolInv` says which locks a request holds at which label and with which
arguments (`Well`, `HoldsLocks`), that the policy of a desktop is settled before
a request goes on, and that an action's task owns the desktop (`Sound`); that
nobody is served while the supervisor starts (`AloneAtBoot`); that whoever starts
a container has room for it (`Room`, by the allocation lock); and `Generations`: no
generation that was granted is newer than the one in the state file, and a
restart outdates all of them before it serves. The last is why ownership is fresh
over a crash between the grant and its answer: the file is written first.

### Connector actions, procedures, routines

`ActionsInv` ties an approval to the rows it owns: one owner per request
(`OwnersApart`), what the stage of the owner says of status, dispatch and key
(`OwnersPlace`), at most one dispatch (`SentOnce`), what the status says without
an owner, which is `executing` only if nobody could write better (`StatusTold`),
and for the fields who claimed them, how long they are
held, that a one-time value is spent at most once and under a claim, and that
they are reserved or locked by their request while the outcome is unknown,
whichever of its transactions failed (`FieldsClaimed`, `FieldsHeld`,
`FieldsSpent`, `FieldsLocked`). `OnceOnly` follows step by step.

`NewestWins` is inductive with the types: a finalization compares with all
revisions of the name, so no knowledge of who is still to finalize is needed.

`RoutinesInv` says that an occurrence has at most one chat and that claims fit
chats (`Chats`), that the checks that admitted a run hold until it is recorded
(`RunStands`, because a run has no `await`), that what a tick has still to resume
is claimed (`TickStands`), that only a submitted occurrence has a worker
(`Served`), and that without pauses a refused occurrence stays refused
(`RefusedForGood`); this is what a pause breaks.

### Turns

`TurnsInv` has what the runtime, the app-server and the tools know of a turn at
each label (`TurnSound`), how far a cancellation is (`CancelSound`), that events
heard on a thread are its turn's own (`EventsOwn`), that a conversation's lock
has one holder (`LocksHeld`), and that a thread belongs to one conversation and
is quiet when a turn or a compaction takes it (`ThreadsApart`, `ThreadsQuiet`).
Types need no such knowledge but a count: no more threads are opened than there
are tasks that began one (`ThreadsCounted`), slow or not.

### Smaller components

Groups: members, roles and the conversation's bot agree, and a group that does
not exist has nothing. Memory: corrections lead downwards in some order of the
entries (`Ranked`: not by number, since an update may make an older entry
correct a newer one), and the imports that are kept form one chain unless somebody
meddled with them (`ImportsChain`). Homes: nothing is from the future (`Paced`)
and a reader that is not adrift holds what it has passed, late messages aside,
although imports are stored between those it has (`ReaderHolds`).

Images: the child is where the call thinks it is, a late request is of a child
made before, and file and row are what the steps of storing have left
(`ChildFits`, `OneLate`, `ImageFits`). Files: the row of a path, its file, the
step of the handler that has them apart and the lapses before it (`PathsAgree`). Sessions: `LinksUsedOnce`
and `RenewalFollows`. Approvals: a decision past its lock has been sent
(`PostsSound`). Keepers: a worker past its turn has no call left. The event stream:
page, pipe and browser hold consecutive runs of the log that follow one another
(`FeedFits`, `PipeFits`, `ShownFits`), and a log has one end (`LastOnce`). The
archive: what a copy looks like in the database, which a restore must not disturb
(`RowsFit`: it takes back what was compacted later, and gives up whole
compactions), requests that hold rows as the database has them but for ids a
restore has crossed (`WireFits`), and cursors that have passed only what is
archived, in the batch the sync waits for, or overtaken (`SyncFits`, by
`Missing`).

`ServicesImplement` and `EdgesImplement` say that the compositions explored by
TLC imply the specification of each component: every step is a step of one and
leaves the variables of the others alone. Every theorem about a component thus
holds of the composition, and with them `TypesOK` (`ServicesTyped`, `EdgesTyped`).

Before their proofs, the strengthened invariants were checked with TLC where the
instance says something: `ActionsInv` with two requests, approvals, fields and
keys and a restart (7.1 million states), `RoutinesInv` (162 thousand),
`AttendedInv` and `ResultsFit` (321 and 915 thousand), `HistoryInv` with three
rows and a restore (502 thousand) and by simulation with six rows and two, and
`StreamInv`.

### What is only model-checked

* The liveness properties `EveryTaskEnds`, `CancelReturns`, `RequestsFinish`,
  `ClaimsSettle` and `TurnsEnd`: fairness and ENABLED are out of the prover's
  reach.
* The findings and the configurations beside the runs: they are counterexamples.
* `MCTaskLifecycle` and `MCDesktopPool` add symmetry and nothing to prove.

Induction over data is out of reach as well. What the code computes by walking a
chain or a log (`Chain` of `Memory`, `ReadEvents` of `TaskStream`, the batches of
`TelegramHistory`) is therefore defined by sets and comprehensions whose elements
the proofs can speak about.

## Not modelled, and why

* In `TaskLifecycle` a SQLite call either commits or the process dies; storage
  errors that the code survives are modelled in `Routines`, `LearnedSkills`,
  `WorkspaceFiles`, `ImageJobs` and, for the transactions of an approval that has
  claimed its request, `ConnectorActions` only.
* Temporary files of `save_stream` that stay behind when their removal fails or
  the process dies: their names are random and nothing looks at them.
* A clock of the gateway that is ahead of the backend's: imported messages would
  be from the future (`Homes`).
* Backups of the gateway's database that hold anything but what it once held: a
  restored one is a truncation of the present rows, with later rewinds and
  compactions taken back. A database that a restore brings back after other rows
  had taken its ids is not considered.
* Times of interrupts and lookups: an interrupt that hangs is ended by the
  timeouts of the runtime, and `Interrupted` of `TaskLifecycle` is fair for that.
* A transport that cuts a stream short and looks like its clean end: `TaskStream`
  takes every cut for an error. (If the task ended between such a cut and the
  browser's question, the browser would miss the last events.)
* Threads of one conversation in `Approvals`: an approval asked for by an
  interrupted turn after the next one began would be listed under the latter.
* Providers, the app-server, docker, the gateway and the bot's shell, beyond what
  the code in `src` assumes of them.
* A docker daemon that starts or stops a container after its client was killed
  and its request failed; an operation inside a container that outlives a
  supervisor crash.
* Values of time, sizes, texts, attachments and images.
* The components marked `not_modelled` in `PROJECT.json`.

## Plan

Done: the modules above, their runs, and the safety of all of them proved. What
is left:

1. Proofs: a `NoOverlap` that holds with pauses (only an occurrence that a
   pause gave up and a click revived may meet another one), and the parts of
   `NoOrphan` that hold with a slow app-server.
2. Refinement: an abstract specification of leases that `DesktopPool` and
   `DesktopKeepers` share, and one of a turn that `TaskLifecycle` assumes and
   `RuntimeTurns` implements.
3. To model, if the system grows there: teachings, the parts of the runtime that
   bridge accounts, and the pins and inbox of the messenger.
