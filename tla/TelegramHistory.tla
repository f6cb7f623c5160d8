-------------------------- MODULE TelegramHistory --------------------------
(***************************************************************************)
(* The owner's Telegram conversation, copied into Bot Mode: sync.py reads  *)
(* the gateway's database in batches behind a cursor, telegram_bridge.py   *)
(* archives a batch.  The gateway (external: the rows are what sync.py     *)
(* reads and its tests write) adds turns, rewinds them, compacts its       *)
(* context, that is, marks its rows, writes a marker and copies a row that *)
(* it retains, and its database may be restored from a backup at any time, *)
(* in a file that is known by the same inode, by a new one or by one that  *)
(* is given out again.  Requests and answers are lost, late and repeated,  *)
(* and a sync dies at any point.                                           *)
(***************************************************************************)
EXTENDS Naturals, Sequences, FiniteSets

CONSTANTS Speech,      \* texts of turns
          Batch,       \* rows of a batch
          MaxRows,     \* bound: rows of the gateway's database
          MaxRestores, \* bound: restored backups
          MaxLost,     \* bound: rows that a backup lacks
          MaxWire      \* bound: requests on their way at one time

ASSUME HistoryAssumption ==
  Batch \in Nat \ {0} /\ MaxRows \in Nat /\ MaxRestores \in Nat /\ MaxLost \in Nat /\ MaxWire \in Nat

VARIABLES
  gateRows,  \* the gateway's messages in id order
  identity,  \* database_identity: the device and inode of their file
  restores,  \* restored backups
  saved,     \* the checkpoint file: a cursor and the identity it is for
  syncing,   \* the running sync (sync.lock admits one): where it is, the
             \* identity it found, the batch it read and the cursor after it
  wire,      \* history/import requests that the backend may yet receive
  archive,   \* telegram_history_sources: source id to the archived message
  crossed    \* ids that were on their way when a restore gave them up

\* saved and syncing also remember, in skipped, which ids their cursor had
\* passed when a restore gave them up or brought their rows back.
historyVars == <<gateRows, identity, restores, saved, syncing, wire, archive, crossed>>

Ids       == 1..Len(gateRows)
\* A recopy keeps the time of a later row with an earlier text, or is a copy of
\* one that does: nothing in the database tells it from a turn.
MsgKinds  == {"turn", "marker", "copy", "recopy"}
Turnlike  == {"turn", "recopy"}
Item      == [id : 1..MaxRows, text : Speech, kind : MsgKinds]
Idle      == [pc |-> "idle", cursor |-> 0, identity |-> 0, items |-> {}, more |-> FALSE,
              skipped |-> {}]

HistoryTypeOK ==
  /\ gateRows \in Seq([text : Speech, kind : MsgKinds, time : 1..MaxRows,
                   state : {"active", "compacted", "rewound"}])
  /\ Len(gateRows) <= MaxRows
  /\ identity \in 0..MaxRestores /\ restores \in 0..MaxRestores
  /\ saved \in [cursor : 0..MaxRows, identity : 0..MaxRestores, skipped : SUBSET (1..MaxRows)]
  /\ syncing \in [pc : {"idle", "read", "sent", "save"}, cursor : 0..MaxRows,
                 identity : 0..MaxRestores, items : SUBSET Item, more : BOOLEAN,
                 skipped : SUBSET (1..MaxRows)]
  /\ \A b \in wire : b \subseteq Item
  /\ DOMAIN archive \subseteq 1..MaxRows
  /\ \A i \in DOMAIN archive : archive[i] \in [text : Speech, kind : MsgKinds]
  /\ crossed \subseteq 1..MaxRows

HistoryInit ==
  /\ gateRows = <<>> /\ identity = 0 /\ restores = 0
  /\ saved = [cursor |-> 0, identity |-> 0, skipped |-> {}]
  /\ syncing = Idle /\ wire = {} /\ archive = <<>> /\ crossed = {}

-----------------------------------------------------------------------------
(* The gateway's database *)

Row(x, k, t) == [text |-> x, kind |-> k, time |-> t, state |-> "active"]

Turn(x) ==
  /\ Len(gateRows) < MaxRows
  /\ gateRows' = Append(gateRows, Row(x, "turn", Len(gateRows) + 1))
  /\ UNCHANGED <<identity, restores, saved, syncing, wire, archive, crossed>>

Rewind(i) ==
  /\ gateRows[i].state = "active" /\ gateRows[i].kind = "turn"
  /\ \A j \in Ids : j > i => gateRows[j].state # "active"
  /\ gateRows' = [gateRows EXCEPT ![i].state = "rewound"]
  /\ UNCHANGED <<identity, restores, saved, syncing, wire, archive, crossed>>

\* The first row with the text of row i, of those a query may return
IsFirst(i) ==
  \A j \in Ids : /\ gateRows[j].text = gateRows[i].text
                 /\ gateRows[j].kind # "marker" /\ gateRows[j].state # "rewound" => j >= i

\* A copy keeps the time of its row, or is as old as the marker.
CopyKind(i, keeps) ==
  IF ~keeps THEN "copy"
  ELSE IF gateRows[i].kind # "turn" THEN gateRows[i].kind
  ELSE IF IsFirst(i) THEN "copy" ELSE "recopy"

\* One transaction of the gateway; i = 0: no row is retained.
Compact(i, keeps) ==
  LET now    == Len(gateRows) + 1
      seen   == [j \in Ids |-> IF gateRows[j].state = "active"
                                 THEN [gateRows[j] EXCEPT !.state = "compacted"] ELSE gateRows[j]]
      marker == Row(gateRows[1].text, "marker", now)
      copy   == Row(gateRows[i].text, CopyKind(i, keeps),
                    IF keeps THEN gateRows[i].time ELSE now)
  IN /\ gateRows # <<>>
     /\ i # 0 => gateRows[i].state = "active" /\ gateRows[i].kind # "marker"
     /\ gateRows' = seen \o IF i = 0 THEN <<marker>> ELSE <<marker, copy>>
     /\ Len(gateRows') <= MaxRows
     /\ UNCHANGED <<identity, restores, saved, syncing, wire, archive, crossed>>

\* No compaction of the first n rows has taken row i in.
Uncompacted(i, n) == \A k \in Ids : i < k /\ k <= n => gateRows[k].kind # "marker"

\* The ids up to a cursor that a restore gives up or whose rows it brings back
Overtaken(cursor, n, back) == {i \in 1..cursor : i > n \/ i \in back}

\* A backup of when there were n rows, with the rows in back not yet rewound
\* and what was compacted later active; its further ids are given out again.
Restore(n, back, who) ==
  /\ restores < MaxRestores /\ restores' = restores + 1
  /\ n # Len(gateRows) \/ back # {}
  /\ Len(gateRows) <= n + MaxLost
  /\ n # Len(gateRows) => gateRows[n + 1].kind \notin {"copy", "recopy"}
  /\ \A i \in back : i <= n /\ gateRows[i].state = "rewound" /\ Uncompacted(i, n)
  /\ gateRows' = [i \in 1..n |->
       IF i \in back \/ (gateRows[i].state = "compacted" /\ Uncompacted(i, n))
         THEN [gateRows[i] EXCEPT !.state = "active"] ELSE gateRows[i]]
  /\ identity' = who
  /\ saved' = [saved EXCEPT !.skipped = @ \cup Overtaken(saved.cursor, n, back)]
  /\ syncing' = [syncing EXCEPT !.skipped = @ \cup Overtaken(syncing.cursor, n, back)]
  /\ crossed' = crossed \cup {i \in Ids : i > n /\ \E b \in wire : \E m \in b : m.id = i}
  /\ UNCHANGED <<wire, archive>>

-----------------------------------------------------------------------------
(* sync.py *)

\* The compacted rows with the role and the content of row i
Originals(i) ==
  {j \in 1..(i - 1) : gateRows[j].state = "compacted" /\ gateRows[j].kind # "marker"
                      /\ gateRows[j].text = gateRows[i].text}

\* Mutant: a repeated text is taken for a copy.
ExcludedByText(i) == gateRows[i].kind = "marker" \/ Originals(i) # {}

\* history_exclusion: a marker, or a row that repeats a compacted one and has
\* its time or that of a marker before it
Excluded(i) ==
  \/ gateRows[i].kind = "marker"
  \/ /\ Originals(i) # {}
     /\ \/ \E first \in Originals(i) :
             /\ \A j \in Originals(i) : first <= j
             /\ gateRows[first].time = gateRows[i].time
        \/ \E k \in 1..(i - 1) : gateRows[k].kind = "marker" /\ gateRows[k].time = gateRows[i].time

\* The ids that the query of read_history_batch returns after a cursor
Fetched(cursor) ==
  LET all == {i \in Ids : i > cursor /\ gateRows[i].state # "rewound"}
  IN {i \in all : Cardinality({j \in all : j <= i}) <= Batch}

\* Mutant: the cursor of another database is used.
OldCursor == saved.cursor

\* The cursor that sync_history starts from
StartCursor == IF saved.identity = identity THEN saved.cursor ELSE 0

StartSync ==
  /\ syncing.pc = "idle"
  /\ syncing' = [Idle EXCEPT !.pc = "read", !.cursor = StartCursor, !.identity = identity,
                             !.skipped = IF saved.identity = identity THEN saved.skipped ELSE {}]
  /\ UNCHANGED <<gateRows, identity, restores, saved, wire, archive, crossed>>

\* read_history_batch opens the file that is there now, and takes the rows up
\* to one: large ones fill a batch early.
ReadBatch(last) ==
  LET got   == Fetched(syncing.cursor)
      taken == {i \in got : i <= last /\ ~Excluded(i)}
      items == {[id |-> i, text |-> gateRows[i].text, kind |-> gateRows[i].kind] : i \in taken}
  IN /\ syncing.pc = "read"
     /\ last \in got \/ (got = {} /\ last = syncing.cursor)
     /\ syncing' = [syncing EXCEPT !.pc = IF items = {} THEN "save" ELSE "sent",
                                   !.items = items,
                                   !.cursor = last,
                                   !.more = Cardinality(got) = Batch \/ \E i \in got : i > last]
     /\ wire' = IF items = {} THEN wire ELSE wire \cup {items}
     /\ Cardinality(wire') <= MaxWire
     /\ UNCHANGED <<gateRows, identity, restores, saved, archive, crossed>>

\* atomic_write of the cursor, once the backend has answered
SaveCursor ==
  /\ syncing.pc = "save"
  /\ saved' = [cursor |-> syncing.cursor, identity |-> syncing.identity,
               skipped |-> syncing.skipped]
  /\ syncing' = IF syncing.more
                  THEN [syncing EXCEPT !.pc = "read", !.more = FALSE]
                  ELSE Idle
  /\ UNCHANGED <<gateRows, identity, restores, wire, archive, crossed>>

\* The request fails, its answer is lost or the process dies; what it sent may
\* still arrive.
StopSync ==
  /\ syncing.pc # "idle" /\ syncing' = Idle
  /\ UNCHANGED <<gateRows, identity, restores, saved, wire, archive, crossed>>

LoseRequest(b) ==
  /\ b \in wire /\ ~(syncing.pc = "sent" /\ syncing.items = b)
  /\ wire' = wire \ {b}
  /\ UNCHANGED <<gateRows, identity, restores, saved, syncing, archive, crossed>>

-----------------------------------------------------------------------------
(* telegram_bridge.py *)

\* What import_history leaves of one batch: a row for each id, the last digest
Archived(b) ==
  [i \in DOMAIN archive \cup {m.id : m \in b} |->
     IF \E m \in b : m.id = i
       THEN LET m == CHOOSE m \in b : m.id = i IN [text |-> m.text, kind |-> m.kind]
       ELSE archive[i]]

\* The whole batch is one transaction; its answer reaches the sync that waits.
ImportHistory(b, answered) ==
  /\ b \in wire
  /\ archive' = Archived(b)
  /\ wire' = wire \ {b}
  /\ answered => syncing.pc = "sent" /\ syncing.items = b
  /\ syncing' = IF answered THEN [syncing EXCEPT !.pc = "save", !.items = {}]
                ELSE IF syncing.pc = "sent" /\ syncing.items = b THEN Idle ELSE syncing
  /\ UNCHANGED <<gateRows, identity, restores, saved, crossed>>

HistoryNext ==
  \/ \E x \in Speech : Turn(x)
  \/ \E i \in Ids : Rewind(i)
  \/ \E i \in 0..Len(gateRows), keeps \in BOOLEAN : Compact(i, keeps)
  \/ \E n \in 0..Len(gateRows), back \in SUBSET Ids, who \in 0..MaxRestores : Restore(n, back, who)
  \/ StartSync \/ SaveCursor \/ StopSync
  \/ \E last \in 0..MaxRows : ReadBatch(last)
  \/ \E b \in wire : LoseRequest(b) \/ \E answered \in BOOLEAN : ImportHistory(b, answered)

HistorySpec == HistoryInit /\ [][HistoryNext]_historyVars

-----------------------------------------------------------------------------
\* The archive shows row i with the text it has.
Shown(i) == i \in DOMAIN archive /\ archive[i].text = gateRows[i].text

\* Whatever is lost, late, repeated or restored, the archive holds no marker
\* and no copy that the database tells from a turn; and it shows every turn
\* that the saved cursor has passed, but for ids that were given out again, or
\* rows brought back, behind that cursor by a restore or with a request still
\* on its way (sync_history, history_exclusion, import_history).
ArchiveIsFaithful ==
  /\ \A i \in DOMAIN archive : archive[i].kind \in Turnlike
  /\ \A i \in Ids : /\ i <= saved.cursor /\ i \notin saved.skipped \cup crossed
                    /\ gateRows[i].kind = "turn" /\ gateRows[i].state # "rewound"
       => Shown(i)

\* Not so: the archive holds no copy at all.  A copy that keeps the time of a
\* later row with an earlier text passes for a turn (history_exclusion looks
\* at the first compacted row with the text only).
NoCopyArchived == \A i \in DOMAIN archive : archive[i].kind = "turn"

\* Not so: what the cursor of this database has passed is shown.  A backup
\* restored in place keeps the inode, and ids behind the cursor are given out
\* again (sync_history compares st_dev and st_ino only).
CursorIsExact ==
  saved.identity = identity =>
    \A i \in Ids : i <= saved.cursor /\ gateRows[i].kind = "turn" /\ gateRows[i].state # "rewound"
      => Shown(i)
=============================================================================
