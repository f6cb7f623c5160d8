------------------------------- MODULE Memory -------------------------------
(***************************************************************************)
(* The memory entries of store.py, corrected, relinked and deleted by      *)
(* users and bots, and the snapshots of one document of the Telegram       *)
(* gateway that telegram_bridge.py imports among them.  What the gateway   *)
(* sends is any content at any time: requests and answers are lost, late   *)
(* and repeated, and the document changes in between.                      *)
(***************************************************************************)
EXTENDS Naturals, Sequences, FiniteSets

CONSTANTS Visibility,  \* visibility scopes: shared and each bot's private one
          Shared,     \* the shared one
          Snapshot,   \* contents of the document that are not empty
          MaxEntries  \* bound: rows of memory_entries

ASSUME MemoryAssumption == Shared \in Visibility /\ MaxEntries \in Nat

VARIABLES
  entries,    \* memory_entries in id order
  digest,     \* telegram_memory_sources.digest, as the content it stands for
  imported,   \* telegram_memory_sources.memory_id, 0 for none
  meddled     \* history, what was done to imports: "linked" if somebody
              \* corrected or relinked one or deleted one that is not shown,
              \* "posed" if the source that tells an import was set or changed

memoryVars == <<entries, digest, imported, meddled>>

Empty   == "empty"
NoDigest == "none"
Entries == 1..Len(entries)

MemoryTypeOK ==
  /\ entries \in Seq([scope : Visibility, by : {"chat", "file"}, fixes : 0..MaxEntries,
                      deleted : BOOLEAN])
  /\ Len(entries) <= MaxEntries
  /\ digest \in Snapshot \cup {Empty, NoDigest}
  /\ imported \in 0..Len(entries) /\ meddled \subseteq {"linked", "posed"}

MemoryInit ==
  /\ entries = <<>> /\ digest = NoDigest /\ imported = 0 /\ meddled = {}

-----------------------------------------------------------------------------
Kept(i) == ~entries[i].deleted

\* The kept corrections of an entry, in its own scope
Corrections(i) ==
  {j \in Entries : entries[j].fixes = i /\ Kept(j) /\ entries[j].scope = entries[i].scope}

\* _active_memory_clause: what lists, searches, imports and exports take
Current(i) == Kept(i) /\ Corrections(i) = {}

\* The shared entries with the source telegram-file:<document>
Imports == {i \in Entries : entries[i].by = "file" /\ entries[i].scope = Shared}

\* The entries that _validate_memory_replacement walks through from i: those
\* in every set that holds i and, with an entry, what that one corrects
Chain(i) ==
  {j \in Entries : \A W \in SUBSET Entries :
     i \in W /\ (\A k \in W : entries[k].fixes \in W \cup {0}) => j \in W}

\* Mutant: the walk does not know the entry that is being changed.
MayFixAny(m, i, s) == i # 0 => Kept(i) /\ \A j \in Chain(i) : entries[j].scope = s

\* _validate_memory_replacement for entry m (0: a new one) of scope s
MayFix(m, i, s) ==
  i # 0 => Kept(i) /\ \A j \in Chain(i) : j # m /\ entries[j].scope = s

\* What a change that may concern imports adds to meddled
Meddling(links) ==
  (IF links THEN {"linked"} ELSE {}) \cup (IF Imports' # Imports THEN {"posed"} ELSE {})

Entry(s, who, i) == [scope |-> s, by |-> who, fixes |-> i, deleted |-> FALSE]

\* The source of an entry is whatever the request names.
CreateMemory(s, who, i) ==
  /\ Len(entries) < MaxEntries
  /\ MayFix(0, i, s)
  /\ entries' = Append(entries, Entry(s, who, i))
  /\ meddled' = meddled \cup Meddling(i \in Imports)
  /\ UNCHANGED <<digest, imported>>

\* A patch of anything but supersedes_id and source changes nothing that
\* matters here; the replacement is validated when it is named.
UpdateMemory(m, who, i) ==
  /\ Kept(m) /\ <<who, i>> # <<entries[m].by, entries[m].fixes>>
  /\ i # entries[m].fixes => MayFix(m, i, entries[m].scope)
  /\ entries' = [entries EXCEPT ![m].by = who, ![m].fixes = i]
  /\ meddled' = meddled \cup Meddling({m, i} \cap Imports # {})
  /\ UNCHANGED <<digest, imported>>

\* An entry is deleted by its id, shown or not.
DeleteMemory(m) ==
  /\ Kept(m)
  /\ entries' = [entries EXCEPT ![m].deleted = TRUE]
  /\ meddled' = meddled \cup Meddling(m \in Imports /\ ~Current(m))
  /\ UNCHANGED <<digest, imported>>

-----------------------------------------------------------------------------
\* Mutant: a snapshot corrects the last import only if that is still there.
ReplacedLast == IF imported # 0 /\ Kept(imported) THEN imported ELSE 0

\* What a new snapshot corrects: the last import or, if that was deleted, the
\* newest import that is shown again.
Replaced ==
  IF imported # 0 /\ Kept(imported) THEN imported
  ELSE LET shown == {i \in Imports : Current(i)}
       IN IF shown = {} THEN 0 ELSE CHOOSE i \in shown : \A j \in shown : j <= i

\* sync_memory of a snapshot x that is not the one imported last
ImportSnapshot(x) ==
  /\ x \in Snapshot \ {digest} /\ Len(entries) < MaxEntries
  /\ entries' = Append(entries, Entry(Shared, "file", Replaced))
  /\ digest' = x /\ imported' = Len(entries')
  /\ UNCHANGED meddled

\* sync_memory of an empty document retires all its imports.
RetireDocument ==
  /\ digest # Empty
  /\ entries' = [i \in Entries |-> [entries[i] EXCEPT !.deleted = @ \/ i \in Imports]]
  /\ digest' = Empty /\ imported' = 0
  /\ UNCHANGED meddled

MemoryNext ==
  \/ \E who \in {"chat", "file"}, i \in Entries \cup {0} :
       \/ \E s \in Visibility : CreateMemory(s, who, i)
       \/ \E m \in Entries : UpdateMemory(m, who, i)
  \/ \E m \in Entries : DeleteMemory(m)
  \/ \E x \in Snapshot : ImportSnapshot(x)
  \/ RetireDocument

MemorySpec == MemoryInit /\ [][MemoryNext]_memoryVars

-----------------------------------------------------------------------------
\* Corrections never hide facts altogether: whatever was corrected, relinked
\* and deleted in whatever order, among any entries that are left there is one
\* that no other of them corrects, so every chain has a fact that is shown.
FactsSurface ==
  \A S \in SUBSET {i \in Entries : Kept(i)} :
    S # {} => \E i \in S : Corrections(i) \cap S = {}

ShownImports == {i \in Imports : Current(i)}

\* "replaces that active revision instead of leaving contradictory imports":
\* at most one snapshot of the document is shown, although the user deletes
\* the one that is shown and so uncovers the one before, as long as imports
\* themselves are corrected by imports only and are all the document's.
OneImport == meddled = {} => Cardinality(ShownImports) <= 1

\* The same with corrections of imports, which the code does not achieve: an
\* import that a chat correction hides while the next one looks for it comes
\* back when that correction is deleted.
NoContradiction == "posed" \notin meddled => Cardinality(ShownImports) <= 1
=============================================================================
