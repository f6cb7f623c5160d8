--------------------------- MODULE ServicesProofs ---------------------------
(***************************************************************************)
(* Theorems about the transactions of the messenger and the store: groups, *)
(* memory entries and the history of a bot, for every value of their       *)
(* constants; the last part is about the composition that TLC explores.    *)
(***************************************************************************)
EXTENDS MCServices, LearnedSkillsProofs, RoutinesProofs, RuntimeTurnsProofs, TLAPS,
        FiniteSetTheorems, SequenceTheorems, WellFoundedInduction

-----------------------------------------------------------------------------
(* Groups: the tables of a group *)

\* A bot that left, or never came, is no coordinator; nothing is sent to a
\* group that does not exist.
GroupsInv ==
  /\ GroupsTypeOK
  /\ group = "absent" => /\ \A b \in Bot : member[b] = "none" /\ role[b] = "member"
                         /\ \A k \in Letter : letters[k] = <<>>
                         /\ filed = FALSE
  /\ group # "absent" => /\ Cardinality(ActiveMembers) \in 2..6
                         /\ coordinator \in ActiveMembers /\ face = coordinator
                         /\ \A b \in Bot : role[b] = "coordinator" <=> b = coordinator
                         /\ filed = (group = "archived")
  /\ \A k \in Letter : Len(letters[k]) \in {0, 1}

LetterRow == [to : SUBSET Bot, with : SUBSET Uploader]
HelperRow == [letter : Letter, parent : Bot, child : Bot, with : SUBSET Uploader]

\* No group exists yet.
LEMMA GroupsInvInit == GroupsInit => GroupsInv
<1> SUFFICES ASSUME GroupsInit PROVE GroupsInv
  OBVIOUS
<1>1. filed = FALSE
  BY DEF GroupsInit
<1>2. filed \in BOOLEAN
  BY <1>1
<1>3. <<>> \in Seq(LetterRow) /\ Len(<<>>) = 0
  OBVIOUS
<1>4. GroupsTypeOK
  BY <1>2, <1>3, GroupsAssumption DEF GroupsInit, GroupsTypeOK, LetterRow
<1>5. QED
  BY <1>1, <1>3, <1>4 DEF GroupsInit, GroupsInv

\* The bots of the list, and nobody else, are the members.
LEMMA MembersAre ==
  ASSUME GroupsInv, NEW M \in SUBSET Bot, NEW c \in M, Ranks(M, c),
         face' = c, coordinator' = c, Cardinality(M) \in 2..6,
         \/ member' = [b \in Bot |-> IF b \in M THEN "active" ELSE "none"] /\ group = "absent"
         \/ /\ member' = [b \in Bot |-> IF b \in M THEN "active"
                                        ELSE IF member[b] = "active" THEN "removed" ELSE member[b]]
            /\ group # "absent"
  PROVE  /\ ActiveMembers' = M /\ Cardinality(ActiveMembers') \in 2..6
         /\ coordinator' \in ActiveMembers'
         /\ \A b \in Bot : role'[b] = "coordinator" <=> b = c
         /\ member' \in [Bot -> {"none", "active", "removed"}]
         /\ role' \in [Bot -> {"member", "coordinator"}]
<1>1. member \in [Bot -> {"none", "active", "removed"}] /\ role \in [Bot -> {"member", "coordinator"}]
  BY DEF GroupsInv, GroupsTypeOK
<1>2. ActiveMembers' = M
  BY <1>1 DEF ActiveMembers
<1>3. role' = [b \in Bot |-> IF b \in M THEN (IF b = c THEN "coordinator" ELSE "member")
                             ELSE IF member[b] = "active" THEN "member" ELSE role[b]]
  BY DEF Ranks
<1>4. \A b \in Bot \ M : role'[b] = "member"
  BY <1>1, <1>3 DEF GroupsInv, ActiveMembers
<1>5. QED
  BY <1>1, <1>2, <1>3, <1>4

\* Creating and updating a group keep the invariant.
LEMMA MembershipKeeps ==
  ASSUME GroupsInv,
         (\E M \in SUBSET Bot : \E c \in M : CreateGroup(M, c)) \/ Update
  PROVE  GroupsInv'
<1>1. ASSUME NEW M \in SUBSET Bot, NEW c \in M, CreateGroup(M, c) PROVE GroupsInv'
  <2>1. /\ group = "absent" /\ group' = "active" /\ face' = c /\ coordinator' = c
        /\ Cardinality(M) \in 2..6 /\ Ranks(M, c) /\ filed = FALSE
        /\ member' = [b \in Bot |-> IF b \in M THEN "active" ELSE "none"]
        /\ UNCHANGED <<shelved, filed, files, grant, letters, helpers>>
    BY <1>1 DEF CreateGroup, Admissible, GroupsInv
  <2>2. /\ Cardinality(ActiveMembers') \in 2..6 /\ coordinator' \in ActiveMembers'
        /\ \A b \in Bot : role'[b] = "coordinator" <=> b = c
        /\ member' \in [Bot -> {"none", "active", "removed"}] /\ role' \in [Bot -> {"member", "coordinator"}]
    BY <2>1, MembersAre
  <2>3. GroupsTypeOK'
    BY <2>1, <2>2 DEF GroupsInv, GroupsTypeOK
  <2>4. filed' = (group' = "archived")
    BY <2>1
  <2>5. QED
    BY <2>1, <2>2, <2>3, <2>4 DEF GroupsInv
<1>2. ASSUME NEW M \in SUBSET Bot, NEW s \in {"active", "archived"}, NEW c \in M \cup Chosen(M),
             UpdateGroup(M, c, s)
      PROVE  GroupsInv'
  <2>1. c \in M
    BY DEF Chosen
  <2>2. /\ group # "absent" /\ group' = s /\ face' = c /\ coordinator' = c
        /\ Cardinality(M) \in 2..6 /\ Ranks(M, c)
        /\ member' = [b \in Bot |-> IF b \in M THEN "active"
                                    ELSE IF member[b] = "active" THEN "removed" ELSE member[b]]
        /\ filed' = (IF s = group THEN filed ELSE s = "archived")
        /\ UNCHANGED <<shelved, files, grant, letters, helpers>>
    BY <1>2 DEF UpdateGroup, Admissible
  <2>3. /\ Cardinality(ActiveMembers') \in 2..6 /\ coordinator' \in ActiveMembers'
        /\ \A b \in Bot : role'[b] = "coordinator" <=> b = c
        /\ member' \in [Bot -> {"none", "active", "removed"}] /\ role' \in [Bot -> {"member", "coordinator"}]
    BY <2>1, <2>2, MembersAre
  <2>4. filed' = (group' = "archived") /\ filed' \in BOOLEAN
    BY <2>2 DEF GroupsInv
  <2>5. GroupsTypeOK'
    BY <2>1, <2>2, <2>3, <2>4 DEF GroupsInv, GroupsTypeOK
  <2>6. QED
    BY <2>2, <2>3, <2>4, <2>5 DEF GroupsInv
<1>3. QED
  BY <1>1, <1>2 DEF Update

\* Everything else leaves the membership alone.
LEMMA OthersKeep ==
  ASSUME GroupsInv,
         \/ \E b \in Retiring : Shelve(b)
         \/ \E f \in Uploader : DeleteFile(f)
         \/ \E s \in {"active", "archived"} : FileAway(s)
         \/ \E F \in SUBSET Uploader : RevokeFiles(F) \/ \E b \in Bot : GrantFiles(F, b)
  PROVE  GroupsInv'
<1> USE DEF GroupsInv
<1>1. ASSUME NEW b \in Retiring, Shelve(b) PROVE GroupsInv'
  BY <1>1 DEF Shelve, shape, GroupsTypeOK, ActiveMembers
<1>2. ASSUME NEW f \in Uploader, DeleteFile(f) PROVE GroupsInv'
  <2>1. UNCHANGED <<shelved, group, filed, face, coordinator, member, role, letters>>
    BY <1>2 DEF DeleteFile, shape
  <2>2. helpers' \subseteq HelperRow
    <3>1. ASSUME NEW h \in helpers PROVE [h EXCEPT !.with = @ \ {f}] \in HelperRow
      <4>1. h \in HelperRow
        BY DEF GroupsTypeOK, HelperRow
      <4>2. h.with \ {f} \in SUBSET Uploader
        BY <4>1 DEF HelperRow
      <4>3. QED
        BY <4>1, <4>2 DEF HelperRow
    <3>2. QED
      BY <1>2, <3>1 DEF DeleteFile
  <2>3. grant' \in [Uploader -> {"none", "given", "revoked"}] /\ files' \subseteq Uploader
    BY <1>2 DEF DeleteFile, GroupsTypeOK
  <2>4. QED
    BY <2>1, <2>2, <2>3 DEF GroupsTypeOK, HelperRow, ActiveMembers
<1>3. ASSUME NEW s \in {"active", "archived"}, FileAway(s) PROVE GroupsInv'
  <2>1. /\ UNCHANGED <<shelved, face, coordinator, member, role, files, grant, letters, helpers>>
        /\ group # "absent" /\ group' = s
    BY <1>3 DEF FileAway
  <2>2. filed' = (group' = "archived") /\ filed' \in BOOLEAN
    BY <1>3 DEF FileAway
  <2>3. QED
    BY <2>1, <2>2 DEF GroupsTypeOK, ActiveMembers
<1>4. ASSUME NEW F \in SUBSET Uploader, RevokeFiles(F) \/ \E b \in Bot : GrantFiles(F, b) PROVE GroupsInv'
  <2>1. UNCHANGED <<shelved, group, filed, face, coordinator, member, role, files, letters, helpers>>
    BY <1>4 DEF RevokeFiles, GrantFiles, shape
  <2>2. grant' \in [Uploader -> {"none", "given", "revoked"}]
    BY <1>4 DEF RevokeFiles, GrantFiles, GroupsTypeOK
  <2>3. QED
    BY <2>1, <2>2 DEF GroupsTypeOK, ActiveMembers
<1>5. QED
  BY <1>1, <1>2, <1>3, <1>4

\* Sending a letter and asking a helper keep it.
LEMMA LettersKeep ==
  ASSUME GroupsInv,
         \/ \E k \in Letter, R \in SUBSET Bot, F \in SUBSET Uploader : SendLetter(k, R, F)
         \/ \E k \in Letter, p, b \in Bot : \E i \in DOMAIN letters[k] : AskHelper(k, i, p, b)
  PROVE  GroupsInv'
<1> USE DEF GroupsInv
<1>1. ASSUME NEW k \in Letter, NEW R \in SUBSET Bot, NEW F \in SUBSET Uploader, SendLetter(k, R, F)
      PROVE  GroupsInv'
  <2>1. /\ UNCHANGED <<shelved, group, face, coordinator, member, role, files, helpers>>
        /\ group = "active" /\ filed' = FALSE
    BY <1>1 DEF SendLetter
  <2>2. letters' \in [Letter -> Seq(LetterRow)] /\ \A j \in Letter : Len(letters'[j]) \in {0, 1}
    <3>1. letters' = [letters EXCEPT ![k] = Append(<<>>, [to |-> R, with |-> F])]
      BY <1>1 DEF SendLetter, Unseen, GroupsTypeOK
    <3>2. Append(<<>>, [to |-> R, with |-> F]) \in Seq(LetterRow) /\ Len(Append(<<>>, [to |-> R, with |-> F])) = 1
      BY DEF LetterRow
    <3>3. QED
      BY <3>1, <3>2 DEF GroupsTypeOK, LetterRow
  <2>3. grant' \in [Uploader -> {"none", "given", "revoked"}]
    BY <1>1 DEF SendLetter, Attached, GroupsTypeOK
  <2>4. filed' = (group' = "archived") /\ filed' \in BOOLEAN
    BY <2>1
  <2>5. QED
    BY <2>1, <2>2, <2>3, <2>4 DEF GroupsTypeOK, LetterRow, ActiveMembers
<1>2. ASSUME NEW k \in Letter, NEW p \in Bot, NEW b \in Bot, NEW i \in DOMAIN letters[k], AskHelper(k, i, p, b)
      PROVE  GroupsInv'
  <2>1. UNCHANGED <<shelved, group, filed, face, coordinator, member, role, files, grant, letters>>
    BY <1>2 DEF AskHelper, shape
  <2>2. helpers' \subseteq HelperRow
    <3>1. letters[k] \in Seq(LetterRow)
      BY DEF GroupsTypeOK, LetterRow
    <3>2. letters[k][i] \in LetterRow
      BY <3>1, ElementOfSeq, LenProperties
    <3>3. Inherited(p, letters[k][i].with) \subseteq Uploader
      BY <3>2 DEF Inherited, LetterRow
    <3>4. QED
      BY <1>2, <3>3 DEF AskHelper, GroupsTypeOK, HelperRow
  <2>3. QED
    BY <2>1, <2>2 DEF GroupsTypeOK, HelperRow, ActiveMembers
<1>3. QED
  BY <1>1, <1>2

\* The invariant holds in every state of a group.
THEOREM GroupsInvariant == GroupsSpec => []GroupsInv
<1>1. GroupsInv /\ [GroupsNext]_groupVars => GroupsInv'
  <2>1. CASE GroupsNext
    BY <2>1, MembershipKeeps, OthersKeep, LettersKeep DEF GroupsNext
  <2>2. CASE UNCHANGED groupVars
    BY <2>2 DEF groupVars, GroupsInv, GroupsTypeOK, ActiveMembers
  <2>3. QED
    BY <2>1, <2>2
<1>2. QED
  BY <1>1, GroupsInvInit, PTL DEF GroupsSpec

\* The tables that describe a group agree after any sequence of edits, and a
\* client's request id has one message.
THEOREM GroupsAreWhole == GroupsSpec => []GroupIsWhole
<1>1. GroupsInv => GroupIsWhole
  <2>1. ASSUME GroupsInv, group # "absent" PROVE {b \in Bot : role[b] = "coordinator"} = {coordinator}
    BY <2>1 DEF GroupsInv, ActiveMembers
  <2>2. ASSUME GroupsInv, NEW k \in Letter PROVE Len(letters[k]) <= 1
    <3>1. \A n \in {0, 1} : n <= 1
      OBVIOUS
    <3>2. Len(letters[k]) \in {0, 1}
      BY <2>2 DEF GroupsInv
    <3>3. QED
      BY <3>1, <3>2
  <2>3. QED
    BY <2>1, <2>2 DEF GroupsInv, GroupIsWhole
<1>2. QED
  BY <1>1, GroupsInvariant, PTL

\* Who is asked may respond and read what is attached, unless that was
\* revoked, and a helper is shown no file that its parent could not read.
THEOREM ScopesHold == GroupsSpec => WithinScope
<1> DEFINE Letters ==
      \A k \in Letter : \A i \in DOMAIN letters'[k] \ DOMAIN letters[k] :
        \A b \in letters'[k][i].to :
          /\ CanRespond(b)
          /\ \A f \in letters'[k][i].with : FileAllowed(b, f)' \/ grant[f] = "revoked"
           Helpers ==
      files' = files =>
        \A h \in helpers' \ helpers : \A f \in Uploader : HelperAllowed(h, f)' => FileAllowed(h.parent, f)
<1>1. ASSUME GroupsInv, NEW k \in Letter, NEW R \in SUBSET Bot, NEW F \in SUBSET Uploader, SendLetter(k, R, F)
      PROVE  Letters
  <2>1. letters' = [letters EXCEPT ![k] = Append(<<>>, [to |-> R, with |-> F])]
    BY <1>1 DEF SendLetter, Unseen, GroupsInv, GroupsTypeOK
  <2>2. \A j \in Letter \ {k} : letters'[j] = letters[j]
    BY <1>1, <2>1 DEF GroupsInv, GroupsTypeOK
  <2>3. letters'[k] = <<[to |-> R, with |-> F]>>
    BY <1>1, <2>1 DEF GroupsInv, GroupsTypeOK
  <2>4. \A b \in R : CanRespond(b) /\ CanRespond(b)'
    BY <1>1 DEF SendLetter, CanRespond, Serving
  <2>5. \A f \in F : f \in files' /\ (grant'[f] = "given" \/ grant[f] = "revoked")
    BY <1>1 DEF SendLetter, Attachable, Attached, GroupsInv, GroupsTypeOK
  <2>6. QED
    BY <2>2, <2>3, <2>4, <2>5 DEF FileAllowed
<1>2. ASSUME GroupsInv, NEW k \in Letter, NEW p \in Bot, NEW b \in Bot, NEW i \in DOMAIN letters[k],
             AskHelper(k, i, p, b)
      PROVE  Helpers
  <2>1. group = "active" /\ p \notin shelved
    <3>1. letters[k] # <<>>
      OBVIOUS
    <3>2. QED
      BY <1>2, <3>1 DEF AskHelper, GroupsInv, GroupsTypeOK
  <2>2. ASSUME NEW h \in helpers' \ helpers, NEW f \in Uploader, HelperAllowed(h, f)'
        PROVE  FileAllowed(h.parent, f)
    <3>1. h.parent = p /\ f \in Inherited(p, letters[k][i].with)
      BY <1>2, <2>2 DEF AskHelper, HelperAllowed
    <3>2. QED
      BY <2>1, <3>1 DEF Inherited, FileAllowed, CanRespond, Serving
  <2>3. QED
    BY <2>2
<1>3. ASSUME GroupsInv, GroupsNext PROVE Letters /\ Helpers
  <2>1. CASE \E k \in Letter, R \in SUBSET Bot, F \in SUBSET Uploader : SendLetter(k, R, F)
    <3>1. helpers' = helpers
      BY <2>1 DEF SendLetter
    <3>2. QED
      BY <1>1, <1>3, <2>1, <3>1
  <2>2. CASE \E k \in Letter, p, b \in Bot : \E i \in DOMAIN letters[k] : AskHelper(k, i, p, b)
    <3>1. letters' = letters
      BY <2>2 DEF AskHelper
    <3>2. QED
      BY <1>2, <1>3, <2>2, <3>1
  <2>3. CASE \E f \in Uploader : DeleteFile(f)
    BY <2>3 DEF DeleteFile
  <2>4. CASE UNCHANGED <<letters, helpers>>
    BY <2>4
  <2>5. QED
    BY <1>3, <2>1, <2>2, <2>3, <2>4
       DEF GroupsNext, Shelve, CreateGroup, Update, UpdateGroup, FileAway, RevokeFiles, GrantFiles
<1>4. GroupsInv /\ [GroupsNext]_groupVars => [Letters /\ Helpers]_groupVars
  BY <1>3
<1>5. GroupsSpec => [][Letters /\ Helpers]_groupVars
  BY <1>4, GroupsInvariant, PTL DEF GroupsSpec
<1>6. QED
  BY <1>5, PTL DEF WithinScope

-----------------------------------------------------------------------------
(* Finite sets of numbers *)

\* A non-empty set of naturals has a least member.
LEMMA LeastExists ==
  ASSUME NEW S \in SUBSET Nat, S # {}
  PROVE  \E x \in S : \A y \in S : x <= y
<1> DEFINE Less == OpToRel(<, Nat)
<1>1. PICK x \in S : \A y \in S : ~(<<y, x>> \in Less)
  <2>1. IsWellFoundedOn(Less, Nat)
    BY NatLessThanWellFounded
  <2> HIDE DEF Less
  <2>2. QED
    BY <2>1, WFMin
<1>2. \A y \in S : ~(y < x)
  BY <1>1 DEF OpToRel
<1>3. QED
  BY <1>2

\* A non-empty set of bounded naturals has a greatest member.
LEMMA GreatestExists ==
  ASSUME NEW n \in Nat, NEW S \in SUBSET (0..n), S # {}
  PROVE  \E x \in S : \A y \in S : y <= x
<1> DEFINE T == {k \in Nat : n - k \in S}
<1>1. ASSUME NEW i \in S PROVE n - i \in T /\ n - (n - i) = i
  OBVIOUS
<1>2. T # {} /\ T \in SUBSET Nat
  BY <1>1
<1>3. PICK t \in T : \A k \in T : t <= k
  <2> HIDE DEF T
  <2>1. QED
    BY <1>2, LeastExists
<1>4. n - t \in S
  OBVIOUS
<1>5. ASSUME NEW i \in S PROVE i <= n - t
  <2>1. t <= n - i /\ t \in Nat /\ i \in 0..n
    BY <1>1, <1>3
  <2>2. QED
    BY <2>1
<1>6. QED
  BY <1>4, <1>5

-----------------------------------------------------------------------------
(* Memory: corrections *)

KeptImports == {i \in Imports : Kept(i)}

\* Corrections lead downwards in some order of the entries.
Ranked ==
  \E bound \in Nat : \E rank \in [Entries -> 0..bound] :
    \A j \in Entries : entries[j].fixes # 0 => rank[entries[j].fixes] < rank[j]

\* Entries correct entries.
Linked == \A j \in Entries : entries[j].fixes \in Entries \cup {0}

\* The imports that are kept form one chain: each corrects the one before it.
ImportsChain ==
  /\ \A j \in Entries : entries[j].fixes \in Imports => j \in Imports
  /\ \A j \in KeptImports :
       /\ entries[j].fixes \in KeptImports \cup {0} /\ entries[j].fixes < j
       /\ \A i \in KeptImports : i < j => i <= entries[j].fixes
  /\ imported # 0 => imported \in Imports /\ \A i \in Imports : i <= imported
  /\ imported = 0 => KeptImports = {}

MemoryInv == MemoryTypeOK /\ Linked /\ Ranked /\ (meddled = {} => ImportsChain)

MemoryRow == [scope : Visibility, by : {"chat", "file"}, fixes : 0..MaxEntries, deleted : BOOLEAN]

\* An entry is a row at a number from 1 on.
LEMMA EntryFacts ==
  ASSUME MemoryTypeOK
  PROVE  /\ entries \in Seq(MemoryRow) /\ Len(entries) \in Nat /\ Entries \subseteq Nat \ {0}
         /\ Entries \subseteq 0..Len(entries) /\ DOMAIN entries = Entries
         /\ \A i \in Entries : entries[i] \in MemoryRow
<1>1. entries \in Seq(MemoryRow)
  BY DEF MemoryTypeOK, MemoryRow
<1>2. Len(entries) \in Nat /\ DOMAIN entries = 1..Len(entries) /\ \A i \in 1..Len(entries) : entries[i] \in MemoryRow
  BY <1>1, LenProperties, ElementOfSeq
<1>3. QED
  BY <1>1, <1>2 DEF Entries

\* A new entry comes last.
LEMMA AppendedFacts ==
  ASSUME MemoryTypeOK, NEW e \in MemoryRow, entries' = Append(entries, e), Len(entries) < MaxEntries
  PROVE  /\ entries' \in Seq(MemoryRow) /\ Len(entries') <= MaxEntries /\ Len(entries') = Len(entries) + 1
         /\ Entries' = Entries \cup {Len(entries) + 1} /\ Len(entries) + 1 \notin Entries
         /\ \A i \in Entries : entries'[i] = entries[i]
         /\ entries'[Len(entries) + 1] = e
<1>1. /\ entries' \in Seq(MemoryRow) /\ Len(entries') = Len(entries) + 1 /\ Len(entries) \in Nat
      /\ \A i \in 1..Len(entries) : entries'[i] = entries[i]
      /\ entries'[Len(entries) + 1] = e
  BY EntryFacts, AppendProperties
<1>2. \A n \in Nat : 1..n + 1 = (1..n) \cup {n + 1} /\ n + 1 \notin 1..n
  OBVIOUS
<1>3. QED
  BY <1>1, <1>2, MemoryAssumption DEF Entries

\* A corrected entry stays below a new one.
LEMMA RankedAfterAppend ==
  ASSUME MemoryTypeOK, Linked, Ranked, NEW e \in MemoryRow, entries' = Append(entries, e),
         Len(entries) < MaxEntries, e.fixes \in Entries \cup {0}
  PROVE  Ranked'
<1> DEFINE n == Len(entries) + 1
<1>1. PICK bound \in Nat : \E rank \in [Entries -> 0..bound] :
        \A j \in Entries : entries[j].fixes # 0 => rank[entries[j].fixes] < rank[j]
  BY DEF Ranked
<1>2. PICK rank \in [Entries -> 0..bound] :
        \A j \in Entries : entries[j].fixes # 0 => rank[entries[j].fixes] < rank[j]
  BY <1>1
<1> DEFINE new == [j \in Entries' |-> IF j = n THEN (IF e.fixes = 0 THEN 0 ELSE rank[e.fixes] + 1)
                                               ELSE rank[j]]
<1>3. Entries' = Entries \cup {n} /\ n \notin Entries /\ entries'[n] = e /\ 0 \notin Entries
      /\ \A i \in Entries : entries'[i] = entries[i]
  BY AppendedFacts, EntryFacts
<1> HIDE DEF n
<1>4. new \in [Entries' -> 0..(bound + 1)]
  BY <1>2, <1>3
<1>5. \A j \in Entries' : entries'[j].fixes # 0 => new[entries'[j].fixes] < new[j]
  <2>1. ASSUME NEW j \in Entries, entries'[j].fixes # 0 PROVE new[entries'[j].fixes] < new[j]
    <3>1. entries[j].fixes \in Entries /\ rank[entries[j].fixes] < rank[j]
      BY <1>2, <1>3, <2>1 DEF Linked
    <3>2. QED
      BY <1>3, <2>1, <3>1
  <2>2. ASSUME e.fixes # 0 PROVE new[e.fixes] < new[n]
    <3>1. e.fixes \in Entries /\ rank[e.fixes] \in 0..bound
      BY <1>2, <2>2
    <3>2. QED
      BY <1>3, <2>2, <3>1
  <2>3. QED
    BY <1>3, <2>1, <2>2
<1>6. QED
  <2>1. bound + 1 \in Nat
    OBVIOUS
  <2> HIDE DEF new
  <2>2. QED
    BY <1>4, <1>5, <2>1 DEF Ranked

\* The walk from an entry meets that entry and, with any, what it corrects.
LEMMA ChainFacts ==
  ASSUME MemoryTypeOK, Linked, NEW i \in Entries
  PROVE  /\ i \in Chain(i) /\ Chain(i) \subseteq Entries
         /\ \A k \in Chain(i) : entries[k].fixes \in Chain(i) \cup {0}
  BY DEF Chain, Linked

\* A new link upwards is none: what the corrected entry leads to is moved below
\* everything else, and the corrected entry does not lead to the correcting one.
LEMMA RankedAfterRelink ==
  ASSUME MemoryTypeOK, Linked, Ranked, Entries' = Entries, NEW m \in Entries, NEW i \in Entries,
         m \notin Chain(i), entries'[m].fixes = i,
         \A j \in Entries \ {m} : entries'[j].fixes = entries[j].fixes
  PROVE  Ranked'
<1> DEFINE D == Chain(i)
<1>1. i \in D /\ m \notin D /\ D \subseteq Entries /\ \A k \in D : entries[k].fixes \in D \cup {0}
  BY ChainFacts
<1> HIDE DEF D
<1>2. PICK bound \in Nat : \E rank \in [Entries -> 0..bound] :
        \A j \in Entries : entries[j].fixes # 0 => rank[entries[j].fixes] < rank[j]
  BY DEF Ranked
<1>3. PICK rank \in [Entries -> 0..bound] :
        \A j \in Entries : entries[j].fixes # 0 => rank[entries[j].fixes] < rank[j]
  BY <1>2
<1> DEFINE new == [j \in Entries |-> IF j \in D THEN rank[j] ELSE rank[j] + bound + 1]
<1>4. new \in [Entries -> 0..(bound + bound + 1)]
  BY <1>3
<1>5. ASSUME NEW j \in Entries, entries'[j].fixes # 0 PROVE new[entries'[j].fixes] < new[j]
  <2>1. CASE j = m
    <3>1. rank[i] \in 0..bound /\ rank[m] \in 0..bound
      BY <1>3
    <3>2. QED
      BY <1>1, <2>1, <3>1
  <2>2. CASE j # m
    <3>1. /\ entries'[j].fixes = entries[j].fixes /\ entries[j].fixes \in Entries
          /\ rank[entries[j].fixes] < rank[j]
      BY <1>3, <1>5, <2>2 DEF Linked
    <3>2. rank[entries[j].fixes] \in 0..bound /\ rank[j] \in 0..bound
      BY <1>3, <3>1
    <3>3. j \in D => entries[j].fixes \in D
      BY <1>1, <1>5, <3>1
    <3>4. QED
      BY <3>1, <3>2, <3>3
  <2>3. QED
    BY <2>1, <2>2
<1>6. QED
  <2>1. bound + bound + 1 \in Nat
    OBVIOUS
  <2> HIDE DEF new
  <2>2. QED
    BY <1>4, <1>5, <2>1 DEF Ranked

\* Entries whose links stay keep their order.
LEMMA RankedAfterUnlink ==
  ASSUME Linked, Ranked, Entries' = Entries,
         \A j \in Entries : entries'[j].fixes \in {entries[j].fixes, 0}
  PROVE  Ranked'
<1>1. PICK bound \in Nat : \E rank \in [Entries -> 0..bound] :
        \A j \in Entries : entries[j].fixes # 0 => rank[entries[j].fixes] < rank[j]
  BY DEF Ranked
<1>2. PICK rank \in [Entries -> 0..bound] :
        \A j \in Entries : entries[j].fixes # 0 => rank[entries[j].fixes] < rank[j]
  BY <1>1
<1>3. \A j \in Entries' : entries'[j].fixes # 0 => rank[entries'[j].fixes] < rank[j]
  BY <1>2
<1>4. QED
  BY <1>1, <1>2, <1>3 DEF Ranked

\* Among any kept entries one is corrected by none of the others: one of the
\* greatest rank.
LEMMA RankedSurfaces ==
  ASSUME MemoryTypeOK, Linked, Ranked
  PROVE  FactsSurface
<1> SUFFICES ASSUME NEW S \in SUBSET {i \in Entries : Kept(i)}, S # {}
             PROVE  \E i \in S : Corrections(i) \cap S = {}
  BY DEF FactsSurface
<1>1. PICK bound \in Nat : \E rank \in [Entries -> 0..bound] :
        \A j \in Entries : entries[j].fixes # 0 => rank[entries[j].fixes] < rank[j]
  BY DEF Ranked
<1>2. PICK rank \in [Entries -> 0..bound] :
        \A j \in Entries : entries[j].fixes # 0 => rank[entries[j].fixes] < rank[j]
  BY <1>1
<1> DEFINE R == {rank[i] : i \in S}
<1>3. R # {} /\ R \in SUBSET (0..bound)
  BY <1>2
<1>4. PICK r \in R : \A q \in R : q <= r
  <2> HIDE DEF R
  <2>1. QED
    BY <1>3, GreatestExists
<1>5. PICK i \in S : rank[i] = r
  OBVIOUS
<1>6. ASSUME NEW j \in Corrections(i) \cap S PROVE FALSE
  <2>1. entries[j].fixes = i /\ j \in Entries /\ i # 0
    BY EntryFacts DEF Corrections
  <2>2. rank[i] < rank[j] /\ rank[j] <= r /\ rank[i] \in Nat /\ rank[j] \in Nat
    BY <1>2, <1>4, <2>1
  <2>3. QED
    BY <1>5, <2>2
<1>7. QED
  BY <1>6

-----------------------------------------------------------------------------
(* Memory: imports *)

\* Of the imports that are kept, exactly the last is shown.
LEMMA ShownIsLast ==
  ASSUME MemoryTypeOK, Linked, ImportsChain, KeptImports # {}
  PROVE  \E m \in KeptImports : ShownImports = {m} /\ \A i \in KeptImports : i <= m
<1>1. /\ KeptImports \in SUBSET (0..Len(entries)) /\ Len(entries) \in Nat
      /\ KeptImports \subseteq Nat \ {0} /\ KeptImports \subseteq Imports /\ Imports \subseteq Entries
  BY EntryFacts DEF KeptImports, Imports
<1>2. PICK m \in KeptImports : \A i \in KeptImports : i <= m
  BY <1>1, GreatestExists
<1>3. m \in ShownImports
  <2>1. ASSUME NEW j \in Corrections(m) PROVE FALSE
    <3>1. j \in KeptImports /\ entries[j].fixes = m
      BY <1>1, <1>2 DEF Corrections, ImportsChain, KeptImports, Imports
    <3>2. m < j /\ j <= m /\ m \in Nat /\ j \in Nat
      BY <1>1, <1>2, <3>1 DEF ImportsChain
    <3>3. QED
      BY <3>2
  <2>2. QED
    BY <1>1, <2>1 DEF ShownImports, Current, KeptImports
<1>4. ASSUME NEW i \in ShownImports, i # m PROVE FALSE
  <2>1. i \in KeptImports /\ Corrections(i) = {}
    BY <1>4 DEF ShownImports, Current, KeptImports
  <2> DEFINE Later == {j \in KeptImports : i < j}
  <2>2. m \in Later /\ Later \in SUBSET Nat
    <3>1. i <= m /\ i \in Nat /\ m \in Nat /\ i # m
      BY <1>1, <1>2, <1>4, <2>1
    <3>2. i < m
      BY <3>1
    <3>3. QED
      BY <1>1, <3>2
  <2>3. PICK j \in Later : \A k \in Later : j <= k
    <3>1. Later # {}
      BY <2>2
    <3> HIDE DEF Later
    <3>2. QED
      BY <2>2, <3>1, LeastExists
  <2>4. /\ entries[j].fixes \in KeptImports \cup {0} /\ entries[j].fixes < j /\ i <= entries[j].fixes
        /\ i \in Nat \ {0} /\ j \in Nat
    BY <1>1, <2>1, <2>3 DEF ImportsChain
  <2>5. entries[j].fixes = i
    <3>0. entries[j].fixes # 0
      BY <2>4
    <3>1. entries[j].fixes \in KeptImports /\ entries[j].fixes \in Nat
      BY <1>1, <2>4, <3>0
    <3>2. i < entries[j].fixes => j <= entries[j].fixes
      BY <2>3, <3>1
    <3>3. QED
      BY <2>4, <3>1, <3>2
  <2>6. j \in Corrections(i)
    BY <1>1, <2>1, <2>3, <2>5 DEF Corrections, Linked, KeptImports, Imports
  <2>7. QED
    BY <2>1, <2>6
<1>5. QED
  BY <1>2, <1>3, <1>4

\* What a new snapshot corrects is an entry or nothing and, unless somebody
\* meddled, the last import that is kept.
LEMMA ReplacedFacts ==
  ASSUME MemoryTypeOK, Linked
  PROVE  /\ Replaced \in Entries \cup {0}
         /\ ImportsChain => /\ Replaced \in KeptImports \cup {0}
                            /\ \A i \in KeptImports : i <= Replaced
<1>1. imported \in Nat /\ (imported # 0 => imported \in Entries)
  BY EntryFacts DEF MemoryTypeOK, Entries
<1>2. CASE imported # 0 /\ Kept(imported)
  BY <1>1, <1>2 DEF Replaced, ImportsChain, KeptImports
<1>3. CASE ~(imported # 0 /\ Kept(imported))
  <2>1. Replaced = IF ShownImports = {} THEN 0
                   ELSE CHOOSE i \in ShownImports : \A j \in ShownImports : j <= i
    BY <1>3 DEF Replaced, ShownImports
  <2>2. /\ ShownImports \in SUBSET (0..Len(entries)) /\ Len(entries) \in Nat /\ ShownImports \subseteq Entries
        /\ ShownImports \subseteq KeptImports
    BY EntryFacts DEF ShownImports, Imports, KeptImports, Current
  <2>3. ASSUME ShownImports # {} PROVE Replaced \in ShownImports
    <3>1. \E i \in ShownImports : \A j \in ShownImports : j <= i
      BY <2>2, <2>3, GreatestExists
    <3>2. QED
      BY <2>1, <2>3, <3>1
  <2>4. Replaced \in Entries \cup {0}
    BY <2>1, <2>2, <2>3
  <2>5. ASSUME ImportsChain, KeptImports = {} PROVE Replaced = 0
    BY <2>1, <2>2, <2>5
  <2>6. ASSUME ImportsChain, KeptImports # {}
        PROVE  Replaced \in KeptImports /\ \A i \in KeptImports : i <= Replaced
    <3>1. PICK m \in KeptImports : ShownImports = {m} /\ \A i \in KeptImports : i <= m
      BY <2>6, ShownIsLast
    <3>2. Replaced = m
      BY <2>3, <3>1
    <3>3. QED
      BY <3>1, <3>2
  <2>7. QED
    BY <2>4, <2>5, <2>6
<1>4. QED
  BY <1>2, <1>3

\* The chain is the same while imports keep their links and deletions.
LEMMA ChainKept ==
  ASSUME ImportsChain, Imports' = Imports, KeptImports' = KeptImports, imported' = imported,
         \A j \in Imports : entries'[j].fixes = entries[j].fixes,
         \A j \in Entries' : entries'[j].fixes \in Imports => j \in Imports
  PROVE  ImportsChain'
BY DEF ImportsChain, KeptImports

\* The invariant holds at the start.
LEMMA MemoryInvInit == MemoryInit => MemoryInv
<1> SUFFICES ASSUME MemoryInit PROVE MemoryInv
  OBVIOUS
<1>1. entries = <<>> /\ Entries = {} /\ Len(entries) = 0
  BY EmptySeq DEF MemoryInit, Entries
<1>2. MemoryTypeOK
  <2>1. entries \in Seq([scope : Visibility, by : {"chat", "file"}, fixes : 0..MaxEntries, deleted : BOOLEAN])
    BY <1>1, EmptySeq
  <2>2. digest \in Snapshot \cup {Empty, NoDigest} /\ meddled \subseteq {"linked", "posed"}
    BY DEF MemoryInit
  <2>3. Len(entries) <= MaxEntries /\ imported \in 0..Len(entries)
    BY <1>1, MemoryAssumption DEF MemoryInit
  <2>4. QED
    BY <2>1, <2>2, <2>3 DEF MemoryTypeOK
<1>3. Ranked
  <2>1. [j \in Entries |-> 0] \in [Entries -> 0..0]
    OBVIOUS
  <2>2. QED
    BY <1>1, <2>1 DEF Ranked
<1>4. Linked /\ ImportsChain
  BY <1>1 DEF Linked, ImportsChain, KeptImports, Imports, MemoryInit
<1>5. QED
  BY <1>2, <1>3, <1>4 DEF MemoryInv

\* A new entry of a chat corrects an entry or none.
LEMMA CreatedKeeps ==
  ASSUME MemoryInv, NEW s \in Visibility, NEW who \in {"chat", "file"}, NEW i \in Entries \cup {0},
         CreateMemory(s, who, i)
  PROVE  MemoryInv'
<1> DEFINE n == Len(entries) + 1
           e == Entry(s, who, i)
<1>1. MemoryTypeOK /\ Linked /\ Ranked
  BY DEF MemoryInv
<1>2. i \in 0..Len(entries) /\ Len(entries) \in Nat /\ Len(entries) <= MaxEntries /\ MaxEntries \in Nat
  BY <1>1, EntryFacts, MemoryAssumption DEF Entries, MemoryTypeOK
<1>3. e \in MemoryRow /\ e.fixes = i /\ ~e.deleted
  BY <1>2 DEF Entry, MemoryRow
<1>4. entries' = Append(entries, e) /\ Len(entries) < MaxEntries
  BY DEF CreateMemory
<1> HIDE DEF e
<1>5. /\ entries' \in Seq(MemoryRow) /\ Len(entries') <= MaxEntries /\ Len(entries') = n
      /\ Entries' = Entries \cup {n} /\ n \notin Entries
      /\ \A j \in Entries : entries'[j] = entries[j]
      /\ entries'[n] = e
  BY <1>1, <1>3, <1>4, AppendedFacts
<1>6. MemoryTypeOK'
  <2>1. meddled' \subseteq {"linked", "posed"}
    BY <1>1 DEF MemoryTypeOK, CreateMemory, Meddling
  <2>2. digest' \in Snapshot \cup {Empty, NoDigest} /\ imported' \in 0..Len(entries')
    BY <1>1, <1>2, <1>5 DEF MemoryTypeOK, CreateMemory
  <2>3. QED
    BY <1>5, <2>1, <2>2 DEF MemoryTypeOK, MemoryRow
<1>7. Linked'
  BY <1>1, <1>3, <1>5 DEF Linked
<1>8. Ranked'
  BY <1>1, <1>3, <1>4, RankedAfterAppend
<1>9. ASSUME meddled' = {} PROVE ImportsChain'
  <2>1. ImportsChain /\ i \notin Imports /\ imported' = imported
    BY <1>9 DEF MemoryInv, CreateMemory, Meddling
  <2>2. Imports' = Imports
    BY <1>9 DEF CreateMemory, Meddling
  <2>3. KeptImports' = KeptImports
    <3>1. \A j \in Imports : j \in Entries
      BY DEF Imports
    <3>2. QED
      BY <1>5, <2>2, <3>1 DEF KeptImports, Kept
  <2>4. \A j \in Imports : entries'[j].fixes = entries[j].fixes
    BY <1>5 DEF Imports
  <2>5. \A j \in Entries' : entries'[j].fixes \in Imports => j \in Imports
    BY <1>3, <1>5, <2>1 DEF ImportsChain
  <2>6. QED
    BY <2>1, <2>2, <2>3, <2>4, <2>5, ChainKept
<1>10. QED
  BY <1>6, <1>7, <1>8, <1>9 DEF MemoryInv

\* A changed link does not lead back to the entry it is in.
LEMMA UpdatedKeeps ==
  ASSUME MemoryInv, NEW m \in Entries, NEW who \in {"chat", "file"}, NEW i \in Entries \cup {0},
         UpdateMemory(m, who, i)
  PROVE  MemoryInv'
<1>1. MemoryTypeOK /\ Linked /\ Ranked
  BY DEF MemoryInv
<1>2. /\ entries \in Seq(MemoryRow) /\ Len(entries) \in Nat /\ DOMAIN entries = Entries
      /\ Entries = 1..Len(entries) /\ \A j \in Entries : entries[j] \in MemoryRow
  BY <1>1, EntryFacts DEF Entries
<1>3. i \in 0..MaxEntries
  BY <1>1, <1>2, MemoryAssumption DEF MemoryTypeOK
<1> DEFINE changed == [entries[m] EXCEPT !.by = who, !.fixes = i]
<1>4. entries' = [entries EXCEPT ![m] = changed]
  <2>1. entries' = [entries EXCEPT ![m].by = who, ![m].fixes = i]
    BY DEF UpdateMemory
  <2>2. QED
    BY <1>2, <2>1
<1>5. /\ changed \in MemoryRow /\ changed.fixes = i
      /\ changed.scope = entries[m].scope /\ changed.deleted = entries[m].deleted
  BY <1>2, <1>3 DEF MemoryRow
<1> HIDE DEF changed
<1>6. entries' \in Seq(MemoryRow) /\ Len(entries') = Len(entries)
  BY <1>2, <1>4, <1>5, ExceptSeq
<1>7. /\ Entries' = Entries /\ entries'[m].fixes = i
      /\ \A j \in Entries \ {m} : entries'[j] = entries[j]
      /\ \A j \in Entries : /\ entries'[j].scope = entries[j].scope
                            /\ entries'[j].deleted = entries[j].deleted
  BY <1>2, <1>4, <1>5, <1>6 DEF Entries
<1>8. MemoryTypeOK'
  <2>1. meddled' \subseteq {"linked", "posed"}
    BY <1>1 DEF MemoryTypeOK, UpdateMemory, Meddling
  <2>2. QED
    BY <1>1, <1>6, <2>1 DEF MemoryTypeOK, MemoryRow, UpdateMemory
<1>9. Linked'
  BY <1>1, <1>7 DEF Linked
<1>10. Ranked'
  <2>1. CASE i = 0 \/ i = entries[m].fixes
    BY <1>1, <1>7, <2>1, RankedAfterUnlink
  <2>2. CASE i # 0 /\ i # entries[m].fixes
    <3>1. m \notin Chain(i) /\ i \in Entries
      BY <2>2 DEF UpdateMemory, MayFix
    <3>2. QED
      BY <1>1, <1>7, <3>1, RankedAfterRelink
  <2>3. QED
    BY <2>1, <2>2
<1>11. ASSUME meddled' = {} PROVE ImportsChain'
  <2>1. ImportsChain /\ i \notin Imports /\ m \notin Imports /\ imported' = imported
    BY <1>11 DEF MemoryInv, UpdateMemory, Meddling
  <2>2. Imports' = Imports
    BY <1>11 DEF UpdateMemory, Meddling
  <2>3. KeptImports' = KeptImports
    <3>1. \A j \in Imports : j \in Entries
      BY DEF Imports
    <3>2. QED
      BY <1>7, <2>2, <3>1 DEF KeptImports, Kept
  <2>4. \A j \in Imports : entries'[j].fixes = entries[j].fixes
    BY <1>7, <2>1 DEF Imports
  <2>5. \A j \in Entries' : entries'[j].fixes \in Imports => j \in Imports
    BY <1>7, <2>1 DEF ImportsChain
  <2>6. QED
    BY <2>1, <2>2, <2>3, <2>4, <2>5, ChainKept
<1>12. QED
  BY <1>8, <1>9, <1>10, <1>11 DEF MemoryInv

\* A deleted entry leaves the links as they are; a deleted import that was
\* shown was the last of its chain.
LEMMA DeletedKeeps ==
  ASSUME MemoryInv, NEW m \in Entries, DeleteMemory(m)
  PROVE  MemoryInv'
<1>1. MemoryTypeOK /\ Linked /\ Ranked
  BY DEF MemoryInv
<1>2. /\ entries \in Seq(MemoryRow) /\ Len(entries) \in Nat /\ DOMAIN entries = Entries
      /\ Entries = 1..Len(entries) /\ \A j \in Entries : entries[j] \in MemoryRow
  BY <1>1, EntryFacts DEF Entries
<1>3. entries' = [entries EXCEPT ![m].deleted = TRUE]
  BY DEF DeleteMemory
<1>4. [entries[m] EXCEPT !.deleted = TRUE] \in MemoryRow
  BY <1>2 DEF MemoryRow
<1>5. entries' \in Seq(MemoryRow) /\ Len(entries') = Len(entries)
  BY <1>2, <1>3, <1>4, ExceptSeq
<1>6. /\ Entries' = Entries /\ entries'[m].deleted
      /\ \A j \in Entries \ {m} : entries'[j] = entries[j]
      /\ \A j \in Entries : /\ entries'[j].by = entries[j].by /\ entries'[j].scope = entries[j].scope
                            /\ entries'[j].fixes = entries[j].fixes
  BY <1>2, <1>3, <1>5 DEF Entries, MemoryRow
<1>7. MemoryTypeOK'
  <2>1. meddled' \subseteq {"linked", "posed"}
    BY <1>1 DEF MemoryTypeOK, DeleteMemory, Meddling
  <2>2. QED
    BY <1>1, <1>5, <2>1 DEF MemoryTypeOK, MemoryRow, DeleteMemory
<1>8. Linked' /\ Ranked'
  <2>1. Linked'
    BY <1>1, <1>6 DEF Linked
  <2>2. QED
    BY <1>1, <1>6, <2>1, RankedAfterUnlink
<1>9. ASSUME meddled' = {} PROVE ImportsChain'
  <2>1. ImportsChain /\ (m \in Imports => Current(m)) /\ imported' = imported /\ Kept(m)
    <3>1. meddled = {} /\ ~(m \in Imports /\ ~Current(m)) /\ imported' = imported /\ Kept(m)
      BY <1>9 DEF DeleteMemory, Meddling
    <3>2. QED
      BY <3>1 DEF MemoryInv
  <2>2. Imports' = Imports
    BY <1>6 DEF Imports
  <2>3. KeptImports' = KeptImports \ {m}
    BY <1>6, <2>2 DEF KeptImports, Kept, Imports
  <2>4. CASE m \notin Imports
    <3>1. KeptImports' = KeptImports
      BY <2>3, <2>4 DEF KeptImports
    <3>2. \A j \in Entries' : entries'[j].fixes \in Imports => j \in Imports
      BY <1>6, <2>1 DEF ImportsChain
    <3>3. \A j \in Imports : entries'[j].fixes = entries[j].fixes
      BY <1>6 DEF Imports
    <3>4. QED
      BY <2>1, <2>2, <3>1, <3>2, <3>3, ChainKept
  <2>5. CASE m \in Imports
    <3>1. m \in KeptImports /\ m \in ShownImports
      BY <2>1, <2>5 DEF KeptImports, ShownImports
    <3>2. \A i \in KeptImports : i <= m
      <4>1. PICK k \in KeptImports : ShownImports = {k} /\ \A i \in KeptImports : i <= k
        BY <1>1, <2>1, <3>1, ShownIsLast
      <4>2. QED
        BY <3>1, <4>1
    <3>3. KeptImports \subseteq Nat
      BY <1>2 DEF KeptImports, Imports
    <3>4. ASSUME NEW j \in KeptImports' PROVE entries'[j].fixes # m
      <4>1. j \in KeptImports /\ entries'[j].fixes = entries[j].fixes /\ j <= m /\ j \in Nat /\ m \in Nat
        BY <1>6, <2>3, <3>1, <3>2, <3>3 DEF KeptImports, Imports
      <4>2. entries[j].fixes < j
        BY <2>1, <4>1 DEF ImportsChain
      <4>3. QED
        BY <4>1, <4>2
    <3>5. /\ \A j \in Entries' : entries'[j].fixes \in Imports' => j \in Imports'
          /\ imported' # 0 => imported' \in Imports' /\ \A i \in Imports' : i <= imported'
          /\ imported' = 0 => KeptImports' = {}
      BY <1>6, <2>1, <2>2, <2>3 DEF ImportsChain
    <3>6. ASSUME NEW j \in KeptImports'
          PROVE  /\ entries'[j].fixes \in KeptImports' \cup {0} /\ entries'[j].fixes < j
                 /\ \A i \in KeptImports' : i < j => i <= entries'[j].fixes
      <4>1. j \in KeptImports /\ entries'[j].fixes = entries[j].fixes /\ KeptImports' \subseteq KeptImports
        BY <1>6, <2>3 DEF KeptImports, Imports
      <4>2. QED
        BY <2>1, <2>3, <3>4, <4>1 DEF ImportsChain
    <3>7. QED
      BY <3>5, <3>6 DEF ImportsChain
  <2>6. QED
    BY <2>4, <2>5
<1>10. QED
  BY <1>7, <1>8, <1>9 DEF MemoryInv

\* A new snapshot corrects the last import that is kept.
LEMMA ImportedKeeps ==
  ASSUME MemoryInv, NEW x \in Snapshot, ImportSnapshot(x)
  PROVE  MemoryInv'
<1> DEFINE n == Len(entries) + 1
           e == Entry(Shared, "file", Replaced)
<1>1. MemoryTypeOK /\ Linked /\ Ranked
  BY DEF MemoryInv
<1>2. /\ Replaced \in 0..Len(entries) /\ Replaced \in Entries \cup {0} /\ Len(entries) \in Nat
      /\ Entries = 1..Len(entries) /\ Len(entries) <= MaxEntries /\ MaxEntries \in Nat
  BY <1>1, EntryFacts, ReplacedFacts, MemoryAssumption DEF Entries, MemoryTypeOK
<1>3. e \in MemoryRow /\ e.fixes = Replaced /\ e.by = "file" /\ ~e.deleted /\ e.scope = Shared
  BY <1>2, MemoryAssumption DEF Entry, MemoryRow
<1>4. /\ entries' = Append(entries, e) /\ Len(entries) < MaxEntries
      /\ digest' \in Snapshot /\ imported' = Len(entries') /\ meddled' = meddled
  BY DEF ImportSnapshot
<1> HIDE DEF e
<1>5. /\ entries' \in Seq(MemoryRow) /\ Len(entries') <= MaxEntries /\ Len(entries') = n
      /\ Entries' = Entries \cup {n} /\ n \notin Entries
      /\ \A j \in Entries : entries'[j] = entries[j]
      /\ entries'[n] = e
  BY <1>1, <1>3, <1>4, AppendedFacts
<1>6. MemoryTypeOK'
  <2>1. meddled' \subseteq {"linked", "posed"}
    BY <1>1, <1>4 DEF MemoryTypeOK
  <2>2. imported' \in 0..Len(entries')
    BY <1>2, <1>4, <1>5
  <2>3. QED
    BY <1>4, <1>5, <2>1, <2>2 DEF MemoryTypeOK, MemoryRow
<1>7. Linked'
  BY <1>1, <1>2, <1>3, <1>5 DEF Linked
<1>8. Ranked'
  BY <1>1, <1>2, <1>3, <1>4, RankedAfterAppend
<1>9. ASSUME meddled' = {} PROVE ImportsChain'
  <2>1. /\ ImportsChain /\ imported' = n /\ Replaced \in KeptImports \cup {0}
        /\ \A i \in KeptImports : i <= Replaced
    BY <1>1, <1>4, <1>5, <1>9, ReplacedFacts DEF MemoryInv
  <2>2. Imports' = Imports \cup {n} /\ Imports \subseteq Entries
    BY <1>3, <1>5 DEF Imports
  <2>3. KeptImports' = KeptImports \cup {n} /\ KeptImports \subseteq Imports
    BY <1>3, <1>5, <2>2 DEF KeptImports, Kept, Imports
  <2>4. n \in Nat \ {0} /\ \A j \in Entries : j < n /\ j \in Nat
    BY <1>2
  <2> HIDE DEF n
  <2>5. \A j \in Entries' : entries'[j].fixes \in Imports' => j \in Imports'
    <3>1. \A j \in Entries : entries'[j].fixes # n
      BY <1>1, <1>5, <2>4 DEF Linked
    <3>2. QED
      BY <1>5, <2>1, <2>2, <3>1 DEF ImportsChain
  <2>6. \A i \in Imports' : i <= imported'
    BY <2>1, <2>2, <2>4
  <2>7. ASSUME NEW j \in KeptImports'
        PROVE  /\ entries'[j].fixes \in KeptImports' \cup {0} /\ entries'[j].fixes < j
               /\ \A i \in KeptImports' : i < j => i <= entries'[j].fixes
    <3>1. CASE j = n
      BY <1>2, <1>3, <1>5, <2>1, <2>2, <2>3, <2>4, <3>1
    <3>2. CASE j \in KeptImports
      <4>1. entries'[j].fixes = entries[j].fixes /\ j \in Nat /\ ~(n < j)
        BY <1>5, <2>2, <2>3, <2>4, <3>2
      <4>2. QED
        BY <2>1, <2>3, <3>2, <4>1 DEF ImportsChain
    <3>3. QED
      BY <2>3, <2>7, <3>1, <3>2
  <2>8. QED
    BY <2>1, <2>2, <2>4, <2>5, <2>6, <2>7 DEF ImportsChain
<1>10. QED
  BY <1>6, <1>7, <1>8, <1>9 DEF MemoryInv

\* A retired document has no import that is kept.
LEMMA RetiredKeeps == MemoryInv /\ RetireDocument => MemoryInv'
<1> SUFFICES ASSUME MemoryInv, RetireDocument PROVE MemoryInv'
  OBVIOUS
<1>1. MemoryTypeOK /\ Linked /\ Ranked
  BY DEF MemoryInv
<1>2. /\ entries \in Seq(MemoryRow) /\ Len(entries) \in Nat /\ DOMAIN entries = Entries
      /\ Entries = 1..Len(entries) /\ \A j \in Entries : entries[j] \in MemoryRow
  BY <1>1, EntryFacts DEF Entries
<1>3. /\ entries' = [i \in Entries |-> [entries[i] EXCEPT !.deleted = @ \/ i \in Imports]]
      /\ digest' = Empty /\ imported' = 0 /\ meddled' = meddled
  BY DEF RetireDocument
<1>4. \A i \in Entries : [entries[i] EXCEPT !.deleted = @ \/ i \in Imports] \in MemoryRow
  BY <1>2 DEF MemoryRow
<1>5. entries' \in Seq(MemoryRow) /\ Len(entries') = Len(entries)
  <2>1. entries' \in [1..Len(entries) -> MemoryRow]
    BY <1>2, <1>3, <1>4
  <2>2. QED
    BY <1>2, <2>1, SeqDef, LenProperties
<1>6. /\ Entries' = Entries
      /\ \A j \in Entries : /\ entries'[j].by = entries[j].by /\ entries'[j].scope = entries[j].scope
                            /\ entries'[j].fixes = entries[j].fixes
                            /\ j \in Imports => entries'[j].deleted
  BY <1>2, <1>3, <1>5 DEF Entries, MemoryRow
<1>7. MemoryTypeOK'
  <2>1. meddled' \subseteq {"linked", "posed"} /\ imported' \in 0..Len(entries') /\ Len(entries') <= MaxEntries
    BY <1>1, <1>2, <1>3, <1>5 DEF MemoryTypeOK
  <2>2. QED
    BY <1>3, <1>5, <2>1 DEF MemoryTypeOK, MemoryRow
<1>8. Linked' /\ Ranked'
  <2>1. Linked'
    BY <1>1, <1>6 DEF Linked
  <2>2. QED
    BY <1>1, <1>6, <2>1, RankedAfterUnlink
<1>9. ASSUME meddled' = {} PROVE ImportsChain'
  <2>1. ImportsChain
    BY <1>3, <1>9 DEF MemoryInv
  <2>2. Imports' = Imports
    BY <1>6 DEF Imports
  <2>3. KeptImports' = {}
    BY <1>6, <2>2 DEF KeptImports, Kept, Imports
  <2>4. imported' = 0 /\ digest' = Empty
    BY <1>3
  <2>5. QED
    BY <1>6, <2>1, <2>2, <2>3, <2>4 DEF ImportsChain
<1>10. QED
  BY <1>7, <1>8, <1>9 DEF MemoryInv

\* Corrections never run in a circle, and unless somebody meddled the imports
\* that are kept form one chain in the order of their arrival.
THEOREM MemoryInvariant == MemorySpec => []MemoryInv
<1>1. MemoryInit => MemoryInv
  BY MemoryInvInit
<1>2. MemoryInv /\ [MemoryNext]_memoryVars => MemoryInv'
  <2> SUFFICES ASSUME MemoryInv, [MemoryNext]_memoryVars PROVE MemoryInv'
    OBVIOUS
  <2>1. ASSUME NEW s \in Visibility, NEW who \in {"chat", "file"}, NEW i \in Entries \cup {0},
               CreateMemory(s, who, i)
        PROVE  MemoryInv'
    BY <2>1, CreatedKeeps
  <2>2. ASSUME NEW m \in Entries, DeleteMemory(m) PROVE MemoryInv'
    BY <2>2, DeletedKeeps
  <2>3. ASSUME NEW m \in Entries, NEW who \in {"chat", "file"}, NEW i \in Entries \cup {0},
               UpdateMemory(m, who, i)
        PROVE  MemoryInv'
    BY <2>3, UpdatedKeeps
  <2>4. ASSUME NEW x \in Snapshot, ImportSnapshot(x) PROVE MemoryInv'
    BY <2>4, ImportedKeeps
  <2>5. CASE RetireDocument
    BY <2>5, RetiredKeeps
  <2>6. CASE UNCHANGED memoryVars
    BY <2>6 DEF memoryVars, MemoryInv, MemoryTypeOK, Linked, Ranked, ImportsChain, KeptImports,
                Imports, Kept, Entries
  <2>7. QED
    BY <2>1, <2>2, <2>3, <2>4, <2>5, <2>6 DEF MemoryNext
<1>3. QED
  BY <1>1, <1>2, PTL DEF MemorySpec

\* _validate_memory_replacement does what it is for: whatever is corrected,
\* relinked and deleted in whatever order, every chain of entries that are
\* kept has one that is shown.
THEOREM FactsAlwaysSurface == MemorySpec => []FactsSurface
<1>1. MemoryInv => FactsSurface
  BY RankedSurfaces DEF MemoryInv
<1>2. QED
  BY <1>1, MemoryInvariant, PTL

\* At most one snapshot of the gateway's document is shown, however many were
\* imported, deleted and uncovered again.
THEOREM ImportsAgree == MemorySpec => []OneImport
<1>1. ASSUME MemoryInv, meddled = {} PROVE Cardinality(ShownImports) <= 1
  <2>1. MemoryTypeOK /\ Linked /\ ImportsChain
    BY <1>1 DEF MemoryInv
  <2>2. CASE KeptImports = {}
    <3>1. ShownImports = {}
      BY <2>2 DEF ShownImports, KeptImports, Current
    <3>2. QED
      BY <3>1, FS_EmptySet
  <2>3. CASE KeptImports # {}
    <3>1. PICK m \in KeptImports : ShownImports = {m}
      BY <2>1, <2>3, ShownIsLast
    <3>2. QED
      BY <3>1, FS_Singleton
  <2>4. QED
    BY <2>2, <2>3
<1>2. MemoryInv => OneImport
  BY <1>1 DEF OneImport
<1>3. QED
  BY <1>2, MemoryInvariant, PTL

-----------------------------------------------------------------------------
(* Homes: the history of a bot *)

MessageRow == [in : 1..made, at : 0..MaxSecond, by : {"user", "assistant"}, imported : BOOLEAN]
ReaderRow(n) == [top : (0..MaxSecond) \X (0..n), cursor : 0..n, got : SUBSET (1..n), done : BOOLEAN,
                 late : SUBSET (1..n), adrift : BOOLEAN]

\* No message, and no first page, is from the future.
Paced == /\ \A i \in 1..Len(messages) : messages[i].at <= second
         /\ reader.top[1] <= second

\* A reader that is not adrift has what was written from its cursor to the
\* newest message of its first page, and all before that when it is done.
ReaderHolds ==
  reader.top # Nowhere =>
    /\ reader.cursor \in 1..Len(messages)
    /\ ~reader.adrift =>
         \A i \in 1..Len(messages) \ reader.late :
           ~Precedes(reader.top, Place(i)) /\ (reader.done \/ ~Before(i, reader.cursor)) => i \in reader.got

HomesInv == HomesTypeOK /\ Paced /\ ReaderHolds

\* The parts of the type.
LEMMA HomesFacts ==
  ASSUME HomesTypeOK
  PROVE  /\ made \in Nat /\ made <= MaxChats /\ MaxChats \in Nat /\ MaxSecond \in Nat /\ second \in 0..MaxSecond
         /\ messages \in Seq(MessageRow) /\ Len(messages) \in Nat /\ DOMAIN messages = 1..Len(messages)
         /\ \A i \in 1..Len(messages) : messages[i] \in MessageRow /\ messages[i].at \in Nat
                                        /\ Place(i) \in Nat \X Nat
         /\ reader \in ReaderRow(Len(messages)) /\ reader.top \in Nat \X Nat /\ mark \in Nat \X Nat
         /\ imports \in 0..MaxImports /\ MaxImports \in Nat
<1>1. messages \in Seq(MessageRow)
  BY DEF HomesTypeOK, MessageRow
<1>2. Len(messages) \in Nat /\ DOMAIN messages = 1..Len(messages) /\ \A i \in 1..Len(messages) : messages[i] \in MessageRow
  BY <1>1, LenProperties, ElementOfSeq
<1>3. \A i \in 1..Len(messages) : messages[i].at \in Nat /\ Place(i) \in Nat \X Nat
  BY <1>2, HomesAssumption DEF MessageRow, Place
<1>4. reader \in ReaderRow(Len(messages))
  BY DEF HomesTypeOK, ReaderRow
<1>5. reader.top \in Nat \X Nat /\ mark \in Nat \X Nat
  <2>1. (0..MaxSecond) \X (0..Len(messages)) \subseteq Nat \X Nat
    BY <1>2, HomesAssumption
  <2>2. QED
    BY <1>4, <2>1 DEF HomesTypeOK, ReaderRow
<1>6. QED
  BY <1>1, <1>2, <1>3, <1>4, <1>5, HomesAssumption DEF HomesTypeOK

\* What of it is not about places.
LEMMA HomesNumbers ==
  ASSUME HomesTypeOK
  PROVE  /\ made \in Nat /\ made <= MaxChats /\ made \in 0..MaxChats /\ MaxChats \in Nat /\ MaxSecond \in Nat
         /\ second \in 0..MaxSecond /\ second \in Nat
         /\ Len(messages) \in Nat /\ DOMAIN messages = 1..Len(messages)
         /\ messages \in Seq(MessageRow) /\ MessageRow \subseteq [in : 1..made, at : 0..MaxSecond,
                                                                by : {"user", "assistant"}, imported : BOOLEAN]
         /\ \A i \in 1..Len(messages) :
              /\ messages[i].in \in 1..made /\ messages[i].at \in 0..MaxSecond /\ messages[i].at \in Nat
              /\ messages[i].by \in {"user", "assistant"} /\ messages[i].imported \in BOOLEAN
              /\ messages[i] = [in |-> messages[i].in, at |-> messages[i].at, by |-> messages[i].by,
                                imported |-> messages[i].imported]
         /\ closed \subseteq 1..made /\ home \in 0..made /\ aliases \subseteq 1..made /\ away \in BOOLEAN
         /\ imports \in 0..MaxImports /\ MaxImports \in Nat
<1>1. \A i \in 1..Len(messages) : messages[i] \in MessageRow
  BY HomesFacts
<1>2. \A i \in 1..Len(messages) :
        /\ messages[i].in \in 1..made /\ messages[i].at \in 0..MaxSecond
        /\ messages[i].by \in {"user", "assistant"} /\ messages[i].imported \in BOOLEAN
        /\ messages[i] = [in |-> messages[i].in, at |-> messages[i].at, by |-> messages[i].by,
                          imported |-> messages[i].imported]
  BY <1>1 DEF MessageRow
<1>3. made \in 0..MaxChats /\ closed \subseteq 1..made /\ home \in 0..made /\ aliases \subseteq 1..made /\ away \in BOOLEAN
  BY DEF HomesTypeOK
<1>4. second \in Nat
  BY HomesFacts
<1>5. \A i \in 1..Len(messages) : messages[i].at \in Nat
  BY HomesFacts
<1>6. MessageRow \subseteq [in : 1..made, at : 0..MaxSecond, by : {"user", "assistant"}, imported : BOOLEAN]
  BY DEF MessageRow
<1>7. QED
  BY <1>2, <1>3, <1>4, <1>5, <1>6, HomesFacts

\* The reader, field by field.
LEMMA ReaderFacts ==
  ASSUME HomesTypeOK
  PROVE  /\ reader.top \in (0..MaxSecond) \X (0..Len(messages))
         /\ reader.top[1] \in 0..MaxSecond /\ reader.top[1] \in Nat
         /\ reader.top[2] \in 0..Len(messages) /\ reader.cursor \in 0..Len(messages)
         /\ reader.got \subseteq 1..Len(messages) /\ reader.late \subseteq 1..Len(messages)
         /\ reader.done \in BOOLEAN /\ reader.adrift \in BOOLEAN
         /\ reader = [top |-> reader.top, cursor |-> reader.cursor, got |-> reader.got,
                      done |-> reader.done, late |-> reader.late, adrift |-> reader.adrift]
<1>1. reader \in ReaderRow(Len(messages)) /\ MaxSecond \in Nat
  BY HomesFacts
<1>2. /\ reader.top \in (0..MaxSecond) \X (0..Len(messages)) /\ reader.cursor \in 0..Len(messages)
      /\ reader.got \subseteq 1..Len(messages) /\ reader.late \subseteq 1..Len(messages)
      /\ reader.done \in BOOLEAN /\ reader.adrift \in BOOLEAN
      /\ reader = [top |-> reader.top, cursor |-> reader.cursor, got |-> reader.got,
                   done |-> reader.done, late |-> reader.late, adrift |-> reader.adrift]
  BY <1>1 DEF ReaderRow
<1>3. reader.top[1] \in 0..MaxSecond /\ reader.top[2] \in 0..Len(messages)
  BY <1>2
<1>4. reader.top[1] \in Nat
  BY <1>1, <1>3
<1>5. QED
  BY <1>2, <1>3, <1>4

\* Places are in a strict total order.
LEMMA PlacesOrdered ==
  /\ \A p \in Nat \X Nat : ~Precedes(p, p)
  /\ \A p, q \in Nat \X Nat : Precedes(p, q) \/ Precedes(q, p) \/ p = q
  /\ \A p, q \in Nat \X Nat : Precedes(p, q) => ~Precedes(q, p)
  /\ \A p, q, r \in Nat \X Nat : Precedes(p, q) /\ Precedes(q, r) => Precedes(p, r)
  /\ \A p, q, r \in Nat \X Nat : ~Precedes(p, q) /\ Precedes(p, r) => Precedes(q, r)
<1>1. \A p \in Nat \X Nat : p[1] \in Nat /\ p[2] \in Nat /\ p = <<p[1], p[2]>>
  OBVIOUS
<1>2. \A p, q \in Nat \X Nat : p[1] = q[1] /\ p[2] = q[2] => p = q
  BY <1>1
<1>3. QED
  BY <1>1, <1>2 DEF Precedes

\* A new message comes last.
LEMMA StoredKeeps ==
  ASSUME HomesTypeOK, NEW c \in 1..made', made <= made', made' \in Nat, NEW t \in 0..MaxSecond, t <= second,
         NEW who \in {"user", "assistant"}, NEW imp \in BOOLEAN, Paced,
         messages' = Append(messages, [in |-> c, at |-> t, by |-> who, imported |-> imp])
  PROVE  /\ messages' \in Seq(MessageRow)' /\ Len(messages') = Len(messages) + 1
         /\ \A i \in 1..Len(messages) : messages'[i] = messages[i]
         /\ messages'[Len(messages) + 1].at = t
         /\ \A i \in 1..Len(messages') : messages'[i].at <= second
<1> DEFINE e == [in |-> c, at |-> t, by |-> who, imported |-> imp]
           NewRow == [in : 1..made', at : 0..MaxSecond, by : {"user", "assistant"}, imported : BOOLEAN]
<1>1. e \in NewRow /\ e.at = t
  OBVIOUS
<1>2. messages' = Append(messages, e)
  OBVIOUS
<1>3. messages \in Seq(NewRow)
  <2>1. MessageRow \subseteq NewRow
    BY HomesNumbers
  <2> HIDE DEF NewRow
  <2>2. Seq(MessageRow) \subseteq Seq(NewRow)
    BY <2>1
  <2>3. QED
    BY <2>2, HomesFacts
<1>4. Seq(MessageRow)' = Seq(NewRow)
  BY DEF MessageRow
<1> HIDE DEF e, NewRow
<1>5. /\ messages' \in Seq(NewRow) /\ Len(messages') = Len(messages) + 1 /\ Len(messages) \in Nat
      /\ \A i \in 1..Len(messages) : messages'[i] = messages[i]
      /\ messages'[Len(messages) + 1] = e
  BY <1>1, <1>2, <1>3, HomesFacts, AppendProperties
<1>6. \A i \in 1..Len(messages') : i \in 1..Len(messages) \/ i = Len(messages) + 1
  BY <1>5
<1>7. QED
  BY <1>1, <1>4, <1>5, <1>6 DEF Paced

\* A home is one of the conversations, and every conversation has an alias.
LEMMA HomeMade ==
  ASSUME HomesTypeOK, MakesHome, made > 0 \/ MaxChats > 0
  PROVE  /\ made' \in 0..MaxChats /\ made' \in Nat /\ made <= made' /\ (made > 0 => made' = made)
         /\ home' \in 1..made' /\ home' \in 0..made' /\ aliases' = 1..made' /\ aliases' \subseteq 1..made'
         /\ closed \subseteq 1..made'
<1>1. /\ made' = IF made = 0 THEN 1 ELSE made
      /\ home' = IF home = 0 THEN 1 ELSE home
      /\ aliases' = 1..made'
  BY DEF MakesHome, MadeAliases
<1>2. made \in Nat /\ made <= MaxChats /\ MaxChats \in Nat /\ home \in 0..made /\ closed \subseteq 1..made
  BY HomesNumbers
<1>3. made' \in 0..MaxChats /\ made' \in Nat /\ made <= made' /\ (made > 0 => made' = made) /\ home' \in 1..made'
  BY <1>1, <1>2
<1>4. 1..made \subseteq 1..made' /\ home' \in 0..made'
  BY <1>2, <1>3
<1>5. QED
  BY <1>1, <1>2, <1>3, <1>4

\* A reader goes on holding what it holds when messages arrive, are moved or
\* imported, if it knows of those that come before the present.
LEMMA ReaderStays ==
  ASSUME HomesInv, second' \in Nat, second <= second',
         Len(messages') \in Nat, Len(messages) <= Len(messages'),
         \A i \in 1..Len(messages') : messages'[i].at \in Nat,
         \A i \in 1..Len(messages') \ reader'.late :
           IF i <= Len(messages) THEN messages'[i].at = messages[i].at ELSE messages'[i].at = second',
         reader'.top = reader.top, reader'.cursor = reader.cursor, reader'.done = reader.done,
         reader'.got = reader.got, reader.late \subseteq reader'.late,
         reader.top # Nowhere /\ ~reader'.adrift =>
           ~reader.adrift /\ messages[reader.cursor].at <= messages'[reader.cursor].at
  PROVE  ReaderHolds'
<1>1. HomesTypeOK /\ Paced /\ ReaderHolds
  BY DEF HomesInv
<1> DEFINE n == Len(messages)
           m == Len(messages')
<1> SUFFICES ASSUME reader.top # Nowhere
             PROVE  /\ reader.cursor \in 1..m
                    /\ ~reader'.adrift =>
                         \A i \in 1..m \ reader'.late :
                           ~Precedes(reader.top, Place(i)') /\ (reader.done \/ ~Before(i, reader.cursor)')
                             => i \in reader.got
  BY DEF ReaderHolds, Before, Place, Precedes
<1>2. reader.cursor \in 1..n /\ n \in Nat /\ m \in Nat /\ n <= m
  BY <1>1, HomesFacts DEF ReaderHolds
<1>3. reader.cursor \in 1..m
  BY <1>2
<1>4. \A i \in 1..m : Place(i)' = <<messages'[i].at, i>> /\ Place(i)' \in Nat \X Nat
  BY <1>2 DEF Place
<1>5. \A i \in 1..n : Place(i) = <<messages[i].at, i>> /\ Place(i) \in Nat \X Nat /\ messages[i].at \in Nat
  BY <1>1, HomesFacts DEF Place
<1>6. ASSUME ~reader'.adrift, NEW i \in 1..m \ reader'.late, ~Precedes(reader.top, Place(i)'),
             reader.done \/ ~Before(i, reader.cursor)'
      PROVE  i \in reader.got
  <2>1. i \in 1..n
    <3> SUFFICES ASSUME i > n PROVE FALSE
      BY <1>2, <1>6
    <3>1. messages'[i].at = second' /\ ~(i <= n)
      BY <1>2, <1>6
    <3>2. reader.top[1] <= second /\ reader.top[1] \in Nat /\ reader.top[2] \in 0..n /\ second \in Nat
      BY <1>1, HomesNumbers, ReaderFacts DEF Paced
    <3>3. Precedes(reader.top, <<second', i>>)
      BY <1>2, <3>1, <3>2 DEF Precedes
    <3>4. QED
      BY <1>4, <1>6, <3>1, <3>3
  <2>2. Place(i)' = Place(i) /\ i \notin reader.late
    <3>1. i <= n /\ messages'[i].at = messages[i].at
      BY <1>2, <1>6, <2>1
    <3>2. QED
      BY <1>6, <3>1 DEF Place
  <2>3. ~reader.done => ~Before(i, reader.cursor)
    <3> SUFFICES ASSUME ~reader.done, Before(i, reader.cursor) PROVE FALSE
      OBVIOUS
    <3>1. messages[reader.cursor].at <= messages'[reader.cursor].at /\ messages'[reader.cursor].at \in Nat
      BY <1>3, <1>6
    <3>2. messages'[i].at = messages[i].at
      BY <1>2, <1>6, <2>1
    <3>3. \/ messages[i].at < messages[reader.cursor].at
          \/ messages[i].at = messages[reader.cursor].at /\ i < reader.cursor
      BY DEF Before, Precedes, Place
    <3>4. \/ messages'[i].at < messages'[reader.cursor].at
          \/ messages'[i].at = messages'[reader.cursor].at /\ i < reader.cursor
      BY <1>2, <1>5, <2>1, <3>1, <3>2, <3>3
    <3>5. Before(i, reader.cursor)'
      BY <3>4 DEF Before, Precedes, Place
    <3>6. QED
      BY <1>6, <3>5
  <2>4. ~reader.adrift
    BY <1>6
  <2>5. QED
    BY <1>1, <1>6, <2>1, <2>2, <2>3, <2>4 DEF ReaderHolds
<1>7. QED
  BY <1>3, <1>6

\* Without a message every page is in order.
LEMMA HomesInvInit == HomesInit => HomesInv
<1> SUFFICES ASSUME HomesInit PROVE HomesInv
  OBVIOUS
<1>1. messages = <<>> /\ Len(messages) = 0 /\ 1..Len(messages) = {} /\ MaxChats \in Nat /\ MaxSecond \in Nat
      /\ MaxImports \in Nat
  BY EmptySeq, HomesAssumption DEF HomesInit
<1>2. messages \in Seq([in : 1..made, at : 0..MaxSecond, by : {"user", "assistant"}, imported : BOOLEAN])
  BY <1>1, EmptySeq
<1>3. Nowhere \in (0..MaxSecond) \X (0..Len(messages))
  BY <1>1 DEF Nowhere
<1>4. reader \in ReaderRow(Len(messages))
  BY <1>1, <1>3 DEF HomesInit, NotReading, ReaderRow
<1>5. HomesTypeOK
  <2>1. made \in 0..MaxChats /\ second \in 0..MaxSecond /\ home \in 0..made /\ imports \in 0..MaxImports
    BY <1>1 DEF HomesInit
  <2>2. QED
    BY <1>2, <1>3, <1>4, <2>1 DEF HomesInit, HomesTypeOK, ReaderRow
<1>6. Paced /\ ReaderHolds
  BY <1>1 DEF Paced, ReaderHolds, HomesInit, NotReading, Nowhere
<1>7. QED
  BY <1>5, <1>6 DEF HomesInv

\* Steps that leave the messages and the reader alone.
LEMMA UnwrittenKeeps ==
  ASSUME HomesInv, messages' = messages, reader' = reader, imports' = imports,
         made' \in 0..MaxChats, made <= made', closed' \subseteq 1..made', home' \in 0..made',
         aliases' \subseteq 1..made', away' \in BOOLEAN,
         second' \in 0..MaxSecond, second <= second', mark' \in (0..MaxSecond) \X (0..Len(messages))
  PROVE  HomesInv'
<1>1. HomesTypeOK /\ Paced /\ ReaderHolds
  BY DEF HomesInv
<1>2. messages' \in Seq(MessageRow)'
  <2>1. MessageRow \subseteq MessageRow'
    <3>1. 1..made \subseteq 1..made'
      BY <1>1, HomesNumbers
    <3>2. QED
      BY <3>1 DEF MessageRow
  <2>2. Seq(MessageRow) \subseteq Seq(MessageRow')
    BY <2>1
  <2>3. QED
    BY <1>1, <2>2, HomesFacts
<1>3. HomesTypeOK'
  BY <1>1, <1>2 DEF HomesTypeOK, MessageRow
<1>4. Paced'
  <2>1. \A i \in 1..Len(messages) : messages[i].at \in Nat /\ messages[i].at <= second
    BY <1>1, HomesFacts DEF Paced
  <2>2. reader.top[1] \in Nat /\ reader.top[1] <= second /\ second \in Nat /\ second' \in Nat
    BY <1>1, HomesFacts DEF Paced
  <2>3. QED
    BY <2>1, <2>2 DEF Paced
<1>5. ReaderHolds'
  BY <1>1 DEF ReaderHolds, Before, Place, Precedes
<1>6. QED
  BY <1>3, <1>4, <1>5 DEF HomesInv

\* Steps that store a message, of now or of a reader that knows of it.
LEMMA WrittenKeeps ==
  ASSUME HomesInv, NEW c \in 1..made', NEW t \in 0..MaxSecond, t <= second,
         NEW who \in {"user", "assistant"}, NEW imp \in BOOLEAN,
         messages' = Append(messages, [in |-> c, at |-> t, by |-> who, imported |-> imp]),
         made' \in 0..MaxChats, made <= made', second' = second, closed' = closed, mark' = mark,
         home' \in 0..made', aliases' \subseteq 1..made', away' \in BOOLEAN, imports' \in 0..MaxImports,
         \/ t = second /\ reader' = reader
         \/ reader.top = Nowhere /\ reader' = reader
         \/ reader' = [reader EXCEPT !.late = @ \cup {Len(messages) + 1}, !.adrift = @ \/ FALSE]
  PROVE  HomesInv'
<1> DEFINE n == Len(messages)
<1>1. HomesTypeOK /\ Paced /\ ReaderHolds
  BY DEF HomesInv
<1>2. n \in Nat /\ made \in Nat /\ made' \in Nat /\ second \in Nat /\ reader \in ReaderRow(n)
      /\ mark \in (0..MaxSecond) \X (0..n) /\ closed \subseteq 1..made
  <2>1. mark \in (0..MaxSecond) \X (0..n) /\ reader \in ReaderRow(n)
    BY <1>1 DEF HomesTypeOK, ReaderRow
  <2>2. n \in Nat /\ made \in Nat /\ second \in Nat /\ closed \subseteq 1..made /\ MaxChats \in Nat
    BY <1>1, HomesNumbers
  <2>3. made' \in Nat
    BY <2>2
  <2>4. QED
    BY <2>1, <2>2, <2>3
<1>3. /\ messages' \in Seq(MessageRow)' /\ Len(messages') = n + 1
      /\ \A i \in 1..n : messages'[i] = messages[i]
      /\ messages'[n + 1].at = t
      /\ \A i \in 1..(n + 1) : messages'[i].at <= second
  BY <1>1, <1>2, StoredKeeps
<1>4. 0..n \subseteq 0..(n + 1) /\ 1..n \subseteq 1..(n + 1)
  BY <1>2
<1>5. /\ reader.top \in (0..MaxSecond) \X (0..(n + 1)) /\ reader.cursor \in 0..(n + 1)
      /\ reader.got \subseteq 1..(n + 1) /\ reader.late \subseteq 1..(n + 1)
      /\ reader.done \in BOOLEAN /\ reader.adrift \in BOOLEAN
      /\ reader = [top |-> reader.top, cursor |-> reader.cursor, got |-> reader.got,
                   done |-> reader.done, late |-> reader.late, adrift |-> reader.adrift]
  <2>1. (0..MaxSecond) \X (0..n) \subseteq (0..MaxSecond) \X (0..(n + 1))
    BY <1>4
  <2>2. QED
    BY <1>2, <1>4, <2>1 DEF ReaderRow
<1>6. /\ reader'.top = reader.top /\ reader'.cursor = reader.cursor /\ reader'.done = reader.done
      /\ reader'.got = reader.got /\ reader.late \subseteq reader'.late /\ reader'.adrift = reader.adrift
      /\ reader'.late \subseteq 1..(n + 1)
      /\ reader.top # Nowhere => t = second \/ n + 1 \in reader'.late
      /\ reader' = [top |-> reader'.top, cursor |-> reader'.cursor, got |-> reader'.got,
                    done |-> reader'.done, late |-> reader'.late, adrift |-> reader'.adrift]
  <2>1. CASE reader' = reader
    BY <1>5, <2>1
  <2>2. CASE reader' # reader
    <3>1. reader' = [top |-> reader.top, cursor |-> reader.cursor, got |-> reader.got, done |-> reader.done,
                     late |-> reader.late \cup {n + 1}, adrift |-> reader.adrift]
      <4>1. reader' = [reader EXCEPT !.late = @ \cup {n + 1}, !.adrift = @ \/ FALSE]
        BY <2>2
      <4>2. (reader.adrift \/ FALSE) = reader.adrift
        BY <1>5
      <4> HIDE DEF n
      <4>3. QED
        BY <1>5, <4>1, <4>2
    <3>2. n + 1 \in 1..(n + 1)
      BY <1>2
    <3> HIDE DEF n
    <3>3. QED
      BY <1>5, <3>1, <3>2
  <2>3. QED
    BY <2>1, <2>2
<1>7. reader' \in ReaderRow(n + 1)
  BY <1>5, <1>6 DEF ReaderRow
<1>8. mark \in (0..MaxSecond) \X (0..(n + 1)) /\ closed \subseteq 1..made'
  <2>1. (0..MaxSecond) \X (0..n) \subseteq (0..MaxSecond) \X (0..(n + 1)) /\ 1..made \subseteq 1..made'
    BY <1>2, <1>4
  <2>2. QED
    BY <1>2, <2>1
<1>9. HomesTypeOK'
  BY <1>1, <1>3, <1>7, <1>8 DEF HomesTypeOK, MessageRow, ReaderRow
<1>10. Paced'
  BY <1>1, <1>3, <1>6 DEF Paced
<1>11. ReaderHolds'
  <2>1. CASE reader.top = Nowhere
    BY <1>6, <2>1 DEF ReaderHolds, Nowhere
  <2>2. CASE reader.top # Nowhere
    <3>1. \A i \in 1..n : messages[i].at \in Nat
      BY <1>1, HomesFacts
    <3>2. \A i \in 1..(n + 1) : messages'[i].at \in Nat /\ (~(i <= n) => i = n + 1)
      BY <1>2, <1>3, <1>4, <3>1
    <3>3. \A i \in 1..(n + 1) \ reader'.late :
            IF i <= n THEN messages'[i].at = messages[i].at ELSE messages'[i].at = second
      BY <1>2, <1>3, <1>6, <2>2, <3>2
    <3>4. reader.cursor \in 1..n /\ messages'[reader.cursor].at = messages[reader.cursor].at
          /\ messages[reader.cursor].at \in Nat
      BY <1>1, <1>3, <2>2, <3>1 DEF ReaderHolds
    <3>5. messages[reader.cursor].at <= messages'[reader.cursor].at
      BY <3>4
    <3>6. n <= n + 1 /\ n + 1 \in Nat /\ second <= second
      BY <1>2
    <3>7. QED
      BY <1>2, <1>3, <1>6, <3>2, <3>3, <3>5, <3>6, ReaderStays
  <2>3. QED
    BY <2>1, <2>2
<1>12. QED
  BY <1>9, <1>10, <1>11 DEF HomesInv

\* Importing keeps it.
LEMMA ImportsKeep ==
  ASSUME HomesInv, NEW t \in 0..MaxSecond, NEW who \in {"user", "assistant"},
         Import(t, who) \/ \E i \in DOMAIN messages : Reimport(i, t, who)
  PROVE  HomesInv'
<1> DEFINE n == Len(messages)
<1>1. HomesTypeOK /\ Paced /\ ReaderHolds
  BY DEF HomesInv
<1>2. n \in Nat /\ DOMAIN messages = 1..n /\ made \in Nat /\ MaxChats \in Nat /\ second \in 0..MaxSecond
      /\ imports \in 0..MaxImports /\ MaxImports \in Nat /\ reader \in ReaderRow(n) /\ messages \in Seq(MessageRow)
      /\ \A i \in 1..n : messages[i] \in MessageRow /\ messages[i].at \in Nat
  BY <1>1, HomesFacts
<1>3. imports' \in 0..MaxImports
  <2>1. imports < MaxImports /\ imports' = imports + 1
    BY DEF Import, Reimport, Imported
  <2>2. QED
    BY <1>2, <2>1
<1>4. MakesHome /\ (made > 0 \/ MaxChats > 0) /\ t <= second /\ UNCHANGED <<closed, away, second, mark>>
  <2>1. CASE Import(t, who)
    BY <2>1 DEF Import
  <2>2. ASSUME NEW i \in DOMAIN messages, Reimport(i, t, who)
        PROVE  MakesHome /\ made > 0 /\ t <= second /\ UNCHANGED <<closed, away, second, mark>>
    <3>1. messages[i].in \in 1..made
      BY <1>2 DEF MessageRow
    <3>2. QED
      BY <1>2, <2>2, <3>1 DEF Reimport
  <2>3. QED
    BY <2>1, <2>2
<1>5. /\ made' \in 0..MaxChats /\ made' \in Nat /\ made <= made' /\ home' \in 1..made' /\ home' \in 0..made'
      /\ aliases' \subseteq 1..made' /\ closed \subseteq 1..made'
  BY <1>1, <1>4, HomeMade
<1>6. CASE Import(t, who)
  <2>1. messages' = Append(messages, [in |-> home', at |-> t, by |-> who, imported |-> TRUE])
    BY <1>6 DEF Import, Stored
  <2>2. Len(messages') = n + 1
    BY <1>1, <1>4, <1>5, <2>1, StoredKeeps
  <2>3. \/ reader.top = Nowhere /\ reader' = reader
        \/ reader' = [reader EXCEPT !.late = @ \cup {n + 1}, !.adrift = @ \/ FALSE]
    BY <1>6, <2>2 DEF Import, Imported
  <2>4. away' \in BOOLEAN
    BY <1>1, <1>4 DEF HomesTypeOK
  <2>5. QED
    BY <1>3, <1>4, <1>5, <2>1, <2>3, <2>4, WrittenKeeps
<1>7. ASSUME NEW i \in DOMAIN messages, Reimport(i, t, who) PROVE HomesInv'
  <2>1. /\ messages' = [messages EXCEPT ![i] = [in |-> @.in, at |-> t, by |-> who, imported |-> TRUE]] /\ i \in 1..n
        /\ Imported(i, i = reader.cursor /\ t < messages[i].at)
    BY <1>2, <1>7 DEF Reimport
  <2> DEFINE e == [in |-> messages[i].in, at |-> t, by |-> who, imported |-> TRUE]
             NewRow == [in : 1..made', at : 0..MaxSecond, by : {"user", "assistant"}, imported : BOOLEAN]
  <2>2. /\ \A j \in 1..n : messages'[j] = IF j = i THEN e ELSE messages[j]
        /\ messages' = [j \in 1..n |-> messages'[j]]
    <3>1. messages' = [messages EXCEPT ![i] = e]
      BY <2>1
    <3>2. messages = [j \in 1..n |-> messages[j]]
      BY <1>2
    <3>3. messages' = [j \in 1..n |-> IF j = i THEN e ELSE messages[j]]
      BY <3>1, <3>2
    <3> HIDE DEF e
    <3>4. QED
      BY <3>3
  <2>3. e \in NewRow /\ e.at = t /\ \A j \in 1..n : messages[j] \in NewRow
    <3>1. 1..made \subseteq 1..made'
      BY <1>2, <1>5
    <3>2. messages[i].in \in 1..made /\ messages[i].imported \in BOOLEAN
      BY <1>1, <2>1, HomesNumbers
    <3>3. \A j \in 1..n : messages[j] \in NewRow
      BY <1>2, <3>1 DEF MessageRow
    <3>4. QED
      BY <3>1, <3>2, <3>3
  <2>4. Seq(MessageRow)' = Seq(NewRow)
    BY DEF MessageRow
  <2> HIDE DEF e, NewRow
  <2>5. messages' \in Seq(NewRow) /\ Len(messages') = n
    <3>1. messages' \in [1..n -> NewRow]
      BY <2>2, <2>3
    <3>2. QED
      BY <1>2, <3>1, SeqDef, LenProperties
  <2>6. \A j \in 1..n : /\ messages'[j].at = IF j = i THEN t ELSE messages[j].at
                        /\ messages'[j].at \in Nat /\ messages'[j].at <= second
    BY <1>1, <1>2, <1>4, <2>2, <2>3 DEF Paced
  <2>7. /\ reader' \in ReaderRow(n) /\ reader'.top = reader.top /\ reader'.cursor = reader.cursor
        /\ reader'.done = reader.done /\ reader'.got = reader.got /\ reader.late \subseteq reader'.late
        /\ reader.top # Nowhere => i \in reader'.late
        /\ reader.top # Nowhere /\ ~reader'.adrift =>
             ~reader.adrift /\ ~(i = reader.cursor /\ t < messages[i].at)
    <3>1. CASE reader.top = Nowhere
      BY <1>2, <2>1, <3>1 DEF Imported
    <3>2. CASE reader.top # Nowhere
      <4> DEFINE back == i = reader.cursor /\ t < messages[i].at
      <4>1. reader' = [reader EXCEPT !.late = @ \cup {i}, !.adrift = @ \/ back]
        BY <2>1, <3>2 DEF Imported
      <4>2. back \in BOOLEAN
        OBVIOUS
      <4> HIDE DEF back
      <4>3. reader' = [top |-> reader.top, cursor |-> reader.cursor, got |-> reader.got, done |-> reader.done,
                       late |-> reader.late \cup {i}, adrift |-> reader.adrift \/ back]
        BY <1>2, <4>1 DEF ReaderRow
      <4>4. (reader.adrift \/ back) \in BOOLEAN /\ reader.late \cup {i} \subseteq 1..n
        BY <1>2, <2>1, <4>2 DEF ReaderRow
      <4>5. reader' \in ReaderRow(n)
        BY <1>2, <4>3, <4>4 DEF ReaderRow
      <4>6. ~reader'.adrift => ~reader.adrift /\ ~back
        BY <4>3
      <4>7. QED
        BY <4>3, <4>5, <4>6 DEF back
    <3>3. QED
      BY <3>1, <3>2
  <2>8. HomesTypeOK'
    BY <1>1, <1>3, <1>4, <1>5, <2>4, <2>5, <2>7 DEF HomesTypeOK, MessageRow, ReaderRow
  <2>9. Paced'
    BY <1>1, <1>4, <2>5, <2>6, <2>7 DEF Paced
  <2>10. ReaderHolds'
    <3>1. CASE reader.top = Nowhere
      BY <2>7, <3>1 DEF ReaderHolds, Nowhere
    <3>2. CASE reader.top # Nowhere
      <4>1. reader.cursor \in 1..n
        BY <1>1, <3>2 DEF ReaderHolds
      <4>2. ~reader'.adrift => ~reader.adrift /\ messages[reader.cursor].at <= messages'[reader.cursor].at
        BY <1>2, <2>6, <2>7, <3>2, <4>1
      <4>3. n <= n /\ second <= second /\ second \in Nat
        BY <1>2
      <4>4. \A j \in 1..n \ reader'.late :
              IF j <= n THEN messages'[j].at = messages[j].at ELSE messages'[j].at = second
        BY <1>2, <2>6, <2>7, <3>2
      <4>5. QED
        BY <1>2, <1>4, <2>5, <2>6, <2>7, <4>2, <4>3, <4>4, ReaderStays
    <3>3. QED
      BY <3>1, <3>2
  <2>11. QED
    BY <2>8, <2>9, <2>10 DEF HomesInv
<1>8. QED
  BY <1>6, <1>7

\* A set of messages has a first and a last one.
LEMMA FirstAndLast ==
  ASSUME HomesTypeOK, NEW S \in SUBSET (1..Len(messages)), S # {}
  PROVE  /\ \E i \in S : \A j \in S : ~Before(j, i)
         /\ \E i \in S : \A j \in S : ~Before(i, j)
<1> DEFINE n == Len(messages)
           T == {messages[i].at : i \in S}
<1>1. n \in Nat /\ MaxSecond \in Nat /\ \A i \in 1..n : messages[i].at \in 0..MaxSecond
  BY HomesNumbers
<1>2. T \in SUBSET Nat /\ T \in SUBSET (0..MaxSecond) /\ T # {}
  <2>1. \A i \in S : messages[i].at \in T /\ messages[i].at \in 0..MaxSecond /\ messages[i].at \in Nat
    BY <1>1
  <2>2. \A x \in T : x \in 0..MaxSecond /\ x \in Nat
    BY <2>1
  <2> HIDE DEF T
  <2>3. QED
    BY <2>1, <2>2
<1>3. \E i \in S : \A j \in S : ~Before(j, i)
  <2>1. PICK t \in T : \A x \in T : t <= x
    <3> HIDE DEF T
    <3>1. QED
      BY <1>2, LeastExists
  <2> DEFINE U == {i \in S : messages[i].at = t}
  <2>2. U # {} /\ U \in SUBSET Nat
    <3>1. PICK i \in S : messages[i].at = t
      BY <2>1
    <3>2. \A j \in S : j \in Nat
      BY <1>1
    <3>3. QED
      BY <3>1, <3>2
  <2>3. PICK i \in U : \A j \in U : i <= j
    <3> HIDE DEF U
    <3>1. QED
      BY <2>2, LeastExists
  <2>4. ASSUME NEW j \in S PROVE ~Before(j, i)
    <3>1. messages[j].at \in T /\ messages[i].at = t /\ i \in Nat /\ j \in Nat
      <4>1. i \in S /\ messages[i].at = t /\ messages[j].at \in T
        BY <2>3
      <4>2. \A k \in S : k \in Nat
        BY <1>1
      <4>3. QED
        BY <4>1, <4>2
    <3>2. t <= messages[j].at /\ (messages[j].at = t => i <= j)
      BY <2>1, <2>3, <3>1
    <3>3. t \in Nat /\ messages[j].at \in Nat
      BY <1>1, <3>1
    <3>4. QED
      BY <3>1, <3>2, <3>3 DEF Before, Precedes, Place
  <2>5. QED
    BY <2>3, <2>4
<1>4. \E i \in S : \A j \in S : ~Before(i, j)
  <2>1. PICK t \in T : \A x \in T : x <= t
    <3> HIDE DEF T
    <3>1. QED
      BY <1>1, <1>2, GreatestExists
  <2> DEFINE U == {i \in S : messages[i].at = t}
  <2>2. U # {} /\ U \in SUBSET (0..n)
    <3>1. PICK i \in S : messages[i].at = t
      BY <2>1
    <3>2. \A j \in S : j \in 0..n
      BY <1>1
    <3>3. QED
      BY <3>1, <3>2
  <2>3. PICK i \in U : \A j \in U : j <= i
    <3> HIDE DEF U
    <3>1. QED
      BY <1>1, <2>2, GreatestExists
  <2>4. ASSUME NEW j \in S PROVE ~Before(i, j)
    <3>1. messages[j].at \in T /\ messages[i].at = t /\ i \in Nat /\ j \in Nat
      <4>1. i \in S /\ messages[i].at = t /\ messages[j].at \in T
        BY <2>3
      <4>2. \A k \in S : k \in Nat
        BY <1>1
      <4>3. QED
        BY <4>1, <4>2
    <3>2. messages[j].at <= t /\ (messages[j].at = t => j <= i)
      BY <2>1, <2>3, <3>1
    <3>3. t \in Nat /\ messages[j].at \in Nat
      BY <1>1, <3>1
    <3>4. QED
      BY <3>1, <3>2, <3>3 DEF Before, Precedes, Place
  <2>5. QED
    BY <2>3, <2>4
<1>5. QED
  BY <1>3, <1>4

\* A page is empty only before the beginning, and holds what is not before
\* one of its messages.
LEMMA PageFacts ==
  ASSUME HomesTypeOK, NEW older \in SUBSET (1..Len(messages)), NEW page, page = PageOf(older)
  PROVE  /\ page \subseteq older
         /\ page = {} => older = {}
         /\ \A i \in older, k \in page : ~Before(i, k) => i \in page
<1> DEFINE n == Len(messages)
           After(i) == {j \in older : Before(i, j)}
<1>1. n \in Nat /\ \A i \in 1..n : Place(i) \in Nat \X Nat
  BY HomesFacts
<1>2. page = {i \in older : Cardinality(After(i)) < Page}
  BY DEF PageOf
<1>3. ASSUME NEW i \in older PROVE IsFiniteSet(After(i)) /\ Cardinality(After(i)) \in Nat
  <2>1. 1 \in Int /\ n \in Int
    BY <1>1
  <2>2. IsFiniteSet(1..n)
    BY <2>1, FS_Interval
  <2>3. IsFiniteSet(older)
    <3> HIDE DEF n
    <3>1. QED
      BY <2>2, FS_Subset DEF n
  <2>4. QED
    BY <2>3, FS_Subset, FS_CardinalityType
<1>4. ASSUME NEW i \in older, NEW k \in page, ~Before(i, k) PROVE i \in page
  <2>1. k \in older /\ Cardinality(After(k)) < Page
    BY <1>2
  <2> DEFINE a == Cardinality(After(k))
             b == Cardinality(After(i))
  <2>2. After(i) \subseteq After(k)
    <3> SUFFICES ASSUME NEW j \in older, Before(i, j) PROVE Before(k, j)
      OBVIOUS
    <3>1. Place(i) \in Nat \X Nat /\ Place(j) \in Nat \X Nat /\ Place(k) \in Nat \X Nat
      BY <1>1, <2>1
    <3>2. QED
      BY <1>4, <3>1, PlacesOrdered DEF Before
  <2>3. Cardinality(After(i)) <= Cardinality(After(k))
    BY <1>3, <2>1, <2>2, FS_Subset
  <2>4. a \in Nat /\ b \in Nat /\ b <= a /\ a < Page /\ Page \in Nat
    BY <1>3, <2>1, <2>3, HomesAssumption
  <2> HIDE DEF a, b
  <2>5. b < Page
    BY <2>4
  <2>6. QED
    BY <1>2, <2>5 DEF b
<1>5. ASSUME older # {} PROVE page # {}
  <2>1. PICK i \in older : \A j \in older : ~Before(i, j)
    BY <1>5, FirstAndLast
  <2>2. After(i) = {}
    BY <2>1
  <2>3. Cardinality(After(i)) = 0
    BY <2>2, FS_EmptySet
  <2>4. QED
    BY <1>2, <2>3, HomesAssumption
<1>6. QED
  BY <1>2, <1>4, <1>5

\* A page goes on where the last one ended; without one there is nothing
\* before the cursor.
LEMMA ReadKeeps == HomesInv /\ ReadPage => HomesInv'
<1> SUFFICES ASSUME HomesInv, ReadPage PROVE HomesInv'
  OBVIOUS
<1> DEFINE n == Len(messages)
           first == reader.top = Nowhere
           older == {i \in 1..n : first \/ Before(i, reader.cursor)}
           page == PageOf(older)
           newest == CHOOSE i \in page : \A j \in page : ~Before(i, j)
           oldest == CHOOSE i \in page : \A j \in page : ~Before(j, i)
<1>1. HomesTypeOK /\ Paced /\ ReaderHolds
  BY DEF HomesInv
<1>2. made > 0 /\ MakesHome /\ ~reader.done /\ UNCHANGED <<closed, away, messages, second, imports, mark>>
  BY DEF ReadPage
<1>3. /\ made' = made /\ home' \in 0..made' /\ aliases' = 1..made' /\ made' \in 0..MaxChats /\ closed' \subseteq 1..made'
  BY <1>1, <1>2, HomeMade
<1>4. /\ n \in Nat /\ reader \in ReaderRow(n) /\ second \in 0..MaxSecond /\ reader.top \in Nat \X Nat
      /\ \A i \in 1..n : messages[i].at \in 0..MaxSecond /\ Place(i) \in Nat \X Nat
      /\ mark' \in (0..MaxSecond) \X (0..n)
  <2>1. n \in Nat /\ reader \in ReaderRow(n) /\ reader.top \in Nat \X Nat /\ \A i \in 1..n : Place(i) \in Nat \X Nat
    BY <1>1, HomesFacts
  <2>2. second \in 0..MaxSecond /\ \A i \in 1..n : messages[i].at \in 0..MaxSecond
    BY <1>1, HomesNumbers
  <2>3. mark' \in (0..MaxSecond) \X (0..n)
    BY <1>1, <1>2 DEF HomesTypeOK
  <2>4. QED
    BY <2>1, <2>2, <2>3
<1>5. InScope(aliases') = 1..n
  BY <1>1, <1>3, HomesFacts DEF InScope, MessageRow
<1>6. IF page = {} THEN reader' = [reader EXCEPT !.done = TRUE]
      ELSE reader' = [reader EXCEPT !.top = IF first THEN Place(newest) ELSE @, !.cursor = oldest, !.got = @ \cup page]
  BY <1>5 DEF ReadPage
<1>7. /\ page \subseteq older /\ older \subseteq 1..n
      /\ page = {} => older = {}
      /\ \A i \in older, k \in page : ~Before(i, k) => i \in page
  <2>1. older \in SUBSET (1..n) /\ page = PageOf(older)
    OBVIOUS
  <2> HIDE DEF older, page
  <2>2. QED
    BY <1>1, <2>1, PageFacts
<1>8. reader' \in ReaderRow(n) /\ Paced' /\ ReaderHolds'
  <2>1. CASE page = {}
    <3>1. older = {} /\ reader' = [reader EXCEPT !.done = TRUE]
      BY <1>6, <1>7, <2>1
    <3>2. /\ reader' \in ReaderRow(n) /\ reader'.top = reader.top /\ reader'.cursor = reader.cursor
          /\ reader'.got = reader.got /\ reader'.late = reader.late /\ reader'.adrift = reader.adrift
      BY <1>4, <3>1 DEF ReaderRow
    <3>3. ~first => \A i \in 1..n : ~Before(i, reader.cursor)
      BY <3>1
    <3>4. ReaderHolds'
      BY <1>1, <1>2, <3>2, <3>3 DEF ReaderHolds, Before, Place, Precedes
    <3>5. QED
      BY <1>1, <1>2, <3>2, <3>4 DEF Paced
  <2>2. CASE page # {}
    <3> HIDE DEF older
    <3>1. newest \in page /\ oldest \in page /\ \A j \in page : ~Before(j, oldest)
      <4>1. page \in SUBSET (1..n)
        BY <1>7
      <4> HIDE DEF page
      <4>2. QED
        BY <1>1, <2>2, <4>1, FirstAndLast
    <3>2. newest \in 1..n /\ oldest \in 1..n /\ page \subseteq 1..n
      BY <1>7, <3>1
    <3> DEFINE top == IF first THEN Place(newest) ELSE reader.top
    <3>3. top \in (0..MaxSecond) \X (0..n) /\ top[1] <= second
      <4>1. Place(newest) \in (0..MaxSecond) \X (0..n) /\ Place(newest)[1] <= second
        <5>1. messages[newest].at \in 0..MaxSecond /\ messages[newest].at <= second /\ newest \in 0..n
          BY <1>1, <1>4, <3>2 DEF Paced
        <5> HIDE DEF newest
        <5>2. QED
          BY <5>1 DEF Place
      <4>2. reader.top \in (0..MaxSecond) \X (0..n) /\ reader.top[1] <= second
        BY <1>1, ReaderFacts DEF Paced
      <4> HIDE DEF newest
      <4>3. QED
        BY <4>1, <4>2
    <3>4. reader' = [reader EXCEPT !.top = top, !.cursor = oldest, !.got = @ \cup page]
      BY <1>6, <2>2
    <3> HIDE DEF page, newest, oldest, top
    <3>5. /\ reader' \in ReaderRow(n) /\ reader'.top = top /\ reader'.cursor = oldest
          /\ reader'.got = reader.got \cup page /\ reader'.late = reader.late
          /\ reader'.adrift = reader.adrift /\ reader'.done = FALSE
      <4>1. reader' = [top |-> top, cursor |-> oldest, got |-> reader.got \cup page, done |-> reader.done,
                       late |-> reader.late, adrift |-> reader.adrift]
        BY <1>1, <3>4, ReaderFacts
      <4>2. oldest \in 0..n /\ reader.got \cup page \subseteq 1..n /\ reader.late \subseteq 1..n
            /\ reader.done = FALSE /\ reader.adrift \in BOOLEAN
        BY <1>1, <1>2, <1>4, <3>2, ReaderFacts
      <4>3. QED
        BY <3>3, <4>1, <4>2 DEF ReaderRow
    <3>6. Paced'
      BY <1>1, <1>2, <3>3, <3>5 DEF Paced
    <3>7. ASSUME ~reader.adrift, NEW i \in 1..n \ reader.late, ~Precedes(top, Place(i)), ~Before(i, oldest)
          PROVE  i \in reader.got \cup page
      <4>1. CASE i \in older
        BY <1>7, <3>1, <3>7, <4>1
      <4>2. CASE i \notin older
        <5>1. ~first /\ ~Before(i, reader.cursor) /\ top = reader.top
          BY <4>2 DEF older, top
        <5>2. QED
          BY <1>1, <3>7, <5>1 DEF ReaderHolds
      <4>3. QED
        BY <4>1, <4>2
    <3>8. ReaderHolds'
      BY <1>2, <3>2, <3>5, <3>7 DEF ReaderHolds, Before, Place, Precedes
    <3>9. QED
      BY <3>5, <3>6, <3>8
  <2>3. QED
    BY <2>1, <2>2
<1> HIDE DEF page, older, newest, oldest, first
<1>9. HomesTypeOK'
  BY <1>1, <1>2, <1>3, <1>4, <1>8 DEF HomesTypeOK, ReaderRow
<1>10. QED
  BY <1>8, <1>9 DEF HomesInv

\* Nothing in the history is from the future, and a reader that is not adrift
\* holds what was written from its cursor to the top of its first page.
THEOREM HomesInvariant == HomesSpec => []HomesInv
<1>1. HomesInit => HomesInv
  BY HomesInvInit
<1>2. HomesInv /\ [HomesNext]_homeVars => HomesInv'
  <2> SUFFICES ASSUME HomesInv, [HomesNext]_homeVars PROVE HomesInv'
    OBVIOUS
  <2>0. /\ HomesTypeOK /\ made \in Nat /\ MaxChats \in Nat /\ second \in 0..MaxSecond /\ MaxSecond \in Nat
        /\ second <= second /\ FALSE \in BOOLEAN /\ imports \in 0..MaxImports
        /\ made <= made /\ made \in 0..MaxChats /\ away \in BOOLEAN /\ home \in 0..made /\ aliases \subseteq 1..made
        /\ mark \in (0..MaxSecond) \X (0..Len(messages)) /\ closed \subseteq 1..made
    <3>1. HomesTypeOK /\ mark \in (0..MaxSecond) \X (0..Len(messages))
      BY DEF HomesInv, HomesTypeOK
    <3>2. \A k \in Nat : k <= k
      OBVIOUS
    <3>3. QED
      BY <3>1, <3>2, HomesNumbers
  <2>1. CASE OldChat
    <3>1. made' \in 0..MaxChats /\ made <= made' /\ closed \subseteq 1..made' /\ home \in 0..made' /\ aliases \subseteq 1..made'
      BY <2>0, <2>1 DEF OldChat
    <3>2. QED
      BY <2>0, <2>1, <3>1, UnwrittenKeeps DEF OldChat
  <2>2. CASE Home
    <3>1. MakesHome /\ MaxChats > 0
      BY <2>2 DEF Home
    <3>2. QED
      BY <2>0, <2>2, <3>1, HomeMade, UnwrittenKeeps DEF Home
  <2>3. CASE Say
    <3>1. /\ MakesHome /\ made > 0 /\ away' = FALSE /\ UNCHANGED <<closed, second, imports, mark, reader>>
          /\ messages' = Append(messages, [in |-> home', at |-> second, by |-> "user", imported |-> FALSE])
      BY <2>3 DEF Say, Stored
    <3>2. QED
      BY <2>0, <3>1, HomeMade, WrittenKeeps
  <2>4. CASE Reply
    <3>1. /\ messages' = Append(messages, [in |-> home, at |-> second, by |-> "assistant", imported |-> FALSE])
          /\ UNCHANGED <<made, closed, home, aliases, away, second, imports, mark, reader>>
      BY <2>4 DEF Reply, Stored
    <3>2. home \in 1..made
      <4>1. PICK i \in DOMAIN messages : messages[i].in = home
        BY <2>4 DEF Reply
      <4>2. messages[i] \in MessageRow
        BY <2>0, HomesFacts
      <4>3. QED
        BY <4>1, <4>2 DEF MessageRow
    <3>3. QED
      BY <2>0, <3>1, <3>2, WrittenKeeps
  <2>5. CASE SecondPasses
    <3>1. second' \in 0..MaxSecond /\ second <= second'
      BY <2>0, <2>5 DEF SecondPasses
    <3>2. QED
      BY <2>0, <2>5, <3>1, UnwrittenKeeps DEF SecondPasses
  <2>6. CASE ReadPage
    BY <2>6, ReadKeeps
  <2>7. ASSUME NEW c \in 1..made, OldMessage(c) PROVE HomesInv'
    <3>1. PICK who \in {"user", "assistant"} :
            messages' = Append(messages, [in |-> c, at |-> second, by |-> who, imported |-> FALSE])
      BY <2>7 DEF OldMessage, Stored
    <3>2. UNCHANGED <<made, closed, home, aliases, away, second, imports, mark, reader>>
      BY <2>7 DEF OldMessage
    <3>3. QED
      BY <2>0, <3>1, <3>2, WrittenKeeps
  <2>8. ASSUME NEW b \in BOOLEAN, Archiving(b) PROVE HomesInv'
    <3>1. MakesHome /\ made > 0 /\ away' = b /\ UNCHANGED <<messages, second, imports, mark, reader>>
      BY <2>8 DEF Archiving
    <3>2. /\ made' = made /\ home' \in 1..made' /\ aliases' = 1..made' /\ made' \in 0..MaxChats
          /\ closed \subseteq 1..made'
      BY <2>0, <3>1, HomeMade
    <3>3. closed' \subseteq 1..made' /\ home' \in 0..made'
      BY <2>8, <3>2 DEF Archiving
    <3>4. QED
      BY <2>0, <3>1, <3>2, <3>3, UnwrittenKeeps
  <2>9. ASSUME NEW i \in DOMAIN messages, MarkRead(i) PROVE HomesInv'
    <3>1. MakesHome /\ mark' \in {Place(i), mark} /\ UNCHANGED <<closed, away, messages, second, imports, reader>>
      BY <2>9 DEF MarkRead
    <3>2. made > 0 /\ i \in 1..Len(messages) /\ Place(i) \in (0..MaxSecond) \X (0..Len(messages))
      <4>1. messages[i] \in MessageRow /\ i \in 1..Len(messages) /\ Len(messages) \in Nat
        BY <2>0, HomesFacts
      <4>2. QED
        BY <2>0, <4>1 DEF MessageRow, Place
    <3>3. mark' \in (0..MaxSecond) \X (0..Len(messages))
      BY <2>0, <3>1, <3>2
    <3>4. QED
      BY <2>0, <3>1, <3>2, <3>3, HomeMade, UnwrittenKeeps
  <2>10. ASSUME NEW t \in 0..MaxSecond, NEW who \in {"user", "assistant"},
                Import(t, who) \/ \E i \in DOMAIN messages : Reimport(i, t, who)
         PROVE  HomesInv'
    BY <2>10, ImportsKeep
  <2>11. CASE UNCHANGED homeVars
    BY <2>0, <2>11, UnwrittenKeeps DEF homeVars
  <2>12. QED
    BY <2>1, <2>2, <2>3, <2>4, <2>5, <2>6, <2>7, <2>8, <2>9, <2>10, <2>11 DEF HomesNext
<1>3. QED
  BY <1>1, <1>2, PTL DEF HomesSpec

\* No step of a client, of the worker or of another device makes a message
\* unread that was read.
LEMMA MarksMoveOn == HomesInv /\ HomesInv' /\ [HomesNext]_homeVars => [StaysRead]_homeVars
<1> SUFFICES ASSUME HomesInv, HomesInv', HomesNext,
                    NEW i \in Unread' \cap InScope(Scope), messages'[i] = messages[i]
             PROVE  i \in Unread
  BY DEF homeVars, StaysRead
<1>1. HomesTypeOK /\ HomesTypeOK'
  BY DEF HomesInv
<1>2. /\ i \in InScope(Scope) /\ i \in DOMAIN messages /\ messages[i].by = "assistant"
      /\ Place(i)' = Place(i) /\ Place(i) \in Nat \X Nat
      /\ mark' # Nowhere => Precedes(mark', Place(i))
  <2>1. i \in InScope(Scope) /\ i \in DOMAIN messages /\ Place(i)' = Place(i)
    BY DEF InScope, Place
  <2>2. messages'[i].by = "assistant" /\ (mark' # Nowhere => Precedes(mark', Place(i)'))
    BY DEF Unread, Precedes, Nowhere
  <2>3. Place(i) \in Nat \X Nat
    BY <1>1, <2>1, HomesFacts
  <2>4. messages[i].by = "assistant"
    BY <2>2
  <2>5. QED
    BY <2>1, <2>2, <2>3, <2>4
<1>3. mark \in Nat \X Nat
  BY <1>1, HomesFacts
<1>4. mark' = mark \/ (mark' \in Nat \X Nat /\ mark' # Nowhere /\ (mark = Nowhere \/ ~Precedes(mark', mark)))
  <2>1. ASSUME NEW j \in DOMAIN messages, MarkRead(j)
        PROVE  mark' = mark \/ (mark' = Place(j) /\ Place(j) \in Nat \X Nat /\ Place(j) # Nowhere /\ Further(j))
    <3>1. j # 0 /\ Place(j) \in Nat \X Nat
      <4>1. j \in 1..Len(messages)
        BY <1>1, <2>1, HomesFacts
      <4>2. QED
        BY <1>1, <4>1, HomesFacts
    <3>2. QED
      BY <2>1, <3>1 DEF MarkRead, Place, Nowhere
  <2>2. (\E j \in DOMAIN messages : MarkRead(j)) \/ mark' = mark
    BY DEF HomesNext, OldChat, Home, Say, Reply, SecondPasses, ReadPage, OldMessage, Archiving, Import, Reimport
  <2>3. QED
    BY <2>1, <2>2 DEF Further
<1>5. ASSUME mark # Nowhere PROVE Precedes(mark, Place(i))
  BY <1>2, <1>3, <1>4, <1>5, PlacesOrdered
<1>6. QED
  BY <1>2, <1>5 DEF Unread

\* A client that has paged back to the beginning has every message up to the
\* newest of its first page, in whichever conversation of the bot it was
\* written and whatever arrived meanwhile, but for what was imported or edited
\* since that page or while its cursor was moved back, and a message once read
\* is not unread again while it stays as it is.
THEOREM HistoriesAreWhole == HomesSpec => HistoryIsWhole
<1> DEFINE Held == reader.done /\ reader.top # Nowhere /\ ~reader.adrift =>
                     {i \in DOMAIN messages : ~Precedes(reader.top, Place(i))} \ reader.late \subseteq reader.got
<1>1. HomesInv => Held
  BY HomesFacts DEF HomesInv, ReaderHolds
<1>2. HomesSpec => []Held
  BY <1>1, HomesInvariant, PTL
<1>3. HomesSpec => [][StaysRead]_homeVars
  BY HomesInvariant, MarksMoveOn, PTL DEF HomesSpec
<1>4. QED
  BY <1>2, <1>3, PTL DEF HistoryIsWhole

-----------------------------------------------------------------------------
(* The components together: what TLC explores one part of at a time *)

\* A behaviour of the composition is one of each component: the steps of the
\* others leave its variables alone.
THEOREM ServicesImplement ==
  ServicesSpec => /\ SkillsSpec /\ RoutinesSpec /\ TurnsSpec
                  /\ GroupsSpec /\ HomesSpec /\ MemorySpec
<1>1. ServicesSpec => SkillsSpec
  <2>1. ServicesInit => SkillsInit
    BY DEF ServicesInit
  <2>2. [ServicesNext]_allVars => [SkillsNext]_skillVars
    BY DEF ServicesNext, Only, allVars, partVars
  <2>3. QED
    BY <2>1, <2>2, PTL DEF ServicesSpec, SkillsSpec
<1>2. ServicesSpec => RoutinesSpec
  <2>1. ServicesInit => RoutinesInit
    BY DEF ServicesInit
  <2>2. [ServicesNext]_allVars => [RoutinesNext]_routineVars
    BY DEF ServicesNext, Only, allVars, partVars
  <2>3. QED
    BY <2>1, <2>2, PTL DEF ServicesSpec, RoutinesSpec
<1>3. ServicesSpec => TurnsSpec
  <2>1. ServicesInit => TurnsInit
    BY DEF ServicesInit
  <2>2. [ServicesNext]_allVars => [TurnsNext]_turnVars
    BY DEF ServicesNext, Only, allVars, partVars
  <2>3. QED
    BY <2>1, <2>2, PTL DEF ServicesSpec, TurnsSpec
<1>4. ServicesSpec => GroupsSpec
  <2>1. ServicesInit => GroupsInit
    BY DEF ServicesInit
  <2>2. [ServicesNext]_allVars => [GroupsNext]_groupVars
    BY DEF ServicesNext, Only, allVars, partVars
  <2>3. QED
    BY <2>1, <2>2, PTL DEF ServicesSpec, GroupsSpec
<1>5. ServicesSpec => HomesSpec
  <2>1. ServicesInit => HomesInit
    BY DEF ServicesInit
  <2>2. [ServicesNext]_allVars => [HomesNext]_homeVars
    BY DEF ServicesNext, Only, allVars, partVars
  <2>3. QED
    BY <2>1, <2>2, PTL DEF ServicesSpec, HomesSpec
<1>6. ServicesSpec => MemorySpec
  <2>1. ServicesInit => MemoryInit
    BY DEF ServicesInit
  <2>2. [ServicesNext]_allVars => [MemoryNext]_memoryVars
    BY DEF ServicesNext, Only, allVars, partVars
  <2>3. QED
    BY <2>1, <2>2, PTL DEF ServicesSpec, MemorySpec
<1>7. QED
  BY <1>1, <1>2, <1>3, <1>4, <1>5, <1>6

\* Every variable keeps its type, in all components together: this joins the
\* type invariants of the components, each of which rests on its invariant.
THEOREM ServicesTyped == ServicesSpec => []TypesOK
<1>1. SkillsSpec => []SkillsTypeOK
  <2>1. SkillsInv => SkillsTypeOK
    BY DEF SkillsInv
  <2>2. QED
    BY <2>1, SkillsInvariant, PTL
<1>2. RoutinesSpec => []RoutinesTypeOK
  <2>1. RoutinesInv => RoutinesTypeOK
    BY DEF RoutinesInv
  <2>2. QED
    BY <2>1, RoutinesInvariant, PTL
<1>3. GroupsSpec => []GroupsTypeOK
  <2>1. GroupsInv => GroupsTypeOK
    BY DEF GroupsInv
  <2>2. QED
    BY <2>1, GroupsInvariant, PTL
<1>4. HomesSpec => []HomesTypeOK
  <2>1. HomesInv => HomesTypeOK
    BY DEF HomesInv
  <2>2. QED
    BY <2>1, HomesInvariant, PTL
<1>5. MemorySpec => []MemoryTypeOK
  <2>1. MemoryInv => MemoryTypeOK
    BY DEF MemoryInv
  <2>2. QED
    BY <2>1, MemoryInvariant, PTL
<1>6. /\ SkillsTypeOK /\ RoutinesTypeOK /\ TurnsTypeOK
      /\ GroupsTypeOK /\ HomesTypeOK /\ MemoryTypeOK
      => TypesOK
  BY DEF TypesOK
<1>7. QED
  BY <1>1, <1>2, <1>3, <1>4, <1>5, <1>6, TurnsTypeCorrect, ServicesImplement, PTL
=============================================================================
