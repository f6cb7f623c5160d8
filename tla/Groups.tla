------------------------------- MODULE Groups -------------------------------
(***************************************************************************)
(* A group conversation of backend/app/messenger.py: its members, its      *)
(* coordinator, the files shared with it, the messages sent to it under    *)
(* client request ids, and the helpers that its responders ask.  Each      *)
(* method is one transaction; bots are archived and files deleted in       *)
(* between, and a client repeats requests whose answers it lost.           *)
(***************************************************************************)
EXTENDS Naturals, Sequences, FiniteSets

CONSTANTS Bot,         \* agents of the account
          Retiring,    \* the bots the user may archive
          Uploader,    \* bots with a file; the file is named by its owner
          Letter,      \* client_request_ids of messages
          MaxChildren  \* delegate's limit for one task

ASSUME GroupsAssumption ==
  /\ Retiring \subseteq Bot /\ Uploader \subseteq Bot
  /\ MaxChildren \in Nat

VARIABLES
  shelved,      \* bots with agents.status = 'archived'
  group,        \* conversations.status of the group, "absent" before the row
  filed,        \* conversation_inbox.archived
  face,         \* conversations.agent_id
  coordinator,  \* conversation_groups.coordinator_id
  member, role, \* conversation_members.status and role
  files,        \* owners of the files that exist
  grant,        \* conversation_file_grants of the group
  letters,      \* letters[k]: messages sent under k: responders and attachments
  helpers       \* delegated conversations and the files granted to them

groupVars == <<shelved, group, filed, face, coordinator, member, role,
               files, grant, letters, helpers>>
shape     == <<group, filed, face, coordinator, member, role>>

NoBot == "no bot"

GroupsTypeOK ==
  /\ shelved \subseteq Retiring /\ files \subseteq Uploader
  /\ group \in {"absent", "active", "archived"} /\ filed \in BOOLEAN
  /\ face \in Bot \cup {NoBot} /\ coordinator \in Bot \cup {NoBot}
  /\ member \in [Bot -> {"none", "active", "removed"}]
  /\ role \in [Bot -> {"member", "coordinator"}]
  /\ grant \in [Uploader -> {"none", "given", "revoked"}]
  /\ letters \in [Letter -> Seq([to : SUBSET Bot, with : SUBSET Uploader])]
  /\ helpers \subseteq [letter : Letter, parent : Bot, child : Bot, with : SUBSET Uploader]

GroupsInit ==
  /\ shelved = {} /\ files = Uploader
  /\ group = "absent" /\ filed = FALSE
  /\ face = NoBot /\ coordinator = NoBot
  /\ member = [b \in Bot |-> "none"]
  /\ role = [b \in Bot |-> "member"]
  /\ grant = [f \in Uploader |-> "none"]
  /\ letters = [k \in Letter |-> <<>>]
  /\ helpers = {}

-----------------------------------------------------------------------------
ActiveMembers == {b \in Bot : member[b] = "active"}

\* _validate_active_member
Serving(b) == member[b] = "active" /\ b \notin shelved

\* can_respond
CanRespond(b) == group = "active" /\ Serving(b)

\* file_allowed, in the group and in a helper's conversation
FileAllowed(b, f) == CanRespond(b) /\ f \in files /\ grant[f] = "given"
HelperAllowed(h, f) == h.child \notin shelved /\ f \in files /\ f \in h.with

Shelve(b) ==
  /\ shelved' = IF b \in shelved THEN shelved \ {b} ELSE shelved \cup {b}
  /\ UNCHANGED <<shape, files, grant, letters, helpers>>

\* Deleting a file deletes the grants that name it.
DeleteFile(f) ==
  /\ f \in files
  /\ files' = files \ {f}
  /\ grant' = [grant EXCEPT ![f] = "none"]
  /\ helpers' = {[h EXCEPT !.with = @ \ {f}] : h \in helpers}
  /\ UNCHANGED <<shelved, shape, letters>>

-----------------------------------------------------------------------------
(* Membership *)

\* A group has two to six bots, none of them archived.
Admissible(M) == Cardinality(M) \in 2..6 /\ M \cap shelved = {}

Ranks(M, c) ==
  role' = [b \in Bot |-> IF b \in M THEN (IF b = c THEN "coordinator" ELSE "member")
                         ELSE IF member[b] = "active" THEN "member" ELSE role[b]]

CreateGroup(M, c) ==
  /\ group = "absent" /\ Admissible(M) /\ c \in M
  /\ group' = "active" /\ face' = c /\ coordinator' = c
  /\ member' = [b \in Bot |-> IF b \in M THEN "active" ELSE "none"]
  /\ Ranks(M, c)
  /\ UNCHANGED <<shelved, filed, files, grant, letters, helpers>>

\* Mutant: the coordinator stays, member or not.
ChosenKept(M) == {coordinator}

\* The coordinator when none is given: the present one, or the first of the
\* list if that one leaves.
Chosen(M) == IF coordinator \in M THEN {coordinator} ELSE M

\* M is the list given, or the present members; c and s are given or not.
UpdateGroup(M, c, s) ==
  /\ group # "absent" /\ Admissible(M)
  /\ face' = c /\ coordinator' = c
  /\ member' = [b \in Bot |-> IF b \in M THEN "active"
                              ELSE IF member[b] = "active" THEN "removed" ELSE member[b]]
  /\ Ranks(M, c)
  /\ group' = s /\ filed' = IF s = group THEN filed ELSE s = "archived"
  /\ UNCHANGED <<shelved, files, grant, letters, helpers>>

Update ==
  \E M \in SUBSET Bot, s \in {"active", "archived"} :
    \E c \in M \cup Chosen(M) : UpdateGroup(M, c, s)

\* archive_conversation and restore_conversation ask nothing of the members.
FileAway(s) ==
  /\ group # "absent"
  /\ group' = s /\ filed' = (s = "archived")
  /\ UNCHANGED <<shelved, face, coordinator, member, role, files, grant, letters, helpers>>

-----------------------------------------------------------------------------
(* Shared files *)

GrantFiles(F, by) ==
  /\ group = "active" /\ Serving(by)
  /\ \A f \in F : f \in files /\ Serving(f)
  /\ grant' = [f \in Uploader |-> IF f \in F THEN "given" ELSE grant[f]]
  /\ UNCHANGED <<shelved, shape, files, letters, helpers>>

\* A method of the service that no route offers yet.
RevokeFiles(F) ==
  /\ group # "absent"
  /\ grant' = [f \in Uploader |-> IF f \in F /\ grant[f] # "none" THEN "revoked" ELSE grant[f]]
  /\ UNCHANGED <<shelved, shape, files, letters, helpers>>

\* A file is attached if it is shared, or if it is the coordinator's; then it
\* becomes shared, unless it has been before.
Attachable(f) == f \in files /\ (grant[f] = "given" \/ f = coordinator)
Attached(F) == [f \in Uploader |-> IF f \in F /\ grant[f] = "none" THEN "given" ELSE grant[f]]

-----------------------------------------------------------------------------
(* Messages and helpers *)

\* The coordinator, the bots mentioned, or everyone who serves.
Addressed == {{coordinator}} \cup (SUBSET ActiveMembers \ {{}}) \cup {{b \in Bot : Serving(b)}}

\* A client request id that was used is answered from the first message.
Unseen(k) == letters[k] = <<>>

SendLetter(k, R, F) ==
  /\ Unseen(k)
  /\ group = "active"
  /\ R \in Addressed /\ \A b \in R : Serving(b)
  /\ \A f \in F : Attachable(f)
  /\ letters' = [letters EXCEPT ![k] = Append(@, [to |-> R, with |-> F])]
  /\ grant' = Attached(F)
  /\ filed' = FALSE
  /\ UNCHANGED <<shelved, group, face, coordinator, member, role, files, helpers>>

\* Mutant: a helper gets what was attached, whatever became of the shares.
InheritedAll(p, F) == F \cap files

\* A helper gets those attachments that are shared with its parent's group.
Inherited(p, F) == {f \in F : f \in files /\ grant[f] = "given" /\ member[p] = "active"}

\* Whether the parent is still at work is TaskLifecycle's matter.
AskHelper(k, i, p, b) ==
  /\ p \in letters[k][i].to
  /\ group # "archived" /\ p \notin shelved /\ b \notin shelved
  /\ Cardinality({h \in helpers : h.letter = k /\ h.parent = p}) < MaxChildren
  /\ helpers' = helpers \cup {[letter |-> k, parent |-> p, child |-> b,
                               with |-> Inherited(p, letters[k][i].with)]}
  /\ UNCHANGED <<shelved, shape, files, grant, letters>>

GroupsNext ==
  \/ \E b \in Retiring : Shelve(b)
  \/ \E f \in Uploader : DeleteFile(f)
  \/ \E M \in SUBSET Bot : \E c \in M : CreateGroup(M, c)
  \/ Update
  \/ \E s \in {"active", "archived"} : FileAway(s)
  \/ \E F \in SUBSET Uploader : RevokeFiles(F) \/ \E b \in Bot : GrantFiles(F, b)
  \/ \E k \in Letter, R \in SUBSET Bot, F \in SUBSET Uploader : SendLetter(k, R, F)
  \/ \E k \in Letter, p, b \in Bot : \E i \in DOMAIN letters[k] : AskHelper(k, i, p, b)

GroupsSpec == GroupsInit /\ [][GroupsNext]_groupVars

-----------------------------------------------------------------------------
\* The tables that describe a group agree after any sequence of edits: two to
\* six active members, exactly one of them the coordinator, who is also the
\* conversation's bot, and an inbox entry that is archived when it is.  A
\* client's request id has one message, however often it is repeated and
\* whatever happened to the group in between.
GroupIsWhole ==
  /\ group # "absent" =>
       /\ Cardinality(ActiveMembers) \in 2..6
       /\ coordinator \in ActiveMembers /\ face = coordinator
       /\ {b \in Bot : role[b] = "coordinator"} = {coordinator}
       /\ filed = (group = "archived")
  /\ \A k \in Letter : Len(letters[k]) <= 1

\* What the sending methods let through agrees with what the reading methods
\* (can_respond, file_allowed) answer: who is asked may respond and may read
\* what is attached, unless the user has revoked it, and a helper is never
\* shown a file that the bot that asked it could not read.
WithinScope ==
  [][/\ \A k \in Letter : \A i \in DOMAIN letters'[k] \ DOMAIN letters[k] :
          \A b \in letters'[k][i].to :
            /\ CanRespond(b)
            /\ \A f \in letters'[k][i].with : FileAllowed(b, f)' \/ grant[f] = "revoked"
     /\ files' = files =>
          \A h \in helpers' \ helpers : \A f \in Uploader :
            HelperAllowed(h, f)' => FileAllowed(h.parent, f)]_groupVars
=============================================================================
