------------------------------- MODULE Homes --------------------------------
(***************************************************************************)
(* The direct conversations of one bot: backend/app/messenger.py's homes,  *)
(* aliases and read marks, and the pages of store.py's                     *)
(* list_messages_in_scope.  Older builds of the service made several       *)
(* conversations of a bot and wrote to each; now every lookup goes through *)
(* one home, to which the others are aliases.  The home of the chief also   *)
(* receives, late and with the times they had there, the messages of       *)
(* Telegram (telegram_bridge.py's import_history).  A client reads the     *)
(* history backwards, a page at a time, while messages keep arriving.      *)
(* (The clock of Telegram's gateway is taken not to be ahead.)             *)
(***************************************************************************)
EXTENDS Naturals, Sequences, FiniteSets

CONSTANTS MaxChats,     \* bound: conversations
          MaxMessages,  \* bound: messages
          MaxSecond,    \* bound: seconds of the clock
          MaxImports,   \* bound: rows written by import_history
          Page          \* messages in a page

ASSUME HomesAssumption ==
  /\ {MaxChats, MaxMessages, MaxSecond, MaxImports} \subseteq Nat
  /\ Page \in Nat \ {0}

VARIABLES
  made,       \* conversations exist with numbers 1..made, oldest first
  closed,     \* those with conversations.status = 'archived'
  home,       \* conversation_homes.conversation_id, 0 before the row
  aliases,    \* conversations with an alias row, all of them to the home
  away,       \* conversation_inbox.archived of the home
  messages,   \* the messages table in rowid order
  second,     \* the clock, in the seconds of created_at
  imports,    \* bound: rows written by import_history so far
  mark,       \* read_through: place of the message read last
  reader      \* a client paging back: place of the newest message of its
              \* first page, the message that is the cursor for the next one,
              \* what it has, if it is done; history, since the first page:
              \* messages imported or edited, was the cursor moved back

homeVars == <<made, closed, home, aliases, away, messages, second, imports, mark, reader>>

\* A place in the history is (created_at, rowid), no message has rowid 0.
Nowhere == <<0, 0>>
NotReading == [top |-> Nowhere, cursor |-> 0, got |-> {}, done |-> FALSE, late |-> {}, adrift |-> FALSE]

HomesTypeOK ==
  /\ made \in 0..MaxChats /\ closed \subseteq 1..made
  /\ home \in 0..made /\ aliases \subseteq 1..made
  /\ away \in BOOLEAN
  /\ messages \in Seq([in : 1..made, at : 0..MaxSecond, by : {"user", "assistant"}, imported : BOOLEAN])
  /\ second \in 0..MaxSecond /\ imports \in 0..MaxImports
  /\ mark \in (0..MaxSecond) \X (0..Len(messages))
  /\ reader \in [top : (0..MaxSecond) \X (0..Len(messages)), cursor : 0..Len(messages),
                 got : SUBSET (1..Len(messages)), done : BOOLEAN,
                 late : SUBSET (1..Len(messages)), adrift : BOOLEAN]

HomesInit ==
  /\ made = 0 /\ closed = {} /\ home = 0 /\ aliases = {} /\ away = FALSE
  /\ messages = <<>> /\ second = 0 /\ imports = 0 /\ mark = Nowhere
  /\ reader = NotReading

-----------------------------------------------------------------------------
(* The past: conversations and messages of older builds.  Such a build may *)
(* also have written after the home was made, and was replaced again.      *)

OldChat ==
  /\ made < MaxChats
  /\ made' = made + 1
  /\ UNCHANGED <<closed, home, aliases, away, messages, second, imports, mark, reader>>

Stored(c, t, who, imp) == Append(messages, [in |-> c, at |-> t, by |-> who, imported |-> imp])

OldMessage(c) ==
  /\ Len(messages) < MaxMessages /\ c \notin closed
  /\ \E who \in {"user", "assistant"} : messages' = Stored(c, second, who, FALSE)
  /\ UNCHANGED <<made, closed, home, aliases, away, second, imports, mark, reader>>

-----------------------------------------------------------------------------
(* The home.  Every method resolves its conversation first, which makes the *)
(* home if there is none and adds the aliases that are missing.             *)

\* Mutant: the aliases are made with the home, never later.
MadeAliasesOnce == IF home = 0 THEN 1..made' ELSE aliases

MadeAliases == 1..made'

\* _home_id_tx: the oldest conversation becomes the home, or a new one.
MakesHome ==
  /\ made' = IF made = 0 THEN 1 ELSE made
  /\ home' = IF home = 0 THEN 1 ELSE home
  /\ aliases' = MadeAliases

Scope == aliases \cup {home}

Home ==
  /\ MaxChats > 0 /\ MakesHome
  /\ <<home, aliases>>' # <<home, aliases>>
  /\ UNCHANGED <<closed, away, messages, second, imports, mark, reader>>

\* Messenger.send: whichever of the conversations is addressed, the message
\* goes to the home.
Say ==
  /\ made > 0 /\ MakesHome
  /\ Len(messages) < MaxMessages /\ home' \notin closed
  /\ messages' = Stored(home', second, "user", FALSE)
  /\ away' = FALSE
  /\ UNCHANGED <<closed, second, imports, mark, reader>>

\* The worker's reply to a message of the home.
Reply ==
  /\ Len(messages) < MaxMessages
  /\ \E i \in DOMAIN messages : messages[i].in = home /\ messages[i].by = "user"
  /\ messages' = Stored(home, second, "assistant", FALSE)
  /\ UNCHANGED <<made, closed, home, aliases, away, second, imports, mark, reader>>

\* archive_conversation and restore_conversation
Archiving(b) ==
  /\ made > 0 /\ MakesHome
  /\ closed' = IF b THEN closed \cup {home'} ELSE closed \ {home'}
  /\ away' = b
  /\ UNCHANGED <<messages, second, imports, mark, reader>>

SecondPasses ==
  /\ second < MaxSecond
  /\ second' = second + 1
  /\ UNCHANGED <<made, closed, home, aliases, away, messages, imports, mark, reader>>

-----------------------------------------------------------------------------
(* The order of the history, and the rows that import_history writes into it *)

Precedes(p, q) == p[1] < q[1] \/ (p[1] = q[1] /\ p[2] < q[2])
Place(i) == <<messages[i].at, i>>
Before(i, j) == Precedes(Place(i), Place(j))

\* What a reader that has begun will remember of such a row.
Imported(i, back) ==
  /\ imports < MaxImports /\ imports' = imports + 1
  /\ reader' = IF reader.top = Nowhere THEN reader
               ELSE [reader EXCEPT !.late = @ \cup {i}, !.adrift = @ \/ back]

\* A message comes with the time it had, whatever was stored since.
Import(t, who) ==
  /\ MaxChats > 0 /\ MakesHome
  /\ Len(messages) < MaxMessages /\ t <= second
  /\ messages' = Stored(home', t, who, TRUE)
  /\ Imported(Len(messages'), FALSE)
  /\ UNCHANGED <<closed, away, second, mark>>

\* One that was imported before has another time, role or text by now.
Reimport(i, t, who) ==
  /\ messages[i].imported /\ t <= second /\ MakesHome
  /\ messages' = [messages EXCEPT ![i] = [in |-> @.in, at |-> t, by |-> who, imported |-> TRUE]]
  /\ Imported(i, i = reader.cursor /\ t < messages[i].at)
  /\ UNCHANGED <<closed, away, second, mark>>

-----------------------------------------------------------------------------
(* Reading *)

InScope(S) == {i \in DOMAIN messages : messages[i].in \in S}
Unread == {i \in InScope(Scope) : messages[i].by = "assistant"
                                  /\ (mark # Nowhere => Precedes(mark, Place(i)))}

Further(i) == mark = Nowhere \/ ~Precedes(Place(i), mark)

\* mark_read, from any device and in any order
MarkRead(i) ==
  /\ MakesHome
  /\ i \in InScope(aliases')
  /\ mark' = IF Further(i) THEN Place(i) ELSE mark
  /\ UNCHANGED <<closed, away, messages, second, imports, reader>>

\* The newest messages before the cursor, as many as fit.
PageOf(older) ==
  {i \in older : Cardinality({j \in older : Before(i, j)}) < Page}

\* The client asks for the newest page, or for the one before its oldest,
\* wherever that is by now.
ReadPage ==
  /\ made > 0 /\ MakesHome
  /\ ~reader.done
  /\ LET first == reader.top = Nowhere
         page  == PageOf({i \in InScope(aliases') : first \/ Before(i, reader.cursor)})
     IN IF page = {} THEN reader' = [reader EXCEPT !.done = TRUE]
        ELSE reader' = [reader EXCEPT
               !.top    = IF first THEN Place(CHOOSE i \in page : \A j \in page : ~Before(i, j)) ELSE @,
               !.cursor = CHOOSE i \in page : \A j \in page : ~Before(j, i),
               !.got    = @ \cup page]
  /\ UNCHANGED <<closed, away, messages, second, imports, mark>>

HomesNext ==
  \/ OldChat \/ Home \/ Say \/ Reply \/ SecondPasses \/ ReadPage
  \/ \E c \in 1..made : OldMessage(c)
  \/ \E b \in BOOLEAN : Archiving(b)
  \/ \E i \in DOMAIN messages : MarkRead(i)
  \/ \E t \in 0..MaxSecond, who \in {"user", "assistant"} :
       \/ Import(t, who)
       \/ \E i \in DOMAIN messages : Reimport(i, t, who)

HomesSpec == HomesInit /\ [][HomesNext]_homeVars

-----------------------------------------------------------------------------
\* What was read and stays as it is stays read.
StaysRead ==
  home # 0 /\ home \in aliases =>
    {i \in Unread' \cap InScope(Scope) : messages'[i] = messages[i]} \subseteq Unread

\* "one stable chronological page across physical aliases": a client that has
\* paged back to the beginning has every message of the bot, in whichever
\* conversation it was written, up to the newest of its first page, although
\* messages arrived while it read, in the same second or later.  It can miss
\* only what was imported or edited while it read, unless its cursor was moved
\* back.  And a message once read is not unread again while it stays as it is,
\* however late a mark of another device is.
HistoryIsWhole ==
  /\ [](reader.done /\ reader.top # Nowhere /\ ~reader.adrift =>
          {i \in DOMAIN messages : ~Precedes(reader.top, Place(i))} \ reader.late \subseteq reader.got)
  /\ [][StaysRead]_homeVars
=============================================================================
