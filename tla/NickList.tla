------------------------------ MODULE NickList ------------------------------
(***************************************************************************)
(* The list box of a channel window, kept up to date from the messages of  *)
(* the server (channel_window_stuff.h, ircstuff.h, mdi_crap.c).  The       *)
(* connection's thread changes it, one message at a time; the UI thread    *)
(* clears it and asks for the names again.  The server is external: it     *)
(* knows the members, and sends what happens in order.                     *)
(***************************************************************************)
EXTENDS Integers, Sequences, FiniteSets

CONSTANTS NickNames,      \* the others; the client's own nick is Me
          Me,
          MaxMessages,    \* bound: messages on their way to the client
          MaxAsked,       \* bound: NAMES requests on their way to the server
          MaxEvents       \* bound: things that happen in the channel

ASSUME NickAssumption == Me \notin NickNames /\ MaxMessages \in Nat /\ MaxAsked \in Nat /\ MaxEvents \in Nat

Everybody == NickNames \cup {Me}
Prefixes == {"@", "+", ""}
Forms == Prefixes \X Everybody

VARIABLES
  members,   \* server: per member, whether it is operator and has voice
  to_client, \* messages the client has not handled yet
  asked,     \* NAMES requests the server has not answered yet
  hlist,     \* the list box: how often it has each form of a nick
  ghosts,    \* history: the client was put out of the channel and the list kept
  gap,       \* history: whether the list was cleared and the names are to come yet
  events     \* how many things have happened

nickVars == <<members, to_client, asked, hlist, ghosts, gap, events>>

EmptyList == [f \in Forms |-> 0]

NickInit ==
  /\ members = [n \in {} |-> {}]
  /\ to_client = <<>>
  /\ asked = 0
  /\ hlist = EmptyList
  /\ ghosts = FALSE /\ gap = "none"
  /\ events = 0

-----------------------------------------------------------------------------
\* The server.
Shown(modes) == CASE "o" \in modes -> "@"
                  [] "o" \notin modes /\ "v" \in modes -> "+"
                  [] OTHER -> ""

MemberForms == {<<Shown(members[n]), n>> : n \in DOMAIN members}

Tell(messages) ==
  /\ Len(to_client) + Len(messages) <= MaxMessages
  /\ to_client' = to_client \o messages

Happens == events < MaxEvents /\ events' = events + 1

\* Only a client in the channel hears of it.
TellChannel(message) == IF Me \in DOMAIN members THEN Tell(<<message>>) ELSE UNCHANGED to_client

\* NAMES, in two messages; how the names are divided is up to the server.
Names(part, all) == <<[type |-> "NAMES", forms |-> part, last |-> FALSE],
                      [type |-> "NAMES", forms |-> all \ part, last |-> TRUE]>>

client == <<asked, hlist, ghosts, gap>>

Joins(n) ==
  /\ Happens /\ n \in NickNames \ DOMAIN members
  /\ members' = [m \in DOMAIN members \cup {n} |-> IF m = n THEN {} ELSE members[m]]
  /\ TellChannel([type |-> "JOIN", nick |-> n])
  /\ UNCHANGED client

\* PART, QUIT, or KICK of somebody else.
Leaves(n) ==
  /\ Happens /\ n \in DOMAIN members \ {Me}
  /\ members' = [m \in DOMAIN members \ {n} |-> members[m]]
  /\ TellChannel([type |-> "LEAVE", nick |-> n])
  /\ UNCHANGED client

Renames(n, new) ==
  /\ Happens /\ n \in DOMAIN members \ {Me} /\ new \in NickNames \ DOMAIN members
  /\ members' = [m \in (DOMAIN members \ {n}) \cup {new} |-> IF m = new THEN members[n] ELSE members[m]]
  /\ TellChannel([type |-> "NICK", nick |-> n, new |-> new])
  /\ UNCHANGED client

\* MODE with one o or v. Modes that take other parameters are left out.
SetsMode(n, set, mode) ==
  /\ Happens /\ n \in DOMAIN members
  /\ members' = [members EXCEPT ![n] = IF set THEN @ \cup {mode} ELSE @ \ {mode}]
  /\ TellChannel([type |-> "MODE", set |-> set, mode |-> mode, nick |-> n])
  /\ UNCHANGED client

\* The client joins, for the first time or after a KICK (404 makes it join again).
IJoin(part) ==
  /\ Happens /\ Me \notin DOMAIN members
  /\ members' = [m \in DOMAIN members \cup {Me} |-> IF m = Me THEN {} ELSE members[m]]
  /\ part \subseteq MemberForms
  /\ Tell(<<[type |-> "JOIN", nick |-> Me]>> \o Names(part, MemberForms \cup {<<"", Me>>}))
  /\ UNCHANGED client

IAmKicked ==
  /\ Happens /\ Me \in DOMAIN members
  /\ members' = [m \in DOMAIN members \ {Me} |-> members[m]]
  /\ Tell(<<[type |-> "LEAVE", nick |-> Me]>>)
  /\ UNCHANGED client

\* Who is not in the channel is told no names.
AnswerNames(part) ==
  /\ asked > 0 /\ asked' = asked - 1
  /\ part \subseteq MemberForms
  /\ IF Me \in DOMAIN members THEN Tell(Names(part, MemberForms)) ELSE UNCHANGED to_client
  /\ UNCHANGED <<members, hlist, ghosts, gap, events>>

Server == \/ \E n \in NickNames : \/ Joins(n)
                                  \/ Leaves(n)
                                  \/ \E new \in NickNames : Renames(n, new)
          \/ \E n \in Everybody, set \in BOOLEAN, mode \in {"o", "v"} : SetsMode(n, set, mode)
          \/ \E part \in SUBSET MemberForms : IJoin(part) \/ AnswerNames(part)
          \/ IAmKicked

-----------------------------------------------------------------------------
\* The client. LB_DELETESTRING and LB_ADDSTRING on a form of a nick.
Dropped(list, f) == [list EXCEPT ![f] = IF @ > 0 THEN @ - 1 ELSE 0]
Put(list, f) == [list EXCEPT ![f] = @ + 1]

\* add_nick: every form of the nick is taken out once.
AddNick(list, f) ==
  Put([g \in Forms |-> IF g[2] = f[2] /\ list[g] > 0 THEN list[g] - 1 ELSE list[g]], f)

AddNicks(list, forms) ==
  [g \in Forms |->
     LET kept == IF list[g] > 0 /\ \E f \in forms : f[2] = g[2] THEN list[g] - 1 ELSE list[g]
     IN IF g \in forms THEN kept + 1 ELSE kept]

\* The form update_nick_in_list finds first.
Found(list, n) == CASE list[<<"@", n>>] > 0 -> {<<"@", n>>}
                    [] list[<<"@", n>>] = 0 /\ list[<<"+", n>>] > 0 -> {<<"+", n>>}
                    [] list[<<"@", n>>] = 0 /\ list[<<"+", n>>] = 0 /\ list[<<"", n>>] > 0 -> {<<"", n>>}
                    [] OTHER -> {}

\* update_nick_in_list, with no new nick and with one.
DropNick(list, n) == [f \in Forms |-> IF f \in Found(list, n) THEN list[f] - 1 ELSE list[f]]
RenameNick(list, n, new) ==
  IF Found(list, n) = {} THEN list
  ELSE LET f == CHOOSE f \in Found(list, n) : TRUE IN Put(Dropped(list, f), <<f[1], new>>)

\* Mutant: an operator who gets voice is shown with voice.
SetShownAlways(list, mode, n) == AddNick(list, <<IF mode = "o" THEN "@" ELSE "+", n>>)

\* update_nick_list: an operator who gets voice stays an operator.
SetShown(list, mode, n) ==
  IF mode = "v" /\ list[<<"@", n>>] > 0 THEN list
  ELSE AddNick(list, <<IF mode = "o" THEN "@" ELSE "+", n>>)

\* LB_RESETCONTENT and a NAMES request, which a full output buffer refuses.
AskAgain(sent) ==
  /\ hlist' = EmptyList /\ ghosts' = FALSE /\ gap' = "cleared"
  /\ asked' = IF sent THEN asked + 1 ELSE asked

Changes(list) == hlist' = list /\ UNCHANGED <<asked, ghosts, gap>>

\* join_channel_event: for the client's own JOIN it means to clear the list, but the
\* message goes to a child of the list box that there is not.
HandleJoin(m) == m.type = "JOIN" /\ Changes(IF m.nick = Me THEN hlist ELSE AddNick(hlist, <<"", m.nick>>))

\* part_channel_event, quit_irc_event and event_kick.
HandleLeave(m) ==
  /\ m.type = "LEAVE"
  /\ hlist' = DropNick(hlist, m.nick)
  /\ ghosts' = (ghosts \/ m.nick = Me)
  /\ UNCHANGED <<asked, gap>>

\* event_nick
HandleNick(m) == m.type = "NICK" /\ Changes(RenameNick(hlist, m.nick, m.new))

\* event_mode: what is taken away is asked for again, what is given is known.
HandleMode(m, sent) ==
  /\ m.type = "MODE"
  /\ IF m.set THEN Changes(SetShown(hlist, m.mode, m.nick)) ELSE AskAgain(sent)

\* list_names_event. In the history, what was cleared is complete again once a whole
\* answer has been handled, whichever request it answers.
HandleNames(m) ==
  /\ m.type = "NAMES"
  /\ hlist' = AddNicks(hlist, m.forms)
  /\ gap' = CASE gap = "cleared" /\ ~m.last -> "coming"
              [] gap = "coming" /\ m.last -> "none"
              [] OTHER -> gap
  /\ UNCHANGED <<asked, ghosts>>

Handle(sent) ==
  /\ to_client # <<>>
  /\ LET m == Head(to_client) IN
       HandleJoin(m) \/ HandleLeave(m) \/ HandleNick(m) \/ HandleMode(m, sent) \/ HandleNames(m)
  /\ to_client' = Tail(to_client)
  /\ UNCHANGED <<members, events>>

\* The menu command that refreshes the list, and those that kick.
Refresh(sent) ==
  /\ asked < MaxAsked
  /\ AskAgain(sent)
  /\ UNCHANGED <<members, to_client, events>>

NickNext == Server \/ \E sent \in BOOLEAN : Handle(sent) \/ Refresh(sent)

NickSpec == NickInit /\ [][NickNext]_nickVars

-----------------------------------------------------------------------------
\* Members have modes, messages are few, and the list box holds forms of nicks.
NickTypeOK ==
  /\ DOMAIN members \subseteq Everybody
  /\ \A n \in DOMAIN members : members[n] \subseteq {"o", "v"}
  /\ Len(to_client) <= MaxMessages
  /\ asked \in Nat /\ hlist \in [Forms -> Nat]
  /\ ghosts \in BOOLEAN /\ gap \in {"none", "cleared", "coming"} /\ events \in 0 .. MaxEvents

Listed(n) == \E p \in Prefixes : hlist[<<p, n>>] > 0
Quiet == to_client = <<>> /\ Me \in DOMAIN members

\* When the client has handled all that was sent, and it was not put out of the
\* channel with its list kept, nobody is listed who is not a member, however joins,
\* departures, renames and names asked for again overtake each other. And when the
\* names have come since the list was last cleared, it shows each member once, in the
\* form that the member's modes call for.
ListShowsChannel ==
  Quiet /\ ~ghosts =>
    /\ \A n \in Everybody : Listed(n) => n \in DOMAIN members
    /\ gap = "none" => \A f \in Forms : hlist[f] = IF f \in MemberForms THEN 1 ELSE 0
=============================================================================
