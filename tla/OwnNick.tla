------------------------------ MODULE OwnNick ------------------------------
(***************************************************************************)
(* The nick the client goes by, and the windows in which messages are      *)
(* shown (libircclient.c, ircstuff.h, privmsg_window_stuff.h, mdi_crap.c). *)
(* The library keeps the nick in the session, to tell messages to the user *)
(* from those to a channel; each window keeps it to show what the user     *)
(* says.  Both follow the server, whose messages take their time.  The     *)
(* server and the other users are external.                                *)
(***************************************************************************)
EXTENDS Naturals, Sequences, FiniteSets

CONSTANTS NickPool,        \* the nicks
          NickStarts,      \* per nick, the nicks that begin with it
          FirstNick,       \* thread->nick, which each connection asks for
          Fallbacks,       \* get_new_nick: the nicks it makes up, in order
          OwnChannels,
          NoNick,          \* the server's "*" before it knows the client
          MaxOwnWindows,   \* places for the windows of channels and private chats
          MaxOnWire,       \* bound: messages on their way, in each direction
          MaxOwnEvents     \* bound: things that happen

ASSUME OwnNickAssumption ==
  /\ FirstNick \in NickPool /\ NoNick \notin NickPool
  /\ \A n \in NickPool : NickStarts[n] \subseteq NickPool /\ n \in NickStarts[n]
  /\ Fallbacks \in Seq(NickPool)
  /\ MaxOwnWindows \in Nat

VARIABLES
  nick_link,      \* whether there is a connection
  own_nick,       \* server: the client's nick
  others,         \* server: the nicks of others
  in_channels,    \* server: the channels the client is in
  asked_nicks,    \* NICK requests on their way to the server
  from_server,    \* messages on their way to the client
  session_nick,   \* session->nick
  own_windows,    \* irc_windows: whether a window has the session, and its nick
  next_fallback,  \* get_new_nick: how many it has made up
  last_shown,     \* history: the message handled last, and where it was shown
  astray,         \* history: the windows could not know the nick
  own_events      \* how many things have happened

ownServer == <<own_nick, others, in_channels>>
ownClient == <<session_nick, own_windows, next_fallback>>
ownVars == <<nick_link, ownServer, asked_nicks, from_server, ownClient, last_shown, astray, own_events>>

ServerKey == <<"server", "">>
ChannelKey(c) == <<"channel", c>>
PrivateKey(n) == <<"private", n>>
Held == DOMAIN own_windows
With(windows, key, w) == [k \in DOMAIN windows \cup {key} |-> IF k = key THEN w ELSE windows[k]]

Nothing == [type |-> "none", to |-> NoNick, in |-> {}]

\* connect_server: the server's window and the thread have the same nick.
OwnNickInit ==
  /\ nick_link = TRUE
  /\ own_nick = NoNick /\ others \in SUBSET (NickPool \ {Fallbacks[i] : i \in DOMAIN Fallbacks})
  /\ in_channels = {}
  /\ asked_nicks = <<FirstNick>> /\ from_server = <<>>
  /\ session_nick = FirstNick
  /\ own_windows = [k \in {ServerKey} |-> [session |-> TRUE, nick |-> FirstNick]]
  /\ next_fallback = 1
  /\ last_shown = Nothing /\ astray = FALSE
  /\ own_events = 0

-----------------------------------------------------------------------------
\* The server and the others.
Occurs == nick_link /\ own_events < MaxOwnEvents /\ own_events' = own_events + 1
Arrives(message) == Len(from_server) < MaxOnWire /\ from_server' = Append(from_server, message)

Known == own_nick # NoNick

\* The first nick that is free makes the client known; 376 ends the greeting.
TakesNick ==
  LET n == Head(asked_nicks) IN
  /\ nick_link /\ asked_nicks # <<>>
  /\ asked_nicks' = Tail(asked_nicks)
  /\ IF n \in others \cup {own_nick}
     THEN UNCHANGED own_nick /\ Arrives([type |-> "433", to |-> own_nick])
     ELSE /\ own_nick' = n
          /\ Arrives(IF Known THEN [type |-> "NICK", from |-> own_nick, new |-> n]
                     ELSE [type |-> "376"])
  /\ UNCHANGED <<nick_link, others, in_channels, ownClient, last_shown, astray, own_events>>

\* Somebody takes another nick, which may be one the client had.
OtherRenames(n, new) ==
  /\ Occurs /\ Known
  /\ n \in others /\ new \in NickPool \ (others \cup {own_nick})
  /\ others' = (others \ {n}) \cup {new}
  /\ Arrives([type |-> "NICK", from |-> n, new |-> new])
  /\ UNCHANGED <<nick_link, own_nick, in_channels, asked_nicks, ownClient, last_shown, astray>>

\* A message to the user or to a channel; kind is "text", "action" or "notice".
OtherSays(n, to, kind) ==
  /\ Occurs /\ Known
  /\ n \in others /\ to \in {own_nick} \cup in_channels
  /\ Arrives([type |-> kind, from |-> n, to |-> to])
  /\ UNCHANGED <<nick_link, ownServer, asked_nicks, ownClient, last_shown, astray>>

\* The client asked to join, by /join or as it joins when it connects.
IsLetIn(c) ==
  /\ Occurs /\ Known
  /\ c \in OwnChannels \ in_channels
  /\ in_channels' = in_channels \cup {c}
  /\ Arrives([type |-> "JOIN", from |-> own_nick, to |-> c])
  /\ UNCHANGED <<nick_link, own_nick, others, asked_nicks, ownClient, last_shown, astray>>

\* The connection is lost; for a while the server may still hold the nick to be in use.
IsLost ==
  /\ Occurs
  /\ nick_link' = FALSE
  /\ own_nick' = NoNick /\ in_channels' = {}
  /\ others' \in {others, others \cup ({own_nick} \ {NoNick})}
  /\ asked_nicks' = <<>> /\ from_server' = <<>>
  /\ own_windows' = [k \in Held |-> [own_windows[k] EXCEPT !.session = FALSE]]
  /\ UNCHANGED <<session_nick, next_fallback, last_shown, astray>>

-----------------------------------------------------------------------------
HasWindow(k) == k \in Held /\ own_windows[k].session

\* acquire_channel_window: the window of that name, or a free place.
Acquires(k) == k \in Held \/ Cardinality(Held) <= MaxOwnWindows

\* server_thread connects again, with its nick; the windows keep theirs.
ConnectsAgain ==
  /\ ~nick_link /\ nick_link' = TRUE
  /\ session_nick' = FirstNick /\ asked_nicks' = <<FirstNick>>
  /\ own_windows' = [own_windows EXCEPT ![ServerKey].session = TRUE]
  /\ astray' = (astray \/ \E k \in Held : own_windows[k].nick # FirstNick)
  /\ UNCHANGED <<ownServer, from_server, next_fallback, last_shown, own_events>>

\* /nick. One that overtakes the greeting the windows do not hear of.
UserRenames(n) ==
  /\ Occurs
  /\ Len(asked_nicks) < MaxOnWire /\ asked_nicks' = Append(asked_nicks, n)
  /\ astray' = (astray \/ ~Known)
  /\ UNCHANGED <<nick_link, ownServer, from_server, ownClient, last_shown>>

\* /msg to somebody, from a window of the session: initiate_privmsg opens the private
\* window with the nick of the one it is called from.
UserOpensPrivate(n, from) ==
  LET k == PrivateKey(n) IN
  /\ nick_link /\ HasWindow(from) /\ ~HasWindow(k) /\ Acquires(k)
  /\ own_windows' = With(own_windows, k, [session |-> TRUE, nick |-> own_windows[from].nick])
  /\ UNCHANGED <<nick_link, ownServer, asked_nicks, from_server, session_nick, next_fallback,
                 last_shown, astray, own_events>>

CloseChat(k) ==
  /\ k \in Held \ {ServerKey}
  /\ own_windows' = [j \in Held \ {k} |-> own_windows[j]]
  /\ in_channels' = {c \in in_channels : ChannelKey(c) # k}
  /\ UNCHANGED <<nick_link, own_nick, others, asked_nicks, from_server, session_nick,
                 next_fallback, last_shown, astray, own_events>>

-----------------------------------------------------------------------------
\* Mutant: as the session does, a nick that begins with the window's counts as the window's.
RenamedByStart(old, new) ==
  [k \in Held |-> IF HasWindow(k) /\ old \in NickStarts[own_windows[k].nick]
                  THEN [own_windows[k] EXCEPT !.nick = new] ELSE own_windows[k]]

\* update_nick
Renamed(old, new) ==
  [k \in Held |-> IF HasWindow(k) /\ own_windows[k].nick = old
                  THEN [own_windows[k] EXCEPT !.nick = new] ELSE own_windows[k]]

\* update_user_nick
AllRenamed(new) ==
  [k \in Held |-> IF HasWindow(k) THEN [own_windows[k] EXCEPT !.nick = new] ELSE own_windows[k]]

Shows(m, keys) == last_shown' = [type |-> m.type, to |-> m.to, in |-> keys]
NotShown == last_shown' = Nothing

\* strncasecmp with the length of the session's nick.
ToMe(m) == m.to \in NickPool /\ m.to \in NickStarts[session_nick]

\* channel_msg_event
ShowInChannel(m) ==
  /\ Shows(m, {ChannelKey(m.to)} \cap {k \in Held : HasWindow(k)})
  /\ UNCHANGED own_windows

\* privmsg_event: the sender's window, found, given the session again, or opened.
ShowInPrivate(m) ==
  LET k == PrivateKey(m.from) IN
  \/ HasWindow(k) /\ Shows(m, {k}) /\ UNCHANGED own_windows
  \/ /\ ~HasWindow(k) /\ Acquires(k)
     /\ own_windows' = With(own_windows, k, [session |-> TRUE, nick |-> m.to])
     /\ Shows(m, {k})
  \/ ~HasWindow(k) /\ ~Acquires(k) /\ Shows(m, {}) /\ UNCHANGED own_windows

\* Mutant: what is not to the nick the session knows is taken for a channel's.
ByNickOnly(m) == IF ToMe(m) THEN ShowInPrivate(m) ELSE ShowInChannel(m)

\* event_privmsg shows a message in private; event_channel, and event_ctcp_action for
\* an action, look whom it is to.
ByTarget(m) == IF m.to \in OwnChannels THEN ShowInChannel(m) ELSE ShowInPrivate(m)

HandleMessage(m) ==
  /\ m.type \in {"text", "action"}
  /\ ByTarget(m)
  /\ UNCHANGED <<session_nick, next_fallback, asked_nicks, astray>>

\* A notice to the nick the session knows is shown in the server's window, and in
\* private where there is a window; any other goes to the handler of actions, which
\* leaves it alone.
HandleNotice(m) ==
  /\ m.type = "notice"
  /\ Shows(m, IF ToMe(m) THEN {ServerKey, PrivateKey(m.from)} \cap {k \in Held : HasWindow(k)} ELSE {})
  /\ UNCHANGED <<ownClient, asked_nicks, astray>>

\* The session follows whoever's nick begins with the one it knows; the windows, who
\* has just theirs.
HandleOwnNick(m) ==
  /\ m.type = "NICK"
  /\ session_nick' = IF m.from \in NickStarts[session_nick] THEN m.new ELSE session_nick
  /\ own_windows' = Renamed(m.from, m.new)
  /\ NotShown
  /\ UNCHANGED <<next_fallback, asked_nicks, astray>>

\* The nick asked for is in use. Before the greeting another is asked for and shown at
\* once, and the session does not hear of it.
HandleInUse(m) ==
  /\ m.type = "433"
  /\ NotShown /\ UNCHANGED session_nick
  /\ IF m.to = NoNick
     THEN /\ next_fallback <= Len(Fallbacks) /\ Len(asked_nicks) < MaxOnWire
          /\ asked_nicks' = Append(asked_nicks, Fallbacks[next_fallback])
          /\ next_fallback' = next_fallback + 1
          /\ own_windows' = AllRenamed(Fallbacks[next_fallback])
          /\ astray' = (astray \/ \E k \in Held : ~HasWindow(k))
     ELSE UNCHANGED <<own_windows, next_fallback, asked_nicks, astray>>

\* event_connect: update_chat_sessions gives the private windows the session.
HandleGreeting(m) ==
  /\ m.type = "376"
  /\ own_windows' = [k \in Held |-> IF k[1] = "private" THEN [own_windows[k] EXCEPT !.session = TRUE]
                                    ELSE own_windows[k]]
  /\ NotShown
  /\ UNCHANGED <<session_nick, next_fallback, asked_nicks, astray>>

\* join_channel_event: the channel's window is given the nick of the server's.
HandleLetIn(m) ==
  LET k == ChannelKey(m.to) IN
  /\ m.type = "JOIN"
  /\ own_windows' = IF Acquires(k)
                    THEN With(own_windows, k, [session |-> TRUE, nick |-> own_windows[ServerKey].nick])
                    ELSE own_windows
  /\ NotShown
  /\ UNCHANGED <<session_nick, next_fallback, asked_nicks, astray>>

\* The session's thread handles the next message.
HandleNext ==
  /\ nick_link /\ from_server # <<>>
  /\ LET m == Head(from_server) IN
       \/ HandleMessage(m) \/ HandleNotice(m) \/ HandleOwnNick(m)
       \/ HandleInUse(m) \/ HandleGreeting(m) \/ HandleLetIn(m)
  /\ from_server' = Tail(from_server)
  /\ UNCHANGED <<nick_link, ownServer, own_events>>

OwnNickNext ==
  \/ TakesNick
  \/ \E n, new \in NickPool : OtherRenames(n, new)
  \/ \E n \in NickPool, to \in NickPool \cup OwnChannels, kind \in {"text", "action", "notice"} :
       OtherSays(n, to, kind)
  \/ \E c \in OwnChannels : IsLetIn(c)
  \/ IsLost \/ ConnectsAgain
  \/ \E n \in NickPool : UserRenames(n)
  \/ \E n \in NickPool, k \in Held : UserOpensPrivate(n, k)
  \/ \E k \in Held : CloseChat(k)
  \/ HandleNext

OwnNickSpec == OwnNickInit /\ [][OwnNickNext]_ownVars

-----------------------------------------------------------------------------
\* The session and the windows have nicks, and the windows have places.
OwnNickTypeOK ==
  /\ nick_link \in BOOLEAN /\ astray \in BOOLEAN
  /\ own_nick \in NickPool \cup {NoNick} /\ others \subseteq NickPool /\ own_nick \notin others
  /\ session_nick \in NickPool
  /\ ServerKey \in Held /\ Cardinality(Held) <= MaxOwnWindows + 1
  /\ \A k \in Held : own_windows[k].session \in BOOLEAN /\ own_windows[k].nick \in NickPool
  /\ last_shown.in \subseteq Held \cup {PrivateKey(n) : n \in NickPool} \cup {ChannelKey(c) : c \in OwnChannels}

\* When the client has handled what the server sent, each window of the session shows
\* the nick the server knows the user by, however renames, names in use, joins and
\* messages to the user came in between, and also when somebody else takes the nick the
\* user had. It takes a connection made again after the nick changed or with chats
\* open that wait for it, or a rename before the greeting, to break this.
WindowsKnowNick ==
  nick_link /\ Known /\ from_server = <<>> /\ ~astray =>
    \A k \in Held : HasWindow(k) => own_windows[k].nick = own_nick

\* A message to the user is shown in the window of its sender and no other, and one to
\* a channel in the channel's, whatever nick the session believes to be the user's: a
\* private message is lost only when there is no place for its window.
MessagesFindWindow ==
  [][HandleNext /\ Head(from_server).type \in {"text", "action"} =>
       LET m == Head(from_server) IN
       IF m.to \in OwnChannels
       THEN last_shown'.in = {ChannelKey(m.to)} \/ ~HasWindow(ChannelKey(m.to))
       ELSE \/ last_shown'.in = {PrivateKey(m.from)}
            \/ last_shown'.in = {} /\ Cardinality(Held) > MaxOwnWindows]_ownVars

\* What the library says of its notice event, that a message which "someone has sent
\* the client" triggers it: a notice to the user is shown somewhere.
NoticesShown == last_shown.type = "notice" /\ last_shown.to \in NickPool => last_shown.in # {}
=============================================================================
