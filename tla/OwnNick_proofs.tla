--------------------------- MODULE OwnNick_proofs ---------------------------
(***************************************************************************)
(* The user's nick in the windows, for any nicks, any channels and any     *)
(* number of messages on their way.  The argument: each message belongs to *)
(* the nick the server knew the user by when it was sent, and the windows  *)
(* have the one that belongs to the message they are to handle next.       *)
(* Before the server knows the user, one question about the nick or one    *)
(* refusal is on its way, and the windows have the nick that was asked     *)
(* for.                                                                    *)
(***************************************************************************)
EXTENDS OwnNick, SequenceTheorems, FiniteSetTheorems, TLAPS

Window == [session : BOOLEAN, nick : NickPool]

WindowKeys == {ServerKey} \cup {PrivateKey(n) : n \in NickPool} \cup {ChannelKey(c) : c \in OwnChannels}

SentMessages == [type : {"433"}, to : NickPool \cup {NoNick}]
        \cup [type : {"376"}]
        \cup [type : {"NICK"}, from : NickPool, new : NickPool]
        \cup [type : {"text", "action", "notice"}, from : NickPool, to : NickPool \cup OwnChannels]
        \cup [type : {"JOIN"}, from : NickPool, to : OwnChannels]

WindowTypes(windows) ==
  /\ windows \in [DOMAIN windows -> Window]
  /\ ServerKey \in DOMAIN windows /\ DOMAIN windows \subseteq WindowKeys
  /\ IsFiniteSet(DOMAIN windows) /\ Cardinality(DOMAIN windows) <= MaxOwnWindows + 1

OwnTypes ==
  /\ nick_link \in BOOLEAN /\ astray \in BOOLEAN
  /\ own_nick \in NickPool \cup {NoNick} /\ others \subseteq NickPool /\ own_nick \notin others
  /\ in_channels \subseteq OwnChannels
  /\ asked_nicks \in Seq(NickPool) /\ from_server \in Seq(SentMessages)
  /\ session_nick \in NickPool /\ next_fallback \in Nat \ {0}
  /\ WindowTypes(own_windows)
  /\ last_shown.in \subseteq WindowKeys
  /\ IF nick_link THEN HasWindow(ServerKey) ELSE from_server = <<>> /\ ~Known

\* What a message says that the server sent while it knew the user by one nick, and
\* by which it knew the user afterwards.
TellsOwn(m, before, after) ==
  /\ m.type # "NICK" => after = before
  /\ m.type = "NICK" => after = IF m.from = before THEN m.new ELSE before
  /\ m.type = "433" => m.to # NoNick
  /\ m.type \in {"text", "action", "notice"} => m.to \in {before} \cup OwnChannels

\* The nicks the user had while the messages were sent that are still on their way.
Had(nicks) ==
  /\ nicks[Len(from_server) + 1] = own_nick
  /\ \A i \in 1 .. Len(from_server) : TellsOwn(from_server[i], nicks[i], nicks[i + 1])

AllHave(n) == \A k \in Held : own_windows[k].nick = n

\* The server does not know the user yet.
Asking ==
  \/ from_server = <<>> /\ \E n \in NickPool : asked_nicks = <<n>> /\ AllHave(n)
  \/ asked_nicks = <<>> /\ from_server = <<[type |-> "433", to |-> NoNick]>>

\* It does: only the first message can be the end of the greeting, and until then
\* windows without the session count, which will have it again.
Following ==
  \E nicks \in [1 .. Len(from_server) + 1 -> NickPool] :
    /\ Had(nicks)
    /\ \A k \in Held : HasWindow(k) => own_windows[k].nick = nicks[1]
    /\ \A i \in 1 .. Len(from_server) :
         from_server[i].type = "376" => i = 1 /\ AllHave(nicks[1])

NickInv ==
  /\ OwnTypes
  /\ nick_link /\ ~astray => IF Known THEN Following ELSE Asking

-----------------------------------------------------------------------------
\* What the messages are that the server sends.
LEMMA SentFacts ==
  /\ \A n \in NickPool \cup {NoNick} : [type |-> "433", to |-> n] \in SentMessages
  /\ [type |-> "376"] \in SentMessages
  /\ \A n, new \in NickPool : [type |-> "NICK", from |-> n, new |-> new] \in SentMessages
  /\ \A n \in NickPool, to \in NickPool \cup OwnChannels, kind \in {"text", "action", "notice"} :
       [type |-> kind, from |-> n, to |-> to] \in SentMessages
  /\ \A n \in NickPool, c \in OwnChannels : [type |-> "JOIN", from |-> n, to |-> c] \in SentMessages
  /\ \A m \in SentMessages :
       /\ m.type = "433" => m.to \in NickPool \cup {NoNick}
       /\ m.type = "NICK" => m.from \in NickPool /\ m.new \in NickPool
       /\ m.type \in {"text", "action", "notice"} => m.from \in NickPool /\ m.to \in NickPool \cup OwnChannels
       /\ m.type = "JOIN" => m.to \in OwnChannels
BY DEF SentMessages

\* A window more, or one changed.
LEMMA WithTypes ==
  ASSUME OwnTypes, NEW k \in WindowKeys, NEW w \in Window, Acquires(k),
         own_windows' = With(own_windows, k, w)
  PROVE  /\ WindowTypes(own_windows') /\ Held' = Held \cup {k} /\ own_windows'[k] = w
         /\ \A j \in Held \ {k} : own_windows'[j] = own_windows[j]
<1>1. WindowTypes(own_windows) /\ MaxOwnWindows \in Nat
  BY OwnNickAssumption DEF OwnTypes
<1>2. Held' = Held \cup {k} /\ own_windows' = [j \in Held \cup {k} |-> IF j = k THEN w ELSE own_windows[j]]
  BY DEF With, Held
<1>3. IsFiniteSet(Held \cup {k})
      /\ Cardinality(Held \cup {k}) = IF k \in Held THEN Cardinality(Held) ELSE Cardinality(Held) + 1
  BY <1>1, FS_AddElement DEF WindowTypes, Held
<1>4. Cardinality(Held) \in Nat
  BY <1>1, FS_CardinalityType DEF WindowTypes, Held
<1>5. Cardinality(Held') <= MaxOwnWindows + 1
  BY <1>1, <1>2, <1>3, <1>4 DEF Acquires, WindowTypes, Held
<1>6. own_windows' \in [Held' -> Window]
  BY <1>1, <1>2 DEF WindowTypes, Held
<1> QED
  BY <1>1, <1>2, <1>3, <1>5, <1>6 DEF WindowTypes, Held

\* Windows that all stay, some with another nick or session.
LEMMA ChangedTypes ==
  ASSUME OwnTypes, Held' = Held, own_windows' \in [Held -> Window]
  PROVE  WindowTypes(own_windows')
BY DEF OwnTypes, WindowTypes, Held

\* The windows that a message opens, or gives the session or a nick.
LEMMA HandlerTypes ==
  ASSUME OwnTypes, HandleNext
  PROVE  OwnTypes'
<1> DEFINE m == Head(from_server)
<1>1. /\ nick_link /\ nick_link' = nick_link /\ UNCHANGED ownServer
      /\ m \in SentMessages /\ from_server' \in Seq(SentMessages)
  BY HeadTailProperties DEF OwnTypes, HandleNext
<1>2. /\ own_windows \in [Held -> Window] /\ HasWindow(ServerKey) /\ ServerKey \in Held /\ Held \subseteq WindowKeys
      /\ ServerKey \in WindowKeys
      /\ \A n \in NickPool : PrivateKey(n) \in WindowKeys
      /\ \A c \in OwnChannels : ChannelKey(c) \in WindowKeys
      /\ WindowTypes(own_windows)
      /\ session_nick \in NickPool /\ astray \in BOOLEAN /\ next_fallback \in Nat \ {0}
      /\ asked_nicks \in Seq(NickPool)
  BY <1>1 DEF OwnTypes, WindowTypes, Held, WindowKeys
<1>3. SUFFICES /\ WindowTypes(own_windows') /\ own_windows'[ServerKey].session
               /\ session_nick' \in NickPool /\ astray' \in BOOLEAN /\ next_fallback' \in Nat \ {0}
               /\ asked_nicks' \in Seq(NickPool) /\ last_shown'.in \subseteq WindowKeys
  BY <1>1 DEF OwnTypes, ownServer, HasWindow, Held, WindowTypes
<1> HIDE DEF m
<1>4. CASE HandleMessage(m)
  <2>1. m.from \in NickPool /\ m.to \in NickPool \cup OwnChannels
    BY <1>1, <1>4, SentFacts DEF HandleMessage
  <2>2. session_nick' = session_nick /\ astray' = astray /\ next_fallback' = next_fallback
        /\ asked_nicks' = asked_nicks
    BY <1>4 DEF HandleMessage
  <2>3. last_shown'.in \subseteq WindowKeys
    BY <1>2, <1>4, <2>1 DEF HandleMessage, ByTarget, ShowInChannel, ShowInPrivate, Shows, HasWindow
  <2>4. CASE own_windows' = own_windows
    BY <1>2, <2>2, <2>3, <2>4 DEF HasWindow
  <2>5. CASE own_windows' # own_windows
    <3>1. /\ m.to \notin OwnChannels /\ Acquires(PrivateKey(m.from))
          /\ own_windows' = With(own_windows, PrivateKey(m.from), [session |-> TRUE, nick |-> m.to])
      BY <1>4, <2>5 DEF HandleMessage, ByTarget, ShowInChannel, ShowInPrivate
    <3>2. [session |-> TRUE, nick |-> m.to] \in Window /\ PrivateKey(m.from) \in WindowKeys
      BY <1>2, <2>1, <3>1 DEF Window
    <3>3. /\ WindowTypes(own_windows')
          /\ own_windows'[PrivateKey(m.from)] = [session |-> TRUE, nick |-> m.to]
          /\ \A j \in Held \ {PrivateKey(m.from)} : own_windows'[j] = own_windows[j]
      BY <3>1, <3>2, WithTypes
    <3> QED
      BY <1>2, <2>2, <2>3, <3>3 DEF HasWindow
  <2> QED
    BY <2>4, <2>5
<1>5. CASE HandleNotice(m)
  <2>1. m.from \in NickPool
    BY <1>1, <1>5, SentFacts DEF HandleNotice
  <2>2. UNCHANGED ownClient /\ UNCHANGED <<asked_nicks, astray>> /\ last_shown'.in \subseteq WindowKeys
    BY <1>2, <1>5, <2>1 DEF HandleNotice, Shows
  <2> QED
    BY <1>2, <2>2 DEF ownClient, HasWindow
<1>6. CASE HandleOwnNick(m)
  <2>1. m.from \in NickPool /\ m.new \in NickPool
    BY <1>1, <1>6, SentFacts DEF HandleOwnNick
  <2>2. session_nick' \in NickPool /\ UNCHANGED <<next_fallback, asked_nicks, astray>> /\ last_shown' = Nothing
    BY <1>2, <1>6, <2>1 DEF HandleOwnNick, NotShown
  <2>3. Held' = Held /\ own_windows' \in [Held -> Window] /\ own_windows'[ServerKey].session
    BY <1>2, <1>6, <2>1 DEF HandleOwnNick, Renamed, HasWindow, Window, Held
  <2> QED
    BY <1>2, <2>2, <2>3, ChangedTypes DEF Nothing
<1>7. CASE HandleInUse(m)
  <2>1. session_nick' = session_nick /\ last_shown' = Nothing
    BY <1>7 DEF HandleInUse, NotShown
  <2>2. CASE m.to # NoNick
    <3>1. UNCHANGED <<own_windows, next_fallback, asked_nicks, astray>>
      BY <1>7, <2>2 DEF HandleInUse
    <3> QED
      BY <1>2, <2>1, <3>1 DEF Nothing, HasWindow
  <2>3. CASE m.to = NoNick
    <3> DEFINE n == Fallbacks[next_fallback]
    <3>1. /\ next_fallback <= Len(Fallbacks)
          /\ asked_nicks' = Append(asked_nicks, n) /\ next_fallback' = next_fallback + 1
          /\ own_windows' = AllRenamed(n)
          /\ astray' \in BOOLEAN
      BY <1>2, <1>7, <2>3 DEF HandleInUse
    <3>2. n \in NickPool
      <4>1. Len(Fallbacks) \in Nat /\ Fallbacks \in Seq(NickPool)
        BY OwnNickAssumption, LenProperties
      <4>2. next_fallback \in 1 .. Len(Fallbacks)
        BY <1>2, <3>1, <4>1
      <4> QED
        BY <4>1, <4>2, ElementOfSeq
    <3> HIDE DEF n
    <3>3. asked_nicks' \in Seq(NickPool)
      BY <1>2, <3>1, <3>2, AppendProperties
    <3>4. Held' = Held /\ own_windows' \in [Held -> Window] /\ own_windows'[ServerKey].session
      BY <1>2, <3>1, <3>2 DEF AllRenamed, HasWindow, Window, Held
    <3>5. next_fallback' \in Nat \ {0}
      BY <1>2, <3>1
    <3> QED
      BY <1>2, <2>1, <3>1, <3>3, <3>4, <3>5, ChangedTypes DEF Nothing
  <2> QED
    BY <2>2, <2>3
<1>8. CASE HandleGreeting(m)
  <2>1. UNCHANGED <<session_nick, next_fallback, asked_nicks, astray>> /\ last_shown' = Nothing
    BY <1>8 DEF HandleGreeting, NotShown
  <2>2. Held' = Held /\ own_windows' \in [Held -> Window] /\ own_windows'[ServerKey].session
    BY <1>2, <1>8 DEF HandleGreeting, HasWindow, Window, Held
  <2> QED
    BY <1>2, <2>1, <2>2, ChangedTypes DEF Nothing
<1>9. CASE HandleLetIn(m)
  <2> DEFINE w == [session |-> TRUE, nick |-> own_windows[ServerKey].nick]
             k == ChannelKey(m.to)
  <2>1. UNCHANGED <<session_nick, next_fallback, asked_nicks, astray>> /\ last_shown' = Nothing
    BY <1>9 DEF HandleLetIn, NotShown
  <2>2. w \in Window /\ k \in WindowKeys
    BY <1>1, <1>2, <1>9, SentFacts DEF HandleLetIn, Window
  <2>3. own_windows' = IF Acquires(k) THEN With(own_windows, k, w) ELSE own_windows
    BY <1>9 DEF HandleLetIn
  <2> HIDE DEF w
  <2>4. CASE Acquires(k)
    <3>1. /\ WindowTypes(own_windows') /\ own_windows'[k] = w
          /\ \A j \in Held \ {k} : own_windows'[j] = own_windows[j]
      BY <2>2, <2>3, <2>4, WithTypes
    <3> QED
      BY <1>2, <2>1, <3>1 DEF w, Nothing, HasWindow
  <2>5. CASE ~Acquires(k)
    BY <1>2, <2>1, <2>3, <2>5 DEF Nothing, HasWindow
  <2> QED
    BY <2>4, <2>5
<1> QED
  BY <1>4, <1>5, <1>6, <1>7, <1>8, <1>9 DEF HandleNext, m

\* At first there is the server's window.
LEMMA TypesInit == OwnNickInit => OwnTypes
<1> SUFFICES ASSUME OwnNickInit PROVE OwnTypes
  OBVIOUS
<1>1. /\ nick_link = TRUE /\ own_nick = NoNick /\ others \subseteq NickPool /\ in_channels = {}
      /\ asked_nicks = <<FirstNick>> /\ from_server = <<>> /\ session_nick = FirstNick
      /\ own_windows = [k \in {ServerKey} |-> [session |-> TRUE, nick |-> FirstNick]]
      /\ next_fallback = 1 /\ last_shown = Nothing /\ astray = FALSE
  BY DEF OwnNickInit
<1>2. FirstNick \in NickPool /\ NoNick \notin NickPool /\ MaxOwnWindows \in Nat
  BY OwnNickAssumption
<1>3. <<>> \in Seq(SentMessages) /\ asked_nicks \in Seq(NickPool)
  BY <1>1, <1>2, EmptySeq
<1>4. Held = {ServerKey} /\ IsFiniteSet(Held) /\ Cardinality(Held) = 1 /\ HasWindow(ServerKey)
  BY <1>1, FS_Singleton DEF Held, HasWindow
<1>5. WindowTypes(own_windows)
  <2>1. own_windows \in [Held -> Window]
    BY <1>1, <1>2, <1>4 DEF Window
  <2>2. 1 <= MaxOwnWindows + 1
    BY <1>2
  <2> QED
    BY <1>4, <2>1, <2>2 DEF WindowTypes, Held, WindowKeys
<1>6. last_shown.in \subseteq WindowKeys /\ own_nick \in NickPool \cup {NoNick} /\ own_nick \notin others
      /\ in_channels \subseteq OwnChannels /\ next_fallback \in Nat \ {0}
  BY <1>1, <1>2 DEF Nothing
<1> QED
  BY <1>1, <1>2, <1>3, <1>4, <1>5, <1>6 DEF OwnTypes

\* Every step keeps nicks, windows and messages in their types.
LEMMA TypesStep == OwnTypes /\ [OwnNickNext]_ownVars => OwnTypes'
<1> SUFFICES ASSUME OwnTypes, [OwnNickNext]_ownVars PROVE OwnTypes'
  OBVIOUS
<1>1. /\ own_windows \in [Held -> Window] /\ ServerKey \in Held /\ Held \subseteq WindowKeys
      /\ WindowTypes(own_windows) /\ FirstNick \in NickPool /\ NoNick \notin NickPool
      /\ \A n \in NickPool : PrivateKey(n) \in WindowKeys
  BY OwnNickAssumption DEF OwnTypes, WindowTypes, Held, WindowKeys
<1> USE DEF ownServer, ownClient
<1>2. ASSUME NEW m \in SentMessages, Arrives(m)
      PROVE  from_server' \in Seq(SentMessages)
  BY <1>2, AppendProperties DEF Arrives, OwnTypes
<1>3. CASE TakesNick
  <2>1. nick_link /\ Head(asked_nicks) \in NickPool /\ asked_nicks' \in Seq(NickPool)
    BY <1>3, HeadTailProperties DEF TakesNick, OwnTypes
  <2>2. own_nick' \in NickPool \cup {NoNick} /\ own_nick' \notin others /\ from_server' \in Seq(SentMessages)
    <3>1. CASE Head(asked_nicks) \in others \cup {own_nick}
      <4>1. own_nick' = own_nick /\ Arrives([type |-> "433", to |-> own_nick])
        BY <1>3, <3>1 DEF TakesNick
      <4>2. [type |-> "433", to |-> own_nick] \in SentMessages
        BY SentFacts DEF OwnTypes
      <4> QED
        BY <1>2, <4>1, <4>2 DEF OwnTypes
    <3>2. CASE Head(asked_nicks) \notin others \cup {own_nick}
      <4>1. /\ own_nick' = Head(asked_nicks)
            /\ Arrives(IF Known THEN [type |-> "NICK", from |-> own_nick, new |-> Head(asked_nicks)]
                       ELSE [type |-> "376"])
        BY <1>3, <3>2 DEF TakesNick
      <4>2. CASE Known
        <5>1. [type |-> "NICK", from |-> own_nick, new |-> Head(asked_nicks)] \in SentMessages
          BY <2>1, <4>2, SentFacts DEF OwnTypes, Known
        <5> QED
          BY <1>2, <2>1, <3>2, <4>1, <4>2, <5>1
      <4>3. CASE ~Known
        BY <1>2, <2>1, <3>2, <4>1, <4>3, SentFacts
      <4> QED
        BY <4>2, <4>3
    <3> QED
      BY <3>1, <3>2
  <2>3. UNCHANGED <<nick_link, others, in_channels, ownClient, last_shown, astray, own_events>>
    BY <1>3 DEF TakesNick
  <2> QED
    BY <2>1, <2>2, <2>3 DEF OwnTypes, HasWindow, Held
<1>4. ASSUME NEW n \in NickPool, NEW new \in NickPool, OtherRenames(n, new)
      PROVE  OwnTypes'
  <2>1. from_server' \in Seq(SentMessages)
    BY <1>2, <1>4, SentFacts DEF OtherRenames
  <2>2. others' \subseteq NickPool /\ own_nick \notin others' /\ nick_link
    BY <1>4 DEF OtherRenames, OwnTypes, Occurs
  <2>3. UNCHANGED <<nick_link, own_nick, in_channels, asked_nicks, ownClient, last_shown, astray>>
    BY <1>4 DEF OtherRenames
  <2> QED
    BY <2>1, <2>2, <2>3 DEF OwnTypes, HasWindow, Held
<1>5. ASSUME NEW n \in NickPool, NEW to \in NickPool \cup OwnChannels, NEW kind \in {"text", "action", "notice"},
             OtherSays(n, to, kind)
      PROVE  OwnTypes'
  <2>1. from_server' \in Seq(SentMessages)
    BY <1>2, <1>5, SentFacts DEF OtherSays
  <2>2. nick_link /\ UNCHANGED <<nick_link, ownServer, asked_nicks, ownClient, last_shown, astray>>
    BY <1>5 DEF OtherSays, Occurs
  <2> QED
    BY <2>1, <2>2 DEF OwnTypes, HasWindow, Held
<1>6. ASSUME NEW c \in OwnChannels, IsLetIn(c)
      PROVE  OwnTypes'
  <2>1. own_nick \in NickPool
    BY <1>6 DEF IsLetIn, Known, OwnTypes
  <2>2. from_server' \in Seq(SentMessages)
    BY <1>2, <1>6, <2>1, SentFacts DEF IsLetIn
  <2>3. /\ nick_link /\ in_channels' = in_channels \cup {c}
        /\ UNCHANGED <<nick_link, own_nick, others, asked_nicks, ownClient, last_shown, astray>>
    BY <1>6 DEF IsLetIn, Occurs
  <2> QED
    BY <2>2, <2>3 DEF OwnTypes, HasWindow, Held
<1>7. CASE IsLost
  <2>1. /\ own_nick' = NoNick /\ in_channels' = {} /\ nick_link' = FALSE
        /\ asked_nicks' = <<>> /\ from_server' = <<>>
        /\ UNCHANGED <<session_nick, next_fallback, last_shown, astray>>
        /\ others' \in {others, others \cup ({own_nick} \ {NoNick})}
        /\ own_windows' = [k \in Held |-> [own_windows[k] EXCEPT !.session = FALSE]]
    BY <1>7 DEF IsLost
  <2>2. others' \subseteq NickPool /\ NoNick \notin others'
    BY <1>1, <2>1 DEF OwnTypes
  <2>3. asked_nicks' \in Seq(NickPool) /\ from_server' \in Seq(SentMessages)
    BY <2>1, EmptySeq
  <2>4. Held' = Held /\ own_windows' \in [Held -> Window]
    BY <1>1, <2>1 DEF Held, Window
  <2>5. WindowTypes(own_windows')
    BY <2>4, ChangedTypes
  <2> QED
    BY <2>1, <2>2, <2>3, <2>5 DEF OwnTypes, Known
<1>8. CASE ConnectsAgain
  <2>1. /\ ~nick_link /\ nick_link' = TRUE /\ session_nick' = FirstNick /\ asked_nicks' = <<FirstNick>>
        /\ own_windows' = [own_windows EXCEPT ![ServerKey].session = TRUE]
        /\ astray' \in BOOLEAN
        /\ UNCHANGED <<ownServer, from_server, next_fallback, last_shown, own_events>>
    BY <1>8 DEF ConnectsAgain, OwnTypes
  <2>2. Held' = Held /\ own_windows' \in [Held -> Window] /\ own_windows'[ServerKey].session
    BY <1>1, <2>1 DEF Held, Window
  <2>3. WindowTypes(own_windows') /\ asked_nicks' \in Seq(NickPool)
    BY <1>1, <2>1, <2>2, ChangedTypes
  <2> QED
    BY <1>1, <2>1, <2>2, <2>3 DEF OwnTypes, HasWindow
<1>9. ASSUME NEW n \in NickPool, UserRenames(n)
      PROVE  OwnTypes'
  <2>1. asked_nicks' \in Seq(NickPool)
    BY <1>9, AppendProperties DEF UserRenames, OwnTypes
  <2>2. astray' \in BOOLEAN /\ UNCHANGED <<nick_link, ownServer, from_server, ownClient, last_shown>>
    BY <1>9 DEF UserRenames, OwnTypes
  <2> QED
    BY <2>1, <2>2 DEF OwnTypes, HasWindow, Held, Known
<1>10. ASSUME NEW n \in NickPool, NEW from \in Held, UserOpensPrivate(n, from)
       PROVE  OwnTypes'
  <2> DEFINE k == PrivateKey(n)
             w == [session |-> TRUE, nick |-> own_windows[from].nick]
  <2>1. /\ nick_link /\ Acquires(k) /\ own_windows' = With(own_windows, k, w)
        /\ UNCHANGED <<nick_link, ownServer, asked_nicks, from_server, session_nick, next_fallback,
                       last_shown, astray, own_events>>
    BY <1>10 DEF UserOpensPrivate
  <2>2. w \in Window /\ k \in WindowKeys
    BY <1>1 DEF Window
  <2> HIDE DEF w, k
  <2>3. /\ WindowTypes(own_windows') /\ Held' = Held \cup {k} /\ own_windows'[k] = w
        /\ \A j \in Held \ {k} : own_windows'[j] = own_windows[j]
    BY <2>1, <2>2, WithTypes
  <2>4. HasWindow(ServerKey)'
    <3>1. own_windows[ServerKey].session
      BY <2>1 DEF OwnTypes, HasWindow
    <3>2. own_windows'[ServerKey].session
      BY <1>1, <2>3, <3>1 DEF w
    <3> QED
      BY <1>1, <2>3, <3>2 DEF HasWindow
  <2> QED
    BY <2>1, <2>3, <2>4 DEF OwnTypes
<1>11. ASSUME NEW k \in Held, CloseChat(k)
       PROVE  OwnTypes'
  <2>1. /\ k # ServerKey /\ own_windows' = [j \in Held \ {k} |-> own_windows[j]]
        /\ in_channels' \subseteq in_channels
        /\ UNCHANGED <<nick_link, own_nick, others, asked_nicks, from_server, session_nick,
                       next_fallback, last_shown, astray, own_events>>
    BY <1>11 DEF CloseChat
  <2>2. Held' = Held \ {k}
    BY <2>1 DEF Held
  <2>3. /\ IsFiniteSet(Held) /\ IsFiniteSet(Held') /\ Cardinality(Held') <= Cardinality(Held)
        /\ Cardinality(Held) \in Nat /\ Cardinality(Held') \in Nat /\ Cardinality(Held) <= MaxOwnWindows + 1
        /\ MaxOwnWindows \in Nat
    <3>1. IsFiniteSet(Held) /\ Held' \in SUBSET Held /\ Cardinality(Held) <= MaxOwnWindows + 1
      BY <1>1, <2>2 DEF WindowTypes, Held
    <3> HIDE DEF Held
    <3> QED
      BY <3>1, FS_Subset, FS_CardinalityType, OwnNickAssumption
  <2>4. Cardinality(Held') <= MaxOwnWindows + 1
    BY <2>3
  <2>5. own_windows' \in [Held' -> Window] /\ ServerKey \in Held' /\ Held' \subseteq WindowKeys
    BY <1>1, <2>1, <2>2
  <2>6. WindowTypes(own_windows')
    BY <2>3, <2>4, <2>5 DEF WindowTypes, Held
  <2>7. nick_link => HasWindow(ServerKey)'
    BY <1>1, <2>1, <2>5 DEF HasWindow, OwnTypes
  <2> QED
    BY <2>1, <2>6, <2>7 DEF OwnTypes, Known
<1>12. CASE HandleNext
  BY <1>12, HandlerTypes
<1>13. CASE UNCHANGED ownVars
  BY <1>13 DEF ownVars, OwnTypes, HasWindow, Held, Known
<1> QED
  BY <1>3, <1>4, <1>5, <1>6, <1>7, <1>8, <1>9, <1>10, <1>11, <1>12, <1>13 DEF OwnNickNext

\* So they keep them always.
LEMMA OwnTypesHold == OwnNickSpec => []OwnTypes
BY TypesInit, TypesStep, PTL DEF OwnNickSpec

\* The session and the windows have nicks, also after any messages and requests, and
\* there are never more windows than places.
THEOREM OwnNickTypes == OwnNickSpec => []OwnNickTypeOK
<1>1. OwnTypes => OwnNickTypeOK
  <2> SUFFICES ASSUME OwnTypes PROVE OwnNickTypeOK
    OBVIOUS
  <2>1. own_windows \in [Held -> Window] /\ ServerKey \in Held /\ Cardinality(Held) <= MaxOwnWindows + 1
    BY DEF OwnTypes, WindowTypes, Held
  <2>2. \A k \in Held : own_windows[k].session \in BOOLEAN /\ own_windows[k].nick \in NickPool
    BY <2>1 DEF Window
  <2>3. last_shown.in \subseteq Held \cup {PrivateKey(n) : n \in NickPool} \cup {ChannelKey(c) : c \in OwnChannels}
    BY <2>1 DEF OwnTypes, WindowKeys
  <2> QED
    BY <2>1, <2>2, <2>3 DEF OwnTypes, OwnNickTypeOK
<1> QED
  BY <1>1, OwnTypesHold, PTL

-----------------------------------------------------------------------------
\* A message to the user opens, or finds, the window of its sender, and one to a channel
\* is shown in the channel's, whatever the nicks are that the session and the windows
\* have: where event_channel and event_privmsg show it depends on the target alone.
THEOREM MessagesShown == OwnNickSpec => MessagesFindWindow
<1>1. ASSUME OwnTypes, [OwnNickNext]_ownVars, HandleNext, Head(from_server).type \in {"text", "action"}
      PROVE  LET m == Head(from_server) IN
             IF m.to \in OwnChannels
             THEN last_shown'.in = {ChannelKey(m.to)} \/ ~HasWindow(ChannelKey(m.to))
             ELSE \/ last_shown'.in = {PrivateKey(m.from)}
                  \/ last_shown'.in = {} /\ Cardinality(Held) > MaxOwnWindows
  <2> DEFINE m == Head(from_server)
  <2>1. ByTarget(m)
    BY <1>1 DEF HandleNext, HandleMessage, HandleNotice, HandleOwnNick, HandleInUse, HandleGreeting, HandleLetIn
  <2> QED
    <3>1. CASE m.to \in OwnChannels
      BY <2>1, <3>1 DEF ByTarget, ShowInChannel, Shows, HasWindow
    <3>2. CASE m.to \notin OwnChannels
      <4>1. Cardinality(Held) \in Nat /\ MaxOwnWindows \in Nat
        BY <1>1, FS_CardinalityType, OwnNickAssumption DEF OwnTypes, WindowTypes, Held
      <4>2. \/ last_shown'.in = {PrivateKey(m.from)}
            \/ last_shown'.in = {} /\ ~Acquires(PrivateKey(m.from))
        BY <2>1, <3>2 DEF ByTarget, ShowInPrivate, Shows
      <4>3. ~Acquires(PrivateKey(m.from)) => Cardinality(Held) > MaxOwnWindows
        BY <4>1 DEF Acquires
      <4> QED
        BY <3>2, <4>2, <4>3
    <3> QED
      BY <3>1, <3>2
<1> QED
  BY <1>1, OwnTypesHold, PTL DEF OwnNickSpec, MessagesFindWindow

-----------------------------------------------------------------------------
\* The server sends a message, by which the user's nick may become another.
LEMMA Sends ==
  ASSUME OwnTypes, Following, NEW m \in SentMessages, from_server' = Append(from_server, m), m.type # "376",
         TellsOwn(m, own_nick, own_nick'), own_nick' \in NickPool, own_windows' = own_windows
  PROVE  Following'
<1> DEFINE l == Len(from_server)
<1>1. PICK nicks \in [1 .. l + 1 -> NickPool] :
        /\ Had(nicks)
        /\ \A k \in Held : HasWindow(k) => own_windows[k].nick = nicks[1]
        /\ \A i \in 1 .. l : from_server[i].type = "376" => i = 1 /\ AllHave(nicks[1])
  BY DEF Following
<1>2. /\ l \in Nat /\ Len(from_server') = l + 1
      /\ \A i \in 1 .. l : from_server'[i] = from_server[i]
      /\ from_server'[l + 1] = m
  BY AppendProperties, LenProperties DEF OwnTypes
<1> HIDE DEF l
<1>3. PICK new \in [1 .. Len(from_server') + 1 -> NickPool] :
        new[l + 2] = own_nick' /\ \A i \in 1 .. l + 1 : new[i] = nicks[i]
  <2> DEFINE longer == [i \in 1 .. l + 2 |-> IF i = l + 2 THEN own_nick' ELSE nicks[i]]
  <2>1. \A i \in 1 .. l + 2 : i = l + 2 \/ i \in 1 .. l + 1
    BY <1>2
  <2>2. \A i \in 1 .. l + 1 : i \in 1 .. l + 2 /\ i # l + 2
    BY <1>2
  <2>3. l + 2 \in 1 .. l + 2 /\ Len(from_server') + 1 = l + 2
    BY <1>2
  <2>4. longer \in [1 .. l + 2 -> NickPool]
    BY <2>1
  <2>5. longer[l + 2] = own_nick' /\ \A i \in 1 .. l + 1 : longer[i] = nicks[i]
    BY <2>2, <2>3
  <2> HIDE DEF longer
  <2> QED
    BY <2>3, <2>4, <2>5
<1>4. \A i \in 1 .. l + 1 : i = l + 1 \/ i \in 1 .. l
  BY <1>2
<1>5. \A i \in 1 .. l : i \in 1 .. l + 1 /\ i + 1 \in 1 .. l + 1
  BY <1>2
<1>6. 1 \in 1 .. l + 1 /\ l + 1 \in 1 .. l + 1 /\ (l + 1) + 1 = l + 2
  BY <1>2
<1>7. nicks[l + 1] = own_nick /\ \A i \in 1 .. l : TellsOwn(from_server[i], nicks[i], nicks[i + 1])
  BY <1>1 DEF Had, l
<1>8. Had(new)'
  <2>1. \A i \in 1 .. l + 1 : TellsOwn(from_server'[i], new[i], new[i + 1])
    BY <1>2, <1>3, <1>4, <1>5, <1>6, <1>7
  <2>2. new[(l + 1) + 1] = own_nick'
    BY <1>3, <1>6
  <2> QED
    BY <1>2, <2>1, <2>2 DEF Had
<1>9. \A k \in Held' : HasWindow(k)' => own_windows'[k].nick = new[1]
  BY <1>1, <1>3, <1>6 DEF Held, HasWindow
<1>10. \A i \in 1 .. Len(from_server') : from_server'[i].type = "376" => i = 1 /\ AllHave(new[1])'
  BY <1>1, <1>2, <1>3, <1>4, <1>6 DEF AllHave, Held
<1> QED
  BY <1>3, <1>8, <1>9, <1>10 DEF Following

\* The client handles a message, and its windows have the next nick.
LEMMA Handles ==
  ASSUME OwnTypes, from_server # <<>>, from_server' = Tail(from_server), own_nick' = own_nick,
         NEW nicks \in [1 .. Len(from_server) + 1 -> NickPool], Had(nicks),
         \A i \in 1 .. Len(from_server) : from_server[i].type = "376" => i = 1,
         \A k \in Held' : HasWindow(k)' => own_windows'[k].nick = nicks[2]
  PROVE  Following'
<1> DEFINE l == Len(from_server)
<1>1. /\ l \in Nat \ {0} /\ Len(from_server') = l - 1
      /\ \A i \in 1 .. Len(from_server') : from_server'[i] = from_server[i + 1]
  BY HeadTailProperties, EmptySeq DEF OwnTypes
<1>2. nicks[l + 1] = own_nick /\ \A i \in 1 .. l : TellsOwn(from_server[i], nicks[i], nicks[i + 1])
  BY DEF Had
<1>3. nicks \in [1 .. l + 1 -> NickPool] /\ \A i \in 1 .. l : from_server[i].type = "376" => i = 1
  OBVIOUS
<1> HIDE DEF l
<1>4. /\ \A i \in 1 .. l : i + 1 \in 1 .. l + 1
      /\ \A i \in 1 .. l - 1 : i \in 1 .. l /\ i + 1 \in 1 .. l /\ i + 1 # 1
      /\ 1 \in 1 .. l /\ l \in 1 .. l /\ (l - 1) + 1 = l /\ 1 + 1 = 2
  BY <1>1
<1>5. PICK new \in [1 .. Len(from_server') + 1 -> NickPool] : \A i \in 1 .. l : new[i] = nicks[i + 1]
  <2> DEFINE shorter == [i \in 1 .. l |-> nicks[i + 1]]
  <2>1. shorter \in [1 .. l -> NickPool] /\ \A i \in 1 .. l : shorter[i] = nicks[i + 1]
    BY <1>3, <1>4
  <2> HIDE DEF shorter
  <2> QED
    BY <1>1, <1>4, <2>1
<1>6. Had(new)'
  <2>1. new[Len(from_server') + 1] = own_nick'
    BY <1>1, <1>2, <1>4, <1>5
  <2>2. \A i \in 1 .. Len(from_server') : TellsOwn(from_server'[i], new[i], new[i + 1])
    BY <1>1, <1>2, <1>4, <1>5
  <2> QED
    BY <2>1, <2>2 DEF Had
<1>7. \A k \in Held' : HasWindow(k)' => own_windows'[k].nick = new[1]
  BY <1>4, <1>5
<1>8. \A i \in 1 .. Len(from_server') : from_server'[i].type # "376"
  BY <1>1, <1>3, <1>4
<1> QED
  BY <1>5, <1>6, <1>7, <1>8 DEF Following

\* Windows change while no message does: each has the nick of one that was there.
LEMMA Shuffles ==
  ASSUME Following, UNCHANGED <<from_server, own_nick>>,
         \A k \in Held' : HasWindow(k)' => \E j \in Held : HasWindow(j) /\ own_windows[j].nick = own_windows'[k].nick,
         \A k \in Held' : \E j \in Held : own_windows[j].nick = own_windows'[k].nick
  PROVE  Following'
<1>1. PICK nicks \in [1 .. Len(from_server) + 1 -> NickPool] :
        /\ Had(nicks)
        /\ \A k \in Held : HasWindow(k) => own_windows[k].nick = nicks[1]
        /\ \A i \in 1 .. Len(from_server) : from_server[i].type = "376" => i = 1 /\ AllHave(nicks[1])
  BY DEF Following
<1>2. Had(nicks)'
  BY <1>1 DEF Had
<1>3. \A k \in Held' : HasWindow(k)' => own_windows'[k].nick = nicks[1]
  BY <1>1
<1>4. AllHave(nicks[1]) => AllHave(nicks[1])'
  BY DEF AllHave
<1> QED
  BY <1>1, <1>2, <1>3, <1>4 DEF Following

\* The end of the greeting, or a question refused before it.
LEMMA TakesNickStep ==
  ASSUME NickInv, TakesNick, ~astray
  PROVE  IF Known' THEN Following' ELSE Asking'
<1> DEFINE n == Head(asked_nicks)
<1>1. /\ OwnTypes /\ own_windows' = own_windows /\ n \in NickPool /\ asked_nicks # <<>>
      /\ asked_nicks' = Tail(asked_nicks) /\ IF Known THEN Following ELSE Asking
      /\ NoNick \notin NickPool /\ own_nick \in NickPool \cup {NoNick}
  BY HeadTailProperties, OwnNickAssumption DEF NickInv, TakesNick, ownClient, OwnTypes
<1>2. CASE Known
  <2>1. own_nick \in NickPool
    BY <1>1, <1>2 DEF Known
  <2>2. CASE n \in others \cup {own_nick}
    <3> DEFINE m == [type |-> "433", to |-> own_nick]
    <3>1. own_nick' = own_nick /\ from_server' = Append(from_server, m)
      BY <2>2 DEF TakesNick, Arrives
    <3>2. m \in SentMessages /\ m.type # "376" /\ TellsOwn(m, own_nick, own_nick')
      BY <1>2, <2>1, <3>1, SentFacts DEF TellsOwn, Known
    <3> QED
      BY <1>1, <1>2, <2>1, <3>1, <3>2, Sends DEF Known
  <2>3. CASE n \notin others \cup {own_nick}
    <3> DEFINE m == [type |-> "NICK", from |-> own_nick, new |-> n]
    <3>1. own_nick' = n /\ from_server' = Append(from_server, m)
      BY <1>2, <2>3 DEF TakesNick, Arrives
    <3>2. m \in SentMessages /\ m.type # "376" /\ TellsOwn(m, own_nick, own_nick')
      BY <1>1, <2>1, <3>1, SentFacts DEF TellsOwn
    <3> QED
      BY <1>1, <1>2, <3>1, <3>2, Sends DEF Known
  <2> QED
    BY <2>2, <2>3
<1>3. CASE ~Known
  <2>1. PICK a \in NickPool : from_server = <<>> /\ asked_nicks = <<a>> /\ AllHave(a)
    BY <1>1, <1>3 DEF Asking
  <2>2. n = a /\ asked_nicks' = <<>>
    BY <1>1, <2>1
  <2>3. own_nick = NoNick
    BY <1>3 DEF Known
  <2>4. CASE n \in others \cup {own_nick}
    <3>1. own_nick' = own_nick /\ from_server' = Append(from_server, [type |-> "433", to |-> own_nick])
      BY <2>4 DEF TakesNick, Arrives
    <3> QED
      BY <1>3, <2>1, <2>2, <2>3, <3>1 DEF Known, Asking
  <2>5. CASE n \notin others \cup {own_nick}
    <3>1. own_nick' = n /\ from_server' = Append(from_server, [type |-> "376"])
      BY <1>3, <2>5 DEF TakesNick, Arrives
    <3>2. from_server' = <<[type |-> "376"]>>
      BY <2>1, <3>1
    <3>3. AllHave(a)'
      BY <1>1, <2>1, <2>2 DEF AllHave, Held
    <3>4. Len(from_server') = 1 /\ from_server'[1] = [type |-> "376"] /\ 1 + 1 = 2
      BY <3>2
    <3>5. PICK nicks \in [1 .. 2 -> NickPool] : nicks[1] = a /\ nicks[2] = a
      <4>1. [i \in 1 .. 2 |-> a] \in [1 .. 2 -> NickPool] /\ 1 \in 1 .. 2 /\ 2 \in 1 .. 2
        OBVIOUS
      <4> QED
        BY <4>1
    <3>6. Had(nicks)'
      <4>1. \A i \in 1 .. 1 : i = 1
        OBVIOUS
      <4>2. own_nick' = a /\ TellsOwn([type |-> "376"], a, a)
        BY <2>2, <3>1 DEF TellsOwn
      <4> QED
        BY <3>4, <3>5, <4>1, <4>2 DEF Had
    <3>7. Following'
      <4>1. \A i \in 1 .. 1 : i = 1
        OBVIOUS
      <4>2. \A k \in Held' : own_windows'[k].nick = nicks[1]
        BY <3>3, <3>5 DEF AllHave
      <4>3. Len(from_server') + 1 = 2 /\ AllHave(nicks[1])'
        BY <3>3, <3>4, <3>5
      <4> QED
        BY <3>4, <3>5, <3>6, <4>1, <4>2, <4>3 DEF Following
    <3> QED
      BY <1>1, <3>1, <3>7 DEF Known
  <2> QED
    BY <2>4, <2>5
<1> QED
  BY <1>2, <1>3

\* What a handler does to the windows follows the message.
LEMMA WindowsFollow ==
  ASSUME OwnTypes, HandleNext, Known, NEW before \in NickPool, NEW after \in NickPool,
         TellsOwn(Head(from_server), before, after),
         \A k \in Held : HasWindow(k) => own_windows[k].nick = before,
         Head(from_server).type = "376" => AllHave(before)
  PROVE  /\ \A k \in Held' : HasWindow(k)' => own_windows'[k].nick = after
         /\ astray' = astray /\ UNCHANGED asked_nicks
<1> DEFINE m == Head(from_server)
<1>1. /\ m \in SentMessages /\ HasWindow(ServerKey) /\ own_windows \in [Held -> Window]
  BY HeadTailProperties DEF OwnTypes, HandleNext, WindowTypes, Held
<1>2. HandleMessage(m) \/ HandleNotice(m) \/ HandleOwnNick(m) \/ HandleInUse(m) \/ HandleGreeting(m) \/ HandleLetIn(m)
  BY DEF HandleNext
<1>3. /\ m.type # "NICK" => after = before
      /\ m.type = "NICK" => after = IF m.from = before THEN m.new ELSE before
      /\ m.type = "433" => m.to # NoNick
      /\ m.type \in {"text", "action", "notice"} => m.to \in {before} \cup OwnChannels
      /\ m.type = "376" => AllHave(before)
  BY DEF TellsOwn
<1> HIDE DEF m
<1>4. ASSUME after = before, NEW j \in WindowKeys, own_windows' = With(own_windows, j, [session |-> TRUE, nick |-> before])
      PROVE  \A k \in Held' : HasWindow(k)' => own_windows'[k].nick = after
  <2>1. Held' = Held \cup {j} /\ own_windows'[j] = [session |-> TRUE, nick |-> before]
        /\ \A k \in Held \ {j} : own_windows'[k] = own_windows[k]
    BY <1>4 DEF With, Held
  <2>2. ASSUME NEW k \in Held \ {j}, own_windows'[k].session
        PROVE  own_windows'[k].nick = after
    BY <1>4, <2>1, <2>2 DEF HasWindow
  <2>3. ASSUME NEW k \in Held', own_windows'[k].session
        PROVE  own_windows'[k].nick = after
    <3>1. CASE k = j
      BY <1>4, <2>1, <3>1
    <3>2. CASE k # j
      BY <2>1, <2>2, <2>3, <3>2
    <3> QED
      BY <3>1, <3>2
  <2> QED
    BY <2>3 DEF HasWindow
<1>5. CASE HandleMessage(m)
  <2>1. m.from \in NickPool /\ after = before /\ m.to \in {before} \cup OwnChannels
    BY <1>1, <1>3, <1>5, SentFacts DEF HandleMessage
  <2>2. \/ own_windows' = own_windows
        \/ /\ m.to = before
           /\ own_windows' = With(own_windows, PrivateKey(m.from), [session |-> TRUE, nick |-> m.to])
    BY <1>5, <2>1 DEF HandleMessage, ByTarget, ShowInChannel, ShowInPrivate
  <2>3. UNCHANGED asked_nicks /\ astray' = astray
    BY <1>5 DEF HandleMessage
  <2>4. PrivateKey(m.from) \in WindowKeys
    BY <2>1 DEF WindowKeys
  <2>5. CASE own_windows' = own_windows
    BY <2>1, <2>3, <2>5 DEF Held, HasWindow
  <2>6. CASE own_windows' # own_windows
    BY <1>4, <2>1, <2>2, <2>3, <2>4, <2>6
  <2> QED
    BY <2>5, <2>6
<1>6. CASE HandleNotice(m)
  BY <1>3, <1>6 DEF HandleNotice, ownClient, Held, HasWindow
<1>7. CASE HandleOwnNick(m)
  <2>1. after = (IF m.from = before THEN m.new ELSE before) /\ own_windows' = Renamed(m.from, m.new)
        /\ UNCHANGED asked_nicks /\ astray' = astray
    BY <1>3, <1>7 DEF HandleOwnNick
  <2>2. Held' = Held
    BY <2>1 DEF Renamed, Held
  <2>3. ASSUME NEW k \in Held, HasWindow(k)'
        PROVE  own_windows'[k].nick = after
    BY <1>1, <2>1, <2>2, <2>3 DEF Renamed, HasWindow, Window
  <2> QED
    BY <2>1, <2>2, <2>3
<1>8. CASE HandleInUse(m)
  <2>1. UNCHANGED <<own_windows, asked_nicks, astray>> /\ after = before
    BY <1>3, <1>8 DEF HandleInUse
  <2> QED
    BY <2>1 DEF Held, HasWindow
<1>9. CASE HandleGreeting(m)
  <2>1. after = before /\ AllHave(before) /\ UNCHANGED <<asked_nicks, astray>>
    BY <1>3, <1>9 DEF HandleGreeting
  <2>2. Held' = Held /\ \A k \in Held : own_windows'[k].nick = own_windows[k].nick
    BY <1>1, <1>9 DEF HandleGreeting, Held, Window
  <2> QED
    BY <2>1, <2>2 DEF AllHave
<1>10. CASE HandleLetIn(m)
  <2>1. after = before /\ UNCHANGED <<asked_nicks, astray>> /\ ChannelKey(m.to) \in WindowKeys
    BY <1>1, <1>3, <1>10, SentFacts DEF HandleLetIn, WindowKeys
  <2>2. own_windows[ServerKey].nick = before
    BY <1>1 DEF HasWindow
  <2>3. \/ own_windows' = own_windows
        \/ own_windows' = With(own_windows, ChannelKey(m.to), [session |-> TRUE, nick |-> before])
    BY <1>10, <2>2 DEF HandleLetIn
  <2>4. CASE own_windows' = own_windows
    BY <2>1, <2>4 DEF Held, HasWindow
  <2>5. CASE own_windows' # own_windows
    BY <1>4, <2>1, <2>3, <2>5
  <2> QED
    BY <2>4, <2>5
<1> QED
  BY <1>2, <1>5, <1>6, <1>7, <1>8, <1>9, <1>10

\* The client handles a message.
LEMMA OwnHandleStep ==
  ASSUME NickInv, HandleNext, ~astray'
  PROVE  IF Known' THEN Following' ELSE Asking'
<1>1. /\ OwnTypes /\ nick_link /\ from_server # <<>> /\ from_server' = Tail(from_server)
      /\ own_nick' = own_nick /\ Known' = Known
  BY DEF HandleNext, ownServer, NickInv, Known
<1>2. ~astray
  BY DEF HandleNext, HandleMessage, HandleNotice, HandleOwnNick, HandleInUse, HandleGreeting, HandleLetIn
<1>3. IF Known THEN Following ELSE Asking
  BY <1>1, <1>2 DEF NickInv
<1>4. Len(from_server) \in Nat /\ Len(from_server) >= 1 /\ Head(from_server) = from_server[1]
  BY <1>1, EmptySeq DEF OwnTypes
<1>5. CASE Known
  <2>1. PICK nicks \in [1 .. Len(from_server) + 1 -> NickPool] :
          /\ Had(nicks)
          /\ \A k \in Held : HasWindow(k) => own_windows[k].nick = nicks[1]
          /\ \A i \in 1 .. Len(from_server) : from_server[i].type = "376" => i = 1 /\ AllHave(nicks[1])
    BY <1>3, <1>5 DEF Following
  <2>2. 1 \in 1 .. Len(from_server) /\ 1 \in 1 .. Len(from_server) + 1 /\ 2 \in 1 .. Len(from_server) + 1
        /\ 1 + 1 = 2
    BY <1>4
  <2>3. nicks[1] \in NickPool /\ nicks[2] \in NickPool
    BY <2>2
  <2>4. TellsOwn(Head(from_server), nicks[1], nicks[2]) /\ (Head(from_server).type = "376" => AllHave(nicks[1]))
    BY <1>4, <2>1, <2>2 DEF Had
  <2>5. \A k \in Held' : HasWindow(k)' => own_windows'[k].nick = nicks[2]
    BY <1>1, <1>5, <2>1, <2>3, <2>4, WindowsFollow
  <2>6. Following'
    BY <1>1, <2>1, <2>5, Handles
  <2> QED
    BY <1>1, <1>5, <2>6
<1>6. CASE ~Known
  <2> DEFINE m == [type |-> "433", to |-> NoNick]
             n == Fallbacks[next_fallback]
  <2>1. asked_nicks = <<>> /\ from_server = <<m>>
    BY <1>1, <1>3, <1>6 DEF Asking
  <2>2. HandleInUse(m)
    BY <2>1 DEF HandleNext, HandleMessage, HandleNotice, HandleOwnNick, HandleInUse, HandleGreeting, HandleLetIn
  <2>3. /\ next_fallback <= Len(Fallbacks) /\ asked_nicks' = Append(asked_nicks, n)
        /\ own_windows' = AllRenamed(n)
        /\ \A k \in Held : HasWindow(k)
    BY <2>2 DEF HandleInUse
  <2>4. n \in NickPool
    <3>1. Len(Fallbacks) \in Nat /\ Fallbacks \in Seq(NickPool) /\ next_fallback \in Nat \ {0}
      BY <1>1, OwnNickAssumption, LenProperties DEF OwnTypes
    <3>2. next_fallback \in 1 .. Len(Fallbacks)
      BY <2>3, <3>1
    <3> QED
      BY <3>1, <3>2, ElementOfSeq
  <2>5. PICK a \in NickPool : a = n
    BY <2>4
  <2>6. asked_nicks' = <<a>> /\ from_server' = <<>>
    BY <1>1, <2>1, <2>3, <2>5
  <2>7. AllHave(a)'
    <3>1. own_windows \in [Held -> Window]
      BY <1>1 DEF OwnTypes, WindowTypes, Held
    <3>2. Held' = Held /\ \A k \in Held : own_windows'[k].nick = a
      BY <2>3, <2>5, <3>1 DEF AllRenamed, Held, Window
    <3> QED
      BY <3>2 DEF AllHave
  <2> QED
    BY <1>1, <1>6, <2>6, <2>7 DEF Asking
<1> QED
  BY <1>5, <1>6

\* At first the question about the first nick is on its way.
LEMMA NickInvInit == OwnNickInit => NickInv
<1> SUFFICES ASSUME OwnNickInit PROVE NickInv
  OBVIOUS
<1>1. OwnTypes
  BY TypesInit
<1>2. ~Known /\ from_server = <<>> /\ asked_nicks = <<FirstNick>> /\ FirstNick \in NickPool
  BY OwnNickAssumption DEF OwnNickInit, Known
<1>3. AllHave(FirstNick)
  BY DEF OwnNickInit, AllHave, Held
<1> QED
  BY <1>1, <1>2, <1>3 DEF NickInv, Asking

\* What others say and do that the server tells the client of.
LEMMA OthersFollow ==
  ASSUME NickInv, ~astray, Known, nick_link, NEW m \in SentMessages, Arrives(m), UNCHANGED <<own_nick, own_windows>>,
         m.type # "376", TellsOwn(m, own_nick, own_nick)
  PROVE  Following'
<1>1. OwnTypes /\ Following /\ own_nick \in NickPool
  BY DEF NickInv, OwnTypes, Known
<1> QED
  BY <1>1, Sends DEF Arrives

\* Every step keeps the windows in pace with the messages they have handled.
LEMMA NickStep == NickInv /\ [OwnNickNext]_ownVars => NickInv'
<1> SUFFICES ASSUME NickInv, [OwnNickNext]_ownVars PROVE NickInv'
  OBVIOUS
<1>1. OwnTypes /\ OwnTypes'
  BY TypesStep DEF NickInv
<1>2. SUFFICES ASSUME nick_link', ~astray'
               PROVE  IF Known' THEN Following' ELSE Asking'
  BY <1>1 DEF NickInv
<1>3. nick_link /\ ~astray => IF Known THEN Following ELSE Asking
  BY DEF NickInv
<1> USE DEF ownServer, ownClient
<1>4. CASE TakesNick
  BY <1>2, <1>4, TakesNickStep DEF TakesNick
<1>5. ASSUME NEW n \in NickPool, NEW new \in NickPool, OtherRenames(n, new)
      PROVE  Known' /\ Following'
  <2> DEFINE m == [type |-> "NICK", from |-> n, new |-> new]
  <2>1. m \in SentMessages /\ m.type # "376" /\ TellsOwn(m, own_nick, own_nick)
    BY <1>1, <1>5, SentFacts DEF TellsOwn, OtherRenames, OwnTypes
  <2>2. ~astray /\ Known /\ nick_link /\ Arrives(m) /\ UNCHANGED <<own_nick, own_windows>>
    BY <1>2, <1>5 DEF OtherRenames, Occurs
  <2> QED
    BY <2>1, <2>2, OthersFollow DEF Known
<1>6. ASSUME NEW n \in NickPool, NEW to \in NickPool \cup OwnChannels, NEW kind \in {"text", "action", "notice"},
             OtherSays(n, to, kind)
      PROVE  Known' /\ Following'
  <2> DEFINE m == [type |-> kind, from |-> n, to |-> to]
  <2>1. m \in SentMessages /\ m.type # "376" /\ TellsOwn(m, own_nick, own_nick)
    BY <1>1, <1>6, SentFacts DEF TellsOwn, OtherSays, OwnTypes
  <2>2. ~astray /\ Known /\ nick_link /\ Arrives(m) /\ UNCHANGED <<own_nick, own_windows>>
    BY <1>2, <1>6 DEF OtherSays, Occurs
  <2> QED
    BY <2>1, <2>2, OthersFollow DEF Known
<1>7. ASSUME NEW c \in OwnChannels, IsLetIn(c)
      PROVE  Known' /\ Following'
  <2> DEFINE m == [type |-> "JOIN", from |-> own_nick, to |-> c]
  <2>1. m \in SentMessages /\ m.type # "376" /\ TellsOwn(m, own_nick, own_nick)
    BY <1>1, <1>7, SentFacts DEF TellsOwn, IsLetIn, OwnTypes, Known
  <2>2. ~astray /\ Known /\ nick_link /\ Arrives(m) /\ UNCHANGED <<own_nick, own_windows>>
    BY <1>2, <1>7 DEF IsLetIn, Occurs
  <2> QED
    BY <2>1, <2>2, OthersFollow DEF Known
<1>8. CASE IsLost
  BY <1>2, <1>8 DEF IsLost
<1>9. CASE ConnectsAgain
  <2>1. from_server' = <<>> /\ ~Known' /\ asked_nicks' = <<FirstNick>> /\ FirstNick \in NickPool
    BY <1>1, <1>9, OwnNickAssumption DEF ConnectsAgain, OwnTypes, Known
  <2>2. \A k \in Held : own_windows[k].nick = FirstNick
    BY <1>2, <1>9 DEF ConnectsAgain
  <2>3. own_windows' = [own_windows EXCEPT ![ServerKey].session = TRUE] /\ own_windows \in [Held -> Window]
    BY <1>1, <1>9 DEF ConnectsAgain, OwnTypes, WindowTypes, Held
  <2>4. AllHave(FirstNick)'
    BY <2>2, <2>3 DEF AllHave, Held, Window
  <2> QED
    BY <2>1, <2>4 DEF Asking
<1>10. ASSUME NEW n \in NickPool, UserRenames(n)
       PROVE  Known' /\ Following'
  <2>1. nick_link /\ Known /\ ~astray /\ UNCHANGED <<own_nick, from_server, own_windows>>
    BY <1>1, <1>2, <1>10 DEF UserRenames, Occurs, OwnTypes
  <2>2. Following
    BY <1>3, <2>1
  <2>3. Following'
    BY <2>1, <2>2, Shuffles DEF Held, HasWindow
  <2> QED
    BY <2>1, <2>3 DEF Known
<1>11. ASSUME NEW n \in NickPool, NEW from \in Held, UserOpensPrivate(n, from)
       PROVE  IF Known' THEN Following' ELSE Asking'
  <2> DEFINE w == [session |-> TRUE, nick |-> own_windows[from].nick]
             key == PrivateKey(n)
  <2>1. /\ nick_link /\ ~astray /\ UNCHANGED <<own_nick, from_server, asked_nicks>> /\ HasWindow(from)
        /\ own_windows' = With(own_windows, key, w) /\ Known' = Known
    BY <1>2, <1>11 DEF UserOpensPrivate, Known
  <2>2. /\ Held' = Held \cup {key} /\ own_windows'[key].nick = own_windows[from].nick
        /\ \A k \in Held \ {key} : own_windows'[k] = own_windows[k]
    BY <2>1 DEF With, Held
  <2> HIDE DEF w, key
  <2>3. /\ \A k \in Held' : HasWindow(k)' => \E j \in Held : HasWindow(j) /\ own_windows[j].nick = own_windows'[k].nick
        /\ \A k \in Held' : \E j \in Held : own_windows[j].nick = own_windows'[k].nick
    BY <2>1, <2>2 DEF HasWindow
  <2>4. CASE Known
    BY <1>3, <2>1, <2>3, <2>4, Shuffles
  <2>5. CASE ~Known
    BY <1>3, <2>1, <2>3, <2>5 DEF Asking, AllHave
  <2> QED
    BY <2>1, <2>4, <2>5
<1>12. ASSUME NEW key \in Held, CloseChat(key)
       PROVE  IF Known' THEN Following' ELSE Asking'
  <2>1. /\ nick_link /\ ~astray /\ UNCHANGED <<own_nick, from_server, asked_nicks>>
        /\ own_windows' = [j \in Held \ {key} |-> own_windows[j]] /\ Known' = Known
    BY <1>2, <1>12 DEF CloseChat, Known
  <2>2. Held' = Held \ {key} /\ \A k \in Held' : own_windows'[k] = own_windows[k]
    BY <2>1 DEF Held
  <2>3. /\ \A k \in Held' : HasWindow(k)' => \E j \in Held : HasWindow(j) /\ own_windows[j].nick = own_windows'[k].nick
        /\ \A k \in Held' : \E j \in Held : own_windows[j].nick = own_windows'[k].nick
    BY <2>2 DEF HasWindow
  <2>4. CASE Known
    BY <1>3, <2>1, <2>3, <2>4, Shuffles
  <2>5. CASE ~Known
    <3>1. \A n : AllHave(n) => AllHave(n)'
      BY <2>3 DEF AllHave
    <3> QED
      BY <1>3, <2>1, <2>5, <3>1 DEF Asking
  <2> QED
    BY <2>1, <2>4, <2>5
<1>13. CASE HandleNext
  BY <1>2, <1>13, OwnHandleStep
<1>14. CASE UNCHANGED ownVars
  <2>1. /\ nick_link /\ ~astray /\ UNCHANGED <<own_nick, from_server, asked_nicks, own_windows>>
    BY <1>2, <1>14 DEF ownVars
  <2> QED
    <3>1. CASE Known
      BY <1>3, <2>1, <3>1, Shuffles DEF Held, HasWindow, Known
    <3>2. CASE ~Known
      BY <1>3, <2>1, <3>2 DEF Asking, AllHave, Held, Known
    <3> QED
      BY <3>1, <3>2
<1> QED
  BY <1>4, <1>5, <1>6, <1>7, <1>8, <1>9, <1>10, <1>11, <1>12, <1>13, <1>14 DEF OwnNickNext

\* When the client has handled what the server sent, its windows show the nick the server
\* knows the user by, unless the windows could not know it: a connection was made again
\* while chats kept another nick or waited for it, or a rename overtook the greeting.
THEOREM NickKnown == OwnNickSpec => []WindowsKnowNick
<1>1. NickInv => WindowsKnowNick
  <2> SUFFICES ASSUME NickInv, nick_link, Known, from_server = <<>>, ~astray
               PROVE  \A k \in Held : HasWindow(k) => own_windows[k].nick = own_nick
    BY DEF WindowsKnowNick
  <2>1. Following /\ Len(from_server) = 0
    BY EmptySeq DEF NickInv
  <2> QED
    BY <2>1 DEF Following, Had
<1> QED
  BY <1>1, NickInvInit, NickStep, PTL DEF OwnNickSpec
=============================================================================
