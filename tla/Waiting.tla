------------------------------ MODULE Waiting ------------------------------
(***************************************************************************)
(* Who waits for whom.  The threads of the client share critical sections  *)
(* - one for the message loop and the ends of connections, one for the     *)
(* logs, three per connection - and whatever a thread shows it shows by    *)
(* SendMessage, which returns when the UI thread gets to its message loop. *)
(* A thread is what it has yet to do up to the next point where it may go  *)
(* several ways; what it does between two waits is in the other modules.   *)
(***************************************************************************)
EXTENDS Sequences, Naturals

CONSTANTS Connections,  \* connection threads, with a chat on each session
          Ui,           \* the UI thread
          Helper,       \* a posting, or auto_connect
          Nobody

ASSUME WaitingAssumption ==
  Ui # Helper /\ Ui # Nobody /\ Helper # Nobody /\ {Ui, Helper, Nobody} \cap Connections = {}

Threads == Connections \cup {Ui, Helper}

Mutex == <<"mutex">>
LogMutex == <<"log_mutex">>
MutexSession(c) == <<"mutex_session", c>>
MutexDcc(c) == <<"mutex_dcc", c>>
MutexOutbuf(c) == <<"mutex_outbuf", c>>
Sections == {Mutex, LogMutex} \cup UNION {{MutexSession(c), MutexDcc(c), MutexOutbuf(c)} : c \in Connections}

VARIABLES todo,   \* per thread, what it does next
          owner,  \* per critical section, the thread inside
          depth   \* and how often it has entered

waitVars == <<todo, owner, depth>>

-----------------------------------------------------------------------------
Enter(s) == <<[does |-> "enter", section |-> s]>>
Leave(s) == <<[does |-> "leave", section |-> s]>>
Within(s, body) == Enter(s) \o body \o Leave(s)

\* What shows a line or makes a window: the UI thread handles it for the sender.
SendMessage == <<[does |-> "send"]>>

\* A message loop inside a handler: a dialog, a question.
NestedLoop == <<[does |-> "loop"]>>

\* log_str, for a line that was shown; with the setting turned off it calls close_all_logs.
LogStr == {Within(LogMutex, <<>>), Within(LogMutex, Within(LogMutex, <<>>))}

\* irc_send_raw. A select round enters the same section to look at the buffer, and
\* again to send what is in it.
SendRaw(c) == Within(MutexSession(c), <<>>)

\* irc_dcc_msg
DccMsg(c) == Within(MutexDcc(c), Within(MutexOutbuf(c), <<>>))

\* irc_dcc_destroy, irc_dcc_accept and irc_dcc_decline, and the new session of
\* irc_dcc_chat and of a request.
DccList(c) == Within(MutexDcc(c), <<>>)

\* Mutant: the windows that lose their session are told with SendMessage.
EndTelling(c) == Within(Mutex, SendMessage)

\* The end of a connection, in server_thread.
EndConnection(c) == Within(Mutex, <<>>)

\* A callback of a chat, for which the walk leaves the list: it shows a line.
DccCall(c) == Leave(MutexDcc(c)) \o SendMessage \o Enter(MutexDcc(c))

\* What a connection's thread does: events, rounds, the walks through the list of chats,
\* which add_descriptors and process_descriptors begin in the same way, the end.
ConnectionDoes(c) ==
  LogStr \cup {SendMessage, SendRaw(c), DccList(c), EndConnection(c), Enter(MutexDcc(c))}

\* On a walk: a callback, the buffer of a chat, or the end of the walk.
WalkDoes(c) == {DccCall(c), Within(MutexOutbuf(c), <<>>), Leave(MutexDcc(c))}

\* What a message handler does, until it is done.
HandlerDoes ==
  LogStr \cup {NestedLoop, Leave(Mutex)}
         \cup UNION {{SendRaw(c), DccMsg(c), DccList(c)} : c \in Connections}

\* A posting sends and shows its lines; auto_connect creates windows and joins channels.
HelperDoes == LogStr \cup {SendMessage} \cup {SendRaw(c) : c \in Connections}

Does(t) ==
  CASE t = Ui /\ owner[Mutex] = Ui -> HandlerDoes
    [] t = Ui /\ owner[Mutex] # Ui -> {Enter(Mutex)}
    [] t = Helper -> HelperDoes
    [] t \in Connections /\ owner[MutexDcc(t)] = t -> WalkDoes(t)
    [] t \in Connections /\ owner[MutexDcc(t)] # t -> ConnectionDoes(t)

-----------------------------------------------------------------------------
WaitInit ==
  /\ todo = [t \in Threads |-> <<>>]
  /\ owner = [s \in Sections |-> Nobody]
  /\ depth = [s \in Sections |-> 0]

Decide(t) ==
  /\ todo[t] = <<>>
  /\ \E what \in Does(t) : todo' = [todo EXCEPT ![t] = what]
  /\ UNCHANGED <<owner, depth>>

At(t, op) == todo[t] # <<>> /\ Head(todo[t]).does = op
Done(t) == todo' = [todo EXCEPT ![t] = Tail(@)]
Section(t) == Head(todo[t]).section

EnterSection(t) ==
  /\ At(t, "enter") /\ owner[Section(t)] \in {Nobody, t}
  /\ owner' = [owner EXCEPT ![Section(t)] = t]
  /\ depth' = [depth EXCEPT ![Section(t)] = @ + 1]
  /\ Done(t)

LeaveSection(t) ==
  /\ At(t, "leave")
  /\ owner' = [owner EXCEPT ![Section(t)] = IF depth[Section(t)] = 1 THEN Nobody ELSE @]
  /\ depth' = [depth EXCEPT ![Section(t)] = @ - 1]
  /\ Done(t)

\* GetMessage, in the main loop or a nested one, handles the messages sent.
UiListens == (todo[Ui] = <<>> /\ owner[Mutex] # Ui) \/ At(Ui, "loop")

Answered(t) == At(t, "send") /\ UiListens /\ Done(t) /\ UNCHANGED <<owner, depth>>

LoopEnds == At(Ui, "loop") /\ Done(Ui) /\ UNCHANGED <<owner, depth>>

WaitNext ==
  \/ \E t \in Threads : Decide(t) \/ EnterSection(t) \/ LeaveSection(t) \/ Answered(t)
  \/ LoopEnds

WaitSpec == WaitInit /\ [][WaitNext]_waitVars

-----------------------------------------------------------------------------
\* Threads have steps to do, and a section somebody is inside of has been entered.
WaitTypeOK ==
  /\ \A t \in Threads : Len(todo[t]) <= 4
  /\ owner \in [Sections -> Threads \cup {Nobody}]
  /\ \A s \in Sections : depth[s] \in 0 .. 2 /\ (depth[s] = 0 <=> owner[s] = Nobody)

\* The thread that a thread waits for, if it does.
WaitsFor(t) ==
  CASE At(t, "enter") -> {owner[Section(t)]} \ {Nobody, t}
    [] At(t, "send") /\ ~UiListens -> {Ui}
    [] OTHER -> {}

\* No threads wait for each other, in whatever circle: neither for a critical section
\* that another is inside of, nor for the UI thread to answer a message while it waits
\* itself. It takes two sections, or one and a message, in two threads to get stuck.
NoDeadlock ==
  \A S \in SUBSET Threads : S # {} => \E t \in S : WaitsFor(t) \cap S = {}
=============================================================================
