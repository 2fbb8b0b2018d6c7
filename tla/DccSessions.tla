---------------------------- MODULE DccSessions ----------------------------
(***************************************************************************)
(* The DCC chats of one irc session: a linked list under mutex_dcc.  The   *)
(* session's thread walks it twice in every round, to drop what is over    *)
(* and collect sockets for select, and then to serve the sockets that are  *)
(* ready.  It leaves the mutex around every callback, since a callback     *)
(* writes to a window and so waits for the UI thread, which meanwhile may  *)
(* start a chat, send on one, or destroy one.                              *)
(*                                                                         *)
(* Files are only ever declined by slimIRC: a request to receive one is    *)
(* here, the transfer is not.  Time is a choice: a chat that waits for its *)
(* peer may time out in any round, but not before irc_dcc_chat, which made *)
(* it, has returned.  With PeerWaits the peer answers no earlier either.   *)
(***************************************************************************)
EXTENDS Integers, SequencesExt

CONSTANTS Dccs,      \* identifiers of DCC sessions, in the order of their use
          MaxLines,  \* bound: lines in an output buffer
          PeerWaits  \* a peer answers irc_dcc_chat only after that has returned

ASSUME SizeAssumption == MaxLines \in Nat /\ Dccs \subseteq Nat \ {0}
ASSUME PeerAssumption == PeerWaits \in BOOLEAN

None == 0            \* the null session

VARIABLES dcc_sessions,  \* the list, the newest session first
          state,         \* of each session
          frees,         \* how often its memory was freed
          cb,            \* its callback is set
          outgoing,      \* lines in its output buffer
          locked,        \* mutex_dcc is held by the session's thread
          ircPc,         \* where that thread is
          dcc, dcc_next, \* its locals in the two walks
          err,           \* whether the callback it is in reports an error
          in_set, out_set,
          uiPc, uiDcc,   \* where the UI thread is, and the session it works on
          told,          \* history: sessions whose end was reported
          late           \* history: destroyed while being told of the timeout

list == <<dcc_sessions, state, frees, cb, outgoing>>
walk == <<dcc, dcc_next, err>>
sets == <<in_set, out_set>>
ui   == <<uiPc, uiDcc>>
vars == <<list, locked, ircPc, walk, sets, ui, told, late>>

Waiting == {"init", "listening", "connecting"}
States  == Waiting \cup {"none", "connected", "removed"}
\* After the last of each kind of point the thread has left mutex_dcc.
Walks   == {"visit", "reread", "new", "read", "write"}
Calls   == {"expire", "newCall", "readCall", "writeCall", "chatAsked", "fileAsked"}

TypeOK ==
  /\ dcc_sessions \in Seq(Dccs)
  /\ state \in [Dccs -> States]
  /\ frees \in [Dccs -> 0 .. 2]
  /\ cb \in [Dccs -> BOOLEAN]
  /\ outgoing \in [Dccs -> 0 .. MaxLines]
  /\ locked \in BOOLEAN
  /\ ircPc \in Walks \cup Calls \cup {"top", "select", "serve", "lines", "ended"}
  /\ dcc \in Dccs \cup {None} /\ dcc_next \in Dccs \cup {None}
  /\ err \in BOOLEAN
  /\ in_set \subseteq Dccs /\ out_set \subseteq Dccs
  /\ uiPc \in {"idle", "chat", "request", "register", "msg", "destroy"}
  /\ uiDcc \in Dccs \cup {None}
  /\ told \subseteq Dccs /\ late \subseteq Dccs

Init ==
  /\ dcc_sessions = <<>>
  /\ state = [d \in Dccs |-> "none"]
  /\ frees = [d \in Dccs |-> 0]
  /\ cb = [d \in Dccs |-> FALSE]
  /\ outgoing = [d \in Dccs |-> 0]
  /\ locked = FALSE
  /\ ircPc = "top"
  /\ dcc = None /\ dcc_next = None /\ err = FALSE
  /\ in_set = {} /\ out_set = {}
  /\ uiPc = "idle" /\ uiDcc = None
  /\ told = {} /\ late = {}

-----------------------------------------------------------------------------
Listed  == ToSet(dcc_sessions)
HeadOf(s)  == IF s = <<>> THEN None ELSE s[1]
PlaceOf(d) == CHOOSE i \in DOMAIN dcc_sessions : dcc_sessions[i] = d
NextOf(d)  == IF PlaceOf(d) = Len(dcc_sessions) THEN None
              ELSE dcc_sessions[PlaceOf(d) + 1]
Fresh(d)   == /\ state[d] = "none"
              /\ \A e \in Dccs : e < d => state[e] # "none"

\* libirc_new_dcc_session: at the head of the list
NewSession(d, s) ==
  /\ Fresh(d)
  /\ dcc_sessions' = <<d>> \o dcc_sessions
  /\ state' = [state EXCEPT ![d] = s]
  /\ UNCHANGED <<frees, cb, outgoing>>

\* libirc_remove_dcc_session: unlinked, if it is in the list, and freed
RemoveSession(d) ==
  /\ dcc_sessions' = IF d \in Listed THEN RemoveAt(dcc_sessions, PlaceOf(d)) ELSE dcc_sessions
  /\ frees' = [frees EXCEPT ![d] = @ + 1]
  /\ UNCHANGED <<state, cb, outgoing>>

\* libirc_dcc_destroy_nolock, and irc_dcc_destroy with the mutex
Destroyed(d) == IF d \in Listed THEN [state EXCEPT ![d] = "removed"] ELSE state

Goto(from, to) == ircPc = from /\ ircPc' = to

\* The session irc_dcc_chat has not finished yet.
SettingUp == IF uiPc \in {"request", "register"} THEN {uiDcc} ELSE {}

\* A callback or an event handler sends messages to windows: they are answered
\* by a UI thread that has come back to its message loop.
Answered == uiPc = "idle"

-----------------------------------------------------------------------------
(***************************************************************************)
(* libirc_dcc_add_descriptors.                                             *)
(***************************************************************************)
StartVisits ==
  /\ Goto("top", "visit")
  /\ locked' = TRUE
  /\ dcc' = HeadOf(dcc_sessions)
  /\ UNCHANGED <<list, dcc_next, err, sets, ui, told, late>>

Skip ==
  /\ Goto("visit", "visit")
  /\ dcc # None /\ state[dcc] # "removed"
  /\ dcc' = NextOf(dcc)
  /\ UNCHANGED <<list, locked, dcc_next, err, sets, ui, told, late>>

\* Mutant: what is over stays in the list.
ReclaimNever ==
  /\ Goto("visit", "visit")
  /\ dcc # None /\ state[dcc] = "removed"
  /\ dcc' = NextOf(dcc)
  /\ UNCHANGED <<list, locked, dcc_next, err, sets, ui, told, late>>

Reclaim ==
  /\ Goto("visit", "visit")
  /\ dcc # None /\ state[dcc] = "removed"
  /\ dcc' = NextOf(dcc)
  /\ RemoveSession(dcc)
  /\ UNCHANGED <<locked, dcc_next, err, sets, ui, told, late>>

\* The time is over.  Whoever made the request is told, without the mutex.
Expire ==
  /\ Goto("visit", "expire")
  /\ dcc # None /\ dcc \notin SettingUp /\ state[dcc] \in Waiting \ {"init"}
  /\ dcc_next' = NextOf(dcc)
  /\ locked' = FALSE
  /\ told' = IF cb[dcc] THEN told \cup {dcc} ELSE told
  /\ UNCHANGED <<list, dcc, err, sets, ui, late>>

Expired ==
  /\ Goto("expire", "reread")
  /\ cb[dcc] => Answered
  /\ RemoveSession(dcc)
  /\ late' = IF state[dcc] = "removed" THEN late \cup {dcc} ELSE late
  /\ locked' = TRUE
  /\ UNCHANGED <<walk, sets, ui, told>>

\* A request nobody has answered expires in silence.
ExpireUnasked ==
  /\ Goto("visit", "reread")
  /\ dcc # None /\ state[dcc] = "init"
  /\ dcc_next' = NextOf(dcc)
  /\ RemoveSession(dcc)
  /\ UNCHANGED <<locked, dcc, err, sets, ui, told, late>>

\* The walk reads the state of the session it has freed: it finds what was
\* there, or what the allocator has left.
Reread ==
  /\ Goto("reread", "visit")
  /\ \/ state[dcc] = "removed" /\ RemoveSession(dcc)
     \/ UNCHANGED list
  /\ dcc' = dcc_next /\ dcc_next' = None
  /\ UNCHANGED <<locked, err, sets, ui, told, late>>

CollectSockets ==
  /\ Goto("visit", "select")
  /\ dcc = None
  /\ in_set' = {d \in Listed : state[d] \in {"listening", "connected"}}
  /\ out_set' = {d \in Listed : \/ state[d] = "connecting"
                                \/ state[d] = "connected" /\ outgoing[d] > 0}
  /\ locked' = FALSE
  /\ UNCHANGED <<list, walk, ui, told, late>>

-----------------------------------------------------------------------------
(***************************************************************************)
(* select, and the end of the session's run: irc_destroy_session frees the *)
(* list.  The critical section of server_thread keeps the UI out of it.    *)
(***************************************************************************)
ClosedInSets == \E d \in in_set \cup out_set : state[d] = "removed" \/ frees[d] > 0

SelectReady ==
  /\ Goto("select", "serve")
  /\ ~ClosedInSets
  /\ in_set' \in SUBSET (in_set \ (IF PeerWaits THEN SettingUp ELSE {}))
  /\ out_set' \in SUBSET out_set
  /\ UNCHANGED <<list, locked, walk, ui, told, late>>

\* select fails on a socket that was closed; the server may end the run, too.
RunEnds ==
  /\ \/ Goto("select", "ended") /\ ClosedInSets
     \/ Goto("lines", "ended")
  /\ uiPc = "idle"
  /\ frees' = [d \in Dccs |-> IF d \in Listed THEN frees[d] + 1 ELSE frees[d]]
  /\ dcc_sessions' = <<>>
  /\ UNCHANGED <<state, cb, outgoing, locked, walk, sets, ui, told, late>>

-----------------------------------------------------------------------------
(***************************************************************************)
(* libirc_dcc_process_descriptors: accept or connect, read, write.         *)
(***************************************************************************)
StartServing ==
  /\ Goto("serve", "new")
  /\ locked' = TRUE
  /\ dcc' = HeadOf(dcc_sessions)
  /\ UNCHANGED <<list, dcc_next, err, sets, ui, told, late>>

\* Mutant: the callback runs under the mutex.
CallLocked(to, e) ==
  /\ ircPc' = to
  /\ err' = e
  /\ told' = IF e THEN told \cup {dcc} ELSE told
  /\ UNCHANGED <<locked, dcc, dcc_next, ui, late>>

\* The mutex is left, and the callback called.
Call(to, e) ==
  /\ ircPc' = to
  /\ err' = e
  /\ locked' = FALSE
  /\ told' = IF e THEN told \cup {dcc} ELSE told
  /\ UNCHANGED <<dcc, dcc_next, ui, late>>

\* accept gives a new socket, which is in no set; connect keeps its socket.
PeerAnswers ==
  /\ ircPc = "new" /\ dcc # None
  /\ \/ state[dcc] = "listening" /\ dcc \in in_set /\ in_set' = in_set \ {dcc}
     \/ state[dcc] = "connecting" /\ dcc \in out_set /\ in_set' = in_set
  /\ \/ state' = [state EXCEPT ![dcc] = "connected"] /\ Call("newCall", FALSE)
     \/ state' = state /\ Call("newCall", TRUE)
  /\ UNCHANGED <<dcc_sessions, frees, cb, outgoing, out_set>>

NothingNew ==
  /\ Goto("new", "read")
  /\ dcc # None
  /\ ~(state[dcc] = "listening" /\ dcc \in in_set)
  /\ ~(state[dcc] = "connecting" /\ dcc \in out_set)
  /\ UNCHANGED <<list, locked, walk, sets, ui, told, late>>

\* recv returns data, the end of the connection, or an error.
Receive ==
  /\ ircPc = "read"
  /\ state[dcc] = "connected" /\ dcc \in in_set
  /\ \E e \in BOOLEAN : Call("readCall", e)
  /\ UNCHANGED <<list, sets>>

NothingToRead ==
  /\ Goto("read", "write")
  /\ ~(state[dcc] = "connected" /\ dcc \in in_set)
  /\ UNCHANGED <<list, locked, walk, sets, ui, told, late>>

Send ==
  /\ ircPc = "write"
  /\ state[dcc] = "connected" /\ dcc \in out_set /\ outgoing[dcc] > 0
  /\ \/ /\ Goto("write", "new")
        /\ \E n \in 0 .. outgoing[dcc] - 1 : outgoing' = [outgoing EXCEPT ![dcc] = n]
        /\ dcc' = NextOf(dcc)
        /\ UNCHANGED <<locked, dcc_next, err, ui, told, late>>
     \/ Call("writeCall", TRUE) /\ UNCHANGED outgoing
  /\ UNCHANGED <<dcc_sessions, state, frees, cb, sets>>

NothingToSend ==
  /\ Goto("write", "new")
  /\ ~(state[dcc] = "connected" /\ dcc \in out_set /\ outgoing[dcc] > 0)
  /\ dcc' = NextOf(dcc)
  /\ UNCHANGED <<list, locked, dcc_next, err, sets, ui, told, late>>

\* Mutant: a session whose end was reported lives on.
CallReturnsKeeps ==
  /\ \/ Goto("newCall", "read") /\ dcc' = dcc
     \/ Goto("readCall", "write") /\ dcc' = dcc
     \/ Goto("writeCall", "new") /\ dcc' = NextOf(dcc)
  /\ Answered
  /\ locked' = TRUE
  /\ UNCHANGED <<list, dcc_next, err, sets, ui, told, late>>

\* The callback returns; after an error the session is destroyed.
CallReturns ==
  /\ \/ Goto("newCall", "read") /\ dcc' = dcc
     \/ Goto("readCall", "write") /\ dcc' = dcc
     \/ Goto("writeCall", "new") /\ dcc' = NextOf(dcc)
  /\ Answered
  /\ locked' = TRUE
  /\ state' = IF err THEN Destroyed(dcc) ELSE state
  /\ UNCHANGED <<dcc_sessions, frees, cb, outgoing, dcc_next, err, sets, ui, told,
                 late>>

Served ==
  /\ Goto("new", "lines")
  /\ dcc = None
  /\ locked' = FALSE
  /\ UNCHANGED <<list, walk, sets, ui, told, late>>

-----------------------------------------------------------------------------
(***************************************************************************)
(* Requests of other users arrive as lines: libirc_dcc_request, and the    *)
(* handlers of slimIRC.                                                    *)
(***************************************************************************)
Request ==
  /\ \/ Goto("lines", "chatAsked")
     \/ Goto("lines", "fileAsked")
  /\ \E d \in Dccs : NewSession(d, "init") /\ dcc' = d
  /\ UNCHANGED <<locked, dcc_next, err, sets, ui, told, late>>

\* irc_dcc_accept, once there is a window for the chat
AcceptRequest ==
  /\ Goto("chatAsked", "lines")
  /\ Answered
  /\ IF state[dcc] = "init"
     THEN /\ cb' = [cb EXCEPT ![dcc] = TRUE]
          /\ \/ state' = [state EXCEPT ![dcc] = "connecting"]
             \/ state' = Destroyed(dcc)
     ELSE UNCHANGED <<cb, state>>
  /\ dcc' = None
  /\ UNCHANGED <<dcc_sessions, frees, outgoing, locked, dcc_next, err, sets, ui,
                 told, late>>

\* irc_dcc_decline: a file, or a user the script ignores
DeclineRequest ==
  /\ \/ Goto("chatAsked", "lines")
     \/ Goto("fileAsked", "lines")
  /\ Answered
  /\ state' = IF state[dcc] = "init" THEN Destroyed(dcc) ELSE state
  /\ dcc' = None
  /\ UNCHANGED <<dcc_sessions, frees, cb, outgoing, locked, dcc_next, err, sets, ui,
                 told, late>>

\* No window could be had: the request is neither accepted nor declined.
LeaveRequest ==
  /\ Goto("chatAsked", "lines")
  /\ Answered
  /\ dcc' = None
  /\ UNCHANGED <<list, locked, dcc_next, err, sets, ui, told, late>>

NextRound ==
  /\ Goto("lines", "top")
  /\ UNCHANGED <<list, locked, walk, sets, ui, told, late>>

-----------------------------------------------------------------------------
(***************************************************************************)
(* The UI thread.  Inside a call it answers no message.                    *)
(***************************************************************************)
irc == <<locked, ircPc, walk, sets, told, late>>

\* /dcc: irc_dcc_chat
StartChat ==
  /\ uiPc = "idle" /\ ircPc # "ended"
  /\ uiPc' = "chat"
  /\ UNCHANGED <<list, irc, uiDcc>>

NewChat ==
  /\ uiPc = "chat" /\ ~locked
  /\ \/ /\ uiPc' = "request"
        /\ \E d \in Dccs : NewSession(d, "listening") /\ uiDcc' = d
     \/ uiPc' = "idle" /\ UNCHANGED <<list, uiDcc>>
  /\ UNCHANGED irc

RequestSent ==
  /\ uiPc = "request"
  /\ uiPc' = "register"
  /\ UNCHANGED <<list, irc, uiDcc>>

\* NOTICE or PRIVMSG was refused: the session is removed again.
RequestFails ==
  /\ uiPc = "request" /\ ~locked
  /\ RemoveSession(uiDcc)
  /\ uiPc' = "idle" /\ uiDcc' = None
  /\ UNCHANGED irc

Register ==
  /\ uiPc = "register"
  /\ cb' = [cb EXCEPT ![uiDcc] = TRUE]
  /\ uiPc' = "idle" /\ uiDcc' = None
  /\ UNCHANGED <<dcc_sessions, state, frees, outgoing, irc>>

\* A chat has a window from its start or from just before it is accepted on. The
\* window of a chat that could not be started keeps the identifier 0, which no
\* session has.
HasWindow(d) == \/ cb[d]
                \/ ircPc = "chatAsked" /\ dcc = d

\* A line is typed in the window of a chat, or the window is closed.
UseChat(d) ==
  /\ uiPc = "idle" /\ ircPc # "ended"
  /\ d \in Listed /\ HasWindow(d)
  /\ uiPc' \in {"msg", "destroy"} /\ uiDcc' = d
  /\ UNCHANGED <<list, irc>>

\* Mutant: the room in the buffer is not looked at.
SendMsgUnchecked ==
  /\ uiPc = "msg" /\ ~locked
  /\ outgoing' = IF uiDcc \in Listed THEN [outgoing EXCEPT ![uiDcc] = @ + 1] ELSE outgoing
  /\ uiPc' = "idle" /\ uiDcc' = None
  /\ UNCHANGED <<dcc_sessions, state, frees, cb, irc>>

\* irc_dcc_msg: the session may be gone, or its buffer full.
SendMsg ==
  /\ uiPc = "msg" /\ ~locked
  /\ outgoing' = IF uiDcc \in Listed /\ outgoing[uiDcc] < MaxLines
                 THEN [outgoing EXCEPT ![uiDcc] = @ + 1] ELSE outgoing
  /\ uiPc' = "idle" /\ uiDcc' = None
  /\ UNCHANGED <<dcc_sessions, state, frees, cb, irc>>

\* Mutant: the memory is freed at once.
DestroyNow ==
  /\ uiPc = "destroy" /\ ~locked
  /\ IF uiDcc \in Listed THEN RemoveSession(uiDcc) ELSE UNCHANGED list
  /\ uiPc' = "idle" /\ uiDcc' = None
  /\ UNCHANGED irc

\* irc_dcc_destroy: marked, and freed by the next round
Destroy ==
  /\ uiPc = "destroy" /\ ~locked
  /\ state' = Destroyed(uiDcc)
  /\ uiPc' = "idle" /\ uiDcc' = None
  /\ UNCHANGED <<dcc_sessions, frees, cb, outgoing, irc>>

-----------------------------------------------------------------------------
Visit == StartVisits \/ Skip \/ Reclaim \/ Expire \/ ExpireUnasked \/ Reread
         \/ CollectSockets
Serve == StartServing \/ PeerAnswers \/ NothingNew \/ Receive \/ NothingToRead
         \/ Send \/ NothingToSend \/ Served
Handle == Expired \/ CallReturns \/ AcceptRequest \/ DeclineRequest \/ LeaveRequest
Run == Visit \/ SelectReady \/ RunEnds \/ Serve \/ Request \/ NextRound \/ Handle

UiUses == StartChat \/ \E d \in Dccs : UseChat(d)
UiCall == \/ NewChat \/ RequestSent \/ RequestFails \/ Register
          \/ SendMsg \/ Destroy

Next == Run \/ UiUses \/ UiCall

(***************************************************************************)
(* Fairness.  The session's thread runs.  A message it sends is answered   *)
(* when the UI thread is in its message loop, before any other one; and    *)
(* the UI thread gets mutex_dcc, which is free during every select: both   *)
(* happen again and again, and strong fairness says that they succeed.  So *)
(* does the session's thread with the critical section it takes to end.    *)
(***************************************************************************)
Fairness == WF_vars(Run) /\ SF_vars(RunEnds) /\ SF_vars(Handle) /\ SF_vars(UiCall)

Spec     == Init /\ [][Next]_vars
FairSpec == Spec /\ Fairness

-----------------------------------------------------------------------------
(***************************************************************************)
(* Properties.                                                             *)
(***************************************************************************)

\* A session is freed once, unless it was destroyed during its timeout callback:
\* then the walk finds "removed" in the memory it has freed (dcc.c:156).
FreedOnce == \A d \in Dccs : frees[d] > 1 => d \in late

\* A callback that is called has been set: "When the chat is accepted, terminated,
\* or some data is received, the callback function is called" (libircclient.h:1112).
\* irc_dcc_chat sets it after the request is out, so the peer must not be faster.
CallbackSet == ircPc \in {"newCall", "readCall", "writeCall"} => cb[dcc]

\* What a thread holds on to while it has left the mutex is still there when it
\* comes back: the session of the callback and the next one of the walk, and the
\* session irc_dcc_chat still has to register. And the callback has been set.
HeldSessionsLive ==
  /\ ircPc \in Calls => frees[dcc] = 0
  /\ ircPc \in {"expire", "reread"} /\ dcc_next # None => frees[dcc_next] = 0
  /\ uiPc = "register" => frees[uiDcc] = 0
  /\ CallbackSet

\* An error is the last thing a callback reports of a session: "after returning
\* from the callback, the DCC session is automatically destroyed".
ErrorIsLast ==
  [][ircPc' \in Calls /\ ircPc' # ircPc => dcc' \notin told]_vars

\* The thread comes back from every callback: neither it nor the UI thread waits
\* for the other.
CallsReturn == ircPc \in Calls ~> ircPc \notin Calls

\* The memory of a session that is over is freed in time.
RemovedIsFreed == \A d \in Dccs : state[d] = "removed" ~> frees[d] > 0

\* irc_dcc_destroy "can be called in any moment, even from callbacks or from
\* different threads" (libircclient.h:1261): no select fails because of it.
DestroyLeavesSelect ==
  ircPc = "select" => \A d \in in_set \cup out_set : state[d] # "removed"
=============================================================================
