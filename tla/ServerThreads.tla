---------------------------- MODULE ServerThreads ----------------------------
(***************************************************************************)
(* The life of a server connection in slimIRC: the user interface thread,  *)
(* one server_thread per network, and the three things they share.         *)
(*                                                                         *)
(*   irc_windows     the table of MDI windows, each holding a raw pointer  *)
(*                   to the irc session of its network;                    *)
(*   server_threads  the table of connection threads, found by network;    *)
(*   mutex           the critical section the message loop holds while it  *)
(*                   dispatches one message, and a connection thread holds *)
(*                   while it destroys its session.                        *)
(*                                                                         *)
(* A session is a heap object: heap records how it was freed, and a number *)
(* is allocated again only when no pointer to it is left, so that a        *)
(* pointer that outlives its session stays visible.  What happens on the   *)
(* connection itself is in IrcSession; here a session is told to end, by   *)
(* QUIT or by irc_disconnect, or its run returns for a reason of its own.  *)
(* irc_disconnect tells a session to end by closing its socket: before     *)
(* irc_connect has created one, it changes nothing that lasts.             *)
(***************************************************************************)
EXTENDS Integers, FiniteSets

CONSTANTS Net,          \* the networks the user can open
          NoNet,        \* the empty network name of an erased table entry
          Threads,      \* operating system threads that can run server_thread
          UI,           \* the user interface thread
          Nobody,       \* the owner of a free mutex
          NWindows,     \* size of irc_windows (100 in the code)
          NThreads,     \* size of server_threads (20 in the code)
          MaxSessions,  \* bound: sessions in memory or still pointed to
          MaxHwnd       \* bound: window handles in use

ASSUME NetAssumption    == NoNet \notin Net
ASSUME ActorAssumption  == /\ UI \notin Threads
                           /\ Nobody \notin Threads \cup {UI}
ASSUME SizeAssumption   == /\ NWindows \in Nat \ {0}
                           /\ NThreads \in Nat \ {0}
                           /\ MaxSessions \in Nat
                           /\ MaxHwnd \in Nat

Slots    == 1 .. NWindows
Entries  == 1 .. NThreads
Sessions == 1 .. MaxSessions
Null     == 0                  \* the null session, window or handle

VARIABLES irc_windows,    \* [Slots -> WindowType]
          server_threads, \* [Entries -> ThreadType]
          mutex,          \* the owner of the critical section
          heap,           \* [Sessions -> HeapState]
          frees,          \* history: how often each was freed since malloc
          conn,           \* [Sessions -> ConnState], session->state
          sock,           \* sessions whose session->sock is not -1
          ending,         \* sessions told to end: QUIT queued, or socket closed
          pc,             \* where each connection thread is
          thread,         \* its argument: an entry of server_threads
          session,        \* its local variable session
          win,            \* its local variable win
          closePosted,    \* handles with a WM_CLOSE in the message queue
          uiPc,           \* where the message handler of the UI thread is
          uiWin,          \* the window it works on
          uiThread,       \* the entry connect_server has acquired
          uiDeref,        \* session pointers the handler will dereference
          overrun         \* history: a running thread's entry was erased

tables == <<irc_windows, server_threads>>
memory == <<heap, frees>>
sess   == <<memory, conn, sock, ending>>
locals == <<thread, session, win>>
ui     == <<uiPc, uiWin, uiThread, uiDeref>>
vars   == <<tables, mutex, sess, pc, locals, closePosted, ui, overrun>>

(***************************************************************************)
(* Types.  A heap object is "freed" inside the critical section of         *)
(* server_thread, and "aborted" on its path that found no window, which    *)
(* destroys the session without the mutex.                                 *)
(***************************************************************************)
HeapState == {"unused", "live", "freed", "aborted"}
ConnState == {"init", "connecting", "connected", "disconnected"}

WindowType == [network : Net \cup {NoNet}, type : {"none", "server", "channel"},
               hwnd : 0 .. MaxHwnd, session : 0 .. MaxSessions,
               disconnect : BOOLEAN]
NoWindow   == [network |-> NoNet, type |-> "none", hwnd |-> Null,
               session |-> Null, disconnect |-> FALSE]

ThreadType == [network : Net \cup {NoNet}, thread_started : BOOLEAN,
               session : 0 .. MaxSessions, disconnected : BOOLEAN]
NoThread   == [network |-> NoNet, thread_started |-> FALSE,
               session |-> Null, disconnected |-> FALSE]

\* Program points at which a thread owns a session it has not destroyed yet.
Owning  == {"find", "bind", "clear", "connect", "socket", "run", "lock", "free",
            "abort"}
\* Program points of a thread that may still touch its entry.
Running == Owning \cup {"create", "erase", "eraseAbort", "check", "wait",
                        "quit", "end", "eraseThread"}
PCs     == Running \cup {"none", "post"}
UiPCs   == {"idle", "open", "create", "attach", "close", "closed", "part",
            "command", "drop"}

TypeOK ==
  /\ irc_windows \in [Slots -> WindowType]
  /\ server_threads \in [Entries -> ThreadType]
  /\ mutex \in Threads \cup {UI, Nobody}
  /\ heap \in [Sessions -> HeapState]
  /\ frees \in [Sessions -> Nat]
  /\ conn \in [Sessions -> ConnState]
  /\ sock \in SUBSET Sessions
  /\ ending \in SUBSET Sessions
  /\ pc \in [Threads -> PCs]
  /\ thread \in [Threads -> Entries]
  /\ session \in [Threads -> 0 .. MaxSessions]
  /\ win \in [Threads -> 0 .. NWindows]
  /\ closePosted \in SUBSET (1 .. MaxHwnd)
  /\ uiPc \in UiPCs
  /\ uiWin \in 0 .. NWindows
  /\ uiThread \in 0 .. NThreads
  /\ uiDeref \in SUBSET Sessions
  /\ overrun \in BOOLEAN

-----------------------------------------------------------------------------
(***************************************************************************)
(* Lookups in the two tables.                                              *)
(***************************************************************************)
First(S, i) == i \in S /\ \A j \in S : i <= j

\* The slots find_window_by_network matches: an empty name matches nothing.
ServerSlots(n) == {k \in Slots : /\ n # NoNet
                                 /\ irc_windows[k].type = "server"
                                 /\ irc_windows[k].network = n}

\* find_window_by_network(n) returns w
FoundWindow(n, w) == \/ First(ServerSlots(n), w)
                     \/ ServerSlots(n) = {} /\ w = Null

FreeSlots == {k \in Slots : irc_windows[k].network = NoNet}

\* acquire_network_window and acquire_channel_window: the window the network
\* has, or the first free slot, whose other fields keep what they hold.
WindowChoices(n, type) ==
  LET own == {k \in Slots : /\ irc_windows[k].type = type
                            /\ irc_windows[k].network = n}
  IN  IF own # {} THEN own ELSE FreeSlots

\* acquire_network_thread: the network's entry, or the first empty one.
EntryChoices(n) ==
  LET own == {e \in Entries : server_threads[e].network = n}
  IN  IF own # {} THEN own
      ELSE {e \in Entries : server_threads[e].network = NoNet}

\* erase_all_sessions(s)
WindowsWithout(s) ==
  [k \in Slots |-> IF irc_windows[k].session = s
                   THEN [irc_windows[k] EXCEPT !.session = Null]
                   ELSE irc_windows[k]]

IsConnected(s) == s # Null /\ conn[s] \in {"connecting", "connected"}

Goto(t, from, to) == pc[t] = from /\ pc' = [pc EXCEPT ![t] = to]

Init ==
  /\ irc_windows = [k \in Slots |-> NoWindow]
  /\ server_threads = [e \in Entries |-> NoThread]
  /\ mutex = Nobody
  /\ heap = [s \in Sessions |-> "unused"]
  /\ frees = [s \in Sessions |-> 0]
  /\ conn = [s \in Sessions |-> "init"]
  /\ sock = {}
  /\ ending = {}
  /\ pc = [t \in Threads |-> "none"]
  /\ thread = [t \in Threads |-> 1]
  /\ session = [t \in Threads |-> Null]
  /\ win = [t \in Threads |-> Null]
  /\ closePosted = {}
  /\ uiPc = "idle"
  /\ uiWin = Null
  /\ uiThread = Null
  /\ uiDeref = {}
  /\ overrun = FALSE

-----------------------------------------------------------------------------
\* What malloc can return: nothing points to it any more.
Pointers == {irc_windows[k].session : k \in Slots} \cup
            {server_threads[e].session : e \in Entries} \cup
            {session[t] : t \in Threads} \cup uiDeref
FreshSessions == {s \in Sessions : heap[s] # "live" /\ s \notin Pointers}

\* What WM_MDICREATE can return: an unused handle, or null when it fails.
NewHwnd(h) == \/ First((1 .. MaxHwnd) \ {irc_windows[k].hwnd : k \in Slots}, h)
              \/ h = Null

-----------------------------------------------------------------------------
(***************************************************************************)
(* server_thread.  Every access to a shared table is a step of its own:    *)
(* outside the critical section the thread holds no lock.                  *)
(***************************************************************************)

\* session=thread->session=create_session(callbacks): it may return null.
CreateSession(t) ==
  \/ \E s \in Sessions :
       /\ First(FreshSessions, s)
       /\ Goto(t, "create", "find")
       /\ heap' = [heap EXCEPT ![s] = "live"]
       /\ frees' = [frees EXCEPT ![s] = 0]
       /\ conn' = [conn EXCEPT ![s] = "init"]
       /\ sock' = sock \ {s}
       /\ ending' = ending \ {s}
       /\ session' = [session EXCEPT ![t] = s]
       /\ server_threads' = [server_threads EXCEPT ![thread[t]].session = s]
       /\ UNCHANGED <<irc_windows, mutex, thread, win, closePosted, ui, overrun>>
  \/ /\ Goto(t, "create", "end")
     /\ session' = [session EXCEPT ![t] = Null]
     /\ server_threads' = [server_threads EXCEPT ![thread[t]].session = Null]
     /\ UNCHANGED <<irc_windows, mutex, sess, thread, win, closePosted, ui, overrun>>

\* win=find_window_by_network(thread->network); if(win!=0)
FindWindow(t) ==
  \E w \in 0 .. NWindows :
    /\ FoundWindow(server_threads[thread[t]].network, w)
    /\ Goto(t, "find", IF w = Null THEN "abort" ELSE "bind")
    /\ win' = [win EXCEPT ![t] = w]
    /\ UNCHANGED <<tables, mutex, sess, thread, session, closePosted, ui, overrun>>

\* win->session=session: the slot is whatever it has become since the lookup.
BindSession(t) ==
  /\ Goto(t, "bind", "clear")
  /\ irc_windows' = [irc_windows EXCEPT ![win[t]].session = session[t]]
  /\ UNCHANGED <<server_threads, mutex, sess, locals, closePosted, ui, overrun>>

\* thread->disconnected=FALSE
ClearDisconnected(t) ==
  /\ Goto(t, "clear", "connect")
  /\ server_threads' = [server_threads EXCEPT ![thread[t]].disconnected = FALSE]
  /\ UNCHANGED <<irc_windows, mutex, sess, locals, closePosted, ui, overrun>>

\* irc_connect resolves the server's name, then it creates the socket.
CreateSocket(t) ==
  \/ /\ Goto(t, "connect", "socket")
     /\ sock' = sock \cup {session[t]}
     /\ UNCHANGED <<tables, mutex, memory, conn, ending, locals, closePosted, ui,
                    overrun>>
  \/ /\ Goto(t, "connect", "lock")
     /\ UNCHANGED <<tables, mutex, sess, locals, closePosted, ui, overrun>>

\* It blocks in connect and sets the state, whatever that is now, and irc_run
\* starts; or it fails, and there is no run.
Connect(t) ==
  \/ /\ Goto(t, "socket", "run")
     /\ conn' = [conn EXCEPT ![session[t]] = "connecting"]
     /\ UNCHANGED <<tables, mutex, memory, sock, ending, locals, closePosted, ui,
                    overrun>>
  \/ /\ Goto(t, "socket", "lock")
     /\ UNCHANGED <<tables, mutex, sess, locals, closePosted, ui, overrun>>

\* The first round of irc_run finds the socket connected.
Established(t) ==
  /\ pc[t] = "run" /\ session[t] \in sock /\ conn[session[t]] = "connecting"
  /\ conn' = [conn EXCEPT ![session[t]] = "connected"]
  /\ UNCHANGED <<tables, mutex, memory, sock, ending, pc, locals, closePosted, ui,
                 overrun>>

\* join_channel_event: the thread that owns the session opens or rebinds the
\* channel's window, provided a server window carries the session.
JoinEvent(t) ==
  /\ pc[t] = "run" /\ conn[session[t]] = "connected"
  /\ \E w \in Slots :
       /\ First({k \in Slots : /\ irc_windows[k].type = "server"
                               /\ irc_windows[k].session = session[t]}, w)
       /\ \E k \in Slots, h \in 0 .. MaxHwnd :
            LET n == irc_windows[w].network
            IN  /\ First(WindowChoices(n, "channel"), k)
                /\ IF irc_windows[k].hwnd = Null THEN NewHwnd(h)
                   ELSE h = irc_windows[k].hwnd
                /\ irc_windows' =
                     [irc_windows EXCEPT
                        ![k] = [@ EXCEPT !.network = n, !.type = "channel",
                                         !.session = session[t], !.hwnd = h]]
  /\ UNCHANGED <<server_threads, mutex, sess, pc, locals, closePosted, ui,
                 overrun>>

\* irc_run returns: the server closed, an error, a timeout, or irc_disconnect.
\* When select fails the state stays what it is.
RunReturns(t) ==
  /\ Goto(t, "run", "lock")
  /\ \E c \in {"init", "disconnected", conn[session[t]]} :
       conn' = [conn EXCEPT ![session[t]] = c]
  /\ UNCHANGED <<tables, mutex, memory, sock, ending, locals, closePosted, ui,
                 overrun>>

\* irc_destroy_session(s): the socket is closed and the memory freed.
Free(s, how) ==
  /\ heap' = [heap EXCEPT ![s] = how]
  /\ frees' = [frees EXCEPT ![s] = @ + 1]
  /\ sock' = sock \ {s}

\* Mutant: the session is destroyed without waiting for the message loop.
EnterMutexUnlocked(t) ==
  /\ Goto(t, "lock", "free")
  /\ mutex' = t
  /\ UNCHANGED <<tables, sess, locals, closePosted, ui, overrun>>

\* EnterCriticalSection(&mutex)
EnterMutex(t) ==
  /\ mutex = Nobody
  /\ Goto(t, "lock", "free")
  /\ mutex' = t
  /\ UNCHANGED <<tables, sess, locals, closePosted, ui, overrun>>

\* win=find_window_by_network(...); win->session=0; irc_destroy_session(session)
DestroySession(t) ==
  \E w \in 0 .. NWindows :
    /\ FoundWindow(server_threads[thread[t]].network, w)
    /\ Goto(t, "free", "erase")
    /\ win' = [win EXCEPT ![t] = w]
    /\ irc_windows' = IF w = Null THEN irc_windows
                      ELSE [irc_windows EXCEPT ![w].session = Null]
    /\ Free(session[t], "freed")
    /\ UNCHANGED <<server_threads, mutex, conn, ending, thread, session, closePosted,
                   ui, overrun>>

\* Mutant: only the server window forgets the session.
EraseSessionsForgotten(t) ==
  /\ Goto(t, "erase", "check")
  /\ server_threads' = [server_threads EXCEPT ![thread[t]].disconnected = TRUE]
  /\ mutex' = Nobody
  /\ UNCHANGED <<irc_windows, sess, locals, closePosted, ui, overrun>>

\* erase_all_sessions(session); thread->disconnected=TRUE; LeaveCriticalSection
EraseSessions(t) ==
  /\ Goto(t, "erase", "check")
  /\ irc_windows' = WindowsWithout(session[t])
  /\ server_threads' = [server_threads EXCEPT ![thread[t]].disconnected = TRUE]
  /\ mutex' = Nobody
  /\ UNCHANGED <<sess, locals, closePosted, ui, overrun>>

\* if(win==0 || win->hwnd==0 || win->disconnect) goto quit
WindowGone(w) == \/ w = Null
                 \/ irc_windows[w].hwnd = Null
                 \/ irc_windows[w].disconnect

CheckWindow(t) ==
  /\ Goto(t, "check", IF WindowGone(win[t]) THEN "quit" ELSE "wait")
  /\ UNCHANGED <<tables, mutex, sess, locals, closePosted, ui, overrun>>

\* Mutant: the session is created once, before the loop.
WaitRetryKeepsSession(t) ==
  /\ Goto(t, "wait", "find")
  /\ UNCHANGED <<tables, mutex, sess, locals, closePosted, ui, overrun>>

\* The wait before a reconnection ends, by time or because the window is gone.
WaitRetry(t) ==
  /\ Goto(t, "wait", "create")
  /\ UNCHANGED <<tables, mutex, sess, locals, closePosted, ui, overrun>>

\* Mutant: the session is not destroyed.
AbortSessionLeaks(t) ==
  /\ Goto(t, "abort", "eraseAbort")
  /\ UNCHANGED <<tables, mutex, sess, locals, closePosted, ui, overrun>>

\* The network has no window: irc_destroy_session(session), without the mutex.
AbortSession(t) ==
  /\ Goto(t, "abort", "eraseAbort")
  /\ Free(session[t], "aborted")
  /\ UNCHANGED <<tables, mutex, conn, ending, locals, closePosted, ui, overrun>>

\* Mutant: without a window the thread tries again instead of ending.
EraseAbortedRetries(t) ==
  /\ Goto(t, "eraseAbort", "wait")
  /\ irc_windows' = WindowsWithout(session[t])
  /\ UNCHANGED <<server_threads, mutex, sess, locals, closePosted, ui, overrun>>

EraseAborted(t) ==
  /\ Goto(t, "eraseAbort", "quit")
  /\ irc_windows' = WindowsWithout(session[t])
  /\ UNCHANGED <<server_threads, mutex, sess, locals, closePosted, ui, overrun>>

\* quit: session=thread->session=0
Quit(t) ==
  /\ Goto(t, "quit", "end")
  /\ session' = [session EXCEPT ![t] = Null]
  /\ server_threads' = [server_threads EXCEPT ![thread[t]].session = Null]
  /\ UNCHANGED <<irc_windows, mutex, sess, thread, win, closePosted, ui, overrun>>

\* win=find_window_by_network(thread->network), after the loop
FindLastWindow(t) ==
  \E w \in 0 .. NWindows :
    /\ FoundWindow(server_threads[thread[t]].network, w)
    /\ Goto(t, "end", "eraseThread")
    /\ win' = [win EXCEPT ![t] = w]
    /\ UNCHANGED <<tables, mutex, sess, thread, session, closePosted, ui, overrun>>

\* erase_server_thread(thread)
EraseServerThread(t) ==
  /\ Goto(t, "eraseThread", "post")
  /\ server_threads' = [server_threads EXCEPT ![thread[t]] = NoThread]
  /\ UNCHANGED <<irc_windows, mutex, sess, locals, closePosted, ui, overrun>>

\* Mutant: the handle is not looked at.
PostCloseBlindly(t) ==
  /\ Goto(t, "post", "none")
  /\ closePosted' = IF win[t] # Null
                    THEN closePosted \cup {irc_windows[win[t]].hwnd}
                    ELSE closePosted
  /\ UNCHANGED <<tables, mutex, sess, locals, ui, overrun>>

\* if(win!=0 && win->hwnd!=0) PostMessage(win->hwnd,WM_CLOSE,0,0)
PostClose(t) ==
  /\ Goto(t, "post", "none")
  /\ closePosted' = IF win[t] # Null /\ irc_windows[win[t]].hwnd # Null
                    THEN closePosted \cup {irc_windows[win[t]].hwnd}
                    ELSE closePosted
  /\ UNCHANGED <<tables, mutex, sess, locals, ui, overrun>>

-----------------------------------------------------------------------------
(***************************************************************************)
(* The message loop of the UI thread.  A handler of several steps holds    *)
(* the mutex from its first step to its last.                              *)
(***************************************************************************)
UiFree == uiPc = "idle" /\ mutex = Nobody

UiReturns == /\ uiPc' = "idle"
             /\ uiWin' = Null
             /\ uiThread' = Null
             /\ uiDeref' = {}
             /\ mutex' = Nobody

\* connect_server, when the network has no window: acquire_network_thread.
OpenServer(n) ==
  /\ UiFree
  /\ ServerSlots(n) = {}
  /\ \E e \in Entries :
       /\ First(EntryChoices(n), e)
       /\ \/ server_threads[e].thread_started
          \/ \E t \in Threads : pc[t] = "none"
       /\ server_threads' = [server_threads EXCEPT ![e].network = n]
       /\ uiThread' = e
  /\ mutex' = UI
  /\ uiPc' = "open"
  /\ \E k \in Slots \cup {Null} :
       /\ \/ First(WindowChoices(n, "server"), k)
          \/ WindowChoices(n, "server") = {} /\ k = Null
       /\ uiWin' = k
       /\ irc_windows' = IF k = Null THEN irc_windows
                         ELSE [irc_windows EXCEPT ![k].network = n,
                                                  ![k].type = "server"]
  /\ UNCHANGED <<sess, pc, locals, closePosted, uiDeref, overrun>>

\* The table of windows is full: erase_server_thread(thread), started or not.
OpenFails ==
  /\ uiPc = "open" /\ uiWin = Null
  /\ server_threads' = [server_threads EXCEPT ![uiThread] = NoThread]
  /\ overrun' = (overrun \/ server_threads[uiThread].thread_started)
  /\ UiReturns
  /\ UNCHANGED <<irc_windows, sess, pc, locals, closePosted>>

\* create_window_type: the window has a handle from here on.
CreateWindow ==
  /\ uiPc = "open" /\ uiWin # Null
  /\ \E h \in 1 .. MaxHwnd :
       /\ NewHwnd(h)
       /\ irc_windows' = [irc_windows EXCEPT ![uiWin].hwnd = h]
  /\ uiPc' = "create"
  /\ UNCHANGED <<server_threads, mutex, sess, pc, locals, closePosted, uiWin,
                 uiThread, uiDeref, overrun>>

\* It returned null: connect_server fails and the slot keeps the network's name.
CreateFails ==
  /\ uiPc = "open" /\ uiWin # Null
  /\ UiReturns
  /\ UNCHANGED <<tables, sess, pc, locals, closePosted, overrun>>

\* Mutant: a thread is started whether the entry has one or not.
StartThreadAlways ==
  /\ uiPc = "create"
  /\ \E t \in Threads :
       /\ Goto(t, "none", "create")
       /\ thread' = [thread EXCEPT ![t] = uiThread]
       /\ win' = [win EXCEPT ![t] = Null]
  /\ server_threads' =
       [server_threads EXCEPT ![uiThread].thread_started = TRUE]
  /\ UiReturns
  /\ UNCHANGED <<irc_windows, sess, session, closePosted, overrun>>

\* if(!thread->thread_started){ thread->thread_started=TRUE; _beginthread }
StartThread ==
  /\ uiPc = "create" /\ ~server_threads[uiThread].thread_started
  /\ \E t \in Threads :
       /\ Goto(t, "none", "create")
       /\ thread' = [thread EXCEPT ![t] = uiThread]
       /\ win' = [win EXCEPT ![t] = Null]
  /\ server_threads' =
       [server_threads EXCEPT ![uiThread].thread_started = TRUE]
  /\ UiReturns
  /\ UNCHANGED <<irc_windows, sess, session, closePosted, overrun>>

\* else if(!thread->disconnected) win->session=thread->session
AttachWindow ==
  /\ uiPc = "create" /\ server_threads[uiThread].thread_started
  /\ LET s == server_threads[uiThread].session
     IN  IF server_threads[uiThread].disconnected
         THEN UiReturns /\ UNCHANGED irc_windows
         ELSE /\ irc_windows' = [irc_windows EXCEPT ![uiWin].session = s]
              /\ uiPc' = "attach"
              /\ uiDeref' = {s} \ {Null}
              /\ UNCHANGED <<mutex, uiWin, uiThread>>
  /\ UNCHANGED <<server_threads, sess, pc, locals, closePosted, overrun>>

\* update_chat_sessions(win->session) joins the channels of the network again.
UpdateChats ==
  /\ uiPc = "attach"
  /\ UiReturns
  /\ UNCHANGED <<tables, sess, pc, locals, closePosted, overrun>>

\* WM_CLOSE of a server window: the handler looks at win->session first.
CloseServer(k) ==
  /\ UiFree
  /\ irc_windows[k].type = "server" /\ irc_windows[k].hwnd # Null
  /\ mutex' = UI
  /\ uiWin' = k
  /\ uiPc' = IF irc_windows[k].session # Null THEN "close" ELSE "closed"
  /\ uiDeref' = {irc_windows[k].session} \ {Null}
  /\ UNCHANGED <<tables, sess, pc, locals, uiThread, overrun>>

\* WM_CLOSE of a channel window: part_channel sends PART on its session.
CloseChannel(k) ==
  /\ UiFree
  /\ irc_windows[k].type = "channel" /\ irc_windows[k].hwnd # Null
  /\ mutex' = UI
  /\ uiWin' = k
  /\ uiPc' = IF irc_windows[k].session # Null THEN "part" ELSE "closed"
  /\ uiDeref' = {irc_windows[k].session} \ {Null}
  /\ UNCHANGED <<tables, sess, pc, locals, uiThread, overrun>>

\* The user closes the window, or the WM_CLOSE a thread has posted arrives.
UserCloses(k) ==
  /\ CloseServer(k) \/ CloseChannel(k)
  /\ UNCHANGED closePosted

DeliverClose(h) ==
  /\ closePosted' = closePosted \ {h}
  /\ \E k \in Slots : /\ irc_windows[k].hwnd = h
                      /\ CloseServer(k) \/ CloseChannel(k)

\* "Are you sure you want to disconnect": the message box answers cancel.
CancelClose ==
  /\ uiPc = "close"
  /\ \A s \in uiDeref : IsConnected(s)
  /\ UiReturns
  /\ UNCHANGED <<tables, sess, pc, locals, closePosted, overrun>>

\* disconnect_server(win): win->disconnect=TRUE, and QUIT if it can be queued.
\* irc_send_raw refuses it unless the session is connected and has room.
Disconnect ==
  /\ uiPc = "close"
  /\ uiPc' = "closed"
  /\ irc_windows' = [irc_windows EXCEPT ![uiWin].disconnect = TRUE]
  /\ \/ ending' = ending \cup {s \in uiDeref : conn[s] = "connected"}
     \/ ending' = ending
  /\ uiDeref' = {}
  /\ UNCHANGED <<server_threads, mutex, memory, conn, sock, pc, locals, closePosted,
                 uiWin, uiThread, overrun>>

\* erase_irc_window(win->hwnd): the slot is zeroed and the window destroyed,
\* with the messages still posted to it.
EraseWindow ==
  /\ uiPc = "closed"
  /\ irc_windows' = [irc_windows EXCEPT ![uiWin] = NoWindow]
  /\ closePosted' = closePosted \ {irc_windows[uiWin].hwnd}
  /\ UiReturns
  /\ UNCHANGED <<server_threads, sess, pc, locals, overrun>>

PartChannel ==
  /\ uiPc = "part"
  /\ uiPc' = "closed"
  /\ uiDeref' = {}
  /\ UNCHANGED <<tables, mutex, sess, pc, locals, closePosted, uiWin, uiThread,
                 overrun>>

\* post_message, a list or a menu command: something is sent on win->session.
\* For /discon, find_window_by_network gives a second window and session.
Command(k) ==
  /\ UiFree
  /\ irc_windows[k].hwnd # Null /\ irc_windows[k].session # Null
  /\ mutex' = UI
  /\ uiWin' = k
  /\ uiPc' = "command"
  /\ uiDeref' = {irc_windows[j].session :
                   j \in {k} \cup ServerSlots(irc_windows[k].network)} \ {Null}
  /\ UNCHANGED <<tables, sess, pc, locals, closePosted, uiThread, overrun>>

\* A command that only queues text on the session, or finds it not connected.
CommandSends ==
  /\ uiPc = "command"
  /\ UiReturns
  /\ UNCHANGED <<tables, sess, pc, locals, closePosted, overrun>>

\* irc_disconnect of the sessions in S: the state is set back to INIT, and a
\* socket is closed.  It is lost on a session that has no socket yet: the thread
\* goes on in irc_connect, which creates one and sets the state again.
Drop(S) ==
  /\ conn' = [s \in Sessions |-> IF s \in S THEN "init" ELSE conn[s]]
  /\ sock' = sock \ S
  /\ ending' = ending \cup (S \cap sock)

\* Mutant: the handler returns without leaving the critical section.
CommandReconKeepsMutex ==
  /\ uiPc = "command" /\ IsConnected(irc_windows[uiWin].session)
  /\ Drop({irc_windows[uiWin].session})
  /\ uiPc' = "idle" /\ uiWin' = Null /\ uiThread' = Null /\ uiDeref' = {}
  /\ UNCHANGED <<tables, mutex, memory, pc, locals, closePosted, overrun>>

\* /recon: irc_disconnect(win->session)
CommandRecon ==
  /\ uiPc = "command" /\ IsConnected(irc_windows[uiWin].session)
  /\ Drop({irc_windows[uiWin].session})
  /\ UiReturns
  /\ UNCHANGED <<tables, memory, pc, locals, closePosted, overrun>>

\* /discon: ser->disconnect=TRUE; irc_disconnect(ser->session)
CommandDiscon ==
  /\ uiPc = "command" /\ IsConnected(irc_windows[uiWin].session)
  /\ \E w \in Slots :
       /\ FoundWindow(irc_windows[uiWin].network, w)
       /\ irc_windows' = [irc_windows EXCEPT ![w].disconnect = TRUE]
       /\ Drop({irc_windows[w].session} \ {Null})
  /\ UiReturns
  /\ UNCHANGED <<server_threads, memory, pc, locals, closePosted, overrun>>

\* Disconnect from the menu with no server window open: disconnect_all_threads.
DisconnectAll ==
  /\ UiFree
  /\ \A k \in Slots : irc_windows[k].type = "server" => irc_windows[k].hwnd = Null
  /\ uiDeref' = {server_threads[e].session :
                   e \in {d \in Entries : ~server_threads[d].disconnected}} \ {Null}
  /\ uiDeref' # {}
  /\ mutex' = UI
  /\ uiPc' = "drop"
  /\ UNCHANGED <<tables, sess, pc, locals, closePosted, uiWin, uiThread, overrun>>

DropAll ==
  /\ uiPc = "drop"
  /\ Drop(uiDeref)
  /\ UiReturns
  /\ UNCHANGED <<tables, memory, pc, locals, closePosted, overrun>>

-----------------------------------------------------------------------------
ServerThread(t) ==
  \/ CreateSession(t) \/ FindWindow(t) \/ BindSession(t) \/ ClearDisconnected(t)
  \/ CreateSocket(t) \/ Connect(t) \/ EnterMutex(t) \/ DestroySession(t)
  \/ EraseSessions(t) \/ CheckWindow(t) \/ WaitRetry(t) \/ AbortSession(t)
  \/ EraseAborted(t) \/ Quit(t) \/ FindLastWindow(t) \/ EraseServerThread(t)
  \/ PostClose(t)

Server(t) == Established(t) \/ JoinEvent(t) \/ RunReturns(t)

UiHandler == \/ OpenFails \/ CreateWindow \/ CreateFails \/ StartThread
             \/ AttachWindow \/ UpdateChats \/ CancelClose \/ Disconnect \/ EraseWindow
             \/ PartChannel \/ CommandSends \/ CommandRecon \/ CommandDiscon
             \/ DropAll

UiMessage == \/ \E n \in Net : OpenServer(n)
             \/ \E k \in Slots : UserCloses(k) \/ Command(k)
             \/ \E h \in closePosted : DeliverClose(h)
             \/ DisconnectAll

Next == \/ \E t \in Threads : ServerThread(t) \/ Server(t)
        \/ UiHandler
        \/ UiMessage

(***************************************************************************)
(* Fairness.  A thread that can run does, and the message loop finishes    *)
(* the handler it is in and takes the messages posted to it.  The critical *)
(* section is freed again and again, and whoever waits for it gets it at   *)
(* some time: strong fairness.  irc_run need only return once its session  *)
(* is in ending: the server answers QUIT by closing, and a closed socket   *)
(* fails the next select.  A disconnect that came before the socket puts   *)
(* no session into ending and obliges irc_run to nothing.                  *)
(***************************************************************************)
Fairness ==
  /\ \A t \in Threads : WF_vars(ServerThread(t)) /\ SF_vars(EnterMutex(t))
  /\ \A t \in Threads : WF_vars(RunReturns(t) /\ session[t] \in ending)
  /\ WF_vars(UiHandler)
  /\ SF_vars(\E h \in closePosted : DeliverClose(h))

Spec     == Init /\ [][Next]_vars
FairSpec == Spec /\ Fairness

-----------------------------------------------------------------------------
(***************************************************************************)
(* Properties.                                                             *)
(***************************************************************************)

\* No session leaks and none is shared: a live session is in the hands of
\* exactly one thread that has yet to destroy it, on every path of the loop
\* of server_thread.
LiveSessionHasOneOwner ==
  \A s \in Sessions :
    heap[s] = "live" =>
      \E t \in Threads : /\ pc[t] \in Owning /\ session[t] = s
                         /\ \A u \in Threads \ {t} :
                              ~(pc[u] \in Owning /\ session[u] = s)

\* The critical section of server_thread does its work: a session destroyed
\* inside it is in no window once the mutex is free.  (Not so a session
\* destroyed on the path without the mutex, or when connect_server erased the
\* entry of a running thread.)
NoDanglingWindow ==
  ~overrun => \A k \in Slots : LET s == irc_windows[k].session IN
                s # Null /\ heap[s] = "freed" =>
                  \E t \in Threads : mutex = t /\ session[t] = s

\* What the mutex is for: no message handler dereferences a session that was
\* destroyed inside the critical section, neither through a window nor through
\* server_threads.
UiDerefSafe ==
  ~overrun => \A s \in uiDeref : heap[s] \in {"live", "aborted"}

\* thread_started keeps connect_server from running two threads on one entry.
OneThreadPerEntry ==
  ~overrun => \A t, u \in Threads :
                /\ pc[t] \in Running /\ pc[u] \in Running
                /\ thread[t] = thread[u]
                => t = u

\* No session is destroyed twice, by its thread or by two, on any path of the
\* loop: each is freed at most once between two allocations.
FreedOnce == \A s \in Sessions : frees[s] <= 1

\* A session whose socket irc_disconnect has closed, or on which QUIT was queued,
\* is destroyed: its thread comes out of irc_connect or irc_run and gets the
\* mutex, whatever the user does meanwhile.  (Not so when the disconnect came
\* while irc_connect resolved the server's name.)
EndingSessionDestroyed ==
  \A s \in Sessions : s \in ending ~> heap[s] # "live"

\* When the user leaves every server window closed, reconnecting stops: each
\* thread ends, or sits in a connection that no QUIT and no disconnect reached:
\* a window closed while its thread connects sends no QUIT, and a disconnect from
\* the menu is lost on a thread that still resolves the server's name.
NoServerWindow == \A k \in Slots : irc_windows[k].type # "server"

ClosedNetworksSettle ==
  <>[]NoServerWindow =>
    <>[](\A t \in Threads : \/ pc[t] = "none"
                            \/ pc[t] = "run" /\ session[t] \notin ending)
=============================================================================
