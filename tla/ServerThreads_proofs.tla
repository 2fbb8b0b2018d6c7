------------------------ MODULE ServerThreads_proofs ------------------------
(***************************************************************************)
(* Safety of ServerThreads for every number of networks, threads, windows  *)
(* and sessions.  The inductive invariant is built in four layers, each    *)
(* proved from the ones before it:                                         *)
(*                                                                         *)
(*   TypeInv    types, and which local pointers of the UI are in use;      *)
(*   LockInv    who holds the mutex at which program point;                *)
(*   OwnerInv   which thread owns which session;                           *)
(*   CountInv   how often each session was freed (beside the others);      *)
(*   EntryInv   what the entry of a running thread says of its session;    *)
(*   PointerInv where pointers to a destroyed session can still be.        *)
(***************************************************************************)
EXTENDS ServerThreads, TLAPS

UiInv ==
  /\ uiPc \in {"open", "create"} => uiThread \in Entries
  /\ uiPc \in {"create", "attach", "close", "closed", "part", "command"}
       => uiWin \in Slots
  /\ uiPc \in {"idle", "open", "create", "closed"} => uiDeref = {}

TypeInv == TypeOK /\ UiInv

\* The UI holds the mutex exactly inside a handler, a connection thread exactly
\* between EnterCriticalSection and LeaveCriticalSection.
LockInv ==
  /\ mutex = UI <=> uiPc # "idle"
  /\ \A t \in Threads : mutex = t <=> pc[t] \in {"free", "erase"}

Owns(t) == pc[t] \in Owning

OwnerInv ==
  /\ \A t \in Threads : Owns(t) => /\ session[t] \in Sessions
                                   /\ heap[session[t]] = "live"
  /\ \A t \in Threads : pc[t] = "erase" => /\ session[t] \in Sessions
                                           /\ heap[session[t]] = "freed"
  /\ \A t, u \in Threads : Owns(t) /\ Owns(u) /\ session[t] = session[u] => t = u
  /\ \A s \in Sessions :
       heap[s] = "live" => \E t \in Threads : Owns(t) /\ session[t] = s

\* A session was freed once since its allocation if it is not in memory.
CountInv ==
  \A s \in Sessions :
    frees[s] = IF heap[s] \in {"freed", "aborted"} THEN 1 ELSE 0

\* Until the loop turns, the entry of a thread holds the thread's session, and
\* no other entry does.
Bound == {"find", "bind", "clear", "connect", "socket", "run", "lock", "free",
          "erase"}

EntryInv ==
  ~overrun =>
    /\ \A t \in Threads :
         pc[t] \in Running => server_threads[thread[t]].thread_started
    /\ OneThreadPerEntry
    /\ \A t \in Threads :
         pc[t] \in Bound => server_threads[thread[t]].session = session[t]
    /\ \A t \in Threads, e \in Entries :
         Owns(t) /\ server_threads[e].session = session[t] => thread[t] = e

\* A pointer to s may be followed by the handler of a message.
Safe(s) == s = Null \/ heap[s] \in {"live", "aborted"}

\* Thread t is inside the critical section and has destroyed s there.
Erasing(t, s) == pc[t] = "erase" /\ session[t] = s

PointerInv ==
  ~overrun =>
    /\ \A k \in Slots : LET s == irc_windows[k].session IN
         Safe(s) \/ \E t \in Threads : Erasing(t, s)
    /\ \A e \in Entries : LET s == server_threads[e].session IN
         ~server_threads[e].disconnected =>
           Safe(s) \/ \E t \in Threads : Erasing(t, s) /\ thread[t] = e
    /\ \A s \in uiDeref : Safe(s)

IInv == TypeInv /\ LockInv /\ OwnerInv /\ EntryInv /\ PointerInv

-----------------------------------------------------------------------------
(***************************************************************************)
(* Facts about the constants and the fields of the tables.                 *)
(***************************************************************************)

\* Null and the empty records belong to the types of the tables.
LEMMA NullTypes ==
  /\ Null \in 0 .. NWindows /\ Null \in 0 .. NThreads
  /\ Null \in 0 .. MaxSessions /\ Null \in 0 .. MaxHwnd
  /\ NoWindow \in WindowType /\ NoThread \in ThreadType
  BY SizeAssumption DEF Null, NoWindow, WindowType, NoThread, ThreadType

\* A pointer is null or points into its table.
LEMMA Ranges ==
  /\ 0 .. NWindows = Slots \cup {Null}
  /\ 0 .. NThreads = Entries \cup {Null}
  /\ 0 .. MaxSessions = Sessions \cup {Null}
  /\ 0 .. MaxHwnd = (1 .. MaxHwnd) \cup {Null}
  /\ Null \notin Slots /\ Null \notin Entries /\ Null \notin Sessions
  /\ 1 \in Entries
  BY SizeAssumption DEF Null, Slots, Entries, Sessions

\* What the fields of the two tables can hold.
LEMMA Fields ==
  ASSUME TypeOK
  PROVE  /\ \A k \in Slots : /\ irc_windows[k].session \in Sessions \cup {Null}
                             /\ irc_windows[k].hwnd \in 0 .. MaxHwnd
                             /\ irc_windows[k].network \in Net \cup {NoNet}
         /\ \A e \in Entries :
              /\ server_threads[e].session \in Sessions \cup {Null}
              /\ server_threads[e].thread_started \in BOOLEAN
              /\ server_threads[e].disconnected \in BOOLEAN
  BY Ranges DEF TypeOK, WindowType, ThreadType

-----------------------------------------------------------------------------
(***************************************************************************)
(* Types.                                                                  *)
(***************************************************************************)

\* The program starts with empty tables and no thread.
LEMMA TypeInit == Init => TypeInv
  <1> SUFFICES ASSUME Init PROVE TypeInv
    OBVIOUS
  <1>1. UiInv
    BY Ranges DEF Init, UiInv
  <1>2. /\ irc_windows \in [Slots -> WindowType]
        /\ server_threads \in [Entries -> ThreadType]
    BY NullTypes DEF Init
  <1> QED
    BY <1>1, <1>2, NullTypes, Ranges
       DEF Init, TypeInv, TypeOK, PCs, UiPCs, HeapState, ConnState

\* Destroying an object preserves the types of the heap.
LEMMA FreeTypes ==
  ASSUME heap \in [Sessions -> HeapState], frees \in [Sessions -> Nat],
         sock \in SUBSET Sessions,
         NEW s, NEW how \in HeapState, Free(s, how)
  PROVE  /\ heap' \in [Sessions -> HeapState]
         /\ frees' \in [Sessions -> Nat]
         /\ sock' \in SUBSET Sessions
  <1>1. heap' \in [Sessions -> HeapState]
    BY DEF Free
  <1>2. frees' \in [Sessions -> Nat]
    <2>1. frees' = [x \in Sessions |-> IF x = s THEN frees[x] + 1 ELSE frees[x]]
      BY DEF Free
    <2>2. \A n \in Nat : n + 1 \in Nat
      OBVIOUS
    <2> QED
      BY <2>1, <2>2
  <1>3. sock' \in SUBSET Sessions
    BY DEF Free
  <1> QED
    BY <1>1, <1>2, <1>3

\* A step of server_thread, or of the server it talks to, preserves the types.
LEMMA TypeThread ==
  ASSUME TypeInv, OwnerInv, NEW t \in Threads, ServerThread(t) \/ Server(t)
  PROVE  TypeInv'
  <1> USE NullTypes DEF TypeInv, TypeOK, UiInv, tables, sess, memory, locals, ui
  <1>1. CASE CreateSession(t)
    <2>1. session'[t] \in 0 .. MaxSessions /\ session' \in [Threads -> 0 .. MaxSessions]
      BY <1>1, Ranges DEF CreateSession
    <2>2. server_threads' =
            [server_threads EXCEPT ![thread[t]].session = session'[t]]
      BY <1>1 DEF CreateSession
    <2>3. server_threads' \in [Entries -> ThreadType]
      BY <2>1, <2>2 DEF ThreadType
    <2>4. /\ heap' \in [Sessions -> HeapState] /\ conn' \in [Sessions -> ConnState]
          /\ frees' \in [Sessions -> Nat] /\ sock' \in SUBSET Sessions
      BY <1>1 DEF CreateSession, HeapState, ConnState
    <2>5. ending' \in SUBSET Sessions /\ pc' \in [Threads -> PCs]
      BY <1>1 DEF CreateSession, Goto, PCs, Running, Owning
    <2> QED
      BY <1>1, <2>1, <2>3, <2>4, <2>5 DEF CreateSession
  <1>2. CASE FindWindow(t)
    BY <1>2 DEF FindWindow, Goto, PCs, Running, Owning
  <1>3. CASE BindSession(t)
    <2>1. irc_windows' \in [Slots -> WindowType]
      BY <1>3 DEF BindSession, WindowType
    <2> QED
      BY <1>3, <2>1 DEF BindSession, Goto, PCs, Running, Owning
  <1>4. CASE ClearDisconnected(t)
    BY <1>4 DEF ClearDisconnected, ThreadType, Goto, PCs, Running, Owning
  <1>5. CASE Connect(t)
    BY <1>5 DEF Connect, ConnState, Goto, PCs, Running, Owning
  <1>20. CASE CreateSocket(t)
    <2>1. CreateSocket(t) => pc[t] = "connect"
      BY DEF CreateSocket, Goto
    <2>2. session[t] \in Sessions
      BY <1>20, <2>1 DEF OwnerInv, Owns, Owning
    <2>3. sock' \in SUBSET Sessions
      BY <1>20, <2>2 DEF CreateSocket
    <2> QED
      BY <1>20, <2>3 DEF CreateSocket, Goto, PCs, Running, Owning
  <1>6. CASE EnterMutex(t)
    BY <1>6 DEF EnterMutex, Goto, PCs, Running, Owning
  <1>7. CASE DestroySession(t)
    <2>1. PICK w \in 0 .. NWindows : DestroySession(t)!(w)
      BY <1>7 DEF DestroySession
    <2>2. irc_windows' \in [Slots -> WindowType]
      BY <2>1, Ranges DEF WindowType
    <2>3. /\ heap' \in [Sessions -> HeapState] /\ sock' \in SUBSET Sessions
          /\ frees' \in [Sessions -> Nat]
      BY <2>1, FreeTypes DEF HeapState
    <2> QED
      BY <2>1, <2>2, <2>3 DEF Goto, PCs, Running, Owning
  <1>8. CASE EraseSessions(t)
    <2>1. irc_windows' \in [Slots -> WindowType]
      BY <1>8 DEF EraseSessions, WindowsWithout, WindowType
    <2>2. server_threads' \in [Entries -> ThreadType]
      BY <1>8 DEF EraseSessions, ThreadType
    <2> QED
      BY <1>8, <2>1, <2>2 DEF EraseSessions, Goto, PCs, Running, Owning
  <1>9. CASE CheckWindow(t)
    BY <1>9 DEF CheckWindow, Goto, PCs, Running, Owning
  <1>10. CASE WaitRetry(t)
    BY <1>10 DEF WaitRetry, Goto, PCs, Running, Owning
  <1>11. CASE AbortSession(t)
    <2>1. /\ heap' \in [Sessions -> HeapState] /\ sock' \in SUBSET Sessions
          /\ frees' \in [Sessions -> Nat]
      BY <1>11, FreeTypes DEF AbortSession, HeapState
    <2> QED
      BY <1>11, <2>1 DEF AbortSession, Goto, PCs, Running, Owning
  <1>12. CASE EraseAborted(t)
    <2>1. irc_windows' \in [Slots -> WindowType]
      BY <1>12 DEF EraseAborted, WindowsWithout, WindowType
    <2> QED
      BY <1>12, <2>1 DEF EraseAborted, Goto, PCs, Running, Owning
  <1>13. CASE Quit(t)
    <2>1. server_threads' \in [Entries -> ThreadType]
      BY <1>13 DEF Quit, ThreadType
    <2> QED
      BY <1>13, <2>1 DEF Quit, Goto, PCs, Running, Owning
  <1>14. CASE FindLastWindow(t)
    BY <1>14 DEF FindLastWindow, Goto, PCs, Running, Owning
  <1>15. CASE EraseServerThread(t)
    BY <1>15 DEF EraseServerThread, Goto, PCs, Running, Owning
  <1>16. CASE PostClose(t)
    <2>1. closePosted' \in SUBSET (1 .. MaxHwnd)
      BY <1>16, Ranges, Fields DEF PostClose
    <2> QED
      BY <1>16, <2>1 DEF PostClose, Goto, PCs, Running, Owning
  <1>17. CASE Established(t)
    BY <1>17 DEF Established, ConnState
  <1>18. CASE JoinEvent(t)
    <2>1. PICK w \in Slots, k \in Slots, h \in 0 .. MaxHwnd :
            irc_windows' =
              [irc_windows EXCEPT
                 ![k] = [@ EXCEPT !.network = irc_windows[w].network,
                                  !.type = "channel",
                                  !.session = session[t], !.hwnd = h]]
      BY <1>18 DEF JoinEvent
    <2>2. irc_windows[w].network \in Net \cup {NoNet}
      BY Fields
    <2>3. [irc_windows[k] EXCEPT !.network = irc_windows[w].network,
                                 !.type = "channel",
                                 !.session = session[t], !.hwnd = h] \in WindowType
      BY <2>2 DEF WindowType
    <2>4. irc_windows' \in [Slots -> WindowType]
      BY <2>1, <2>3
    <2> QED
      BY <1>18, <2>4 DEF JoinEvent
  <1>19. CASE RunReturns(t)
    <2>1. conn' \in [Sessions -> ConnState]
      BY <1>19 DEF RunReturns, ConnState
    <2> QED
      BY <1>19, <2>1 DEF RunReturns, Goto, PCs, Running, Owning
  <1> QED
    BY <1>1, <1>2, <1>3, <1>4, <1>5, <1>6, <1>7, <1>8, <1>9, <1>10, <1>11,
       <1>12, <1>13, <1>14, <1>15, <1>16, <1>17, <1>18, <1>19, <1>20
       DEF ServerThread, Server

\* The rest of a message handler preserves the types.
LEMMA TypeHandler == ASSUME TypeInv, UiHandler PROVE TypeInv'
  <1> USE NullTypes, Ranges
      DEF TypeInv, TypeOK, UiInv, tables, sess, memory, locals, ui, UiReturns, UiPCs
  <1>1. CASE OpenFails
    BY <1>1 DEF OpenFails
  <1>2. CASE CreateWindow
    <2>1. PICK h \in 1 .. MaxHwnd :
            irc_windows' = [irc_windows EXCEPT ![uiWin].hwnd = h]
      BY <1>2 DEF CreateWindow
    <2>2. irc_windows' \in [Slots -> WindowType]
      BY <2>1, ZenonT(60) DEF WindowType
    <2> QED
      BY <1>2, <2>2 DEF CreateWindow
  <1>3. CASE CreateFails
    BY <1>3 DEF CreateFails
  <1>4. CASE StartThread
    <2>1. server_threads' \in [Entries -> ThreadType]
      BY <1>4, ZenonT(60) DEF StartThread, ThreadType
    <2> QED
      BY <1>4, <2>1 DEF StartThread, Goto, PCs, Running
  <1>5. CASE AttachWindow
    <2>1. server_threads[uiThread].session \in Sessions \cup {Null}
      BY <1>5, Fields DEF AttachWindow
    <2>2. irc_windows' \in [Slots -> WindowType]
      BY <1>5, <2>1, SMTT(60) DEF AttachWindow, WindowType
    <2> QED
      BY <1>5, <2>1, <2>2 DEF AttachWindow
  <1>6. CASE UpdateChats
    BY <1>6 DEF UpdateChats
  <1>7. CASE CancelClose
    BY <1>7 DEF CancelClose
  <1>8. CASE Disconnect
    <2>1. irc_windows' \in [Slots -> WindowType]
      BY <1>8, ZenonT(60) DEF Disconnect, WindowType
    <2> QED
      BY <1>8, <2>1 DEF Disconnect
  <1>9. CASE EraseWindow
    BY <1>9 DEF EraseWindow
  <1>10. CASE PartChannel
    BY <1>10 DEF PartChannel
  <1>11. CASE CommandSends
    BY <1>11 DEF CommandSends
  <1>12. CASE CommandRecon
    <2>1. conn' \in [Sessions -> ConnState]
      BY <1>12 DEF CommandRecon, Drop, ConnState
    <2>2. irc_windows[uiWin].session \in Sessions
      BY <1>12, Fields DEF CommandRecon, IsConnected
    <2> QED
      BY <1>12, <2>1, <2>2 DEF CommandRecon, Drop
  <1>13. CASE CommandDiscon
    <2>1. PICK w \in Slots : CommandDiscon!2!(w)
      BY <1>13 DEF CommandDiscon
    <2>2. irc_windows' \in [Slots -> WindowType]
      BY <2>1, ZenonT(60) DEF WindowType
    <2>3. conn' \in [Sessions -> ConnState]
      BY <2>1 DEF Drop, ConnState
    <2>4. ending' \in SUBSET Sessions /\ sock' \in SUBSET Sessions
      BY <2>1, Fields DEF Drop
    <2>5. UNCHANGED <<server_threads, memory, pc, locals, closePosted, overrun>>
      BY <1>13 DEF CommandDiscon
    <2>6. UiReturns
      BY <1>13 DEF CommandDiscon
    <2> QED
      BY <2>2, <2>3, <2>4, <2>5, <2>6
  <1>14. CASE DropAll
    BY <1>14 DEF DropAll, Drop, ConnState
  <1> QED
    BY <1>1, <1>2, <1>3, <1>4, <1>5, <1>6, <1>7, <1>8, <1>9, <1>10, <1>11,
       <1>12, <1>13, <1>14 DEF UiHandler

\* Taking a message from the queue preserves the types.
LEMMA TypeMessage == ASSUME TypeInv, UiMessage PROVE TypeInv'
  <1> USE NullTypes, Ranges
      DEF TypeInv, TypeOK, UiInv, tables, sess, memory, locals, ui, UiPCs
  <1>1. ASSUME NEW n \in Net, OpenServer(n) PROVE TypeInv'
    <2>1. PICK e \in Entries :
            /\ server_threads' = [server_threads EXCEPT ![e].network = n]
            /\ uiThread' = e
      BY <1>1 DEF OpenServer
    <2>2. PICK k \in Slots \cup {Null} :
            /\ uiWin' = k
            /\ irc_windows' = IF k = Null THEN irc_windows
                              ELSE [irc_windows EXCEPT ![k].network = n,
                                                       ![k].type = "server"]
      BY <1>1 DEF OpenServer
    <2>3. irc_windows' \in [Slots -> WindowType]
      BY <2>2 DEF WindowType
    <2>4. server_threads' \in [Entries -> ThreadType]
      BY <2>1 DEF ThreadType
    <2> QED
      BY <1>1, <2>1, <2>2, <2>3, <2>4 DEF OpenServer, UiFree
  <1>2. ASSUME NEW k \in Slots, CloseServer(k) \/ CloseChannel(k),
               closePosted' \in SUBSET (1 .. MaxHwnd)
        PROVE TypeInv'
    <2>1. uiDeref' \in SUBSET Sessions
      BY <1>2, Fields DEF CloseServer, CloseChannel
    <2> QED
      BY <1>2, <2>1 DEF CloseServer, CloseChannel
  <1>3. ASSUME NEW k \in Slots, UserCloses(k) PROVE TypeInv'
    BY <1>2, <1>3 DEF UserCloses
  <1>4. ASSUME NEW h \in closePosted, DeliverClose(h) PROVE TypeInv'
    BY <1>2, <1>4 DEF DeliverClose
  <1>5. ASSUME NEW k \in Slots, Command(k) PROVE TypeInv'
    <2>1. ServerSlots(irc_windows[k].network) \subseteq Slots
      BY DEF ServerSlots
    <2>2. uiDeref' \in SUBSET Sessions
      BY <1>5, <2>1, Fields DEF Command
    <2> QED
      BY <1>5, <2>2 DEF Command
  <1>6. CASE DisconnectAll
    <2>1. uiDeref' \in SUBSET Sessions
      BY <1>6, Fields DEF DisconnectAll
    <2> QED
      BY <1>6, <2>1 DEF DisconnectAll
  <1> QED
    BY <1>1, <1>3, <1>4, <1>5, <1>6 DEF UiMessage

\* Types are preserved by every step.  OwnerInv is needed since the thread that
\* creates a socket must have a session.
LEMMA TypeStep == TypeInv /\ OwnerInv /\ [Next]_vars => TypeInv'
  <1> SUFFICES ASSUME TypeInv, OwnerInv, [Next]_vars PROVE TypeInv'
    OBVIOUS
  <1>1. CASE UNCHANGED vars
    BY <1>1 DEF TypeInv, TypeOK, UiInv, vars, tables, sess, memory, locals, ui
  <1> QED
    BY <1>1, TypeThread, TypeHandler, TypeMessage DEF Next

-----------------------------------------------------------------------------
(***************************************************************************)
(* The critical section.                                                   *)
(***************************************************************************)

\* Nobody holds the mutex at the start.
LEMMA LockInit == Init => LockInv
  BY ActorAssumption DEF Init, LockInv

\* Entering and leaving the critical section is where program and mutex agree.
LEMMA LockStep == TypeInv /\ LockInv /\ [Next]_vars => LockInv'
  <1> SUFFICES ASSUME TypeInv, LockInv, [Next]_vars PROVE LockInv'
    OBVIOUS
  <1> USE ActorAssumption DEF LockInv
  <1>0. /\ mutex \in Threads \cup {UI, Nobody}
        /\ pc \in [Threads -> PCs]
    BY DEF TypeInv, TypeOK
  <1>1. ASSUME NEW t \in Threads, ServerThread(t) \/ Server(t) PROVE LockInv'
    <2> USE DEF Goto, tables, sess, memory, locals, ui
    <2>1. CASE EnterMutex(t)
      BY <1>0, <2>1 DEF EnterMutex
    <2>2. CASE EraseSessions(t)
      BY <1>0, <2>2 DEF EraseSessions
    <2>3. CASE DestroySession(t)
      BY <1>0, <2>3 DEF DestroySession
    <2>4. CASE Established(t) \/ JoinEvent(t)
      BY <2>4 DEF Established, JoinEvent
    <2>5. CASE \/ CreateSession(t) \/ FindWindow(t) \/ BindSession(t)
               \/ ClearDisconnected(t) \/ CreateSocket(t) \/ Connect(t)
               \/ RunReturns(t)
      <3>1. /\ UNCHANGED <<mutex, uiPc>>
            /\ \A u \in Threads \ {t} : pc'[u] = pc[u]
            /\ pc[t] \notin {"free", "erase"} /\ pc'[t] \notin {"free", "erase"}
        BY <1>0, <2>5 DEF CreateSession, FindWindow, BindSession,
             ClearDisconnected, CreateSocket, Connect, RunReturns
      <3> QED
        BY <3>1
    <2>6. CASE \/ CheckWindow(t) \/ WaitRetry(t) \/ AbortSession(t)
               \/ EraseAborted(t) \/ Quit(t) \/ FindLastWindow(t)
               \/ EraseServerThread(t) \/ PostClose(t)
      <3>1. /\ UNCHANGED <<mutex, uiPc>>
            /\ \A u \in Threads \ {t} : pc'[u] = pc[u]
            /\ pc[t] \notin {"free", "erase"} /\ pc'[t] \notin {"free", "erase"}
        BY <1>0, <2>6 DEF CheckWindow, WaitRetry, AbortSession, EraseAborted,
             Quit, FindLastWindow, EraseServerThread, PostClose
      <3> QED
        BY <3>1
    <2> QED
      BY <1>1, <2>1, <2>2, <2>3, <2>4, <2>5, <2>6 DEF ServerThread, Server
  <1>2. CASE UiHandler
    <2> USE DEF UiReturns, locals
    <2>1. CASE StartThread
      BY <1>0, <2>1 DEF StartThread, Goto
    <2>2. CASE \/ CreateWindow \/ AttachWindow \/ Disconnect \/ PartChannel
      BY <1>0, <2>2 DEF CreateWindow, AttachWindow, Disconnect, PartChannel
    <2>3. CASE \/ OpenFails \/ CreateFails \/ UpdateChats \/ CancelClose
               \/ EraseWindow \/ CommandSends \/ CommandRecon
               \/ CommandDiscon \/ DropAll
      <3>1. pc' = pc /\ uiPc # "idle" /\ uiPc' = "idle" /\ mutex' = Nobody
        BY <2>3 DEF OpenFails, CreateFails, UpdateChats, CancelClose,
             EraseWindow, CommandSends, CommandRecon, CommandDiscon, DropAll
      <3> QED
        BY <1>0, <3>1
    <2> QED
      BY <1>2, <2>1, <2>2, <2>3 DEF UiHandler
  <1>3. CASE UiMessage
    <2>1. pc' = pc /\ uiPc' # "idle" /\ mutex = Nobody /\ mutex' = UI
      BY <1>3 DEF UiMessage, OpenServer, UserCloses, DeliverClose, CloseServer,
           CloseChannel, Command, DisconnectAll, UiFree
    <2> QED
      BY <1>0, <2>1
  <1>4. CASE UNCHANGED vars
    BY <1>4 DEF vars, ui
  <1> QED
    BY <1>1, <1>2, <1>3, <1>4 DEF Next

-----------------------------------------------------------------------------
(***************************************************************************)
(* Ownership of the sessions.                                              *)
(***************************************************************************)

\* Nothing is allocated at the start.
LEMMA OwnerInit == Init => OwnerInv
  BY DEF Init, OwnerInv, Owns, Owning

\* A step that moves no session in or out of anybody's hands.
LEMMA OwnerFrame ==
  ASSUME OwnerInv, heap' = heap,
         \A u \in Threads : /\ Owns(u)' <=> Owns(u)
                            /\ Owns(u) => session'[u] = session[u]
                            /\ pc'[u] = "erase" => /\ pc[u] = "erase"
                                                   /\ session'[u] = session[u]
  PROVE  OwnerInv'
  BY DEF OwnerInv

\* Sessions are created by a thread that has none, and destroyed by the thread
\* that has them.
LEMMA OwnerThread ==
  ASSUME TypeInv, OwnerInv, NEW t \in Threads, ServerThread(t) \/ Server(t)
  PROVE  OwnerInv'
  <1> USE DEF Goto, tables, sess, memory, locals, ui
  <1>0. /\ pc \in [Threads -> PCs]
        /\ session \in [Threads -> 0 .. MaxSessions]
        /\ heap \in [Sessions -> HeapState]
    BY DEF TypeInv, TypeOK
  <1>1. CASE CreateSession(t)
    <2>1. CASE session'[t] # Null
      <3>1. PICK s \in Sessions :
              /\ First(FreshSessions, s)
              /\ pc[t] = "create" /\ pc' = [pc EXCEPT ![t] = "find"]
              /\ heap' = [heap EXCEPT ![s] = "live"]
              /\ session' = [session EXCEPT ![t] = s]
        BY <1>0, <1>1, <2>1 DEF CreateSession
      <3>2. heap[s] # "live" /\ \A u \in Threads : session[u] # s
        BY <3>1 DEF First, FreshSessions, Pointers
      <3>3. /\ Owns(t)' /\ ~Owns(t) /\ session'[t] = s /\ pc'[t] # "erase"
            /\ \A u \in Threads \ {t} :
                 /\ pc'[u] = pc[u] /\ session'[u] = session[u] /\ Owns(u)' <=> Owns(u)
        BY <1>0, <3>1 DEF Owns, Owning
      <3> QED
        BY <1>0, <3>1, <3>2, <3>3 DEF OwnerInv
    <2>2. CASE session'[t] = Null
      <3>1. /\ pc[t] = "create" /\ pc' = [pc EXCEPT ![t] = "end"]
            /\ heap' = heap /\ session' = [session EXCEPT ![t] = Null]
        BY <1>0, <1>1, <2>2, Ranges DEF CreateSession
      <3> QED
        BY <1>0, <3>1, OwnerFrame DEF Owns, Owning
    <2> QED
      BY <2>1, <2>2
  <1>2. CASE DestroySession(t)
    <2>1. /\ pc[t] = "free" /\ pc' = [pc EXCEPT ![t] = "erase"]
          /\ session' = session
          /\ heap' = [heap EXCEPT ![session[t]] = "freed"]
      BY <1>2 DEF DestroySession, Free
    <2>2. /\ Owns(t) /\ ~Owns(t)'
          /\ \A u \in Threads \ {t} : pc'[u] = pc[u] /\ Owns(u)' <=> Owns(u)
      BY <1>0, <2>1 DEF Owns, Owning
    <2>3. session[t] \in Sessions
      BY <2>2 DEF OwnerInv
    <2> QED
      BY <1>0, <2>1, <2>2, <2>3 DEF OwnerInv
  <1>3. CASE AbortSession(t)
    <2>1. /\ pc[t] = "abort" /\ pc' = [pc EXCEPT ![t] = "eraseAbort"]
          /\ session' = session
          /\ heap' = [heap EXCEPT ![session[t]] = "aborted"]
      BY <1>3 DEF AbortSession, Free
    <2>2. /\ Owns(t) /\ ~Owns(t)'
          /\ pc'[t] # "erase"
          /\ \A u \in Threads \ {t} :
               /\ pc'[u] = pc[u] /\ Owns(u)' <=> Owns(u)
               /\ pc[u] = "erase" => session[u] # session[t]
      BY <1>0, <2>1 DEF Owns, Owning, OwnerInv
    <2>3. session[t] \in Sessions
      BY <2>2 DEF OwnerInv
    <2> QED
      BY <1>0, <2>1, <2>2, <2>3 DEF OwnerInv
  <1>4. CASE Quit(t)
    <2>1. /\ pc[t] = "quit" /\ pc' = [pc EXCEPT ![t] = "end"]
          /\ heap' = heap /\ session' = [session EXCEPT ![t] = Null]
      BY <1>4 DEF Quit
    <2> QED
      BY <1>0, <2>1, OwnerFrame DEF Owns, Owning
  <1>5. CASE \/ FindWindow(t) \/ BindSession(t) \/ ClearDisconnected(t)
             \/ CreateSocket(t) \/ Connect(t) \/ RunReturns(t) \/ EnterMutex(t)
    <2>1. /\ heap' = heap /\ session' = session
          /\ pc[t] \in Owning /\ pc'[t] \in Owning /\ pc'[t] # "erase"
          /\ \A u \in Threads \ {t} : pc'[u] = pc[u]
      BY <1>0, <1>5 DEF FindWindow, BindSession, ClearDisconnected, CreateSocket,
           Connect, RunReturns, EnterMutex, Owning
    <2> QED
      BY <2>1, OwnerFrame DEF Owns
  <1>6. CASE \/ CheckWindow(t) \/ WaitRetry(t) \/ EraseAborted(t)
             \/ FindLastWindow(t) \/ EraseServerThread(t) \/ PostClose(t)
             \/ EraseSessions(t)
    <2>1. /\ heap' = heap /\ session' = session
          /\ pc[t] \notin Owning /\ pc'[t] \notin Owning /\ pc'[t] # "erase"
          /\ \A u \in Threads \ {t} : pc'[u] = pc[u]
      BY <1>0, <1>6 DEF CheckWindow, WaitRetry, EraseAborted, FindLastWindow,
           EraseServerThread, PostClose, EraseSessions, Owning
    <2> QED
      BY <2>1, OwnerFrame DEF Owns
  <1>7. CASE Established(t) \/ JoinEvent(t)
    BY <1>7, OwnerFrame DEF Established, JoinEvent, Owns
  <1> QED
    BY <1>1, <1>2, <1>3, <1>4, <1>5, <1>6, <1>7 DEF ServerThread, Server

\* The UI thread neither creates nor destroys a session; it can start a thread.
LEMMA OwnerUi ==
  ASSUME TypeInv, OwnerInv, UiHandler \/ UiMessage
  PROVE  OwnerInv'
  <1> USE DEF tables, sess, memory, locals, ui
  <1>1. CASE StartThread
    <2>1. PICK t \in Threads : /\ pc[t] = "none" /\ pc' = [pc EXCEPT ![t] = "create"]
                               /\ heap' = heap /\ session' = session
      BY <1>1 DEF StartThread, Goto
    <2>2. pc \in [Threads -> PCs]
      BY DEF TypeInv, TypeOK
    <2> QED
      BY <2>1, <2>2, OwnerFrame DEF Owns, Owning
  <1>2. CASE UiHandler /\ ~StartThread
    <2>1. UNCHANGED <<pc, session, heap>>
      BY <1>2 DEF UiHandler, OpenFails, CreateWindow, CreateFails, AttachWindow,
           UpdateChats, CancelClose, Disconnect, EraseWindow, PartChannel,
           CommandSends, CommandRecon, CommandDiscon, DropAll
    <2> QED
      BY <2>1, OwnerFrame DEF Owns
  <1>3. CASE UiMessage
    <2>1. UNCHANGED <<pc, session, heap>>
      BY <1>3 DEF UiMessage, OpenServer, UserCloses, DeliverClose, CloseServer,
           CloseChannel, Command, DisconnectAll
    <2> QED
      BY <2>1, OwnerFrame DEF Owns
  <1> QED
    BY <1>1, <1>2, <1>3

\* Every step preserves ownership.
LEMMA OwnerStep == TypeInv /\ OwnerInv /\ [Next]_vars => OwnerInv'
  <1> SUFFICES ASSUME TypeInv, OwnerInv, [Next]_vars PROVE OwnerInv'
    OBVIOUS
  <1>1. CASE UNCHANGED vars
    BY <1>1, OwnerFrame DEF vars, sess, memory, locals, Owns
  <1> QED
    BY <1>1, OwnerThread, OwnerUi DEF Next

\* Every variable has its type, for any sizes of the tables: in particular the
\* UI thread never uses a slot or an entry outside them, and a posted WM_CLOSE
\* names a window that existed.
THEOREM TypeCorrect == Spec => []TypeOK
  <1>1. TypeInv => TypeOK
    BY DEF TypeInv
  <1>2. Spec => [](TypeInv /\ OwnerInv)
    BY TypeInit, OwnerInit, TypeStep, OwnerStep, PTL DEF Spec
  <1> QED
    BY <1>1, <1>2, PTL

\* No session leaks, and none is in the hands of two threads, however many
\* networks are opened, closed and reconnected.
THEOREM SessionsOwned == Spec => []LiveSessionHasOneOwner
  <1>1. OwnerInv => LiveSessionHasOneOwner
    BY DEF OwnerInv, LiveSessionHasOneOwner, Owns
  <1>2. Spec => [](TypeInv /\ OwnerInv)
    BY TypeInit, OwnerInit, TypeStep, OwnerStep, PTL DEF Spec
  <1> QED
    BY <1>1, <1>2, PTL

-----------------------------------------------------------------------------
(***************************************************************************)
(* The entries of the connection threads.                                  *)
(***************************************************************************)

\* No thread runs at the start.
LEMMA EntryInit == Init => EntryInv
  BY DEF Init, EntryInv, OneThreadPerEntry, Owns, Owning, Bound, Running

\* A step that changes neither the sessions of the entries nor which threads
\* are running.
LEMMA EntryFrame ==
  ASSUME EntryInv, overrun' = overrun,
         \A e \in Entries :
           /\ server_threads'[e].session = server_threads[e].session
           /\ server_threads'[e].thread_started = server_threads[e].thread_started,
         \A u \in Threads : thread[u] \in Entries,
         \A u \in Threads :
           /\ pc'[u] \in Running => pc[u] \in Running /\ thread'[u] = thread[u]
           /\ pc'[u] \in Bound => pc[u] \in Bound /\ session'[u] = session[u]
           /\ pc'[u] \in Owning => pc[u] \in Owning /\ session'[u] = session[u]
  PROVE  EntryInv'
  <1>1. Bound \subseteq Running /\ Owning \subseteq Running
    BY DEF Bound, Running, Owning
  <1> QED
    BY <1>1 DEF EntryInv, OneThreadPerEntry, Owns

\* A running thread is alone on its entry, so what it writes there disturbs no
\* other thread.
LEMMA EntryThread ==
  ASSUME TypeInv, OwnerInv, EntryInv, NEW t \in Threads,
         ServerThread(t) \/ Server(t)
  PROVE  EntryInv'
  <1> USE DEF Goto, tables, sess, memory, locals, ui
  <1>0. /\ pc \in [Threads -> PCs]
        /\ session \in [Threads -> 0 .. MaxSessions]
        /\ thread \in [Threads -> Entries]
        /\ server_threads \in [Entries -> ThreadType]
        /\ \A u \in Threads : Owns(u) => session[u] \in Sessions
    BY DEF TypeInv, TypeOK, OwnerInv
  <1>a. Bound \subseteq Running /\ Owning \subseteq Running
    BY DEF Bound, Running, Owning
  <1>1. CASE CreateSession(t)
    <2>1. \E s \in 0 .. MaxSessions :
            /\ pc[t] = "create"
            /\ \/ pc' = [pc EXCEPT ![t] = "find"] /\ s \in FreshSessions
               \/ pc' = [pc EXCEPT ![t] = "end"] /\ s = Null
            /\ session' = [session EXCEPT ![t] = s]
            /\ server_threads' = [server_threads EXCEPT ![thread[t]].session = s]
            /\ UNCHANGED <<thread, overrun>>
      BY <1>1, Ranges DEF CreateSession, First
    <2>2. PICK s \in 0 .. MaxSessions :
            /\ pc[t] = "create"
            /\ \/ pc' = [pc EXCEPT ![t] = "find"] /\ s \in FreshSessions
               \/ pc' = [pc EXCEPT ![t] = "end"] /\ s = Null
            /\ session' = [session EXCEPT ![t] = s]
            /\ server_threads' = [server_threads EXCEPT ![thread[t]].session = s]
            /\ UNCHANGED <<thread, overrun>>
      BY <2>1
    <2>3. \A e \in Entries :
            /\ server_threads'[e].thread_started = server_threads[e].thread_started
            /\ server_threads'[e].session =
                 IF e = thread[t] THEN s ELSE server_threads[e].session
      BY <1>0, <2>2 DEF ThreadType
    <2>4. s # Null => /\ \A e \in Entries : server_threads[e].session # s
                      /\ \A u \in Threads : session[u] # s
      BY <2>2 DEF FreshSessions, Pointers
    <2>5. /\ pc[t] \in Running
          /\ Owns(t)' => s \in Sessions
          /\ pc'[t] \in {"find", "end"}
          /\ \A u \in Threads \ {t} : pc'[u] = pc[u] /\ session'[u] = session[u]
      BY <1>0, <2>2, Ranges DEF Owns, Owning, Running, FreshSessions
    <2>6. \A u \in Threads \ {t} :
            ~overrun /\ pc[u] \in Running => thread[u] # thread[t]
      BY <2>5 DEF EntryInv, OneThreadPerEntry
    <2>7. OneThreadPerEntry'
      BY <2>2, <2>5 DEF EntryInv, OneThreadPerEntry
    <2> QED
      BY <1>0, <1>a, <2>2, <2>3, <2>4, <2>5, <2>6, <2>7, Ranges DEF EntryInv, Owns
  <1>2. CASE Quit(t)
    <2>1. /\ pc[t] = "quit" /\ pc' = [pc EXCEPT ![t] = "end"]
          /\ session' = [session EXCEPT ![t] = Null]
          /\ server_threads' = [server_threads EXCEPT ![thread[t]].session = Null]
          /\ UNCHANGED <<thread, overrun>>
      BY <1>2 DEF Quit
    <2>2. \A e \in Entries :
            /\ server_threads'[e].thread_started = server_threads[e].thread_started
            /\ server_threads'[e].session =
                 IF e = thread[t] THEN Null ELSE server_threads[e].session
      BY <1>0, <2>1 DEF ThreadType
    <2>3. /\ pc[t] \in Running /\ pc'[t] = "end"
          /\ \A u \in Threads \ {t} : pc'[u] = pc[u] /\ session'[u] = session[u]
      BY <1>0, <2>1 DEF Running
    <2>4. "end" \notin Bound /\ "end" \notin Owning
      BY DEF Bound, Owning
    <2>5. \A u \in Threads \ {t} :
            ~overrun /\ pc[u] \in Running => thread[u] # thread[t]
      BY <2>3 DEF EntryInv, OneThreadPerEntry
    <2>6. OneThreadPerEntry'
      BY <2>1, <2>3 DEF EntryInv, OneThreadPerEntry
    <2>7. ~overrun => \A u \in Threads :
            pc'[u] \in Running => server_threads'[thread[u]].thread_started
      BY <1>0, <2>2, <2>3 DEF EntryInv
    <2>8. ~overrun => \A u \in Threads :
            pc'[u] \in Bound => server_threads'[thread[u]].session = session'[u]
      BY <1>0, <1>a, <2>2, <2>3, <2>4, <2>5 DEF EntryInv
    <2>9. ~overrun => \A u \in Threads, e \in Entries :
            pc'[u] \in Owning /\ server_threads'[e].session = session'[u]
              => thread[u] = e
      <3> SUFFICES ASSUME ~overrun, NEW u \in Threads, NEW e \in Entries,
                          pc'[u] \in Owning, server_threads'[e].session = session'[u]
                   PROVE  thread[u] = e
        OBVIOUS
      <3>1. u # t /\ Owns(u) /\ session[u] \in Sessions /\ session'[u] = session[u]
        BY <1>0, <2>3, <2>4 DEF Owns
      <3>2. e # thread[t]
        BY <2>2, <3>1, Ranges
      <3> QED
        BY <2>2, <3>1, <3>2 DEF EntryInv
    <2> QED
      BY <2>1, <2>6, <2>7, <2>8, <2>9 DEF EntryInv, Owns
  <1>3. CASE EraseServerThread(t)
    <2>1. /\ pc[t] = "eraseThread" /\ pc' = [pc EXCEPT ![t] = "post"]
          /\ server_threads' = [server_threads EXCEPT ![thread[t]] = NoThread]
          /\ UNCHANGED <<thread, session, overrun>>
      BY <1>3 DEF EraseServerThread
    <2>2. \A e \in Entries :
            /\ e # thread[t] => server_threads'[e] = server_threads[e]
            /\ e = thread[t] => server_threads'[e].session = Null
      BY <1>0, <2>1 DEF NoThread
    <2>3. /\ pc[t] \in Running /\ pc'[t] = "post"
          /\ \A u \in Threads \ {t} : pc'[u] = pc[u]
      BY <1>0, <2>1 DEF Running
    <2>4. "post" \notin Bound /\ "post" \notin Owning /\ "post" \notin Running
      BY DEF Bound, Owning, Running
    <2>5. \A u \in Threads \ {t} :
            ~overrun /\ pc[u] \in Running => thread[u] # thread[t]
      BY <2>3 DEF EntryInv, OneThreadPerEntry
    <2>6. OneThreadPerEntry'
      BY <2>1, <2>3, <2>4 DEF EntryInv, OneThreadPerEntry
    <2>7. ~overrun => \A u \in Threads :
            pc'[u] \in Running => server_threads'[thread[u]].thread_started
      BY <1>0, <2>2, <2>3, <2>4, <2>5 DEF EntryInv
    <2>8. ~overrun => \A u \in Threads :
            pc'[u] \in Bound => server_threads'[thread[u]].session = session[u]
      BY <1>0, <1>a, <2>2, <2>3, <2>4, <2>5 DEF EntryInv
    <2>9. ~overrun => \A u \in Threads, e \in Entries :
            pc'[u] \in Owning /\ server_threads'[e].session = session[u]
              => thread[u] = e
      <3> SUFFICES ASSUME ~overrun, NEW u \in Threads, NEW e \in Entries,
                          pc'[u] \in Owning, server_threads'[e].session = session[u]
                   PROVE  thread[u] = e
        OBVIOUS
      <3>1. u # t /\ Owns(u) /\ session[u] \in Sessions 
        BY <1>0, <2>3, <2>4 DEF Owns
      <3>2. e # thread[t]
        BY <2>2, <3>1, Ranges
      <3> QED
        BY <2>2, <3>1, <3>2 DEF EntryInv
    <2> QED
      BY <2>1, <2>6, <2>7, <2>8, <2>9 DEF EntryInv, Owns
  <1>4. CASE ClearDisconnected(t) \/ EraseSessions(t)
    <2>1. /\ \E b \in BOOLEAN :
               server_threads' = [server_threads EXCEPT ![thread[t]].disconnected = b]
          /\ \/ pc[t] = "clear" /\ pc' = [pc EXCEPT ![t] = "connect"]
             \/ pc[t] = "erase" /\ pc' = [pc EXCEPT ![t] = "check"]
          /\ UNCHANGED <<thread, session, overrun>>
      BY <1>4 DEF ClearDisconnected, EraseSessions
    <2>2. \A e \in Entries :
            /\ server_threads'[e].session = server_threads[e].session
            /\ server_threads'[e].thread_started = server_threads[e].thread_started
      BY <1>0, <2>1 DEF ThreadType
    <2> QED
      BY <1>0, <2>1, <2>2, EntryFrame DEF Running, Owning, Bound
  <1>5. CASE \/ FindWindow(t) \/ BindSession(t) \/ CreateSocket(t) \/ Connect(t) \/ RunReturns(t)
             \/ EnterMutex(t) \/ DestroySession(t) \/ CheckWindow(t)
    <2>1. /\ UNCHANGED <<server_threads, thread, session, overrun>>
          /\ \A u \in Threads \ {t} : pc'[u] = pc[u]
          /\ pc[t] \in Running
          /\ pc'[t] \in Bound => pc[t] \in Bound
          /\ pc'[t] \in Owning => pc[t] \in Owning
      BY <1>0, <1>5 DEF FindWindow, BindSession, CreateSocket, Connect, RunReturns, EnterMutex,
           DestroySession, CheckWindow, Running, Owning, Bound
    <2> QED
      BY <1>0, <2>1, EntryFrame
  <1>6. CASE \/ WaitRetry(t) \/ AbortSession(t) \/ EraseAborted(t)
             \/ FindLastWindow(t) \/ PostClose(t)
    <2>1. /\ UNCHANGED <<server_threads, thread, session, overrun>>
          /\ \A u \in Threads \ {t} : pc'[u] = pc[u]
          /\ pc'[t] \in Running => pc[t] \in Running
          /\ pc'[t] \notin Bound /\ pc'[t] \notin Owning
      BY <1>0, <1>6 DEF WaitRetry, AbortSession, EraseAborted, FindLastWindow,
           PostClose, Running, Owning, Bound
    <2> QED
      BY <1>0, <2>1, EntryFrame
  <1>7. CASE Established(t) \/ JoinEvent(t)
    BY <1>0, <1>7, EntryFrame DEF Established, JoinEvent
  <1> QED
    BY <1>1, <1>2, <1>3, <1>4, <1>5, <1>6, <1>7 DEF ServerThread, Server

\* connect_server starts a thread on an entry without one, and erases an entry
\* without one unless it overruns a running thread.
LEMMA EntryUi ==
  ASSUME TypeInv, OwnerInv, EntryInv, UiHandler \/ UiMessage
  PROVE  EntryInv'
  <1> USE DEF tables, sess, memory, locals, ui
  <1>0. /\ pc \in [Threads -> PCs]
        /\ thread \in [Threads -> Entries]
        /\ server_threads \in [Entries -> ThreadType]
        /\ overrun \in BOOLEAN
        /\ \A u \in Threads : Owns(u) => session[u] \in Sessions
    BY DEF TypeInv, TypeOK, OwnerInv
  <1>a. Bound \subseteq Running /\ Owning \subseteq Running
    BY DEF Bound, Running, Owning
  <1>1. CASE StartThread
    <2>1. PICK t \in Threads : /\ pc[t] = "none" /\ pc' = [pc EXCEPT ![t] = "create"]
                               /\ thread' = [thread EXCEPT ![t] = uiThread]
      BY <1>1 DEF StartThread, Goto
    <2>2. /\ UNCHANGED <<session, overrun>>
          /\ uiThread \in Entries
          /\ ~server_threads[uiThread].thread_started
          /\ server_threads' =
               [server_threads EXCEPT ![uiThread].thread_started = TRUE]
      BY <1>1 DEF StartThread, TypeInv, UiInv
    <2>3. \A e \in Entries :
            /\ server_threads'[e].session = server_threads[e].session
            /\ e # uiThread => server_threads'[e].thread_started
                                 = server_threads[e].thread_started
            /\ server_threads'[uiThread].thread_started
      BY <1>0, <2>2 DEF ThreadType
    <2>4. /\ pc'[t] = "create" /\ thread'[t] = uiThread
          /\ \A u \in Threads \ {t} : pc'[u] = pc[u] /\ thread'[u] = thread[u]
      BY <1>0, <2>1
    <2>5. "create" \notin Bound /\ "create" \notin Owning
      BY DEF Bound, Owning
    <2>6. \A u \in Threads :
            ~overrun /\ pc[u] \in Running => /\ thread[u] # uiThread
                                             /\ server_threads[thread[u]].thread_started
      BY <2>2 DEF EntryInv
    <2>7. OneThreadPerEntry'
      BY <2>2, <2>4, <2>6 DEF EntryInv, OneThreadPerEntry
    <2> QED
      BY <1>0, <1>a, <2>2, <2>3, <2>4, <2>5, <2>6, <2>7 DEF EntryInv, Owns
  <1>2. CASE OpenFails
    <2>1. /\ UNCHANGED <<pc, thread, session>>
          /\ uiThread \in Entries
          /\ server_threads' = [server_threads EXCEPT ![uiThread] = NoThread]
          /\ overrun' = (overrun \/ server_threads[uiThread].thread_started)
      BY <1>2 DEF OpenFails, TypeInv, UiInv
    <2>2. SUFFICES ASSUME ~overrun'
                   PROVE  EntryInv'
      BY DEF EntryInv
    <2>3. ~overrun /\ ~server_threads[uiThread].thread_started
      BY <2>1, <2>2
    <2>4. \A e \in Entries :
            /\ e # uiThread => server_threads'[e] = server_threads[e]
            /\ server_threads'[uiThread].session = Null
      BY <1>0, <2>1 DEF NoThread
    <2>5. \A u \in Threads : pc[u] \in Running => thread[u] # uiThread
      BY <2>3 DEF EntryInv
    <2>6. OneThreadPerEntry'
      BY <2>1, <2>3 DEF EntryInv, OneThreadPerEntry
    <2> QED
      BY <1>0, <1>a, <2>1, <2>3, <2>4, <2>5, <2>6, Ranges DEF EntryInv, Owns
  <1>3. CASE UiHandler /\ ~StartThread /\ ~OpenFails
    <2>1. UNCHANGED <<server_threads, pc, thread, session, overrun>>
      BY <1>3 DEF UiHandler, CreateWindow, CreateFails, AttachWindow,
           UpdateChats, CancelClose, Disconnect, EraseWindow, PartChannel,
           CommandSends, CommandRecon, CommandDiscon, DropAll
    <2> QED
      BY <1>0, <2>1, EntryFrame
  <1>4. ASSUME NEW n \in Net, OpenServer(n) PROVE EntryInv'
    <2>1. PICK e \in Entries :
            server_threads' = [server_threads EXCEPT ![e].network = n]
      BY <1>4 DEF OpenServer
    <2>2. \A d \in Entries :
            /\ server_threads'[d].session = server_threads[d].session
            /\ server_threads'[d].thread_started = server_threads[d].thread_started
      BY <1>0, <2>1 DEF ThreadType
    <2>3. UNCHANGED <<pc, thread, session, overrun>>
      BY <1>4 DEF OpenServer
    <2> QED
      BY <1>0, <2>2, <2>3, EntryFrame
  <1>5. CASE UiMessage /\ ~\E n \in Net : OpenServer(n)
    <2>1. UNCHANGED <<server_threads, pc, thread, session, overrun>>
      BY <1>5 DEF UiMessage, UserCloses, DeliverClose, CloseServer,
           CloseChannel, Command, DisconnectAll
    <2> QED
      BY <1>0, <2>1, EntryFrame
  <1> QED
    BY <1>1, <1>2, <1>3, <1>4, <1>5

\* Every step preserves the entries of the running threads.
LEMMA EntryStep == TypeInv /\ OwnerInv /\ EntryInv /\ [Next]_vars => EntryInv'
  <1> SUFFICES ASSUME TypeInv, OwnerInv, EntryInv, [Next]_vars PROVE EntryInv'
    OBVIOUS
  <1>1. CASE UNCHANGED vars
    BY <1>1 DEF vars, tables, locals, EntryInv, OneThreadPerEntry, Owns
  <1> QED
    BY <1>1, EntryThread, EntryUi DEF Next

-----------------------------------------------------------------------------
(***************************************************************************)
(* Pointers to destroyed sessions.                                         *)
(***************************************************************************)

\* There are no pointers at the start.
LEMMA PointerInit == Init => PointerInv
  BY DEF Init, PointerInv, NoWindow, NoThread, Safe

\* A step that takes the memory of no session from under a pointer, and writes
\* only pointers that may be followed.
LEMMA PointerFrame ==
  ASSUME PointerInv, overrun' = overrun,
         \A s \in Sessions \cup {Null} : Safe(s) => Safe(s)',
         \A u \in Threads : pc[u] = "erase" =>
           pc'[u] = "erase" /\ session'[u] = session[u] /\ thread'[u] = thread[u],
         \A k \in Slots :
           \/ irc_windows'[k].session = irc_windows[k].session
           \/ Safe(irc_windows[k].session)',
         \A e \in Entries :
           \/ /\ server_threads'[e].session = server_threads[e].session
              /\ server_threads[e].disconnected => server_threads'[e].disconnected
           \/ Safe(server_threads[e].session)',
         \A s \in uiDeref' : s \in uiDeref \/ Safe(s)',
         TypeInv
  PROVE  PointerInv'
  <1>1. /\ \A k \in Slots : irc_windows[k].session \in Sessions \cup {Null}
        /\ \A e \in Entries : server_threads[e].session \in Sessions \cup {Null}
        /\ uiDeref \subseteq Sessions
    BY Fields DEF TypeInv, TypeOK
  <1>2. \A u \in Threads, s \in Sessions \cup {Null} :
          Erasing(u, s) => Erasing(u, s)' /\ thread'[u] = thread[u]
    BY DEF Erasing
  <1> SUFFICES ASSUME ~overrun PROVE PointerInv'
    BY DEF PointerInv
  <1>3. ASSUME NEW k \in Slots
        PROVE  \/ Safe(irc_windows[k].session)'
               \/ \E t \in Threads : Erasing(t, irc_windows[k].session)'
    BY <1>1, <1>2 DEF PointerInv
  <1>4. ASSUME NEW e \in Entries, ~server_threads'[e].disconnected
        PROVE  \/ Safe(server_threads[e].session)'
               \/ \E t \in Threads : Erasing(t, server_threads[e].session)' /\ thread'[t] = e
    BY <1>1, <1>2, <1>4 DEF PointerInv
  <1>5. \A s \in uiDeref' : Safe(s)'
    BY <1>1 DEF PointerInv
  <1> QED
    BY <1>3, <1>4, <1>5 DEF PointerInv

\* A thread frees a session only where the critical section hides it, and the
\* windows forget it before the mutex is free again.
LEMMA PointerThread ==
  ASSUME IInv, NEW t \in Threads, ServerThread(t) \/ Server(t)
  PROVE  PointerInv'
  <1> USE DEF Goto, tables, sess, memory, locals, ui
  <1>0. /\ TypeInv /\ LockInv /\ OwnerInv /\ EntryInv /\ PointerInv
        /\ pc \in [Threads -> PCs]
        /\ session \in [Threads -> 0 .. MaxSessions]
        /\ thread \in [Threads -> Entries]
        /\ irc_windows \in [Slots -> WindowType]
        /\ server_threads \in [Entries -> ThreadType]
        /\ heap \in [Sessions -> HeapState]
    BY DEF IInv, TypeInv, TypeOK
  <1>a. Owns(t) => /\ session[t] \in Sessions /\ Safe(session[t])
                   /\ heap[session[t]] = "live"
    BY <1>0 DEF OwnerInv, Safe
  <1>b. Safe(Null) /\ Null \notin Sessions
    BY Ranges DEF Safe
  <1>1. CASE CreateSession(t)
    <2>1. PICK s \in Sessions \cup {Null} :
            /\ pc[t] = "create"
            /\ \/ pc' = [pc EXCEPT ![t] = "find"] /\ heap' = [heap EXCEPT ![s] = "live"]
               \/ pc' = [pc EXCEPT ![t] = "end"] /\ s = Null /\ heap' = heap
            /\ session' = [session EXCEPT ![t] = s]
            /\ server_threads' = [server_threads EXCEPT ![thread[t]].session = s]
            /\ UNCHANGED <<irc_windows, thread, uiDeref, overrun>>
      BY <1>1 DEF CreateSession
    <2>2. Safe(s)' /\ \A r \in Sessions \cup {Null} : Safe(r) => Safe(r)'
      BY <1>0, <2>1 DEF Safe
    <2>3. \A e \in Entries :
            \/ server_threads'[e] = server_threads[e]
            \/ server_threads'[e].session = s
      BY <1>0, <2>1 DEF ThreadType
    <2>4. \A u \in Threads : pc[u] = "erase" =>
            pc'[u] = "erase" /\ session'[u] = session[u] /\ thread'[u] = thread[u]
      BY <1>0, <2>1
    <2> QED
      BY <1>0, <2>1, <2>2, <2>3, <2>4, PointerFrame DEF Safe
  <1>2. CASE BindSession(t)
    <2>1. /\ pc[t] = "bind" /\ pc' = [pc EXCEPT ![t] = "clear"]
          /\ irc_windows' = [irc_windows EXCEPT ![win[t]].session = session[t]]
          /\ UNCHANGED <<server_threads, heap, session, thread, uiDeref, overrun>>
      BY <1>2 DEF BindSession
    <2>2. Safe(session[t])'
      BY <1>a, <2>1 DEF Owns, Owning, Safe
    <2>3. \A k \in Slots : irc_windows'[k].session \in {irc_windows[k].session, session[t]}
      BY <1>0, <2>1 DEF WindowType
    <2> QED
      BY <1>0, <2>1, <2>2, <2>3, PointerFrame DEF Safe
  <1>3. CASE ClearDisconnected(t)
    <2>1. /\ pc[t] = "clear" /\ pc' = [pc EXCEPT ![t] = "connect"]
          /\ server_threads' =
               [server_threads EXCEPT ![thread[t]].disconnected = FALSE]
          /\ UNCHANGED <<irc_windows, heap, session, thread, uiDeref, overrun>>
      BY <1>3 DEF ClearDisconnected
    <2>2. /\ ~overrun => server_threads[thread[t]].session = session[t]
          /\ Safe(session[t])
      BY <1>0, <1>a, <2>1 DEF EntryInv, Bound, Owns, Owning
    <2>3. \A e \in Entries :
            /\ e # thread[t] => server_threads'[e] = server_threads[e]
            /\ server_threads'[e].session = server_threads[e].session
      BY <1>0, <2>1 DEF ThreadType
    <2>4. CASE overrun
      BY <2>1, <2>4 DEF PointerInv
    <2>5. CASE ~overrun
      BY <1>0, <2>1, <2>2, <2>3, <2>5, PointerFrame DEF Safe
    <2> QED
      BY <2>4, <2>5
  <1>4. CASE DestroySession(t)
    <2>1. /\ pc[t] = "free" /\ pc' = [pc EXCEPT ![t] = "erase"]
          /\ heap' = [heap EXCEPT ![session[t]] = "freed"]
          /\ UNCHANGED <<server_threads, session, thread, uiPc, uiDeref, overrun>>
      BY <1>4 DEF DestroySession, Free
    <2>2. session[t] \in Sessions /\ Owns(t)
      BY <1>a, <2>1 DEF Owns, Owning
    <2>3. \A k \in Slots : irc_windows'[k].session \in {irc_windows[k].session, Null}
      BY <1>0, <1>4 DEF DestroySession, WindowType
    <2>4. \A s : s # session[t] /\ Safe(s) => Safe(s)'
      BY <1>0, <2>1 DEF Safe
    <2>5. /\ Erasing(t, session[t])'
          /\ \A u \in Threads, s \in Sessions \cup {Null} : Erasing(u, s) => Erasing(u, s)'
      BY <1>0, <2>1 DEF Erasing
    <2>6. uiDeref = {}
      BY <1>0, <2>1, ActorAssumption DEF LockInv, TypeInv, UiInv
    <2>7. Safe(Null)'
      BY DEF Safe
    <2> SUFFICES ASSUME ~overrun PROVE PointerInv'
      BY <2>1 DEF PointerInv
    <2>8. ASSUME NEW k \in Slots
          PROVE  \/ Safe(irc_windows[k].session)'
                 \/ \E u \in Threads : Erasing(u, irc_windows[k].session)'
      <3>1. irc_windows[k].session \in Sessions \cup {Null}
        BY <1>0, Fields DEF TypeInv
      <3>2. \/ Safe(irc_windows[k].session)
            \/ \E u \in Threads : Erasing(u, irc_windows[k].session)
        BY <1>0 DEF PointerInv
      <3>3. CASE irc_windows'[k].session = Null
        BY <3>3, <2>7
      <3>4. CASE irc_windows'[k].session = irc_windows[k].session
        <4>1. CASE irc_windows[k].session = session[t]
          BY <3>4, <4>1, <2>1, <2>5 DEF Erasing
        <4>2. CASE irc_windows[k].session # session[t]
          BY <3>1, <3>2, <3>4, <4>2, <2>4, <2>5 DEF Safe, Erasing
        <4> QED
          BY <4>1, <4>2
      <3> QED
        BY <2>3, <3>3, <3>4
    <2>9. ASSUME NEW e \in Entries, ~server_threads[e].disconnected
          PROVE  \/ Safe(server_threads[e].session)'
                 \/ \E u \in Threads :
                      Erasing(u, server_threads[e].session)' /\ thread[u] = e
      <3>1. server_threads[e].session \in Sessions \cup {Null}
        BY <1>0, Fields DEF TypeInv
      <3>2. CASE server_threads[e].session = session[t]
        <4>1. thread[t] = e
          BY <1>0, <2>2, <3>2 DEF EntryInv
        <4> QED
          BY <2>1, <2>5, <3>2, <4>1 DEF Erasing
      <3>3. CASE server_threads[e].session # session[t]
        <4>1. \/ Safe(server_threads[e].session)
              \/ \E u \in Threads :
                   Erasing(u, server_threads[e].session) /\ thread[u] = e
          BY <1>0, <2>9 DEF PointerInv
        <4> QED
          BY <2>1, <2>4, <2>5, <3>1, <3>3, <4>1 DEF Safe, Erasing
      <3> QED
        BY <3>2, <3>3
    <2> QED
      BY <2>1, <2>6, <2>8, <2>9 DEF PointerInv, Safe, Erasing
  <1>5. CASE EraseSessions(t)
    <2>1. /\ pc[t] = "erase" /\ pc' = [pc EXCEPT ![t] = "check"]
          /\ irc_windows' = WindowsWithout(session[t])
          /\ server_threads' =
               [server_threads EXCEPT ![thread[t]].disconnected = TRUE]
          /\ UNCHANGED <<heap, session, thread, uiDeref, overrun>>
      BY <1>5 DEF EraseSessions
    <2>2. \A u \in Threads : pc[u] = "erase" => u = t
      BY <1>0, <2>1 DEF LockInv
    <2>3. \A k \in Slots :
            \/ irc_windows'[k].session = Null
            \/ /\ irc_windows'[k].session = irc_windows[k].session
               /\ irc_windows[k].session # session[t]
      BY <1>0, <2>1 DEF WindowsWithout, WindowType
    <2>4. \A e \in Entries :
            /\ e # thread[t] => server_threads'[e] = server_threads[e]
            /\ server_threads'[thread[t]].disconnected
      BY <1>0, <2>1 DEF ThreadType
    <2>5. \A s : Safe(s) => Safe(s)'
      BY <2>1 DEF Safe
    <2> SUFFICES ASSUME ~overrun PROVE PointerInv'
      BY <2>1 DEF PointerInv
    <2>6. \A k \in Slots : Safe(irc_windows[k].session)'
      BY <1>0, <2>1, <2>2, <2>3 DEF PointerInv, Safe, Erasing
    <2>7. \A e \in Entries :
            ~server_threads'[e].disconnected => Safe(server_threads[e].session)'
      BY <1>0, <2>1, <2>2, <2>4 DEF PointerInv, Safe, Erasing
    <2>8. \A s \in uiDeref' : Safe(s)'
      BY <1>0, <2>1, <2>5 DEF PointerInv
    <2> QED
      BY <2>6, <2>7, <2>8 DEF PointerInv
  <1>6. CASE AbortSession(t)
    <2>1. /\ pc[t] = "abort" /\ pc' = [pc EXCEPT ![t] = "eraseAbort"]
          /\ heap' = [heap EXCEPT ![session[t]] = "aborted"]
          /\ UNCHANGED <<irc_windows, server_threads, session, thread, uiDeref, overrun>>
      BY <1>6 DEF AbortSession, Free
    <2>2. \A s \in Sessions \cup {Null} : Safe(s) => Safe(s)'
      BY <1>0, <2>1 DEF Safe
    <2> QED
      BY <1>0, <2>1, <2>2, PointerFrame
  <1>7. CASE EraseAborted(t)
    <2>1. /\ pc[t] = "eraseAbort" /\ pc' = [pc EXCEPT ![t] = "quit"]
          /\ irc_windows' = WindowsWithout(session[t])
          /\ UNCHANGED <<server_threads, heap, session, thread, uiDeref, overrun>>
      BY <1>7 DEF EraseAborted
    <2>2. \A k \in Slots : irc_windows'[k].session \in {irc_windows[k].session, Null}
      BY <1>0, <2>1 DEF WindowsWithout, WindowType
    <2> QED
      BY <1>0, <2>1, <2>2, PointerFrame DEF Safe
  <1>8. CASE Quit(t) \/ EraseServerThread(t)
    <2>1. /\ pc[t] # "erase"
          /\ \A u \in Threads \ {t} : pc'[u] = pc[u] /\ session'[u] = session[u]
          /\ UNCHANGED <<irc_windows, heap, thread, uiDeref, overrun>>
      BY <1>0, <1>8 DEF Quit, EraseServerThread
    <2>2. \A e \in Entries : \/ server_threads'[e] = server_threads[e]
                             \/ server_threads'[e].session = Null
      BY <1>0, <1>8 DEF Quit, EraseServerThread, ThreadType, NoThread
    <2> QED
      BY <1>0, <2>1, <2>2, PointerFrame DEF Safe
  <1>9. CASE JoinEvent(t)
    <2>1. /\ pc[t] = "run"
          /\ UNCHANGED <<server_threads, pc, heap, session, thread, uiDeref, overrun>>
      BY <1>9 DEF JoinEvent
    <2>2. Safe(session[t])'
      BY <1>a, <2>1 DEF Owns, Owning, Safe
    <2>3. \A k \in Slots : irc_windows'[k].session \in {irc_windows[k].session, session[t]}
      BY <1>0, <1>9 DEF JoinEvent, WindowType
    <2> QED
      BY <1>0, <2>1, <2>2, <2>3, PointerFrame DEF Safe
  <1>10. CASE \/ FindWindow(t) \/ CreateSocket(t) \/ Connect(t) \/ EnterMutex(t) \/ CheckWindow(t)
              \/ WaitRetry(t) \/ FindLastWindow(t) \/ PostClose(t)
              \/ Established(t) \/ RunReturns(t)
    <2>1. /\ UNCHANGED <<tables, heap, session, thread, uiDeref, overrun>>
          /\ pc[t] # "erase"
          /\ \A u \in Threads \ {t} : pc'[u] = pc[u]
      BY <1>0, <1>10 DEF FindWindow, CreateSocket, Connect, EnterMutex, CheckWindow, WaitRetry,
           FindLastWindow, PostClose, Established, RunReturns
    <2> QED
      BY <1>0, <2>1, PointerFrame DEF Safe
  <1> QED
    BY <1>1, <1>2, <1>3, <1>4, <1>5, <1>6, <1>7, <1>8, <1>9, <1>10
       DEF ServerThread, Server

\* A message handler starts while no thread is inside the critical section, and
\* follows or copies only pointers it finds there.
LEMMA PointerUi ==
  ASSUME IInv, UiHandler \/ UiMessage
  PROVE  PointerInv'
  <1> USE DEF tables, sess, memory, locals, ui
  <1>0. /\ TypeInv /\ LockInv /\ PointerInv
        /\ pc \in [Threads -> PCs]
        /\ irc_windows \in [Slots -> WindowType]
        /\ server_threads \in [Entries -> ThreadType]
    BY DEF IInv, TypeInv, TypeOK
  <1>a. heap' = heap => \A s : Safe(s) => Safe(s)'
    BY DEF Safe
  <1>b. Safe(Null)'
    BY DEF Safe
  <1>1. CASE StartThread
    <2>1. PICK t \in Threads : /\ pc[t] = "none" /\ pc' = [pc EXCEPT ![t] = "create"]
                               /\ thread' = [thread EXCEPT ![t] = uiThread]
      BY <1>1 DEF StartThread, Goto
    <2>2. /\ server_threads' =
               [server_threads EXCEPT ![uiThread].thread_started = TRUE]
          /\ UNCHANGED <<irc_windows, heap, session, overrun>> /\ uiDeref' = {}
      BY <1>1 DEF StartThread, UiReturns
    <2>3. \A e \in Entries :
            /\ server_threads'[e].session = server_threads[e].session
            /\ server_threads'[e].disconnected = server_threads[e].disconnected
      BY <1>0, <2>2 DEF ThreadType
    <2>4. \A u \in Threads : pc[u] = "erase" =>
            pc'[u] = "erase" /\ session'[u] = session[u] /\ thread'[u] = thread[u]
      BY <1>0, <2>1, <2>2 DEF TypeInv, TypeOK
    <2> QED
      BY <1>0, <1>a, <2>2, <2>3, <2>4, PointerFrame
  <1>2. CASE OpenFails
    <2>1. /\ server_threads' = [server_threads EXCEPT ![uiThread] = NoThread]
          /\ UNCHANGED <<irc_windows, heap, pc, session, thread>> /\ uiDeref' = {}
          /\ overrun \in BOOLEAN
          /\ overrun' = (overrun \/ server_threads[uiThread].thread_started)
      BY <1>0, <1>2 DEF OpenFails, UiReturns, TypeInv, TypeOK
    <2>2. CASE overrun' = overrun
      <3>1. \A e \in Entries : \/ server_threads'[e] = server_threads[e]
                               \/ server_threads'[e].session = Null
        BY <1>0, <2>1 DEF NoThread
      <3> QED
        BY <1>0, <1>a, <1>b, <2>1, <2>2, <3>1, PointerFrame DEF Safe
    <2>3. CASE overrun' # overrun
      BY <2>1, <2>3 DEF PointerInv
    <2> QED
      BY <2>2, <2>3
  <1>3. CASE AttachWindow
    <2>1. /\ UNCHANGED <<server_threads, heap, pc, session, thread, overrun>>
          /\ \/ irc_windows' = irc_windows /\ uiDeref' = {}
             \/ /\ ~server_threads[uiThread].disconnected
                /\ irc_windows' = [irc_windows EXCEPT
                     ![uiWin].session = server_threads[uiThread].session]
                /\ uiDeref' = {server_threads[uiThread].session} \ {Null}
      BY <1>3 DEF AttachWindow, UiReturns
    <2>2. uiPc = "create" /\ uiThread \in Entries
      BY <1>0, <1>3 DEF AttachWindow, TypeInv, UiInv
    <2>3. \A u \in Threads : pc[u] # "erase"
      BY <1>0, <2>2, ActorAssumption DEF LockInv
    <2>4. ~overrun /\ ~server_threads[uiThread].disconnected
             => Safe(server_threads[uiThread].session)
      BY <1>0, <2>2, <2>3 DEF PointerInv, Erasing
    <2>5. CASE irc_windows' = irc_windows /\ uiDeref' = {}
      BY <1>0, <1>a, <2>1, <2>5, PointerFrame
    <2>6. CASE overrun
      BY <2>1, <2>6 DEF PointerInv
    <2>7. CASE /\ ~overrun /\ ~server_threads[uiThread].disconnected
               /\ irc_windows' = [irc_windows EXCEPT
                    ![uiWin].session = server_threads[uiThread].session]
               /\ uiDeref' = {server_threads[uiThread].session} \ {Null}
      <3>1. \A k \in Slots : irc_windows'[k].session
              \in {irc_windows[k].session, server_threads[uiThread].session}
        BY <1>0, <2>7 DEF WindowType
      <3>2. Safe(server_threads[uiThread].session)
        BY <2>4, <2>7
      <3> QED
        BY <1>0, <1>a, <2>1, <2>7, <3>1, <3>2, PointerFrame DEF Safe
    <2> QED
      BY <2>1, <2>5, <2>6, <2>7
  <1>4. CASE \/ CreateWindow \/ CreateFails \/ UpdateChats \/ CancelClose
             \/ Disconnect \/ EraseWindow
    <2>1. UNCHANGED <<server_threads, heap, pc, session, thread, overrun>>
      BY <1>4 DEF CreateWindow, CreateFails, UpdateChats, CancelClose,
           Disconnect, EraseWindow
    <2>2. uiDeref' \subseteq uiDeref
      BY <1>4 DEF CreateWindow, CreateFails, UpdateChats, CancelClose,
           Disconnect, EraseWindow, UiReturns
    <2>3. \A k \in Slots : irc_windows'[k].session \in {irc_windows[k].session, Null}
      BY <1>0, <1>4 DEF CreateWindow, CreateFails, UpdateChats, CancelClose,
           Disconnect, EraseWindow, WindowType, NoWindow
    <2> QED
      BY <1>0, <1>a, <1>b, <2>1, <2>2, <2>3, PointerFrame DEF Safe
  <1>5. CASE \/ PartChannel \/ CommandSends \/ CommandRecon \/ CommandDiscon
             \/ DropAll
    <2>1. UNCHANGED <<server_threads, heap, pc, session, thread, overrun>>
      BY <1>5 DEF PartChannel, CommandSends, CommandRecon, CommandDiscon, DropAll
    <2>2. uiDeref' = {}
      BY <1>5 DEF PartChannel, CommandSends, CommandRecon, CommandDiscon, DropAll,
           UiReturns
    <2>3. \/ irc_windows' = irc_windows
          \/ \E w \in Slots :
               irc_windows' = [irc_windows EXCEPT ![w].disconnect = TRUE]
      BY <1>5 DEF PartChannel, CommandSends, CommandRecon, CommandDiscon, DropAll
    <2>4. \A k \in Slots : irc_windows'[k].session = irc_windows[k].session
      BY <1>0, <2>3 DEF WindowType
    <2> QED
      BY <1>0, <1>a, <2>1, <2>2, <2>4, PointerFrame
  <1>6. ASSUME UiMessage,
               \A k \in Slots : irc_windows'[k].session = irc_windows[k].session,
               \A e \in Entries :
                 /\ server_threads'[e].session = server_threads[e].session
                 /\ server_threads'[e].disconnected = server_threads[e].disconnected,
               \A s \in uiDeref' :
                 \/ s \in uiDeref
                 \/ \E k \in Slots : s = irc_windows[k].session
                 \/ \E e \in Entries : /\ s = server_threads[e].session
                                       /\ ~server_threads[e].disconnected
        PROVE  PointerInv'
    <2>1. /\ UNCHANGED <<heap, pc, session, thread, overrun>> /\ mutex = Nobody
      BY <1>6 DEF UiMessage, OpenServer, UserCloses, DeliverClose, CloseServer,
           CloseChannel, Command, DisconnectAll, UiFree
    <2>2. \A u \in Threads : pc[u] # "erase"
      BY <1>0, <2>1, ActorAssumption DEF LockInv
    <2>3. ~overrun => \A s \in uiDeref' : s \in uiDeref \/ Safe(s)
      BY <1>0, <1>6, <2>2 DEF PointerInv, Erasing
    <2>4. CASE overrun
      BY <2>1, <2>4 DEF PointerInv
    <2>5. CASE ~overrun
      BY <1>0, <1>6, <1>a, <2>1, <2>3, <2>5, PointerFrame DEF Safe
    <2> QED
      BY <2>4, <2>5
  <1>7. ASSUME NEW n \in Net, OpenServer(n) PROVE PointerInv'
    <2>1. PICK e \in Entries :
            server_threads' = [server_threads EXCEPT ![e].network = n]
      BY <1>7 DEF OpenServer
    <2>2. \A d \in Entries :
            /\ server_threads'[d].session = server_threads[d].session
            /\ server_threads'[d].disconnected = server_threads[d].disconnected
      BY <1>0, <2>1 DEF ThreadType
    <2>3. \A k \in Slots : irc_windows'[k].session = irc_windows[k].session
      BY <1>0, <1>7 DEF OpenServer, WindowType
    <2>4. uiDeref' = uiDeref
      BY <1>7 DEF OpenServer
    <2> QED
      BY <1>6, <1>7, <2>2, <2>3, <2>4 DEF UiMessage
  <1>8. ASSUME NEW k \in Slots, CloseServer(k) \/ CloseChannel(k)
        PROVE  /\ UNCHANGED tables
               /\ \A s \in uiDeref' : s = irc_windows[k].session
    BY <1>8 DEF CloseServer, CloseChannel
  <1>9. CASE \E k \in Slots : UserCloses(k)
    BY <1>6, <1>8, <1>9 DEF UiMessage, UserCloses
  <1>10. CASE \E h \in closePosted : DeliverClose(h)
    BY <1>6, <1>8, <1>10 DEF UiMessage, DeliverClose
  <1>11. ASSUME NEW k \in Slots, Command(k) PROVE PointerInv'
    <2>1. /\ UNCHANGED tables
          /\ \A s \in uiDeref' : \E j \in Slots : s = irc_windows[j].session
      BY <1>11 DEF Command, ServerSlots
    <2> QED
      BY <1>6, <1>11, <2>1 DEF UiMessage
  <1>12. CASE DisconnectAll
    <2>1. /\ UNCHANGED tables
          /\ \A s \in uiDeref' : \E e \in Entries :
               s = server_threads[e].session /\ ~server_threads[e].disconnected
      BY <1>12 DEF DisconnectAll
    <2> QED
      BY <1>6, <1>12, <2>1 DEF UiMessage
  <1> QED
    BY <1>1, <1>2, <1>3, <1>4, <1>5, <1>7, <1>9, <1>10, <1>11, <1>12
       DEF UiHandler, UiMessage

\* The inductive invariant holds at the start and after every step.
LEMMA Inductive == Spec => []IInv
  <1>1. Init => IInv
    BY TypeInit, LockInit, OwnerInit, EntryInit, PointerInit DEF IInv
  <1>2. IInv /\ [Next]_vars => IInv'
    <2> SUFFICES ASSUME IInv, [Next]_vars PROVE IInv'
      OBVIOUS
    <2>1. TypeInv' /\ LockInv' /\ OwnerInv' /\ EntryInv'
      BY TypeStep, LockStep, OwnerStep, EntryStep DEF IInv
    <2>2. PointerInv'
      <3>1. CASE UNCHANGED vars
        BY <3>1 DEF IInv, vars, tables, sess, memory, locals, ui, PointerInv, Safe, Erasing
      <3> QED
        BY <3>1, PointerThread, PointerUi DEF Next
    <2> QED
      BY <2>1, <2>2 DEF IInv
  <1> QED
    BY <1>1, <1>2, PTL DEF Spec

-----------------------------------------------------------------------------
(***************************************************************************)
(* The safety properties.                                                  *)
(***************************************************************************)

\* thread_started does keep two threads off one entry, unless connect_server
\* has erased the entry of a running thread.
THEOREM EntriesExclusive == Spec => []OneThreadPerEntry
  <1>1. IInv => OneThreadPerEntry
    BY DEF IInv, EntryInv, OneThreadPerEntry
  <1> QED
    BY <1>1, Inductive, PTL

\* A session destroyed inside the critical section of server_thread is in no
\* window when the mutex is free.
THEOREM WindowsForget == Spec => []NoDanglingWindow
  <1>1. IInv => NoDanglingWindow
    <2> SUFFICES ASSUME IInv, ~overrun, NEW k \in Slots,
                        irc_windows[k].session # Null,
                        heap[irc_windows[k].session] = "freed"
                 PROVE  \E t \in Threads :
                          mutex = t /\ session[t] = irc_windows[k].session
      BY DEF NoDanglingWindow
    <2>1. PICK t \in Threads : Erasing(t, irc_windows[k].session)
      BY DEF IInv, PointerInv, Safe
    <2> QED
      BY <2>1 DEF IInv, LockInv, Erasing
  <1> QED
    BY <1>1, Inductive, PTL

\* A message handler never follows a pointer to a session destroyed inside the
\* critical section: the mutex is enough for the paths that take it.
THEOREM HandlersSafe == Spec => []UiDerefSafe
  <1>1. IInv => UiDerefSafe
    <2> SUFFICES ASSUME IInv, ~overrun, NEW s \in uiDeref
                 PROVE  heap[s] \in {"live", "aborted"}
      BY DEF UiDerefSafe
    <2>1. s \in Sessions /\ Safe(s)
      BY DEF IInv, TypeInv, TypeOK, PointerInv
    <2> QED
      BY <2>1, Ranges DEF Safe
  <1> QED
    BY <1>1, Inductive, PTL

\* No session has been freed before the first.
LEMMA CountInit == Init => CountInv
  BY DEF Init, CountInv

\* Only a thread that owns a session destroys it, and then no thread owns it.
LEMMA CountStep == TypeInv /\ OwnerInv /\ CountInv /\ [Next]_vars => CountInv'
  <1> SUFFICES ASSUME TypeInv, OwnerInv, CountInv, [Next]_vars PROVE CountInv'
    OBVIOUS
  <1> USE DEF memory
  <1>0. /\ heap \in [Sessions -> HeapState] /\ frees \in [Sessions -> Nat]
        /\ \A t \in Threads : Owns(t) => heap[session[t]] = "live"
    BY DEF TypeInv, TypeOK, OwnerInv
  <1>1. ASSUME NEW t \in Threads, CreateSession(t) PROVE CountInv'
    <2>1. CASE memory' = memory
      BY <2>1 DEF CountInv
    <2>2. CASE \E s \in Sessions : /\ heap' = [heap EXCEPT ![s] = "live"]
                                   /\ frees' = [frees EXCEPT ![s] = 0]
      BY <1>0, <2>2 DEF CountInv
    <2> QED
      BY <1>1, <2>1, <2>2 DEF CreateSession, sess
  <1>2. ASSUME NEW t \in Threads, DestroySession(t) \/ AbortSession(t)
        PROVE  CountInv'
    <2>1. /\ Owns(t)
          /\ Free(session[t], "freed") \/ Free(session[t], "aborted")
      BY <1>2 DEF DestroySession, AbortSession, Goto, Owns, Owning
    <2> QED
      BY <1>0, <2>1 DEF Free, CountInv
  <1>3. ASSUME NEW t \in Threads, ServerThread(t) \/ Server(t),
               ~CreateSession(t), ~DestroySession(t), ~AbortSession(t)
        PROVE  memory' = memory
    BY <1>3 DEF ServerThread, Server, FindWindow, BindSession,
         ClearDisconnected, CreateSocket, Connect, EnterMutex, EraseSessions,
         CheckWindow, WaitRetry, EraseAborted, Quit, FindLastWindow,
         EraseServerThread, PostClose, Established, JoinEvent, RunReturns, sess
  <1>4. ASSUME UiHandler PROVE memory' = memory
    BY <1>4 DEF UiHandler, OpenFails, CreateWindow, CreateFails, StartThread,
         AttachWindow, UpdateChats, CancelClose, Disconnect, EraseWindow,
         PartChannel, CommandSends, CommandRecon, CommandDiscon, DropAll, sess
  <1>5. ASSUME UiMessage PROVE memory' = memory
    BY <1>5 DEF UiMessage, OpenServer, UserCloses, DeliverClose, CloseServer,
         CloseChannel, Command, DisconnectAll, sess
  <1>6. CASE UNCHANGED vars
    BY <1>6 DEF vars, sess, CountInv
  <1>7. CASE memory' = memory
    BY <1>7 DEF CountInv
  <1> QED
    BY <1>1, <1>2, <1>3, <1>4, <1>5, <1>6, <1>7 DEF Next

\* No session is destroyed twice, by one thread or by two, on whichever paths.
THEOREM SessionsFreedOnce == Spec => []FreedOnce
  <1>1. CountInv => FreedOnce
    BY DEF CountInv, FreedOnce
  <1>2. Spec => [](TypeInv /\ OwnerInv /\ CountInv)
    BY TypeInit, OwnerInit, CountInit, TypeStep, OwnerStep, CountStep, PTL DEF Spec
  <1> QED
    BY <1>1, <1>2, PTL
=============================================================================
