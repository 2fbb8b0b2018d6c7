# slimIRC: a TLA+ model

slimIRC is a multi-window IRC client for Windows. One user interface (UI)
thread owns the windows; every server connection has a thread of its own; a
few more threads paste files, play art, and connect to all servers. They share
global tables through raw pointers, and one critical section (`mutex`), which
only some paths take. This directory models that program in TLA+, checks the
models with TLC, and proves with TLAPS the safety properties, the action properties and the refinements that TLC checks.

## 1. Inventory

| Component (files) | State | Operations | Interaction | Hard behaviour | Correct when |
|---|---|---|---|---|---|
| Connection life cycle (`server_window_stuff.h`, parts of `ircstuff.h`, `mdi_crap.c`, `channel_window_stuff.h`) | `irc_windows[100]`, `server_threads[20]`, `mutex` | `connect_server`, `server_thread`, `disconnect_server`, `exit_irc`, `erase_*`, WM_CLOSE | UI and connection threads share both tables; a window and an entry hold raw session pointers | unlocked lookups, reconnection, reopening while a thread ends, full tables | every session has one owner and is destroyed once; no handler follows a dangling pointer |
| IRC session (`libirc/src/libircclient.c`) | socket, state, two 1024 byte buffers, `last_ping`, `ping_sent` | `irc_connect`, `irc_run`, the select rounds, `irc_send_raw`, `irc_disconnect` | run by its thread; sent on and closed by the UI thread | non-blocking connect, partial reads and sends, keepalive timeout, full buffer | lines arrive and leave whole and in order; a silent server is noticed |
| DCC (`libirc/src/dcc.c`) | list of DCC sessions, `mutex_dcc` | chat, send, request, accept, decline, destroy, the DCC part of a select round | callbacks to the client with the lock released | sessions removed while the list is walked, timeouts, block acknowledgement | each request is closed once; files arrive whole |
| Channel and nick lists (`channel_window_stuff.h`, `mdi_crap.c`, `ircstuff.h`) | the list box of each channel window | JOIN, PART, QUIT, NICK, MODE, NAMES events | connection thread, by SendMessage; the UI thread clears it | prefixes, batches of NAMES, rejoin | the list equals the channel's members |
| The client's nick and the windows messages go to (`libircclient.c` 600-800, `ircstuff.h`, `privmsg_window_stuff.h`) | the nick in the session, in each window and in the thread | NICK, 433, 376, JOIN, PRIVMSG, NOTICE | server, library, windows | three copies that follow the server by different rules | a message is shown where it belongs, under the nick the user has |
| Posting a file (`channel_window_stuff.h` 40-241) | `post_stop`, one thread per paste | `post_long_message`, `/stop` | a thread reads `win` without the mutex | stop before start, window closed during the paste | stop ends it; nothing is posted after the window is gone |
| Window tables and switch bar (`mdi_crap.c`, `switchbar_stuff.h`, `privmsg_window_stuff.h`) | slots, buttons, `echo_server_window` cache | acquire, erase, activate | UI and connection threads | slot taken by two threads at once, stale cache | buttons and windows correspond |
| Log files (`file_logging.h`) | `log_files[100]`, under `log_mutex` | `log_str`, `close_log`, `close_old_files`, `close_all_logs` | UI and connection threads | table full, open fails, idle close, tick counts that wrap | no file is open twice; lines reach the disk; no file stays open when logging is off |
| Ini in memory (`ram_ini_file.h`), ini on disk (`ini_file.c`) | doubly linked lists of sections and of their keys | read, write, delete | settings dialogs, servers, Lua | unlinking at either end, memory that runs out half way | behaves as a map |
| Server and channel entries (`servers.c`) | ini sections SERVERS, CHANNELS | add, edit, delete, auto connect | dialogs; a thread of its own | renaming, 30 and 100 entries | every entry has its data and stands once; others' rows are kept |
| Edit history and completion (`mdi_crap.c` 987-1052, 1164-1374) | 40 lines per program; the word TAB completes, and how far it got | add, up, down; TAB | UI thread, list boxes | most recently used order at the limit; state shared by windows | holds the last distinct lines; each TAB offers the next name |
| Lua scripts (`libirc/src/lua_scripting.c`, `script.lua`) | per session an interpreter, a change notification and the time of the file | load, reload, events | the session's thread; the UI thread for `/lua` and menus | a file saved while it is loaded, two threads inside the interpreter | the script that runs is the one in the file |
| Shutdown (`slimIRC.c` 1079-1083, `server_window_stuff.h` 250-301) | `waiting_disconnect` | `wait_for_disconnect` | UI waits for threads | threads outlive the wait and the mutex | nobody uses a deleted mutex |
| Presentation (`resize.c`, `art_viewer.c`, `shell_menu.c`, `static_window.h`, `messagebox.c`, `window.h`, `colors.c`, `chan_modes.h`, `help.h`, fonts) | window geometry, drawing | | | | not modelled |
| Ports and transport (`libirc/src/sockets.c`, `portable.c`, `ssl.c`, `errors.c`, `utils.c`), `debug_print.c`, `bmp_to_mirc.py`, `lua/` | | | | | external or not modelled |

## 2. Plan

Modules, the most important behaviour first. Each was checked before the
next one was begun, and then proved.

| # | Module | About | Abstract specification | Theorems |
|---|---|---|---|---|
| 1 | `ServerThreads` | life cycle of connections, tables, mutex | ownership of sessions | types, all safety properties: proved |
| 2 | `IrcSession`, `Stream` | one session: buffers, select rounds, keepalive, a server and a network that stalls | two FIFO streams of cells (`Stream`) | types, order, keepalive: proved |
| 3 | `DccSessions` | DCC session list, requests, timeouts, removal | | types, one free per session, callback order: proved, for peers that wait |
| 4 | `PostThread` | paste thread, `/stop` | | lines once, stop: proved |
| 5 | `LogFiles` | table of open logs | | one handle per file, closing, flushing: proved |
| 6 | `ServerEntries` | the server and channel dialogs | | tables in order, rows kept: proved |
| 7 | `LuaScript` | a script against edits of its file | | the script is the file's: proved |
| 8 | `OwnNick` | the client's nick, and the window a message goes to | | types, the nick in the windows, the window of a message: proved |
| 9 | `NickList` | list box against channel members | set of members | types, the list against the members: proved |
| 10 | `Waiting` | every critical section, SendMessage | | no deadlock for any number of connections: proved |
| 11 | `EditHistory`, `TabComplete`, `RamIni`, `DccChat` | data structures | `RecentLines`; `Profile`; the lines sent | types, both refinements, the order of the lines, the names offered: proved |
| 12 | `SwitchBar`, `Shutdown`, `auto_connect` | | | not modelled, see section 12 |

`ServerThreads` composes with `IrcSession` through the events a session can
have (connected, told to end, returned); the composition is stated there by the
actions `Connect`, `Established`, `RunReturns` and `Drop`. `Waiting` takes the
locks and messages of all of them together and leaves out what is done under
them. Modules 4 to 11 share no state and are checked side by side (section 6).

Theorems and their proofs are in `ServerThreads_proofs`, `IrcSession_proofs`, `DccSessions_proofs`, `NickList_proofs`,
`OwnNick_proofs`, `Settings_proofs` (`RamIni`, `ServerEntries`), `Parts_proofs` (`LogFiles`, `PostThread`, `LuaScript`, `Waiting`, `DccChat`, `EditHistory`,
`TabComplete`) and `MCParts_proofs` (the parts side by side). Section 12 says what is left to TLC.

## 3. ServerThreads: the life of a connection

State and code:

| Variable | Code |
|---|---|
| `irc_windows`, `server_threads` | the two global tables; of a window the fields the tables' users tell apart: network, type, hwnd, session, disconnect |
| `mutex` | the critical section `mutex`; the message loop of `slimIRC.c` holds it while it dispatches a message |
| `heap`, `frees` | the session objects; history: how often each was destroyed since it was allocated |
| `conn`, `sock`, `ending` | their `state`, which of them have a socket (`sock` is not -1), and which were told to end (QUIT queued or socket closed) |
| `pc`, `thread`, `session`, `win` | where each `server_thread` is, its argument and its locals |
| `uiPc`, `uiWin`, `uiThread`, `uiDeref` | where the current message handler is, what it works on, and the session pointers it will still follow |
| `closePosted` | handles with a WM_CLOSE in the message queue |
| `overrun` | history only: `connect_server` erased the entry of a running thread |

Actions, in the order of the code. `CreateSession` to `PostClose` are the steps
of `server_thread`; outside the critical section every access to a shared
table is a step of its own, so the UI can act between any two. `CreateSocket` and `Connect`
are `irc_connect` up to its socket and after it. `Established`,
`JoinEvent` and `RunReturns` are what a running session does to the tables.
`OpenServer`, `OpenFails`, `CreateWindow`, `CreateFails`, `StartThread`,
`AttachWindow` and `UpdateChats` are `connect_server`. `UserCloses` or
`DeliverClose` begin WM_CLOSE and `CancelClose`, `Disconnect`, `PartChannel` and
`EraseWindow` carry it out. `Command...` are the handlers that send on a session, /recon and
/discon; `DisconnectAll` and `DropAll` the menu command with no window open.

Abstractions. A session number is reused only when no pointer to it is left,
so a stale pointer stays visible; real memory may be reused at once, which
makes a stale pointer worse but not rarer. A session destroyed without the mutex is "aborted",
one destroyed in the critical section is "freed". What happens on the
connection is in `IrcSession`; here a run may return at any time for a reason
of its own. A window message is atomic where it touches one table and several
steps where a thread can see the difference.

Not part of the model: private message and DCC windows (their slots behave as
channel windows do), the unlocked thread of `auto_connect`, message loops nested
in a message box, a failing `malloc` of the callbacks, the joins
`update_chat_sessions` sends.

Runs:

| Run | Bounds | States | Shows |
|---|---|---|---|
| `server_threads` | 1 network, 2 windows (server and channel), 1 entry, 2 threads (one winding down while the other starts), 2 sessions (stale and new), 2 handles | 691 thousand | `TypeOK`, `LiveSessionHasOneOwner`, `NoDanglingWindow`, `UiDerefSafe`, `OneThreadPerEntry`, `FreedOnce` |
| `server_threads_live` | 2 networks compete for 1 window place, 2 entries, 1 thread, 2 sessions, 1 handle | 109 thousand | a full table (`OpenFails`); `EndingSessionDestroyed`, `ClosedNetworksSettle` |

Threads are symmetric in the first run; the second checks liveness and uses no symmetry. Deadlock is not checked: the program may rest with nothing open, and
the bounds on sessions and handles can leave nothing to do.

Fairness. A thread that can run does (`WF ServerThread`, `WF UiHandler`). A
thread that waits for the critical section gets it although the message loop
takes it again and again (`SF EnterMutex`): Windows hands a contended critical
section over in time. A posted WM_CLOSE is delivered (`SF DeliverClose`), since
the loop takes the messages of its queue in order. `irc_run` need only return for a session whose
socket was closed, which is what `ClosedSessionReturns` of `IrcSession` shows, or that
queued a QUIT, where the server's closing is assumed. A disconnect that found no socket
obliges it to nothing. Nothing makes the user,
the network or another server act.

Proved (`ServerThreads_proofs`), for any networks, threads and table sizes: all
six safety properties of `server_threads`. The invariant `IInv` has five
parts, each of which needs those before it. `TypeInv` has the types, and what
the handler holds at each `uiPc`. `LockInv` ties the mutex to the program
points. `OwnerInv`: a live session has the thread that created it, and a thread
that has yet to destroy its session holds a live one. On top of it, `CountInv`: a session freed or aborted was
destroyed once since it was allocated, any other not at all; `FreedOnce` follows. It needs `OwnerInv`,
since only a thread that holds a live session destroys one. `EntryInv`: while a thread runs, its entry is marked started,
belongs to it alone and holds its session. `PointerInv`: a pointer in a window, in an
entry that is not marked disconnected, or in a handler's hand is to a live (or aborted)
session, but for the session being erased inside the critical section just now.
The last one is what makes the
mutex sufficient, and it needs `EntryInv`: without it `AttachWindow` could copy
a freed session out of an entry. The assumptions are those of the module on its constants:
the model values differ, and the tables have at least one place.

What the code does that these properties exclude, each reached in the model:

- The path without a window (`server_window_stuff.h:101`) destroys the session
  without the mutex. If the network is opened again between `FindWindow` and
  there, `connect_server` gives the new window the session about to be destroyed, and a
  handler may use it. `UiDerefSafe` therefore admits "aborted" sessions.
- `connect_server` erases the entry it acquired when no window slot is free,
  also when that network's thread still runs on it (`server_window_stuff.h:175`).
  The entry is then given to another network while two threads write to it.
  Properties about entries and windows are stated for `~overrun`.
- `BindSession` writes to a slot found a step before. If the slot was erased and
  given to another network in between, that network's window holds a session that
  is not its own. Ownership holds all the same, as the thread destroys what it created.
- QUIT is sent only on a CONNECTED session. A window closed during the
  connection leaves a thread that goes on to connect, without a window. So
  `ClosedNetworksSettle` says that a thread ends *or sits in a connection that no
  QUIT and no disconnect reached*.
- A disconnect can be lost. While `irc_connect` resolves the server's name
  (`libircclient.c:171-197`) the session has no socket, so `irc_disconnect` (1208-1217) closes
  nothing; the socket is created afterwards (220), and CONNECTING (233) overwrites the state that was reset. The
  session lives on although it was told to disconnect. The menu's Disconnect with no
  server window open (`disconnect_all_threads`) does this to a thread whose window was closed during the lookup.
  `Drop` therefore adds only sessions with a socket to `ending`, and both liveness properties are about those.
  A socket is created in one step: a disconnect that overlaps `socket_create` has the effect of one before or after it.
  The IPv6 path connects in the same order; TLS is not modelled.
- A WM_CLOSE posted to a stale handle can close the window that reuses it.
- When a channel's window cannot be created its slot keeps network and
  session without a handle.

## 4. IrcSession: one connection

State and code: `state`, `sock`, `ping_sent`, `mutex_session`,
`outgoing` and `incoming` are the fields of `irc_session_t` (a buffer up to its
offset); `fds` is the pair of sets a round gives to `select`, and what select leaves in them;
`idle` is the time since `last_ping`. The model begins when `irc_connect` has created the socket (line 220): a disconnect
before that has no effect on the connection, and is in `ServerThreads`. `ircPc`, `sendPc`, `line` and `closing` say
where each thread is inside `irc_connect`/`irc_run`, `irc_send_raw` and
`irc_disconnect`. `wire` and `arriving` are the two directions of the connection, and
`queued`, `served`, `processed`, `unanswered` are histories the properties need.

Actions: `Accept`, `CopyText`, `CopyCrlf` are `irc_send_raw` (the state is tested
by its caller's step, before the mutex, as the code does); `CloseSocket` and
`ResetState` are the two assignments of `irc_disconnect`; the rest, from `Connect` to `SendFails`, is
the session's own thread, a step per access to shared state: a select round is
`NextRound`, `AddDescriptors`, one of the outcomes of select, `Process`, then
`Read`/`ProcessLine`/`LinesDone` and `Write`/`SendDone`. A callback that sends a line
is part of `ProcessLine`, and the thread goes on only when that `irc_send_raw` is done.

Abstractions. A line is a sequence of cells, the last of which holds CRLF; an
outgoing line has two, so that it can be cut and can be refused. send and recv
move any number of cells at least one (Windows sockets here are blocking and take all; the code
allows for less, and so does the model). Time passes in select only, at most `MaxStall` ticks a
round. `clock()` does not wrap (`libircclient.c:465` subtracts unsigned counts, which is right also when they do). A DCC descriptor
that is ready is an element "dcc" of the set, present only with `Dcc`. Not modelled: TLS (data it
has decrypted and select cannot see, `ssl.c:264`), the parsing of a line into an event, and a CRLF
cut in two by send (`libircclient.c:519` asks select for output only while a whole CRLF is in the buffer, so its LF
waits for the next line): the last cell of an outgoing line holds both. The hosts' names and the registration's
parameters are not told apart.

Runs:

| Run | Bounds | States | Shows |
|---|---|---|---|
| `irc_session` | 1 user thread; buffers of 4 cells hold two lines less one cell, so a line is refused and an overlong line fills the buffer; 3 lines queued, 4 cells served | 1.1 million | `TypeOK`, `LinesLeaveInOrder`, `LinesArriveInOrder` |
| `irc_keepalive` | buffers of 3 cells, max_timeout 2, grace 2, rounds 1 tick late at most, no DCC, 4 lines queued, 2 cells served | 110 thousand | `DropsOnlyAfterPing`, `NoPongDisconnects`, and the liveness of a session: `SilentServerNoticed`, `ClosedSessionReturns`, `SendRawReturns` |
| `irc_keepalive_dcc` | as `irc_keepalive`, with DCC traffic | | `NoPongDisconnects` is violated |
| `irc_keepalive_late` | as `irc_keepalive`, a round 3 ticks late | | `DropsOnlyAfterPing` is violated |

`Stream` is the abstract specification: cells are put at the end of one
sequence and taken in that order by the other side. `IrcSession` implements it twice,
`LinesLeaveInOrder` from `queued` to `wire` and `LinesArriveInOrder` from `served` to `processed`.

The two violations are disagreements with the comment "disconnect if no pong in
15secs" (`libircclient.c:465`). Any readable descriptor, a DCC socket too, counts as an
answer of the server. And a round that comes so late that
`max_timeout+15 s` is over before PING was sent disconnects without having asked.

Fairness: threads run, a round of select and a send come to an end. For send
this is asked of the network (it takes the data or fails): `SendRawReturns` holds under this
assumption only, and as send blocks with `mutex_session` held, a UI thread
that sends a line waits for the network. Neither the server nor the
user has to do anything. Deadlock is not checked because a session ends.

Another behaviour the model shows and no property excludes: `Establish` sets CONNECTED without
looking at the state again, so a disconnection by the UI at that moment is
overwritten. Lines are accepted for the closed socket until the next select
fails (`ClosedSessionReturns` shows it does).

Proved, for any buffer size, users and timeouts. `IrcSession_proofs`: `TypeOK` and
both orders. The invariant says where each cell is: `OutInv`, a cell accepted is
on the wire, in the buffer, or still to be copied by the holder of the mutex, in
this order; `InInv`, a cell served is processed, in the buffer or arriving;
`LockInv`, who holds the mutex at which program point, and that an accepted line has
room, which `TypeOK` (no buffer overflow) needs. Order then follows step by step: each
step of the code is a step of `Stream` or leaves it alone. Also proved, in the same module:
`DropsOnlyAfterPing` if rounds are not as late as the grace period, and `NoPongDisconnects` if there is no DCC
traffic, the assumptions the two violation runs drop. `WaitInv` bounds the time without a PING at
each program point, `PingInv` says that an unanswered PING is remembered by `ping_sent` and `last_ping`.

Only model-checked: the three liveness properties, which are beyond TLAPS.

## 5. DccSessions: the direct chats of a session

State and code: `dcc_sessions` is the linked list, newest first; `state`, `cb`, `outgoing` are
fields of its elements; `frees` counts the calls of `free` on each. `locked` says that the
session's thread holds `mutex_dcc` (the UI takes it only within one step). `ircPc`, `dcc`,
`dcc_next`, `err` are where that thread is and its locals, `in_set` and `out_set` the DCC part of its
round's sets; `uiPc`, `uiDcc` the same for the UI thread. `told` and `late` are histories.

Actions: `StartVisits` to `CollectSockets` are `libirc_dcc_add_descriptors`, one step per
element and a separate one after each place where it leaves the mutex; `StartServing` to
`Served` are `libirc_dcc_process_descriptors` in the same way, an element being looked at three times
(answer, read, write). `Call` is the way into a callback, `CallReturns` the way back, and both need what the code
needs: a callback writes to a window with SendMessage, so it returns only when the
UI thread is in its message loop (`Answered`). `Request`, `AcceptRequest`, `DeclineRequest`,
`LeaveRequest` are the requests of others. On the UI thread `irc_dcc_chat` is `NewChat`,
`RequestSent` or `RequestFails`, `Register`: it lists the session, sends
the request and stores the callback, the last without the mutex. `SendMsg` and `Destroy` are
`irc_dcc_msg` and `irc_dcc_destroy`.

Abstractions. What is received is not modelled, nor is the transfer of
files: slimIRC declines every offered file and offers none, so
such a session is a request that is declined. A timeout is a choice. The reading of
an element that has just been freed (`Reread`) finds what was there before or anything harmless. A
closed socket's number is not given to another socket while it stands in a set.

| Run | Bounds | States | Shows |
|---|---|---|---|
| `dcc_sessions` | 2 sessions, so that one is served, expires or is removed beside another; 1 line in a buffer | 124 thousand | `TypeOK`, `FreedOnce`, `HeldSessionsLive` (with `CallbackSet`), `ErrorIsLast`, `CallsReturn`, `RemovedIsFreed` |
| `dcc_destroy_select` | the same | | `DestroyLeavesSelect` is violated |
| `dcc_early_answer` | the same, `PeerWaits = FALSE` | | `CallbackSet` is violated |

What they show. A chat can be destroyed, by its window or its peer, at any point of either
walk: nothing a thread holds on to outside the mutex is freed, everything is
freed in the end, and once. The exception is in `FreedOnce`: if the UI destroys
a session while its timeout callback runs, the walk frees it, then reads "removed"
in the freed memory and may free it again (`dcc.c:127` and `:156`). An error is
the last callback of a session. Neither thread waits for the other,
because no callback is called under `mutex_dcc`.

The two violations. `irc_dcc_destroy` "can be called in any moment, even from callbacks or
from different threads" (`libircclient.h:1261`); but it closes a socket another
thread is selecting on, select fails, and `irc_run` ends the whole IRC connection.
And `irc_dcc_chat` stores the callback when the request is already on its way:
a peer that answers at once meets a null pointer, so `CallbackSet` holds
only for peers that wait (`PeerWaits`).

Fairness: the session's thread runs (WF). Strong fairness is assumed of what waits for another
thread: the callback for the UI's message loop, where a sent message precedes any posted one; the
UI for `mutex_dcc`; the end of the run for the critical section of the program. Each of these is free again
and again, and Windows serves waiting threads. Deadlock is not checked because a session ends and the two identifiers are used up.

Proved (`DccSessions_proofs`), for any number of sessions, any buffers and any network, of peers that wait: `TypeOK`, `FreedOnce`, `HeldSessionsLive` and `ErrorIsLast`.
`PeerWaits` is a constant of the module, and the theorems have it as their hypothesis since `dcc_early_answer` shows that without it they are false: a
null callback is called. The invariant `DccInv` says that what is in the list has not been freed (`ListInv`), who holds `mutex_dcc` where (`LockInv`), and what the session's
thread holds on to while it has left that mutex for a callback (`ThreadInv`). The UI can take only one session out of the list then,
the chat that `irc_dcc_chat` is still setting up, because any other is marked removed and left for the walk. `ChatInv` says that this chat is the head of the list and
in no round's sets, so it is neither the session of the callback nor the `dcc_next` of the walk. `CallbackInv` and `ToldInv` go with it: every other chat has its callback, and a session whose end was reported
is marked, or its callback is still running. `ErrorIsLast` follows for each step. Liveness, `CallsReturn` and `RemovedIsFreed`, stays with TLC.
In `dcc.c:476-490` the transfer of a file would leave both critical sections twice; slimIRC never gets there.

## 6. The independent parts, and the run `parts`

`MCParts` puts twelve parts that share no state side by side: in each behaviour one of them
moves and the others stay as they start. One run then answers for all of them,
and a part's bounds are those it needs. Together they have 186 thousand states.

| Part | Bounds (`MCParts.cfg`) | Why they are enough | Shows |
|---|---|---|---|
| `log` (`LogFiles`) | 2 slots, 4 windows of which two share a file, delays 1 and 2, 5 ticks of a count that wraps at 4 | more names than slots; a wrap between two lines | `OneHandlePerFile`, `OffClosesFiles`, `LinesReachDisk` |
| `edit` (`EditHistory`) | 3 lines, 3 entries, 2 windows | one line more than the entries for sent lines | `HistoryIsRecent` |
| `ini` (`RamIni`) | 2 sections, 3 keys, 1 value, memory for 2 sections and 3 keys | a node first, last and in the middle; memory that runs out | `IniIsMap` |
| `nick` (`NickList`) | 2 others, 4 events, 3 messages on their way, 1 NAMES request | names in two batches with an event before, between and after | `ListShowsChannel` |
| `post` (`PostThread`) | texts of 0, 3 and 4 lines, line 2 blank, 2 lines at most, 1 retry | a text longer than the limit, a time out | `EveryLineOnce`, `StopEndsPosting`, `PostingEnds` |
| `servers`, `channels` (`ServerEntries`) | 3 servers in 2 places, 4 channels in 3 | a full table; places beyond `MAX_SERVERS` | `EntriesInUse`, `RowsAreKept` |
| `script` (`LuaScript`) | the script is written 3 times | one before, one while and one after it is loaded | `ScriptFollowsFile` |
| `chat` (`DccChat`) | buffer of 5, lines of 0, 1 and 3 characters, 2 of them not empty | a line that fills the buffer with its CRLF; CR and LF apart | `ChatLinesInOrder` |
| `own` (`OwnNick`) | 3 nicks (one a prefix of another, one made up), 1 channel, 1 window besides the server's, 3 events, 2 messages each way | 433, a rename by another, a reconnection | `WindowsKnowNick`, `MessagesFindWindow` |
| `tab` (`TabComplete`) | 5 texts, 3 list boxes of 3, 1 and no nicks, 2 window tables, chars up to 1, 4 TABs in a row | nicks under all three prefixes; a place beyond the largest char and one that wraps to another word; a TAB more than there are names | `TabOffersEach` |
| `wait` (`Waiting`) | 1 connection, the UI thread, 1 helper | a circle needs two sections or a section and a message; a second connection shares `mutex` and `log_mutex` only, as the helper and the UI thread do, and `NobodyStuck` is proved for any number | `NoDeadlock` |

`PartsTypeOK` has the type invariants of all. `MCParts_proofs` shows that no part can disturb another, and that all properties of the table but `PostingEnds` hold of the whole for any constants (`TabOffersEach`: under `PlainNames`). Fairness: only `PostFair`, that the posting's thread is scheduled.
Deadlock is not checked, since a part may rest at its bounds, and a posting that meets a null session ends the program;
that no *threads* are stuck is `NoDeadlock`.

Two parts have a run of their own that shows a disagreement:

| Run | Shows |
|---|---|
| `post_stop_early` | `StopHeeded` is violated: `post_msg_thread` clears `post_stop` as its first step, so a /stop given before is lost |
| `own_nick_notices` | `NoticesShown` is violated: after 433 the session does not know the nick it got, and a notice to the user reaches no window |

## 7. Settings and lines: LogFiles, EditHistory, TabComplete, RamIni, ServerEntries

**LogFiles** (`file_logging.h`). `log_files` is the table; `files_open` the static variable of `log_str`;
`log_clock` the time, of which `GetTickCount` shows the value modulo `LogTicks`. `log_flushed` is
history. `WriteLine` and `NoLine` are `log_str` with the setting on and off, with the `close_old_files` and
`close_all_logs` each ends in; `TurnOn` and `TurnOff` the settings dialog, `CloseLog` the end of a window.
Every function holds `log_mutex` for its whole length, so each is one step. `fopen` may fail at any time. What the
code does: a slot whose file could not be opened keeps its name for good; `close_log` compares a name that was not
sanitized (line 58), so the file of such a window stays open until it is idle; `tick > lastflush + FLUSH_DELAY`
compares absolute counts and goes wrong at the wrap, which `LinesReachDisk` excepts.
Proved (in `Parts_proofs`) for any table, delays and range of the count: the types and all three properties.
`OneHandlePerFile` is inductive with the types; `OffClosesFiles` needs both of its conjuncts. `LinesReachDisk`
rests on `FlushInv`: the `lastflush` of an open slot is the time in `log_flushed` modulo `LogTicks`.

**EditHistory** (`mdi_crap.c:987-1052` and the keys of the edit control). `edit_buffer` has
the line being typed in entry 0 and those sent after it; `edit_text` is what each window's control shows. Actions: `Type`
(EN_CHANGE), `Complete` (TAB sets the text, which a multiline control does not report),
`Return`, `Escape`, up and down (`BelowDraft`, `AtLine`, `AtFree`), `ClearTyped`. What TAB finds is an arbitrary text here.
A text is a line and whether line breaks follow it, which RETURN adds and `trim_return` takes off.
A RETURN on several lines goes to the posting. `RecentLines` is what it should be, and `HistoryIsRecent` the refinement,
together with what the keys show: in a control that shows the entry the position points at, UP shows another text as long as there is an older, different line, and DOWN whenever a sent line is shown.
Proved (in `Parts_proofs`) for any lines, windows and length of the array: the types and the refinement. `EditInv` has the array as a *list of lines*: no free entry in front of a line, no
line twice, no line break in any; and the position is an entry, or -1 below a text being typed. The place where `resort_history` stops exists and is one place only (`PlaceOf`), and what stands behind it is as it was;
so the entries after 0 are `RecentLines.Use` of the line, whether it was there, is new, or pushes the last one out. A line that is in entry 0 and in entry 1 at once (`Repeated`) is the reason for the two
exceptions of `Step`; the proof of what the keys show turns on them.

**TabComplete** (`mdi_crap.c:1164-1374`). The word, its place and two places reached (static variables) are shared by all windows. `FirstTab` is
`tab_completion`, `NextTab` is `tab_next`, both with all of `handle_next_nick` and `handle_next_chan`; `get_substr`, `replace_word` and `find_next_nick` are the operators
they use. The caret may be anywhere at each TAB. `TypeText` is EN_CHANGE, `TextReplaced` a text set by ESC, UP, DOWN, or another window in front, which resets nothing. What the code
does: after such a change TAB puts the completion of the *old* word into the new text; and `replace_word` takes the place as a `char`, so that for a word beyond the first 127
characters it works on memory before the text (`tab_wild`: the model ends there) or, from 256 on, on another word. `TabOffersEach` excepts both. Cutting names at 19 characters is left out.
Proved (in `Parts_proofs`) for any texts, lists and tables: the types, and `TabOffersEach` under `PlainNames`, that no name in the list box or the window table contains a blank or >. IRC forbids the blank in both and > in a nick; a
*channel* whose name contains > does break the replacement: `get_substr` ends the word there and the next TAB replaces only its beginning. The argument: each round offers the next name after the last in cyclic order (`IsNext`, which the three searches by prefix amount to), and a set of
places that is closed under next is all of them, so no name comes again before every other has had its turn. The text is always what was before the word, a name, and what was after, where the word is cut out by the same rule each time.

**RamIni** (`ram_ini_file.h`). The nodes of both lists with their pointers, the actions its functions
with every malloc that may fail (`AddSection` is an insertion that fails before the key is made).
`Profile` is a map from keys to values; `IniIsMap` says that each step is a step of it and leaves both lists well linked.
Proved (in `Settings_proofs`) for any names, values and numbers of nodes: types and refinement. The nodes of a list are the smallest set with its first node that is closed under `next` (`Chain`), which
needs no recursion. `Sound` is the invariant: each list ends in one node and can be walked back, no two lists share a node, no name is twice in one, every other node is free. Lemmas say what unlinking
and linking do to *one* list and that they leave the others alone (`OneListChanged`); the rest is a statement of what is read: a key is written (`KeyWritten`), dropped (`KeyDropped`), or kept (`KeyKept`).
There is no lock: a connection's thread that reads while the UI writes is outside the model.

**ServerEntries** (`servers.c`, dialogs in `slimIRC.c`). A table of names, and the set of sections that have data. `SaveServer`,
`SaveChannel`, `DeleteServer`, `DeleteChannel` are the functions of the dialogs with their searches for a place. What the code does:
renaming an entry to one that exists deletes a section and leaves its entry, or has the entry twice (`entry_clash`); a channel edited
to another network is a second entry; a channel at a place from 30 on loses its section but not its entry (`servers.c:749`, `deleted_beyond`);
a full table saves nothing and says nothing. `EntriesInUse` excepts the first and the third, `RowsAreKept` excepts nothing.
Proved (in `Settings_proofs`) for any names and sizes, from lemmas about a table of any kind that serve both dialogs: `SectionsNamed`
(a section has an entry) is the strengthening. Not modelled: the flags the menus set in a section, sorting, and a write of the settings that fails (at `servers.c:673` the section is then not written, and the dialog hears nothing of it).

## 8. PostThread and LuaScript: threads beside their data

**PostThread** (`channel_window_stuff.h:40-241`). `post_pc` is where the thread is: each look at `post_stop`, at the window's entry
and at the session is a step of its own, since it takes no lock. `PostLong` is `post_long_message`, `Stop` is `cmd_stop`; `LoseSession`,
`GetSession`, `CloseWindow`, `ReuseEntry` are what the others do to the entry. `Refused` is a full output buffer. What the code does: the session
can go between `Try` and its use (`NullSession`, the end of the program); when the slot is given to another window the
rest is sent to that window's server; a window not connected ignores /stop; lines after the 1000th are cut off. Reading the file, the cutting of long
lines (a lone CR at the end drops the last line) and the question before are left out.
Proved (in `Parts_proofs`) for any text and limits, with the types: `StopInv` says that a heard /stop stays in `post_stop`, and that a thread which has a line in its
hands has sent none since; `LineInv` that the lines sent are before the thread's place and those before it are sent, blank or excused. `PostingEnds` stays with TLC.

**LuaScript** (`lua_scripting.c`, and `libircclient.c` where it is called). A version of the file stands for its contents and its time.
The steps of `lua_script_init` are apart where the file can change between: it looks at the time (`CheckScript`), loads
(`LoadScript`), reads the time again (`RecordTime`, line 396) and waits for the next notification. `Reported` is what Windows
does with a change in the directory. A script saved between loading and `RecordTime` is not loaded when the change is reported: `missed`. So is a good script that `LoadScript` refuses, for want of memory
(`luaL_newstate`, line 378) or because the file cannot be opened at that moment (line 380), until the next change.
Proved (in `Parts_proofs`) for any number of versions: `NotifyInv` (the notification is armed only while the session waits, and keeps changes only once signalled), `NotedInv` (if nothing was missed,
the time noted is that of the script loaded), and `CurrentInv`, which needs both.
Not modelled: scripts themselves, the calls into them (the interpreter is entered by two threads without a lock, `lua_scripting.c:459`; and
`lua_handle_event` leaves its result on the stack), and settings that are kept in memory only.

## 9. NickList and OwnNick: following the server

**NickList** (`channel_window_stuff.h`, `mdi_crap.c`, `ircstuff.h`). The server is external: `Server` has the members with their modes and sends what
happens, in order, over `to_client`; NAMES comes in two messages. `Handle` is one message on the connection's thread with all it does to the
list box, `Refresh` the UI's clearing of the list and its request. The list box counts forms, so a nick twice or under two prefixes is visible.
`ListShowsChannel` holds whatever overtakes what; it excepts `ghosts`: after a KICK the list is kept, and the own JOIN which should clear it sends the message
to a child the list box does not have (`channel_window_stuff.h:555`). Not modelled: a lost connection clearing the list, the user's own rename,
MODE with other parameters between (the loop at line 706 then takes the wrong nicks), and the kick of several selected nicks, which uses stale
indexes (`mdi_crap.c:1445-1447`).
Proved (`NickList_proofs`) for any nicks and any number of messages, requests and events. A *view* is what the channel looked like when a message was sent: the messages on their way lead from the view the client has come to up to the
server's members (`ViewsOf`), and each tells of one change. The list goes with the view before the message to handle next (`UpToDate`): it has members only, each once at most, and all of them in the right form but for those whose names are still
in the messages on their way, which is the state between a clearing of the list and the second half of the NAMES. Messages that come go behind the others and change nothing of that (`StaysUpToDate`); when none is left, the view is the channel.

**OwnNick** (`libircclient.c:600-800`, `ircstuff.h`, `privmsg_window_stuff.h`, `mdi_crap.c`). Three copies of the user's nick: `session_nick`, one per window in
`own_windows`, and the thread's (`FirstNick`). The server and the other users act and send; `HandleMessage`, `HandleNotice`, `HandleOwnNick`, `HandleInUse`
(433), `HandleGreeting` (376), `HandleLetIn` are the events of the client; the UI renames, opens and closes chats; `IsLost` and `ConnectsAgain` are a lost connection and the retry.
The library compares by the *beginning* of a nick (`strncmp`, line 665), so the session's copy goes wrong when somebody whose nick begins
with ours renames. `MessagesFindWindow` shows that text is displayed in the right window nevertheless; notices are not (`own_nick_notices`).
`WindowsKnowNick` excepts `astray`: a connection made again asks for the thread's nick while windows keep the last one; private windows
without a session miss a rename and get the old nick at 376; /nick racing the greeting. Bounds and omissions: nicks longer than 19
characters and "&" channels; messages a script suppresses; windows that cannot be created. The JOINs of others are in `NickList`.
Proved (`OwnNick_proofs`) for any nicks, channels, windows and messages: the types, both properties. Each message belongs to the nick by which the server knew the user when it was sent (`Had`),
and every window with the session has the one of the message to handle next (`Following`); before the server knows the user there is one question or one refusal on its way, and all windows have the nick asked for (`Asking`).
`MessagesFindWindow` needs the types only, since where a text is shown depends on its target; the *session's* nick plays no part in it.

## 10. DccChat: the text of a chat

`PeerSends` puts a line with CRLF or LF on its way, `ChatRecv` is one recv of any length with the one search for a line that follows it (`dcc.c:319`,
`libirc_findcrorlf`). `ChatLinesInOrder`: what the window shows as whole lines is a prefix of what was sent. What the code does: a recv
without a line end calls the callback with the partial text and later with the whole (`libircclient.h:108` speaks of a line); one line per
recv, so further lines wait in the buffer until more comes; the LF of a CRLF cut by the end of the buffer is an empty message; when the
buffer is full without a line end the socket is never read again.

Proved (in `Parts_proofs`) for any buffer and lines: the buffer is not overrun, and the order. `Blocks` says where each line not yet handed over stands in what is in the buffer and on its way: in its place, in one
piece, with nothing but line ends between. Taking a line leaves the blocks of the others, whether the second character of CRLF is taken with it or left.

## 11. Waiting: who waits for whom

The critical sections of all modules above and SendMessage, without what is done under them. A thread is what it has yet to do (`todo`) up to the next
point where it may go several ways; pieces between which it holds nothing follow each other in any order, so each is a choice (`ConnectionDoes`, `HelperDoes`).
What the UI's handler does while it holds `mutex` (`HandlerDoes`) and what a walk does while it holds `mutex_dcc` (`WalkDoes`) are choices in the same way. Sections are re-entrant (`depth`).
The UI thread answers a message in GetMessage and in a loop inside a handler (a dialog), which runs inside `mutex`: no
connection can end while one is open, but it does answer messages, so nobody is stuck. `erase_all_sessions` runs inside `mutex` and uses
PostMessage; with SendMessage (the mutant) everything stops. `NoDeadlock` says that no set of threads waits for its own members only.
Proved (in `Parts_proofs`) for any number of connections. `WaitInv` says of each thread what it has yet to do and what it is inside of at that point, by kind of thread. Inside of `log_mutex`, a `mutex_session` or a `mutex_outbuf` a thread waits for nobody, nor does
a connection inside of `mutex`; inside of a `mutex_dcc` it waits at most for a `mutex_outbuf`; and whoever sends a message is inside of nothing, since a walk leaves `mutex_dcc` for its callbacks.
So whoever is waited for, but for the UI thread, waits for one thread more at most; and the UI thread inside of `mutex` is one that waits for such a section, or goes on.
Outside this model: waiting for the network in send (section 4), `wait_for_disconnect` at exit, which handles no messages for up to
750 ms a thread, and the destruction of a session's sections (in `ServerThreads` and `DccSessions`).

## 12. What is left

Proved: every invariant and every action property or refinement the passing runs check, for every value of the constants; `MCParts_proofs` shows that the parts side by side each keep to their own
specification (`PartsAlone`), so that the theorems about each hold of what the run `parts` checks (`PartsTypes`, `PartsSafe`). Hypotheses are the modules' assumptions on their constants and three more, each dropped in
a run that then fails or named where it is used: `PeerWaits` (section 5), no DCC traffic or late rounds for the two keepalive properties (section 4), `PlainNames` (section 7).

Only model-checked, and staying so: liveness, which TLAPS cannot prove (`EndingSessionDestroyed`, `ClosedNetworksSettle`, `SilentServerNoticed`, `ClosedSessionReturns`, `SendRawReturns`,
`CallsReturn`, `RemovedIsFreed`, `PostingEnds`). The violations (two each in sections 4, 5 and 6) are counterexamples.

Not modelled:

- The switch bar and the windows' order: a list that the UI thread alone keeps, together with state of Windows controls. The slots of channel and private
  windows that messages are shown in are in `OwnNick`, those of servers in `ServerThreads`; that two threads take the same free slot (`mdi_crap.c:904`) is not: it needs two windows
  more in `ServerThreads`, whose state space is at its limit.
- `auto_connect`'s thread, which runs `connect_server` without the mutex, for the same reason; its locks are in `Waiting`.
- Shutdown: after `wait_for_disconnect` the critical section is deleted and the process exits; what threads do with a deleted
  section is up to Windows, so there is no state to model.
- Message loops nested in a message box while the tables are in use (`mdi_crap.c:597`); a WM_CLOSE posted at `server_window_stuff.h:118` to a handle read from a slot
  that another window may have taken is in the model as `PostClose`, but no property speaks of it.
- The joins of `update_chat_sessions` (`channel_window_stuff.h:28`): a null session there.
- TLS, sockets, the parsing of a line into its parameters.
- Files over DCC (declined by the client), drawing, geometry, dialogs, art, fonts: state of Windows controls.
- The ini file on disk: functions of Windows.
- `src/lua`, half of the repository's lines, is the vendored Lua interpreter, and most of the rest is presentation, headers of numerics
  and declarations; the modules cover the client's own control.

`PROJECT.json` lists for each hazard the properties about it, or why there is none.
