----------------------------- MODULE IrcSession -----------------------------
(***************************************************************************)
(* One session of libircclient: its thread runs irc_connect and then the   *)
(* select rounds of irc_run, while users (the UI thread, a paste) queue    *)
(* lines with irc_send_raw or end the session with irc_disconnect.         *)
(*                                                                         *)
(* A line is a sequence of cells, the last of which holds the CRLF; recv   *)
(* and send move any number of cells.  An outgoing line has two cells, an  *)
(* incoming one as many as the server likes.  Time passes in select, which *)
(* may return late.  The connection is a plain one, not TLS.               *)
(***************************************************************************)
EXTENDS Integers, Sequences

CONSTANTS Users,       \* the other threads that use the session
          Irc,         \* the thread that runs it
          Nobody,      \* the owner of a free mutex_session
          BufSize,     \* cells of each buffer (1024 bytes in the code)
          MaxTimeout,  \* max_timeout (5 minutes)
          Grace,       \* how long PONG is waited for (15 seconds)
          MaxStall,    \* bound: ticks that can pass in a select round
          Dcc,         \* the session has DCC connections with traffic
          MaxQueued,   \* bound: cells users, callbacks and DCC traffic may queue
          MaxServed    \* bound: cells the server sends

ASSUME ActorAssumption == Irc \notin Users /\ Nobody \notin Users \cup {Irc}
ASSUME SizeAssumption  == /\ BufSize \in Nat /\ BufSize > 1
                          /\ MaxTimeout \in Nat \ {0}
                          /\ Grace \in Nat \ {0}
                          /\ MaxStall \in Nat \ {0}
                          /\ MaxQueued \in Nat
                          /\ MaxServed \in Nat
ASSUME DccAssumption   == Dcc \in BOOLEAN

Actors == Users \cup {Irc}

VARIABLES state,         \* session->state
          sock,          \* session->sock: "open", or "closed" when it is -1
          ircPc,         \* where the session's thread is
          fds,           \* in_set and out_set, which select overwrites
          idle,          \* ticks since last_ping
          ping_sent,
          mutex_session,
          sendPc,        \* where each thread is inside irc_send_raw
          line,          \* the line it copies
          closing,       \* threads inside irc_disconnect
          outgoing,      \* outgoing_buf up to outgoing_offset
          incoming,      \* incoming_buf up to incoming_offset
          wire,          \* everything the socket has taken
          arriving,      \* what the server has sent and recv has not returned
          serverOpen,    \* the server has not closed the connection
          queued,        \* history: the cells of all lines accepted
          served,        \* history: the cells the server has sent
          processed,     \* history: the cells handed to the event handlers
          unanswered     \* history: ticks since a PING the server left unanswered

clock   == <<idle, ping_sent, unanswered>>
sending == <<sendPc, line, mutex_session>>
out     == <<outgoing, wire, queued>>
in      == <<incoming, arriving, served, processed, serverOpen>>
vars    == <<state, sock, ircPc, fds, clock, sending, closing, out, in>>

-----------------------------------------------------------------------------
Cells   == [line : Nat, last : BOOLEAN]
Text(n) == [line |-> n, last |-> FALSE]
Crlf(n) == [line |-> n, last |-> TRUE]

LineLength == 2     \* cells of an outgoing line
NoPing     == -1
MaxIdle    == MaxTimeout + Grace

States  == {"init", "connecting", "connected", "disconnected"}
IrcPCs  == {"connect", "run", "top", "poll", "select", "process", "peer",
            "establish", "pass", "nick", "user", "read", "lines", "write",
            "send", "drop", "returned"}

TypeOK ==
  /\ state \in States
  /\ sock \in {"open", "closed"}
  /\ ircPc \in IrcPCs
  /\ fds \in SUBSET {"in", "out", "dcc"}
  /\ idle \in 0 .. MaxIdle
  /\ ping_sent \in BOOLEAN
  /\ mutex_session \in Actors \cup {Nobody}
  /\ sendPc \in [Actors -> {"none", "lock", "text", "crlf"}]
  /\ line \in [Actors -> Nat]
  /\ closing \in SUBSET Users
  /\ outgoing \in Seq(Cells) /\ Len(outgoing) < BufSize
  /\ incoming \in Seq(Cells) /\ Len(incoming) < BufSize
  /\ wire \in Seq(Cells)
  /\ arriving \in Seq(Cells)
  /\ serverOpen \in BOOLEAN
  /\ queued \in Seq(Cells)
  /\ served \in Seq(Cells)
  /\ processed \in Seq(Cells)
  /\ unanswered \in {NoPing} \cup 0 .. Grace

\* irc_connect has created the socket (line 220).  A disconnect that comes earlier
\* closes nothing and leaves no trace: it is part of ServerThreads.
Init ==
  /\ state = "init"
  /\ sock = "open"
  /\ ircPc = "connect"
  /\ fds = {}
  /\ idle = 0 /\ ping_sent = FALSE /\ unanswered = NoPing
  /\ mutex_session = Nobody
  /\ sendPc = [a \in Actors |-> "none"]
  /\ line = [a \in Actors |-> 0]
  /\ closing = {}
  /\ outgoing = <<>> /\ wire = <<>> /\ queued = <<>>
  /\ incoming = <<>> /\ arriving = <<>> /\ served = <<>> /\ processed = <<>>
  /\ serverOpen = TRUE

-----------------------------------------------------------------------------
Lesser(a, b)  == IF a < b THEN a ELSE b
From(s, i)    == SubSeq(s, i, Len(s))
IsConnected   == state \in {"connecting", "connected"}

\* libirc_findcrlf: the first line of buf ends in cell i
FindCrlf(buf, i) == /\ i \in 1 .. Len(buf) /\ buf[i].last
                    /\ \A j \in 1 .. i - 1 : ~buf[j].last
HasLine(buf)     == \E i \in 1 .. Len(buf) : buf[i].last

(***************************************************************************)
(* irc_send_raw, called by any thread.  A line is refused unless the       *)
(* session is connected and the buffer has room for it.                    *)
(***************************************************************************)
Called(a) == sendPc' = IF state = "connected" THEN [sendPc EXCEPT ![a] = "lock"]
                       ELSE sendPc

\* Mutant: the mutex is not waited for.
AcceptUnlocked(a) ==
  /\ sendPc[a] = "lock"
  /\ IF LineLength >= BufSize - Len(outgoing)
     THEN /\ sendPc' = [sendPc EXCEPT ![a] = "none"]
          /\ UNCHANGED <<line, mutex_session, queued>>
     ELSE LET n == Len(queued) \div LineLength + 1
          IN  /\ sendPc' = [sendPc EXCEPT ![a] = "text"]
              /\ line' = [line EXCEPT ![a] = n]
              /\ mutex_session' = a
              /\ queued' = queued \o <<Text(n), Crlf(n)>>
  /\ UNCHANGED <<state, sock, ircPc, fds, clock, closing, outgoing, wire, in>>

\* Mutant: one cell more than there is room for.
AcceptOffByOne(a) ==
  /\ sendPc[a] = "lock" /\ mutex_session = Nobody
  /\ IF LineLength > BufSize - Len(outgoing)
     THEN /\ sendPc' = [sendPc EXCEPT ![a] = "none"]
          /\ UNCHANGED <<line, mutex_session, queued>>
     ELSE LET n == Len(queued) \div LineLength + 1
          IN  /\ sendPc' = [sendPc EXCEPT ![a] = "text"]
              /\ line' = [line EXCEPT ![a] = n]
              /\ mutex_session' = a
              /\ queued' = queued \o <<Text(n), Crlf(n)>>
  /\ UNCHANGED <<state, sock, ircPc, fds, clock, closing, outgoing, wire, in>>

\* The mutex is taken; without room it is left again at once.
Accept(a) ==
  /\ sendPc[a] = "lock" /\ mutex_session = Nobody
  /\ IF LineLength >= BufSize - Len(outgoing)
     THEN /\ sendPc' = [sendPc EXCEPT ![a] = "none"]
          /\ UNCHANGED <<line, mutex_session, queued>>
     ELSE LET n == Len(queued) \div LineLength + 1
          IN  /\ sendPc' = [sendPc EXCEPT ![a] = "text"]
              /\ line' = [line EXCEPT ![a] = n]
              /\ mutex_session' = a
              /\ queued' = queued \o <<Text(n), Crlf(n)>>
  /\ UNCHANGED <<state, sock, ircPc, fds, clock, closing, outgoing, wire, in>>

\* strcpy, and outgoing_offset moves on
CopyText(a) ==
  /\ sendPc[a] = "text"
  /\ outgoing' = Append(outgoing, Text(line[a]))
  /\ sendPc' = [sendPc EXCEPT ![a] = "crlf"]
  /\ UNCHANGED <<state, sock, ircPc, fds, clock, line, mutex_session, closing,
                 wire, queued, in>>

\* 0x0D, 0x0A, and the mutex is left
CopyCrlf(a) ==
  /\ sendPc[a] = "crlf"
  /\ outgoing' = Append(outgoing, Crlf(line[a]))
  /\ sendPc' = [sendPc EXCEPT ![a] = "none"]
  /\ line' = [line EXCEPT ![a] = 0]
  /\ mutex_session' = Nobody
  /\ UNCHANGED <<state, sock, ircPc, fds, clock, closing, wire, queued, in>>

SendRaw(a) == Accept(a) \/ CopyText(a) \/ CopyCrlf(a)

-----------------------------------------------------------------------------
(***************************************************************************)
(* Users.                                                                  *)
(***************************************************************************)
UserSends(u) ==
  /\ sendPc[u] = "none" /\ u \notin closing
  /\ state = "connected"
  /\ Len(queued) < MaxQueued
  /\ Called(u)
  /\ UNCHANGED <<state, sock, ircPc, fds, clock, line, mutex_session, closing,
                 out, in>>

\* irc_disconnect: the socket is closed, then the state is set.
CloseSocket(u) ==
  /\ sendPc[u] = "none" /\ u \notin closing
  /\ sock = "open"
  /\ sock' = "closed"
  /\ closing' = closing \cup {u}
  /\ UNCHANGED <<state, ircPc, fds, clock, sending, out, in>>

ResetState(u) ==
  /\ u \in closing
  /\ state' = "init"
  /\ closing' = closing \ {u}
  /\ UNCHANGED <<sock, ircPc, fds, clock, sending, out, in>>

-----------------------------------------------------------------------------
(***************************************************************************)
(* The server.                                                             *)
(***************************************************************************)
ServerSends(last) ==
  /\ serverOpen /\ ircPc # "connect"
  /\ Len(served) < MaxServed
  /\ LET c == [line |-> Len(served) + 1, last |-> last]
     IN  served' = Append(served, c) /\ arriving' = Append(arriving, c)
  /\ UNCHANGED <<state, sock, ircPc, fds, clock, sending, closing, out, incoming,
                 processed, serverOpen>>

ServerCloses ==
  /\ serverOpen /\ ircPc # "connect"
  /\ serverOpen' = FALSE
  /\ UNCHANGED <<state, sock, ircPc, fds, clock, sending, closing, out, incoming,
                 arriving, served, processed>>

-----------------------------------------------------------------------------
(***************************************************************************)
(* The session's thread.  It takes no step of its own inside irc_send_raw. *)
(***************************************************************************)
Goto(from, to) == /\ ircPc = from /\ sendPc[Irc] = "none"
                  /\ ircPc' = to

Readable == arriving # <<>> \/ ~serverOpen

\* irc_connect blocks; when it succeeds it sets the state, whatever that is now.
Connect ==
  /\ \/ Goto("connect", "run") /\ state' = "connecting"
     \/ Goto("connect", "returned") /\ state' = state
  /\ UNCHANGED <<sock, fds, clock, sending, closing, out, in>>

\* irc_run starts: last_ping=clock(), ping_sent=FALSE
StartRun ==
  /\ Goto("run", IF state = "connecting" THEN "top" ELSE "returned")
  /\ idle' = 0 /\ ping_sent' = FALSE
  /\ UNCHANGED <<state, sock, fds, unanswered, sending, closing, out, in>>

\* while(irc_is_connected(session))
NextRound ==
  /\ Goto("top", IF IsConnected THEN "poll" ELSE "returned")
  /\ fds' = {}
  /\ UNCHANGED <<state, sock, clock, sending, closing, out, in>>

\* irc_add_select_descriptors; what it returns is ignored.
AddDescriptors ==
  /\ Goto("poll", "select")
  /\ mutex_session = Nobody
  /\ fds' =
       CASE state = "connecting" -> {"out"}
         [] state = "connected"  -> {d \in {"in"} : Len(incoming) < BufSize - 1} \cup
                                    {d \in {"out"} : HasLine(outgoing)}
         [] OTHER                -> {}
  /\ UNCHANGED <<state, sock, clock, sending, closing, out, in>>

\* select fails on a closed socket, and on three empty sets.
SelectFails ==
  /\ sock = "closed" \/ fds = {}
  /\ Goto("select", "returned")
  /\ UNCHANGED <<state, sock, fds, clock, sending, closing, out, in>>

Waited(d) == IF unanswered = NoPing THEN NoPing ELSE Lesser(unanswered + d, Grace)

\* select finds descriptors ready, d ticks after the round before.
SelectReady(d, R) ==
  /\ sock = "open"
  /\ R # {} /\ R \cap {"in", "out"} \subseteq fds
  /\ "in" \in R <=> "in" \in fds /\ Readable
  /\ "dcc" \in R => Dcc /\ Len(queued) < MaxQueued
  /\ Goto("select", "process")
  /\ fds' = R
  /\ idle' = IF R \cap {"in", "dcc"} # {} THEN 0 ELSE Lesser(idle + d, MaxIdle)
  /\ ping_sent' = (ping_sent /\ R \cap {"in", "dcc"} = {})
  /\ unanswered' = IF "in" \in R THEN NoPing ELSE Waited(d)
  /\ UNCHANGED <<state, sock, sending, closing, out, in>>

\* select times out after d ticks with nothing ready.
IdleRound(d) ==
  /\ sock = "open" /\ ircPc = "select"
  /\ fds # {} \/ Dcc
  /\ ~("in" \in fds /\ Readable)
  /\ fds' = {}
  /\ idle' = Lesser(idle + d, MaxIdle)

\* Mutant: the grace period is not looked at.
IdleNeverDrops(d) ==
  /\ IdleRound(d)
  /\ \/ idle' < MaxTimeout
     \/ ping_sent
  /\ Goto("select", "process")
  /\ unanswered' = Waited(d)
  /\ UNCHANGED <<state, sock, ping_sent, sending, closing, out, in>>

IdleWaits(d) ==
  /\ IdleRound(d)
  /\ \/ idle' < MaxTimeout
     \/ idle' < MaxIdle /\ ping_sent
  /\ Goto("select", "process")
  /\ unanswered' = Waited(d)
  /\ UNCHANGED <<state, sock, ping_sent, sending, closing, out, in>>

\* PING is queued, if there is room for it.
IdlePings(d) ==
  /\ IdleRound(d)
  /\ idle' >= MaxTimeout /\ idle' < MaxIdle /\ ~ping_sent
  /\ Goto("select", "process")
  /\ ping_sent' = TRUE
  /\ Called(Irc)
  /\ unanswered' = IF unanswered = NoPing THEN 0 ELSE Waited(d)
  /\ UNCHANGED <<state, sock, line, mutex_session, closing, out, in>>

\* No PONG in 15 seconds: irc_disconnect.
IdleDrops(d) ==
  /\ IdleRound(d)
  /\ idle' = MaxIdle
  /\ Goto("select", "drop")
  /\ sock' = "closed"
  /\ unanswered' = Waited(d)
  /\ UNCHANGED <<state, ping_sent, sending, closing, out, in>>

Drop ==
  /\ Goto("drop", "process")
  /\ state' = "init"
  /\ UNCHANGED <<sock, fds, clock, sending, closing, out, in>>

IsSet(d) == d \in fds /\ sock = "open"

\* irc_process_select_descriptors goes by the state and the sets.
Process ==
  /\ Goto("process",
          CASE ~IsConnected                 -> "returned"
            [] state = "connecting"         -> IF IsSet("out") THEN "peer" ELSE "returned"
            [] state = "connected" /\ IsSet("in") -> "read"
            [] state = "connected" /\ ~IsSet("in") /\ IsSet("out") -> "write"
            [] OTHER                        -> "top")
  /\ UNCHANGED <<state, sock, fds, clock, sending, closing, out, in>>

\* getpeername tells whether the connection was made.
CheckPeer ==
  /\ \/ Goto("peer", "establish") /\ sock = "open" /\ state' = state
     \/ Goto("peer", "returned") /\ state' = "disconnected"
  /\ UNCHANGED <<sock, fds, clock, sending, closing, out, in>>

Establish ==
  /\ Goto("establish", "pass")
  /\ state' = "connected"
  /\ UNCHANGED <<sock, fds, clock, sending, closing, out, in>>

\* PASS if there is a password, then NICK and USER.
Register ==
  /\ \/ Goto("pass", "nick")
     \/ Goto("nick", "user")
     \/ Goto("user", "top")
  /\ \/ Called(Irc)
     \/ ircPc = "pass" /\ UNCHANGED sendPc
  /\ UNCHANGED <<state, sock, fds, clock, line, mutex_session, closing, out, in>>

\* socket_recv returns what has arrived, or a part of it.
Read ==
  /\ sock = "open" /\ arriving # <<>>
  /\ Goto("read", "lines")
  /\ \E k \in 1 .. Lesser(Len(arriving), BufSize - 1 - Len(incoming)) :
       /\ incoming' = incoming \o SubSeq(arriving, 1, k)
       /\ arriving' = From(arriving, k + 1)
  /\ UNCHANGED <<state, sock, fds, clock, sending, closing, out, served, processed,
                 serverOpen>>

\* Mutant: the end of the stream is taken for an error to be retried.
ReadFailsRetries ==
  /\ sock = "closed" \/ ~serverOpen
  /\ Goto("read", "top")
  /\ UNCHANGED <<state, sock, fds, clock, sending, closing, out, in>>

\* The server has closed or reset the connection, or the socket is closed.
ReadFails ==
  /\ sock = "closed" \/ ~serverOpen
  /\ Goto("read", "returned")
  /\ state' = "disconnected"
  /\ UNCHANGED <<sock, fds, clock, sending, closing, out, in>>

\* Mutant: what follows the line in the buffer is dropped with it.
ProcessLineDropsRest ==
  /\ Goto("lines", "lines")
  /\ \E i \in 1 .. Len(incoming) :
       /\ FindCrlf(incoming, i)
       /\ processed' = processed \o SubSeq(incoming, 1, i)
       /\ incoming' = <<>>
  /\ \/ UNCHANGED sendPc
     \/ Len(queued) < MaxQueued /\ Called(Irc)
  /\ UNCHANGED <<state, sock, fds, clock, line, mutex_session, closing, out,
                 arriving, served, serverOpen>>

\* libirc_process_incoming_data: PING is answered by PONG, and an event handler
\* may send a line too.  Then the line leaves the buffer.
ProcessLine ==
  /\ Goto("lines", "lines")
  /\ \E i \in 1 .. Len(incoming) :
       /\ FindCrlf(incoming, i)
       /\ processed' = processed \o SubSeq(incoming, 1, i)
       /\ incoming' = From(incoming, i + 1)
  /\ \/ UNCHANGED sendPc
     \/ Len(queued) < MaxQueued /\ Called(Irc)
  /\ UNCHANGED <<state, sock, fds, clock, line, mutex_session, closing, out,
                 arriving, served, serverOpen>>

LinesDone ==
  /\ Goto("lines", IF IsSet("out") THEN "write" ELSE "top")
  /\ ~HasLine(incoming)
  /\ UNCHANGED <<state, sock, fds, clock, sending, closing, out, in>>

\* libirc_mutex_lock, then socket_send
Write ==
  /\ Goto("write", "send")
  /\ mutex_session = Nobody
  /\ mutex_session' = Irc
  /\ UNCHANGED <<state, sock, fds, clock, sendPc, line, closing, out, in>>

\* Mutant: writing without having heard from the server starts no PING.
SendDoneNoPing ==
  /\ sock = "open"
  /\ Goto("send", "top")
  /\ \E k \in 1 .. Len(outgoing) :
       /\ wire' = wire \o SubSeq(outgoing, 1, k)
       /\ outgoing' = From(outgoing, k + 1)
  /\ mutex_session' = Nobody
  /\ UNCHANGED <<state, sock, fds, clock, sendPc, line, closing, queued, in>>

\* The socket takes cells (a blocking one all of them; the code allows for
\* less).  With no word from the server for 3/4 of max_timeout, last_ping is set
\* back so that the next idle round sends PING.
SendDone ==
  /\ sock = "open"
  /\ Goto("send", "top")
  /\ \E k \in 1 .. Len(outgoing) :
       /\ wire' = wire \o SubSeq(outgoing, 1, k)
       /\ outgoing' = From(outgoing, k + 1)
  /\ idle' = IF ~ping_sent /\ idle >= (MaxTimeout * 3) \div 4 THEN MaxTimeout
             ELSE idle
  /\ mutex_session' = Nobody
  /\ UNCHANGED <<state, sock, fds, ping_sent, unanswered, sendPc, line, closing,
                 queued, in>>

\* Mutant: the error path does not leave the mutex.
SendFailsKeepsMutex ==
  /\ Goto("send", "returned")
  /\ state' = "disconnected"
  /\ UNCHANGED <<sock, fds, clock, sending, closing, out, in>>

SendFails ==
  /\ Goto("send", "returned")
  /\ state' = "disconnected"
  /\ mutex_session' = Nobody
  /\ UNCHANGED <<sock, fds, clock, sendPc, line, closing, out, in>>

-----------------------------------------------------------------------------
Run == \/ Connect \/ StartRun \/ NextRound \/ AddDescriptors \/ SelectFails
       \/ \E d \in 0 .. MaxStall, R \in SUBSET {"in", "out", "dcc"} : SelectReady(d, R)
       \/ \E d \in 1 .. MaxStall : IdleWaits(d) \/ IdlePings(d) \/ IdleDrops(d)
       \/ Drop \/ Process \/ CheckPeer \/ Establish \/ Register
       \/ Read \/ ReadFails \/ ProcessLine \/ LinesDone
       \/ Write \/ SendDone \/ SendFails

Server == (\E last \in BOOLEAN : ServerSends(last)) \/ ServerCloses

User(u) == UserSends(u) \/ CloseSocket(u)

Next == \/ Run
        \/ Server
        \/ \E a \in Actors : SendRaw(a)
        \/ \E u \in Users : User(u) \/ ResetState(u)

(***************************************************************************)
(* Fairness: the threads run, and a select round or a send comes to an     *)
(* end.  For send this is asked of the network: it takes what is sent or   *)
(* reports an error.  Neither the server nor a user has to do anything.    *)
(***************************************************************************)
Fairness == /\ WF_vars(Run)
            /\ \A a \in Actors : WF_vars(SendRaw(a))
            /\ \A u \in Users : WF_vars(ResetState(u))

Spec     == Init /\ [][Next]_vars
FairSpec == Spec /\ Fairness

-----------------------------------------------------------------------------
(***************************************************************************)
(* Properties.                                                             *)
(***************************************************************************)

\* Lines of all threads reach the server whole, in the order they were accepted
\* in, each once; the mutex keeps them apart from each other and from send.
OutStream == INSTANCE Stream WITH put <- queued, got <- wire
LinesLeaveInOrder == OutStream!Spec

\* However recv cuts the stream, the event handlers get what the server sent, in
\* order, each line once.
InStream == INSTANCE Stream WITH put <- served, got <- processed
LinesArriveInOrder == InStream!Spec

\* The keepalive disconnects only a server it has tried to reach: the PING is
\* queued, or found no room, at least one round before (libircclient.c:465).
DropsOnlyAfterPing == ircPc = "drop" => ping_sent

\* "disconnect if no pong in 15secs": an idle round that comes that long after
\* a PING, with no data from the server since, is the last one.
NoPongDisconnects ==
  [][ircPc = "select" /\ fds' = {} /\ ircPc' # "returned" /\ unanswered' = Grace
       => ircPc' = "drop" \/ ircPc' = "select"]_vars

\* A session whose server falls silent comes to an end, however it is used.
SilentServerNoticed == <>[][UNCHANGED served]_vars => <>(ircPc = "returned")

\* irc_disconnect ends the run of the session, and so does a server that closes.
ClosedSessionReturns ==
  (sock = "closed" \/ ~serverOpen) /\ ircPc # "connect" ~> ircPc = "returned"

\* A thread that sends a line gets out of irc_send_raw: the mutex is always left.
SendRawReturns == \A a \in Actors : sendPc[a] # "none" ~> sendPc[a] = "none"
=============================================================================
