----------------------------- MODULE PostThread -----------------------------
(***************************************************************************)
(* Posting a file or a long paste (channel_window_stuff.h).  The UI thread *)
(* starts a thread that sends the text line by line, a second apart; it    *)
(* reads the table entry of its window, and the two flags it shares with   *)
(* the UI thread, without a lock.  Meanwhile the window may lose its       *)
(* session, get it back, close, or leave its entry to another window.      *)
(***************************************************************************)
EXTENDS Integers, Sequences

CONSTANTS PostTexts,      \* lengths of the texts posted, in lines
          BlankLines,     \* the numbers of lines that are not valid_text
          MaxPostLines,   \* the 1000 of post_msg_thread
          PostPatience    \* tries of one line that fit in 7 seconds

ASSUME PostAssumption ==
  /\ PostTexts \subseteq Nat /\ BlankLines \subseteq Nat
  /\ MaxPostLines \in Nat /\ PostPatience \in Nat

VARIABLES
  post_thread_busy, post_stop,
  post_hwnd, post_session,  \* the window's entry: is it a window, has it a session
  post_pc,                  \* where the thread is
  post_len,                 \* lines of the text
  post_line, post_tries,    \* the line it is at, and the tries that failed
  posted,                   \* history: the lines of the text that were sent
  post_held,                \* history: the window has had its session all along
  stopped,                  \* history: when /stop came: never, too early or heard
  sent_after                \* history: lines sent since

postShared == <<post_thread_busy, post_stop>>
postEntry == <<post_hwnd, post_session>>
postHistory == <<posted, post_held, stopped, sent_after>>
postVars == <<postShared, postEntry, post_pc, post_len, post_line, post_tries, postHistory>>

PostInit ==
  /\ post_thread_busy = FALSE /\ post_stop = FALSE
  /\ post_hwnd = TRUE /\ post_session = TRUE
  /\ post_pc = "none" /\ post_len = 0 /\ post_line = 1 /\ post_tries = 0
  /\ posted = <<>> /\ post_held = TRUE /\ stopped = "never" /\ sent_after = 0

-----------------------------------------------------------------------------
\* The UI thread, and the connection's thread that takes the session away.

\* post_long_message: a window without a connection, or a posting under way, and
\* nothing is done; a thread that cannot be created leaves all as it was.
PostLong(n) ==
  /\ post_hwnd /\ post_session /\ ~post_thread_busy
  /\ post_thread_busy' = TRUE
  /\ post_pc' = "created" /\ post_len' = n
  /\ posted' = <<>> /\ post_held' = TRUE /\ stopped' = "never" /\ sent_after' = 0
  /\ UNCHANGED <<post_stop, postEntry, post_line, post_tries>>

\* cmd_stop, from any window that is connected.
Stop ==
  /\ post_stop' = TRUE
  /\ stopped' = CASE post_pc = "created" -> "early"
                  [] post_pc \notin {"none", "created"} /\ stopped # "heard" -> "heard"
                  [] OTHER -> stopped
  /\ sent_after' = IF stopped' = stopped THEN sent_after ELSE 0
  /\ UNCHANGED <<post_thread_busy, postEntry, post_pc, post_len, post_line, post_tries, posted, post_held>>

\* The entry: its session ends or starts, it is erased, it gets a window again.
Entry(hwnd, session) ==
  /\ post_hwnd' = hwnd /\ post_session' = session
  /\ post_held' = (post_held /\ hwnd /\ session)
  /\ UNCHANGED <<postShared, post_pc, post_len, post_line, post_tries, posted, stopped, sent_after>>

LoseSession == post_hwnd /\ Entry(TRUE, FALSE)
GetSession == post_hwnd /\ Entry(TRUE, TRUE)
CloseWindow == post_hwnd /\ Entry(FALSE, FALSE)
ReuseEntry(session) == ~post_hwnd /\ Entry(TRUE, session)

-----------------------------------------------------------------------------
\* The thread.
Go(from, to) == post_pc = from /\ post_pc' = to
Waits == UNCHANGED <<postShared, postEntry, post_len, post_line, post_tries, postHistory>>

Begin ==
  /\ Go("created", "line")
  /\ post_stop' = FALSE
  /\ post_line' = 1
  /\ UNCHANGED <<post_thread_busy, postEntry, post_len, post_tries, postHistory>>

\* The next line of the text, if there is one; a blank one is passed over.
TakeLine ==
  /\ Go("line", CASE post_line > post_len -> "exit"
                  [] post_line <= post_len /\ post_line \in BlankLines -> "after"
                  [] OTHER -> "try")
  /\ post_tries' = 0
  /\ UNCHANGED <<postShared, postEntry, post_len, post_line, postHistory>>

\* Stopped, or without a window or a session, the thread gives the line up.
Try ==
  /\ Go("try", IF post_stop \/ ~post_hwnd \/ ~post_session THEN "after" ELSE "send")
  /\ Waits

\* Mutant: the flag is cleared with every line, not once.
SentAndCleared ==
  /\ Go("send", "after")
  /\ post_session
  /\ post_stop' = FALSE
  /\ posted' = Append(posted, post_line)
  /\ sent_after' = IF stopped = "never" THEN 0 ELSE sent_after + 1
  /\ UNCHANGED <<post_thread_busy, postEntry, post_len, post_line, post_tries, post_held, stopped>>

\* irc_cmd_msg takes the line; it is shown, and the thread sleeps.
Sent ==
  /\ Go("send", "after")
  /\ post_session
  /\ posted' = Append(posted, post_line)
  /\ sent_after' = IF stopped = "never" THEN 0 ELSE sent_after + 1
  /\ UNCHANGED <<postShared, postEntry, post_len, post_line, post_tries, post_held, stopped>>

\* Mutant: a line that is refused is given up.
GivenUp == Go("send", "after") /\ post_session /\ Waits

\* irc_cmd_msg refuses it: its buffer is full.
Refused == Go("send", "retry") /\ post_session /\ Waits

\* The session was taken away since Try: the thread uses a null pointer, or the freed
\* session it had read, and the program ends.
NullSession == Go("send", "crash") /\ ~post_session /\ Waits

\* Mutant: the time is taken anew with each try.
RetryAnew ==
  /\ Go("retry", IF post_tries + 1 > PostPatience THEN "exit" ELSE "try")
  /\ UNCHANGED <<postShared, postEntry, post_len, post_line, post_tries, postHistory>>

\* After the time out, all that is left is given up.
Retry ==
  /\ Go("retry", IF post_tries + 1 > PostPatience THEN "exit" ELSE "try")
  /\ post_tries' = post_tries + 1
  /\ UNCHANGED <<postShared, postEntry, post_len, post_line, postHistory>>

AfterLine ==
  /\ Go("after", IF post_line > MaxPostLines \/ post_stop THEN "exit" ELSE "line")
  /\ post_line' = post_line + 1
  /\ UNCHANGED <<postShared, postEntry, post_len, post_tries, postHistory>>

Exit ==
  /\ Go("exit", "none")
  /\ post_thread_busy' = FALSE
  /\ UNCHANGED <<post_stop, postEntry, post_len, post_line, post_tries, postHistory>>

PostStep ==
  Begin \/ TakeLine \/ Try \/ Sent \/ Refused \/ NullSession \/ Retry \/ AfterLine \/ Exit

PostUi ==
  \/ \E n \in PostTexts : PostLong(n)
  \/ Stop
  \/ LoseSession
  \/ GetSession
  \/ CloseWindow
  \/ \E session \in BOOLEAN : ReuseEntry(session)

\* Nothing moves in a program that has ended.
PostNext == PostStep \/ (post_pc # "crash" /\ PostUi)

\* The thread is scheduled.
PostFair == WF_postVars(PostStep)

PostSpec == PostInit /\ [][PostNext]_postVars /\ PostFair

-----------------------------------------------------------------------------
\* The thread is at one of its steps, within the text and its patience.
PostTypeOK ==
  /\ post_thread_busy \in BOOLEAN /\ post_stop \in BOOLEAN
  /\ post_hwnd \in BOOLEAN /\ post_session \in BOOLEAN
  /\ post_pc \in {"none", "created", "line", "try", "send", "retry", "after", "exit", "crash"}
  /\ post_len \in PostTexts \cup {0} /\ post_line \in Nat /\ post_tries \in 0 .. PostPatience + 1
  /\ posted \in Seq(Nat) /\ post_held \in BOOLEAN
  /\ stopped \in {"never", "early", "heard"} /\ sent_after \in Nat

\* Each line is sent once at most and in its place; and however often the output
\* buffer was full, the lines before the current one have all been sent, unless they
\* were blank or the window was without its session at some time.
EveryLineOnce ==
  /\ \A i, j \in DOMAIN posted : i < j => posted[i] < posted[j]
  /\ post_held /\ post_pc \notin {"none", "created", "exit"} =>
       \A l \in 1 .. post_line - 1 : l \in BlankLines \/ \E i \in DOMAIN posted : posted[i] = l

\* After a /stop given while the thread is at work, wherever it is, it sends one more
\* line at most.
StopEndsPosting == stopped = "heard" => sent_after <= 1

\* What the list of commands says of /stop, "stop posting long message": given while
\* a posting is under way, it ends it. The thread clears the flag when it starts.
StopHeeded == stopped # "never" => sent_after <= 1

\* Whatever happens to the window and however long the server takes nothing, each
\* posting ends and another one can begin, unless the program has ended.
PostingEnds == post_thread_busy ~> (~post_thread_busy \/ post_pc = "crash")
=============================================================================
