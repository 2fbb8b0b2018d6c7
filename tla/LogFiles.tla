------------------------------ MODULE LogFiles ------------------------------
(***************************************************************************)
(* The open log files (file_logging.h).  Every line shown in a channel or  *)
(* private window goes through log_str, called by the UI thread and by the *)
(* connection threads; a table keeps the files open between lines.  Each   *)
(* function holds log_mutex from its first to its last look at the table,  *)
(* so it is one step.  What is buffered in a file is not modelled, so       *)
(* /flushlogs, which leaves the table alone, is no step at all.            *)
(***************************************************************************)
EXTENDS Integers

CONSTANTS LogSlots,       \* entries of log_files
          LogFileOf,      \* the file sanitize_fname makes of "channel.network.log"
          NoLog,          \* the empty name
          LogFlushDelay,  \* FLUSH_DELAY
          LogCloseDelay,  \* CLOSE_DELAY
          LogTicks,       \* GetTickCount counts modulo this
          LogMaxTime      \* bound: the time a run lasts

ASSUME LogAssumption ==
  /\ LogSlots \in Nat \ {0}
  /\ LogFlushDelay \in Nat /\ LogCloseDelay \in Nat
  /\ LogTicks \in Nat \ {0} /\ LogMaxTime \in Nat
  /\ \A w \in DOMAIN LogFileOf : LogFileOf[w] # NoLog

LogWindows == DOMAIN LogFileOf
LogNames == {LogFileOf[w] : w \in LogWindows}
Slots == 1 .. LogSlots

VARIABLES
  log_files,   \* per slot: its name, whether its file is open, and two tick counts
  log_enable,  \* the setting
  files_open,  \* log_str's own note that it may have left files open
  log_clock,   \* time since the computer started
  log_flushed  \* history: the time, not wrapped, at which lastflush was set

logVars == <<log_files, log_enable, files_open, log_clock, log_flushed>>

EmptyLog == [name |-> NoLog, f |-> FALSE, tick |-> 0, lastflush |-> 0]

LogInit ==
  /\ log_files = [i \in Slots |-> EmptyLog]
  /\ log_enable \in BOOLEAN
  /\ files_open = FALSE
  /\ log_clock = 0
  /\ log_flushed = [i \in Slots |-> 0]

GetTickCount == log_clock % LogTicks

\* Unsigned addition of 32 bits, here of LogTicks values.
Later(tick, delay) == (tick + delay) % LogTicks

Named(name) == {i \in Slots : log_files[i].name = name}
Unused == {i \in Slots : ~log_files[i].f /\ log_files[i].name = NoLog}
Lowest(S) == {i \in S : \A j \in S : i <= j}

\* Mutant: a free slot is taken before the file is looked for.
FirstFree(name) == IF Unused = {} THEN Named(name) ELSE Lowest(Unused)

\* acquire_log_file: the slot that has the name, or else the first unused one; the
\* empty set when there is none.
Acquire(name) == Lowest(IF Named(name) # {} THEN Named(name) ELSE Unused)

\* fopen and fprintf on the slot acquired; opening may fail, and lastflush then waits
\* for the time the file is opened.
Written(i, name, opens) ==
  LET log == log_files[i] IN
  IF log.f
  THEN [log EXCEPT !.tick = GetTickCount]
  ELSE [name |-> name, f |-> opens,
        tick |-> IF opens THEN GetTickCount ELSE log.tick,
        lastflush |-> GetTickCount]

Idle(log) == log.f /\ GetTickCount > Later(log.tick, LogCloseDelay)

\* Mutant: the time of the last line is looked at, not that of the last flush.
DueByTick(log) == log.f /\ ~Idle(log) /\ GetTickCount > Later(log.tick, LogFlushDelay)

Due(log) == log.f /\ ~Idle(log) /\ GetTickCount > Later(log.lastflush, LogFlushDelay)

\* close_old_files
Swept(log) ==
  CASE Idle(log) -> EmptyLog
    [] Due(log) -> [log EXCEPT !.lastflush = GetTickCount]
    [] OTHER -> log

\* close_all_logs: a slot whose file could not be opened keeps its name.
AllClosed == [i \in Slots |-> IF log_files[i].f THEN EmptyLog ELSE log_files[i]]

\* log_str with the setting on.
WriteLine(w, opens) ==
  LET name == LogFileOf[w]
      at == Acquire(name)
      written == [i \in Slots |-> IF i \in at THEN Written(i, name, opens) ELSE log_files[i]]
  IN /\ log_enable
     /\ log_files' = [i \in Slots |-> Swept(written[i])]
     /\ files_open' = (files_open \/ \E i \in at : written[i].f)
     /\ log_flushed' = [i \in Slots |->
          IF Due(written[i]) \/ (written[i].f /\ ~log_files[i].f) THEN log_clock ELSE log_flushed[i]]
     /\ UNCHANGED <<log_enable, log_clock>>

LinesOff ==
  /\ log_files' = IF files_open THEN AllClosed ELSE log_files
  /\ files_open' = FALSE
  /\ UNCHANGED <<log_clock, log_flushed>>

\* log_str with the setting off.
NoLine == ~log_enable /\ LinesOff /\ UNCHANGED log_enable

\* The settings dialog; turning the logs off calls log_str.
TurnOn == log_enable' = TRUE /\ UNCHANGED <<log_files, files_open, log_clock, log_flushed>>
\* Mutant: log_str is not called, the next line is to close the files.
TurnOffOnly ==
  log_enable' = FALSE /\ UNCHANGED <<log_files, files_open, log_clock, log_flushed>>
TurnOff == log_enable' = FALSE /\ LinesOff

\* close_log, when a window closes: its name is not sanitized, so w is the name of
\* the file itself only for a window whose name needs no change.
CloseLog(w) ==
  /\ log_files' = [i \in Slots |-> IF w # NoLog /\ log_files[i].name = w THEN EmptyLog ELSE log_files[i]]
  /\ UNCHANGED <<log_enable, files_open, log_clock, log_flushed>>

LogTime ==
  /\ log_clock < LogMaxTime
  /\ log_clock' = log_clock + 1
  /\ UNCHANGED <<log_files, log_enable, files_open, log_flushed>>

LogNext ==
  \/ \E w \in LogWindows, opens \in BOOLEAN : WriteLine(w, opens)
  \/ NoLine
  \/ TurnOn
  \/ TurnOff
  \/ \E w \in LogWindows : CloseLog(w)
  \/ LogTime

LogSpec == LogInit /\ [][LogNext]_logVars

-----------------------------------------------------------------------------
\* Every slot holds a name, a file and two tick counts.
LogTypeOK ==
  /\ log_files \in [Slots -> [name : LogNames \cup {NoLog}, f : BOOLEAN,
                              tick : 0 .. LogTicks - 1, lastflush : 0 .. LogTicks - 1]]
  /\ log_enable \in BOOLEAN /\ files_open \in BOOLEAN
  /\ log_clock \in 0 .. LogMaxTime
  /\ log_flushed \in [Slots -> 0 .. LogMaxTime]

\* No two slots have the same file: two open handles would append to it with buffers
\* of their own, and lines would come out of order. The slots are reused by windows
\* in any order, kept when a file cannot be opened, and closed by idleness.
OneHandlePerFile ==
  \A i, j \in Slots :
    log_files[i].name = log_files[j].name /\ log_files[i].name # NoLog => i = j

\* While the setting is off no file is open, so the user can move or delete it; and
\* whatever was closed, swept or could not be opened before, log_str's own note of
\* open files is never stale the wrong way: it knows when there is something to close.
OffClosesFiles ==
  /\ ~log_enable => \A i \in Slots : ~log_files[i].f
  /\ (\E i \in Slots : log_files[i].f) => files_open

\* After each line logged, log_str has flushed every open file within FLUSH_DELAY,
\* busy or idle, unless GetTickCount has wrapped since: then lines may stay in memory
\* until the count is back where it was (49.7 days).
LinesReachDisk ==
  [][(log_enable /\ \E w \in LogWindows, opens \in BOOLEAN : WriteLine(w, opens)) =>
       \A i \in Slots : log_files'[i].f =>
         \/ log_clock - log_flushed'[i] <= LogFlushDelay
         \/ log_clock \div LogTicks # log_flushed'[i] \div LogTicks]_logVars
=============================================================================
