---------------------------- MODULE Parts_proofs ----------------------------
(***************************************************************************)
(* Parts that stand alone: the log files, the thread that posts a file,    *)
(* the script of a session, the locks, the text of a direct chat, the      *)
(* history of an edit line, and TAB in it.                                 *)
(***************************************************************************)
EXTENDS LogFiles, PostThread, LuaScript, Waiting, DccChat, EditHistory, TabComplete,
        SequenceTheorems, FiniteSetTheorems, WellFoundedInduction, TLAPS

\* A set of natural numbers has a least one.
LEMMA LeastOf ==
  ASSUME NEW S \in SUBSET Nat, S # {}
  PROVE  \E i \in S : \A j \in S : i <= j
<1>1. \E i \in S : \A j \in S : ~(<<j, i>> \in OpToRel(<, Nat))
  BY NatLessThanWellFounded, WFMin
<1>2. \A i, j \in S : <<j, i>> \notin OpToRel(<, Nat) => i <= j
  BY DEF OpToRel
<1> QED
  BY <1>1, <1>2

(***************************************************************************)
(* The table of open log files, for any number of slots, windows and file  *)
(* names, any delays and any range of the tick count.  The flushing of     *)
(* files needs the tick counts tied to the time they stand for.            *)
(***************************************************************************)
Log == [name : LogNames \cup {NoLog}, f : BOOLEAN,
        tick : 0 .. LogTicks - 1, lastflush : 0 .. LogTicks - 1]

\* What is assumed of the constants, as the proofs use it.
LEMMA LogConstants ==
  /\ Slots \subseteq Int
  /\ 0 \in 0 .. LogTicks - 1
  /\ NoLog \notin LogNames
  /\ EmptyLog \in Log /\ EmptyLog.name = NoLog /\ ~EmptyLog.f
BY LogAssumption DEF Slots, LogNames, LogWindows, EmptyLog, Log

\* GetTickCount is a tick count.
LEMMA TickType == log_clock \in Nat => GetTickCount \in 0 .. LogTicks - 1
BY LogAssumption DEF GetTickCount

\* What acquire_log_file returns has the name already, or is unused while no slot has it.
LEMMA AcquireFacts ==
  ASSUME NEW name, NEW i \in Acquire(name)
  PROVE  /\ i \in Slots
         /\ \/ log_files[i].name = name
            \/ /\ ~log_files[i].f /\ log_files[i].name = NoLog
               /\ \A j \in Slots : log_files[j].name # name
         /\ \A j \in Acquire(name) : i = j
BY LogConstants DEF Acquire, Lowest, Named, Unused

\* close_old_files closes what is idle, and opens nothing.
LEMMA SweptFacts ==
  ASSUME NEW log \in Log, log_clock \in Nat
  PROVE  /\ Swept(log) \in Log
         /\ Swept(log).f => log.f /\ ~Idle(log)
         /\ Swept(log).name \in {log.name, NoLog}
         /\ Swept(log).lastflush = IF Due(log) THEN GetTickCount
                                   ELSE IF Idle(log) THEN 0 ELSE log.lastflush
<1>1. CASE Idle(log)
  BY <1>1, LogConstants DEF Swept, Due, EmptyLog
<1>2. CASE ~Idle(log)
  BY <1>2, TickType DEF Swept, Due, Log
<1> QED
  BY <1>1, <1>2

\* log_str opens or flushes the slot it writes to.
LEMMA WrittenFacts ==
  ASSUME LogTypeOK, NEW i \in Slots, NEW name \in LogNames, NEW opens \in BOOLEAN
  PROVE  /\ Written(i, name, opens) \in Log
         /\ log_files[i].f => /\ Written(i, name, opens).f
                              /\ Written(i, name, opens).name = log_files[i].name
                              /\ Written(i, name, opens).lastflush = log_files[i].lastflush
         /\ ~log_files[i].f => /\ Written(i, name, opens).f = opens
                               /\ Written(i, name, opens).name = name
                               /\ Written(i, name, opens).lastflush = GetTickCount
<1>1. log_files[i] \in Log /\ GetTickCount \in 0 .. LogTicks - 1
  BY TickType, LogAssumption DEF LogTypeOK, Log
<1> QED
  BY <1>1 DEF Written, Log

\* The slots as log_str leaves them to close_old_files.
Lines(w, opens) ==
  [i \in Slots |-> IF i \in Acquire(LogFileOf[w]) THEN Written(i, LogFileOf[w], opens) ELSE log_files[i]]

\* log_str writes to one slot and sweeps all.
LEMMA WriteLineIs ==
  ASSUME NEW w \in LogWindows, NEW opens \in BOOLEAN, WriteLine(w, opens)
  PROVE  /\ log_enable
         /\ log_files' = [i \in Slots |-> Swept(Lines(w, opens)[i])]
         /\ files_open' = (files_open \/ \E i \in Acquire(LogFileOf[w]) : Lines(w, opens)[i].f)
         /\ log_flushed' = [i \in Slots |->
              IF Due(Lines(w, opens)[i]) \/ (Lines(w, opens)[i].f /\ ~log_files[i].f)
              THEN log_clock ELSE log_flushed[i]]
         /\ UNCHANGED <<log_enable, log_clock>>
BY DEF WriteLine, Lines

\* A slot keeps its file and its name, or it was unused and gets a name no slot has.
LEMMA LinesFacts ==
  ASSUME LogTypeOK, NEW w \in LogWindows, NEW opens \in BOOLEAN, NEW i \in Slots
  PROVE  /\ Lines(w, opens)[i] \in Log
         /\ \/ Lines(w, opens)[i].name = log_files[i].name
            \/ /\ i \in Acquire(LogFileOf[w])
               /\ Lines(w, opens)[i].name = LogFileOf[w]
               /\ \A j \in Slots : log_files[j].name # LogFileOf[w]
         /\ log_files[i].f => Lines(w, opens)[i].lastflush = log_files[i].lastflush
         /\ ~log_files[i].f /\ Lines(w, opens)[i].f => /\ i \in Acquire(LogFileOf[w])
                                                       /\ Lines(w, opens)[i].lastflush = GetTickCount
<1>1. log_files[i] \in Log /\ log_files[i].f \in BOOLEAN
  BY DEF LogTypeOK, Log
<1>2. LogFileOf[w] \in LogNames
  BY DEF LogNames
<1>3. CASE i \in Acquire(LogFileOf[w])
  <2>1. Lines(w, opens)[i] = Written(i, LogFileOf[w], opens)
    BY <1>3 DEF Lines
  <2>2. \/ log_files[i].name = LogFileOf[w]
        \/ ~log_files[i].f /\ \A j \in Slots : log_files[j].name # LogFileOf[w]
    BY <1>3, AcquireFacts
  <2> QED
    BY <1>1, <1>2, <1>3, <2>1, <2>2, WrittenFacts
<1>4. CASE i \notin Acquire(LogFileOf[w])
  BY <1>1, <1>4 DEF Lines
<1> QED
  BY <1>3, <1>4

-----------------------------------------------------------------------------
\* Every step keeps the table's types.
LEMMA LogTypeStep == LogTypeOK /\ [LogNext]_logVars => LogTypeOK'
<1> SUFFICES ASSUME LogTypeOK, [LogNext]_logVars
             PROVE  LogTypeOK'
  OBVIOUS
<1>1. log_files \in [Slots -> Log] /\ log_clock \in Nat
  BY LogAssumption DEF LogTypeOK, Log
<1>2. ASSUME NEW w \in LogWindows, NEW opens \in BOOLEAN, WriteLine(w, opens)
      PROVE  LogTypeOK'
  <2>1. \A i \in Slots : Swept(Lines(w, opens)[i]) \in Log
    BY <1>1, LinesFacts, SweptFacts
  <2>2. log_files' \in [Slots -> Log]
    BY <1>2, <2>1, WriteLineIs
  <2>3. files_open' \in BOOLEAN
    BY <1>2 DEF WriteLine
  <2>4. log_flushed' \in [Slots -> 0 .. LogMaxTime]
    BY <1>2, WriteLineIs DEF LogTypeOK
  <2> QED
    BY <1>2, <2>2, <2>3, <2>4 DEF LogTypeOK, Log, WriteLine
<1>3. ASSUME NoLine \/ TurnOff
      PROVE  LogTypeOK'
  <2>1. log_files' \in [Slots -> Log]
    BY <1>1, <1>3, LogConstants DEF NoLine, TurnOff, LinesOff, AllClosed
  <2> QED
    BY <1>3, <2>1 DEF LogTypeOK, Log, NoLine, TurnOff, LinesOff
<1>4. CASE TurnOn
  BY <1>4 DEF LogTypeOK, TurnOn
<1>5. ASSUME NEW w \in LogWindows, CloseLog(w)
      PROVE  LogTypeOK'
  <2>1. log_files' \in [Slots -> Log]
    BY <1>1, <1>5, LogConstants DEF CloseLog
  <2> QED
    BY <1>5, <2>1 DEF LogTypeOK, Log, CloseLog
<1>6. CASE LogTime
  BY <1>6, LogAssumption DEF LogTypeOK, LogTime
<1>7. CASE UNCHANGED logVars
  BY <1>7 DEF LogTypeOK, logVars
<1> QED
  BY <1>2, <1>3, <1>4, <1>5, <1>6, <1>7 DEF LogNext

\* The table begins empty.
LEMMA LogTypeInit == LogInit => LogTypeOK
<1> SUFFICES ASSUME LogInit PROVE LogTypeOK
  OBVIOUS
<1>1. log_files \in [Slots -> Log]
  BY LogConstants DEF LogInit
<1>2. log_flushed \in [Slots -> 0 .. LogMaxTime] /\ log_clock \in 0 .. LogMaxTime
  BY LogAssumption DEF LogInit
<1> QED
  BY <1>1, <1>2 DEF LogInit, LogTypeOK, Log

\* The table's slots, the setting and the histories keep their types.
THEOREM LogTypes == LogSpec => []LogTypeOK
BY LogTypeInit, LogTypeStep, PTL DEF LogSpec

-----------------------------------------------------------------------------
\* An empty table has no open file.
LEMMA HandlesInit == LogInit => OneHandlePerFile /\ OffClosesFiles
BY DEF LogInit, OneHandlePerFile, OffClosesFiles, EmptyLog

\* A file that is opened was open in no other slot.
LEMMA HandlesStep ==
  ASSUME LogTypeOK, OneHandlePerFile, [LogNext]_logVars
  PROVE  OneHandlePerFile'
<1>1. ASSUME NEW w \in LogWindows, NEW opens \in BOOLEAN, WriteLine(w, opens)
      PROVE  OneHandlePerFile'
  <2> SUFFICES ASSUME NEW i \in Slots, NEW j \in Slots,
                      log_files'[i].name = log_files'[j].name, log_files'[i].name # NoLog
               PROVE  i = j
    BY DEF OneHandlePerFile
  <2>1. \A k \in {i, j} : Swept(Lines(w, opens)[k]).name \in {Lines(w, opens)[k].name, NoLog}
    BY LinesFacts, SweptFacts, LogAssumption DEF LogTypeOK
  <2>2. Lines(w, opens)[i].name = Lines(w, opens)[j].name /\ Lines(w, opens)[i].name # NoLog
    BY <1>1, <2>1, WriteLineIs
  <2>3. CASE i \in Acquire(LogFileOf[w]) /\ j \in Acquire(LogFileOf[w])
    BY <2>3, AcquireFacts
  <2>4. CASE ~(i \in Acquire(LogFileOf[w]) /\ j \in Acquire(LogFileOf[w]))
    BY <2>2, <2>4, LinesFacts DEF OneHandlePerFile
  <2> QED
    BY <2>3, <2>4
<1>2. CASE NoLine \/ TurnOff
  BY <1>2, LogConstants DEF NoLine, TurnOff, LinesOff, AllClosed, OneHandlePerFile
<1>3. ASSUME NEW w \in LogWindows, CloseLog(w)
      PROVE  OneHandlePerFile'
  BY <1>3, LogConstants DEF CloseLog, OneHandlePerFile
<1>4. CASE TurnOn \/ LogTime \/ UNCHANGED logVars
  BY <1>4 DEF TurnOn, LogTime, logVars, OneHandlePerFile
<1> QED
  BY <1>1, <1>2, <1>3, <1>4 DEF LogNext

\* No two slots have the same file, however windows and files share names and slots.
THEOREM HandlesAreOne == LogSpec => []OneHandlePerFile
<1>1. LogTypeOK /\ OneHandlePerFile /\ [LogNext]_logVars => OneHandlePerFile'
  BY HandlesStep
<1> QED
  BY <1>1, HandlesInit, LogTypes, PTL DEF LogSpec

\* Switching logs off closes what is open.
LEMMA OffStep ==
  ASSUME LogTypeOK, OffClosesFiles, [LogNext]_logVars
  PROVE  OffClosesFiles'
<1>1. ASSUME NEW w \in LogWindows, NEW opens \in BOOLEAN, WriteLine(w, opens)
      PROVE  OffClosesFiles'
  <2>1. \A i \in Slots : log_files'[i].f => Lines(w, opens)[i].f
    BY <1>1, WriteLineIs, LinesFacts, SweptFacts, LogAssumption DEF LogTypeOK
  <2>2. \A i \in Slots : Lines(w, opens)[i].f => log_files[i].f \/ i \in Acquire(LogFileOf[w])
    BY LinesFacts
  <2>3. (\E i \in Slots : log_files'[i].f) => files_open'
    BY <1>1, <2>1, <2>2, WriteLineIs, ZenonT(60) DEF OffClosesFiles
  <2> QED
    BY <1>1, <2>3, WriteLineIs DEF OffClosesFiles
<1>2. ASSUME NoLine \/ TurnOff
      PROVE  OffClosesFiles'
  <2>1. \A i \in Slots : ~log_files'[i].f
    BY <1>2, LogConstants DEF NoLine, TurnOff, LinesOff, AllClosed, OffClosesFiles
  <2> QED
    BY <2>1 DEF OffClosesFiles
<1>3. ASSUME NEW w \in LogWindows, CloseLog(w)
      PROVE  OffClosesFiles'
  BY <1>3, LogConstants DEF CloseLog, OffClosesFiles
<1>4. CASE TurnOn \/ LogTime \/ UNCHANGED logVars
  BY <1>4 DEF TurnOn, LogTime, logVars, OffClosesFiles
<1> QED
  BY <1>1, <1>2, <1>3, <1>4 DEF LogNext

\* With the setting off no file is open, and log_str knows of every open one.
THEOREM FilesClosed == LogSpec => []OffClosesFiles
<1>1. LogTypeOK /\ OffClosesFiles /\ [LogNext]_logVars => OffClosesFiles'
  BY OffStep
<1> QED
  BY <1>1, HandlesInit, LogTypes, PTL DEF LogSpec

-----------------------------------------------------------------------------
\* The tick count noted at a flush is that of the time of the flush.
FlushInv ==
  \A i \in Slots :
    /\ log_flushed[i] <= log_clock
    /\ log_files[i].f => log_files[i].lastflush = log_flushed[i] % LogTicks

\* Within one turn of the tick count, a file that is not due was flushed within the delay.
LEMMA NotDue ==
  ASSUME NEW now \in Nat, NEW then \in Nat, NEW delay \in Nat, NEW n \in Nat \ {0},
         now \div n = then \div n, now % n <= ((then % n) + delay) % n
  PROVE  now - then <= delay
<1>1. now = n * (now \div n) + (now % n) /\ then = n * (then \div n) + (then % n)
  OBVIOUS
<1>2. then % n \in Nat /\ now % n \in Nat
  OBVIOUS
<1>3. ((then % n) + delay) % n <= (then % n) + delay
  <2> DEFINE sum == (then % n) + delay
  <2>1. sum \in Nat
    BY <1>2
  <2>2. \A m \in Nat : m % n <= m
    OBVIOUS
  <2> QED
    BY <2>1, <2>2
<1>4. now - then = (now % n) - (then % n)
  <2> DEFINE q == n * (now \div n)
  <2>1. now = q + (now % n) /\ then = q + (then % n) /\ q \in Int
    BY <1>1
  <2> HIDE DEF q
  <2> QED
    BY <1>2, <2>1
<1>5. ((then % n) + delay) % n \in Nat
  BY <1>2
<1> QED
  BY <1>2, <1>3, <1>4, <1>5

\* An open file after a line: its flush is noted, and it is not due.
LEMMA AfterOneLine ==
  ASSUME LogTypeOK, FlushInv, NEW w \in LogWindows, NEW opens \in BOOLEAN, WriteLine(w, opens),
         NEW i \in Slots
  PROVE  /\ log_flushed'[i] <= log_clock
         /\ log_files'[i].f =>
              /\ log_files'[i].lastflush = log_flushed'[i] % LogTicks
              /\ \/ log_flushed'[i] = log_clock
                 \/ GetTickCount <= Later(log_files'[i].lastflush, LogFlushDelay)
<1> DEFINE line == Lines(w, opens)[i]
<1>1. log_clock \in Nat /\ log_flushed[i] \in Nat /\ line \in Log
  BY LinesFacts, LogAssumption DEF LogTypeOK
<1>2. log_files'[i] = Swept(line)
  BY WriteLineIs
<1>3. log_flushed'[i] = IF Due(line) \/ (line.f /\ ~log_files[i].f) THEN log_clock ELSE log_flushed[i]
  BY WriteLineIs
<1>4. log_flushed'[i] <= log_clock
  BY <1>1, <1>3 DEF FlushInv
<1>5. ASSUME log_files'[i].f
      PROVE  /\ log_files'[i].lastflush = log_flushed'[i] % LogTicks
             /\ \/ log_flushed'[i] = log_clock
                \/ GetTickCount <= Later(log_files'[i].lastflush, LogFlushDelay)
  <2>1. line.f /\ ~Idle(line)
    BY <1>1, <1>2, <1>5, SweptFacts
  <2>2. CASE Due(line)
    <3>1. log_files'[i].lastflush = GetTickCount /\ log_flushed'[i] = log_clock
      BY <1>1, <1>2, <1>3, <2>2, SweptFacts
    <3> QED
      BY <3>1 DEF GetTickCount
  <2>3. CASE ~Due(line)
    <3>1. log_files'[i].lastflush = line.lastflush
      BY <1>1, <1>2, <2>1, <2>3, SweptFacts
    <3>2. line.lastflush = log_flushed'[i] % LogTicks
      BY <1>3, <2>1, <2>3, LinesFacts DEF FlushInv, GetTickCount
    <3>3. ~(GetTickCount > Later(line.lastflush, LogFlushDelay))
      BY <2>1, <2>3 DEF Due
    <3>4. GetTickCount \in Int /\ Later(line.lastflush, LogFlushDelay) \in Int
      BY <1>1, TickType, LogAssumption DEF Log, Later
    <3> QED
      BY <3>1, <3>2, <3>3, <3>4
  <2> QED
    BY <2>2, <2>3
<1> QED
  BY <1>4, <1>5

\* At first nothing has to be flushed.
LEMMA FlushInit == LogInit => FlushInv
BY DEF LogInit, FlushInv, EmptyLog

\* Every step that flushes notes the tick count, and others leave the note.
LEMMA FlushStep ==
  ASSUME LogTypeOK, FlushInv, [LogNext]_logVars
  PROVE  FlushInv'
<1>1. ASSUME NEW w \in LogWindows, NEW opens \in BOOLEAN, WriteLine(w, opens)
      PROVE  FlushInv'
  BY <1>1, AfterOneLine, WriteLineIs DEF FlushInv
<1>2. ASSUME UNCHANGED <<log_clock, log_flushed>>,
             \A i \in Slots : log_files'[i] = log_files[i] \/ ~log_files'[i].f
      PROVE  FlushInv'
  BY <1>2 DEF FlushInv
<1>3. CASE NoLine \/ TurnOff
  BY <1>2, <1>3, LogConstants DEF NoLine, TurnOff, LinesOff, AllClosed
<1>4. ASSUME NEW w \in LogWindows, CloseLog(w)
      PROVE  FlushInv'
  BY <1>2, <1>4, LogConstants DEF CloseLog
<1>5. CASE TurnOn \/ UNCHANGED logVars
  BY <1>2, <1>5 DEF TurnOn, logVars
<1>6. CASE LogTime
  BY <1>6 DEF LogTime, FlushInv, LogTypeOK
<1> QED
  BY <1>1, <1>3, <1>4, <1>5, <1>6 DEF LogNext

\* After each line every open file was flushed within the delay, unless the tick count
\* has wrapped since, for any delays and any range of that count.
THEOREM LinesFlushed == LogSpec => LinesReachDisk
<1> DEFINE Flushed ==
      (log_enable /\ \E w \in LogWindows, opens \in BOOLEAN : WriteLine(w, opens)) =>
        \A i \in Slots : log_files'[i].f =>
          \/ log_clock - log_flushed'[i] <= LogFlushDelay
          \/ log_clock \div LogTicks # log_flushed'[i] \div LogTicks
<1>1. LogTypeOK /\ LogTypeOK' /\ FlushInv => Flushed
  <2> SUFFICES ASSUME LogTypeOK, LogTypeOK', FlushInv,
                      NEW w \in LogWindows, NEW opens \in BOOLEAN, WriteLine(w, opens),
                      NEW i \in Slots, log_files'[i].f,
                      log_clock \div LogTicks = log_flushed'[i] \div LogTicks
               PROVE  log_clock - log_flushed'[i] <= LogFlushDelay
    OBVIOUS
  <2>1. log_clock \in Nat /\ log_flushed'[i] \in Nat
    BY LogAssumption DEF LogTypeOK
  <2>2. CASE log_flushed'[i] = log_clock
    BY <2>1, <2>2, LogAssumption
  <2>3. CASE GetTickCount <= Later(log_files'[i].lastflush, LogFlushDelay)
    <3>1. log_clock % LogTicks <= ((log_flushed'[i] % LogTicks) + LogFlushDelay) % LogTicks
      BY <2>3, AfterOneLine DEF GetTickCount, Later
    <3> QED
      BY <2>1, <3>1, NotDue, LogAssumption
  <2> QED
    BY <2>2, <2>3, AfterOneLine
<1>2. LogTypeOK /\ FlushInv /\ [LogNext]_logVars => FlushInv'
  BY FlushStep
<1>3. LogTypeOK /\ LogTypeOK' /\ FlushInv => [Flushed]_logVars
  BY <1>1
<1>4. LogSpec => [][Flushed]_logVars
  BY <1>2, <1>3, FlushInit, LogTypes, PTL DEF LogSpec
<1> QED
  BY <1>4 DEF LinesReachDisk

-----------------------------------------------------------------------------
(***************************************************************************)
(* Posting, for texts of any length, any blank lines and any limits.  The  *)
(* flag post_stop stays set once a /stop was heard, since the thread       *)
(* clears it in its first step only; and a line that was passed over for   *)
(* another reason than being blank needs that flag, or a window that lost  *)
(* its session at some time.                                               *)
(***************************************************************************)
PostTypeInv ==
  /\ PostTypeOK
  /\ post_pc \in {"try", "send", "retry"} => post_tries <= PostPatience

\* At first no posting runs.
LEMMA PostTypeInit == PostInit => PostTypeInv
<1> SUFFICES ASSUME PostInit PROVE PostTypeInv
  OBVIOUS
<1>1. <<>> \in Seq(Nat) /\ 0 \in 0 .. PostPatience + 1
  BY PostAssumption
<1> QED
  BY <1>1 DEF PostInit, PostTypeInv, PostTypeOK

\* The UI thread's steps.
LEMMA PostUiTypes == PostTypeInv /\ PostUi => PostTypeInv'
<1> SUFFICES ASSUME PostTypeInv, PostUi PROVE PostTypeInv'
  OBVIOUS
<1>1. ASSUME NEW n \in PostTexts, PostLong(n) PROVE PostTypeInv'
  BY <1>1 DEF PostLong, PostTypeInv, PostTypeOK, postEntry
<1>2. CASE Stop
  BY <1>2 DEF Stop, PostTypeInv, PostTypeOK, postEntry
<1>3. ASSUME NEW hwnd \in BOOLEAN, NEW session \in BOOLEAN, Entry(hwnd, session) PROVE PostTypeInv'
  BY <1>3 DEF Entry, PostTypeInv, PostTypeOK, postShared
<1> QED
  BY <1>1, <1>2, <1>3 DEF PostUi, LoseSession, GetSession, CloseWindow, ReuseEntry

\* The posting's steps.
LEMMA PostThreadTypes == PostTypeInv /\ PostStep => PostTypeInv'
<1> SUFFICES ASSUME PostTypeInv, PostStep PROVE PostTypeInv'
  OBVIOUS
<1> USE DEF Go, Waits, postShared, postEntry, postHistory, PostTypeInv, PostTypeOK
<1>1. CASE Begin
  BY <1>1 DEF Begin
<1>2. CASE TakeLine
  BY <1>2, PostAssumption DEF TakeLine
<1>3. CASE Try
  BY <1>3 DEF Try
<1>4. CASE Sent
  BY <1>4 DEF Sent
<1>5. CASE Refused \/ NullSession
  BY <1>5 DEF Refused, NullSession
<1>6. CASE Retry
  BY <1>6, PostAssumption DEF Retry
<1>7. CASE AfterLine
  BY <1>7 DEF AfterLine
<1>8. CASE Exit
  BY <1>8 DEF Exit
<1> QED
  BY <1>1, <1>2, <1>3, <1>4, <1>5, <1>6, <1>7, <1>8 DEF PostStep

\* Both keep the types.
LEMMA PostTypeStep == PostTypeInv /\ [PostNext]_postVars => PostTypeInv'
<1>1. PostTypeInv /\ UNCHANGED postVars => PostTypeInv'
  BY DEF postVars, postShared, postEntry, postHistory, PostTypeInv, PostTypeOK
<1> QED
  BY <1>1, PostUiTypes, PostThreadTypes DEF PostNext

\* So they keep them always.
LEMMA PostTypesHold == PostSpec => []PostTypeInv
BY PostTypeInit, PostTypeStep, PTL DEF PostSpec

\* The flags, the thread's place, its text and its tries keep their types.
THEOREM PostTypes == PostSpec => []PostTypeOK
<1>1. PostTypeInv => PostTypeOK
  BY DEF PostTypeInv
<1> QED
  BY <1>1, PostTypesHold, PTL

-----------------------------------------------------------------------------
\* A /stop that was heard stays in the flag; before its last line the thread has
\* sent none since.
StopInv ==
  /\ post_pc = "created" => stopped # "heard"
  /\ stopped = "heard" =>
       /\ post_stop
       /\ sent_after <= 1
       /\ post_pc \in {"line", "try", "send", "retry"} => sent_after = 0

\* At first nobody has said /stop.
LEMMA StopInit == PostInit => StopInv
BY DEF PostInit, StopInv

\* Every step keeps a heard /stop in the flag.
LEMMA StopStep == PostTypeInv /\ StopInv /\ [PostNext]_postVars => StopInv'
<1> SUFFICES ASSUME PostTypeInv, StopInv, [PostNext]_postVars PROVE StopInv'
  OBVIOUS
<1> USE DEF StopInv, PostTypeInv, PostTypeOK, Go, Waits, postShared, postEntry, postHistory
<1>1. ASSUME NEW n \in PostTexts, PostLong(n) PROVE StopInv'
  BY <1>1 DEF PostLong
<1>2. CASE Stop
  BY <1>2 DEF Stop
<1>3. ASSUME NEW hwnd \in BOOLEAN, NEW session \in BOOLEAN, Entry(hwnd, session) PROVE StopInv'
  BY <1>3 DEF Entry
<1>4. CASE Begin
  BY <1>4 DEF Begin
<1>5. CASE TakeLine
  BY <1>5 DEF TakeLine
<1>6. CASE Try
  BY <1>6 DEF Try
<1>7. CASE Sent
  BY <1>7 DEF Sent
<1>8. CASE Refused \/ NullSession
  BY <1>8 DEF Refused, NullSession
<1>9. CASE Retry
  BY <1>9 DEF Retry
<1>10. CASE AfterLine
  BY <1>10 DEF AfterLine
<1>11. CASE Exit \/ UNCHANGED postVars
  BY <1>11 DEF Exit, postVars
<1> QED
  BY <1>1, <1>2, <1>3, <1>4, <1>5, <1>6, <1>7, <1>8, <1>9, <1>10, <1>11
     DEF PostNext, PostStep, PostUi, LoseSession, GetSession, CloseWindow, ReuseEntry

\* After a /stop that the thread can hear it sends one more line at most.
THEOREM StopEnds == PostSpec => []StopEndsPosting
<1>1. StopInv => StopEndsPosting
  BY DEF StopInv, StopEndsPosting
<1> QED
  BY <1>1, StopInit, StopStep, PostTypesHold, PTL DEF PostSpec

-----------------------------------------------------------------------------
IsPosted(l) == \E i \in DOMAIN posted : posted[i] = l

\* The lines sent are in order and before the thread's place, and the lines before
\* that place were sent, but for the exceptions.
LineInv ==
  /\ post_held => post_hwnd /\ post_session
  /\ post_pc = "created" => posted = <<>>
  /\ \A i \in DOMAIN posted :
       /\ post_pc \in {"line", "try", "send", "retry"} => posted[i] < post_line
       /\ post_pc = "after" => posted[i] <= post_line
  /\ post_pc \in {"line", "try", "send", "retry", "after", "crash"} => post_line >= 1
  /\ post_held /\ ~post_stop /\ post_pc = "after" => post_line \in BlankLines \/ IsPosted(post_line)
  /\ EveryLineOnce

\* At first no line was sent.
LEMMA LineInit == PostInit => LineInv
BY DEF PostInit, LineInv, EveryLineOnce

\* Every step keeps the lines sent before the thread's place.
LEMMA LineStep == PostTypeInv /\ LineInv /\ [PostNext]_postVars => LineInv'
<1> SUFFICES ASSUME PostTypeInv, LineInv, [PostNext]_postVars PROVE LineInv'
  OBVIOUS
<1> USE DEF LineInv, EveryLineOnce, IsPosted, PostTypeInv, PostTypeOK, Go, Waits, postShared, postEntry, postHistory
<1>1. ASSUME NEW n \in PostTexts, PostLong(n) PROVE LineInv'
  BY <1>1 DEF PostLong
<1>2. CASE Stop
  BY <1>2 DEF Stop
<1>3. ASSUME NEW hwnd \in BOOLEAN, NEW session \in BOOLEAN, Entry(hwnd, session) PROVE LineInv'
  BY <1>3 DEF Entry
<1>4. CASE Begin
  BY <1>4 DEF Begin
<1>5. CASE TakeLine
  BY <1>5 DEF TakeLine
<1>6. CASE Try
  BY <1>6 DEF Try
<1>7. CASE Sent
  <2>1. /\ DOMAIN posted' = 1 .. Len(posted) + 1
        /\ posted'[Len(posted) + 1] = post_line
        /\ \A i \in DOMAIN posted : i \in DOMAIN posted' /\ posted'[i] = posted[i]
        /\ DOMAIN posted = 1 .. Len(posted) /\ Len(posted) \in Nat
    BY <1>7 DEF Sent
  <2>2. \A i \in DOMAIN posted : posted[i] < post_line
    BY <1>7 DEF Sent
  <2>3. \A i, j \in DOMAIN posted' : i < j => posted'[i] < posted'[j]
    BY <2>1, <2>2
  <2>4. \A l : IsPosted(l) => IsPosted(l)'
    BY <2>1
  <2>5. \A i \in DOMAIN posted' : posted'[i] <= post_line
    BY <2>1, <2>2
  <2> QED
    BY <1>7, <2>1, <2>3, <2>4, <2>5 DEF Sent
<1>8. CASE Refused \/ NullSession
  BY <1>8 DEF Refused, NullSession
<1>9. CASE Retry
  BY <1>9 DEF Retry
<1>10. CASE AfterLine
  BY <1>10 DEF AfterLine
<1>11. CASE Exit \/ UNCHANGED postVars
  BY <1>11 DEF Exit, postVars
<1> QED
  BY <1>1, <1>2, <1>3, <1>4, <1>5, <1>6, <1>7, <1>8, <1>9, <1>10, <1>11
     DEF PostNext, PostStep, PostUi, LoseSession, GetSession, CloseWindow, ReuseEntry

\* Each line is sent once at most, in its place, and none is lost that the program
\* could send.
THEOREM LinesOnce == PostSpec => []EveryLineOnce
<1>1. LineInv => EveryLineOnce
  BY DEF LineInv
<1> QED
  BY <1>1, LineInit, LineStep, PostTypesHold, PTL DEF PostSpec

-----------------------------------------------------------------------------
(***************************************************************************)
(* A session's script, however often the file is written.  The argument:   *)
(* while nothing was missed, the time noted is that of the script that     *)
(* runs; and once lua_script_init has looked at the file, a change that    *)
(* came after is either kept in mind by Windows or counts as missed.       *)
(***************************************************************************)
LEMMA NoVersion == 0 \in 0 .. MaxVersions
BY ScriptAssumption

\* At first no script was written.
LEMMA ScriptTypeInit == ScriptInit => ScriptTypeOK
BY NoVersion DEF ScriptInit, ScriptTypeOK

\* Every step keeps the types.
LEMMA ScriptTypeStep == ScriptTypeOK /\ [ScriptNext]_scriptVars => ScriptTypeOK'
<1> SUFFICES ASSUME ScriptTypeOK, [ScriptNext]_scriptVars PROVE ScriptTypeOK'
  OBVIOUS
<1> USE NoVersion DEF ScriptTypeOK, scriptFile, scriptNotify, Reported
<1>1. ASSUME NEW good \in BOOLEAN, WriteScript(good) PROVE ScriptTypeOK'
  BY <1>1, ScriptAssumption DEF WriteScript
<1>2. CASE WriteOther
  BY <1>2 DEF WriteOther
<1>3. CASE ToggleScripts
  BY <1>3 DEF ToggleScripts
<1>4. CASE CreateSession \/ SeeChange \/ DestroySession
  BY <1>4 DEF CreateSession, SeeChange, DestroySession
<1>5. CASE CheckScript \/ LoadScript \/ RecordTime
  BY <1>5 DEF CheckScript, LoadScript, RecordTime
<1>6. CASE NextNotification
  BY <1>6 DEF NextNotification
<1>7. ASSUME NEW opens \in BOOLEAN, FirstNotification(opens) PROVE ScriptTypeOK'
  BY <1>7 DEF FirstNotification
<1>8. CASE UNCHANGED scriptVars
  BY <1>8 DEF scriptVars
<1> QED
  BY <1>1, <1>2, <1>3, <1>4, <1>5, <1>6, <1>7, <1>8 DEF ScriptNext

\* Versions, the place in lua_script_init and the notification keep their types.
THEOREM ScriptTypes == ScriptSpec => []ScriptTypeOK
BY ScriptTypeInit, ScriptTypeStep, PTL DEF ScriptSpec

-----------------------------------------------------------------------------
\* The notification waits only while the session does, and keeps changes in mind only
\* after it was signalled.
NotifyInv ==
  /\ lua_pc = "none" => notify = "none"
  /\ lua_pc \in {"check", "load", "record", "rearm"} => notify # "armed"
  /\ recorded => notify = "signalled"

\* The script that runs, and the time noted for it.
NotedInv ==
  /\ lua_pc = "none" => lua_context = 0
  /\ ~missed /\ lua_pc = "record" => lua_context = script_file
  /\ ~missed /\ lua_pc # "record" /\ lua_context # 0 => lua_ft = lua_context

RunsItsFile == lua_script_enable /\ script_good => lua_context = script_file

\* Behind the look at the file, and while the session waits for a change.
CurrentInv ==
  ~missed => /\ lua_pc = "rearm" /\ ~recorded => RunsItsFile
             /\ lua_pc = "idle" /\ notify = "armed" => RunsItsFile

ScriptInv == NotifyInv /\ NotedInv /\ CurrentInv

\* At first no session is there to miss a change.
LEMMA ScriptInvInit == ScriptInit => ScriptInv
BY DEF ScriptInit, ScriptInv, NotifyInv, NotedInv, CurrentInv

\* The user's part: what changes a file or the setting is seen, or missed.
LEMMA OutsideStep ==
  ASSUME ScriptTypeOK, ScriptInv,
         \/ \E good \in BOOLEAN : WriteScript(good)
         \/ WriteOther
         \/ ToggleScripts
  PROVE  ScriptInv'
<1> USE DEF ScriptTypeOK, ScriptInv, NotifyInv, NotedInv, CurrentInv, RunsItsFile, scriptFile, scriptNotify, Reported
<1>1. ASSUME NEW good \in BOOLEAN, WriteScript(good) PROVE ScriptInv'
  BY <1>1 DEF WriteScript
<1>2. CASE WriteOther
  BY <1>2 DEF WriteOther
<1>3. CASE ToggleScripts
  BY <1>3 DEF ToggleScripts
<1> QED
  BY <1>1, <1>2, <1>3

\* The session's part: what it loads is what it looked at, or a change was missed.
LEMMA SessionStep ==
  ASSUME ScriptTypeOK, ScriptInv,
         \/ CreateSession \/ SeeChange \/ DestroySession
         \/ CheckScript \/ LoadScript \/ RecordTime
         \/ NextNotification
         \/ \E opens \in BOOLEAN : FirstNotification(opens)
  PROVE  ScriptInv'
<1> USE DEF ScriptTypeOK, ScriptInv, NotifyInv, NotedInv, CurrentInv, RunsItsFile, scriptFile, scriptNotify
<1>1. CASE CreateSession \/ SeeChange \/ DestroySession
  BY <1>1 DEF CreateSession, SeeChange, DestroySession
<1>2. CASE CheckScript
  BY <1>2 DEF CheckScript
<1>3. CASE LoadScript
  BY <1>3 DEF LoadScript
<1>4. CASE RecordTime
  BY <1>4 DEF RecordTime
<1>5. CASE NextNotification
  BY <1>5 DEF NextNotification
<1>6. ASSUME NEW opens \in BOOLEAN, FirstNotification(opens) PROVE ScriptInv'
  BY <1>6 DEF FirstNotification
<1> QED
  BY <1>1, <1>2, <1>3, <1>4, <1>5, <1>6

\* Both parts keep the invariant.
LEMMA ScriptInvStep == ScriptTypeOK /\ ScriptInv /\ [ScriptNext]_scriptVars => ScriptInv'
<1>1. ScriptInv /\ UNCHANGED scriptVars => ScriptInv'
  BY DEF scriptVars, scriptFile, scriptNotify, ScriptInv, NotifyInv, NotedInv, CurrentInv, RunsItsFile
<1> QED
  BY <1>1, OutsideStep, SessionStep DEF ScriptNext

\* A session that waits for a change runs the script of the file, unless it missed one.
THEOREM ScriptCurrent == ScriptSpec => []ScriptFollowsFile
<1>1. ScriptInv => ScriptFollowsFile
  BY DEF ScriptInv, CurrentInv, RunsItsFile, ScriptFollowsFile
<1> QED
  BY <1>1, ScriptInvInit, ScriptInvStep, ScriptTypes, PTL DEF ScriptSpec

-----------------------------------------------------------------------------
(***************************************************************************)
(* Nobody is stuck, for any number of connections.  The argument: what a   *)
(* thread is inside of follows from what it has yet to do, as every branch *)
(* of its program leaves what it entered.  So whoever is inside of         *)
(* log_mutex, a mutex_session or a mutex_outbuf waits for nothing; whoever *)
(* is inside of a mutex_dcc waits at most for one of those; a connection   *)
(* inside of mutex waits for nothing, and the UI thread inside of it for   *)
(* one of the others.  A chain of waiting threads therefore ends.          *)
(***************************************************************************)
EnterOp(s) == [does |-> "enter", section |-> s]
LeaveOp(s) == [does |-> "leave", section |-> s]
SendOp     == [does |-> "send"]
LoopOp     == [does |-> "loop"]

\* What the thread is inside of.
Holds(t) == {s \in Sections : owner[s] = t}

\* Short programs put together.
LEMMA Concatenations ==
  ASSUME NEW a, NEW b, NEW c, NEW d
  PROVE  /\ <<a>> \o <<>> = <<a>> /\ <<a>> \o <<b>> = <<a, b>>
         /\ <<a, b>> \o <<c>> = <<a, b, c>> /\ <<a, b, c>> \o <<d>> = <<a, b, c, d>>
         /\ <<a>> \o <<b, c>> = <<a, b, c>>
<1> DEFINE T == {a, b, c, d}
<1>1. <<>> \in Seq(T) /\ <<a>> \in Seq(T) /\ <<b>> \in Seq(T) /\ <<c>> \in Seq(T) /\ <<d>> \in Seq(T)
      /\ <<a, b>> \in Seq(T) /\ <<b, c>> \in Seq(T) /\ <<a, b, c>> \in Seq(T) /\ <<a, b, c, d>> \in Seq(T)
  OBVIOUS
<1> HIDE DEF T
<1>2. <<a>> \o <<>> = <<a>>
  BY <1>1, ConcatEmptySeq
<1>3. <<a>> \o <<b>> = <<a, b>>
  <2> DEFINE u == <<a>> \o <<b>>
             v == <<a, b>>
  <2>1. u \in Seq(T) /\ Len(u) = 2 /\ u[1] = a /\ u[2] = b
    BY <1>1, ConcatProperties
  <2>2. v \in Seq(T) /\ Len(v) = 2 /\ v[1] = a /\ v[2] = b
    BY <1>1
  <2> HIDE DEF u, v
  <2>3. \A i \in 1 .. 2 : u[i] = v[i]
    BY <2>1, <2>2
  <2>4. u = v
    BY <2>1, <2>2, <2>3, SeqEqual
  <2> QED
    BY <2>4 DEF u, v
<1>4. <<a, b>> \o <<c>> = <<a, b, c>>
  <2> DEFINE u == <<a, b>> \o <<c>>
             v == <<a, b, c>>
  <2>1. u \in Seq(T) /\ Len(u) = 3 /\ u[1] = a /\ u[2] = b /\ u[3] = c
    BY <1>1, ConcatProperties
  <2>2. v \in Seq(T) /\ Len(v) = 3 /\ v[1] = a /\ v[2] = b /\ v[3] = c
    BY <1>1
  <2> HIDE DEF u, v
  <2>3. \A i \in 1 .. 3 : u[i] = v[i]
    BY <2>1, <2>2
  <2>4. u = v
    BY <2>1, <2>2, <2>3, SeqEqual
  <2> QED
    BY <2>4 DEF u, v
<1>5. <<a, b, c>> \o <<d>> = <<a, b, c, d>>
  <2> DEFINE u == <<a, b, c>> \o <<d>>
             v == <<a, b, c, d>>
  <2>1. u \in Seq(T) /\ Len(u) = 4 /\ u[1] = a /\ u[2] = b /\ u[3] = c /\ u[4] = d
    BY <1>1, ConcatProperties
  <2>2. v \in Seq(T) /\ Len(v) = 4 /\ v[1] = a /\ v[2] = b /\ v[3] = c /\ v[4] = d
    BY <1>1
  <2> HIDE DEF u, v
  <2>3. \A i \in 1 .. 4 : u[i] = v[i]
    BY <2>1, <2>2
  <2>4. u = v
    BY <2>1, <2>2, <2>3, SeqEqual
  <2> QED
    BY <2>4 DEF u, v
<1>6. <<a>> \o <<b, c>> = <<a, b, c>>
  <2> DEFINE u == <<a>> \o <<b, c>>
             v == <<a, b, c>>
  <2>1. u \in Seq(T) /\ Len(u) = 3 /\ u[1] = a /\ u[2] = b /\ u[3] = c
    BY <1>1, ConcatProperties
  <2>2. v \in Seq(T) /\ Len(v) = 3 /\ v[1] = a /\ v[2] = b /\ v[3] = c
    BY <1>1
  <2> HIDE DEF u, v
  <2>3. \A i \in 1 .. 3 : u[i] = v[i]
    BY <2>1, <2>2
  <2>4. u = v
    BY <2>1, <2>2, <2>3, SeqEqual
  <2> QED
    BY <2>4 DEF u, v
<1> QED
  BY <1>2, <1>3, <1>4, <1>5, <1>6

\* The programs, written out.
LEMMA Programs ==
  ASSUME NEW s, NEW r
  PROVE  /\ Enter(s) = <<EnterOp(s)>> /\ Leave(s) = <<LeaveOp(s)>>
         /\ Within(s, <<>>) = <<EnterOp(s), LeaveOp(s)>>
         /\ Within(s, Within(r, <<>>)) = <<EnterOp(s), EnterOp(r), LeaveOp(r), LeaveOp(s)>>
         /\ SendMessage = <<SendOp>> /\ NestedLoop = <<LoopOp>>
         /\ Leave(s) \o SendMessage \o Enter(s) = <<LeaveOp(s), SendOp, EnterOp(s)>>
<1>1. \A x : Enter(x) = <<EnterOp(x)>> /\ Leave(x) = <<LeaveOp(x)>>
  BY DEF Enter, Leave, EnterOp, LeaveOp
<1>2. SendMessage = <<SendOp>> /\ NestedLoop = <<LoopOp>>
  BY DEF SendMessage, NestedLoop, SendOp, LoopOp
<1>3. \A x : Within(x, <<>>) = <<EnterOp(x), LeaveOp(x)>>
  BY <1>1, Concatenations DEF Within
<1>4. Within(s, Within(r, <<>>)) = <<EnterOp(s), EnterOp(r), LeaveOp(r), LeaveOp(s)>>
  <2>1. Within(s, Within(r, <<>>)) = <<EnterOp(s)>> \o <<EnterOp(r), LeaveOp(r)>> \o <<LeaveOp(s)>>
    BY <1>1, <1>3 DEF Within
  <2> QED
    BY <2>1, Concatenations
<1>5. Leave(s) \o SendMessage \o Enter(s) = <<LeaveOp(s), SendOp, EnterOp(s)>>
  BY <1>1, <1>2, Concatenations
<1> QED
  BY <1>1, <1>2, <1>3, <1>4, <1>5

\* Doing one step of a program.
LEMMA Steps ==
  ASSUME NEW a, NEW b, NEW c, NEW d
  PROVE  /\ Head(<<a>>) = a /\ Tail(<<a>>) = <<>> /\ <<a>> # <<>>
         /\ Head(<<a, b>>) = a /\ Tail(<<a, b>>) = <<b>> /\ <<a, b>> # <<>>
         /\ Head(<<a, b, c>>) = a /\ Tail(<<a, b, c>>) = <<b, c>> /\ <<a, b, c>> # <<>>
         /\ Head(<<a, b, c, d>>) = a /\ Tail(<<a, b, c, d>>) = <<b, c, d>> /\ <<a, b, c, d>> # <<>>
OBVIOUS

\* Operations are different ones.
LEMMA Operations ==
  ASSUME NEW s, NEW r
  PROVE  /\ EnterOp(s).does = "enter" /\ EnterOp(s).section = s
         /\ LeaveOp(s).does = "leave" /\ LeaveOp(s).section = s
         /\ SendOp.does = "send" /\ LoopOp.does = "loop"
         /\ EnterOp(s) # LeaveOp(r) /\ EnterOp(s) \notin {SendOp, LoopOp} /\ LeaveOp(s) \notin {SendOp, LoopOp}
         /\ EnterOp(s) = EnterOp(r) => s = r
         /\ LeaveOp(s) = LeaveOp(r) => s = r
<1>1. /\ EnterOp(s).does = "enter" /\ EnterOp(s).section = s /\ EnterOp(r).section = r
      /\ LeaveOp(s).does = "leave" /\ LeaveOp(s).section = s /\ LeaveOp(r).does = "leave" /\ LeaveOp(r).section = r
      /\ SendOp.does = "send" /\ LoopOp.does = "loop"
  BY DEF EnterOp, LeaveOp, SendOp, LoopOp
<1> QED
  BY <1>1

\* Critical sections are different ones.
LEMMA Different ==
  /\ Mutex # LogMutex
  /\ \A c \in Connections : {Mutex, LogMutex} \cap {MutexSession(c), MutexDcc(c), MutexOutbuf(c)} = {}
  /\ \A c, d \in Connections :
       /\ MutexSession(c) # MutexDcc(d) /\ MutexSession(c) # MutexOutbuf(d) /\ MutexDcc(c) # MutexOutbuf(d)
       /\ MutexDcc(c) = MutexDcc(d) => c = d
BY DEF Mutex, LogMutex, MutexSession, MutexDcc, MutexOutbuf

\* Sections, by name.
LEMMA Members ==
  /\ Mutex \in Sections /\ LogMutex \in Sections
  /\ \A c \in Connections : {MutexSession(c), MutexDcc(c), MutexOutbuf(c)} \subseteq Sections
BY DEF Sections

-----------------------------------------------------------------------------
(***************************************************************************)
(* q is what is left to do, H what the thread is inside of, and B what it  *)
(* was inside of before.                                                   *)
(***************************************************************************)
Simply(q, H, B, s) ==
  /\ s \notin B
  /\ \/ q = <<EnterOp(s), LeaveOp(s)>> /\ H = B
     \/ q = <<LeaveOp(s)>> /\ H = B \cup {s}

\* log_str, which may enter log_mutex a second time.
Again   == <<EnterOp(LogMutex), LeaveOp(LogMutex), LeaveOp(LogMutex)>>
Twice   == <<EnterOp(LogMutex), EnterOp(LogMutex), LeaveOp(LogMutex), LeaveOp(LogMutex)>>
Back    == <<LeaveOp(LogMutex), LeaveOp(LogMutex)>>
Logging(q, H, B) ==
  \/ Simply(q, H, B, LogMutex)
  \/ q = Twice /\ H = B
  \/ q \in {Again, Back} /\ H = B \cup {LogMutex}

\* irc_dcc_msg, inside a handler
Messaging(q, H, c) ==
  \/ /\ q = <<EnterOp(MutexDcc(c)), EnterOp(MutexOutbuf(c)), LeaveOp(MutexOutbuf(c)), LeaveOp(MutexDcc(c))>>
     /\ H = {Mutex}
  \/ /\ q = <<EnterOp(MutexOutbuf(c)), LeaveOp(MutexOutbuf(c)), LeaveOp(MutexDcc(c))>>
     /\ H = {Mutex, MutexDcc(c)}
  \/ /\ q = <<LeaveOp(MutexOutbuf(c)), LeaveOp(MutexDcc(c))>>
     /\ H = {Mutex, MutexDcc(c), MutexOutbuf(c)}

UiDoing(q, H) ==
  \/ q = <<>> /\ H \in {{}, {Mutex}}
  \/ q = <<EnterOp(Mutex)>> /\ H = {}
  \/ q \in {<<LeaveOp(Mutex)>>, <<LoopOp>>} /\ H = {Mutex}
  \/ Logging(q, H, {Mutex})
  \/ \E c \in Connections : \/ Simply(q, H, {Mutex}, MutexSession(c))
                            \/ Simply(q, H, {Mutex}, MutexDcc(c))
                            \/ Messaging(q, H, c)

HelperDoing(q, H) ==
  \/ q \in {<<>>, <<SendOp>>} /\ H = {}
  \/ Logging(q, H, {})
  \/ \E c \in Connections : Simply(q, H, {}, MutexSession(c))

ConnectionDoing(c, q, H) ==
  \/ q = <<>> /\ H \in {{}, {MutexDcc(c)}}
  \/ q \in {<<SendOp>>, <<EnterOp(MutexDcc(c))>>, <<SendOp, EnterOp(MutexDcc(c))>>} /\ H = {}
  \/ q = <<LeaveOp(MutexDcc(c)), SendOp, EnterOp(MutexDcc(c))>> /\ H = {MutexDcc(c)}
  \/ Logging(q, H, {})
  \/ \E s \in {MutexSession(c), MutexDcc(c), Mutex} : Simply(q, H, {}, s)
  \/ Simply(q, H, {MutexDcc(c)}, MutexOutbuf(c))

Doing(t, q, H) ==
  \/ t = Ui /\ UiDoing(q, H)
  \/ t = Helper /\ HelperDoing(q, H)
  \/ t \in Connections /\ ConnectionDoing(t, q, H)

\* Threads are at work on their programs, and what they are inside of is counted.
WaitInv ==
  /\ DOMAIN todo = Threads
  /\ owner \in [Sections -> Threads \cup {Nobody}]
  /\ depth \in [Sections -> 0 .. 2]
  /\ \A t \in Threads : Doing(t, todo[t], Holds(t))
  /\ \A s \in Sections : depth[s] = 0 <=> owner[s] = Nobody
  /\ \A s \in Sections : depth[s] = 2 <=> s = LogMutex /\ owner[s] \in Threads /\ todo[owner[s]] = Back

-----------------------------------------------------------------------------
\* What remains of a program after an operation: entering a section adds it to what the
\* thread is inside of, leaving it the last time takes it away.
LEMMA SimplyEnters ==
  ASSUME NEW q, NEW H, NEW B, NEW r, NEW s, Simply(q, H, B, r), Head(q) = EnterOp(s)
  PROVE  s = r /\ H = B /\ Simply(Tail(q), H \cup {s}, B, r)
<1>1. q = <<EnterOp(r), LeaveOp(r)>> /\ H = B /\ r \notin B
  BY Operations, Steps DEF Simply
<1>2. s = r /\ Tail(q) = <<LeaveOp(r)>>
  BY <1>1, Operations, Steps
<1> QED
  BY <1>1, <1>2 DEF Simply

\* The last step of such a program gives back what the first one took.
LEMMA SimplyLeaves ==
  ASSUME NEW q, NEW H, NEW B, NEW r, NEW s, Simply(q, H, B, r), Head(q) = LeaveOp(s)
  PROVE  s = r /\ q # Back /\ Tail(q) = <<>> /\ H = B \cup {s} /\ s \notin B
<1>1. q = <<LeaveOp(r)>> /\ H = B \cup {r} /\ r \notin B
  BY Operations, Steps DEF Simply
<1>2. s = r /\ Tail(q) = <<>>
  BY <1>1, Operations, Steps
<1>3. q # Back
  BY <1>1, <1>2, Steps DEF Back
<1> QED
  BY <1>1, <1>2, <1>3

\* A section other than log_mutex is never entered twice.
LEMMA SimplyNotTwice ==
  ASSUME NEW q, NEW H, NEW B, NEW r, Simply(q, H, B, r), r # LogMutex
  PROVE  q # Again /\ q # Back /\ Tail(q) # Back
<1>1. CASE q = <<EnterOp(r), LeaveOp(r)>>
  BY <1>1, Operations, Steps DEF Again, Back
<1>2. CASE q = <<LeaveOp(r)>>
  BY <1>2, Operations, Steps DEF Again, Back
<1> QED
  BY <1>1, <1>2 DEF Simply

\* log_str enters log_mutex, the second time only when it goes on to leave it twice.
LEMMA LoggingEnters ==
  ASSUME NEW q, NEW H, NEW B, NEW s, Logging(q, H, B), Head(q) = EnterOp(s), LogMutex \notin B
  PROVE  /\ Logging(Tail(q), H \cup {s}, B)
         /\ s = LogMutex /\ (s \in H <=> q = Again) /\ (Tail(q) = Back <=> q = Again)
<1>0. /\ Head(Twice) = EnterOp(LogMutex) /\ Tail(Twice) = Again
      /\ Head(Again) = EnterOp(LogMutex) /\ Tail(Again) = Back
      /\ Head(Back) = LeaveOp(LogMutex) /\ Tail(Back) = <<LeaveOp(LogMutex)>>
      /\ Back # <<LeaveOp(LogMutex)>> /\ Back # Again /\ Again # Twice
      /\ Back # <<EnterOp(LogMutex), LeaveOp(LogMutex)>> /\ Again # <<EnterOp(LogMutex), LeaveOp(LogMutex)>>
  BY Operations, Steps DEF Twice, Again, Back
<1>1. CASE Simply(q, H, B, LogMutex)
  <2>1. s = LogMutex /\ H = B /\ Simply(Tail(q), H \cup {s}, B, LogMutex)
    BY <1>1, SimplyEnters
  <2>2. q = <<EnterOp(LogMutex), LeaveOp(LogMutex)>>
    <3>1. q # <<LeaveOp(LogMutex)>>
      BY Operations, Steps
    <3> QED
      BY <1>1, <3>1 DEF Simply
  <2>3. Tail(q) = <<LeaveOp(LogMutex)>>
    BY <2>2, Steps
  <2> QED
    BY <1>0, <2>1, <2>2, <2>3, <1>1 DEF Logging, Simply
<1>2. CASE q = Twice /\ H = B
  <2>1. s = LogMutex /\ Tail(q) = Again
    BY <1>0, <1>2, Operations
  <2>2. Logging(Tail(q), H \cup {s}, B)
    BY <1>2, <2>1 DEF Logging
  <2> QED
    BY <1>0, <1>2, <2>1, <2>2
<1>3. CASE q = Again /\ H = B \cup {LogMutex}
  BY <1>0, <1>3, Operations DEF Logging
<1>4. CASE q = Back
  BY <1>0, <1>4, Operations
<1> QED
  BY <1>1, <1>2, <1>3, <1>4 DEF Logging

\* And leaves it, for good with the last step.
LEMMA LoggingLeaves ==
  ASSUME NEW q, NEW H, NEW B, NEW s, Logging(q, H, B), Head(q) = LeaveOp(s), LogMutex \notin B
  PROVE  /\ s = LogMutex /\ s \in H
         /\ q = Back => Logging(Tail(q), H, B)
         /\ q # Back => Tail(q) = <<>> /\ H \ {s} = B
         /\ Tail(q) # Back
<1>1. CASE Simply(q, H, B, LogMutex)
  <2>1. s = LogMutex /\ q # Back /\ Tail(q) = <<>> /\ H = B \cup {s} /\ s \notin B
    BY <1>1, SimplyLeaves
  <2>2. H \ {s} = B
    BY <2>1
  <2> QED
    BY <2>1, <2>2, Steps DEF Back
<1>2. CASE q = Back /\ H = B \cup {LogMutex}
  <2>1. Tail(q) = <<LeaveOp(LogMutex)>> /\ s = LogMutex /\ Tail(q) # Back
    BY <1>2, Operations, Steps DEF Back
  <2> QED
    BY <1>2, <2>1 DEF Logging, Simply
<1>3. ~(q \in {Twice, Again})
  BY Operations, Steps DEF Twice, Again
<1> QED
  BY <1>1, <1>2, <1>3 DEF Logging

\* The programs of the UI thread, of a helper and of a connection in turn.
LEMMA UiEnters ==
  ASSUME NEW q, NEW H, NEW s, UiDoing(q, H), q # <<>>, Head(q) = EnterOp(s)
  PROVE  /\ s \in Sections /\ UiDoing(Tail(q), H \cup {s})
         /\ (s \in H <=> q = Again) /\ (Tail(q) = Back <=> q = Again)
<1>0. /\ Head(Again) = EnterOp(LogMutex)
      /\ Head(Back) = LeaveOp(LogMutex) /\ \A x : Back # <<x>> /\ <<>> # Back
      /\ \A x, y, z : Back # <<x, y, z>>
  BY Steps DEF Again, Back
<1>1. CASE q = <<EnterOp(Mutex)>> /\ H = {}
  <2>1. s = Mutex /\ Tail(q) = <<>>
    BY <1>1, Operations, Steps
  <2>2. q # Again /\ Tail(q) # Back
    BY <1>0, <1>1, <2>1, Steps, Operations, Different
  <2> QED
    BY <1>1, <2>1, <2>2, Members DEF UiDoing
<1>2. CASE Logging(q, H, {Mutex})
  <2>1. LogMutex \notin {Mutex}
    BY Different
  <2> QED
    BY <1>2, <2>1, LoggingEnters, Members, ZenonT(60) DEF UiDoing
<1>3. ASSUME NEW r, Simply(q, H, {Mutex}, r), \E c \in Connections : r \in {MutexSession(c), MutexDcc(c)}
      PROVE  /\ s \in Sections /\ UiDoing(Tail(q), H \cup {s})
             /\ (s \in H <=> q = Again) /\ (Tail(q) = Back <=> q = Again)
  <2>1. s = r /\ H = {Mutex} /\ Simply(Tail(q), H \cup {s}, {Mutex}, r)
    BY <1>3, SimplyEnters
  <2>2. q = <<EnterOp(r), LeaveOp(r)>> /\ Tail(q) = <<LeaveOp(r)>>
    <3>1. q # <<LeaveOp(r)>>
      BY Operations, Steps
    <3>2. q = <<EnterOp(r), LeaveOp(r)>>
      BY <1>3, <3>1 DEF Simply
    <3> QED
      BY <3>2, Steps
  <2>3. r # LogMutex /\ r # Mutex
    BY <1>3, Different
  <2>4. q # Again /\ Tail(q) # Back
    BY <1>0, <2>2, <2>3, Operations, Steps
  <2> QED
    BY <1>3, <2>1, <2>3, <2>4, Members DEF UiDoing
<1>4. ASSUME NEW c \in Connections, Messaging(q, H, c)
      PROVE  /\ s \in Sections /\ UiDoing(Tail(q), H \cup {s})
             /\ (s \in H <=> q = Again) /\ (Tail(q) = Back <=> q = Again)
  <2>1. CASE /\ q = <<EnterOp(MutexDcc(c)), EnterOp(MutexOutbuf(c)), LeaveOp(MutexOutbuf(c)), LeaveOp(MutexDcc(c))>>
             /\ H = {Mutex}
    <3>1. s = MutexDcc(c) /\ Tail(q) = <<EnterOp(MutexOutbuf(c)), LeaveOp(MutexOutbuf(c)), LeaveOp(MutexDcc(c))>>
      BY <2>1, Operations, Steps
    <3>2. Tail(q) # Back /\ q # Again
      BY <2>1, <3>1, Operations, Steps, Different DEF Back, Again
    <3>3. Messaging(Tail(q), H \cup {s}, c)
      BY <2>1, <3>1 DEF Messaging
    <3> QED
      BY <2>1, <3>1, <3>2, <3>3, Members, Different DEF UiDoing
  <2>2. CASE /\ q = <<EnterOp(MutexOutbuf(c)), LeaveOp(MutexOutbuf(c)), LeaveOp(MutexDcc(c))>>
             /\ H = {Mutex, MutexDcc(c)}
    <3>1. s = MutexOutbuf(c) /\ Tail(q) = <<LeaveOp(MutexOutbuf(c)), LeaveOp(MutexDcc(c))>>
      BY <2>2, Operations, Steps
    <3>2. Tail(q) # Back /\ q # Again
      BY <2>2, <3>1, Operations, Steps, Different DEF Back, Again
    <3>3. Messaging(Tail(q), H \cup {s}, c)
      BY <2>2, <3>1 DEF Messaging
    <3> QED
      BY <2>2, <3>1, <3>2, <3>3, Members, Different DEF UiDoing
  <2> QED
    BY <1>4, <2>1, <2>2, Operations, Steps DEF Messaging
<1>5. ~(q \in {<<LeaveOp(Mutex)>>, <<LoopOp>>})
  BY Operations, Steps
<1> QED
  BY <1>1, <1>2, <1>3, <1>4, <1>5 DEF UiDoing

\* What a handler leaves it was inside of.
LEMMA UiLeaves ==
  ASSUME NEW q, NEW H, NEW s, UiDoing(q, H), q # <<>>, Head(q) = LeaveOp(s)
  PROVE  /\ s \in Sections /\ s \in H /\ Tail(q) # Back
         /\ q = Back => s = LogMutex /\ UiDoing(Tail(q), H)
         /\ q # Back => UiDoing(Tail(q), H \ {s})
<1>0. \A x : Back # <<x>> /\ <<>> # Back
  BY Steps DEF Back
<1>1. CASE q = <<LeaveOp(Mutex)>> /\ H = {Mutex}
  <2>1. s = Mutex /\ Tail(q) = <<>>
    BY <1>1, Operations, Steps
  <2> QED
    BY <1>0, <1>1, <2>1, Members DEF UiDoing
<1>2. CASE Logging(q, H, {Mutex})
  <2>1. LogMutex \notin {Mutex}
    BY Different
  <2>2. /\ s = LogMutex /\ s \in H
        /\ q = Back => Logging(Tail(q), H, {Mutex})
        /\ q # Back => Tail(q) = <<>> /\ H \ {s} = {Mutex}
        /\ Tail(q) # Back
    BY <1>2, <2>1, LoggingLeaves
  <2> QED
    BY <2>2, Members DEF UiDoing
<1>3. ASSUME NEW r, Simply(q, H, {Mutex}, r), \E c \in Connections : r \in {MutexSession(c), MutexDcc(c)}
      PROVE  /\ s \in Sections /\ s \in H /\ q # Back /\ Tail(q) # Back /\ UiDoing(Tail(q), H \ {s})
  <2> DEFINE B == {Mutex}
  <2>1. Simply(q, H, B, r)
    BY <1>3
  <2> HIDE DEF B
  <2>2. s = r /\ q # Back /\ Tail(q) = <<>> /\ H = B \cup {s} /\ s \notin B
    BY <2>1, SimplyLeaves
  <2>5. s \in H /\ H \ {s} = B
    BY <2>2
  <2> QED
    BY <1>0, <1>3, <2>2, <2>5, Members DEF UiDoing, B
<1>4. ASSUME NEW c \in Connections, Messaging(q, H, c)
      PROVE  /\ s \in Sections /\ s \in H /\ q # Back /\ Tail(q) # Back /\ UiDoing(Tail(q), H \ {s})
  <2>1. q = <<LeaveOp(MutexOutbuf(c)), LeaveOp(MutexDcc(c))>> /\ H = {Mutex, MutexDcc(c), MutexOutbuf(c)}
    BY <1>4, Operations, Steps DEF Messaging
  <2>2. s = MutexOutbuf(c) /\ Tail(q) = <<LeaveOp(MutexDcc(c))>>
    BY <2>1, Operations, Steps
  <2>3. q # Back
    BY <2>1, Operations, Steps, Different DEF Back
  <2>4. H \ {s} = {Mutex} \cup {MutexDcc(c)} /\ MutexDcc(c) \notin {Mutex}
    BY <2>1, <2>2, Different
  <2> QED
    BY <1>0, <2>1, <2>2, <2>3, <2>4 DEF UiDoing, Simply, Sections
<1>5. q \notin {<<EnterOp(Mutex)>>, <<LoopOp>>}
  BY Operations, Steps
<1> QED
  BY <1>1, <1>2, <1>3, <1>4, <1>5 DEF UiDoing

\* A posting enters what it is not inside of, but for log_mutex.
LEMMA HelperEnters ==
  ASSUME NEW q, NEW H, NEW s, HelperDoing(q, H), q # <<>>, Head(q) = EnterOp(s)
  PROVE  /\ s \in Sections /\ HelperDoing(Tail(q), H \cup {s})
         /\ (s \in H <=> q = Again) /\ (Tail(q) = Back <=> q = Again)
<1>1. CASE Logging(q, H, {})
  <2>1. /\ Logging(Tail(q), H \cup {s}, {})
        /\ s = LogMutex /\ (s \in H <=> q = Again) /\ (Tail(q) = Back <=> q = Again)
    BY <1>1, LoggingEnters
  <2> QED
    BY <2>1, Members DEF HelperDoing
<1>2. ASSUME NEW c \in Connections, Simply(q, H, {}, MutexSession(c))
      PROVE  /\ s \in Sections /\ HelperDoing(Tail(q), H \cup {s})
             /\ (s \in H <=> q = Again) /\ (Tail(q) = Back <=> q = Again)
  <2>1. s = MutexSession(c) /\ H = {} /\ Simply(Tail(q), H \cup {s}, {}, MutexSession(c))
    BY <1>2, SimplyEnters
  <2>2. q # Again /\ Tail(q) # Back
    BY <1>2, SimplyNotTwice, Different
  <2> QED
    BY <2>1, <2>2, Members DEF HelperDoing
<1>3. q # <<SendOp>>
  BY Operations, Steps
<1> QED
  BY <1>1, <1>2, <1>3 DEF HelperDoing

\* What it leaves it was inside of.
LEMMA HelperLeaves ==
  ASSUME NEW q, NEW H, NEW s, HelperDoing(q, H), q # <<>>, Head(q) = LeaveOp(s)
  PROVE  /\ s \in Sections /\ s \in H /\ Tail(q) # Back
         /\ q = Back => s = LogMutex /\ HelperDoing(Tail(q), H)
         /\ q # Back => HelperDoing(Tail(q), H \ {s})
<1>1. CASE Logging(q, H, {})
  <2>1. /\ s = LogMutex /\ s \in H
        /\ q = Back => Logging(Tail(q), H, {})
        /\ q # Back => Tail(q) = <<>> /\ H \ {s} = {}
        /\ Tail(q) # Back
    BY <1>1, LoggingLeaves
  <2> QED
    BY <2>1, Members DEF HelperDoing
<1>2. ASSUME NEW c \in Connections, Simply(q, H, {}, MutexSession(c))
      PROVE  /\ s \in Sections /\ s \in H /\ q # Back /\ Tail(q) # Back /\ HelperDoing(Tail(q), H \ {s})
  <2>1. s = MutexSession(c) /\ q # Back /\ Tail(q) = <<>> /\ H = {} \cup {s} /\ s \notin {}
    BY <1>2, SimplyLeaves
  <2>5. s \in H /\ H \ {s} = {}
    BY <2>1
  <2> QED
    BY <2>1, <2>5, Members, Steps DEF HelperDoing, Back
<1>3. q # <<SendOp>>
  BY Operations, Steps
<1> QED
  BY <1>1, <1>2, <1>3 DEF HelperDoing

\* So does a connection's thread, on a walk or not.
LEMMA ConnectionEnters ==
  ASSUME NEW c \in Connections, NEW q, NEW H, NEW s, ConnectionDoing(c, q, H), q # <<>>, Head(q) = EnterOp(s)
  PROVE  /\ s \in Sections /\ ConnectionDoing(c, Tail(q), H \cup {s})
         /\ (s \in H <=> q = Again) /\ (Tail(q) = Back <=> q = Again)
<1>1. CASE Logging(q, H, {})
  <2>1. /\ Logging(Tail(q), H \cup {s}, {})
        /\ s = LogMutex /\ (s \in H <=> q = Again) /\ (Tail(q) = Back <=> q = Again)
    BY <1>1, LoggingEnters
  <2> QED
    BY <2>1, Members DEF ConnectionDoing
<1>2. ASSUME NEW r \in {MutexSession(c), MutexDcc(c), Mutex}, Simply(q, H, {}, r)
      PROVE  /\ s \in Sections /\ ConnectionDoing(c, Tail(q), H \cup {s})
             /\ (s \in H <=> q = Again) /\ (Tail(q) = Back <=> q = Again)
  <2>1. s = r /\ H = {} /\ Simply(Tail(q), H \cup {s}, {}, r)
    BY <1>2, SimplyEnters
  <2>2. q # Again /\ Tail(q) # Back
    BY <1>2, SimplyNotTwice, Different
  <2> QED
    BY <2>1, <2>2, Members DEF ConnectionDoing
<1>3. CASE Simply(q, H, {MutexDcc(c)}, MutexOutbuf(c))
  <2> DEFINE B == {MutexDcc(c)}
  <2>1. Simply(q, H, B, MutexOutbuf(c))
    BY <1>3
  <2> HIDE DEF B
  <2>2. s = MutexOutbuf(c) /\ H = B /\ Simply(Tail(q), H \cup {s}, B, MutexOutbuf(c))
    BY <2>1, SimplyEnters
  <2>3. q # Again /\ Tail(q) # Back
    BY <2>1, SimplyNotTwice, Different
  <2> QED
    BY <2>2, <2>3, Members, Different DEF ConnectionDoing, B
<1>4. CASE q = <<EnterOp(MutexDcc(c))>> /\ H = {}
  <2>1. s = MutexDcc(c) /\ Tail(q) = <<>>
    BY <1>4, Operations, Steps
  <2>2. q # Again /\ Tail(q) # Back
    BY <1>4, <2>1, Steps DEF Again, Back
  <2> QED
    BY <1>4, <2>1, <2>2, Members DEF ConnectionDoing
<1>5. q \notin {<<SendOp>>, <<SendOp, EnterOp(MutexDcc(c))>>, <<LeaveOp(MutexDcc(c)), SendOp, EnterOp(MutexDcc(c))>>}
  BY Operations, Steps
<1> QED
  BY <1>1, <1>2, <1>3, <1>4, <1>5 DEF ConnectionDoing

\* What it leaves it was inside of, also around a callback.
LEMMA ConnectionLeaves ==
  ASSUME NEW c \in Connections, NEW q, NEW H, NEW s, ConnectionDoing(c, q, H), q # <<>>, Head(q) = LeaveOp(s)
  PROVE  /\ s \in Sections /\ s \in H /\ Tail(q) # Back
         /\ q = Back => s = LogMutex /\ ConnectionDoing(c, Tail(q), H)
         /\ q # Back => ConnectionDoing(c, Tail(q), H \ {s})
<1>1. CASE Logging(q, H, {})
  <2>1. /\ s = LogMutex /\ s \in H
        /\ q = Back => Logging(Tail(q), H, {})
        /\ q # Back => Tail(q) = <<>> /\ H \ {s} = {}
        /\ Tail(q) # Back
    BY <1>1, LoggingLeaves
  <2> QED
    BY <2>1, Members DEF ConnectionDoing
<1>2. ASSUME NEW r \in {MutexSession(c), MutexDcc(c), Mutex}, Simply(q, H, {}, r)
      PROVE  /\ s \in Sections /\ s \in H /\ q # Back /\ Tail(q) # Back /\ ConnectionDoing(c, Tail(q), H \ {s})
  <2>1. s = r /\ q # Back /\ Tail(q) = <<>> /\ H = {} \cup {s} /\ s \notin {}
    BY <1>2, SimplyLeaves
  <2>5. s \in H /\ H \ {s} = {}
    BY <2>1
  <2> QED
    BY <2>1, <2>5, Members, Steps DEF ConnectionDoing, Back
<1>3. CASE Simply(q, H, {MutexDcc(c)}, MutexOutbuf(c))
  <2> DEFINE B == {MutexDcc(c)}
             r == MutexOutbuf(c)
  <2>1. Simply(q, H, B, r)
    BY <1>3
  <2> HIDE DEF B, r
  <2>2. s = r /\ q # Back /\ Tail(q) = <<>> /\ H = B \cup {s} /\ s \notin B
    BY <2>1, SimplyLeaves
  <2>5. s \in H /\ H \ {s} = B
    BY <2>2
  <2>3. Tail(q) # Back
    BY <2>2, Steps DEF Back
  <2> QED
    BY <2>2, <2>3, <2>5, Members DEF ConnectionDoing, B, r
<1>4. CASE q = <<LeaveOp(MutexDcc(c)), SendOp, EnterOp(MutexDcc(c))>> /\ H = {MutexDcc(c)}
  <2>1. s = MutexDcc(c) /\ Tail(q) = <<SendOp, EnterOp(MutexDcc(c))>>
    BY <1>4, Operations, Steps
  <2>2. q # Back /\ Tail(q) # Back
    BY <1>4, <2>1, Operations, Steps DEF Back
  <2> QED
    BY <1>4, <2>1, <2>2, Members DEF ConnectionDoing
<1>5. q \notin {<<SendOp>>, <<SendOp, EnterOp(MutexDcc(c))>>, <<EnterOp(MutexDcc(c))>>}
  BY Operations, Steps
<1> QED
  BY <1>1, <1>2, <1>3, <1>4, <1>5 DEF ConnectionDoing

\* The UI thread, a helper and a connection are different threads.
LEMMA Kinds ==
  ASSUME NEW t \in Threads
  PROVE  /\ t = Ui => t # Helper /\ t \notin Connections
         /\ t = Helper => t # Ui /\ t \notin Connections
         /\ t \in Connections => t # Ui /\ t # Helper
         /\ t # Nobody
BY WaitingAssumption DEF Threads

\* What entering a section does to any thread's program.
LEMMA DoingEnters ==
  ASSUME NEW t \in Threads, NEW q, NEW H, NEW s, Doing(t, q, H), q # <<>>, Head(q) = EnterOp(s)
  PROVE  /\ s \in Sections /\ Doing(t, Tail(q), H \cup {s})
         /\ (s \in H <=> q = Again) /\ (Tail(q) = Back <=> q = Again)
<1>1. CASE t = Ui
  BY <1>1, UiEnters, Kinds DEF Doing
<1>2. CASE t = Helper
  BY <1>2, HelperEnters, Kinds DEF Doing
<1>3. CASE t \in Connections
  BY <1>3, ConnectionEnters, Kinds DEF Doing
<1> QED
  BY <1>1, <1>2, <1>3 DEF Threads

\* And what leaving one does.
LEMMA DoingLeaves ==
  ASSUME NEW t \in Threads, NEW q, NEW H, NEW s, Doing(t, q, H), q # <<>>, Head(q) = LeaveOp(s)
  PROVE  /\ s \in Sections /\ s \in H /\ Tail(q) # Back
         /\ q = Back => s = LogMutex /\ Doing(t, Tail(q), H)
         /\ q # Back => Doing(t, Tail(q), H \ {s})
<1>1. CASE t = Ui
  <2>1. UiDoing(q, H)
    BY <1>1, Kinds DEF Doing
  <2>2. /\ s \in Sections /\ s \in H /\ Tail(q) # Back
        /\ q = Back => s = LogMutex /\ UiDoing(Tail(q), H)
        /\ q # Back => UiDoing(Tail(q), H \ {s})
    BY <1>1, <2>1, UiLeaves
  <2> QED
    BY <1>1, <2>2 DEF Doing
<1>2. CASE t = Helper
  <2>1. HelperDoing(q, H)
    BY <1>2, Kinds DEF Doing
  <2>2. /\ s \in Sections /\ s \in H /\ Tail(q) # Back
        /\ q = Back => s = LogMutex /\ HelperDoing(Tail(q), H)
        /\ q # Back => HelperDoing(Tail(q), H \ {s})
    BY <1>2, <2>1, HelperLeaves
  <2> QED
    BY <1>2, <2>2 DEF Doing
<1>3. CASE t \in Connections
  <2>1. ConnectionDoing(t, q, H)
    BY <1>3, Kinds DEF Doing
  <2>2. /\ s \in Sections /\ s \in H /\ Tail(q) # Back
        /\ q = Back => s = LogMutex /\ ConnectionDoing(t, Tail(q), H)
        /\ q # Back => ConnectionDoing(t, Tail(q), H \ {s})
    BY <1>3, <2>1, ConnectionLeaves
  <2> QED
    BY <1>3, <2>2 DEF Doing
<1> QED
  BY <1>1, <1>2, <1>3 DEF Threads

\* An operation is to enter, to leave, to send or to wait in a message loop.
LEMMA DoingOperation ==
  ASSUME NEW t \in Threads, NEW q, NEW H, Doing(t, q, H), q # <<>>
  PROVE  \/ \E s \in Sections : Head(q) \in {EnterOp(s), LeaveOp(s)}
         \/ Head(q) = SendOp /\ t # Ui
         \/ Head(q) = LoopOp /\ t = Ui
<1>1. ASSUME NEW B, NEW s \in Sections, Simply(q, H, B, s)
      PROVE  Head(q) \in {EnterOp(s), LeaveOp(s)}
  BY <1>1, Steps DEF Simply
<1>2. ASSUME NEW B, Logging(q, H, B)
      PROVE  Head(q) \in {EnterOp(LogMutex), LeaveOp(LogMutex)}
  BY <1>1, <1>2, Steps, Members DEF Logging, Twice, Again, Back
<1>3. CASE t = Ui /\ UiDoing(q, H)
  <2>1. ASSUME NEW c \in Connections, Messaging(q, H, c)
        PROVE  Head(q) \in {EnterOp(MutexDcc(c)), EnterOp(MutexOutbuf(c)), LeaveOp(MutexOutbuf(c))}
    BY <2>1, Steps DEF Messaging
  <2>2. q = <<EnterOp(Mutex)>> => Head(q) = EnterOp(Mutex)
    BY Steps
  <2>3. q = <<LeaveOp(Mutex)>> => Head(q) = LeaveOp(Mutex)
    BY Steps
  <2>4. q = <<LoopOp>> => Head(q) = LoopOp
    BY Steps
  <2> QED
    BY <1>1, <1>2, <1>3, <2>1, <2>2, <2>3, <2>4, Members DEF UiDoing
<1>4. CASE t = Helper /\ HelperDoing(q, H)
  <2>1. q = <<SendOp>> => Head(q) = SendOp
    BY Steps
  <2> QED
    BY <1>1, <1>2, <1>4, <2>1, Members, Kinds DEF HelperDoing
<1>5. CASE t \in Connections /\ ConnectionDoing(t, q, H)
  <2>1. q \in {<<SendOp>>, <<SendOp, EnterOp(MutexDcc(t))>>} => Head(q) = SendOp
    BY Steps
  <2>2. q = <<EnterOp(MutexDcc(t))>> => Head(q) = EnterOp(MutexDcc(t))
    BY Steps
  <2>3. q = <<LeaveOp(MutexDcc(t)), SendOp, EnterOp(MutexDcc(t))>> => Head(q) = LeaveOp(MutexDcc(t))
    BY Steps
  <2> QED
    BY <1>1, <1>2, <1>5, <2>1, <2>2, <2>3, Members, Kinds DEF ConnectionDoing
<1> QED
  BY <1>3, <1>4, <1>5 DEF Doing

\* Sending and the end of a message loop leave a thread inside of what it was inside of.
LEMMA DoingGoesOn ==
  ASSUME NEW t \in Threads, NEW q, NEW H, Doing(t, q, H), q # <<>>, Head(q) \in {SendOp, LoopOp}
  PROVE  Doing(t, Tail(q), H) /\ q # Back /\ Tail(q) # Back
<1>1. ASSUME NEW B, NEW s, Simply(q, H, B, s)
      PROVE  FALSE
  BY <1>1, Operations, Steps DEF Simply
<1>2. ASSUME NEW B, Logging(q, H, B)
      PROVE  FALSE
  BY <1>1, <1>2, Operations, Steps DEF Logging, Twice, Again, Back
<1>3. <<>> # Back /\ \A x : <<x>> # Back
  BY Steps DEF Back
<1>4. CASE t = Ui /\ UiDoing(q, H)
  <2>1. ASSUME NEW c \in Connections, Messaging(q, H, c)
        PROVE  FALSE
    BY <2>1, Operations, Steps DEF Messaging
  <2>2. q # <<EnterOp(Mutex)>> /\ q # <<LeaveOp(Mutex)>>
    BY Operations, Steps
  <2>3. q = <<LoopOp>> /\ H = {Mutex}
    BY <1>1, <1>2, <1>4, <2>1, <2>2 DEF UiDoing
  <2> QED
    BY <1>3, <1>4, <2>3, Steps DEF Doing, UiDoing
<1>5. CASE t = Helper /\ HelperDoing(q, H)
  <2>1. q = <<SendOp>> /\ H = {}
    BY <1>1, <1>2, <1>5 DEF HelperDoing
  <2> QED
    BY <1>3, <1>5, <2>1, Steps DEF Doing, HelperDoing
<1>6. CASE t \in Connections /\ ConnectionDoing(t, q, H)
  <2>1. q # <<EnterOp(MutexDcc(t))>> /\ q # <<LeaveOp(MutexDcc(t)), SendOp, EnterOp(MutexDcc(t))>>
    BY Operations, Steps
  <2>2. q \in {<<SendOp>>, <<SendOp, EnterOp(MutexDcc(t))>>} /\ H = {}
    BY <1>1, <1>2, <1>6, <2>1 DEF ConnectionDoing
  <2>3. Tail(q) \in {<<>>, <<EnterOp(MutexDcc(t))>>} /\ q # Back
    <3>1. Tail(q) \in {<<>>, <<EnterOp(MutexDcc(t))>>}
      <4>1. Tail(<<SendOp>>) = <<>>
        BY Steps
      <4>2. Tail(<<SendOp, EnterOp(MutexDcc(t))>>) = <<EnterOp(MutexDcc(t))>>
        BY Steps
      <4> QED
        BY <2>2, <4>1, <4>2
    <3>2. Head(Back) = LeaveOp(LogMutex) /\ Head(q) = SendOp
      BY <2>2, Steps DEF Back
    <3> QED
      BY <3>1, <3>2, Operations
  <2> QED
    BY <1>3, <1>6, <2>2, <2>3 DEF Doing, ConnectionDoing
<1> QED
  BY <1>4, <1>5, <1>6 DEF Doing

\* A program has four operations at most.
LEMMA DoingLength ==
  ASSUME NEW t \in Threads, NEW q, NEW H, Doing(t, q, H)
  PROVE  Len(q) <= 4
<1>1. \A a, b, c, d : /\ Len(<<>>) = 0 /\ Len(<<a>>) = 1 /\ Len(<<a, b>>) = 2
                      /\ Len(<<a, b, c>>) = 3 /\ Len(<<a, b, c, d>>) = 4
  OBVIOUS
<1>2. ASSUME NEW n \in {0, 1, 2, 3, 4}
      PROVE  n <= 4
  OBVIOUS
<1>3. SUFFICES Len(q) \in {0, 1, 2, 3, 4}
  BY <1>2
<1>4. ASSUME NEW B, NEW s, Simply(q, H, B, s)
      PROVE  Len(q) \in {0, 1, 2, 3, 4}
  BY <1>1, <1>4 DEF Simply
<1>5. ASSUME NEW B, Logging(q, H, B)
      PROVE  Len(q) \in {0, 1, 2, 3, 4}
  BY <1>1, <1>4, <1>5 DEF Logging, Twice, Again, Back
<1>6. ASSUME NEW c \in Connections, Messaging(q, H, c)
      PROVE  Len(q) \in {0, 1, 2, 3, 4}
  BY <1>1, <1>6 DEF Messaging
<1>7. CASE UiDoing(q, H)
  BY <1>1, <1>4, <1>5, <1>6, <1>7 DEF UiDoing
<1>8. CASE HelperDoing(q, H)
  BY <1>1, <1>4, <1>5, <1>8 DEF HelperDoing
<1>9. CASE t \in Connections /\ ConnectionDoing(t, q, H)
  BY <1>1, <1>4, <1>5, <1>9 DEF ConnectionDoing
<1> QED
  BY <1>7, <1>8, <1>9 DEF Doing

\* A thread with nothing to do is inside of nothing, or in a handler or on a walk.
LEMMA DoingNothing ==
  ASSUME NEW t \in Threads, NEW H, Doing(t, <<>>, H)
  PROVE  /\ t = Ui => H \in {{}, {Mutex}}
         /\ t = Helper => H = {}
         /\ t \in Connections => H \in {{}, {MutexDcc(t)}}
<1>1. \A a, b, c, d : <<>> # <<a>> /\ <<>> # <<a, b>> /\ <<>> # <<a, b, c>> /\ <<>> # <<a, b, c, d>>
  BY Steps
<1>2. ASSUME NEW B, NEW s
      PROVE  ~Simply(<<>>, H, B, s)
  BY <1>1 DEF Simply
<1>3. ASSUME NEW B
      PROVE  ~Logging(<<>>, H, B)
  BY <1>1, <1>2 DEF Logging, Twice, Again, Back
<1>4. ASSUME NEW c \in Connections
      PROVE  ~Messaging(<<>>, H, c)
  BY <1>1 DEF Messaging
<1>5. CASE t = Ui
  <2>1. UiDoing(<<>>, H)
    BY <1>5, Kinds DEF Doing
  <2> QED
    BY <1>1, <1>2, <1>3, <1>4, <1>5, <2>1, Kinds DEF UiDoing
<1>6. CASE t = Helper
  <2>1. HelperDoing(<<>>, H)
    BY <1>6, Kinds DEF Doing
  <2> QED
    BY <1>1, <1>2, <1>3, <1>6, <2>1, Kinds DEF HelperDoing
<1>7. CASE t \in Connections
  <2>1. ConnectionDoing(t, <<>>, H)
    BY <1>7, Kinds DEF Doing
  <2> QED
    BY <1>1, <1>2, <1>3, <1>7, <2>1, Kinds DEF ConnectionDoing
<1> QED
  BY <1>5, <1>6, <1>7 DEF Threads

-----------------------------------------------------------------------------
\* Whatever a thread decides to do is a program of its kind.
LEMMA Decided ==
  ASSUME NEW t \in Threads, WaitInv, todo[t] = <<>>, NEW what \in Does(t)
  PROVE  Doing(t, what, Holds(t)) /\ what # Back
<1> DEFINE H == Holds(t)
<1>0. Doing(t, <<>>, H)
  BY DEF WaitInv
<1>1. \A s \in Sections : owner[s] = t <=> s \in H
  BY DEF Holds
<1> HIDE DEF H
<1>2. \A x : Back # <<x>> /\ <<>> # Back
  BY Steps DEF Back
<1>3. ASSUME NEW B, H = B, LogMutex \notin B, what \in LogStr
      PROVE  Logging(what, H, B) /\ what # Back
  <2>1. what = <<EnterOp(LogMutex), LeaveOp(LogMutex)>> \/ what = Twice
    BY <1>3, Programs DEF LogStr, Twice
  <2>2. what # Back
    <3>1. Head(what) = EnterOp(LogMutex) /\ Head(Back) = LeaveOp(LogMutex)
      BY <2>1, Steps DEF Twice, Back
    <3> QED
      BY <3>1, Operations
  <2> QED
    BY <1>3, <2>1, <2>2 DEF Logging, Simply
<1>4. ASSUME NEW B, NEW s, H = B, s \notin B, what = Within(s, <<>>)
      PROVE  Simply(what, H, B, s) /\ what # Back
  <2>1. what = <<EnterOp(s), LeaveOp(s)>>
    BY <1>4, Programs
  <2>2. Head(what) = EnterOp(s) /\ Head(Back) = LeaveOp(LogMutex)
    BY <2>1, Steps DEF Back
  <2> QED
    BY <1>4, <2>1, <2>2, Operations DEF Simply
<1>5. CASE t = Ui /\ owner[Mutex] # Ui
  <2>1. H = {} /\ what = <<EnterOp(Mutex)>>
    <3>1. Mutex \notin H
      BY <1>1, <1>5, Members
    <3>2. H = {}
      BY <1>0, <1>5, <3>1, DoingNothing
    <3> QED
      BY <1>5, <3>2, Programs, Kinds DEF Does
  <2> QED
    BY <1>2, <1>5, <2>1 DEF Doing, UiDoing, H
<1>6. CASE t = Ui /\ owner[Mutex] = Ui
  <2>1. H = {Mutex} /\ what \in HandlerDoes
    <3>1. Mutex \in H
      BY <1>1, <1>6, Members
    <3>2. H = {Mutex}
      BY <1>0, <1>6, <3>1, DoingNothing
    <3> QED
      BY <1>6, <3>2, Kinds DEF Does
  <2>2. LogMutex \notin {Mutex} /\ \A c \in Connections : MutexSession(c) \notin {Mutex} /\ MutexDcc(c) \notin {Mutex}
    BY Different
  <2>3. CASE what \in LogStr
    BY <1>3, <1>6, <2>1, <2>2, <2>3 DEF Doing, UiDoing, H
  <2>4. CASE what \in {NestedLoop, Leave(Mutex)}
    <3>1. what \in {<<LeaveOp(Mutex)>>, <<LoopOp>>}
      BY <2>4, Programs
    <3> QED
      BY <1>2, <1>6, <2>1, <3>1 DEF Doing, UiDoing, H
  <2>5. ASSUME NEW c \in Connections, what = SendRaw(c) \/ what = DccList(c)
        PROVE  Doing(t, what, Holds(t)) /\ what # Back
    BY <1>4, <1>6, <2>1, <2>2, <2>5 DEF Doing, UiDoing, H, SendRaw, DccList
  <2>6. ASSUME NEW c \in Connections, what = DccMsg(c)
        PROVE  Doing(t, what, Holds(t)) /\ what # Back
    <3>1. what = <<EnterOp(MutexDcc(c)), EnterOp(MutexOutbuf(c)), LeaveOp(MutexOutbuf(c)), LeaveOp(MutexDcc(c))>>
      BY <2>6, Programs DEF DccMsg
    <3>2. Head(what) = EnterOp(MutexDcc(c)) /\ Head(Back) = LeaveOp(LogMutex)
      BY <3>1, Steps DEF Back
    <3>3. what # Back
      BY <3>2, Operations
    <3>4. Messaging(what, H, c)
      BY <2>1, <3>1 DEF Messaging
    <3> QED
      BY <1>6, <3>3, <3>4 DEF Doing, UiDoing, H
  <2> QED
    BY <2>1, <2>3, <2>4, <2>5, <2>6 DEF HandlerDoes
<1>7. CASE t = Helper
  <2>1. H = {} /\ what \in HelperDoes
    BY <1>0, <1>7, DoingNothing, Kinds DEF Does
  <2>2. CASE what \in LogStr
    BY <1>3, <1>7, <2>1, <2>2 DEF Doing, HelperDoing, H
  <2>3. CASE what = SendMessage
    BY <1>2, <1>7, <2>1, <2>3, Programs DEF Doing, HelperDoing, H
  <2>4. ASSUME NEW c \in Connections, what = SendRaw(c)
        PROVE  Doing(t, what, Holds(t)) /\ what # Back
    BY <1>4, <1>7, <2>1, <2>4 DEF Doing, HelperDoing, H, SendRaw
  <2> QED
    BY <2>1, <2>2, <2>3, <2>4 DEF HelperDoes
<1>8. CASE t \in Connections /\ owner[MutexDcc(t)] = t
  <2>1. H = {MutexDcc(t)} /\ what \in WalkDoes(t)
    <3>1. MutexDcc(t) \in H
      BY <1>1, <1>8, Members
    <3>2. H = {MutexDcc(t)}
      BY <1>0, <1>8, <3>1, DoingNothing
    <3> QED
      BY <1>8, <3>2, Kinds DEF Does
  <2>2. CASE what = DccCall(t)
    <3>1. what = <<LeaveOp(MutexDcc(t)), SendOp, EnterOp(MutexDcc(t))>>
      BY <2>2, Programs DEF DccCall
    <3>2. what # Back
      BY <3>1, Steps DEF Back
    <3> QED
      BY <1>8, <2>1, <3>1, <3>2 DEF Doing, ConnectionDoing, H
  <2>3. CASE what = Within(MutexOutbuf(t), <<>>)
    <3>1. MutexOutbuf(t) \notin {MutexDcc(t)}
      BY <1>8, Different
    <3>2. Simply(what, H, {MutexDcc(t)}, MutexOutbuf(t)) /\ what # Back
      BY <1>4, <2>1, <2>3, <3>1
    <3> QED
      BY <1>8, <3>2 DEF Doing, ConnectionDoing, H
  <2>4. CASE what = Leave(MutexDcc(t))
    <3>1. what = <<LeaveOp(MutexDcc(t))>>
      BY <2>4, Programs
    <3>2. Simply(what, H, {}, MutexDcc(t))
      BY <2>1, <3>1 DEF Simply
    <3> QED
      BY <1>2, <1>8, <3>1, <3>2 DEF Doing, ConnectionDoing, H
  <2> QED
    BY <2>1, <2>2, <2>3, <2>4 DEF WalkDoes
<1>9. CASE t \in Connections /\ owner[MutexDcc(t)] # t
  <2>1. H = {} /\ what \in ConnectionDoes(t)
    <3>1. MutexDcc(t) \notin H
      BY <1>1, <1>9, Members
    <3>2. H = {}
      BY <1>0, <1>9, <3>1, DoingNothing
    <3> QED
      BY <1>9, <3>2, Kinds DEF Does
  <2>2. CASE what \in LogStr
    BY <1>3, <1>9, <2>1, <2>2 DEF Doing, ConnectionDoing, H
  <2>3. CASE what \in {SendMessage, Enter(MutexDcc(t))}
    <3>1. what \in {<<SendOp>>, <<EnterOp(MutexDcc(t))>>}
      BY <2>3, Programs
    <3> QED
      BY <1>2, <1>9, <2>1, <3>1 DEF Doing, ConnectionDoing, H
  <2>4. CASE what \in {SendRaw(t), DccList(t), EndConnection(t)}
    <3>1. PICK s \in {MutexSession(t), MutexDcc(t), Mutex} : what = Within(s, <<>>)
      BY <2>4 DEF SendRaw, DccList, EndConnection
    <3>2. Simply(what, H, {}, s) /\ what # Back
      BY <1>4, <2>1, <3>1
    <3> QED
      BY <1>9, <3>2 DEF Doing, ConnectionDoing, H
  <2> QED
    BY <2>1, <2>2, <2>3, <2>4 DEF ConnectionDoes
<1> QED
  BY <1>5, <1>6, <1>7, <1>8, <1>9 DEF Threads

\* A section that changes hands between nobody and one thread changes nothing for others.
LEMMA HoldsOnly ==
  ASSUME NEW t \in Threads, NEW s \in Sections, WaitInv, owner[s] \in {Nobody, t},
         NEW x \in {Nobody, t}, owner' = [owner EXCEPT ![s] = x]
  PROVE  /\ \A u \in Threads : u # t => Holds(u)' = Holds(u)
         /\ x = t => Holds(t)' = Holds(t) \cup {s}
         /\ x = Nobody => Holds(t)' = Holds(t) \ {s}
<1>1. t # Nobody /\ \A u \in Threads : u # Nobody
  BY Kinds
<1>2. \A r \in Sections : owner'[r] = IF r = s THEN x ELSE owner[r]
  BY DEF WaitInv
<1> QED
  BY <1>1, <1>2 DEF Holds

-----------------------------------------------------------------------------
\* At the start nobody is inside of anything.
LEMMA WaitInitial == WaitInit => WaitInv
<1> SUFFICES ASSUME WaitInit
             PROVE  WaitInv
  OBVIOUS
<1>1. DOMAIN todo = Threads /\ \A t \in Threads : todo[t] = <<>>
  BY DEF WaitInit
<1>2. \A s \in Sections : owner[s] = Nobody /\ depth[s] = 0
  BY DEF WaitInit
<1>3. \A t \in Threads : Holds(t) = {}
  BY <1>2, Kinds DEF Holds
<1>4. \A t \in Threads : Doing(t, todo[t], Holds(t))
  BY <1>1, <1>3 DEF Threads, Doing, UiDoing, HelperDoing, ConnectionDoing
<1>5. owner \in [Sections -> Threads \cup {Nobody}] /\ depth \in [Sections -> 0 .. 2]
  BY DEF WaitInit
<1>6. \A s \in Sections : owner[s] \notin Threads
  BY <1>2, Kinds
<1> QED
  BY <1>1, <1>2, <1>4, <1>5, <1>6 DEF WaitInv

\* An operation that is no entering or leaving keeps the invariant, and so does a decision.
LEMMA OnlyTodo ==
  ASSUME WaitInv, NEW t \in Threads, NEW q, Doing(t, q, Holds(t)), q # Back, todo[t] # Back,
         todo' = [todo EXCEPT ![t] = q], UNCHANGED <<owner, depth>>
  PROVE  WaitInv'
<1>1. DOMAIN todo' = Threads /\ \A u \in Threads : todo'[u] = IF u = t THEN q ELSE todo[u]
  BY DEF WaitInv
<1>2. \A u \in Threads : Holds(u)' = Holds(u)
  BY DEF Holds
<1>3. \A u \in Threads : Doing(u, todo'[u], Holds(u)')
  BY <1>1, <1>2 DEF WaitInv
<1>4. \A u \in Threads : todo'[u] = Back <=> todo[u] = Back
  BY <1>1
<1> QED
  BY <1>1, <1>3, <1>4 DEF WaitInv

\* Entering: the owner changes from nobody, or the depth of log_mutex goes to two.
LEMMA EnterStep ==
  ASSUME WaitInv, NEW t \in Threads, EnterSection(t)
  PROVE  WaitInv'
<1> DEFINE q == todo[t]
           s == Section(t)
           H == Holds(t)
<1>0. q # <<>> /\ Doing(t, q, H)
  BY DEF WaitInv, EnterSection, At
<1>1. s \in Sections /\ Head(q) = EnterOp(s)
  <2>1. Head(q).does = "enter"
    BY DEF EnterSection, At
  <2>2. PICK r \in Sections : Head(q) \in {EnterOp(r), LeaveOp(r)}
    BY <1>0, <2>1, DoingOperation, Operations
  <2>3. Head(q) = EnterOp(r)
    BY <2>1, <2>2, Operations
  <2>4. Head(q).section = r
    BY <2>3, Operations
  <2> QED
    BY <2>3, <2>4 DEF Section
<1>2. owner[s] \in {Nobody, t} /\ owner' = [owner EXCEPT ![s] = t]
  BY DEF EnterSection
<1>3. depth' = [depth EXCEPT ![s] = @ + 1] /\ todo' = [todo EXCEPT ![t] = Tail(q)]
  BY DEF EnterSection, Done
<1>4. s \in H <=> owner[s] = t
  BY <1>1 DEF Holds
<1> HIDE DEF s
<1>5. /\ \A u \in Threads : u # t => Holds(u)' = Holds(u)
      /\ Holds(t)' = H \cup {s}
  BY <1>1, <1>2, HoldsOnly
<1>6. /\ Doing(t, Tail(q), H \cup {s})
      /\ (s \in H <=> q = Again) /\ (Tail(q) = Back <=> q = Again)
  BY <1>0, <1>1, DoingEnters
<1>7. q # Back /\ (q = Again => s = LogMutex)
  <2>1. Head(Back) = LeaveOp(LogMutex) /\ Head(Again) = EnterOp(LogMutex)
    BY Steps DEF Back, Again
  <2> QED
    BY <1>1, <2>1, Operations
<1>8. /\ DOMAIN todo' = Threads
      /\ \A u \in Threads : todo'[u] = IF u = t THEN Tail(q) ELSE todo[u]
  BY <1>3 DEF WaitInv
<1>9. /\ owner' \in [Sections -> Threads \cup {Nobody}]
      /\ \A r \in Sections : owner'[r] = IF r = s THEN t ELSE owner[r]
  BY <1>1, <1>2 DEF WaitInv
<1>10. /\ DOMAIN depth' = Sections /\ depth'[s] = depth[s] + 1
       /\ \A r \in Sections : r # s => depth'[r] = depth[r]
  BY <1>1, <1>3 DEF WaitInv
<1>11. depth[s] = IF q = Again THEN 1 ELSE 0
  <2>1. depth[s] \in 0 .. 2 /\ (depth[s] = 0 <=> owner[s] = Nobody)
    BY <1>1 DEF WaitInv
  <2>2. CASE q = Again
    <3>1. owner[s] = t /\ owner[s] # Nobody
      BY <1>4, <1>6, <2>2, Kinds
    <3>2. depth[s] # 2
      BY <1>1, <1>7, <3>1 DEF WaitInv
    <3> QED
      BY <2>1, <2>2, <3>1, <3>2
  <2>3. CASE q # Again
    BY <1>2, <1>4, <1>6, <2>1, <2>3
  <2> QED
    BY <2>2, <2>3
<1>12. depth'[s] = IF q = Again THEN 2 ELSE 1
  BY <1>10, <1>11
<1>13. depth' \in [Sections -> 0 .. 2]
  <2>1. depth' = [r \in Sections |-> depth'[r]]
    BY <1>3 DEF WaitInv
  <2>2. \A r \in Sections : depth'[r] \in 0 .. 2
    BY <1>10, <1>12 DEF WaitInv
  <2> QED
    BY <2>1, <2>2
<1>14. \A u \in Threads : Doing(u, todo'[u], Holds(u)')
  BY <1>5, <1>6, <1>8 DEF WaitInv
<1>15. ASSUME NEW r \in Sections
       PROVE  /\ depth'[r] = 0 <=> owner'[r] = Nobody
              /\ depth'[r] = 2 <=> r = LogMutex /\ owner'[r] \in Threads /\ todo'[owner'[r]] = Back
  <2>1. CASE r = s
    <3>1. owner'[r] = t /\ t # Nobody /\ todo'[t] = Tail(q)
      BY <1>1, <1>8, <1>9, <2>1, Kinds
    <3> QED
      BY <1>6, <1>7, <1>12, <2>1, <3>1
  <2>2. CASE r # s
    <3>1. owner'[r] = owner[r] /\ depth'[r] = depth[r]
      BY <1>9, <1>10, <2>2
    <3>2. r = LogMutex /\ owner[r] = t => todo[t] # Back /\ todo'[t] # Back
      BY <1>6, <1>7, <1>8, <2>2
    <3>3. \A u \in Threads : u # t => todo'[u] = todo[u]
      BY <1>8
    <3> QED
      BY <3>1, <3>2, <3>3 DEF WaitInv
  <2> QED
    BY <2>1, <2>2
<1> QED
  BY <1>8, <1>9, <1>13, <1>14, <1>15 DEF WaitInv

\* Leaving: the depth goes back to one, or the section to nobody.
LEMMA LeaveStep ==
  ASSUME WaitInv, NEW t \in Threads, LeaveSection(t)
  PROVE  WaitInv'
<1> DEFINE q == todo[t]
           s == Section(t)
           H == Holds(t)
<1>0. q # <<>> /\ Doing(t, q, H)
  BY DEF WaitInv, LeaveSection, At
<1>1. s \in Sections /\ Head(q) = LeaveOp(s)
  <2>1. Head(q).does = "leave"
    BY DEF LeaveSection, At
  <2>2. PICK r \in Sections : Head(q) \in {EnterOp(r), LeaveOp(r)}
    BY <1>0, <2>1, DoingOperation, Operations
  <2>3. Head(q) = LeaveOp(r)
    BY <2>1, <2>2, Operations
  <2>4. Head(q).section = r
    BY <2>3, Operations
  <2> QED
    BY <2>3, <2>4 DEF Section
<1>2. /\ s \in H /\ Tail(q) # Back
      /\ q = Back => s = LogMutex /\ Doing(t, Tail(q), H)
      /\ q # Back => Doing(t, Tail(q), H \ {s})
  BY <1>0, <1>1, DoingLeaves
<1>3. depth' = [depth EXCEPT ![s] = @ - 1] /\ todo' = [todo EXCEPT ![t] = Tail(q)]
  BY DEF LeaveSection, Done
<1>4. owner[s] = t /\ t # Nobody
  BY <1>1, <1>2, Kinds DEF Holds
<1>5. depth[s] = IF q = Back THEN 2 ELSE 1
  <2>1. depth[s] \in 0 .. 2 /\ depth[s] # 0
    BY <1>1, <1>4 DEF WaitInv
  <2>2. depth[s] = 2 <=> q = Back
    BY <1>1, <1>2, <1>4 DEF WaitInv
  <2> QED
    BY <2>1, <2>2
<1>6. owner' = [owner EXCEPT ![s] = IF q = Back THEN t ELSE Nobody]
  <2>1. owner' = [owner EXCEPT ![s] = IF depth[s] = 1 THEN Nobody ELSE owner[s]]
    BY DEF LeaveSection
  <2> HIDE DEF q, s
  <2>2. (IF depth[s] = 1 THEN Nobody ELSE owner[s]) = (IF q = Back THEN t ELSE Nobody)
    <3>1. CASE q = Back
      BY <1>4, <1>5, <3>1
    <3>2. CASE q # Back
      BY <1>4, <1>5, <3>2
    <3> QED
      BY <3>1, <3>2
  <2> QED
    BY <2>1, <2>2
<1> HIDE DEF s
<1>7. /\ \A u \in Threads : u # t => Holds(u)' = Holds(u)
      /\ Doing(t, Tail(q), Holds(t)')
  <2>1. CASE q = Back
    <3>1. owner' = [owner EXCEPT ![s] = t]
      BY <1>6, <2>1
    <3>2. /\ \A u \in Threads : u # t => Holds(u)' = Holds(u)
          /\ Holds(t)' = H \cup {s}
      BY <1>1, <1>4, <3>1, HoldsOnly
    <3>3. H \cup {s} = H
      BY <1>2
    <3> QED
      BY <1>2, <2>1, <3>2, <3>3
  <2>2. CASE q # Back
    <3>1. owner' = [owner EXCEPT ![s] = Nobody]
      BY <1>6, <2>2
    <3>2. /\ \A u \in Threads : u # t => Holds(u)' = Holds(u)
          /\ Holds(t)' = H \ {s}
      BY <1>1, <1>4, <3>1, HoldsOnly
    <3> QED
      BY <1>2, <2>2, <3>2
  <2> QED
    BY <2>1, <2>2
<1>8. /\ DOMAIN todo' = Threads
      /\ \A u \in Threads : todo'[u] = IF u = t THEN Tail(q) ELSE todo[u]
  BY <1>3 DEF WaitInv
<1>9. /\ owner' \in [Sections -> Threads \cup {Nobody}]
      /\ \A r \in Sections : owner'[r] = IF r = s THEN (IF q = Back THEN t ELSE Nobody) ELSE owner[r]
  BY <1>1, <1>6 DEF WaitInv
<1>10. /\ DOMAIN depth' = Sections /\ depth'[s] = depth[s] - 1
       /\ \A r \in Sections : r # s => depth'[r] = depth[r]
  BY <1>1, <1>3 DEF WaitInv
<1>12. depth'[s] = IF q = Back THEN 1 ELSE 0
  BY <1>5, <1>10
<1>13. depth' \in [Sections -> 0 .. 2]
  <2>1. depth' = [r \in Sections |-> depth'[r]]
    BY <1>3 DEF WaitInv
  <2>2. \A r \in Sections : depth'[r] \in 0 .. 2
    BY <1>10, <1>12 DEF WaitInv
  <2> QED
    BY <2>1, <2>2
<1>14. \A u \in Threads : Doing(u, todo'[u], Holds(u)')
  BY <1>7, <1>8 DEF WaitInv
<1>15. ASSUME NEW r \in Sections
       PROVE  /\ depth'[r] = 0 <=> owner'[r] = Nobody
              /\ depth'[r] = 2 <=> r = LogMutex /\ owner'[r] \in Threads /\ todo'[owner'[r]] = Back
  <2>1. CASE r = s
    <3>1. owner'[r] = (IF q = Back THEN t ELSE Nobody) /\ t # Nobody /\ Nobody \notin Threads
      BY <1>1, <1>4, <1>9, <2>1, Kinds
    <3>2. todo'[t] # Back
      BY <1>2, <1>8
    <3> QED
      BY <1>12, <2>1, <3>1, <3>2
  <2>2. CASE r # s
    <3>1. owner'[r] = owner[r] /\ depth'[r] = depth[r]
      BY <1>9, <1>10, <2>2
    <3>2. r = LogMutex /\ owner[r] = t => todo[t] # Back /\ todo'[t] # Back
      BY <1>2, <1>8, <2>2
    <3>3. \A u \in Threads : u # t => todo'[u] = todo[u]
      BY <1>8
    <3> QED
      BY <3>1, <3>2, <3>3 DEF WaitInv
  <2> QED
    BY <2>1, <2>2
<1> QED
  BY <1>8, <1>9, <1>13, <1>14, <1>15 DEF WaitInv

\* Every step keeps the invariant.
LEMMA WaitStep == WaitInv /\ [WaitNext]_waitVars => WaitInv'
<1> SUFFICES ASSUME WaitInv, [WaitNext]_waitVars
             PROVE  WaitInv'
  OBVIOUS
<1>1. ASSUME NEW t \in Threads, Decide(t)
      PROVE  WaitInv'
  <2>1. PICK what \in Does(t) : todo' = [todo EXCEPT ![t] = what]
    BY <1>1 DEF Decide
  <2>2. todo[t] = <<>> /\ <<>> # Back
    BY <1>1, Steps DEF Decide, Back
  <2>3. Doing(t, what, Holds(t)) /\ what # Back
    BY <2>2, Decided
  <2> QED
    BY <1>1, <2>1, <2>2, <2>3, OnlyTodo DEF Decide
<1>2. ASSUME NEW t \in Threads, At(t, "send") \/ At(t, "loop"), Done(t), UNCHANGED <<owner, depth>>
      PROVE  WaitInv'
  <2>1. todo[t] # <<>> /\ Doing(t, todo[t], Holds(t)) /\ Head(todo[t]).does \in {"send", "loop"}
    BY <1>2 DEF At, WaitInv
  <2>2. Head(todo[t]) \in {SendOp, LoopOp}
    BY <2>1, DoingOperation, Operations
  <2>3. Doing(t, Tail(todo[t]), Holds(t)) /\ todo[t] # Back /\ Tail(todo[t]) # Back
    BY <2>1, <2>2, DoingGoesOn
  <2> QED
    BY <1>2, <2>3, OnlyTodo DEF Done
<1>3. ASSUME NEW t \in Threads, Answered(t)
      PROVE  WaitInv'
  BY <1>2, <1>3 DEF Answered
<1>4. CASE LoopEnds
  <2>1. Ui \in Threads
    BY DEF Threads
  <2> QED
    BY <1>2, <1>4, <2>1 DEF LoopEnds
<1>5. CASE UNCHANGED waitVars
  BY <1>5 DEF waitVars, WaitInv, Holds
<1> QED
  BY <1>1, <1>3, <1>4, <1>5, EnterStep, LeaveStep DEF WaitNext

\* A section somebody is inside of has been entered, once or, log_mutex, twice; what a
\* thread is inside of follows from what is left of its program.
THEOREM WaitInvariant == WaitSpec => []WaitInv
<1>1. WaitInit => WaitInv
  BY WaitInitial
<1>2. WaitInv /\ [WaitNext]_waitVars => WaitInv'
  BY WaitStep
<1> QED
  BY <1>1, <1>2, PTL DEF WaitSpec

-----------------------------------------------------------------------------
\* Lengths of programs, owners and depths.
THEOREM WaitTypes == WaitSpec => []WaitTypeOK
<1>1. WaitInv => WaitTypeOK
  <2> SUFFICES ASSUME WaitInv
               PROVE  WaitTypeOK
    OBVIOUS
  <2>1. \A t \in Threads : Len(todo[t]) <= 4
    BY DoingLength DEF WaitInv
  <2>2. \A s \in Sections : depth[s] \in 0 .. 2
    BY DEF WaitInv
  <2> QED
    BY <2>1, <2>2 DEF WaitInv, WaitTypeOK
<1> QED
  BY <1>1, WaitInvariant, PTL

\* A thread waits for the owner of a section, or for the UI thread to answer.
LEMMA WaitingFor ==
  ASSUME WaitInv, NEW t \in Threads, NEW v \in WaitsFor(t)
  PROVE  /\ todo[t] # <<>> /\ v # t
         /\ \/ \E s \in Sections : Head(todo[t]) = EnterOp(s) /\ v = owner[s] /\ v \in Threads
            \/ t # Ui /\ Head(todo[t]) = SendOp /\ v = Ui
<1> DEFINE q == todo[t]
<1>1. At(t, "enter") \/ At(t, "send")
  BY DEF WaitsFor
<1>2. q # <<>> /\ Doing(t, q, Holds(t)) /\ Head(q).does \in {"enter", "send"}
  BY <1>1 DEF At, WaitInv
<1>3. \/ \E s \in Sections : Head(q) = EnterOp(s)
      \/ Head(q) = SendOp /\ t # Ui
  BY <1>2, DoingOperation, Operations
<1>4. ASSUME NEW s \in Sections, Head(q) = EnterOp(s)
      PROVE  v = owner[s] /\ v \in Threads /\ v # t
  <2>1. At(t, "enter") /\ Section(t) = s
    BY <1>2, <1>4, Operations DEF At, Section
  <2>3. ~At(t, "send")
    BY <1>4, Operations DEF At
  <2>4. WaitsFor(t) = {owner[s]} \ {Nobody, t}
    BY <2>1, <2>3 DEF WaitsFor
  <2>2. v \in {owner[s]} \ {Nobody, t}
    BY <2>4
  <2> QED
    BY <2>2 DEF WaitInv
<1>5. CASE Head(q) = SendOp /\ t # Ui
  <2>1. ~At(t, "enter")
    BY <1>5, Operations DEF At
  <2>2. v = Ui
    BY <2>1 DEF WaitsFor
  <2> QED
    BY <1>2, <1>5, <2>2
<1> QED
  BY <1>2, <1>3, <1>4, <1>5

\* Inside of log_mutex, a mutex_session or a mutex_outbuf a thread leaves next, or enters
\* log_mutex again; a connection inside of mutex leaves it.
LEMMA InsideLast ==
  ASSUME NEW t \in Threads, NEW q, NEW H, Doing(t, q, H), NEW s \in H,
         \/ s = LogMutex
         \/ \E c \in Connections : s \in {MutexSession(c), MutexOutbuf(c)}
         \/ s = Mutex /\ t # Ui
  PROVE  \/ \E r : Head(q) = LeaveOp(r)
         \/ s = LogMutex /\ Head(q) = EnterOp(LogMutex)
<1>0. \A c \in Connections : s # MutexDcc(c)
  BY Different
<1>1. ASSUME NEW B, NEW r, Simply(q, H, B, r), s \notin B
      PROVE  Head(q) = LeaveOp(r)
  BY <1>1, Steps DEF Simply
<1>2. ASSUME NEW B, Logging(q, H, B), s \notin B
      PROVE  Head(q) = LeaveOp(LogMutex) \/ (s = LogMutex /\ Head(q) = EnterOp(LogMutex))
  BY <1>1, <1>2, Steps DEF Logging, Again, Back
<1>3. CASE t = Ui /\ UiDoing(q, H)
  <2>1. s # Mutex
    BY <1>3, Different
  <2>2. ASSUME NEW c \in Connections, Messaging(q, H, c)
        PROVE  Head(q) = LeaveOp(MutexOutbuf(c))
    BY <1>0, <2>1, <2>2, Steps DEF Messaging
  <2>3. H # {} /\ H # {Mutex}
    BY <2>1
  <2>4. \/ Logging(q, H, {Mutex})
        \/ \E c \in Connections : \/ Simply(q, H, {Mutex}, MutexSession(c))
                                  \/ Simply(q, H, {Mutex}, MutexDcc(c))
                                  \/ Messaging(q, H, c)
    BY <1>3, <2>3 DEF UiDoing
  <2> QED
    BY <1>1, <1>2, <2>1, <2>2, <2>4
<1>4. CASE t = Helper /\ HelperDoing(q, H)
  BY <1>1, <1>2, <1>4 DEF HelperDoing
<1>5. CASE t \in Connections /\ ConnectionDoing(t, q, H)
  <2>1. s \notin {MutexDcc(t)} /\ s \notin {}
    BY <1>0, <1>5
  <2>2. \/ Logging(q, H, {})
        \/ \E r \in {MutexSession(t), MutexDcc(t), Mutex} : Simply(q, H, {}, r)
        \/ Simply(q, H, {MutexDcc(t)}, MutexOutbuf(t))
    BY <1>5, <2>1 DEF ConnectionDoing
  <2> QED
    BY <1>1, <1>2, <2>1, <2>2
<1> QED
  BY <1>3, <1>4, <1>5 DEF Doing

\* Inside of the list of chats a thread enters at most a mutex_outbuf.
LEMMA InsideList ==
  ASSUME NEW t \in Threads, NEW q, NEW H, Doing(t, q, H), q # <<>>, NEW d \in Connections, MutexDcc(d) \in H
  PROVE  \/ \E r : Head(q) = LeaveOp(r)
         \/ \E c \in Connections : Head(q) = EnterOp(MutexOutbuf(c))
<1> DEFINE s == MutexDcc(d)
<1>0. s # Mutex /\ s # LogMutex /\ \A c \in Connections : s \notin {MutexSession(c), MutexOutbuf(c)}
  BY Different
<1>1. ASSUME NEW B, NEW r, Simply(q, H, B, r), s \notin B
      PROVE  Head(q) = LeaveOp(r)
  BY <1>1, Steps DEF Simply
<1>2. ASSUME NEW B, Logging(q, H, B), s \notin B
      PROVE  FALSE
  BY <1>0, <1>2 DEF Logging, Simply
<1>3. CASE t = Ui /\ UiDoing(q, H)
  <2>1. s \notin {Mutex} /\ H # {} /\ H # {Mutex}
    BY <1>0
  <2>2. ASSUME NEW c \in Connections, Messaging(q, H, c)
        PROVE  Head(q) \in {LeaveOp(MutexOutbuf(c)), EnterOp(MutexOutbuf(c))}
    BY <2>1, <2>2, Steps DEF Messaging
  <2>4. \/ Logging(q, H, {Mutex})
        \/ \E c \in Connections : \/ Simply(q, H, {Mutex}, MutexSession(c))
                                  \/ Simply(q, H, {Mutex}, MutexDcc(c))
                                  \/ Messaging(q, H, c)
    BY <1>3, <2>1 DEF UiDoing
  <2> HIDE DEF s
  <2> QED
    BY <1>1, <1>2, <2>1, <2>2, <2>4
<1>4. CASE t = Helper /\ HelperDoing(q, H)
  BY <1>1, <1>2, <1>4 DEF HelperDoing
<1>5. CASE t \in Connections /\ ConnectionDoing(t, q, H)
  <2>1. H # {} /\ s \notin {}
    OBVIOUS
  <2>2. CASE q = <<LeaveOp(MutexDcc(t)), SendOp, EnterOp(MutexDcc(t))>>
    BY <2>2, Steps
  <2>3. CASE Simply(q, H, {MutexDcc(t)}, MutexOutbuf(t))
    BY <1>5, <2>3, Steps DEF Simply
  <2>4. \/ q = <<LeaveOp(MutexDcc(t)), SendOp, EnterOp(MutexDcc(t))>>
        \/ Logging(q, H, {})
        \/ \E r \in {MutexSession(t), MutexDcc(t), Mutex} : Simply(q, H, {}, r)
        \/ Simply(q, H, {MutexDcc(t)}, MutexOutbuf(t))
    BY <1>5, <2>1 DEF ConnectionDoing
  <2> HIDE DEF s
  <2> QED
    BY <1>1, <1>2, <2>1, <2>2, <2>3, <2>4
<1> QED
  BY <1>3, <1>4, <1>5 DEF Doing

\* The sections there are.
LEMMA SectionKinds ==
  ASSUME NEW s \in Sections
  PROVE  \/ s = Mutex
         \/ s = LogMutex \/ \E c \in Connections : s \in {MutexSession(c), MutexOutbuf(c)}
         \/ \E c \in Connections : s = MutexDcc(c)
BY DEF Sections

\* The owner of any section but mutex and a list of chats waits for nobody.
LEMMA OwnerMoves ==
  ASSUME WaitInv, NEW s \in Sections, NEW u \in Threads, owner[s] = u,
         \/ s = LogMutex
         \/ \E c \in Connections : s \in {MutexSession(c), MutexOutbuf(c)}
         \/ s = Mutex /\ u # Ui
  PROVE  WaitsFor(u) = {}
<1> SUFFICES ASSUME NEW v \in WaitsFor(u)
             PROVE  FALSE
  OBVIOUS
<1>1. /\ todo[u] # <<>> /\ v # u
      /\ \/ \E r \in Sections : Head(todo[u]) = EnterOp(r) /\ v = owner[r] /\ v \in Threads
         \/ u # Ui /\ Head(todo[u]) = SendOp /\ v = Ui
  BY WaitingFor
<1>2. s \in Holds(u) /\ Doing(u, todo[u], Holds(u))
  BY DEF Holds, WaitInv
<1>3. \/ \E r : Head(todo[u]) = LeaveOp(r)
      \/ s = LogMutex /\ Head(todo[u]) = EnterOp(LogMutex)
  BY <1>2, InsideLast
<1>4. s = LogMutex /\ Head(todo[u]) = EnterOp(LogMutex)
  BY <1>1, <1>3, Operations
<1>5. v = owner[LogMutex]
  BY <1>1, <1>4, Operations
<1> QED
  BY <1>1, <1>4, <1>5

\* The owner of a list of chats waits at most for such an owner.
LEMMA OwnerWaitsOnce ==
  ASSUME WaitInv, NEW d \in Connections, NEW u \in Threads, owner[MutexDcc(d)] = u, NEW v \in WaitsFor(u)
  PROVE  WaitsFor(v) = {}
<1>1. /\ todo[u] # <<>> /\ v # u
      /\ \/ \E r \in Sections : Head(todo[u]) = EnterOp(r) /\ v = owner[r] /\ v \in Threads
         \/ u # Ui /\ Head(todo[u]) = SendOp /\ v = Ui
  BY WaitingFor
<1>2. MutexDcc(d) \in Holds(u) /\ Doing(u, todo[u], Holds(u))
  BY Members DEF Holds, WaitInv
<1>3. \/ \E r : Head(todo[u]) = LeaveOp(r)
      \/ \E c \in Connections : Head(todo[u]) = EnterOp(MutexOutbuf(c))
  BY <1>1, <1>2, InsideList
<1>4. PICK c \in Connections : Head(todo[u]) = EnterOp(MutexOutbuf(c))
  BY <1>1, <1>3, Operations
<1>5. v = owner[MutexOutbuf(c)] /\ v \in Threads /\ MutexOutbuf(c) \in Sections
  BY <1>1, <1>4, Operations, Members
<1> QED
  BY <1>5, OwnerMoves

\* So, but for the UI thread, whoever is waited for waits for one thread more at most.
LEMMA WaitingEnds ==
  ASSUME WaitInv, NEW t \in Threads, NEW v \in WaitsFor(t), v # Ui
  PROVE  \A w \in WaitsFor(v) : WaitsFor(w) = {}
<1>1. PICK s \in Sections : v = owner[s] /\ v \in Threads
  BY WaitingFor
<1>2. CASE s = Mutex \/ s = LogMutex \/ \E c \in Connections : s \in {MutexSession(c), MutexOutbuf(c)}
  BY <1>1, <1>2, OwnerMoves
<1>3. CASE \E c \in Connections : s = MutexDcc(c)
  BY <1>1, <1>3, OwnerWaitsOnce
<1> QED
  BY <1>2, <1>3, SectionKinds

\* For any number of connections no set of threads is stuck waiting for its own members:
\* neither for critical sections, nor for the UI thread to answer what was sent to it.
THEOREM NobodyStuck == WaitSpec => []NoDeadlock
<1>1. WaitInv => NoDeadlock
  <2> SUFFICES ASSUME WaitInv, NEW S \in SUBSET Threads, S # {},
                      \A t \in S : WaitsFor(t) \cap S # {}
               PROVE  FALSE
    BY DEF NoDeadlock
  <2>1. ASSUME NEW t \in S, NEW v \in WaitsFor(t) \cap S, v # Ui
        PROVE  FALSE
    <3>1. \A w \in WaitsFor(v) : WaitsFor(w) = {}
      BY <2>1, WaitingEnds
    <3>2. PICK w \in S : w \in WaitsFor(v)
      BY <2>1
    <3> QED
      BY <3>1, <3>2
  <2>2. PICK t \in S : TRUE
    OBVIOUS
  <2>3. PICK v \in S : v \in WaitsFor(t)
    BY <2>2
  <2>4. v = Ui
    BY <2>1, <2>3
  <2>5. PICK w \in S : w \in WaitsFor(Ui)
    BY <2>3, <2>4
  <2>6. w # Ui
    BY <2>4, <2>5, WaitingFor
  <2> QED
    BY <2>1, <2>4, <2>5, <2>6
<1> QED
  BY <1>1, WaitInvariant, PTL

-----------------------------------------------------------------------------
(***************************************************************************)
(* The text of a direct chat, for a buffer of any size and any number of   *)
(* lines of any length.  The argument: what has arrived and is not taken   *)
(* yet consists of the lines not handed over, one block of characters for  *)
(* each, with nothing but ends of lines around them.  A round takes the    *)
(* first block with its end, or ends alone.                                *)
(***************************************************************************)
\* The buffer and what is on its way, as one text.
Unread == incoming_buf \o chat_arriving

ChatTypes ==
  /\ chat_sent \in Seq(Seq(Characters)) /\ Len(chat_sent) <= MaxChatLines
  /\ chat_lines \in Seq(Seq(Characters))
  /\ incoming_buf \in Seq(Characters) /\ chat_arriving \in Seq(Characters)
  /\ Len(incoming_buf) <= ChatSize
  /\ \A k \in 1 .. Len(chat_sent) :
       Len(chat_sent[k]) > 0 /\ \A i \in 1 .. Len(chat_sent[k]) : chat_sent[k][i] = k

\* The place i is in the block of line k, which starts at at[k].
InLine(i, at, sent, k) == at[k] <= i /\ i < at[k] + Len(sent[k])

\* The lines of sent after the first m stand in text at the places at.
Blocks(text, sent, m, at) ==
  /\ \A k \in m + 1 .. Len(sent) : at[k] \in Nat /\ at[k] >= 1 /\ at[k] + Len(sent[k]) <= Len(text)
  /\ \A j, k \in m + 1 .. Len(sent) : j < k => at[j] + Len(sent[j]) < at[k]
  /\ \A i \in 1 .. Len(text), k \in m + 1 .. Len(sent) : InLine(i, at, sent, k) => text[i] = k
  /\ \A i \in 1 .. Len(text) : (\A k \in m + 1 .. Len(sent) : ~InLine(i, at, sent, k)) => IsEnd(text[i])

ChatInv ==
  /\ ChatTypes
  /\ Len(chat_lines) <= Len(chat_sent)
  /\ \A k \in 1 .. Len(chat_lines) : chat_lines[k] = chat_sent[k]
  /\ \E at : Blocks(Unread, chat_sent, Len(chat_lines), at)

-----------------------------------------------------------------------------
\* Texts may be grouped as one likes.
LEMMA Regroup ==
  ASSUME NEW s \in Seq(Characters), NEW t \in Seq(Characters), NEW u \in Seq(Characters)
  PROVE  (s \o t) \o u = s \o (t \o u)
BY ConcatAssociative

\* What is left of a text when n characters are taken from its front.
Left(text, all, n, S) ==
  /\ text \in Seq(S) /\ Len(text) = Len(all) - n
  /\ \A i \in 1 .. Len(text) : text[i] = all[i + n]

\* Characters taken from the front of the first of two texts are taken from both.
LEMMA Without ==
  ASSUME NEW S, NEW a \in Seq(S), NEW b \in Seq(S), NEW n \in 0 .. Len(a),
         NEW c, c = SubSeq(a, n + 1, Len(a)), NEW all, all = a \o b
  PROVE  Left(c, a, n, S) /\ Left(c \o b, all, n, S)
<1> DEFINE rest == c \o b
<1>1. Len(a) \in Nat /\ Len(b) \in Nat /\ n \in Nat /\ n <= Len(a)
  BY LenProperties
<1>2. \A i \in n + 1 .. Len(a) : a[i] \in S
  BY <1>1, ElementOfSeq
<1>3. /\ c \in Seq(S)
      /\ Len(c) = (IF n + 1 <= Len(a) THEN Len(a) - (n + 1) + 1 ELSE 0)
      /\ \A i \in 1 .. Len(a) - (n + 1) + 1 : c[i] = a[n + 1 + i - 1]
  <2>1. n + 1 \in Int /\ Len(a) \in Int
    BY <1>1
  <2> QED
    BY <1>2, <2>1, SubSeqProperties
<1>4. Len(c) = Len(a) - n /\ \A i \in 1 .. Len(c) : c[i] = a[i + n]
  <2>1. Len(c) = Len(a) - n
    BY <1>1, <1>3
  <2>2. \A i \in 1 .. Len(c) : n + 1 + i - 1 = i + n /\ i \in 1 .. Len(a) - (n + 1) + 1
    BY <1>1, <2>1
  <2> QED
    BY <1>3, <2>1, <2>2
<1>5. /\ rest \in Seq(S) /\ Len(rest) = Len(c) + Len(b)
      /\ \A i \in 1 .. Len(c) + Len(b) : rest[i] = IF i <= Len(c) THEN c[i] ELSE b[i - Len(c)]
  BY <1>3, ConcatProperties
<1>6. /\ Len(all) = Len(a) + Len(b)
      /\ \A i \in 1 .. Len(a) + Len(b) : all[i] = IF i <= Len(a) THEN a[i] ELSE b[i - Len(a)]
  BY ConcatProperties
<1> HIDE DEF rest
<1>7. ASSUME NEW i \in 1 .. Len(rest)
      PROVE  rest[i] = all[i + n]
  <2>1. Len(c) = Len(a) - n /\ Len(rest) = Len(c) + Len(b)
    BY <1>4, <1>5
  <2>2. i + n \in 1 .. Len(a) + Len(b)
    BY <1>1, <2>1
  <2>3. (i <= Len(c) <=> i + n <= Len(a)) /\ i - Len(c) = i + n - Len(a)
    <3> DEFINE l == Len(c)
               k == Len(a)
    <3>1. l = k - n /\ k \in Nat /\ n \in Nat /\ i \in Int /\ l \in Int
      BY <1>1, <2>1
    <3> HIDE DEF l, k
    <3>2. (i <= l <=> i + n <= k) /\ i - l = i + n - k
      BY <3>1
    <3> QED
      BY <3>2 DEF l, k
  <2>4. i \in 1 .. Len(c) + Len(b) /\ (i <= Len(c) => i \in 1 .. Len(c))
    BY <1>1, <2>1
  <2>5. rest[i] = IF i <= Len(c) THEN a[i + n] ELSE b[i - Len(c)]
    BY <1>4, <1>5, <2>4
  <2>6. all[i + n] = IF i + n <= Len(a) THEN a[i + n] ELSE b[i + n - Len(a)]
    BY <1>6, <2>2
  <2> QED
    BY <2>3, <2>5, <2>6
<1>8. Len(rest) = Len(all) - n
  BY <1>1, <1>4, <1>5, <1>6
<1>9. Left(c, a, n, S)
  BY <1>3, <1>4 DEF Left
<1>10. Left(rest, all, n, S)
  BY <1>5, <1>7, <1>8 DEF Left
<1> QED
  BY <1>9, <1>10 DEF rest

\* recv puts some of what is on its way behind what is in the buffer.
LEMMA Received ==
  ASSUME ChatTypes, NEW n \in Nat, n <= Len(chat_arriving)
  PROVE  LET buf == incoming_buf \o SubSeq(chat_arriving, 1, n)
             rest == SubSeq(chat_arriving, n + 1, Len(chat_arriving))
         IN /\ buf \in Seq(Characters) /\ Len(buf) = Len(incoming_buf) + n
            /\ rest \in Seq(Characters)
            /\ buf \o rest = Unread
<1> DEFINE first == SubSeq(chat_arriving, 1, n)
           rest == SubSeq(chat_arriving, n + 1, Len(chat_arriving))
<1>1. /\ incoming_buf \in Seq(Characters) /\ chat_arriving \in Seq(Characters)
      /\ Len(chat_arriving) \in Nat /\ Len(incoming_buf) \in Nat
  BY LenProperties DEF ChatTypes
<1>2. first \in Seq(Characters) /\ Len(first) = n
  <2>1. \A i \in 1 .. n : chat_arriving[i] \in Characters
    BY <1>1, ElementOfSeq
  <2>2. first \in Seq(Characters) /\ Len(first) = (IF 1 <= n THEN n - 1 + 1 ELSE 0)
    BY <2>1, SubSeqProperties
  <2> QED
    BY <2>2
<1>3. rest \in Seq(Characters)
  <2>1. \A i \in n + 1 .. Len(chat_arriving) : chat_arriving[i] \in Characters
    BY <1>1, ElementOfSeq
  <2> QED
    BY <1>1, <2>1, SubSeqProperties
<1>4. first \o rest = chat_arriving
  <2>1. first \o rest = SubSeq(chat_arriving, 1, Len(chat_arriving))
    <3>1. 1 \in 1 .. Len(chat_arriving) + 1 /\ n \in 1 - 1 .. Len(chat_arriving)
          /\ Len(chat_arriving) \in n .. Len(chat_arriving)
      BY <1>1
    <3> QED
      BY <1>1, <3>1, ConcatAdjacentSubSeq
  <2> QED
    BY <1>1, <2>1, SubSeqFull
<1> HIDE DEF first, rest
<1>5. incoming_buf \o first \in Seq(Characters) /\ Len(incoming_buf \o first) = Len(incoming_buf) + n
  BY <1>1, <1>2, ConcatProperties
<1>6. (incoming_buf \o first) \o rest = Unread
  <2>1. (incoming_buf \o first) \o rest = incoming_buf \o (first \o rest)
    BY <1>1, <1>2, <1>3, Regroup, SMTT(60)
  <2> QED
    BY <1>4, <2>1 DEF Unread
<1> QED
  BY <1>3, <1>5, <1>6 DEF first, rest

\* The character in a block is no end of a line.
LEMMA NoEnd == \A k \in Nat : k > 0 => ~IsEnd(k)
BY DEF IsEnd, CR, LF

\* The blocks after the m-th when the first n characters are taken, and they are not in
\* any of these blocks.
LEMMA Shifted ==
  ASSUME NEW text, NEW rest, NEW sent, NEW l \in Nat, NEW m \in Nat, NEW n \in Nat, NEW at,
         l <= m, Len(sent) \in Nat, Len(text) \in Nat, Len(rest) = Len(text) - n, n <= Len(text),
         \A k \in 1 .. Len(sent) : Len(sent[k]) \in Nat,
         \A i \in 1 .. Len(rest) : rest[i] = text[i + n],
         Blocks(text, sent, l, at),
         \A k \in m + 1 .. Len(sent) : at[k] > n,
         \A k \in l + 1 .. m : k <= Len(sent) /\ at[k] + Len(sent[k]) <= n + 1
  PROVE  \E new : Blocks(rest, sent, m, new)
<1> DEFINE new == [k \in m + 1 .. Len(sent) |-> at[k] - n]
<1>1. \A k \in m + 1 .. Len(sent) :
        k \in l + 1 .. Len(sent) /\ k \in 1 .. Len(sent) /\ new[k] = at[k] - n
  OBVIOUS
<1> HIDE DEF new
<1>2. ASSUME NEW k \in m + 1 .. Len(sent)
      PROVE  /\ at[k] \in Nat /\ at[k] + Len(sent[k]) <= Len(text) /\ Len(sent[k]) \in Nat
             /\ new[k] \in Nat /\ new[k] >= 1 /\ new[k] + Len(sent[k]) <= Len(rest)
  <2>1. at[k] \in Nat /\ at[k] > n /\ Len(sent[k]) \in Nat /\ at[k] + Len(sent[k]) <= Len(text)
    BY <1>1 DEF Blocks
  <2>2. new[k] = at[k] - n
    BY <1>1
  <2> QED
    BY <2>1, <2>2, SMTT(60)
<1>3. ASSUME NEW j \in m + 1 .. Len(sent), NEW k \in m + 1 .. Len(sent), j < k
      PROVE  new[j] + Len(sent[j]) < new[k]
  <2>1. at[j] + Len(sent[j]) < at[k]
    BY <1>1, <1>3 DEF Blocks
  <2>2. new[k] = at[k] - n /\ new[j] = at[j] - n
    BY <1>1
  <2>3. at[j] \in Nat /\ at[k] \in Nat /\ Len(sent[j]) \in Nat
    BY <1>2
  <2> QED
    BY <2>1, <2>2, <2>3, SMTT(60)
<1>4. ASSUME NEW i \in 1 .. Len(rest), NEW k \in m + 1 .. Len(sent)
      PROVE  InLine(i, new, sent, k) <=> InLine(i + n, at, sent, k)
  <2>1. at[k] \in Nat /\ Len(sent[k]) \in Nat /\ new[k] = at[k] - n /\ i \in Nat
    BY <1>1, <1>2, SMTT(60)
  <2> QED
    BY <2>1, SMTT(60) DEF InLine
<1>5. ASSUME NEW i \in 1 .. Len(rest)
      PROVE  i + n \in 1 .. Len(text) /\ rest[i] = text[i + n]
  BY <1>5
<1>6. ASSUME NEW i \in 1 .. Len(rest), NEW k \in m + 1 .. Len(sent), InLine(i, new, sent, k)
      PROVE  rest[i] = k
  BY <1>1, <1>4, <1>5, <1>6 DEF Blocks
<1>7. ASSUME NEW i \in 1 .. Len(rest), \A k \in m + 1 .. Len(sent) : ~InLine(i, new, sent, k)
      PROVE  IsEnd(rest[i])
  <2>1. ASSUME NEW k \in l + 1 .. Len(sent)
        PROVE  ~InLine(i + n, at, sent, k)
    <3>1. CASE k \in m + 1 .. Len(sent)
      BY <1>4, <1>7, <3>1
    <3>2. CASE k \in l + 1 .. m
      <4>1. at[k] + Len(sent[k]) <= n + 1 /\ at[k] \in Nat
        BY <3>2 DEF Blocks
      <4>2. Len(sent[k]) \in Nat
        BY <3>2
      <4> QED
        BY <4>1, <4>2, SMTT(60) DEF InLine
    <3> QED
      BY <3>1, <3>2
  <2> QED
    BY <1>5, <2>1 DEF Blocks
<1>8. Blocks(rest, sent, m, new)
  BY <1>2, <1>3, <1>6, <1>7 DEF Blocks
<1> QED
  BY <1>8

-----------------------------------------------------------------------------
\* At first nothing was sent.
LEMMA ChatInitial == ChatInit => ChatInv
<1> SUFFICES ASSUME ChatInit
             PROVE  ChatInv
  OBVIOUS
<1>1. /\ chat_sent = <<>> /\ chat_lines = <<>> /\ incoming_buf = <<>> /\ chat_arriving = <<>>
      /\ ChatSize \in Nat /\ MaxChatLines \in Nat
  BY ChatAssumption DEF ChatInit
<1>2. ChatTypes
  <2>1. <<>> \in Seq(Seq(Characters)) /\ <<>> \in Seq(Characters) /\ Len(<<>>) = 0
    OBVIOUS
  <2> QED
    BY <1>1, <2>1 DEF ChatTypes
<1>3. Unread = <<>>
  BY <1>1 DEF Unread
<1>4. Blocks(Unread, chat_sent, Len(chat_lines), <<>>)
  <2>1. Len(<<>>) = 0 /\ 1 .. 0 = {} /\ 0 + 1 .. 0 = {}
    OBVIOUS
  <2>2. Len(chat_sent) = 0 /\ Len(chat_lines) = 0 /\ Len(Unread) = 0
    BY <1>1, <1>3
  <2> QED
    BY <2>1, <2>2 DEF Blocks
<1>5. Len(chat_lines) <= Len(chat_sent) /\ 1 .. Len(chat_lines) = {}
  BY <1>1
<1> QED
  BY <1>2, <1>4, <1>5 DEF ChatInv

\* A line is sent: one block more, or an end only.
LEMMA PeerStep ==
  ASSUME ChatInv, NEW length \in ChatLengths, NEW end \in Ends, PeerSends(length, end)
  PROVE  ChatInv'
<1> DEFINE n == Len(chat_sent)
           m == Len(chat_lines)
           line == Line(n + 1, length)
           more == line \o end
<1>1. /\ ChatTypes /\ length \in Nat /\ MaxChatLines \in Nat
      /\ chat_sent \in Seq(Seq(Characters)) /\ n \in Nat /\ n < MaxChatLines
      /\ chat_lines \in Seq(Seq(Characters)) /\ m \in Nat /\ m <= n
      /\ incoming_buf \in Seq(Characters) /\ chat_arriving \in Seq(Characters)
      /\ Len(incoming_buf) \in Nat /\ Len(chat_arriving) \in Nat
  BY ChatAssumption, LenProperties DEF ChatInv, ChatTypes, PeerSends
<1>2. /\ line \in Seq(Characters) /\ Len(line) = length
      /\ \A i \in 1 .. length : line[i] = n + 1
  BY <1>1 DEF Line, Characters
<1>3. /\ end \in Seq(Characters) /\ Len(end) \in Nat /\ Len(end) > 0
      /\ \A i \in 1 .. Len(end) : IsEnd(end[i])
  <2>1. \A c \in {CR, LF} : IsEnd(c) /\ c \in Characters
    BY DEF IsEnd, Characters
  <2>2. CASE end = <<CR, LF>>
    <3>1. end \in Seq(Characters) /\ Len(end) = 2 /\ end[1] = CR /\ end[2] = LF
      BY <2>1, <2>2
    <3>2. \A i \in 1 .. 2 : i = 1 \/ i = 2
      OBVIOUS
    <3> QED
      BY <2>1, <3>1, <3>2
  <2>3. CASE end = <<LF>>
    <3>1. end \in Seq(Characters) /\ Len(end) = 1 /\ end[1] = LF
      BY <2>1, <2>3
    <3>2. \A i \in 1 .. 1 : i = 1
      OBVIOUS
    <3> QED
      BY <2>1, <3>1, <3>2
  <2> QED
    BY <2>2, <2>3 DEF Ends
<1>4. /\ chat_arriving' = chat_arriving \o line \o end
      /\ incoming_buf' = incoming_buf /\ chat_lines' = chat_lines
      /\ chat_sent' = IF line = <<>> THEN chat_sent ELSE Append(chat_sent, line)
  BY DEF PeerSends
<1> HIDE DEF n, m, line
<1>5. /\ more \in Seq(Characters) /\ Len(more) = length + Len(end)
      /\ \A i \in 1 .. length + Len(end) : more[i] = IF i <= length THEN line[i] ELSE end[i - length]
  BY <1>2, <1>3, ConcatProperties
<1>6. /\ chat_arriving' \in Seq(Characters)
      /\ Unread' = Unread \o more /\ Unread \in Seq(Characters)
  <2>1. chat_arriving' = chat_arriving \o more
    <3>1. (chat_arriving \o line) \o end = chat_arriving \o more
      BY <1>1, <1>2, <1>3, Regroup
    <3> QED
      BY <1>4, <3>1
  <2> HIDE DEF more
  <2>2. chat_arriving' \in Seq(Characters) /\ Unread \in Seq(Characters)
    BY <1>1, <1>5, <2>1, ConcatProperties DEF Unread
  <2>3. incoming_buf \o (chat_arriving \o more) = (incoming_buf \o chat_arriving) \o more
    BY <1>1, <1>5, Regroup
  <2> QED
    BY <1>4, <2>1, <2>2, <2>3 DEF Unread
<1> HIDE DEF more
<1>7. Len(Unread) \in Nat
  BY <1>6, LenProperties
<1>8. /\ Len(Unread') = Len(Unread) + length + Len(end)
      /\ \A i \in 1 .. Len(Unread') :
           Unread'[i] = CASE i <= Len(Unread) -> Unread[i]
                          [] i > Len(Unread) /\ i <= Len(Unread) + length -> n + 1
                          [] OTHER -> end[i - Len(Unread) - length]
  <2>1. /\ Len(Unread') = Len(Unread) + Len(more)
        /\ \A i \in 1 .. Len(Unread) + Len(more) :
             Unread'[i] = IF i <= Len(Unread) THEN Unread[i] ELSE more[i - Len(Unread)]
    BY <1>5, <1>6, ConcatProperties
  <2>2. Len(Unread') = Len(Unread) + length + Len(end)
    BY <1>1, <1>3, <1>5, <1>7, <2>1
  <2>3. ASSUME NEW i \in 1 .. Len(Unread')
        PROVE  Unread'[i] = CASE i <= Len(Unread) -> Unread[i]
                              [] i > Len(Unread) /\ i <= Len(Unread) + length -> n + 1
                              [] OTHER -> end[i - Len(Unread) - length]
    <3>1. CASE i <= Len(Unread)
      BY <2>1, <2>3, <3>1
    <3>2. CASE i > Len(Unread) /\ i <= Len(Unread) + length
      <4>1. i - Len(Unread) \in 1 .. length /\ i - Len(Unread) \in 1 .. length + Len(end)
        BY <1>1, <1>3, <1>7, <3>2
      <4>2. Unread'[i] = more[i - Len(Unread)]
        BY <1>7, <2>1, <3>2
      <4> QED
        BY <1>1, <1>2, <1>5, <1>7, <3>2, <4>1, <4>2
    <3>3. CASE i > Len(Unread) + length
      <4>1. i - Len(Unread) \in 1 .. length + Len(end) /\ ~(i - Len(Unread) <= length) /\ ~(i <= Len(Unread))
        BY <1>1, <1>3, <1>7, <2>2, <3>3
      <4>2. Unread'[i] = more[i - Len(Unread)]
        BY <2>1, <4>1
      <4> QED
        BY <1>1, <1>5, <1>7, <3>3, <4>1, <4>2, SMTT(60)
    <3> QED
      BY <1>1, <1>7, <3>1, <3>2, <3>3
  <2> QED
    BY <2>2, <2>3
<1>9. /\ chat_sent' \in Seq(Seq(Characters))
      /\ Len(chat_sent') = IF length = 0 THEN n ELSE n + 1
      /\ \A k \in 1 .. n : chat_sent'[k] = chat_sent[k]
      /\ length # 0 => chat_sent'[n + 1] = line
  <2>1. line = <<>> <=> length = 0
    BY <1>1, <1>2, EmptySeq
  <2> QED
    BY <1>1, <1>2, <1>4, <2>1 DEF n
<1>10. ChatTypes'
  <2>1. \A k \in 1 .. n : Len(chat_sent[k]) > 0 /\ \A i \in 1 .. Len(chat_sent[k]) : chat_sent[k][i] = k
    BY <1>1 DEF ChatTypes, n
  <2>2. ASSUME NEW k \in 1 .. Len(chat_sent')
        PROVE  Len(chat_sent'[k]) > 0 /\ \A i \in 1 .. Len(chat_sent'[k]) : chat_sent'[k][i] = k
    <3>1. CASE k \in 1 .. n
      BY <1>9, <2>1, <3>1
    <3>2. CASE k \notin 1 .. n
      <4>1. length # 0 /\ k = n + 1
        BY <1>1, <1>9, <3>2
      <4> QED
        BY <1>1, <1>2, <1>9, <4>1
    <3> QED
      BY <3>1, <3>2
  <2>3. Len(chat_sent') <= MaxChatLines
    BY <1>1, <1>9
  <2> QED
    BY <1>1, <1>4, <1>6, <1>9, <2>2, <2>3 DEF ChatTypes
<1>11. PICK at : Blocks(Unread, chat_sent, m, at)
  BY DEF ChatInv, m
<1> DEFINE new == [k \in m + 1 .. n + 1 |-> IF k <= n THEN at[k] ELSE Len(Unread) + 1]
<1>12. /\ \A k \in m + 1 .. n : new[k] = at[k]
       /\ new[n + 1] = Len(Unread) + 1
  BY <1>1
<1> HIDE DEF new
<1>13. \A k \in m + 1 .. n :
         /\ at[k] \in Nat /\ at[k] >= 1 /\ Len(chat_sent[k]) \in Nat
         /\ at[k] + Len(chat_sent[k]) <= Len(Unread) /\ k \in 1 .. n
  <2>1. \A k \in 1 .. n : chat_sent[k] \in Seq(Characters)
    BY <1>1, ElementOfSeq DEF n
  <2>2. \A k \in m + 1 .. n : k \in 1 .. n
    BY <1>1
  <2> QED
    BY <1>11, <2>1, <2>2, LenProperties DEF Blocks, n
<1>14. \A k \in m + 1 .. Len(chat_sent') :
         \/ /\ k \in m + 1 .. n /\ new[k] = at[k] /\ chat_sent'[k] = chat_sent[k]
         \/ /\ k = n + 1 /\ new[k] = Len(Unread) + 1 /\ Len(chat_sent'[k]) = length /\ length > 0
  <2>1. ASSUME NEW k \in m + 1 .. Len(chat_sent')
        PROVE  k \in m + 1 .. n \/ (k = n + 1 /\ length # 0)
    BY <1>1, <1>9
  <2>2. length # 0 => length > 0
    BY <1>1
  <2> QED
    BY <1>2, <1>9, <1>12, <1>13, <2>1, <2>2
<1>15. \A k \in m + 1 .. Len(chat_sent') :
         new[k] \in Nat /\ new[k] >= 1 /\ new[k] + Len(chat_sent'[k]) <= Len(Unread')
  <2> TAKE k \in m + 1 .. Len(chat_sent')
  <2>1. CASE k \in m + 1 .. n /\ new[k] = at[k] /\ chat_sent'[k] = chat_sent[k]
    <3>1. Len(Unread) <= Len(Unread') /\ Len(Unread') \in Nat
      BY <1>1, <1>3, <1>7, <1>8, SMTT(60)
    <3>2. /\ at[k] \in Nat /\ at[k] >= 1 /\ Len(chat_sent[k]) \in Nat
          /\ at[k] + Len(chat_sent[k]) <= Len(Unread)
      BY <1>13, <2>1
    <3> QED
      BY <1>7, <2>1, <3>1, <3>2
  <2>2. CASE k = n + 1 /\ new[k] = Len(Unread) + 1 /\ Len(chat_sent'[k]) = length
    BY <1>1, <1>3, <1>7, <1>8, <2>2, SMTT(60)
  <2> QED
    BY <1>14, <2>1, <2>2
<1>16. ASSUME NEW j \in m + 1 .. Len(chat_sent'), NEW k \in m + 1 .. Len(chat_sent'), j < k
       PROVE  new[j] + Len(chat_sent'[j]) < new[k]
  <2>1. j \in m + 1 .. n /\ new[j] = at[j] /\ chat_sent'[j] = chat_sent[j]
    <3>1. j # n + 1
      BY <1>1, <1>9, <1>16
    <3> QED
      BY <1>14, <3>1
  <2>2. CASE k \in m + 1 .. n /\ new[k] = at[k]
    BY <1>11, <1>16, <2>1, <2>2 DEF Blocks, n
  <2>3. CASE new[k] = Len(Unread) + 1
    <3>1. at[j] + Len(chat_sent[j]) <= Len(Unread) /\ at[j] \in Nat /\ Len(chat_sent[j]) \in Nat
      BY <1>13, <2>1
    <3> QED
      BY <1>7, <2>1, <2>3, <3>1
  <2> QED
    BY <1>14, <2>2, <2>3
<1>17. ASSUME NEW i \in 1 .. Len(Unread'), NEW k \in m + 1 .. Len(chat_sent'), InLine(i, new, chat_sent', k)
       PROVE  Unread'[i] = k
  <2>1. CASE k \in m + 1 .. n /\ new[k] = at[k] /\ chat_sent'[k] = chat_sent[k]
    <3>1. InLine(i, at, chat_sent, k)
      BY <1>17, <2>1 DEF InLine
    <3>2. i <= Len(Unread) /\ i \in 1 .. Len(Unread)
      BY <1>7, <1>13, <2>1, <3>1 DEF InLine
    <3>3. Unread[i] = k
      BY <1>11, <2>1, <3>1, <3>2 DEF Blocks, n
    <3> QED
      BY <1>8, <3>2, <3>3
  <2>2. CASE k = n + 1 /\ new[k] = Len(Unread) + 1 /\ Len(chat_sent'[k]) = length
    <3>1. i > Len(Unread) /\ i <= Len(Unread) + length /\ ~(i <= Len(Unread))
      BY <1>1, <1>7, <1>17, <2>2 DEF InLine
    <3> QED
      BY <1>8, <2>2, <3>1
  <2> QED
    BY <1>14, <2>1, <2>2
<1>18. ASSUME NEW i \in 1 .. Len(Unread'), \A k \in m + 1 .. Len(chat_sent') : ~InLine(i, new, chat_sent', k)
       PROVE  IsEnd(Unread'[i])
  <2>1. CASE i <= Len(Unread)
    <3>1. ASSUME NEW k \in m + 1 .. n
          PROVE  ~InLine(i, at, chat_sent, k)
      <4>1. k \in m + 1 .. Len(chat_sent') /\ chat_sent'[k] = chat_sent[k] /\ new[k] = at[k]
        BY <1>1, <1>9, <1>12, <1>13
      <4> QED
        BY <1>18, <4>1 DEF InLine
    <3>2. i \in 1 .. Len(Unread)
      BY <1>7, <2>1
    <3>3. IsEnd(Unread[i])
      BY <1>11, <3>1, <3>2 DEF Blocks, n
    <3> QED
      BY <1>8, <2>1, <3>3
  <2>2. CASE i > Len(Unread) /\ i <= Len(Unread) + length
    <3>1. length # 0
      BY <1>1, <1>7, <2>2
    <3>2. /\ n + 1 \in m + 1 .. Len(chat_sent') /\ chat_sent'[n + 1] = line
          /\ new[n + 1] = Len(Unread) + 1 /\ Len(chat_sent'[n + 1]) = length
      BY <1>1, <1>2, <1>9, <1>12, <3>1
    <3>3. InLine(i, new, chat_sent', n + 1)
      BY <1>1, <1>7, <2>2, <3>2 DEF InLine
    <3> QED
      BY <1>18, <3>2, <3>3
  <2>3. CASE i > Len(Unread) + length
    <3>1. i - Len(Unread) - length \in 1 .. Len(end) /\ ~(i <= Len(Unread)) /\ ~(i <= Len(Unread) + length)
      BY <1>1, <1>3, <1>7, <1>8, <2>3, SMTT(60)
    <3> QED
      BY <1>3, <1>8, <3>1
  <2> QED
    BY <1>1, <1>7, <2>1, <2>2, <2>3
<1>19. Blocks(Unread', chat_sent', m, new)
  BY <1>15, <1>16, <1>17, <1>18 DEF Blocks
<1>20. /\ Len(chat_lines') <= Len(chat_sent')
       /\ \A k \in 1 .. Len(chat_lines') : chat_lines'[k] = chat_sent'[k]
  <2>1. \A k \in 1 .. m : chat_lines[k] = chat_sent[k] /\ k \in 1 .. n
    BY <1>1 DEF ChatInv, m
  <2>2. m <= Len(chat_sent')
    BY <1>1, <1>9
  <2> QED
    BY <1>4, <1>9, <2>1, <2>2 DEF m
<1> QED
  BY <1>4, <1>10, <1>19, <1>20 DEF ChatInv, m

\* The first end of a line in the text: it stands alone, or behind the first block.
FirstBlock(text, sent, m, at, end) ==
  /\ \A k \in m + 1 .. Len(sent), i \in 1 .. Len(text) : IsEnd(text[i]) => at[k] # i
  /\ end > 1 => /\ m + 1 <= Len(sent) /\ at[m + 1] = 1 /\ Len(sent[m + 1]) = end - 1
                /\ \A k \in m + 2 .. Len(sent) : at[k] > end
                /\ \A i \in 1 .. end - 1 : text[i] = m + 1

\* It always stands there.
LEMMA FirstEnd ==
  ASSUME NEW text, NEW sent, NEW m \in Nat, NEW at, NEW end \in Nat,
         Len(sent) \in Nat, Len(text) \in Nat, end >= 1, end <= Len(text),
         \A k \in 1 .. Len(sent) : Len(sent[k]) \in Nat /\ Len(sent[k]) > 0,
         Blocks(text, sent, m, at), IsEnd(text[end]), \A i \in 1 .. end - 1 : ~IsEnd(text[i])
  PROVE  FirstBlock(text, sent, m, at, end)
<1>1. ASSUME NEW k \in m + 1 .. Len(sent)
      PROVE  /\ k \in Nat /\ k > 0 /\ k \in 1 .. Len(sent)
             /\ at[k] \in Nat /\ at[k] >= 1 /\ at[k] + Len(sent[k]) <= Len(text)
             /\ Len(sent[k]) \in Nat /\ Len(sent[k]) > 0
  <2>1. k \in Nat /\ k > 0 /\ k \in 1 .. Len(sent)
    OBVIOUS
  <2> QED
    BY <2>1 DEF Blocks
<1>2. ASSUME NEW k \in m + 1 .. Len(sent), NEW i \in 1 .. Len(text), InLine(i, at, sent, k)
      PROVE  text[i] = k /\ ~IsEnd(text[i])
  BY <1>1, <1>2, NoEnd DEF Blocks
<1>3. ASSUME NEW k \in m + 1 .. Len(sent), NEW i \in 1 .. Len(text), IsEnd(text[i])
      PROVE  at[k] # i
  <2>1. at[k] = i => InLine(i, at, sent, k)
    BY <1>1 DEF InLine
  <2> QED
    BY <1>2, <1>3, <2>1
<1>4. ASSUME end > 1
      PROVE  /\ m + 1 <= Len(sent) /\ at[m + 1] = 1 /\ Len(sent[m + 1]) = end - 1
             /\ \A k \in m + 2 .. Len(sent) : at[k] > end
             /\ \A i \in 1 .. end - 1 : text[i] = m + 1
  <2>1. 1 \in 1 .. Len(text) /\ ~IsEnd(text[1])
    <3>1. 1 \in 1 .. Len(text) /\ 1 \in 1 .. end - 1
      BY <1>4
    <3> QED
      BY <3>1
  <2>2. PICK k \in m + 1 .. Len(sent) : InLine(1, at, sent, k)
    BY <2>1 DEF Blocks
  <2>3. at[k] = 1
    BY <1>1, <2>2 DEF InLine
  <2>4. m + 1 \in m + 1 .. Len(sent) /\ m + 1 <= Len(sent)
    OBVIOUS
  <2>5. k = m + 1
    <3>1. ASSUME m + 1 < k
          PROVE  FALSE
      <4>1. at[m + 1] + Len(sent[m + 1]) < at[k]
        BY <2>4, <3>1 DEF Blocks
      <4>2. at[m + 1] \in Nat /\ at[m + 1] >= 1 /\ Len(sent[m + 1]) \in Nat
        BY <1>1, <2>4
      <4> QED
        BY <2>3, <4>1, <4>2
    <3> QED
      BY <3>1
  <2> DEFINE w == Len(sent[m + 1])
  <2>6. at[m + 1] = 1 /\ w \in Nat /\ w > 0 /\ 1 + w <= Len(text)
    BY <1>1, <2>3, <2>4, <2>5
  <2> HIDE DEF w
  <2>7. ASSUME NEW i \in 1 .. w
        PROVE  i \in 1 .. Len(text) /\ text[i] = m + 1 /\ ~IsEnd(text[i])
    <3>1. i \in 1 .. Len(text)
      BY <2>6
    <3>2. InLine(i, at, sent, m + 1)
      BY <2>6 DEF InLine, w
    <3> QED
      BY <1>2, <2>4, <3>1, <3>2
  <2>8. ASSUME NEW j \in m + 2 .. Len(sent)
        PROVE  at[j] > 1 + w /\ at[j] \in Nat
    <3>1. j \in m + 1 .. Len(sent) /\ m + 1 < j
      OBVIOUS
    <3>2. at[m + 1] + Len(sent[m + 1]) < at[j]
      BY <2>4, <3>1 DEF Blocks
    <3> QED
      BY <1>1, <2>6, <3>1, <3>2 DEF w
  <2>9. IsEnd(text[1 + w])
    <3>1. ASSUME NEW j \in m + 1 .. Len(sent)
          PROVE  ~InLine(1 + w, at, sent, j)
      <4>1. CASE j = m + 1
        BY <2>6, <4>1 DEF InLine, w
      <4>2. CASE j # m + 1
        <5>1. j \in m + 2 .. Len(sent)
          BY <4>2
        <5> QED
          BY <2>6, <2>8, <5>1 DEF InLine
      <4> QED
        BY <4>1, <4>2
    <3>2. 1 + w \in 1 .. Len(text)
      BY <2>6
    <3> QED
      BY <3>1, <3>2 DEF Blocks
  <2>10. end = 1 + w
    <3>1. end \notin 1 .. w
      BY <2>7
    <3>2. 1 + w \notin 1 .. end - 1
      BY <2>9
    <3> QED
      BY <2>6, <3>1, <3>2
  <2>11. w = end - 1
    BY <2>6, <2>10
  <2> QED
    BY <2>4, <2>6, <2>7, <2>8, <2>10, <2>11 DEF w
<1> QED
  BY <1>3, <1>4 DEF FirstBlock

\* A round: what it hands over is the next line.
LEMMA RecvStep ==
  ASSUME ChatInv, NEW n \in 1 .. ChatSize, ChatRecv(n)
  PROVE  ChatInv'
<1> DEFINE buf == incoming_buf \o SubSeq(chat_arriving, 1, n)
           rest == SubSeq(chat_arriving, n + 1, Len(chat_arriving))
           m == Len(chat_lines)
<1>1. /\ ChatTypes /\ n \in Nat /\ n <= Len(chat_arriving) /\ ChatSize \in Nat
      /\ n <= ChatSize - Len(incoming_buf) /\ Len(incoming_buf) \in Nat
      /\ chat_arriving' = rest /\ chat_sent' = chat_sent
      /\ OneLine(buf) \/ NoLineYet(buf)
  BY ChatAssumption, LenProperties DEF ChatInv, ChatTypes, ChatRecv
<1>2. /\ buf \in Seq(Characters) /\ Len(buf) = Len(incoming_buf) + n
      /\ rest \in Seq(Characters)
      /\ buf \o rest = Unread
  BY <1>1, Received
<1>3. Len(buf) \in Nat /\ Len(buf) <= ChatSize
  BY <1>1, <1>2
<1>4. /\ chat_lines \in Seq(Seq(Characters)) /\ m \in Nat
      /\ chat_sent \in Seq(Seq(Characters)) /\ Len(chat_sent) \in Nat /\ m <= Len(chat_sent)
      /\ \A k \in 1 .. m : chat_lines[k] = chat_sent[k]
      /\ \A k \in 1 .. Len(chat_sent) : chat_sent[k] \in Seq(Characters) /\ Len(chat_sent[k]) \in Nat
                                        /\ Len(chat_sent[k]) > 0
  BY <1>1, ElementOfSeq, LenProperties DEF ChatInv, ChatTypes
<1>5. PICK at : Blocks(Unread, chat_sent, m, at)
  BY DEF ChatInv
<1> HIDE DEF buf, rest, m
<1>6. CASE NoLineYet(buf)
  <2>1. incoming_buf' = buf /\ chat_lines' = chat_lines
    BY <1>6 DEF NoLineYet
  <2>2. Unread' = Unread
    BY <1>1, <1>2, <2>1 DEF Unread
  <2>3. ChatTypes'
    BY <1>1, <1>2, <1>3, <2>1 DEF ChatTypes
  <2>4. Blocks(Unread', chat_sent', Len(chat_lines'), at)
    BY <1>1, <1>5, <2>1, <2>2 DEF m
  <2> QED
    BY <1>1, <1>4, <2>1, <2>3, <2>4 DEF ChatInv, m
<1>7. CASE OneLine(buf)
  <2>1. PICK end \in DOMAIN buf :
          /\ IsEnd(buf[end]) /\ \A i \in 1 .. end - 1 : ~IsEnd(buf[i])
          /\ incoming_buf' = SubSeq(buf, Taken(buf, end) + 1, Len(buf))
          /\ chat_lines' = IF end = 1 THEN chat_lines ELSE Append(chat_lines, SubSeq(buf, 1, end - 1))
    BY <1>7 DEF OneLine
  <2> DEFINE took == Taken(buf, end)
             before == SubSeq(buf, 1, end - 1)
  <2>2. end \in Nat /\ end >= 1 /\ end <= Len(buf) /\ end \in 1 .. Len(buf)
    BY <1>2, <1>3, LenProperties
  <2>3. \/ took = end
        \/ took = end + 1 /\ end + 1 \in 1 .. Len(buf) /\ IsEnd(buf[end + 1])
    BY <1>3, <2>2 DEF Taken
  <2>4. took \in 0 .. Len(buf) /\ took \in Nat /\ took >= end /\ took <= end + 1
    BY <1>3, <2>2, <2>3
  <2> HIDE DEF took
  <2>5. /\ incoming_buf' \in Seq(Characters) /\ Len(incoming_buf') = Len(buf) - took
        /\ Unread' \in Seq(Characters) /\ Len(Unread') = Len(Unread) - took
        /\ \A i \in 1 .. Len(Unread') : Unread'[i] = Unread[i + took]
    <3>1. incoming_buf' = SubSeq(buf, took + 1, Len(buf))
      BY <2>1 DEF took
    <3>2. Unread' = incoming_buf' \o rest
      BY <1>1 DEF Unread
    <3>3. Left(incoming_buf', buf, took, Characters) /\ Left(incoming_buf' \o rest, Unread, took, Characters)
      <4>1. Unread = buf \o rest
        BY <1>2
      <4> QED
        BY <1>2, <2>4, <3>1, <4>1, Without
    <3> QED
      BY <3>2, <3>3 DEF Left
  <2>6. /\ Len(Unread) \in Nat /\ Len(buf) <= Len(Unread) /\ took <= Len(Unread)
        /\ \A i \in 1 .. Len(buf) : Unread[i] = buf[i] /\ i \in 1 .. Len(Unread)
    <3>1. Len(rest) \in Nat
      BY <1>2, LenProperties
    <3>2. /\ Len(Unread) = Len(buf) + Len(rest)
          /\ \A i \in 1 .. Len(buf) + Len(rest) : Unread[i] = IF i <= Len(buf) THEN buf[i] ELSE rest[i - Len(buf)]
      BY <1>2, ConcatProperties
    <3>3. ASSUME NEW i \in 1 .. Len(buf)
          PROVE  i \in 1 .. Len(buf) + Len(rest) /\ i <= Len(buf)
      BY <1>3, <3>1
    <3> QED
      BY <1>3, <2>4, <3>1, <3>2, <3>3
  <2>7. IsEnd(Unread[end]) /\ \A i \in 1 .. end - 1 : ~IsEnd(Unread[i])
    <3>1. \A i \in 1 .. end - 1 : i \in 1 .. Len(buf)
      BY <1>3, <2>2
    <3> QED
      BY <2>1, <2>2, <2>6, <3>1
  <2>8. end <= Len(Unread)
    BY <1>3, <2>2, <2>6
  <2>9. /\ \A k \in m + 1 .. Len(chat_sent), i \in 1 .. Len(Unread) : IsEnd(Unread[i]) => at[k] # i
        /\ end > 1 => /\ m + 1 <= Len(chat_sent) /\ at[m + 1] = 1 /\ Len(chat_sent[m + 1]) = end - 1
                      /\ \A k \in m + 2 .. Len(chat_sent) : at[k] > end
                      /\ \A i \in 1 .. end - 1 : Unread[i] = m + 1
    <3>1. \A k \in 1 .. Len(chat_sent) : Len(chat_sent[k]) \in Nat /\ Len(chat_sent[k]) > 0
      BY <1>4
    <3>2. m \in Nat /\ end \in Nat /\ Len(chat_sent) \in Nat /\ Len(Unread) \in Nat /\ end >= 1
      BY <1>4, <2>2, <2>6
    <3> QED
      <4>1. FirstBlock(Unread, chat_sent, m, at, end)
        BY <1>5, <2>7, <2>8, <3>1, <3>2, FirstEnd
      <4> QED
        BY <4>1 DEF FirstBlock
  <2>10. \A k \in m + 1 .. Len(chat_sent) : at[k] \in Nat /\ at[k] >= 1
    BY <1>5 DEF Blocks
  <2>11. ASSUME NEW k \in m + 1 .. Len(chat_sent), at[k] >= end
         PROVE  at[k] > took
    <3>1. at[k] # end
      BY <2>2, <2>6, <2>7, <2>9
    <3>2. took = end + 1 => at[k] # end + 1
      BY <2>3, <2>6, <2>9
    <3> QED
      BY <2>2, <2>4, <2>10, <2>11, <3>1, <3>2
  <2>12. incoming_buf' \in Seq(Characters) /\ Len(incoming_buf') <= ChatSize
    <3>1. Len(buf) - took <= ChatSize
      BY <1>1, <1>3, <2>4
    <3> QED
      BY <2>5, <3>1
  <2>13. CASE end = 1
    <3>1. chat_lines' = chat_lines
      BY <2>1, <2>13
    <3>2. ChatTypes'
      BY <1>1, <1>2, <2>12, <3>1 DEF ChatTypes
    <3>3. \A k \in m + 1 .. Len(chat_sent) : at[k] > took
      BY <2>10, <2>11, <2>13
    <3>4. m + 1 .. m = {} /\ m <= m
      BY <1>4
    <3>5. \E new : Blocks(Unread', chat_sent, m, new)
      BY <1>4, <1>5, <2>4, <2>5, <2>6, <3>3, <3>4, Shifted
    <3> QED
      BY <1>1, <1>4, <3>1, <3>2, <3>5 DEF ChatInv, m
  <2>14. CASE end # 1
    <3>1. end > 1 /\ chat_lines' = Append(chat_lines, before)
      BY <2>1, <2>2, <2>14
    <3>2. /\ before \in Seq(Characters) /\ Len(before) = end - 1
          /\ \A i \in 1 .. end - 1 : before[i] = Unread[i]
      <4>1. \A i \in 1 .. end - 1 : i \in 1 .. Len(buf) /\ buf[i] \in Characters
        BY <1>2, <1>3, <2>2, ElementOfSeq
      <4>2. 1 \in Int /\ end - 1 \in Int /\ 1 <= end - 1
        BY <2>2, <3>1
      <4>3. /\ before \in Seq(Characters) /\ Len(before) = (IF 1 <= end - 1 THEN end - 1 - 1 + 1 ELSE 0)
            /\ \A i \in 1 .. end - 1 - 1 + 1 : before[i] = buf[1 + i - 1]
        BY <4>1, <4>2, SubSeqProperties
      <4>4. \A i \in 1 .. end - 1 : i \in 1 .. end - 1 - 1 + 1 /\ 1 + i - 1 = i
        BY <2>2
      <4> QED
        BY <2>2, <2>6, <4>1, <4>2, <4>3, <4>4
    <3> HIDE DEF before
    <3>3. /\ m + 1 <= Len(chat_sent) /\ at[m + 1] = 1 /\ Len(chat_sent[m + 1]) = end - 1
          /\ \A k \in m + 2 .. Len(chat_sent) : at[k] > end
          /\ \A i \in 1 .. end - 1 : Unread[i] = m + 1
      BY <2>9, <3>1
    <3>4. before = chat_sent[m + 1]
      <4>1. m + 1 \in 1 .. Len(chat_sent)
        BY <1>4, <3>3
      <4>2. chat_sent[m + 1] \in Seq(Characters) /\ \A i \in 1 .. end - 1 : chat_sent[m + 1][i] = m + 1
        BY <1>1, <1>4, <3>3, <4>1 DEF ChatTypes
      <4>3. Len(before) = Len(chat_sent[m + 1]) /\ \A i \in 1 .. Len(before) : before[i] = chat_sent[m + 1][i]
        BY <3>2, <3>3, <4>2
      <4> QED
        BY <3>2, <4>2, <4>3, SeqEqual
    <3>5. /\ chat_lines' \in Seq(Seq(Characters)) /\ Len(chat_lines') = m + 1
          /\ \A k \in 1 .. m + 1 : chat_lines'[k] = chat_sent[k]
      <4>1. chat_lines' \in Seq(Seq(Characters)) /\ Len(chat_lines') = m + 1
        BY <1>4, <3>1, <3>2 DEF m
      <4>2. \A k \in 1 .. m : chat_lines'[k] = chat_lines[k]
        BY <1>4, <3>1 DEF m
      <4>3. chat_lines'[m + 1] = before
        BY <1>4, <3>1 DEF m
      <4>4. \A k \in 1 .. m + 1 : k \in 1 .. m \/ k = m + 1
        BY <1>4
      <4> QED
        BY <1>4, <3>4, <4>1, <4>2, <4>3, <4>4
    <3>6. ChatTypes'
      BY <1>1, <1>2, <2>12, <3>5 DEF ChatTypes
    <3>7. ASSUME NEW k \in m + 1 + 1 .. Len(chat_sent)
          PROVE  at[k] > took
      <4>1. k \in m + 1 .. Len(chat_sent) /\ k \in m + 2 .. Len(chat_sent)
        BY <1>4
      <4> QED
        BY <2>2, <2>10, <2>11, <3>3, <4>1
    <3>8. ASSUME NEW k \in m + 1 .. m + 1
          PROVE  k <= Len(chat_sent) /\ at[k] + Len(chat_sent[k]) <= took + 1
      <4>1. k = m + 1
        BY <1>4
      <4> QED
        BY <2>2, <2>4, <3>3, <4>1
    <3>9. m + 1 \in Nat /\ m <= m + 1
      BY <1>4
    <3>10. \E new : Blocks(Unread', chat_sent, m + 1, new)
      BY <1>4, <1>5, <2>4, <2>5, <2>6, <3>7, <3>8, <3>9, Shifted
    <3> QED
      BY <1>1, <1>4, <3>3, <3>5, <3>6, <3>10 DEF ChatInv, m
  <2> QED
    BY <2>13, <2>14
<1> QED
  BY <1>1, <1>6, <1>7

\* The peer's lines and every recv keep the buffer between what came and what was handed over.
LEMMA ChatStep == ChatInv /\ [ChatNext]_chatVars => ChatInv'
<1>1. ChatInv /\ UNCHANGED chatVars => ChatInv'
  <2> SUFFICES ASSUME ChatInv, UNCHANGED chatVars
               PROVE  ChatInv'
    OBVIOUS
  <2>1. /\ chat_sent' = chat_sent /\ chat_lines' = chat_lines /\ Unread' = Unread
        /\ incoming_buf' = incoming_buf /\ chat_arriving' = chat_arriving
    BY DEF chatVars, Unread
  <2> QED
    BY <2>1 DEF ChatInv, ChatTypes
<1> QED
  BY <1>1, PeerStep, RecvStep DEF ChatNext

\* So it is always.
LEMMA ChatInvariant == ChatSpec => []ChatInv
BY ChatInitial, ChatStep, PTL DEF ChatSpec

\* The buffer is not overrun, whatever its size, and holds what the peer sent.
THEOREM ChatFits == ChatSpec => []ChatTypeOK
<1>1. ChatInv => ChatTypeOK
  <2> SUFFICES ASSUME ChatInv
               PROVE  ChatTypeOK
    OBVIOUS
  <2> QED
    BY DEF ChatInv, ChatTypes, ChatTypeOK
<1> QED
  BY <1>1, ChatInvariant, PTL

\* For a buffer of any size and lines of any length, wherever the network cuts the text,
\* the lines handed over are the lines sent: whole, in order, once each.
THEOREM ChatInOrder == ChatSpec => []ChatLinesInOrder
<1>1. ChatInv => ChatLinesInOrder
  <2> SUFFICES ASSUME ChatInv
               PROVE  ChatLinesInOrder
    OBVIOUS
  <2> DEFINE m == Len(chat_lines)
  <2>1. /\ chat_lines \in Seq(Seq(Characters)) /\ chat_sent \in Seq(Seq(Characters))
        /\ m \in Nat /\ Len(chat_sent) \in Nat /\ m <= Len(chat_sent)
        /\ \A k \in 1 .. m : chat_lines[k] = chat_sent[k]
    BY LenProperties DEF ChatInv, ChatTypes
  <2> HIDE DEF m
  <2>3. /\ SubSeq(chat_sent, 1, m) \in Seq(Seq(Characters)) /\ Len(SubSeq(chat_sent, 1, m)) = m
        /\ \A k \in 1 .. m : SubSeq(chat_sent, 1, m)[k] = chat_sent[k]
    BY <2>1
  <2>4. SubSeq(chat_sent, 1, m) = chat_lines
    BY <2>1, <2>3, SeqEqual DEF m
  <2> QED
    <3>1. m \in 0 .. Len(chat_sent)
      BY <2>1
    <3> QED
      BY <2>4, <3>1 DEF ChatLinesInOrder
<1> QED
  BY <1>1, ChatInvariant, PTL

(***************************************************************************)
(* The history of an edit line, for any lines, any windows and any length  *)
(* of the array.  The lines behind entry 0 are a list in which each stands *)
(* once, so what resort_history takes out and add_history puts in front is *)
(* what the abstract list does; the text being typed, and where entry 0    *)
(* counts as a place, decide whether the keys get on.                      *)
(***************************************************************************)

\* The array is a list of lines: each once, and free entries behind them.
SentLines == {Unbroken(l) : l \in EditLines}
ListOfLines(buffer) ==
  /\ buffer \in [Entries -> Texts]
  /\ \A i \in Entries \ {0} : buffer[i] \in SentLines \cup {Empty}
  /\ \A i, j \in Entries \ {0} : i < j /\ buffer[j] # Empty => buffer[i] # Empty
  /\ \A i, j \in Entries \ {0} : buffer[i] = buffer[j] /\ buffer[i] # Empty => i = j

\* And only below a text being typed, or with nothing to show, is the position below
\* entry 0.
EditInv ==
  /\ ListOfLines(edit_buffer)
  /\ scroll_history_pos \in Entries \cup {-1}
  /\ edit_text \in [EditWindows -> Texts]
  /\ scroll_history_pos = -1 => edit_buffer[0] # Empty \/ edit_buffer = Blank

\* The n lines at the beginning of the array.
CountIs(buffer, n) ==
  /\ n \in Entries
  /\ \A i \in 1 .. n : buffer[i] # Empty
  /\ n + 1 \in Entries => buffer[n + 1] = Empty

LinesAre(buffer, h) == \E n \in Entries : CountIs(buffer, n) /\ h = [i \in 1 .. n |-> buffer[i]]

\* The array has an entry for the draft and two lines at least.
LEMMA EntryFacts ==
  /\ MAX_EDIT_HISTORY \in Nat /\ MAX_EDIT_HISTORY > 2
  /\ \A i : i \in Entries <=> i \in Nat /\ i < MAX_EDIT_HISTORY
  /\ 0 \in Entries /\ 1 \in Entries /\ 2 \in Entries
BY EditAssumption DEF Entries

\* Texts with and without line breaks.
LEMMA TextFacts ==
  /\ Empty \in Texts /\ SentLines \subseteq Texts /\ Empty \notin SentLines
  /\ \A l \in EditLines \cup {EmptyLine} : Unbroken(l) \in SentLines \cup {Empty}
  /\ \A t \in Texts : Trim(t) \in SentLines \cup {Empty} /\ WithBreak(t) \in Texts
<1>1. \A l : l \in EditLines \cup {EmptyLine} => Unbroken(l) \in Texts
  BY DEF Unbroken, Texts
<1>2. \A l \in EditLines : Unbroken(l) # Empty
  BY EditAssumption DEF Unbroken, Empty
<1>3. \A t \in Texts : t.line \in EditLines \cup {EmptyLine} /\ [t EXCEPT !.break = TRUE] \in Texts
  BY DEF Texts
<1>4. \A l \in EditLines \cup {EmptyLine} : Unbroken(l) \in SentLines \cup {Empty}
  BY DEF SentLines, Empty
<1>5. \A t \in Texts : Trim(t) \in SentLines \cup {Empty} /\ WithBreak(t) \in Texts
  BY <1>3, <1>4 DEF Trim, WithBreak
<1>6. Empty \in Texts
  BY <1>1 DEF Empty
<1>7. SentLines \subseteq Texts /\ Empty \notin SentLines
  BY <1>1, <1>2 DEF SentLines
<1> QED
  BY <1>4, <1>5, <1>6, <1>7

\* There is one number of lines.
LEMMA CountExists ==
  ASSUME NEW buffer
  PROVE  \E n \in Entries : CountIs(buffer, n)
<1> DEFINE Stops == {n \in Entries : n + 1 \in Entries => buffer[n + 1] = Empty}
<1>1. MAX_EDIT_HISTORY - 1 \in Stops /\ Stops \subseteq Nat
  BY EntryFacts
<1>2. PICK n \in Stops : \A m \in Stops : n <= m
  BY <1>1, LeastOf
<1>3. \A m \in Stops : ~(m < n)
  BY <1>1, <1>2
<1>4. ASSUME NEW i \in 1 .. n
      PROVE  buffer[i] # Empty
  <2>1. i - 1 \in Entries /\ i \in Entries /\ (i - 1) + 1 = i /\ i - 1 < n
    BY EntryFacts
  <2>2. i - 1 \notin Stops
    BY <1>3, <2>1
  <2> QED
    BY <2>1, <2>2
<1> QED
  BY <1>4 DEF CountIs

\* The lines end at one place.
LEMMA CountUnique ==
  ASSUME NEW buffer, NEW m, CountIs(buffer, m), NEW n, CountIs(buffer, n)
  PROVE  m = n
<1>1. ASSUME NEW a, NEW b, CountIs(buffer, a), CountIs(buffer, b), a < b
      PROVE  FALSE
  <2>1. a + 1 \in 1 .. b /\ a + 1 \in Entries
    BY <1>1, EntryFacts DEF CountIs
  <2> QED
    BY <1>1, <2>1 DEF CountIs
<1>2. m \in Nat /\ n \in Nat
  BY EntryFacts DEF CountIs
<1> QED
  BY <1>1, <1>2

\* What the property reads of the array is its list of lines.
HistoryRight == LinesAre(edit_buffer, History)

\* History, as the model reads it off the entries, is the list of lines.
LEMMA HistoryIs == HistoryRight
<1> DEFINE N(n) == /\ \A i \in 1 .. n : edit_buffer[i] # Empty
                   /\ n + 1 \in Entries => edit_buffer[n + 1] = Empty
<1>1. PICK n \in Entries : CountIs(edit_buffer, n)
  BY CountExists
<1>2. \A m \in Entries : N(m) => CountIs(edit_buffer, m)
  BY DEF CountIs
<1>3. N(n)
  BY <1>1 DEF CountIs
<1>4. \A m \in Entries : N(m) => m = n
  BY <1>1, <1>2, CountUnique
<1>5. (CHOOSE m \in Entries : N(m)) = n
  <2> HIDE DEF N
  <2> QED
    BY <1>3, <1>4
<1>6. History = [i \in 1 .. n |-> edit_buffer[i]]
  BY <1>5 DEF History
<1> QED
  BY <1>1, <1>6 DEF HistoryRight, LinesAre

\* The lines are those behind the draft.
LEMMA SameLines ==
  ASSUME NEW b, NEW h, LinesAre(b, h), NEW b2, NEW h2, LinesAre(b2, h2),
         \A i \in Entries \ {0} : b2[i] = b[i]
  PROVE  h2 = h
<1>1. PICK n \in Entries : CountIs(b, n) /\ h = [i \in 1 .. n |-> b[i]]
  BY DEF LinesAre
<1>2. PICK m \in Entries : CountIs(b2, m) /\ h2 = [i \in 1 .. m |-> b2[i]]
  BY DEF LinesAre
<1>3. /\ \A i \in 1 .. n : i \in Entries \ {0}
      /\ n + 1 \in Entries => n + 1 \in Entries \ {0}
  BY EntryFacts
<1>4. CountIs(b2, n)
  BY <1>1, <1>3 DEF CountIs
<1>5. m = n
  BY <1>2, <1>4, CountUnique
<1> QED
  BY <1>1, <1>2, <1>3, <1>5

-----------------------------------------------------------------------------
\* Where an entry comes from when a line is added that was in the entry p, or in none,
\* p being the number of entries then.
PlaceOf(buffer, line, p) ==
  /\ p \in 1 .. MAX_EDIT_HISTORY
  /\ \A j \in Entries \ {0} : buffer[j] = line <=> j = p

\* The loop over the array stops somewhere: at the line, at a free entry, or at the end.
LEMMA PlaceExists ==
  ASSUME NEW buffer, ListOfLines(buffer), NEW line \in SentLines
  PROVE  \E p \in 1 .. MAX_EDIT_HISTORY : PlaceOf(buffer, line, p)
<1>1. CASE \E p \in Entries \ {0} : buffer[p] = line
  <2>1. PICK p \in Entries \ {0} : buffer[p] = line
    BY <1>1
  <2>2. p \in 1 .. MAX_EDIT_HISTORY
    BY EntryFacts
  <2>3. \A j \in Entries \ {0} : buffer[j] = line => j = p
    BY <2>1, TextFacts DEF ListOfLines
  <2> QED
    BY <2>1, <2>2, <2>3 DEF PlaceOf
<1>2. CASE \A p \in Entries \ {0} : buffer[p] # line
  <2>1. MAX_EDIT_HISTORY \in 1 .. MAX_EDIT_HISTORY /\ MAX_EDIT_HISTORY \notin Entries
    BY EntryFacts
  <2> QED
    BY <1>2, <2>1 DEF PlaceOf
<1> QED
  BY <1>1, <1>2

\* add_history, entry by entry.
LEMMA AddedIs ==
  ASSUME NEW buffer, NEW line, NEW p, PlaceOf(buffer, line, p)
  PROVE  /\ DOMAIN Added(buffer, line) = Entries
         /\ Added(buffer, line)[0] \in {Empty, buffer[0]}
         /\ Added(buffer, line)[1] = line
         /\ \A i \in Entries \ {0, 1} : Added(buffer, line)[i] = IF i <= p THEN buffer[i - 1] ELSE buffer[i]
<1> DEFINE at == {i \in Entries \ {0} : buffer[i] = line}
           moved(i) == \A j \in at : i <= j
<1>1. Added(buffer, line) = [i \in Entries |-> IF i = 0 THEN (IF at = {} THEN Empty ELSE buffer[0])
                               ELSE IF i = 1 THEN line
                               ELSE IF moved(i) THEN buffer[i - 1]
                               ELSE buffer[i]]
  BY DEF Added
<1>2. ASSUME NEW i \in Entries \ {0, 1}
      PROVE  moved(i) <=> i <= p
  <2>1. CASE p \in Entries
    <3>1. at = {p}
      BY <2>1, EntryFacts DEF PlaceOf
    <3> QED
      BY <3>1
  <2>2. CASE p \notin Entries
    <3>1. at = {}
      BY <2>2 DEF PlaceOf
    <3>2. i <= p
      BY <2>2, EntryFacts DEF PlaceOf
    <3> QED
      BY <3>1, <3>2
  <2> QED
    BY <2>1, <2>2
<1> HIDE DEF at, moved
<1> QED
  BY <1>1, <1>2, EntryFacts

\* A line is added to a list of lines.
AddedTo(buffer, line, later) ==
  /\ later \in [Entries -> Texts]
  /\ later[1] = line
  /\ \E p \in 1 .. MAX_EDIT_HISTORY :
       /\ PlaceOf(buffer, line, p)
       /\ \A i \in Entries \ {0, 1} : later[i] = IF i <= p THEN buffer[i - 1] ELSE buffer[i]

\* An array of lines stays one when a line is added.
LEMMA AddedRight ==
  ASSUME NEW buffer, ListOfLines(buffer), NEW line \in SentLines, NEW later, AddedTo(buffer, line, later)
  PROVE  ListOfLines(later)
<1>1. PICK p \in 1 .. MAX_EDIT_HISTORY :
        /\ PlaceOf(buffer, line, p)
        /\ \A i \in Entries \ {0, 1} : later[i] = IF i <= p THEN buffer[i - 1] ELSE buffer[i]
  BY DEF AddedTo
<1> DEFINE from(i) == IF i <= p THEN i - 1 ELSE i
<1>2. ASSUME NEW i \in Entries \ {0, 1}
      PROVE  /\ from(i) \in Entries \ {0} /\ from(i) # p /\ later[i] = buffer[from(i)]
             /\ later[i] # line
  <2>1. from(i) \in Entries \ {0} /\ from(i) # p
    BY EntryFacts
  <2>2. later[i] = buffer[from(i)]
    BY <1>1
  <2> QED
    BY <1>1, <2>1, <2>2 DEF PlaceOf
<1>3. \A i, j \in Entries \ {0, 1} : from(i) = from(j) => i = j
  <2>1. ASSUME NEW i \in Entries \ {0, 1}, NEW j \in Entries \ {0, 1}, from(i) = from(j)
        PROVE  i = j
    <3>1. i \in Nat /\ j \in Nat /\ p \in Nat /\ i > 1 /\ j > 1
      BY EntryFacts
    <3>2. from(i) # p /\ from(j) # p
      BY <1>2
    <3> QED
      BY <2>1, <3>1, <3>2
  <2> QED
    BY <2>1
<1>4. later[1] = line /\ later \in [Entries -> Texts] /\ line # Empty
  BY TextFacts DEF AddedTo
<1>5. ASSUME NEW i \in Entries \ {0}, NEW j \in Entries \ {0}, i < j, later[j] # Empty
      PROVE  later[i] # Empty
  <2>1. CASE i = 1
    BY <1>4, <2>1
  <2>2. CASE i # 1
    <3>1. i \in Entries \ {0, 1} /\ j \in Entries \ {0, 1}
      BY <1>5, <2>2, EntryFacts
    <3>2. from(i) < from(j)
      BY <1>5, <3>1, EntryFacts
    <3>3. /\ from(i) \in Entries \ {0} /\ from(j) \in Entries \ {0}
          /\ later[i] = buffer[from(i)] /\ later[j] = buffer[from(j)]
      BY <1>2, <3>1
    <3> HIDE DEF from
    <3> QED
      BY <1>5, <3>2, <3>3 DEF ListOfLines
  <2> QED
    BY <2>1, <2>2
<1> HIDE DEF from
<1>6. ASSUME NEW i \in Entries \ {0}
      PROVE  later[i] \in SentLines \cup {Empty}
  <2>1. CASE i = 1
    BY <1>4, <2>1
  <2>2. CASE i # 1
    <3>1. later[i] = buffer[from(i)] /\ from(i) \in Entries \ {0}
      BY <1>2, <2>2
    <3> QED
      BY <3>1 DEF ListOfLines
  <2> QED
    BY <2>1, <2>2
<1>7. ASSUME NEW i \in Entries \ {0}, NEW j \in Entries \ {0}, later[i] = later[j], later[i] # Empty
      PROVE  i = j
  <2>1. i = 1 <=> j = 1
    BY <1>2, <1>4, <1>7
  <2>2. CASE i # 1
    <3>1. buffer[from(i)] = buffer[from(j)] /\ buffer[from(i)] # Empty
      BY <1>2, <1>7, <2>1, <2>2
    <3>2. from(i) \in Entries \ {0} /\ from(j) \in Entries \ {0}
      BY <1>2, <2>1, <2>2
    <3>3. from(i) = from(j)
      BY <3>1, <3>2 DEF ListOfLines
    <3> QED
      BY <1>3, <2>1, <2>2, <3>3
  <2> QED
    BY <2>1, <2>2
<1> QED
  BY <1>4, <1>5, <1>6, <1>7 DEF ListOfLines

\* The lines but one, and the lines after one was used, as RecentLines has them.
LinesWithout(h, line) ==
  LET at == {i \in 1 .. Len(h) : h[i] = line}
      i == CHOOSE i \in at : TRUE
  IN IF at = {} THEN h ELSE SubSeq(h, 1, i - 1) \o SubSeq(h, i + 1, Len(h))

LinesUsed(h, line) ==
  LET lines == <<line>> \o LinesWithout(h, line)
  IN SubSeq(lines, 1, IF Len(lines) > MAX_EDIT_HISTORY - 1 THEN MAX_EDIT_HISTORY - 1 ELSE Len(lines))

\* In a sequence with the line behind a new one, cut at the limit.
LEMMA UsedNew ==
  ASSUME NEW h \in Seq(SentLines), NEW line \in SentLines, \A i \in 1 .. Len(h) : h[i] # line,
         Len(h) < MAX_EDIT_HISTORY
  PROVE  /\ LinesUsed(h, line) \in Seq(SentLines)
         /\ Len(LinesUsed(h, line)) = IF Len(h) + 1 < MAX_EDIT_HISTORY THEN Len(h) + 1 ELSE MAX_EDIT_HISTORY - 1
         /\ \A j \in 1 .. Len(LinesUsed(h, line)) : LinesUsed(h, line)[j] = IF j = 1 THEN line ELSE h[j - 1]
<1>1. LinesWithout(h, line) = h
  BY DEF LinesWithout
<1>2. PICK lines, one : lines = one \o h /\ one = <<line>>
  OBVIOUS
<1>3. one \in Seq(SentLines) /\ Len(one) = 1 /\ one[1] = line /\ Len(h) \in Nat
  BY <1>2, LenProperties
<1>4. /\ lines \in Seq(SentLines) /\ Len(lines) = 1 + Len(h)
      /\ \A j \in 1 .. 1 + Len(h) : lines[j] = IF j <= 1 THEN one[j] ELSE h[j - 1]
  BY <1>2, <1>3, ConcatProperties
<1>5. PICK m : m = IF Len(lines) > MAX_EDIT_HISTORY - 1 THEN MAX_EDIT_HISTORY - 1 ELSE Len(lines)
  OBVIOUS
<1>6. m \in Nat /\ m >= 1 /\ m <= Len(lines) /\ m = IF Len(h) + 1 < MAX_EDIT_HISTORY THEN Len(h) + 1 ELSE MAX_EDIT_HISTORY - 1
  BY <1>3, <1>4, <1>5, EntryFacts
<1>7. LinesUsed(h, line) = SubSeq(lines, 1, m)
  BY <1>1, <1>2, <1>5 DEF LinesUsed
<1>8. /\ SubSeq(lines, 1, m) \in Seq(SentLines) /\ Len(SubSeq(lines, 1, m)) = m
      /\ \A j \in 1 .. m : SubSeq(lines, 1, m)[j] = lines[j]
  <2>1. \A i \in 1 .. m : lines[i] \in SentLines
    BY <1>4, <1>6, ElementOfSeq
  <2>2. /\ SubSeq(lines, 1, m) \in Seq(SentLines)
        /\ Len(SubSeq(lines, 1, m)) = IF 1 <= m THEN m - 1 + 1 ELSE 0
        /\ \A i \in 1 .. m - 1 + 1 : SubSeq(lines, 1, m)[i] = lines[1 + i - 1]
    BY <1>6, <2>1, SubSeqProperties
  <2> QED
    BY <1>6, <2>2
<1>9. ASSUME NEW j \in 1 .. m
      PROVE  lines[j] = IF j = 1 THEN line ELSE h[j - 1]
  <2>1. lines[j] = IF j <= 1 THEN one[j] ELSE h[j - 1]
    BY <1>4, <1>6
  <2>2. j <= 1 <=> j = 1
    OBVIOUS
  <2> QED
    BY <1>3, <2>1, <2>2
<1> QED
  BY <1>6, <1>7, <1>8, <1>9

\* In a sequence with the line at p, that line before the others.
LEMMA UsedAgain ==
  ASSUME NEW h \in Seq(SentLines), NEW line \in SentLines, NEW p \in 1 .. Len(h),
         \A i \in 1 .. Len(h) : h[i] = line <=> i = p, Len(h) < MAX_EDIT_HISTORY
  PROVE  /\ LinesUsed(h, line) \in Seq(SentLines)
         /\ Len(LinesUsed(h, line)) = Len(h)
         /\ \A j \in 1 .. Len(h) :
              LinesUsed(h, line)[j] = IF j = 1 THEN line ELSE IF j <= p THEN h[j - 1] ELSE h[j]
<1>1. PICK before, after, others, n : /\ before = SubSeq(h, 1, p - 1) /\ after = SubSeq(h, p + 1, Len(h))
                                      /\ others = before \o after /\ n = Len(h)
  OBVIOUS
<1>2. LinesWithout(h, line) = others
  <2>1. {i \in 1 .. Len(h) : h[i] = line} = {p}
    OBVIOUS
  <2>2. (CHOOSE i \in {p} : TRUE) = p
    OBVIOUS
  <2> QED
    BY <1>1, <2>1, <2>2 DEF LinesWithout
<1>3. n \in Nat /\ p \in Nat /\ p >= 1 /\ p <= n /\ \A i \in 1 .. n : h[i] \in SentLines
  BY <1>1, LenProperties, ElementOfSeq
<1>4. /\ before \in Seq(SentLines) /\ Len(before) = p - 1
      /\ \A i \in 1 .. p - 1 : before[i] = h[i]
  <2>1. \A i \in 1 .. p - 1 : h[i] \in SentLines
    BY <1>3
  <2>2. /\ SubSeq(h, 1, p - 1) \in Seq(SentLines)
        /\ Len(SubSeq(h, 1, p - 1)) = IF 1 <= p - 1 THEN (p - 1) - 1 + 1 ELSE 0
        /\ \A i \in 1 .. (p - 1) - 1 + 1 : SubSeq(h, 1, p - 1)[i] = h[1 + i - 1]
    BY <1>3, <2>1, SubSeqProperties
  <2> QED
    BY <1>1, <1>3, <2>2
<1>5. /\ after \in Seq(SentLines) /\ Len(after) = n - p
      /\ \A i \in 1 .. n - p : after[i] = h[p + i]
  <2>1. \A i \in p + 1 .. n : h[i] \in SentLines
    BY <1>3
  <2>2. /\ SubSeq(h, p + 1, n) \in Seq(SentLines)
        /\ Len(SubSeq(h, p + 1, n)) = IF p + 1 <= n THEN n - (p + 1) + 1 ELSE 0
        /\ \A i \in 1 .. n - (p + 1) + 1 : SubSeq(h, p + 1, n)[i] = h[(p + 1) + i - 1]
    BY <1>3, <2>1, SubSeqProperties
  <2>3. Len(SubSeq(h, p + 1, n)) = n - p
    BY <1>3, <2>2
  <2>4. ASSUME NEW i \in 1 .. n - p
        PROVE  SubSeq(h, p + 1, n)[i] = h[p + i]
    <3>1. i \in 1 .. n - (p + 1) + 1 /\ (p + 1) + i - 1 = p + i
      BY <1>3
    <3> QED
      BY <2>2, <3>1
  <2> QED
    BY <1>1, <2>2, <2>3, <2>4
<1>6. /\ others \in Seq(SentLines) /\ Len(others) = n - 1
      /\ \A i \in 1 .. n - 1 : others[i] = IF i < p THEN h[i] ELSE h[i + 1]
  <2>1. /\ others \in Seq(SentLines) /\ Len(others) = (p - 1) + (n - p)
        /\ \A i \in 1 .. (p - 1) + (n - p) : others[i] = IF i <= p - 1 THEN before[i] ELSE after[i - (p - 1)]
    <3>1. /\ before \o after \in Seq(SentLines) /\ Len(before \o after) = Len(before) + Len(after)
          /\ \A i \in 1 .. Len(before) + Len(after) :
               (before \o after)[i] = IF i <= Len(before) THEN before[i] ELSE after[i - Len(before)]
      BY <1>4, <1>5, ConcatProperties
    <3> QED
      BY <1>1, <1>4, <1>5, <3>1
  <2>2. ASSUME NEW i \in 1 .. n - 1
        PROVE  others[i] = IF i < p THEN h[i] ELSE h[i + 1]
    <3>1. CASE i < p
      BY <1>3, <1>4, <2>1, <3>1
    <3>2. CASE i >= p
      <4>1. i - (p - 1) \in 1 .. n - p /\ p + (i - (p - 1)) = i + 1 /\ ~(i <= p - 1) /\ i \in 1 .. (p - 1) + (n - p)
        BY <1>3, <3>2
      <4> QED
        BY <1>5, <2>1, <3>2, <4>1
    <3> QED
      BY <1>3, <3>1, <3>2
  <2> QED
    BY <1>3, <2>1, <2>2
<1>7. PICK lines, one : lines = one \o others /\ one = <<line>>
  OBVIOUS
<1>8. one \in Seq(SentLines) /\ Len(one) = 1 /\ one[1] = line
  BY <1>7
<1>9. /\ lines \in Seq(SentLines) /\ Len(lines) = n
      /\ \A j \in 1 .. n : lines[j] = IF j = 1 THEN line ELSE IF j <= p THEN h[j - 1] ELSE h[j]
  <2>1. /\ lines \in Seq(SentLines) /\ Len(lines) = 1 + (n - 1)
        /\ \A j \in 1 .. 1 + (n - 1) : lines[j] = IF j <= 1 THEN one[j] ELSE others[j - 1]
    BY <1>6, <1>7, <1>8, ConcatProperties
  <2>2. ASSUME NEW j \in 1 .. n, j # 1
        PROVE  lines[j] = IF j <= p THEN h[j - 1] ELSE h[j]
    <3>1. j - 1 \in 1 .. n - 1 /\ (j - 1) + 1 = j /\ (j - 1 < p <=> j <= p) /\ ~(j <= 1) /\ j \in 1 .. 1 + (n - 1)
      BY <1>3, <2>2
    <3>2. lines[j] = others[j - 1]
      BY <2>1, <3>1
    <3> QED
      BY <1>6, <3>1, <3>2
  <2>3. lines[1] = line
    BY <1>3, <1>8, <2>1
  <2> QED
    BY <1>3, <2>1, <2>2, <2>3
<1>10. LinesUsed(h, line) = SubSeq(lines, 1, n)
  <2>1. n <= MAX_EDIT_HISTORY - 1
    BY <1>1, <1>3, EntryFacts
  <2> QED
    BY <1>2, <1>3, <1>7, <1>9, <2>1, EntryFacts DEF LinesUsed
<1>11. SubSeq(lines, 1, n) = lines
  BY <1>9, SubSeqFull
<1> QED
  BY <1>1, <1>9, <1>10, <1>11

\* Adding a line to the array uses it in the list of lines.
LEMMA AddedUses ==
  ASSUME NEW buffer, ListOfLines(buffer), NEW h, LinesAre(buffer, h), NEW line \in SentLines,
         NEW later, AddedTo(buffer, line, later), NEW h2, LinesAre(later, h2)
  PROVE  h2 = LinesUsed(h, line)
<1>1. PICK n \in Entries : CountIs(buffer, n) /\ h = [i \in 1 .. n |-> buffer[i]]
  BY DEF LinesAre
<1>2. PICK m \in Entries : CountIs(later, m) /\ h2 = [i \in 1 .. m |-> later[i]]
  BY DEF LinesAre
<1>3. PICK p \in 1 .. MAX_EDIT_HISTORY :
        /\ PlaceOf(buffer, line, p)
        /\ \A i \in Entries \ {0, 1} : later[i] = IF i <= p THEN buffer[i - 1] ELSE buffer[i]
  BY DEF AddedTo
<1>4. later[1] = line /\ line # Empty
  BY TextFacts DEF AddedTo
<1>5. /\ n \in Nat /\ n < MAX_EDIT_HISTORY /\ p \in Nat /\ p >= 1
      /\ \A i \in 1 .. n : i \in Entries \ {0} /\ buffer[i] # Empty
  BY <1>1, EntryFacts DEF CountIs
<1>6. h \in Seq(SentLines) /\ Len(h) = n /\ \A i \in 1 .. n : h[i] = buffer[i]
  <2>1. \A i \in 1 .. n : buffer[i] \in SentLines
    BY <1>5 DEF ListOfLines
  <2> QED
    BY <1>1, <1>5, <2>1, IsASeq, LenProperties
<1>7. PICK used : used = LinesUsed(h, line)
  OBVIOUS
<1>8. CASE p <= n
  <2>1. CountIs(later, n)
    <3>1. ASSUME NEW i \in 1 .. n
          PROVE  later[i] # Empty
      <4>1. CASE i = 1
        BY <1>4, <4>1
      <4>2. CASE i # 1 /\ i <= p
        <5>1. later[i] = buffer[i - 1] /\ i - 1 \in 1 .. n
          BY <1>3, <1>5, <4>2
        <5> QED
          BY <1>5, <5>1
      <4>3. CASE i > p
        <5>1. later[i] = buffer[i]
          BY <1>3, <1>5, <4>3
        <5> QED
          BY <1>5, <5>1
      <4> QED
        BY <1>5, <4>1, <4>2, <4>3
    <3>2. ASSUME n + 1 \in Entries
          PROVE  later[n + 1] = Empty
      <4>1. n + 1 \in Entries \ {0, 1} /\ ~(n + 1 <= p)
        BY <1>5, <1>8, <3>2
      <4>2. later[n + 1] = buffer[n + 1]
        BY <1>3, <4>1
      <4> QED
        BY <1>1, <3>2, <4>2 DEF CountIs
    <3> QED
      BY <3>1, <3>2 DEF CountIs
  <2>2. m = n
    BY <1>2, <2>1, CountUnique
  <2>3. p \in 1 .. Len(h) /\ \A i \in 1 .. Len(h) : h[i] = line <=> i = p
    BY <1>3, <1>5, <1>6, <1>8 DEF PlaceOf
  <2>4. /\ used \in Seq(SentLines) /\ Len(used) = n
        /\ \A j \in 1 .. n : used[j] = IF j = 1 THEN line ELSE IF j <= p THEN h[j - 1] ELSE h[j]
    <3>1. Len(h) < MAX_EDIT_HISTORY /\ h \in Seq(SentLines)
      BY <1>5, <1>6
    <3>2. /\ LinesUsed(h, line) \in Seq(SentLines)
          /\ Len(LinesUsed(h, line)) = Len(h)
          /\ \A j \in 1 .. Len(h) :
               LinesUsed(h, line)[j] = IF j = 1 THEN line ELSE IF j <= p THEN h[j - 1] ELSE h[j]
      BY <2>3, <3>1, UsedAgain
    <3> QED
      BY <1>6, <1>7, <3>2
  <2>5. ASSUME NEW j \in 1 .. n
        PROVE  used[j] = later[j]
    <3>1. CASE j = 1
      BY <1>4, <2>4, <3>1
    <3>2. CASE j # 1
      <4>1. j \in Entries \ {0, 1} /\ j - 1 \in 1 .. n
        BY <1>5, <3>2
      <4>2. used[j] = IF j <= p THEN h[j - 1] ELSE h[j]
        BY <2>4, <3>2
      <4>3. later[j] = IF j <= p THEN buffer[j - 1] ELSE buffer[j]
        BY <1>3, <4>1
      <4> QED
        BY <1>6, <4>1, <4>2, <4>3
    <3> QED
      BY <3>1, <3>2
  <2>6. used = [j \in 1 .. n |-> used[j]]
    BY <2>4, LenProperties
  <2> QED
    BY <1>2, <1>7, <2>2, <2>5, <2>6
<1>9. CASE p > n
  <2>1. \A i \in 1 .. n : buffer[i] # line
    BY <1>3, <1>5, <1>9 DEF PlaceOf
  <2>2. p = MAX_EDIT_HISTORY
    <3>1. ASSUME p # MAX_EDIT_HISTORY
          PROVE  FALSE
      <4>1. p \in Entries \ {0} /\ n + 1 \in Entries \ {0} /\ n + 1 <= p
        BY <1>5, <1>9, <3>1, EntryFacts
      <4>2. buffer[p] = line /\ buffer[n + 1] = Empty
        BY <1>1, <1>3, <4>1 DEF PlaceOf, CountIs
      <4> QED
        BY <1>4, <4>1, <4>2 DEF ListOfLines
    <3> QED
      BY <3>1
  <2>3. \A i \in Entries \ {0, 1} : later[i] = buffer[i - 1]
    BY <1>3, <2>2, EntryFacts
  <2>4. PICK k : k = IF n + 1 < MAX_EDIT_HISTORY THEN n + 1 ELSE MAX_EDIT_HISTORY - 1
    OBVIOUS
  <2>5. k \in Nat /\ k \in Entries /\ k >= 1 /\ k <= n + 1
    BY <1>5, <2>4, EntryFacts
  <2>6. CountIs(later, k)
    <3>1. ASSUME NEW i \in 1 .. k
          PROVE  later[i] # Empty
      <4>1. CASE i = 1
        BY <1>4, <4>1
      <4>2. CASE i # 1
        <5>1. i \in Entries \ {0, 1} /\ i - 1 \in 1 .. n
          BY <1>5, <2>5, <4>2, EntryFacts
        <5> QED
          BY <1>5, <2>3, <5>1
      <4> QED
        BY <4>1, <4>2
    <3>2. ASSUME k + 1 \in Entries
          PROVE  later[k + 1] = Empty
      <4>1. k = n + 1 /\ k + 1 \in Entries \ {0, 1} /\ (k + 1) - 1 = n + 1 /\ n + 1 \in Entries
        BY <1>5, <2>4, <2>5, <3>2, EntryFacts
      <4>2. later[k + 1] = buffer[n + 1]
        BY <2>3, <4>1
      <4> QED
        BY <1>1, <4>1, <4>2 DEF CountIs
    <3> QED
      BY <2>5, <3>1, <3>2 DEF CountIs
  <2>7. m = k
    BY <1>2, <2>6, CountUnique
  <2>8. /\ used \in Seq(SentLines) /\ Len(used) = k
        /\ \A j \in 1 .. k : used[j] = IF j = 1 THEN line ELSE h[j - 1]
    <3>1. Len(h) < MAX_EDIT_HISTORY /\ \A i \in 1 .. Len(h) : h[i] # line
      BY <1>5, <1>6, <2>1
    <3>2. /\ used \in Seq(SentLines)
          /\ Len(used) = IF Len(h) + 1 < MAX_EDIT_HISTORY THEN Len(h) + 1 ELSE MAX_EDIT_HISTORY - 1
          /\ \A j \in 1 .. Len(used) : used[j] = IF j = 1 THEN line ELSE h[j - 1]
      BY <1>6, <1>7, <3>1, UsedNew
    <3>3. Len(used) = k
      BY <1>6, <2>4, <3>2
    <3> QED
      BY <3>2, <3>3
  <2>9. ASSUME NEW j \in 1 .. k
        PROVE  used[j] = later[j]
    <3>1. CASE j = 1
      BY <1>4, <2>8, <3>1
    <3>2. CASE j # 1
      <4>1. j \in Entries \ {0, 1} /\ j - 1 \in 1 .. n
        BY <1>5, <2>5, <3>2, EntryFacts
      <4> QED
        BY <1>6, <2>3, <2>8, <3>2, <4>1
    <3> QED
      BY <3>1, <3>2
  <2>10. used = [j \in 1 .. k |-> used[j]]
    BY <2>8, LenProperties
  <2> QED
    BY <1>2, <1>7, <2>7, <2>9, <2>10
<1> QED
  BY <1>5, <1>8, <1>9

\* A change of entry 0 leaves the list of lines.
LEMMA DraftKeeps ==
  ASSUME NEW buffer, ListOfLines(buffer), NEW later \in [Entries -> Texts],
         \A i \in Entries \ {0} : later[i] = buffer[i]
  PROVE  ListOfLines(later)
BY DEF ListOfLines

\* RETURN leaves the list of lines, or adds to it.
LEMMA ReturnIs ==
  ASSUME EditInv, NEW w \in EditWindows, NEW first \in BOOLEAN, Return(w, first)
  PROVE  /\ edit_buffer' \in [Entries -> Texts]
         /\ \/ \A i \in Entries \ {0} : edit_buffer'[i] = edit_buffer[i]
            \/ \E line \in SentLines : AddedTo(edit_buffer, line, edit_buffer')
<1>1. PICK line : line = Trim(edit_text[w])
  OBVIOUS
<1>2. PICK before : before = IF first THEN [edit_buffer EXCEPT ![0] = WithBreak(edit_text[w])] ELSE edit_buffer
  OBVIOUS
<1>3. PICK added : added = IF line = Empty THEN before ELSE Added(before, line)
  OBVIOUS
<1>4. edit_buffer' = IF first THEN added ELSE [added EXCEPT ![0] = Empty]
  BY <1>1, <1>2, <1>3 DEF Return
<1>5. /\ edit_buffer \in [Entries -> Texts] /\ ListOfLines(edit_buffer) /\ edit_text[w] \in Texts
      /\ line \in SentLines \cup {Empty} /\ WithBreak(edit_text[w]) \in Texts /\ Empty \in Texts /\ 0 \in Entries
  BY <1>1, TextFacts, EntryFacts DEF EditInv, ListOfLines
<1>6. before \in [Entries -> Texts] /\ \A i \in Entries \ {0} : before[i] = edit_buffer[i]
  BY <1>2, <1>5
<1>7. ASSUME added \in [Entries -> Texts]
      PROVE  edit_buffer' \in [Entries -> Texts] /\ \A i \in Entries \ {0} : edit_buffer'[i] = added[i]
  BY <1>4, <1>5, <1>7
<1>8. CASE line = Empty
  BY <1>3, <1>6, <1>7, <1>8
<1>9. CASE line # Empty
  <2>1. line \in SentLines /\ added = Added(before, line) /\ ListOfLines(before)
    BY <1>3, <1>5, <1>6, <1>9, DraftKeeps
  <2>2. PICK p \in 1 .. MAX_EDIT_HISTORY : PlaceOf(before, line, p)
    BY <2>1, PlaceExists
  <2>3. /\ DOMAIN added = Entries /\ added[0] \in {Empty, before[0]} /\ added[1] = line
        /\ \A i \in Entries \ {0, 1} : added[i] = IF i <= p THEN before[i - 1] ELSE before[i]
    BY <2>1, <2>2, AddedIs
  <2>4. \A i \in Entries \ {0, 1} : i - 1 \in Entries \ {0}
    BY EntryFacts
  <2>5. added \in [Entries -> Texts]
    <3>1. \A i \in Entries : added[i] \in Texts
      BY <1>5, <1>6, <2>1, <2>3, <2>4, TextFacts
    <3>2. added = [i \in Entries |-> added[i]]
      BY <2>1, <2>3 DEF Added
    <3> QED
      BY <3>1, <3>2
  <2>6. PlaceOf(edit_buffer, line, p)
    BY <1>6, <2>2 DEF PlaceOf
  <2>7. \A i \in Entries \ {0, 1} : edit_buffer'[i] = IF i <= p THEN edit_buffer[i - 1] ELSE edit_buffer[i]
    BY <1>6, <1>7, <2>3, <2>4, <2>5
  <2>8. edit_buffer'[1] = line
    BY <1>7, <2>3, <2>5, EntryFacts
  <2> QED
    BY <1>7, <2>1, <2>5, <2>6, <2>7, <2>8 DEF AddedTo
<1> QED
  BY <1>8, <1>9

\* A step of the keys leaves the array, and the position in it or below it.
LEMMA KeysStay ==
  ASSUME EditInv, NEW w \in EditWindows, NEW dir \in {1, -1}, restore_buffer(w, dir)
  PROVE  /\ edit_buffer' = edit_buffer
         /\ scroll_history_pos' \in Entries \cup {-1}
         /\ scroll_history_pos' = -1 => edit_buffer[0] # Empty
         /\ edit_text' \in [EditWindows -> Texts]
<1>1. /\ edit_buffer' = edit_buffer /\ edit_buffer \in [Entries -> Texts] /\ edit_text \in [EditWindows -> Texts]
      /\ scroll_history_pos \in Int /\ Empty \in Texts
  BY TextFacts, EntryFacts DEF restore_buffer, EditInv, ListOfLines
<1>2. \A t \in Texts : [edit_text EXCEPT ![w] = t] \in [EditWindows -> Texts]
  BY <1>1
<1>3. CASE BelowDraft(w, dir)
  BY <1>1, <1>2, <1>3, EntryFacts DEF BelowDraft, Show
<1>4. Step(dir) \in Int
  BY <1>1 DEF Step
<1>5. Step(dir) >= 0 => Capped(Step(dir)) \in Entries
  BY <1>4, EntryFacts DEF Capped
<1>6. CASE AtLine(w, dir)
  <2>1. PICK pos : pos = Capped(Step(dir))
    OBVIOUS
  <2>2. pos \in Entries /\ scroll_history_pos' = pos /\ edit_text' = [edit_text EXCEPT ![w] = edit_buffer[pos]]
    BY <1>5, <1>6, <2>1 DEF AtLine, Show
  <2> QED
    BY <1>1, <1>2, <2>2, EntryFacts
<1>7. CASE AtFree(w, dir)
  <2>1. PICK pos : pos = Capped(Step(dir))
    OBVIOUS
  <2>2. PICK back : back = IF pos # 0 THEN pos - dir ELSE 0
    OBVIOUS
  <2>3. /\ pos \in Entries
        /\ scroll_history_pos' = IF back < 0 THEN back ELSE back % MAX_EDIT_HISTORY
        /\ edit_text' = [edit_text EXCEPT ![w] = Empty] \/ edit_text' = edit_text
    BY <1>5, <1>7, <2>1, <2>2 DEF AtFree, Show
  <2>4. back \in Nat /\ back <= MAX_EDIT_HISTORY
    BY <2>2, <2>3, EntryFacts
  <2>5. back % MAX_EDIT_HISTORY \in Entries
    BY <2>4, EntryFacts
  <2> QED
    BY <1>1, <1>2, <2>3, <2>4, <2>5, EntryFacts
<1> QED
  BY <1>3, <1>6, <1>7 DEF restore_buffer

\* What a step does to the list of lines: a line is added, all are cleared, or nothing.
LEMMA EditStepIs ==
  ASSUME EditInv, EditNext
  PROVE  \/ \A i \in Entries \ {0} : edit_buffer'[i] = edit_buffer[i]
         \/ \E line \in SentLines : AddedTo(edit_buffer, line, edit_buffer')
         \/ edit_buffer' = Blank
<1>1. edit_buffer \in [Entries -> Texts]
  BY DEF EditInv, ListOfLines
<1>2. ASSUME NEW w \in EditWindows, NEW l \in EditLines \cup {EmptyLine}, Type(w, Unbroken(l))
      PROVE  \A i \in Entries \ {0} : edit_buffer'[i] = edit_buffer[i]
  BY <1>1, <1>2 DEF Type
<1>3. ASSUME NEW w \in EditWindows, NEW first \in BOOLEAN, Return(w, first)
      PROVE  \/ \A i \in Entries \ {0} : edit_buffer'[i] = edit_buffer[i]
             \/ \E line \in SentLines : AddedTo(edit_buffer, line, edit_buffer')
  BY <1>3, ReturnIs
<1> QED
  BY <1>2, <1>3 DEF EditNext, Complete, Escape, restore_buffer, ClearTyped

\* Every key keeps the array of lines and the positions in it.
LEMMA EditInvStep == EditInv /\ [EditNext]_editVars => EditInv'
<1>1. ASSUME EditInv, UNCHANGED editVars
      PROVE  EditInv'
  BY <1>1 DEF editVars, EditInv, ListOfLines
<1>2. ASSUME EditInv
      PROVE  /\ edit_buffer \in [Entries -> Texts] /\ edit_text \in [EditWindows -> Texts] /\ 0 \in Entries
             /\ \A w, t \in Texts : [edit_text EXCEPT ![w] = t] \in [EditWindows -> Texts]
             /\ Empty \in Texts /\ \A l \in EditLines \cup {EmptyLine} : Unbroken(l) \in Texts
  BY <1>2, TextFacts, EntryFacts DEF EditInv, ListOfLines
<1>3. ASSUME EditInv, NEW w \in EditWindows, NEW l \in EditLines \cup {EmptyLine}, Type(w, Unbroken(l))
      PROVE  EditInv'
  <2>1. /\ edit_buffer' \in [Entries -> Texts] /\ \A i \in Entries \ {0} : edit_buffer'[i] = edit_buffer[i]
        /\ scroll_history_pos' = 0 /\ edit_text' \in [EditWindows -> Texts]
    BY <1>2, <1>3 DEF Type, Show
  <2>2. ListOfLines(edit_buffer')
    BY <1>3, <2>1, DraftKeeps DEF EditInv
  <2> QED
    BY <1>2, <1>3, <2>1, <2>2 DEF EditInv
<1>4. ASSUME EditInv, NEW w \in EditWindows, NEW l \in EditLines, Complete(w, Unbroken(l))
      PROVE  EditInv'
  BY <1>2, <1>4 DEF Complete, Show, EditInv
<1>5. ASSUME EditInv, NEW w \in EditWindows, NEW first \in BOOLEAN, Return(w, first)
      PROVE  EditInv'
  <2>1. ListOfLines(edit_buffer')
    BY <1>5, ReturnIs, DraftKeeps, AddedRight DEF EditInv
  <2>2. scroll_history_pos' = 0 /\ edit_text' \in [EditWindows -> Texts]
    BY <1>2, <1>5 DEF Return, Show
  <2> QED
    BY <1>2, <1>5, <2>1, <2>2 DEF EditInv
<1>6. ASSUME EditInv, NEW w \in EditWindows, Escape(w)
      PROVE  EditInv'
  <2>1. edit_text' \in [EditWindows -> Texts] /\ edit_buffer' = edit_buffer
    BY <1>2, <1>6 DEF Escape, Show
  <2>2. scroll_history_pos' \in Entries \cup {-1} /\ (scroll_history_pos' = -1 => edit_buffer[0] # Empty)
    BY <1>2, <1>6 DEF Escape
  <2> QED
    BY <1>6, <2>1, <2>2 DEF EditInv
<1>7. ASSUME EditInv, NEW w \in EditWindows, NEW dir \in {1, -1}, restore_buffer(w, dir)
      PROVE  EditInv'
  <2>1. /\ edit_buffer' = edit_buffer
        /\ scroll_history_pos' \in Entries \cup {-1}
        /\ scroll_history_pos' = -1 => edit_buffer[0] # Empty
        /\ edit_text' \in [EditWindows -> Texts]
    BY <1>7, KeysStay
  <2> QED
    BY <1>7, <2>1 DEF EditInv
<1>8. ASSUME EditInv, ClearTyped
      PROVE  EditInv'
  <2>1. ListOfLines(Blank)
    BY TextFacts DEF ListOfLines, Blank
  <2> QED
    BY <1>8, <2>1 DEF ClearTyped, EditInv
<1> QED
  BY <1>1, <1>3, <1>4, <1>5, <1>6, <1>7, <1>8 DEF EditNext

\* The array begins empty.
LEMMA EditInvInit == EditInit => EditInv
<1> SUFFICES ASSUME EditInit
             PROVE  EditInv
  OBVIOUS
<1>1. ListOfLines(Blank)
  BY TextFacts DEF ListOfLines, Blank
<1>2. edit_text \in [EditWindows -> Texts]
  BY TextFacts DEF EditInit
<1> QED
  BY <1>1, <1>2, EntryFacts DEF EditInit, EditInv

\* The array stays such a list, whatever is typed, sent and looked at.
THEOREM EditRight == EditSpec => []EditInv
BY EditInvInit, EditInvStep, PTL DEF EditSpec

\* What is inductive has the types in it.
LEMMA EditTypesHold == EditInv => EditTypeOK
<1> SUFFICES ASSUME EditInv
             PROVE  EditTypeOK
  OBVIOUS
<1>1. ASSUME NEW i \in Entries \ {0, 1}, edit_buffer[i] # Empty
      PROVE  edit_buffer[i - 1] # Empty
  <2>1. i - 1 \in Entries \ {0} /\ i \in Entries \ {0} /\ i - 1 < i
    BY EntryFacts
  <2> QED
    BY <1>1, <2>1 DEF EditInv, ListOfLines
<1> QED
  BY <1>1 DEF EditInv, ListOfLines, EditTypeOK

\* Typed lines are kept as EditTypeOK says.
THEOREM EditTypes == EditSpec => []EditTypeOK
BY EditRight, EditTypesHold, PTL

-----------------------------------------------------------------------------
\* The empty array has no lines.
LEMMA BlankLines0 ==
  ASSUME NEW h, LinesAre(Blank, h)
  PROVE  h = <<>>
<1>1. PICK n \in Entries : CountIs(Blank, n) /\ h = [i \in 1 .. n |-> Blank[i]]
  BY DEF LinesAre
<1>2. n \in Nat /\ ~(n >= 1)
  <2>1. n \in Nat
    BY EntryFacts
  <2>2. ASSUME n >= 1
        PROVE  FALSE
    <3>1. 1 \in 1 .. n /\ Blank[1] = Empty
      BY <2>1, <2>2, EntryFacts DEF Blank
    <3> QED
      BY <1>1, <3>1 DEF CountIs
  <2> QED
    BY <2>1, <2>2
<1>3. 1 .. n = {}
  BY <1>2
<1> QED
  BY <1>1, <1>3

\* At first no lines are kept.
LEMMA RecentInit == EditInit /\ HistoryRight => Recent!Init
BY BlankLines0 DEF EditInit, HistoryRight, Recent!Init

\* Every step uses a line, forgets all, or does nothing to the lines kept.
LEMMA RecentNext == EditInv /\ HistoryRight /\ HistoryRight' /\ [EditNext]_editVars => [Recent!Next]_History
<1> SUFFICES ASSUME EditInv, HistoryRight, HistoryRight', [EditNext]_editVars
             PROVE  [Recent!Next]_History
  OBVIOUS
<1>1. PICK h, h2, later : h = History /\ h2 = History' /\ later = edit_buffer'
  OBVIOUS
<1>2. LinesAre(edit_buffer, h) /\ LinesAre(later, h2) /\ ListOfLines(edit_buffer)
  BY <1>1 DEF HistoryRight, EditInv
<1>3. \/ \A i \in Entries \ {0} : later[i] = edit_buffer[i]
      \/ \E line \in SentLines : AddedTo(edit_buffer, line, later)
      \/ later = Blank
  <2>1. CASE EditNext
    BY <1>1, <2>1, EditStepIs
  <2>2. CASE UNCHANGED editVars
    BY <1>1, <2>2 DEF editVars
  <2> QED
    BY <2>1, <2>2
<1>4. CASE \A i \in Entries \ {0} : later[i] = edit_buffer[i]
  <2>1. h2 = h
    BY <1>2, <1>4, SameLines
  <2> QED
    BY <1>1, <2>1
<1>5. ASSUME NEW line \in SentLines, AddedTo(edit_buffer, line, later)
      PROVE  Recent!Use(line)
  <2>1. h2 = LinesUsed(h, line)
    BY <1>2, <1>5, AddedUses
  <2> QED
    BY <1>1, <2>1 DEF Recent!Use, Recent!Without, LinesUsed, LinesWithout
<1>6. CASE later = Blank
  <2>1. h2 = <<>>
    BY <1>2, <1>6, BlankLines0
  <2> QED
    BY <1>1, <2>1 DEF Recent!Forget, Recent!Next
<1>7. CASE \E line \in SentLines : AddedTo(edit_buffer, line, later)
  BY <1>5, <1>7 DEF Recent!Next, SentLines
<1> QED
  BY <1>3, <1>4, <1>6, <1>7

\* UP and DOWN show another text while there is one.
LEMMA KeysShowOthers ==
  ASSUME EditInv, NEW w \in EditWindows, NEW dir \in {1, -1}, KeyMoves(w, dir), restore_buffer(w, dir)
  PROVE  edit_text'[w] # edit_text[w]
<1> DEFINE pos == scroll_history_pos
<1>1. /\ edit_buffer \in [Entries -> Texts] /\ edit_text \in [EditWindows -> Texts]
      /\ \A i, j \in Entries \ {0} : i < j /\ edit_buffer[j] # Empty => edit_buffer[i] # Empty
      /\ \A i, j \in Entries \ {0} : edit_buffer[i] = edit_buffer[j] /\ edit_buffer[i] # Empty => i = j
      /\ pos \in Int /\ pos >= -1 /\ pos < MAX_EDIT_HISTORY /\ (pos >= 0 => pos \in Entries)
      /\ (pos = -1 => edit_buffer[0] # Empty \/ edit_buffer = Blank)
  BY EntryFacts DEF EditInv, ListOfLines
<1>2. edit_text[w] = IF pos = -1 THEN Empty ELSE edit_buffer[pos]
  BY DEF KeyMoves, InStep
<1>3. PICK next : next = Capped(Step(dir))
  OBVIOUS
<1>4. ASSUME NEW n \in Entries, Step(dir) = n
      PROVE  \/ edit_buffer[n] # Empty /\ edit_text'[w] = edit_buffer[n]
             \/ n = 0 /\ edit_buffer[n] = Empty /\ edit_text'[w] = Empty
             \/ n # 0 /\ edit_buffer[n] = Empty
  <2>1. next = n /\ Step(dir) >= 0 /\ ~(Step(dir) < 0)
    BY <1>3, <1>4, EntryFacts DEF Capped
  <2>2. CASE AtLine(w, dir)
    BY <1>1, <1>3, <2>1, <2>2 DEF AtLine, Show
  <2>3. CASE AtFree(w, dir)
    BY <1>1, <1>3, <2>1, <2>3 DEF AtFree, Show
  <2> QED
    BY <2>1, <2>2, <2>3 DEF restore_buffer, BelowDraft
<1>5. CASE dir = 1
  <2>1. PICK i \in Entries : i > pos /\ edit_buffer[i] \notin {Empty, edit_text[w]}
    BY <1>5 DEF KeyMoves
  <2>2. i \in Nat /\ i < MAX_EDIT_HISTORY
    BY EntryFacts
  <2>3. CASE pos = -1
    <3>1. Step(dir) = 0
      BY <1>5, <2>3 DEF Step
    <3>2. edit_buffer[0] # Empty
      <4>1. edit_buffer # Blank
        BY <2>1 DEF Blank
      <4> QED
        BY <1>1, <2>3, <4>1
    <3>3. edit_text'[w] = edit_buffer[0]
      BY <1>4, <3>1, <3>2, EntryFacts
    <3> QED
      BY <1>2, <2>3, <3>2, <3>3
  <2>4. CASE pos = 0 /\ Repeated
    <3>1. Step(dir) = 2
      BY <1>5, <2>4 DEF Step
    <3>2. edit_buffer[0] = edit_buffer[1] /\ edit_text[w] = edit_buffer[1] /\ edit_buffer[1] # Empty
      BY <1>2, <2>4 DEF Repeated
    <3>3. i # 1 /\ i >= 2
      BY <2>1, <2>2, <2>4, <3>2
    <3>4. edit_buffer[2] # Empty
      BY <1>1, <2>1, <2>2, <3>3, EntryFacts
    <3>5. edit_buffer[2] # edit_buffer[1]
      BY <1>1, <3>4, EntryFacts
    <3>6. edit_text'[w] = edit_buffer[2]
      BY <1>4, <3>1, <3>4, EntryFacts
    <3> QED
      BY <3>2, <3>5, <3>6
  <2>5. CASE pos >= 0 /\ ~(pos = 0 /\ Repeated)
    <3>1. Step(dir) = pos + 1
      BY <1>1, <1>5, <2>5 DEF Step
    <3>2. pos + 1 \in Entries \ {0} /\ pos + 1 <= i
      BY <1>1, <2>1, <2>2, <2>5, EntryFacts
    <3>3. edit_buffer[pos + 1] # Empty
      BY <1>1, <2>1, <2>2, <3>2
    <3>4. edit_text'[w] = edit_buffer[pos + 1] /\ edit_text[w] = edit_buffer[pos]
      BY <1>1, <1>2, <1>4, <2>5, <3>1, <3>2, <3>3
    <3>5. CASE pos = 0
      BY <2>5, <3>3, <3>4, <3>5 DEF Repeated
    <3>6. CASE pos # 0
      <4>1. pos \in Entries \ {0} /\ pos # pos + 1
        BY <1>1, <2>5, <3>6
      <4> QED
        BY <1>1, <3>2, <3>3, <3>4, <4>1
    <3> QED
      BY <3>5, <3>6
  <2> QED
    BY <1>1, <2>3, <2>4, <2>5
<1>6. CASE dir = -1
  <2>1. pos > 0 /\ edit_buffer[pos] # Empty /\ edit_text[w] = edit_buffer[pos] /\ pos \in Entries \ {0}
    BY <1>1, <1>2, <1>6 DEF KeyMoves
  <2>2. CASE pos = 1 /\ Repeated
    <3>1. Step(dir) = -1
      BY <1>6, <2>2 DEF Step
    <3>2. edit_text'[w] = Empty
      <4>1. BelowDraft(w, dir)
        BY <3>1 DEF restore_buffer, AtLine, AtFree
      <4> QED
        BY <1>1, <4>1 DEF BelowDraft, Show
    <3> QED
      BY <2>1, <3>2
  <2>3. CASE ~(pos = 1 /\ Repeated)
    <3>1. Step(dir) = pos - 1
      BY <1>1, <1>6, <2>1, <2>3 DEF Step
    <3>2. pos - 1 \in Entries
      BY <1>1, <2>1, EntryFacts
    <3>3. CASE pos = 1
      <4>1. \/ edit_buffer[0] # Empty /\ edit_text'[w] = edit_buffer[0]
            \/ edit_buffer[0] = Empty /\ edit_text'[w] = Empty
        BY <1>4, <3>1, <3>2, <3>3
      <4> QED
        BY <2>1, <2>3, <3>3, <4>1 DEF Repeated
    <3>4. CASE pos # 1
      <4>1. pos - 1 \in Entries \ {0} /\ pos - 1 < pos
        BY <1>1, <2>1, <3>2, <3>4
      <4>2. edit_buffer[pos - 1] # Empty
        BY <1>1, <2>1, <4>1
      <4>3. edit_text'[w] = edit_buffer[pos - 1]
        BY <1>4, <3>1, <3>2, <4>2
      <4>4. edit_buffer[pos - 1] # edit_buffer[pos]
        BY <1>1, <2>1, <4>1, <4>2
      <4> QED
        BY <2>1, <4>3, <4>4
    <3> QED
      BY <3>3, <3>4
  <2> QED
    BY <2>2, <2>3
<1> QED
  BY <1>5, <1>6

\* Every step of UP or DOWN that has another line to show shows it.
LEMMA KeysMove ==
  EditInv /\ [EditNext]_editVars =>
    [\A w \in EditWindows, dir \in {1, -1} : KeyMoves(w, dir) /\ restore_buffer(w, dir) => edit_text'[w] # edit_text[w]]_editVars
BY KeysShowOthers

\* The array is the list of the lines sent last, and the keys reach each of them, for
\* any lines, windows and length of the array.
THEOREM HistoryKept == EditSpec => HistoryIsRecent
<1>1. EditSpec => Recent!Spec
  BY EditRight, HistoryIs, RecentInit, RecentNext, PTL DEF EditSpec, Recent!Spec
<1>2. EditSpec => [][\A w \in EditWindows, dir \in {1, -1} :
          KeyMoves(w, dir) /\ restore_buffer(w, dir) => edit_text'[w] # edit_text[w]]_editVars
  BY EditRight, KeysMove, PTL DEF EditSpec
<1> QED
  BY <1>1, <1>2, PTL DEF HistoryIsRecent

(***************************************************************************)
(* TAB, for any texts, any lists of nicks and channels with plain names.   *)
(* Going from each match to the next one, and from the last to the first,  *)
(* comes back to a match only after all others: what is offered between    *)
(* two equal offers has the next of each of its members, and so is all     *)
(* there is.  The word stands between what may stand before and behind a   *)
(* word, so the place of its first character finds it again.               *)
(***************************************************************************)
LEMMA GreatestOf ==
  ASSUME NEW n \in Nat, NEW S \in SUBSET (0 .. n), S # {}
  PROVE  \E i \in S : \A j \in S : j <= i
<1> DEFINE T == {n - i : i \in S}
<1>1. T \in SUBSET Nat /\ T # {}
  <2>1. \A i \in S : n - i \in Nat
    OBVIOUS
  <2> QED
    BY <2>1
<1>2. PICK t \in T : \A u \in T : t <= u
  <2> HIDE DEF T
  <2> QED
    BY <1>1, LeastOf
<1>3. PICK i \in S : t = n - i
  BY <1>2
<1>4. \A j \in S : t <= n - j
  BY <1>2
<1>5. ASSUME NEW j \in S
      PROVE  j <= i
  <2>1. n - i <= n - j /\ i \in Int /\ j \in Int
    BY <1>3, <1>4
  <2> QED
    BY <2>1
<1> QED
  BY <1>5

\* Min is the least of a set that is not empty.
LEMMA MinIs ==
  ASSUME NEW S \in SUBSET Nat, S # {}
  PROVE  Min(S) \in S /\ \A j \in S : Min(S) <= j
BY LeastOf DEF Min

\* Max is the greatest.
LEMMA MaxIs ==
  ASSUME NEW n \in Nat, NEW S \in SUBSET (0 .. n), S # {}
  PROVE  Max(S) \in S /\ \A j \in S : j <= Max(S)
BY GreatestOf DEF Max

-----------------------------------------------------------------------------
\* The next of a set behind a place, and after the last one the first.
IsNext(S, last, x) ==
  /\ x \in S
  /\ (\E i \in S : i > last) => x > last /\ \A i \in S : i > last => x <= i
  /\ (\A i \in S : i <= last) => \A i \in S : x <= i

\* The next place after one is one place only.
LEMMA NextIsOne ==
  ASSUME NEW S \in SUBSET Nat, NEW last \in Nat, NEW x, NEW y, IsNext(S, last, x), IsNext(S, last, y)
  PROVE  x = y
<1>1. CASE \E i \in S : i > last
  BY <1>1 DEF IsNext
<1>2. CASE \A i \in S : i <= last
  BY <1>2 DEF IsNext
<1> QED
  BY <1>1, <1>2

\* FromLast finds it.
LEMMA FromLastIs ==
  ASSUME NEW S \in SUBSET Nat, NEW last \in Nat
  PROVE  /\ S = {} => FromLast(S, last) = 0
         /\ S # {} => IsNext(S, last, FromLast(S, last))
<1>1. CASE S = {}
  BY <1>1 DEF FromLast, FirstOrNone
<1>2. CASE \E i \in S : i > last
  <2> DEFINE Behind == {i \in S : i > last}
  <2>1. Behind \in SUBSET Nat /\ Behind # {}
    BY <1>2
  <2>2. Min(Behind) \in Behind /\ \A j \in Behind : Min(Behind) <= j
    BY <2>1, MinIs
  <2>3. FromLast(S, last) = Min(Behind)
    BY <1>2 DEF FromLast
  <2> QED
    BY <1>2, <2>2, <2>3 DEF IsNext
<1>3. CASE S # {} /\ \A i \in S : i <= last
  <2>1. Min(S) \in S /\ \A j \in S : Min(S) <= j
    BY <1>3, MinIs
  <2>2. ~\E i \in S : i > last
    BY <1>3
  <2>3. FromLast(S, last) = Min(S)
    BY <1>3, <2>2 DEF FromLast, FirstOrNone
  <2> QED
    BY <1>3, <2>1, <2>2, <2>3 DEF IsNext
<1>4. S = {} \/ (\E i \in S : i > last) \/ (S # {} /\ \A i \in S : i <= last)
  OBVIOUS
<1> QED
  BY <1>1, <1>2, <1>3, <1>4

\* Searching the parts of a set, and then among what was found, finds the next of all.
LEMMA NextOfParts ==
  ASSUME NEW P, NEW part \in [P -> SUBSET (Nat \ {0})], NEW last \in Nat
  PROVE  LET all == UNION {part[p] : p \in P}
             found == {FromLast(part[p], last) : p \in P} \ {0}
         IN  /\ all = {} => FromLast(found, last) = 0
             /\ all # {} => IsNext(all, last, FromLast(found, last))
<1> DEFINE all == UNION {part[p] : p \in P}
           found == {FromLast(part[p], last) : p \in P} \ {0}
<1>0. \A p \in P : part[p] \in SUBSET (Nat \ {0})
  OBVIOUS
<1>1. \A p \in P : part[p] # {} => IsNext(part[p], last, FromLast(part[p], last)) /\ FromLast(part[p], last) \in found
  <2> SUFFICES ASSUME NEW p \in P, part[p] # {}
               PROVE  IsNext(part[p], last, FromLast(part[p], last)) /\ FromLast(part[p], last) \in found
    OBVIOUS
  <2>1. part[p] \in SUBSET Nat /\ 0 \notin part[p]
    BY <1>0
  <2>2. IsNext(part[p], last, FromLast(part[p], last))
    BY <2>1, FromLastIs
  <2> QED
    BY <2>2 DEF IsNext
<1>2. \A p \in P : part[p] = {} => FromLast(part[p], last) = 0
  BY <1>0, FromLastIs
<1>3. found \subseteq all /\ all \in SUBSET Nat
  BY <1>0, <1>1, <1>2 DEF IsNext
<1>4. all # {} => found # {}
  BY <1>1
<1>5. IsNext(all, last, FromLast(found, last)) \/ all = {}
  <2> HIDE DEF found
  <2> SUFFICES ASSUME all # {}
               PROVE  IsNext(all, last, FromLast(found, last))
    OBVIOUS
  <2> DEFINE x == FromLast(found, last)
  <2>1. IsNext(found, last, x)
    BY <1>3, <1>4, FromLastIs
  <2> HIDE DEF x
  <2>2. x \in all
    BY <1>3, <2>1 DEF IsNext
  <2>3. \A i \in all : \E j \in found : /\ i > last => j > last /\ j <= i
                                        /\ (\A k \in all : k <= last) => j <= i
    <3> SUFFICES ASSUME NEW p \in P, NEW i \in part[p]
                 PROVE  \E j \in found : /\ i > last => j > last /\ j <= i
                                         /\ (\A k \in all : k <= last) => j <= i
      OBVIOUS
    <3>1. IsNext(part[p], last, FromLast(part[p], last)) /\ FromLast(part[p], last) \in found
      BY <1>1
    <3>2. (\A k \in all : k <= last) => \A k \in part[p] : k <= last
      OBVIOUS
    <3> QED
      BY <3>1, <3>2 DEF IsNext
  <2>4. \A i \in found : i \in all /\ i \in Nat
    BY <1>3
  <2>5. (\A i \in all : i \in Nat) /\ x \in found /\ x \in Nat
    BY <1>3, <2>1, <2>4 DEF IsNext
  <2> HIDE DEF all
  <2>6. CASE \E i \in all : i > last
    <3>1. \E j \in found : j > last
      BY <2>3, <2>6
    <3>2. x > last /\ \A j \in found : j > last => x <= j
      BY <2>1, <3>1 DEF IsNext
    <3>3. \A i \in all : i > last => x <= i
      BY <2>3, <2>4, <2>5, <3>2
    <3>4. ~\A i \in all : i <= last
      BY <2>5, <2>6
    <3> QED
      BY <2>2, <3>2, <3>3, <3>4 DEF IsNext, x
  <2>7. CASE \A i \in all : i <= last
    <3>1. \A j \in found : x <= j
      BY <2>1, <2>4, <2>7 DEF IsNext
    <3>2. \A i \in all : x <= i
      BY <2>3, <2>4, <2>5, <2>7, <3>1
    <3>3. ~\E i \in all : i > last
      BY <2>5, <2>7
    <3> QED
      BY <2>2, <3>2, <3>3 DEF IsNext, x
  <2>8. (\E i \in all : i > last) \/ \A i \in all : i <= last
    BY <2>5
  <2> QED
    BY <2>6, <2>7, <2>8
<1> QED
  BY <1>3, <1>5, FromLastIs

\* A part that has the next of each of its members is the whole.
LEMMA AllAround ==
  ASSUME NEW n \in Nat, NEW S \in SUBSET (0 .. n), NEW T \in SUBSET S, T # {},
         \A t \in T : \E u \in T : IsNext(S, t, u)
  PROVE  T = S
<1>1. PICK t \in T : \A u \in T : u <= t
  BY GreatestOf
<1>2. PICK m \in T : IsNext(S, t, m)
  BY <1>1
<1>3. \A i \in S : m <= i
  BY <1>1, <1>2 DEF IsNext
<1>4. SUFFICES ASSUME S \ T # {}
               PROVE  FALSE
  OBVIOUS
<1>5. PICK x \in S \ T : \A y \in S \ T : x <= y
  <2>1. S \ T \in SUBSET Nat
    OBVIOUS
  <2> QED
    BY <1>4, <2>1, LeastOf
<1> DEFINE Below == {z \in S : z < x}
<1>6. m \in Below /\ Below \in SUBSET (0 .. n)
  <2>1. m <= x /\ m # x /\ m \in S /\ m \in Int /\ x \in Int
    BY <1>3, <1>5
  <2>2. m < x
    BY <2>1
  <2>3. Below \in SUBSET (0 .. n)
    OBVIOUS
  <2> QED
    BY <2>1, <2>2, <2>3
<1>7. PICK y \in Below : \A z \in Below : z <= y
  BY <1>6, GreatestOf
<1>8. y \in T
  BY <1>5, <1>7
<1>9. PICK u \in T : IsNext(S, y, u)
  BY <1>8
<1>10. IsNext(S, y, x)
  BY <1>5, <1>7 DEF IsNext
<1>11. u = x
  BY <1>9, <1>10, NextIsOne
<1> QED
  BY <1>5, <1>9, <1>11

\* So the members of a set, gone through in this order, come again only after all others.
LEMMA EachInTurn ==
  ASSUME NEW n \in Nat, NEW S \in SUBSET (0 .. n), NEW offers \in Seq(Nat),
         \A k \in 1 .. Len(offers) : offers[k] \in S,
         \A k \in 1 .. Len(offers) - 1 : IsNext(S, offers[k], offers[k + 1]),
         NEW i \in 1 .. Len(offers), NEW j \in 1 .. Len(offers), i < j, offers[i] = offers[j]
  PROVE  Cardinality(S) <= j - i
<1> DEFINE T == {offers[i + k] : k \in 1 .. j - i}
<1>1. i \in Nat /\ j \in Nat /\ Len(offers) \in Nat /\ i >= 1 /\ j <= Len(offers)
  OBVIOUS
<1>2. T \in SUBSET S /\ T # {}
  <2>1. \A k \in 1 .. j - i : i + k \in 1 .. Len(offers)
    BY <1>1
  <2>2. j - i \in 1 .. j - i
    BY <1>1
  <2> QED
    BY <2>1, <2>2
<1>3. ASSUME NEW t \in T
      PROVE  \E u \in T : IsNext(S, t, u)
  <2>1. PICK k \in 1 .. j - i : t = offers[i + k]
    OBVIOUS
  <2>2. CASE k < j - i
    <3>1. k + 1 \in 1 .. j - i /\ i + k \in 1 .. Len(offers) - 1 /\ (i + k) + 1 = i + (k + 1)
      BY <1>1, <2>2
    <3>2. IsNext(S, offers[i + k], offers[i + (k + 1)])
      BY <3>1
    <3> QED
      BY <2>1, <3>1, <3>2
  <2>3. CASE k = j - i
    <3>0. 1 \in 1 .. j - i /\ i \in 1 .. Len(offers) - 1
      <4> HIDE DEF T
      <4> QED
        BY <1>1
    <3>1. i + k = j
      BY <1>1, <2>3
    <3>2. IsNext(S, offers[i], offers[i + 1])
      BY <3>0
    <3> QED
      BY <2>1, <3>0, <3>1, <3>2
  <2> QED
    BY <1>1, <2>2, <2>3
<1>4. T = S
  <2> HIDE DEF T
  <2> QED
    BY <1>2, <1>3, AllAround
<1>5. ExistsSurjection(1 .. j - i, T)
  <2> DEFINE f == [k \in 1 .. j - i |-> offers[i + k]]
  <2>1. f \in Surjection(1 .. j - i, T)
    BY DEF Surjection
  <2> QED
    BY <2>1 DEF ExistsSurjection
<1>6. j - i \in Nat
  BY <1>1
<1> QED
  BY <1>4, <1>5, <1>6, FS_SurjCardinalityBound

-----------------------------------------------------------------------------
\* What a word is, from its two ends.
LEMMA EndsAre ==
  ASSUME NEW text \in Seq(TabChars), NEW p \in 0 .. Len(text)
  PROVE  /\ WordStart(text, p) \in 0 .. p
         /\ WordStart(text, p) = 0 \/ text[WordStart(text, p)] \in Opening
         /\ \A s \in 1 .. p : text[s] \in Opening => s <= WordStart(text, p)
         /\ WordEnd(text, p) \in WordStart(text, p) .. Len(text)
         /\ WordEnd(text, p) = Len(text) \/ text[WordEnd(text, p) + 1] \in Closing
         /\ \A e \in WordStart(text, p) .. Len(text) - 1 : text[e + 1] \in Closing => WordEnd(text, p) <= e
<1>0. Len(text) \in Nat /\ p \in Nat
  OBVIOUS
<1> DEFINE starts == {s \in 0 .. p : s = 0 \/ text[s] \in Opening}
<1>1. starts \in SUBSET (0 .. p) /\ starts # {}
  <2>1. 0 \in starts
    BY <1>0
  <2> QED
    BY <2>1
<1>2. WordStart(text, p) \in starts /\ \A s \in starts : s <= WordStart(text, p)
  BY <1>0, <1>1, MaxIs DEF WordStart
<1>3. PICK start \in 0 .. p : start = WordStart(text, p)
  BY <1>2
<1> DEFINE ends == {e \in start .. Len(text) : e = Len(text) \/ text[e + 1] \in Closing}
<1>4. ends \in SUBSET Nat /\ ends # {}
  <2>1. start \in Nat /\ start <= Len(text)
    BY <1>0, <1>3
  <2>2. Len(text) \in ends
    BY <1>0, <2>1
  <2>3. \A e \in ends : e \in Nat
    BY <1>0, <2>1
  <2> QED
    BY <2>2, <2>3
<1>5. WordEnd(text, p) = Min(ends)
  BY <1>3 DEF WordEnd
<1>6. Min(ends) \in ends /\ \A e \in ends : Min(ends) <= e
  <2> HIDE DEF ends
  <2> QED
    BY <1>4, MinIs
<1>7. /\ start \in 0 .. p
      /\ start = 0 \/ text[start] \in Opening
      /\ \A s \in 1 .. p : text[s] \in Opening => s <= start
  <2>1. \A s \in 1 .. p : s \in 0 .. p
    BY <1>0
  <2> QED
    BY <1>2, <1>3, <2>1
<1>8. PICK end : end = Min(ends)
  OBVIOUS
<1>9. end \in ends /\ \A e \in ends : end <= e
  <2> HIDE DEF ends
  <2> QED
    BY <1>6, <1>8
<1>10. /\ end \in start .. Len(text)
       /\ end = Len(text) \/ text[end + 1] \in Closing
       /\ \A e \in start .. Len(text) - 1 : text[e + 1] \in Closing => end <= e
  <2>1. \A e \in start .. Len(text) - 1 : e \in start .. Len(text)
    BY <1>0, <1>3
  <2> QED
    BY <1>9, <2>1
<1>11. WordEnd(text, p) = end /\ WordStart(text, p) = start
  BY <1>3, <1>5, <1>8
<1> HIDE DEF ends, starts
<1> QED
  BY <1>7, <1>10, <1>11

\* Where a word with no blank and no > in it stands between what may stand before and
\* behind one, the place of its first character finds it.
Clean(word) == word # <<>> /\ \A i \in 1 .. Len(word) : word[i] \notin Closing
Between(before, after) ==
  /\ before \in Seq(TabChars) /\ after \in Seq(TabChars)
  /\ before # <<>> => before[Len(before)] \in Opening
  /\ after # <<>> => after[1] \in Closing

\* Three texts, joined.
LEMMA JoinedIs ==
  ASSUME NEW a \in Seq(TabChars), NEW b \in Seq(TabChars), NEW c \in Seq(TabChars)
  PROVE  /\ (a \o b) \o c \in Seq(TabChars)
         /\ Len((a \o b) \o c) = Len(a) + Len(b) + Len(c)
         /\ \A i \in 1 .. Len(a) + Len(b) + Len(c) :
              ((a \o b) \o c)[i] = IF i <= Len(a) THEN a[i] ELSE IF i <= Len(a) + Len(b) THEN b[i - Len(a)]
                                   ELSE c[i - Len(a) - Len(b)]
<1>1. Len(a) \in Nat /\ Len(b) \in Nat /\ Len(c) \in Nat
  OBVIOUS
<1>2. /\ a \o b \in Seq(TabChars) /\ Len(a \o b) = Len(a) + Len(b)
      /\ \A i \in 1 .. Len(a) + Len(b) : (a \o b)[i] = IF i <= Len(a) THEN a[i] ELSE b[i - Len(a)]
  BY ConcatProperties
<1>3. PICK d \in Seq(TabChars) : d = a \o b
  BY <1>2
<1>4. /\ d \o c \in Seq(TabChars) /\ Len(d \o c) = Len(d) + Len(c)
      /\ \A i \in 1 .. Len(d) + Len(c) : (d \o c)[i] = IF i <= Len(d) THEN d[i] ELSE c[i - Len(d)]
  BY ConcatProperties
<1>5. Len(d) = Len(a) + Len(b) /\ \A i \in 1 .. Len(a) + Len(b) : d[i] = IF i <= Len(a) THEN a[i] ELSE b[i - Len(a)]
  BY <1>2, <1>3
<1>6. ASSUME NEW i \in 1 .. Len(a) + Len(b) + Len(c)
      PROVE  (d \o c)[i] = IF i <= Len(a) THEN a[i] ELSE IF i <= Len(a) + Len(b) THEN b[i - Len(a)]
                           ELSE c[i - Len(a) - Len(b)]
  <2>1. (d \o c)[i] = IF i <= Len(a) + Len(b) THEN d[i] ELSE c[i - (Len(a) + Len(b))]
    BY <1>4, <1>5
  <2>2. i - (Len(a) + Len(b)) = i - Len(a) - Len(b)
    BY <1>1
  <2>3. i <= Len(a) + Len(b) => d[i] = IF i <= Len(a) THEN a[i] ELSE b[i - Len(a)]
    BY <1>1, <1>5
  <2>4. i <= Len(a) => i <= Len(a) + Len(b)
    BY <1>1
  <2> QED
    BY <2>1, <2>2, <2>3, <2>4
<1> QED
  BY <1>3, <1>4, <1>5, <1>6

\* And the outer ones taken back out of it.
LEMMA PartsOf ==
  ASSUME NEW a \in Seq(TabChars), NEW b \in Seq(TabChars), NEW c \in Seq(TabChars),
         NEW text, text = (a \o b) \o c, NEW p, p = Len(a), NEW q, q = Len(a) + Len(b)
  PROVE  SubSeq(text, 1, p) = a /\ SubSeq(text, q + 1, Len(text)) = c
<1>1. Len(a) \in Nat /\ Len(b) \in Nat /\ Len(c) \in Nat /\ p \in Nat /\ q \in Nat /\ p <= q
  OBVIOUS
<1>2. /\ text \in Seq(TabChars) /\ Len(text) = q + Len(c)
      /\ \A i \in 1 .. q + Len(c) :
           text[i] = IF i <= p THEN a[i] ELSE IF i <= q THEN b[i - p] ELSE c[i - p - Len(b)]
  BY <1>1, JoinedIs
<1>3. SubSeq(text, 1, p) = a
  <2>1. /\ SubSeq(text, 1, p) \in Seq(TabChars) /\ Len(SubSeq(text, 1, p)) = p
        /\ \A i \in 1 .. p : SubSeq(text, 1, p)[i] = text[i]
    BY <1>1, <1>2
  <2>2. \A i \in 1 .. p : text[i] = a[i]
    BY <1>1, <1>2
  <2> QED
    BY <1>1, <2>1, <2>2, SeqEqual
<1>4. SubSeq(text, q + 1, Len(text)) = c
  <2>1. /\ SubSeq(text, q + 1, Len(text)) \in Seq(TabChars) /\ Len(SubSeq(text, q + 1, Len(text))) = Len(c)
        /\ \A i \in 1 .. Len(c) : SubSeq(text, q + 1, Len(text))[i] = text[q + i]
    <3>1. \A i \in q + 1 .. Len(text) : text[i] \in TabChars
      BY <1>1, <1>2, ElementOfSeq
    <3>2. /\ SubSeq(text, q + 1, Len(text)) \in Seq(TabChars)
          /\ Len(SubSeq(text, q + 1, Len(text))) = IF q + 1 <= Len(text) THEN Len(text) - (q + 1) + 1 ELSE 0
          /\ \A i \in 1 .. Len(text) - (q + 1) + 1 : SubSeq(text, q + 1, Len(text))[i] = text[q + 1 + i - 1]
      BY <1>1, <1>2, <3>1, SubSeqProperties, SMTT(60)
    <3> QED
      BY <1>1, <1>2, <3>2
  <2>2. \A i \in 1 .. Len(c) : text[q + i] = c[i]
    <3> SUFFICES ASSUME NEW i \in 1 .. Len(c)
                 PROVE  text[q + i] = c[i]
      OBVIOUS
    <3>1. q + i \in 1 .. q + Len(c) /\ ~(q + i <= p) /\ ~(q + i <= q) /\ q + i - p - Len(b) = i
      BY <1>1
    <3> QED
      BY <1>2, <3>1
  <2> QED
    BY <1>1, <2>1, <2>2, SeqEqual
<1> QED
  BY <1>3, <1>4

\* replace_word exchanges the word between what is before and after it.
LEMMA ReplacedIs ==
  ASSUME NEW before, NEW after, Between(before, after), NEW cur \in Seq(TabChars), Clean(cur),
         NEW name \in Seq(TabChars)
  PROVE  Replaced((before \o cur) \o after, Len(before), name) = (before \o name) \o after
<1>0. PICK text : text = (before \o cur) \o after
  OBVIOUS
<1>1. before \in Seq(TabChars) /\ after \in Seq(TabChars) /\ Len(before) \in Nat /\ Len(after) \in Nat
      /\ Len(cur) \in Nat /\ Len(cur) > 0
  <2>1. before \in Seq(TabChars) /\ after \in Seq(TabChars)
    BY DEF Between
  <2>2. Len(cur) # 0
    BY EmptySeq DEF Clean
  <2> QED
    BY <2>1, <2>2
<1>2. PICK p \in Nat : p = Len(before)
  BY <1>1
<1>3. PICK q \in Nat : q = Len(before) + Len(cur)
  BY <1>1
<1>4. /\ text \in Seq(TabChars) /\ Len(text) = q + Len(after)
      /\ \A i \in 1 .. q + Len(after) :
           text[i] = IF i <= p THEN before[i] ELSE IF i <= q THEN cur[i - p] ELSE after[i - p - Len(cur)]
  BY <1>0, <1>1, <1>2, <1>3, JoinedIs
<1>5. p < q /\ p \in 0 .. Len(text) /\ q \in p .. Len(text)
  BY <1>1, <1>2, <1>3, <1>4
<1>6. p = 0 \/ text[p] \in Opening
  <2>1. p # 0 => before # <<>> /\ p \in 1 .. q + Len(after)
    BY <1>1, <1>2, <1>4, <1>5
  <2>2. p # 0 => text[p] = before[p]
    BY <1>4, <2>1
  <2> QED
    BY <1>2, <2>1, <2>2 DEF Between
<1>7. WordStart(text, p) = p
  <2>1. WordStart(text, p) \in 0 .. p /\ \A s \in 1 .. p : text[s] \in Opening => s <= WordStart(text, p)
    BY <1>4, <1>5, EndsAre
  <2>2. PICK s \in 0 .. p : s = WordStart(text, p)
    BY <2>1
  <2>3. ASSUME p # 0
        PROVE  p <= s
    <3>1. p \in 1 .. p
      BY <2>3
    <3>2. text[p] \in Opening
      BY <1>6, <2>3, Zenon
    <3> QED
      BY <2>1, <2>2, <3>1, <3>2
  <2> QED
    BY <2>2, <2>3
<1>8. \A i \in p + 1 .. q : text[i] = cur[i - p] /\ i - p \in 1 .. Len(cur) /\ text[i] \notin Closing
  <2> SUFFICES ASSUME NEW i \in p + 1 .. q
               PROVE  text[i] = cur[i - p] /\ i - p \in 1 .. Len(cur) /\ text[i] \notin Closing
    OBVIOUS
  <2>1. i \in 1 .. q + Len(after) /\ ~(i <= p) /\ i <= q /\ i - p \in 1 .. Len(cur)
    BY <1>1, <1>2, <1>3
  <2>2. text[i] = cur[i - p]
    BY <1>4, <2>1
  <2> QED
    BY <2>1, <2>2 DEF Clean
<1>9. q = Len(text) \/ text[q + 1] \in Closing
  <2> SUFFICES ASSUME q # Len(text)
               PROVE  text[q + 1] \in Closing
    OBVIOUS
  <2>0. Len(after) > 0
    <3>1. Len(text) = q + Len(after)
      BY <1>4
    <3>2. Len(after) = 0 => q + Len(after) = q
      OBVIOUS
    <3> QED
      BY <1>1, <3>1, <3>2
  <2>1. q + 1 \in 1 .. q + Len(after) /\ ~(q + 1 <= p) /\ ~(q + 1 <= q)
    BY <1>1, <1>5, <2>0
  <2>2. q + 1 - p - Len(cur) = 1
    BY <1>1, <1>2, <1>3
  <2>3. text[q + 1] = after[q + 1 - p - Len(cur)]
    BY <1>4, <2>1
  <2>4. after # <<>>
    BY <2>0
  <2> QED
    BY <2>2, <2>3, <2>4 DEF Between
<1>10. WordEnd(text, p) = q
  <2>1. PICK e \in p .. Len(text) : e = WordEnd(text, p)
    BY <1>4, <1>5, <1>7, EndsAre
  <2>2. e = Len(text) \/ text[e + 1] \in Closing
    BY <1>4, <1>5, <2>1, EndsAre
  <2>3. \A f \in p .. Len(text) - 1 : text[f + 1] \in Closing => e <= f
    BY <1>4, <1>5, <1>7, <2>1, EndsAre
  <2>4. ~(e < q)
    <3> SUFFICES ASSUME e < q
                 PROVE  FALSE
      OBVIOUS
    <3>1. e + 1 \in p + 1 .. q /\ e # Len(text)
      BY <1>5, <2>1
    <3>2. text[e + 1] \notin Closing
      BY <1>8, <3>1
    <3> QED
      BY <2>2, <3>1, <3>2
  <2>5. ~(e > q)
    <3> SUFFICES ASSUME e > q
                 PROVE  FALSE
      OBVIOUS
    <3>1. q # Len(text) /\ q \in p .. Len(text) - 1
      BY <1>5, <2>1
    <3> QED
      BY <1>9, <2>1, <2>3, <3>1
  <2> QED
    BY <1>5, <2>1, <2>4, <2>5
<1>11. HasWord(text, p)
  <2>1. p < Len(text) /\ p + 1 \in p + 1 .. q
    BY <1>1, <1>3, <1>4, <1>5
  <2>2. ~BlankAt(text, p)
    <3>1. text[p + 1] \notin Closing
      BY <1>8, <2>1
    <3>2. text[p + 1] # " "
      BY <3>1, Zenon DEF Closing
    <3>3. ~(p >= Len(text))
      BY <1>4, <2>1
    <3> QED
      BY <3>2, <3>3, Zenon DEF BlankAt
  <2>3. Len(WordAt(text, p)) = q - p
    <3>1. \A i \in p + 1 .. q : text[i] \in TabChars
      BY <1>4, <1>5, ElementOfSeq
    <3>2. Len(SubSeq(text, p + 1, q)) = q - p
      BY <1>4, <1>5, <3>1, SubSeqProperties
    <3> QED
      BY <1>7, <1>10, <3>2 DEF WordAt
  <2> QED
    BY <1>4, <1>5, <2>2, <2>3 DEF HasWord
<1>12. SubSeq(text, 1, p) = before /\ SubSeq(text, q + 1, Len(text)) = after
  BY <1>0, <1>1, <1>2, <1>3, PartsOf
<1> QED
  BY <1>0, <1>2, <1>7, <1>10, <1>11, <1>12 DEF Replaced

\* A text around the word found in it.
LEMMA AroundWord ==
  ASSUME NEW text \in Seq(TabChars), NEW p \in 0 .. Len(text), HasWord(text, p)
  PROVE  \E before, after :
           /\ Between(before, after) /\ Clean(WordAt(text, p)) /\ WordAt(text, p) \in Seq(TabChars)
           /\ Len(before) = WordStart(text, p)
           /\ text = (before \o WordAt(text, p)) \o after
<1>1. PICK s \in 0 .. p : s = WordStart(text, p)
  BY EndsAre
<1>2. PICK e \in s .. Len(text) : e = WordEnd(text, p)
  BY <1>1, EndsAre
<1>3. s \in Nat /\ e \in Nat /\ Len(text) \in Nat /\ s <= e /\ e <= Len(text)
  BY <1>1, <1>2
<1>4. \A i \in 1 .. Len(text) : text[i] \in TabChars
  BY ElementOfSeq
<1> DEFINE before == SubSeq(text, 1, s)
           word == SubSeq(text, s + 1, e)
           after == SubSeq(text, e + 1, Len(text))
<1>5. /\ before \in Seq(TabChars) /\ Len(before) = s /\ \A i \in 1 .. s : before[i] = text[i]
  <2>1. \A i \in 1 .. s : text[i] \in TabChars
    BY <1>3, <1>4
  <2>2. /\ SubSeq(text, 1, s) \in Seq(TabChars)
        /\ Len(SubSeq(text, 1, s)) = IF 1 <= s THEN s - 1 + 1 ELSE 0
        /\ \A i \in 1 .. s - 1 + 1 : SubSeq(text, 1, s)[i] = text[1 + i - 1]
    BY <1>3, <2>1, SubSeqProperties
  <2> QED
    BY <1>3, <2>2
<1>6. /\ word \in Seq(TabChars) /\ Len(word) = e - s /\ \A i \in 1 .. e - s : word[i] = text[s + i]
  <2>1. \A i \in s + 1 .. e : text[i] \in TabChars
    BY <1>3, <1>4
  <2>2. /\ SubSeq(text, s + 1, e) \in Seq(TabChars)
        /\ Len(SubSeq(text, s + 1, e)) = IF s + 1 <= e THEN e - (s + 1) + 1 ELSE 0
        /\ \A i \in 1 .. e - (s + 1) + 1 : SubSeq(text, s + 1, e)[i] = text[s + 1 + i - 1]
    BY <1>3, <2>1, SubSeqProperties
  <2> QED
    BY <1>3, <2>2
<1>7. /\ after \in Seq(TabChars) /\ Len(after) = Len(text) - e
      /\ \A i \in 1 .. Len(text) - e : after[i] = text[e + i]
  <2>1. \A i \in e + 1 .. Len(text) : text[i] \in TabChars
    BY <1>3, <1>4
  <2>2. /\ SubSeq(text, e + 1, Len(text)) \in Seq(TabChars)
        /\ Len(SubSeq(text, e + 1, Len(text))) = IF e + 1 <= Len(text) THEN Len(text) - (e + 1) + 1 ELSE 0
        /\ \A i \in 1 .. Len(text) - (e + 1) + 1 : SubSeq(text, e + 1, Len(text))[i] = text[e + 1 + i - 1]
    BY <1>3, <2>1, SubSeqProperties
  <2> QED
    BY <1>3, <2>2
<1>8. word = WordAt(text, p) /\ word # <<>>
  BY <1>1, <1>2 DEF WordAt, HasWord
<1> HIDE DEF before, word, after
<1>9. Between(before, after)
  <2>1. before # <<>> => before[Len(before)] \in Opening
    <3>1. s = 0 \/ text[s] \in Opening
      BY <1>1, EndsAre
    <3>2. before # <<>> => s # 0
      BY <1>5, EmptySeq
    <3>3. s # 0 => before[s] = text[s]
      BY <1>3, <1>5
    <3> QED
      BY <1>5, <3>1, <3>2, <3>3
  <2>2. after # <<>> => after[1] \in Closing
    <3>1. e = Len(text) \/ text[e + 1] \in Closing
      BY <1>2, EndsAre
    <3>2. after # <<>> => Len(text) - e # 0
      BY <1>7, EmptySeq
    <3>3. Len(text) - e # 0 => after[1] = text[e + 1]
      BY <1>3, <1>7
    <3> QED
      BY <1>3, <3>1, <3>2, <3>3
  <2> QED
    BY <1>5, <1>7, <2>1, <2>2 DEF Between
<1>10. Clean(word)
  <2> SUFFICES ASSUME NEW i \in 1 .. Len(word), word[i] \in Closing
               PROVE  FALSE
    BY <1>8 DEF Clean
  <2>0. i \in Nat /\ i >= 1 /\ i <= e - s
    BY <1>3, <1>6
  <2>1. PICK f \in Int : f = s + (i - 1)
    BY <1>3, <2>0
  <2>2. f \in s .. Len(text) - 1 /\ f + 1 = s + i /\ f < e
    BY <1>3, <2>0, <2>1
  <2>3. text[f + 1] \in Closing
    BY <1>6, <2>2
  <2>4. e <= f
    BY <1>1, <1>2, <2>2, <2>3, EndsAre
  <2> QED
    BY <1>3, <2>1, <2>2, <2>4
<1>11. text = (before \o word) \o after
  <2>0. before \in Seq(TabChars) /\ word \in Seq(TabChars) /\ after \in Seq(TabChars)
    BY <1>5, <1>6, <1>7
  <2>1. /\ (before \o word) \o after \in Seq(TabChars)
        /\ Len((before \o word) \o after) = Len(before) + Len(word) + Len(after)
        /\ \A i \in 1 .. Len(before) + Len(word) + Len(after) :
              ((before \o word) \o after)[i]
                = IF i <= Len(before) THEN before[i] ELSE IF i <= Len(before) + Len(word) THEN word[i - Len(before)]
                  ELSE after[i - Len(before) - Len(word)]
    BY <2>0, JoinedIs
  <2>2. ASSUME NEW i \in 1 .. Len(text)
        PROVE  ((before \o word) \o after)[i] = text[i]
    <3>1. i \in 1 .. Len(before) + Len(word) + Len(after)
      BY <1>3, <1>5, <1>6, <1>7
    <3>2. CASE i <= s
      <4>1. ((before \o word) \o after)[i] = before[i]
        BY <1>5, <2>1, <3>1, <3>2
      <4>2. i \in 1 .. s
        BY <1>3, <3>2
      <4> QED
        BY <1>5, <4>1, <4>2
    <3>3. CASE s < i /\ i <= e
      <4>1. i - s \in 1 .. e - s /\ s + (i - s) = i /\ ~(i <= s) /\ i <= s + (e - s)
        BY <1>3, <3>3
      <4> QED
        BY <1>5, <1>6, <2>1, <3>1, <4>1
    <3>4. CASE e < i
      <4>1. i - s - (e - s) = i - e /\ i - e \in 1 .. Len(text) - e /\ e + (i - e) = i /\ ~(i <= s)
            /\ ~(i <= s + (e - s))
        BY <1>3, <3>4
      <4>2. Len(before) = s /\ Len(word) = e - s
        BY <1>5, <1>6
      <4>3. ((before \o word) \o after)[i] = after[i - s - (e - s)]
        BY <2>1, <3>1, <4>1, <4>2
      <4> QED
        BY <1>7, <4>1, <4>3
    <3>5. i <= s \/ (s < i /\ i <= e) \/ e < i
      BY <1>3
    <3> QED
      BY <3>2, <3>3, <3>4, <3>5
  <2>3. Len((before \o word) \o after) = Len(text)
    <3>1. Len(before) = s /\ Len(word) = e - s /\ Len(after) = Len(text) - e
      BY <1>5, <1>6, <1>7
    <3>2. s + (e - s) + (Len(text) - e) = Len(text)
      BY <1>3
    <3> QED
      BY <2>1, <3>1, <3>2
  <2> QED
    BY <2>1, <2>2, <2>3, SeqEqual
<1> QED
  BY <1>1, <1>5, <1>6, <1>8, <1>9, <1>10, <1>11

-----------------------------------------------------------------------------
\* A name that contains a blank or > would not be found again as one word.
PlainNames ==
  /\ \A list \in NickLists : \A i \in DOMAIN list : \A j \in DOMAIN list[i][2] : list[i][2][j] \notin Closing
  /\ \A list \in ChannelTables : \A i \in DOMAIN list : \A j \in DOMAIN list[i] : list[i][j] \notin Closing

LastOf(word) == IF IsChannel(word) THEN last_chan ELSE last_nick

\* The list box has nicks with prefixes, and the window table channels.
LEMMA TablesAre ==
  ASSUME TabTypeOK
  PROVE  /\ tab_hlist \in Seq(ListPrefixes \X Seq(TabChars)) /\ tab_channels \in Seq(Seq(TabChars))
         /\ \A i \in DOMAIN tab_hlist : tab_hlist[i][1] \in ListPrefixes /\ tab_hlist[i][2] \in Seq(TabChars)
         /\ \A i \in DOMAIN tab_channels : tab_channels[i] \in Seq(TabChars)
         /\ Len(tab_hlist) \in Nat /\ DOMAIN tab_hlist = 1 .. Len(tab_hlist)
         /\ Len(tab_channels) \in Nat /\ DOMAIN tab_channels = 1 .. Len(tab_channels)
<1>1. tab_hlist \in Seq(ListPrefixes \X Seq(TabChars)) /\ tab_channels \in Seq(Seq(TabChars))
  BY TabAssumption DEF TabTypeOK
<1>2. /\ Len(tab_hlist) \in Nat /\ DOMAIN tab_hlist = 1 .. Len(tab_hlist)
      /\ Len(tab_channels) \in Nat /\ DOMAIN tab_channels = 1 .. Len(tab_channels)
  BY <1>1, LenProperties
<1>3. ASSUME NEW i \in DOMAIN tab_hlist
      PROVE  tab_hlist[i][1] \in ListPrefixes /\ tab_hlist[i][2] \in Seq(TabChars)
  <2>1. tab_hlist[i] \in ListPrefixes \X Seq(TabChars)
    BY <1>1, <1>2, <1>3, ElementOfSeq
  <2> QED
    BY <2>1
<1>4. ASSUME NEW i \in DOMAIN tab_channels
      PROVE  tab_channels[i] \in Seq(TabChars)
  BY <1>1, <1>2, <1>4, ElementOfSeq
<1> QED
  BY <1>1, <1>2, <1>3, <1>4

\* What the searches find is the next of all names that match.
LEMMA NextInIs ==
  ASSUME TabTypeOK, NEW word \in Seq(TabChars)
  PROVE  /\ \E n \in Nat : Matching(word) \in SUBSET (1 .. n)
         /\ LastOf(word) \in Nat
         /\ Matching(word) = {} => NextIn(word) = 0
         /\ Matching(word) # {} => IsNext(Matching(word), LastOf(word), NextIn(word))
         /\ \A i \in Matching(word) : NameOf(word, i) \in Seq(TabChars)
         /\ tab_hlist = <<>> /\ ~IsChannel(word) => Matching(word) = {}
<1>0. last_nick \in Nat /\ last_chan \in Nat
  BY DEF TabTypeOK
<1>1. CASE IsChannel(word)
  <2>1. Matching(word) = ChannelsMatching(word) /\ LastOf(word) = last_chan
        /\ NextIn(word) = FromLast(ChannelsMatching(word), last_chan)
        /\ \A i : NameOf(word, i) = tab_channels[i]
    BY <1>1 DEF Matching, LastOf, NextIn, NextChan, NameOf
  <2>2. ChannelsMatching(word) \in SUBSET DOMAIN tab_channels
    BY DEF ChannelsMatching
  <2>3. ChannelsMatching(word) \in SUBSET Nat /\ ChannelsMatching(word) \in SUBSET (1 .. Len(tab_channels))
    BY <2>2, TablesAre
  <2>4. /\ ChannelsMatching(word) = {} => FromLast(ChannelsMatching(word), last_chan) = 0
        /\ ChannelsMatching(word) # {}
           => IsNext(ChannelsMatching(word), last_chan, FromLast(ChannelsMatching(word), last_chan))
    BY <1>0, <2>3, FromLastIs
  <2>5. \A i \in ChannelsMatching(word) : tab_channels[i] \in Seq(TabChars)
    BY <2>2, TablesAre
  <2> QED
    BY <1>0, <1>1, <2>1, <2>3, <2>4, <2>5, TablesAre
<1>2. CASE ~IsChannel(word)
  <2> DEFINE part == [p \in ListPrefixes |-> NicksMatching(p, word)]
  <2>1. Matching(word) = UNION {part[p] : p \in ListPrefixes} /\ LastOf(word) = last_nick
        /\ NextIn(word) = FromLast({FromLast(part[p], last_nick) : p \in ListPrefixes} \ {0}, last_nick)
        /\ \A i : NameOf(word, i) = tab_hlist[i][2]
    BY <1>2 DEF Matching, LastOf, NextIn, NextNick, Searches, NameOf
  <2>2. \A p \in ListPrefixes : part[p] \in SUBSET DOMAIN tab_hlist
    BY DEF NicksMatching
  <2> HIDE DEF part
  <2>3. part \in [ListPrefixes -> SUBSET (Nat \ {0})]
    <3>1. \A p \in ListPrefixes : part[p] \in SUBSET (Nat \ {0})
      BY <2>2, TablesAre
    <3>2. part = [p \in ListPrefixes |-> part[p]]
      BY DEF part
    <3> QED
      BY <3>1, <3>2
  <2>4. /\ Matching(word) = {} => NextIn(word) = 0
        /\ Matching(word) # {} => IsNext(Matching(word), last_nick, NextIn(word))
    <3> DEFINE all == UNION {part[p] : p \in ListPrefixes}
               found == {FromLast(part[p], last_nick) : p \in ListPrefixes} \ {0}
    <3>1. ASSUME all = {}
          PROVE  FromLast(found, last_nick) = 0
      <4>1. \A p \in ListPrefixes : part[p] = {}
        BY <3>1
      <4>2. \A p \in ListPrefixes : FromLast(part[p], last_nick) = 0
        BY <1>0, <4>1, FromLastIs
      <4>3. found = {}
        BY <4>2
      <4> QED
        BY <1>0, <4>3, FromLastIs
    <3>2. all # {} => IsNext(all, last_nick, FromLast(found, last_nick))
      BY <1>0, <2>3, NextOfParts
    <3>3. Matching(word) = all /\ NextIn(word) = FromLast(found, last_nick)
      BY <2>1
    <3> HIDE DEF all, found
    <3> QED
      BY <3>1, <3>2, <3>3
  <2>5. Matching(word) \in SUBSET DOMAIN tab_hlist
    BY <2>1, <2>2
  <2>6. Matching(word) \in SUBSET (1 .. Len(tab_hlist)) /\ Len(tab_hlist) \in Nat
    BY <2>5, TablesAre
  <2>7. \A i \in Matching(word) : NameOf(word, i) \in Seq(TabChars)
    BY <2>1, <2>5, TablesAre
  <2>8. tab_hlist = <<>> => Matching(word) = {}
    BY <2>6
  <2> QED
    BY <1>0, <2>1, <2>4, <2>6, <2>7, <2>8
<1> QED
  BY <1>1, <1>2

\* find_next_nick and its like find a name with that beginning, or none.
LEMMA NextInType ==
  ASSUME TabTypeOK, NEW word \in Seq(TabChars)
  PROVE  NextIn(word) \in Nat /\ (NextIn(word) # 0 => NextIn(word) \in Matching(word))
<1>1. PICK n \in Nat : Matching(word) \in SUBSET (1 .. n)
  BY NextInIs
<1>2. /\ Matching(word) = {} => NextIn(word) = 0
      /\ Matching(word) # {} => IsNext(Matching(word), LastOf(word), NextIn(word))
  BY NextInIs
<1> QED
  BY <1>1, <1>2 DEF IsNext

\* A name that begins with a word is a word.
LEMMA NamesAreClean ==
  ASSUME PlainNames, TabTypeOK, NEW word \in Seq(TabChars), word # <<>>, NEW i \in Matching(word)
  PROVE  Clean(NameOf(word, i))
<1>1. ASSUME NEW name \in Seq(TabChars), Begins(word, name)
      PROVE  name # <<>>
  <2> SUFFICES ASSUME name = <<>>
               PROVE  FALSE
    OBVIOUS
  <2>1. PICK n \in 0 .. Len(name) : word = SubSeq(name, 1, n)
    BY <1>1 DEF Begins
  <2>2. n = 0
    BY EmptySeq
  <2>3. SubSeq(name, 1, 0) = <<>>
    BY SubSeqEmpty
  <2> QED
    BY <2>1, <2>2, <2>3
<1>2. CASE IsChannel(word)
  <2>1. i \in DOMAIN tab_channels /\ Begins(word, tab_channels[i]) /\ NameOf(word, i) = tab_channels[i]
    BY <1>2 DEF Matching, ChannelsMatching, NameOf
  <2>2. tab_channels[i] \in Seq(TabChars) /\ \A j \in DOMAIN tab_channels[i] : tab_channels[i][j] \notin Closing
    BY <2>1, TablesAre DEF PlainNames, TabTypeOK
  <2> QED
    BY <1>1, <2>1, <2>2 DEF Clean
<1>3. CASE ~IsChannel(word)
  <2>1. i \in DOMAIN tab_hlist /\ Begins(word, tab_hlist[i][2]) /\ NameOf(word, i) = tab_hlist[i][2]
    BY <1>3 DEF Matching, NicksMatching, NameOf
  <2>2. tab_hlist[i][2] \in Seq(TabChars) /\ \A j \in DOMAIN tab_hlist[i][2] : tab_hlist[i][2][j] \notin Closing
    BY <2>1, TablesAre DEF PlainNames, TabTypeOK
  <2> QED
    BY <1>1, <2>1, <2>2 DEF Clean
<1> QED
  BY <1>2, <1>3

\* A place a char can hold is kept.
LEMMA CharIs ==
  ASSUME NEW p \in Nat, p <= CharMax
  PROVE  Char(p) = p
<1>1. CharMax \in Nat
  BY TabAssumption
<1>2. PICK w \in Nat : w = 2 * (CharMax + 1) /\ p < w
  BY <1>1
<1>3. p % w = p
  BY <1>2
<1> QED
  BY <1>1, <1>2, <1>3 DEF Char

\* One press of TAB puts the next name in the place of the one that stands there.
LEMMA Completed ==
  ASSUME PlainNames, TabTypeOK, NEW word \in Seq(TabChars), Clean(word),
         NEW before, NEW after, Between(before, after), NEW p, p = Len(before), p <= CharMax,
         NEW cur \in Seq(TabChars), Clean(cur), tab_text = (before \o cur) \o after,
         Completes(word, p)
  PROVE  IF Matching(word) = {} THEN tab_text' = tab_text
         ELSE /\ NextIn(word) \in Matching(word)
              /\ tab_text' = (before \o NameOf(word, NextIn(word))) \o after
              /\ NextIn(word) = IF IsChannel(word) THEN last_chan' ELSE last_nick'
<1>1. before \in Seq(TabChars) /\ after \in Seq(TabChars)
  BY DEF Between
<1>2. p \in Nat /\ Char(p) = p
  BY <1>1, CharIs
<1>3. tab_text # <<>>
  <2>1. Len(tab_text) = Len(before) + Len(cur) + Len(after)
    BY <1>1, JoinedIs
  <2>2. Len(cur) \in Nat \ {0}
    BY EmptySeq DEF Clean
  <2>3. Len(tab_text) # 0
    BY <1>1, <2>1, <2>2
  <2> QED
    BY <2>3, EmptySeq
<1>4. /\ last_chan' = IF IsChannel(word) THEN NextIn(word) ELSE last_chan
      /\ last_nick' \in IF IsChannel(word) THEN {last_nick} ELSE {NextIn(word)} \cup Kept
      /\ tab_text' = IF NextIn(word) # 0 /\ Char(p) >= 0 THEN Replaced(tab_text, Char(p), NameOf(word, NextIn(word)))
                     ELSE tab_text
  BY <1>3 DEF Completes
<1>5. CASE Matching(word) = {}
  BY <1>4, <1>5, NextInIs
<1>6. CASE Matching(word) # {}
  <2>1. NextIn(word) \in Matching(word) /\ NextIn(word) # 0
    <3>1. PICK n \in Nat : Matching(word) \in SUBSET (1 .. n)
      BY NextInIs
    <3>2. IsNext(Matching(word), LastOf(word), NextIn(word))
      BY <1>6, NextInIs
    <3> QED
      BY <3>1, <3>2 DEF IsNext
  <2>2. tab_text' = Replaced(tab_text, p, NameOf(word, NextIn(word)))
    BY <1>2, <1>4, <2>1
  <2>3. NameOf(word, NextIn(word)) \in Seq(TabChars)
    BY <2>1, NextInIs
  <2>4. Replaced(tab_text, p, NameOf(word, NextIn(word))) = (before \o NameOf(word, NextIn(word))) \o after
    <3>1. PICK name \in Seq(TabChars) : name = NameOf(word, NextIn(word))
      BY <2>3
    <3>2. Replaced((before \o cur) \o after, Len(before), name) = (before \o name) \o after
      BY ReplacedIs
    <3> QED
      BY <3>1, <3>2
  <2>5. ~IsChannel(word) => Kept = {}
    BY <1>6, NextInIs DEF Kept
  <2>6. NextIn(word) = IF IsChannel(word) THEN last_chan' ELSE last_nick'
    BY <1>4, <2>5
  <2> QED
    BY <1>6, <2>1, <2>2, <2>4, <2>6
<1> QED
  BY <1>5, <1>6

-----------------------------------------------------------------------------
\* replace_word makes texts of texts.
LEMMA ReplacedType ==
  ASSUME NEW text \in Seq(TabChars), NEW p \in Nat, NEW name \in Seq(TabChars)
  PROVE  Replaced(text, p, name) \in Seq(TabChars)
<1>1. CASE HasWord(text, p)
  <2>1. p \in 0 .. Len(text)
    BY <1>1 DEF HasWord
  <2>2. PICK before, after : Between(before, after) /\ Len(before) = WordStart(text, p)
                             /\ WordAt(text, p) \in Seq(TabChars)
                             /\ text = (before \o WordAt(text, p)) \o after /\ Clean(WordAt(text, p))
    BY <1>1, <2>1, AroundWord
  <2>3. PICK s \in 0 .. p : s = WordStart(text, p)
    BY <2>1, EndsAre
  <2>4. PICK e \in s .. Len(text) : e = WordEnd(text, p)
    BY <2>1, <2>3, EndsAre
  <2>5. s \in Nat /\ e \in Nat /\ Len(text) \in Nat /\ s <= Len(text) /\ e <= Len(text)
    BY <2>1, <2>3, <2>4
  <2>6. \A i \in 1 .. Len(text) : text[i] \in TabChars
    BY ElementOfSeq
  <2>7. SubSeq(text, 1, s) \in Seq(TabChars)
    <3>1. \A i \in 1 .. s : text[i] \in TabChars
      BY <2>5, <2>6
    <3> QED
      BY <2>5, <3>1, SubSeqProperties
  <2>8. SubSeq(text, e + 1, Len(text)) \in Seq(TabChars)
    <3>1. \A i \in e + 1 .. Len(text) : text[i] \in TabChars
      BY <2>5, <2>6
    <3> QED
      BY <2>5, <3>1, SubSeqProperties
  <2>9. Replaced(text, p, name) = (SubSeq(text, 1, s) \o name) \o SubSeq(text, e + 1, Len(text))
    BY <1>1, <2>3, <2>4 DEF Replaced
  <2> QED
    BY <2>7, <2>8, <2>9, JoinedIs
<1>2. CASE ~HasWord(text, p)
  BY <1>2 DEF Replaced
<1> QED
  BY <1>1, <1>2

\* So does each TAB.
LEMMA CompletesType ==
  ASSUME TabTypeOK, NEW word \in Seq(TabChars), NEW p \in Nat, Completes(word, p)
  PROVE  last_nick' \in Nat /\ last_chan' \in Nat /\ tab_text' \in Seq(TabChars) /\ tab_wild' \in BOOLEAN
<1>1. last_nick \in Nat /\ last_chan \in Nat /\ tab_text \in Seq(TabChars) /\ tab_wild \in BOOLEAN
  BY DEF TabTypeOK
<1>2. NextIn(word) \in Nat /\ (NextIn(word) # 0 => NameOf(word, NextIn(word)) \in Seq(TabChars))
  BY NextInType, NextInIs
<1>3. CASE tab_text = <<>>
  BY <1>1, <1>3 DEF Completes
<1>4. CASE tab_text # <<>>
  <2>1. /\ last_chan' = IF IsChannel(word) THEN NextIn(word) ELSE last_chan
        /\ last_nick' \in IF IsChannel(word) THEN {last_nick} ELSE {NextIn(word)} \cup Kept
        /\ tab_wild' = (NextIn(word) # 0 /\ Char(p) < 0)
        /\ tab_text' = IF NextIn(word) # 0 /\ Char(p) >= 0
                       THEN Replaced(tab_text, Char(p), NameOf(word, NextIn(word))) ELSE tab_text
    BY <1>4 DEF Completes
  <2>2. last_nick' \in Nat
    BY <1>1, <1>2, <2>1 DEF Kept
  <2>3. Char(p) \in Int
    <3>1. CharMax \in Nat
      BY TabAssumption
    <3>2. PICK w \in Nat \ {0} : w = 2 * (CharMax + 1)
      BY <3>1
    <3>3. p % w \in Int
      BY <3>2
    <3> QED
      BY <3>1, <3>2, <3>3 DEF Char
  <2>4. tab_text' \in Seq(TabChars)
    BY <1>1, <1>2, <2>1, <2>3, ReplacedType
  <2> QED
    BY <1>1, <1>2, <2>1, <2>2, <2>4
<1> QED
  BY <1>3, <1>4

\* At first no word is completed.
LEMMA TabTypesInit == TabInit => TabTypeOK
<1> SUFFICES ASSUME TabInit
             PROVE  TabTypeOK
  OBVIOUS
<1>1. <<>> \in Seq(TabChars) /\ <<>> \in Seq(Nat) /\ Len(<<>>) = 0
  BY EmptySeq
<1>2. MaxTabs \in Nat
  BY TabAssumption
<1>3. /\ tab_continue = FALSE /\ tab_wild = FALSE /\ tab_pos = 0 /\ last_nick = 0 /\ last_chan = 0
      /\ tab_text = <<>> /\ tab_word = <<>> /\ tab_from = <<>> /\ tab_offers = <<>>
      /\ tab_hlist \in NickLists /\ tab_channels \in ChannelTables
  BY DEF TabInit
<1>4. tab_text \in Seq(TabChars) /\ tab_word \in Seq(TabChars) /\ tab_from \in Seq(TabChars)
      /\ tab_offers \in Seq(Nat) /\ Len(tab_offers) <= MaxTabs
  BY <1>1, <1>2, <1>3
<1> QED
  BY <1>3, <1>4 DEF TabTypeOK

\* Every TAB and every other text keeps the types.
LEMMA TabTypesStep == TabTypeOK /\ [TabNext]_tabVars => TabTypeOK'
<1> SUFFICES ASSUME TabTypeOK, [TabNext]_tabVars
             PROVE  TabTypeOK'
  OBVIOUS
<1> USE DEF tabTables, tabStatics, tabHistory
<1>0. /\ <<>> \in Seq(TabChars) /\ <<>> \in Seq(Nat) /\ Len(<<>>) = 0
      /\ TabTexts \subseteq Seq(TabChars) /\ MaxTabs \in Nat \ {0}
  BY TabAssumption, EmptySeq
<1>1. ASSUME NEW caret \in 0 .. Len(tab_text), FirstTab(caret)
      PROVE  TabTypeOK'
  <2>0. tab_text \in Seq(TabChars)
    BY DEF TabTypeOK
  <2>1. HasWord(tab_text, caret)
    BY <1>1 DEF FirstTab
  <2>2. PICK word : word = WordAt(tab_text, caret)
    OBVIOUS
  <2>3. PICK p : p = WordStart(tab_text, caret)
    OBVIOUS
  <2>4. word \in Seq(TabChars) /\ word # <<>>
    BY <2>0, <2>1, <2>2, AroundWord DEF Clean
  <2>5. p \in Nat
    BY <2>0, <2>3, EndsAre
  <2>6. tab_word' = word /\ tab_pos' = p /\ Completes(word, p) /\ tab_offers' = <<NextIn(word)>>
        /\ tab_continue' = TRUE /\ tab_from' = tab_text /\ UNCHANGED tabTables
    BY <1>1, <2>2, <2>3 DEF FirstTab
  <2>7. last_nick' \in Nat /\ last_chan' \in Nat /\ tab_text' \in Seq(TabChars) /\ tab_wild' \in BOOLEAN
    BY <2>4, <2>5, <2>6, CompletesType
  <2>8. NextIn(word) \in Nat
    BY <2>4, NextInType
  <2>9. tab_offers' \in Seq(Nat) /\ Len(tab_offers') = 1
    BY <2>6, <2>8
  <2> QED
    BY <1>0, <2>0, <2>4, <2>5, <2>6, <2>7, <2>9 DEF TabTypeOK
<1>2. ASSUME NEW caret \in 0 .. Len(tab_text), NoWord(caret)
      PROVE  TabTypeOK'
  <2>1. /\ tab_word' = <<>> /\ ~tab_continue' /\ tab_continue' = tab_continue /\ tab_pos' = tab_pos
        /\ last_nick' = last_nick /\ last_chan' = last_chan /\ tab_text' = tab_text /\ tab_hlist' = tab_hlist
        /\ tab_channels' = tab_channels /\ tab_wild' = tab_wild /\ tab_from' = tab_from /\ tab_offers' = tab_offers
    BY <1>2 DEF NoWord
  <2> QED
    BY <1>0, <2>1 DEF TabTypeOK
<1>3. ASSUME NextTab
      PROVE  TabTypeOK'
  <2>1. tab_word \in Seq(TabChars) /\ tab_pos \in Nat
    BY DEF TabTypeOK
  <2>2. last_nick' \in Nat /\ last_chan' \in Nat /\ tab_text' \in Seq(TabChars) /\ tab_wild' \in BOOLEAN
    BY <1>3, <2>1, CompletesType DEF NextTab
  <2>3. NextIn(tab_word) \in Nat
    BY <2>1, NextInType
  <2>4. tab_offers \in Seq(Nat) /\ Len(tab_offers) < MaxTabs
        /\ tab_offers' = IF tab_offers = <<>> THEN <<>> ELSE Append(tab_offers, NextIn(tab_word))
    BY <1>3 DEF NextTab, TabTypeOK
  <2>5. tab_offers' \in Seq(Nat) /\ Len(tab_offers') <= MaxTabs
    <3>1. Append(tab_offers, NextIn(tab_word)) \in Seq(Nat)
          /\ Len(Append(tab_offers, NextIn(tab_word))) = Len(tab_offers) + 1
      BY <2>3, <2>4, AppendProperties
    <3> QED
      BY <1>0, <2>4, <3>1
  <2> QED
    BY <1>3, <2>2, <2>5 DEF NextTab, TabTypeOK
<1>4. ASSUME NEW text \in TabTexts, TypeText(text)
      PROVE  TabTypeOK'
  <2>1. /\ tab_text' = text /\ ~tab_continue' /\ tab_continue' = FALSE /\ tab_offers' = <<>> /\ tab_from' = <<>>
        /\ tab_word' = tab_word /\ tab_pos' = tab_pos /\ last_nick' = last_nick /\ last_chan' = last_chan
        /\ tab_hlist' = tab_hlist /\ tab_channels' = tab_channels /\ tab_wild' = tab_wild
    BY <1>4 DEF TypeText
  <2>2. tab_text' \in Seq(TabChars) /\ tab_from' \in Seq(TabChars) /\ tab_offers' \in Seq(Nat)
        /\ Len(tab_offers') <= MaxTabs
    BY <1>0, <2>1
  <2> QED
    BY <2>1, <2>2 DEF TabTypeOK
<1>5. ASSUME NEW text \in TabTexts, NEW list \in NickLists, TextReplaced(text, list)
      PROVE  TabTypeOK'
  BY <1>0, <1>5 DEF TextReplaced, TabTypeOK
<1>6. ASSUME NEW list \in NickLists, NEW channels \in ChannelTables, TablesChange(list, channels)
      PROVE  TabTypeOK'
  BY <1>0, <1>6 DEF TablesChange, TabTypeOK
<1>7. CASE UNCHANGED tabVars
  BY <1>7 DEF tabVars, TabTypeOK
<1> QED
  BY <1>1, <1>2, <1>3, <1>4, <1>5, <1>6, <1>7 DEF TabNext

\* The word and its place, the places reached, the text and what was offered have their
\* types, with lists of any nicks and channels.
THEOREM TabTypes == TabSpec => []TabTypeOK
BY TabTypesInit, TabTypesStep, PTL DEF TabSpec

-----------------------------------------------------------------------------
\* What was offered goes through the names in turn.
InTurn(S, offers) ==
  /\ \A k \in 1 .. Len(offers) : offers[k] \in S
  /\ \A k \in 1 .. Len(offers) - 1 : IsNext(S, offers[k], offers[k + 1])

\* The text is what it was at the first TAB, but for the word.
Offered(before, after) ==
  /\ Between(before, after) /\ Len(before) = tab_pos /\ Clean(tab_word)
  /\ tab_from = (before \o tab_word) \o after
  /\ Matching(tab_word) = {} => tab_text = tab_from
  /\ Matching(tab_word) # {} =>
       /\ InTurn(Matching(tab_word), tab_offers)
       /\ LastOf(tab_word) = tab_offers[Len(tab_offers)]
       /\ tab_text = (before \o NameOf(tab_word, tab_offers[Len(tab_offers)])) \o after

TabInv ==
  /\ TabTypeOK
  /\ tab_offers # <<>> => tab_continue
  /\ tab_offers # <<>> /\ tab_pos <= CharMax => \E before, after : Offered(before, after)

\* One more offer.
LEMMA OneMoreOffer ==
  ASSUME NEW S, NEW offers \in Seq(Nat), offers # <<>>, InTurn(S, offers), NEW x \in Nat, x \in S,
         IsNext(S, offers[Len(offers)], x)
  PROVE  /\ InTurn(S, Append(offers, x))
         /\ Append(offers, x)[Len(Append(offers, x))] = x
<1>1. Len(offers) \in Nat \ {0}
  BY EmptySeq
<1>2. /\ Append(offers, x) \in Seq(Nat) /\ Len(Append(offers, x)) = Len(offers) + 1
      /\ \A k \in 1 .. Len(offers) : Append(offers, x)[k] = offers[k]
      /\ Append(offers, x)[Len(offers) + 1] = x
  BY AppendProperties
<1>3. PICK more : more = Append(offers, x)
  OBVIOUS
<1>4. ASSUME NEW k \in 1 .. Len(more)
      PROVE  more[k] \in S
  <2>1. k \in 1 .. Len(offers) \/ k = Len(offers) + 1
    BY <1>1, <1>2, <1>3
  <2> QED
    BY <1>2, <1>3, <2>1 DEF InTurn
<1>5. ASSUME NEW k \in 1 .. Len(more) - 1
      PROVE  IsNext(S, more[k], more[k + 1])
  <2>1. CASE k = Len(offers)
    <3>1. more[k] = offers[Len(offers)] /\ more[k + 1] = x
      BY <1>1, <1>2, <1>3, <2>1
    <3> QED
      BY <3>1
  <2>2. CASE k # Len(offers)
    <3>1. k \in 1 .. Len(offers) - 1 /\ k \in 1 .. Len(offers) /\ k + 1 \in 1 .. Len(offers)
      BY <1>1, <1>2, <1>3, <2>2
    <3>2. more[k] = offers[k] /\ more[k + 1] = offers[k + 1]
      BY <1>2, <1>3, <3>1
    <3>3. IsNext(S, offers[k], offers[k + 1])
      BY <3>1 DEF InTurn
    <3> QED
      BY <3>2, <3>3
  <2> QED
    BY <2>1, <2>2
<1> QED
  BY <1>2, <1>3, <1>4, <1>5 DEF InTurn

\* The first TAB takes the word, and offers the first name.
LEMMA FirstTabStep ==
  ASSUME PlainNames, TabInv, TabTypeOK', NEW caret \in 0 .. Len(tab_text), FirstTab(caret)
  PROVE  TabInv'
<1>0. TabTypeOK /\ tab_text \in Seq(TabChars)
  BY DEF TabInv, TabTypeOK
<1>1. HasWord(tab_text, caret)
  BY DEF FirstTab
<1>2. PICK word : word = WordAt(tab_text, caret)
  OBVIOUS
<1>3. PICK p : p = WordStart(tab_text, caret)
  OBVIOUS
<1>4. PICK before, after :
           /\ Between(before, after) /\ Clean(word) /\ word \in Seq(TabChars)
           /\ Len(before) = p
           /\ tab_text = (before \o word) \o after
  <2>1. PICK before, after :
             /\ Between(before, after) /\ Clean(WordAt(tab_text, caret)) /\ WordAt(tab_text, caret) \in Seq(TabChars)
             /\ Len(before) = WordStart(tab_text, caret)
             /\ tab_text = (before \o WordAt(tab_text, caret)) \o after
    BY <1>0, <1>1, AroundWord
  <2>2. /\ Between(before, after) /\ Clean(word) /\ word \in Seq(TabChars)
        /\ Len(before) = p
        /\ tab_text = (before \o word) \o after
    BY <1>2, <1>3, <2>1
  <2> QED
    BY <2>2
<1>5. tab_word' = word /\ tab_pos' = p /\ Completes(word, p) /\ tab_offers' = <<NextIn(word)>>
      /\ tab_continue' = TRUE /\ tab_from' = tab_text /\ tab_hlist' = tab_hlist /\ tab_channels' = tab_channels
  BY <1>2, <1>3 DEF FirstTab, tabTables
<1>6. SUFFICES ASSUME p <= CharMax
               PROVE  Offered(before, after)'
  BY <1>5 DEF TabInv
<1>7. IF Matching(word) = {} THEN tab_text' = tab_text
      ELSE /\ NextIn(word) \in Matching(word)
           /\ tab_text' = (before \o NameOf(word, NextIn(word))) \o after
           /\ NextIn(word) = IF IsChannel(word) THEN last_chan' ELSE last_nick'
  BY <1>0, <1>4, <1>5, <1>6, Completed
<1>8. Matching(tab_word)' = Matching(word)
  BY <1>5 DEF Matching, ChannelsMatching, NicksMatching
<1>10. LastOf(tab_word)' = IF IsChannel(word) THEN last_chan' ELSE last_nick'
  BY <1>5 DEF LastOf
<1>11. PICK x : x = NextIn(word)
  OBVIOUS
<1>12. InTurn({x}, <<x>>) /\ <<x>>[Len(<<x>>)] = x
  BY DEF InTurn
<1>13. x \in Matching(word) => InTurn(Matching(word), <<x>>)
  BY <1>12 DEF InTurn
<1>14. tab_offers'[Len(tab_offers')] = x /\ tab_offers' = <<x>>
  BY <1>5, <1>11, <1>12
<1>15. NameOf(tab_word, tab_offers[Len(tab_offers)])' = NameOf(word, x)
  BY <1>5, <1>14 DEF NameOf
<1> QED
  BY <1>4, <1>5, <1>7, <1>8, <1>10, <1>11, <1>13, <1>14, <1>15 DEF Offered

\* Another TAB offers the next, and each once before one again.
LEMMA NextTabStep ==
  ASSUME PlainNames, TabInv, TabTypeOK', NextTab
  PROVE  TabInv'
<1>0. TabTypeOK /\ tab_word \in Seq(TabChars) /\ tab_word # <<>> /\ tab_offers \in Seq(Nat)
  BY DEF TabInv, TabTypeOK, NextTab
<1>1. /\ tab_continue /\ Completes(tab_word, tab_pos)
      /\ tab_offers' = IF tab_offers = <<>> THEN <<>> ELSE Append(tab_offers, NextIn(tab_word))
      /\ tab_continue' = tab_continue /\ tab_word' = tab_word /\ tab_pos' = tab_pos /\ tab_from' = tab_from
      /\ tab_hlist' = tab_hlist /\ tab_channels' = tab_channels
  BY DEF NextTab, tabTables
<1>2. CASE tab_offers = <<>> \/ ~(tab_pos <= CharMax)
  BY <1>1, <1>2 DEF TabInv
<1>3. CASE tab_offers # <<>> /\ tab_pos <= CharMax
  <2>1. PICK before, after : Offered(before, after)
    BY <1>3 DEF TabInv
  <2>2. PICK S : S = Matching(tab_word)
    OBVIOUS
  <2>3. PICK x : x = NextIn(tab_word)
    OBVIOUS
  <2>4. PICK last : last = tab_offers[Len(tab_offers)]
    OBVIOUS
  <2>5. Between(before, after) /\ Len(before) = tab_pos /\ Clean(tab_word)
        /\ tab_from = (before \o tab_word) \o after
    BY <2>1 DEF Offered
  <2>6. tab_offers' = Append(tab_offers, x)
    BY <1>1, <1>3, <2>3
  <2>7. Matching(tab_word)' = S
        /\ LastOf(tab_word)' = IF IsChannel(tab_word) THEN last_chan' ELSE last_nick'
    BY <1>1, <2>2 DEF Matching, ChannelsMatching, NicksMatching, NameOf, LastOf
  <2>8. CASE S = {}
    <3>1. tab_text = tab_from
      BY <2>1, <2>2, <2>8 DEF Offered
    <3>2. tab_text' = tab_text
      BY <1>0, <1>1, <1>3, <2>2, <2>5, <2>8, <3>1, Completed
    <3>3. Offered(before, after)'
      BY <1>1, <2>5, <2>7, <2>8, <3>1, <3>2 DEF Offered
    <3> QED
      BY <1>1, <3>3 DEF TabInv
  <2>9. CASE S # {}
    <3>1. InTurn(S, tab_offers) /\ LastOf(tab_word) = last
          /\ tab_text = (before \o NameOf(tab_word, last)) \o after
      BY <2>1, <2>2, <2>4, <2>9 DEF Offered
    <3>2. last \in S
      <4>1. Len(tab_offers) \in 1 .. Len(tab_offers)
        BY <1>0, <1>3, EmptySeq
      <4> QED
        BY <2>4, <3>1, <4>1 DEF InTurn
    <3>3. PICK cur \in Seq(TabChars) : cur = NameOf(tab_word, last) /\ Clean(cur)
      BY <1>0, <2>2, <3>2, NextInIs, NamesAreClean
    <3>4. tab_text = (before \o cur) \o after
      BY <3>1, <3>3
    <3>5. /\ x \in S
          /\ tab_text' = (before \o NameOf(tab_word, x)) \o after
          /\ x = IF IsChannel(tab_word) THEN last_chan' ELSE last_nick'
      BY <1>0, <1>1, <1>3, <2>2, <2>3, <2>5, <2>9, <3>3, <3>4, Completed
    <3>6. IsNext(S, last, x)
      BY <1>0, <2>2, <2>3, <2>9, <3>1, NextInIs
    <3>7. x \in Nat
      BY <1>0, <2>3, NextInType
    <3>8. InTurn(S, tab_offers') /\ tab_offers'[Len(tab_offers')] = x
      BY <1>0, <1>3, <2>4, <2>6, <3>1, <3>5, <3>6, <3>7, OneMoreOffer
    <3>9. NameOf(tab_word, tab_offers[Len(tab_offers)])' = NameOf(tab_word, x)
      BY <1>1, <3>8 DEF NameOf
    <3>10. Offered(before, after)'
      BY <1>1, <2>5, <2>7, <2>9, <3>5, <3>8, <3>9 DEF Offered
    <3> QED
      BY <1>1, <3>10 DEF TabInv
  <2> QED
    BY <2>8, <2>9
<1> QED
  BY <1>2, <1>3

\* Every step keeps the names offered in one round through all.
LEMMA TabInvStep == PlainNames /\ TabInv /\ [TabNext]_tabVars => TabInv'
<1> SUFFICES ASSUME PlainNames, TabInv, [TabNext]_tabVars
             PROVE  TabInv'
  OBVIOUS
<1>0. TabTypeOK'
  BY TabTypesStep DEF TabInv
<1>1. ASSUME NEW caret \in 0 .. Len(tab_text), FirstTab(caret)
      PROVE  TabInv'
  BY <1>0, <1>1, FirstTabStep
<1>2. ASSUME NEW caret \in 0 .. Len(tab_text), NoWord(caret)
      PROVE  TabInv'
  BY <1>0, <1>2 DEF NoWord, TabInv, tabHistory
<1>3. ASSUME NextTab
      PROVE  TabInv'
  BY <1>0, <1>3, NextTabStep
<1>4. ASSUME NEW text \in TabTexts, TypeText(text)
      PROVE  TabInv'
  BY <1>0, <1>4 DEF TypeText, TabInv
<1>5. ASSUME NEW text \in TabTexts, NEW list \in NickLists, TextReplaced(text, list)
      PROVE  TabInv'
  BY <1>0, <1>5 DEF TextReplaced, TabInv
<1>6. ASSUME NEW list \in NickLists, NEW channels \in ChannelTables, TablesChange(list, channels)
      PROVE  TabInv'
  BY <1>0, <1>6 DEF TablesChange, TabInv
<1>7. CASE UNCHANGED tabVars
  <2>1. /\ tab_offers' = tab_offers /\ tab_continue' = tab_continue /\ tab_word' = tab_word /\ tab_pos' = tab_pos
        /\ tab_from' = tab_from /\ tab_text' = tab_text /\ tab_hlist' = tab_hlist /\ tab_channels' = tab_channels
        /\ last_nick' = last_nick /\ last_chan' = last_chan
    BY <1>7 DEF tabVars, tabStatics, tabTables, tabHistory
  <2>2. /\ Matching(tab_word)' = Matching(tab_word) /\ LastOf(tab_word)' = LastOf(tab_word)
        /\ NameOf(tab_word, tab_offers[Len(tab_offers)])' = NameOf(tab_word, tab_offers[Len(tab_offers)])
    BY <2>1 DEF Matching, ChannelsMatching, NicksMatching, NameOf, LastOf
  <2>3. ASSUME NEW before, NEW after, Offered(before, after)
        PROVE  Offered(before, after)'
    BY <2>1, <2>2, <2>3 DEF Offered
  <2> QED
    BY <1>0, <2>1, <2>3 DEF TabInv
<1> QED
  BY <1>1, <1>2, <1>3, <1>4, <1>5, <1>6, <1>7 DEF TabNext

\* At first none was offered.
LEMMA TabInvInit == TabInit => TabInv
BY TabTypesInit DEF TabInit, TabInv

\* What TabOffersEach says follows from the turns the offers took.
LEMMA OffersEach == TabInv => TabOffersEach
<1> SUFFICES ASSUME TabInv, tab_offers # <<>>, tab_pos <= CharMax
             PROVE  TabOffersEach
  BY DEF TabOffersEach
<1>0. TabTypeOK /\ tab_word \in Seq(TabChars) /\ tab_offers \in Seq(Nat) /\ DOMAIN tab_offers = 1 .. Len(tab_offers)
  BY LenProperties DEF TabInv, TabTypeOK
<1>1. PICK before, after : Offered(before, after)
  BY DEF TabInv
<1>2. PICK S : S = Matching(tab_word)
  OBVIOUS
<1>3. PICK n \in Nat : S \in SUBSET (1 .. n)
  BY <1>0, <1>2, NextInIs
<1>4. S \in SUBSET (0 .. n)
  BY <1>3
<1>5. ASSUME S # {}, NEW i \in DOMAIN tab_offers, NEW j \in DOMAIN tab_offers, i < j, j - i < Cardinality(S),
             tab_offers[i] = tab_offers[j]
      PROVE  FALSE
  <2>1. InTurn(S, tab_offers)
    BY <1>1, <1>2, <1>5 DEF Offered
  <2>2. /\ \A k \in 1 .. Len(tab_offers) : tab_offers[k] \in S
        /\ \A k \in 1 .. Len(tab_offers) - 1 : IsNext(S, tab_offers[k], tab_offers[k + 1])
    BY <2>1 DEF InTurn
  <2>3. Cardinality(S) <= j - i
    BY <1>0, <1>4, <1>5, <2>2, EachInTurn
  <2>4. Cardinality(S) \in Nat
    <3>1. IsFiniteSet(1 .. n)
      BY FS_Interval
    <3>2. IsFiniteSet(S)
      BY <1>3, <3>1, FS_Subset
    <3> QED
      BY <3>2, FS_CardinalityType
  <2> QED
    BY <1>0, <1>5, <2>3, <2>4
<1>6. ASSUME S = {}, NEW i \in DOMAIN tab_offers, NEW j \in DOMAIN tab_offers, i < j
      PROVE  ~(j - i < Cardinality(S))
  <2>1. Cardinality(S) = 0
    BY <1>6, FS_EmptySet
  <2> QED
    BY <1>0, <1>6, <2>1
<1>7. S = {} => tab_text = tab_from
  BY <1>1, <1>2 DEF Offered
<1>8. S # {} => \A i \in DOMAIN tab_offers : tab_offers[i] \in S
  BY <1>0, <1>1, <1>2 DEF Offered, InTurn
<1>9. before \in Seq(TabChars) /\ after \in Seq(TabChars) /\ tab_pos = Len(before)
      /\ tab_from = (before \o tab_word) \o after
  BY <1>1 DEF Offered, Between
<1>10. SubSeq(tab_from, 1, tab_pos) = before
       /\ SubSeq(tab_from, tab_pos + Len(tab_word) + 1, Len(tab_from)) = after
  <2>1. PICK q : q = Len(before) + Len(tab_word)
    OBVIOUS
  <2>2. PICK text : text = tab_from
    OBVIOUS
  <2>3. SubSeq(text, 1, tab_pos) = before /\ SubSeq(text, q + 1, Len(text)) = after
    BY <1>0, <1>9, <2>1, <2>2, PartsOf
  <2> QED
    BY <1>9, <2>1, <2>2, <2>3
<1>11. S # {} => tab_text = (before \o NameOf(tab_word, tab_offers[Len(tab_offers)])) \o after
  BY <1>1, <1>2 DEF Offered
<1> QED
  BY <1>2, <1>5, <1>6, <1>7, <1>8, <1>10, <1>11 DEF TabOffersEach

\* For any lists of nicks and channels whose names contain no blank and no >, pressing
\* TAB goes through all names that begin with the word, each in its turn, and changes
\* nothing of the text but the word.
THEOREM TabOffers == PlainNames => (TabSpec => []TabOffersEach)
<1>1. TabInit => TabInv
  BY TabInvInit
<1>2. PlainNames /\ TabInv /\ [TabNext]_tabVars => TabInv'
  BY TabInvStep
<1>3. TabInv => TabOffersEach
  BY OffersEach
<1> SUFFICES ASSUME PlainNames
             PROVE  TabSpec => []TabOffersEach
  OBVIOUS
<1>4. TabInv /\ [TabNext]_tabVars => TabInv'
  BY <1>2
<1> QED
  BY <1>1, <1>3, <1>4, PTL DEF TabSpec
=============================================================================
