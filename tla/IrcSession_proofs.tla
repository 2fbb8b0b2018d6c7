------------------------- MODULE IrcSession_proofs -------------------------
(***************************************************************************)
(* Lines cross an irc session whole, in order and once, in both            *)
(* directions, for any buffer size, any number of users and any timeouts.  *)
(* The inductive invariant says where every cell is:                       *)
(*                                                                         *)
(*   LockInv  who holds mutex_session at which program point, and that a   *)
(*            line accepted has room in the buffer;                        *)
(*   OutInv   a cell accepted is on the wire, in the buffer, or still to   *)
(*            be copied by the holder of the mutex, in this order;         *)
(*   InInv    a cell served is processed, in the buffer, or arriving.      *)
(***************************************************************************)
EXTENDS IrcSession, SequenceTheorems, TLAPS

LockInv ==
  /\ \A a \in Actors : sendPc[a] \in {"text", "crlf"} => mutex_session = a
  /\ ircPc = "send" => mutex_session = Irc /\ sendPc[Irc] = "none"
  /\ \A a \in Actors : /\ sendPc[a] = "text" => Len(outgoing) + 2 < BufSize
                       /\ sendPc[a] = "crlf" => Len(outgoing) + 1 < BufSize

\* What the holder of the mutex has still to copy of the line it had accepted.
Holds(p) == mutex_session \in Actors /\ sendPc[mutex_session] = p

Pending ==
  IF Holds("text") THEN <<Text(line[mutex_session]), Crlf(line[mutex_session])>>
  ELSE IF Holds("crlf") THEN <<Crlf(line[mutex_session])>>
  ELSE <<>>

OutInv == queued = (wire \o outgoing) \o Pending
InInv  == served = (processed \o incoming) \o arriving

IInv == TypeOK /\ LockInv /\ OutInv /\ InInv

-----------------------------------------------------------------------------
(***************************************************************************)
(* Sequences of cells.                                                     *)
(***************************************************************************)

\* recv and send cut a buffer in two: nothing is lost at the cut.
LEMMA Cut ==
  ASSUME NEW s \in Seq(Cells), NEW k \in 1 .. Len(s)
  PROVE  /\ SubSeq(s, 1, k) \in Seq(Cells)
         /\ From(s, k + 1) \in Seq(Cells)
         /\ SubSeq(s, 1, k) \o From(s, k + 1) = s
         /\ Len(SubSeq(s, 1, k)) = k
         /\ Len(From(s, k + 1)) = Len(s) - k
<1>1. Len(s) \in Nat /\ \A i \in 1 .. Len(s) : s[i] \in Cells
  BY LenProperties, ElementOfSeq
<1>2. SubSeq(s, 1, k) \in Seq(Cells) /\ Len(SubSeq(s, 1, k)) = k
  <2>1. \A i \in 1 .. k : s[i] \in Cells
    BY <1>1
  <2> QED
    BY <1>1, <2>1, SubSeqProperties
<1>3. /\ SubSeq(s, k + 1, Len(s)) \in Seq(Cells)
      /\ Len(SubSeq(s, k + 1, Len(s))) = Len(s) - k
  <2>1. \A i \in k + 1 .. Len(s) : s[i] \in Cells
    BY <1>1
  <2> QED
    BY <1>1, <2>1, SubSeqProperties
<1>4. SubSeq(s, 1, k) \o SubSeq(s, k + 1, Len(s)) = SubSeq(s, 1, Len(s))
  BY <1>1, ConcatAdjacentSubSeq
<1>5. SubSeq(s, 1, Len(s)) = s
  BY SubSeqFull
<1> QED
  BY <1>2, <1>3, <1>4, <1>5 DEF From

\* Cells may be grouped as one likes.
LEMMA Regroup ==
  ASSUME NEW s \in Seq(Cells), NEW t \in Seq(Cells), NEW u \in Seq(Cells)
  PROVE  (s \o t) \o u = s \o (t \o u)
BY ConcatAssociative

\* A sequence of cells is a prefix of any that continues it.
LEMMA Continues ==
  ASSUME NEW s \in Seq(Cells), NEW t \in Seq(Cells)
  PROVE  /\ OutStream!IsPrefix(s, s \o t)
         /\ InStream!IsPrefix(s, s \o t)
<1>1. Len(s) \in Nat /\ Len(t) \in Nat /\ Len(s \o t) = Len(s) + Len(t)
  BY LenProperties, ConcatProperties
<1>2. SubSeq(s, 1, Len(s)) = SubSeq(s \o t, 1, Len(s))
  <2>1. CASE Len(s) = 0
    BY <2>1, SubSeqEmpty
  <2>2. CASE Len(s) # 0
    BY <1>1, <2>2, SubSeqOfConcat1
  <2> QED
    BY <2>1, <2>2
<1> QED
  BY <1>1, <1>2 DEF OutStream!IsPrefix, InStream!IsPrefix

-----------------------------------------------------------------------------
(***************************************************************************)
(* The invariant holds initially.                                          *)
(***************************************************************************)
LEMMA Constants ==
  /\ BufSize \in Nat /\ BufSize > 1
  /\ MaxTimeout \in Nat /\ Grace \in Nat /\ MaxIdle \in Nat
  /\ MaxTimeout > 0 /\ Grace > 0 /\ MaxIdle = MaxTimeout + Grace
  /\ MaxStall \in Nat
  /\ Irc \in Actors /\ Nobody \notin Actors /\ Users \subseteq Actors
BY ActorAssumption, SizeAssumption DEF Actors, MaxIdle

\* A line put into a buffer consists of cells.
LEMMA CellTypes ==
  ASSUME NEW n \in Nat
  PROVE  /\ Text(n) \in Cells /\ Crlf(n) \in Cells
         /\ <<Text(n), Crlf(n)>> \in Seq(Cells)
         /\ <<Crlf(n)>> \in Seq(Cells) /\ <<Text(n)>> \in Seq(Cells)
<1>1. Text(n) \in Cells /\ Crlf(n) \in Cells
  BY DEF Text, Crlf, Cells
<1> QED
  BY <1>1

\* A session begins with empty buffers and free critical sections.
LEMMA Initially == Init => IInv
<1> SUFFICES ASSUME Init PROVE IInv
  OBVIOUS
<1>1. TypeOK
  <2>1. <<>> \in Seq(Cells) /\ Len(<<>>) = 0
    BY EmptySeq
  <2>2. /\ state \in States /\ ircPc \in IrcPCs
        /\ idle \in 0 .. MaxIdle /\ unanswered \in {NoPing} \cup 0 .. Grace
    BY Constants DEF Init, States, IrcPCs
  <2>3. /\ sendPc \in [Actors -> {"none", "lock", "text", "crlf"}]
        /\ line \in [Actors -> Nat]
    BY DEF Init
  <2>4. /\ outgoing \in Seq(Cells) /\ Len(outgoing) < BufSize
        /\ incoming \in Seq(Cells) /\ Len(incoming) < BufSize
        /\ wire \in Seq(Cells) /\ arriving \in Seq(Cells)
        /\ queued \in Seq(Cells) /\ served \in Seq(Cells) /\ processed \in Seq(Cells)
    BY <2>1, Constants DEF Init
  <2> QED
    BY <2>2, <2>3, <2>4 DEF Init, TypeOK
<1>2. LockInv
  BY DEF Init, LockInv
<1>3. ~Holds("text") /\ ~Holds("crlf")
  BY Constants DEF Init, Holds
<1>4. OutInv /\ InInv
  <2>1. (<<>> \o <<>>) \o <<>> = <<>>
    BY ConcatEmptySeq, EmptySeq
  <2> QED
    BY <1>3, <2>1 DEF Init, OutInv, InInv, Pending
<1> QED
  BY <1>1, <1>2, <1>4 DEF IInv

-----------------------------------------------------------------------------
(***************************************************************************)
(* Steps that move no cell and take no mutex.  They leave LockInv alone    *)
(* when they change sendPc only by a call, and do not enter "send".        *)
(***************************************************************************)
Unmoved == UNCHANGED <<line, mutex_session, out, incoming, arriving, served, processed>>

\* Entering irc_send_raw moves one actor only.
LEMMA CallKeepsTypes ==
  ASSUME TypeOK, NEW a \in Actors, Called(a)
  PROVE  sendPc' \in [Actors -> {"none", "lock", "text", "crlf"}]
BY DEF TypeOK, Called

\* Entering irc_send_raw leaves buffers and critical sections alone.
LEMMA CallFrame ==
  ASSUME TypeOK, LockInv, OutInv, InInv, Unmoved,
         NEW a \in Actors,
         UNCHANGED sendPc \/ (sendPc[a] = "none" /\ Called(a)),
         ircPc' = "send" => ircPc = "send" /\ (UNCHANGED sendPc \/ a # Irc)
  PROVE  LockInv' /\ OutInv' /\ InInv'
<1> USE DEF Unmoved, out
<1>1. \A b \in Actors : \/ sendPc'[b] = sendPc[b]
                        \/ b = a /\ sendPc[b] = "none" /\ sendPc'[b] = "lock"
  BY DEF TypeOK, Called
<1>2. LockInv'
  <2>1. (\A b \in Actors : sendPc[b] \in {"text", "crlf"} => mutex_session = b)'
    BY <1>1 DEF LockInv, Actors
  <2>2. (ircPc = "send" => mutex_session = Irc /\ sendPc[Irc] = "none")'
    BY <1>1, Constants DEF LockInv
  <2>3. (\A b \in Actors : /\ sendPc[b] = "text" => Len(outgoing) + 2 < BufSize
                           /\ sendPc[b] = "crlf" => Len(outgoing) + 1 < BufSize)'
    BY <1>1 DEF LockInv, Actors
  <2> QED
    BY <2>1, <2>2, <2>3 DEF LockInv
<1>3. Holds("text")' = Holds("text") /\ Holds("crlf")' = Holds("crlf")
  BY <1>1 DEF Holds
<1>4. OutInv' /\ InInv'
  BY <1>3 DEF OutInv, InInv, Pending
<1> QED
  BY <1>2, <1>4

(***************************************************************************)
(* The steps that move no cell, one by one: types and the frame.           *)
(***************************************************************************)
Quiet ==
  \/ \E u \in Users : UserSends(u) \/ CloseSocket(u) \/ ResetState(u)
  \/ ServerCloses
  \/ Connect \/ StartRun \/ NextRound \/ AddDescriptors \/ SelectFails
  \/ \E d \in 0 .. MaxStall, R \in SUBSET {"in", "out", "dcc"} : SelectReady(d, R)
  \/ \E d \in 1 .. MaxStall : IdleWaits(d) \/ IdlePings(d) \/ IdleDrops(d)
  \/ Drop \/ Process \/ CheckPeer \/ Establish \/ Register
  \/ ReadFails \/ LinesDone

\* What a quiet step may change keeps its type.
LEMMA QuietTypes ==
  ASSUME TypeOK, Unmoved,
         state' \in States, sock' \in {"open", "closed"}, ircPc' \in IrcPCs,
         fds' \in SUBSET {"in", "out", "dcc"}, idle' \in 0 .. MaxIdle,
         ping_sent' \in BOOLEAN, closing' \in SUBSET Users, serverOpen' \in BOOLEAN,
         unanswered' \in {NoPing} \cup 0 .. Grace,
         sendPc' \in [Actors -> {"none", "lock", "text", "crlf"}]
  PROVE  TypeOK'
BY DEF TypeOK, Unmoved, out, Actors, MaxIdle, NoPing, States, IrcPCs, Cells

\* Ticks stay within their caps.
LEMMA Ticks ==
  ASSUME TypeOK, NEW d \in 0 .. MaxStall
  PROVE  /\ Lesser(idle + d, MaxIdle) \in 0 .. MaxIdle
         /\ Waited(d) \in {NoPing} \cup 0 .. Grace
BY Constants DEF TypeOK, Lesser, Waited, NoPing

\* A quiet step of the session's thread.
OwnStep == /\ Unmoved /\ UNCHANGED <<closing, serverOpen>>
           /\ UNCHANGED sendPc \/ Called(Irc)
           /\ sendPc[Irc] = "none" /\ ircPc' # "send" /\ ircPc' \in IrcPCs

\* Steps of the session's thread that touch neither buffer.
LEMMA OwnSteps ==
  ASSUME IInv, OwnStep, state' \in States, sock' \in {"open", "closed"},
         fds' \in SUBSET {"in", "out", "dcc"}, idle' \in 0 .. MaxIdle,
         ping_sent' \in BOOLEAN, unanswered' \in {NoPing} \cup 0 .. Grace
  PROVE  IInv'
<1>1. sendPc' \in [Actors -> {"none", "lock", "text", "crlf"}]
  BY CallKeepsTypes, Constants DEF OwnStep, IInv, TypeOK
<1>2. TypeOK'
  BY <1>1, QuietTypes DEF OwnStep, IInv, TypeOK
<1> QED
  BY <1>2, CallFrame, Constants DEF OwnStep, IInv

\* Steps that move no cell.
LEMMA QuietSteps ==
  ASSUME IInv, Quiet
  PROVE  IInv'
<1> USE DEF IInv
<1>1. ASSUME NEW u \in Users, UserSends(u) \/ CloseSocket(u) \/ ResetState(u)
      PROVE  IInv'
  <2>1. Unmoved /\ UNCHANGED ircPc
    BY <1>1 DEF UserSends, CloseSocket, ResetState, Unmoved, sending, out, in
  <2>2. UNCHANGED sendPc \/ (sendPc[u] = "none" /\ Called(u))
    BY <1>1 DEF UserSends, CloseSocket, ResetState, sending
  <2>3. sendPc' \in [Actors -> {"none", "lock", "text", "crlf"}]
    BY <2>2, CallKeepsTypes, Constants DEF TypeOK
  <2>4. TypeOK'
    <3>1. /\ state' \in States /\ sock' \in {"open", "closed"}
          /\ closing' \in SUBSET Users
      BY <1>1 DEF UserSends, CloseSocket, ResetState, TypeOK, States
    <3>2. UNCHANGED <<fds, clock, serverOpen>>
      BY <1>1 DEF UserSends, CloseSocket, ResetState, in
    <3> QED
      BY <2>1, <2>3, <3>1, <3>2, QuietTypes DEF TypeOK, clock
  <2>5. u \in Actors /\ u # Irc
    BY ActorAssumption DEF Actors
  <2> QED
    BY <2>1, <2>2, <2>4, <2>5, CallFrame
<1>2. CASE ServerCloses
  <2>1. Unmoved /\ UNCHANGED <<state, sock, ircPc, fds, clock, sendPc, closing>>
    BY <1>2 DEF ServerCloses, Unmoved, sending, out
  <2>2. TypeOK'
    BY <1>2, <2>1, QuietTypes DEF ServerCloses, TypeOK, clock
  <2> QED
    BY <2>1, <2>2, CallFrame, Constants
<1>3. CASE Connect
  <2>1. OwnStep
    BY <1>3 DEF Connect, OwnStep, Unmoved, Goto, IrcPCs, sending, out, in
  <2>2. /\ state' \in States /\ sock' \in {"open", "closed"}
        /\ fds' \in SUBSET {"in", "out", "dcc"} /\ idle' \in 0 .. MaxIdle
        /\ ping_sent' \in BOOLEAN /\ unanswered' \in {NoPing} \cup 0 .. Grace
    BY <1>3, Constants DEF Connect, TypeOK, States, clock
  <2> QED
    BY <2>1, <2>2, OwnSteps
<1>4. CASE StartRun
  <2>1. OwnStep
    BY <1>4 DEF StartRun, OwnStep, Unmoved, Goto, IrcPCs, sending, out, in
  <2>2. /\ state' \in States /\ sock' \in {"open", "closed"}
        /\ fds' \in SUBSET {"in", "out", "dcc"} /\ idle' \in 0 .. MaxIdle
        /\ ping_sent' \in BOOLEAN /\ unanswered' \in {NoPing} \cup 0 .. Grace
    <3>1. ping_sent' \in BOOLEAN
      BY <1>4 DEF StartRun, TypeOK
    <3>2. /\ state' \in States /\ sock' \in {"open", "closed"}
          /\ fds' \in SUBSET {"in", "out", "dcc"}
      BY <1>4 DEF StartRun, TypeOK
    <3>3. idle' \in 0 .. MaxIdle
      BY <1>4, Constants DEF StartRun, TypeOK
    <3>4. unanswered' \in {NoPing} \cup 0 .. Grace
      BY <1>4, Constants DEF StartRun, TypeOK
    <3> QED
      BY <3>1, <3>2, <3>3, <3>4
  <2> QED
    BY <2>1, <2>2, OwnSteps
<1>5. CASE NextRound
  <2>1. OwnStep
    BY <1>5 DEF NextRound, OwnStep, Unmoved, Goto, IrcPCs, sending, out, in
  <2>2. /\ state' \in States /\ sock' \in {"open", "closed"}
        /\ fds' \in SUBSET {"in", "out", "dcc"} /\ idle' \in 0 .. MaxIdle
        /\ ping_sent' \in BOOLEAN /\ unanswered' \in {NoPing} \cup 0 .. Grace
    BY <1>5, Constants DEF NextRound, TypeOK, States, clock
  <2> QED
    BY <2>1, <2>2, OwnSteps
<1>6. CASE AddDescriptors
  <2>1. OwnStep
    BY <1>6 DEF AddDescriptors, OwnStep, Unmoved, Goto, IrcPCs, sending, out, in
  <2>2. /\ state' \in States /\ sock' \in {"open", "closed"}
        /\ fds' \in SUBSET {"in", "out", "dcc"} /\ idle' \in 0 .. MaxIdle
        /\ ping_sent' \in BOOLEAN /\ unanswered' \in {NoPing} \cup 0 .. Grace
    BY <1>6, Constants DEF AddDescriptors, TypeOK, States, clock
  <2> QED
    BY <2>1, <2>2, OwnSteps
<1>7. CASE SelectFails
  <2>1. OwnStep
    BY <1>7 DEF SelectFails, OwnStep, Unmoved, Goto, IrcPCs, sending, out, in
  <2>2. /\ state' \in States /\ sock' \in {"open", "closed"}
        /\ fds' \in SUBSET {"in", "out", "dcc"} /\ idle' \in 0 .. MaxIdle
        /\ ping_sent' \in BOOLEAN /\ unanswered' \in {NoPing} \cup 0 .. Grace
    BY <1>7, Constants DEF SelectFails, TypeOK, States, clock
  <2> QED
    BY <2>1, <2>2, OwnSteps
<1>8. ASSUME NEW d \in 0 .. MaxStall, NEW R \in SUBSET {"in", "out", "dcc"}, SelectReady(d, R)
      PROVE  IInv'
  <2>1. OwnStep
    BY <1>8 DEF SelectReady, OwnStep, Unmoved, Goto, IrcPCs, sending, out, in
  <2>2. /\ state' \in States /\ sock' \in {"open", "closed"}
        /\ fds' \in SUBSET {"in", "out", "dcc"} /\ idle' \in 0 .. MaxIdle
        /\ ping_sent' \in BOOLEAN /\ unanswered' \in {NoPing} \cup 0 .. Grace
    <3>1. ping_sent' \in BOOLEAN
      BY <1>8 DEF SelectReady, TypeOK
    <3>2. /\ state' \in States /\ sock' \in {"open", "closed"}
          /\ fds' \in SUBSET {"in", "out", "dcc"}
      BY <1>8 DEF SelectReady, TypeOK
    <3>3. idle' \in 0 .. MaxIdle
      BY <1>8, Ticks, Constants, SMTT(60) DEF SelectReady, TypeOK
    <3>4. unanswered' \in {NoPing} \cup 0 .. Grace
      BY <1>8, Ticks, Constants DEF SelectReady, TypeOK
    <3> QED
      BY <3>1, <3>2, <3>3, <3>4
  <2> QED
    BY <2>1, <2>2, OwnSteps
<1>9. ASSUME NEW d \in 1 .. MaxStall, IdleWaits(d)
      PROVE  IInv'
  <2>0. d \in 0 .. MaxStall
    BY Constants
  <2>1. OwnStep
    BY <1>9 DEF IdleWaits, OwnStep, Unmoved, Goto, IrcPCs, sending, out, in, IdleRound
  <2>2. /\ state' \in States /\ sock' \in {"open", "closed"}
        /\ fds' \in SUBSET {"in", "out", "dcc"} /\ idle' \in 0 .. MaxIdle
        /\ ping_sent' \in BOOLEAN /\ unanswered' \in {NoPing} \cup 0 .. Grace
    BY <1>9, Ticks, <2>0, Constants DEF IdleWaits, TypeOK, States, clock, IdleRound
  <2> QED
    BY <2>1, <2>2, OwnSteps
<1>10. ASSUME NEW d \in 1 .. MaxStall, IdlePings(d)
      PROVE  IInv'
  <2>0. d \in 0 .. MaxStall
    BY Constants
  <2>1. OwnStep
    BY <1>10 DEF IdlePings, OwnStep, Unmoved, Goto, IrcPCs, sending, out, in, IdleRound
  <2>2. /\ state' \in States /\ sock' \in {"open", "closed"}
        /\ fds' \in SUBSET {"in", "out", "dcc"} /\ idle' \in 0 .. MaxIdle
        /\ ping_sent' \in BOOLEAN /\ unanswered' \in {NoPing} \cup 0 .. Grace
    <3>1. ping_sent' \in BOOLEAN
      BY <1>10 DEF IdlePings, TypeOK
    <3>2. /\ state' \in States /\ sock' \in {"open", "closed"}
          /\ fds' \in SUBSET {"in", "out", "dcc"}
      BY <1>10 DEF IdlePings, TypeOK, IdleRound
    <3>3. idle' \in 0 .. MaxIdle
      BY <1>10, Ticks, <2>0, Constants DEF IdlePings, TypeOK, IdleRound
    <3>4. unanswered' \in {NoPing} \cup 0 .. Grace
      BY <1>10, Ticks, <2>0, Constants, SMTT(60) DEF IdlePings, TypeOK, IdleRound
    <3> QED
      BY <3>1, <3>2, <3>3, <3>4
  <2> QED
    BY <2>1, <2>2, OwnSteps
<1>11. ASSUME NEW d \in 1 .. MaxStall, IdleDrops(d)
      PROVE  IInv'
  <2>0. d \in 0 .. MaxStall
    BY Constants
  <2>1. OwnStep
    BY <1>11 DEF IdleDrops, OwnStep, Unmoved, Goto, IrcPCs, sending, out, in, IdleRound
  <2>2. /\ state' \in States /\ sock' \in {"open", "closed"}
        /\ fds' \in SUBSET {"in", "out", "dcc"} /\ idle' \in 0 .. MaxIdle
        /\ ping_sent' \in BOOLEAN /\ unanswered' \in {NoPing} \cup 0 .. Grace
    BY <1>11, Ticks, <2>0, Constants DEF IdleDrops, TypeOK, States, clock, IdleRound
  <2> QED
    BY <2>1, <2>2, OwnSteps
<1>12. CASE Drop
  <2>1. OwnStep
    BY <1>12 DEF Drop, OwnStep, Unmoved, Goto, IrcPCs, sending, out, in
  <2>2. /\ state' \in States /\ sock' \in {"open", "closed"}
        /\ fds' \in SUBSET {"in", "out", "dcc"} /\ idle' \in 0 .. MaxIdle
        /\ ping_sent' \in BOOLEAN /\ unanswered' \in {NoPing} \cup 0 .. Grace
    BY <1>12, Constants DEF Drop, TypeOK, States, clock
  <2> QED
    BY <2>1, <2>2, OwnSteps
<1>13. CASE Process
  <2>1. OwnStep
    BY <1>13 DEF Process, OwnStep, Unmoved, Goto, IrcPCs, sending, out, in
  <2>2. /\ state' \in States /\ sock' \in {"open", "closed"}
        /\ fds' \in SUBSET {"in", "out", "dcc"} /\ idle' \in 0 .. MaxIdle
        /\ ping_sent' \in BOOLEAN /\ unanswered' \in {NoPing} \cup 0 .. Grace
    BY <1>13, Constants DEF Process, TypeOK, States, clock
  <2> QED
    BY <2>1, <2>2, OwnSteps
<1>14. CASE CheckPeer
  <2>1. OwnStep
    BY <1>14 DEF CheckPeer, OwnStep, Unmoved, Goto, IrcPCs, sending, out, in
  <2>2. /\ state' \in States /\ sock' \in {"open", "closed"}
        /\ fds' \in SUBSET {"in", "out", "dcc"} /\ idle' \in 0 .. MaxIdle
        /\ ping_sent' \in BOOLEAN /\ unanswered' \in {NoPing} \cup 0 .. Grace
    BY <1>14, Constants DEF CheckPeer, TypeOK, States, clock
  <2> QED
    BY <2>1, <2>2, OwnSteps
<1>15. CASE Establish
  <2>1. OwnStep
    BY <1>15 DEF Establish, OwnStep, Unmoved, Goto, IrcPCs, sending, out, in
  <2>2. /\ state' \in States /\ sock' \in {"open", "closed"}
        /\ fds' \in SUBSET {"in", "out", "dcc"} /\ idle' \in 0 .. MaxIdle
        /\ ping_sent' \in BOOLEAN /\ unanswered' \in {NoPing} \cup 0 .. Grace
    BY <1>15, Constants DEF Establish, TypeOK, States, clock
  <2> QED
    BY <2>1, <2>2, OwnSteps
<1>16. CASE Register
  <2>1. OwnStep
    BY <1>16 DEF Register, OwnStep, Unmoved, Goto, IrcPCs, sending, out, in
  <2>2. /\ state' \in States /\ sock' \in {"open", "closed"}
        /\ fds' \in SUBSET {"in", "out", "dcc"} /\ idle' \in 0 .. MaxIdle
        /\ ping_sent' \in BOOLEAN /\ unanswered' \in {NoPing} \cup 0 .. Grace
    BY <1>16, Constants DEF Register, TypeOK, States, clock
  <2> QED
    BY <2>1, <2>2, OwnSteps
<1>17. CASE ReadFails
  <2>1. OwnStep
    BY <1>17 DEF ReadFails, OwnStep, Unmoved, Goto, IrcPCs, sending, out, in
  <2>2. /\ state' \in States /\ sock' \in {"open", "closed"}
        /\ fds' \in SUBSET {"in", "out", "dcc"} /\ idle' \in 0 .. MaxIdle
        /\ ping_sent' \in BOOLEAN /\ unanswered' \in {NoPing} \cup 0 .. Grace
    BY <1>17, Constants DEF ReadFails, TypeOK, States, clock
  <2> QED
    BY <2>1, <2>2, OwnSteps
<1>18. CASE LinesDone
  <2>1. OwnStep
    BY <1>18 DEF LinesDone, OwnStep, Unmoved, Goto, IrcPCs, sending, out, in
  <2>2. /\ state' \in States /\ sock' \in {"open", "closed"}
        /\ fds' \in SUBSET {"in", "out", "dcc"} /\ idle' \in 0 .. MaxIdle
        /\ ping_sent' \in BOOLEAN /\ unanswered' \in {NoPing} \cup 0 .. Grace
    BY <1>18, Constants DEF LinesDone, TypeOK, States, clock
  <2> QED
    BY <2>1, <2>2, OwnSteps
<1> QED
  BY <1>1, <1>2, <1>3, <1>4, <1>5, <1>6, <1>7, <1>8, <1>9, <1>10, <1>11, <1>12, <1>13, <1>14, <1>15, <1>16, <1>17, <1>18 DEF Quiet

-----------------------------------------------------------------------------
(***************************************************************************)
(* The steps that move cells towards the server.                           *)
(***************************************************************************)

\* A line is refused, or accepted if there is room for all of it.
LEMMA AcceptStep ==
  ASSUME IInv, NEW a \in Actors, Accept(a)
  PROVE  IInv'
<1> USE DEF IInv
<1>1. CASE LineLength >= BufSize - Len(outgoing)
  <2>1. /\ sendPc' = [sendPc EXCEPT ![a] = "none"] /\ sendPc[a] = "lock"
        /\ Unmoved
        /\ UNCHANGED <<state, sock, ircPc, fds, clock, closing, serverOpen>>
    BY <1>1 DEF Accept, Unmoved, out, in
  <2>2. TypeOK'
    BY <2>1, QuietTypes DEF TypeOK, clock
  <2>3. \A b \in Actors : b # a => sendPc'[b] = sendPc[b]
    BY <2>1 DEF TypeOK
  <2>4. sendPc'[a] = "none"
    BY <2>1 DEF TypeOK
  <2>5. LockInv'
    BY <2>1, <2>3, <2>4, Constants DEF LockInv, Unmoved, out
  <2>6. Holds("text")' = Holds("text") /\ Holds("crlf")' = Holds("crlf")
    BY <2>1, <2>3, <2>4 DEF Holds, Unmoved
  <2>7. OutInv' /\ InInv'
    BY <2>1, <2>6 DEF OutInv, InInv, Pending, Unmoved, out
  <2> QED
    BY <2>2, <2>5, <2>7
<1>2. CASE ~(LineLength >= BufSize - Len(outgoing))
  <2> DEFINE n == Len(queued) \div LineLength + 1
             cells == <<Text(n), Crlf(n)>>
  <2>1. /\ sendPc[a] = "lock" /\ mutex_session = Nobody
        /\ sendPc' = [sendPc EXCEPT ![a] = "text"]
        /\ line' = [line EXCEPT ![a] = n]
        /\ mutex_session' = a
        /\ queued' = queued \o cells
        /\ UNCHANGED <<state, sock, ircPc, fds, clock, closing, outgoing, wire, in>>
    BY <1>2 DEF Accept
  <2>2. Len(queued) \in Nat /\ n \in Nat
    BY LenProperties DEF TypeOK, LineLength
  <2>3. cells \in Seq(Cells)
    BY <2>2, CellTypes
  <2>4. queued' \in Seq(Cells)
    BY <2>1, <2>3, ConcatProperties DEF TypeOK
  <2>5. /\ line' \in [Actors -> Nat] /\ line'[a] = n
        /\ sendPc' \in [Actors -> {"none", "lock", "text", "crlf"}]
        /\ sendPc'[a] = "text"
        /\ \A b \in Actors : b # a => sendPc'[b] = sendPc[b]
    BY <2>1, <2>2 DEF TypeOK
  <2>6. TypeOK'
    BY <2>1, <2>4, <2>5 DEF TypeOK, clock, in
  <2>7. \A b \in Actors : sendPc[b] \notin {"text", "crlf"}
    BY <2>1, Constants DEF LockInv
  <2>8. LockInv'
    <3>1. ircPc # "send"
      BY <2>1, Constants DEF LockInv
    <3>2. Len(outgoing) + 2 < BufSize
      BY <1>2, Constants, LenProperties DEF LineLength, TypeOK
    <3> QED
      BY <2>1, <2>5, <2>7, <3>1, <3>2 DEF LockInv
  <2>9. OutInv'
    <3>1. Pending = <<>>
      BY <2>1, Constants DEF Pending, Holds
    <3>2. Pending' = cells
      BY <2>1, <2>5 DEF Pending, Holds
    <3>3. queued = wire \o outgoing
      <4>1. wire \o outgoing \in Seq(Cells)
        BY ConcatProperties DEF TypeOK
      <4> QED
        BY <3>1, <4>1, ConcatEmptySeq DEF OutInv
    <3> QED
      BY <2>1, <3>2, <3>3 DEF OutInv
  <2>10. InInv'
    BY <2>1 DEF InInv, in
  <2> QED
    BY <2>6, <2>8, <2>9, <2>10
<1> QED
  BY <1>1, <1>2

\* The first cell of the line goes behind those in the buffer.
LEMMA CopyTextStep ==
  ASSUME IInv, NEW a \in Actors, CopyText(a)
  PROVE  IInv'
<1> USE DEF IInv
<1> DEFINE t == <<Text(line[a])>>
           c == <<Crlf(line[a])>>
<1>1. /\ sendPc[a] = "text"
      /\ outgoing' = Append(outgoing, Text(line[a]))
      /\ sendPc' = [sendPc EXCEPT ![a] = "crlf"]
      /\ UNCHANGED <<state, sock, ircPc, fds, clock, line, mutex_session, closing,
                     wire, queued, in>>
  BY DEF CopyText
<1>2. /\ line[a] \in Nat /\ t \in Seq(Cells) /\ c \in Seq(Cells)
      /\ Text(line[a]) \in Cells /\ <<Text(line[a]), Crlf(line[a])>> = t \o c
  BY CellTypes DEF TypeOK
<1>3. /\ outgoing' = outgoing \o t
      /\ outgoing' \in Seq(Cells) /\ Len(outgoing') = Len(outgoing) + 1
  <2>1. outgoing \in Seq(Cells) /\ outgoing' = Append(outgoing, Text(line[a]))
    BY <1>1 DEF TypeOK
  <2>2. outgoing' = outgoing \o t
    BY <1>2, <2>1, AppendIsConcat
  <2>3. outgoing' \in Seq(Cells) /\ Len(outgoing') = Len(outgoing) + 1
    BY <1>2, <2>1, AppendProperties
  <2> QED
    BY <2>2, <2>3
<1>4. mutex_session = a /\ Len(outgoing) + 2 < BufSize
  BY <1>1 DEF LockInv
<1>5. /\ sendPc' \in [Actors -> {"none", "lock", "text", "crlf"}]
      /\ sendPc'[a] = "crlf"
      /\ \A b \in Actors : b # a => sendPc'[b] = sendPc[b]
  BY <1>1 DEF TypeOK
<1>6. Len(outgoing) \in Nat
  BY LenProperties DEF TypeOK
<1>7. TypeOK'
  <2>1. Len(outgoing') < BufSize
    BY <1>3, <1>4, <1>6, Constants
  <2> QED
    BY <1>1, <1>3, <1>5, <2>1 DEF TypeOK, clock, in
<1>8. LockInv'
  <2>1. \A b \in Actors : b # a => sendPc[b] \notin {"text", "crlf"}
    BY <1>4 DEF LockInv
  <2>2. ircPc # "send"
    BY <1>1, <1>4 DEF LockInv
  <2>3. Len(outgoing') + 1 < BufSize
    BY <1>3, <1>4, <1>6, Constants
  <2> QED
    BY <1>1, <1>4, <1>5, <2>1, <2>2, <2>3 DEF LockInv
<1>9. OutInv'
  <2>1. Pending = t \o c
    BY <1>1, <1>2, <1>4 DEF Pending, Holds
  <2>2. Pending' = c
    BY <1>1, <1>4, <1>5 DEF Pending, Holds
  <2>3. (wire \o outgoing) \o (t \o c) = (wire \o (outgoing \o t)) \o c
    <3>1. (wire \o outgoing) \in Seq(Cells) /\ wire \in Seq(Cells) /\ outgoing \in Seq(Cells)
      BY ConcatProperties DEF TypeOK
    <3>2. ((wire \o outgoing) \o t) \o c = (wire \o outgoing) \o (t \o c)
      BY <1>2, <3>1, ConcatAssociative
    <3>3. (wire \o outgoing) \o t = wire \o (outgoing \o t)
      BY <1>2, <3>1, ConcatAssociative
    <3> QED
      BY <3>2, <3>3
  <2> QED
    BY <1>1, <1>3, <2>1, <2>2, <2>3 DEF OutInv
<1>10. InInv'
  BY <1>1 DEF InInv, in
<1> QED
  BY <1>7, <1>8, <1>9, <1>10

\* The last cell follows it, and the mutex is left.
LEMMA CopyCrlfStep ==
  ASSUME IInv, NEW a \in Actors, CopyCrlf(a)
  PROVE  IInv'
<1> USE DEF IInv
<1> DEFINE c == <<Crlf(line[a])>>
<1>1. /\ sendPc[a] = "crlf"
      /\ outgoing' = Append(outgoing, Crlf(line[a]))
      /\ sendPc' = [sendPc EXCEPT ![a] = "none"]
      /\ line' = [line EXCEPT ![a] = 0]
      /\ mutex_session' = Nobody
      /\ UNCHANGED <<state, sock, ircPc, fds, clock, closing, wire, queued, in>>
  BY DEF CopyCrlf
<1>2. line[a] \in Nat /\ c \in Seq(Cells) /\ Crlf(line[a]) \in Cells
  BY CellTypes DEF TypeOK
<1>3. /\ outgoing' = outgoing \o c
      /\ outgoing' \in Seq(Cells) /\ Len(outgoing') = Len(outgoing) + 1
  <2>1. outgoing \in Seq(Cells) /\ outgoing' = Append(outgoing, Crlf(line[a]))
    BY <1>1 DEF TypeOK
  <2>2. outgoing' = outgoing \o c
    BY <1>2, <2>1, AppendIsConcat
  <2>3. outgoing' \in Seq(Cells) /\ Len(outgoing') = Len(outgoing) + 1
    BY <1>2, <2>1, AppendProperties
  <2> QED
    BY <2>2, <2>3
<1>4. mutex_session = a /\ Len(outgoing) + 1 < BufSize
  BY <1>1 DEF LockInv
<1>5. /\ sendPc' \in [Actors -> {"none", "lock", "text", "crlf"}]
      /\ line' \in [Actors -> Nat]
      /\ sendPc'[a] = "none"
      /\ \A b \in Actors : b # a => sendPc'[b] = sendPc[b]
  BY <1>1 DEF TypeOK
<1>6. Len(outgoing) \in Nat
  BY LenProperties DEF TypeOK
<1>7. TypeOK'
  <2>1. Len(outgoing') < BufSize
    BY <1>3, <1>4, <1>6, Constants
  <2> QED
    BY <1>1, <1>3, <1>5, <2>1 DEF TypeOK, clock, in
<1>8. LockInv'
  <2>1. \A b \in Actors : sendPc'[b] \notin {"text", "crlf"}
    BY <1>4, <1>5 DEF LockInv
  <2>2. ircPc # "send"
    BY <1>1, <1>4 DEF LockInv
  <2> QED
    BY <1>1, <2>1, <2>2 DEF LockInv
<1>9. OutInv'
  <2>1. Pending = c
    BY <1>1, <1>4 DEF Pending, Holds
  <2>2. Pending' = <<>>
    BY <1>1, Constants DEF Pending, Holds
  <2>3. (wire \o outgoing) \o c = wire \o (outgoing \o c)
    <3>1. wire \in Seq(Cells) /\ outgoing \in Seq(Cells)
      BY DEF TypeOK
    <3> QED
      BY <1>2, <3>1, ConcatAssociative, SMTT(60)
  <2>4. (wire \o (outgoing \o c)) \o <<>> = wire \o (outgoing \o c)
    <3>1. wire \o (outgoing \o c) \in Seq(Cells)
      BY <1>2, ConcatProperties DEF TypeOK
    <3> QED
      BY <3>1, ConcatEmptySeq
  <2> QED
    BY <1>1, <1>3, <2>1, <2>2, <2>3, <2>4 DEF OutInv
<1>10. InInv'
  BY <1>1 DEF InInv, in
<1> QED
  BY <1>7, <1>8, <1>9, <1>10

\* libirc_mutex_lock before socket_send.
LEMMA WriteStep ==
  ASSUME IInv, Write
  PROVE  IInv'
<1> USE DEF IInv
<1>1. /\ ircPc = "write" /\ sendPc[Irc] = "none" /\ ircPc' = "send"
      /\ mutex_session = Nobody /\ mutex_session' = Irc
      /\ UNCHANGED <<state, sock, fds, clock, sendPc, line, closing, out, in>>
  BY DEF Write, Goto
<1>2. TypeOK'
  BY <1>1, Constants DEF TypeOK, clock, out, in, IrcPCs
<1>3. \A b \in Actors : sendPc[b] \notin {"text", "crlf"}
  BY <1>1, Constants DEF LockInv
<1>4. LockInv'
  BY <1>1, <1>3 DEF LockInv, out
<1>5. Pending = <<>> /\ Pending' = <<>>
  BY <1>1, <1>3, Constants DEF Pending, Holds
<1>6. OutInv' /\ InInv'
  BY <1>1, <1>5 DEF OutInv, InInv, out, in
<1> QED
  BY <1>2, <1>4, <1>6

\* Leaving the mutex after socket_send: nobody is copying a line.
LEMMA Unlock ==
  ASSUME TypeOK, LockInv, ircPc = "send", mutex_session' = Nobody,
         UNCHANGED sendPc, ircPc' # "send"
  PROVE  LockInv' /\ Pending = <<>> /\ Pending' = <<>>
<1>1. \A b \in Actors : sendPc[b] \notin {"text", "crlf"}
  BY DEF LockInv
<1>2. LockInv'
  BY <1>1 DEF LockInv
<1>3. Pending = <<>> /\ Pending' = <<>>
  BY <1>1, Constants DEF Pending, Holds
<1> QED
  BY <1>2, <1>3

\* send takes nothing.
LEMMA SendFailsStep ==
  ASSUME IInv, SendFails
  PROVE  IInv'
<1> USE DEF IInv
<1>1. /\ ircPc = "send" /\ sendPc[Irc] = "none" /\ ircPc' = "returned"
      /\ state' = "disconnected" /\ mutex_session' = Nobody
      /\ UNCHANGED <<sock, fds, clock, sendPc, line, closing, out, in>>
  BY DEF SendFails, Goto
<1>2. TypeOK'
  BY <1>1 DEF TypeOK, clock, out, in, IrcPCs, States
<1>3. LockInv' /\ Pending = <<>> /\ Pending' = <<>>
  BY <1>1, Unlock
<1>4. OutInv' /\ InInv'
  BY <1>1, <1>3 DEF OutInv, InInv, out, in
<1> QED
  BY <1>2, <1>3, <1>4

\* send takes cells from the front.
LEMMA SendDoneStep ==
  ASSUME IInv, SendDone
  PROVE  IInv'
<1> USE DEF IInv
<1>1. /\ ircPc = "send" /\ sendPc[Irc] = "none" /\ ircPc' = "top"
      /\ mutex_session' = Nobody
      /\ UNCHANGED <<state, sock, fds, ping_sent, unanswered, sendPc, line, closing,
                     queued, in>>
  BY DEF SendDone, Goto
<1>2. PICK k \in 1 .. Len(outgoing) : /\ wire' = wire \o SubSeq(outgoing, 1, k)
                                     /\ outgoing' = From(outgoing, k + 1)
  BY DEF SendDone
<1> DEFINE sent == SubSeq(outgoing, 1, k)
           rest == From(outgoing, k + 1)
<1>3. /\ wire \in Seq(Cells) /\ outgoing \in Seq(Cells)
      /\ Len(outgoing) \in Nat /\ Len(outgoing) < BufSize
  BY LenProperties DEF TypeOK
<1>4. /\ sent \in Seq(Cells) /\ rest \in Seq(Cells) /\ sent \o rest = outgoing
      /\ Len(rest) = Len(outgoing) - k
  BY <1>3, Cut
<1> HIDE DEF sent, rest
<1>5. wire' \in Seq(Cells) /\ outgoing' \in Seq(Cells) /\ Len(outgoing') < BufSize
  <2>1. wire' = wire \o sent /\ outgoing' = rest
    BY <1>2 DEF sent, rest
  <2>2. wire \o sent \in Seq(Cells)
    BY <1>3, <1>4, ConcatProperties
  <2>3. Len(rest) < BufSize
    BY <1>3, <1>4, Constants
  <2> QED
    BY <1>4, <2>1, <2>2, <2>3
<1>6. idle' \in 0 .. MaxIdle
  BY Constants DEF SendDone, TypeOK
<1>7. TypeOK'
  BY <1>1, <1>5, <1>6 DEF TypeOK, in, IrcPCs
<1>8. LockInv' /\ Pending = <<>> /\ Pending' = <<>>
  BY <1>1, Unlock
<1>9. wire' \o outgoing' = wire \o outgoing
  <2>1. (wire \o sent) \o rest = wire \o (sent \o rest)
    BY <1>3, <1>4, Regroup, ZenonT(60)
  <2> QED
    BY <1>2, <1>4, <2>1 DEF sent, rest
<1>10. OutInv' /\ InInv'
  BY <1>1, <1>8, <1>9 DEF OutInv, InInv, in
<1> QED
  BY <1>7, <1>8, <1>10

-----------------------------------------------------------------------------
(***************************************************************************)
(* The steps that move cells towards the event handlers.                   *)
(***************************************************************************)

\* The steps of the input leave the invariant of the output alone.
LEMMA OutFrame ==
  ASSUME TypeOK, LockInv, OutInv, UNCHANGED <<line, mutex_session, out>>,
         UNCHANGED sendPc \/ (sendPc[Irc] = "none" /\ Called(Irc)),
         ircPc' = "send" => ircPc = "send" /\ UNCHANGED sendPc
  PROVE  LockInv' /\ OutInv'
<1> USE DEF out
<1>1. \A b \in Actors : \/ sendPc'[b] = sendPc[b]
                        \/ b = Irc /\ sendPc[b] = "none" /\ sendPc'[b] = "lock"
  BY DEF TypeOK, Called
<1>2. LockInv'
  <2>1. (\A b \in Actors : sendPc[b] \in {"text", "crlf"} => mutex_session = b)'
    BY <1>1 DEF LockInv, Actors
  <2>2. (ircPc = "send" => mutex_session = Irc /\ sendPc[Irc] = "none")'
    BY DEF LockInv
  <2>3. (\A b \in Actors : /\ sendPc[b] = "text" => Len(outgoing) + 2 < BufSize
                           /\ sendPc[b] = "crlf" => Len(outgoing) + 1 < BufSize)'
    BY <1>1 DEF LockInv, Actors
  <2> QED
    BY <2>1, <2>2, <2>3 DEF LockInv
<1>3. Holds("text")' = Holds("text") /\ Holds("crlf")' = Holds("crlf")
  BY <1>1 DEF Holds
<1>4. OutInv'
  BY <1>3 DEF OutInv, Pending
<1> QED
  BY <1>2, <1>4

\* A cell more is on its way to the client.
LEMMA ServerSendsStep ==
  ASSUME IInv, NEW last \in BOOLEAN, ServerSends(last)
  PROVE  IInv'
<1> USE DEF IInv
<1> DEFINE c == [line |-> Len(served) + 1, last |-> last]
<1>1. /\ served' = Append(served, c) /\ arriving' = Append(arriving, c)
      /\ UNCHANGED <<state, sock, ircPc, fds, clock, sending, closing, out, incoming,
                     processed, serverOpen>>
  BY DEF ServerSends
<1>2. /\ served \in Seq(Cells) /\ arriving \in Seq(Cells)
      /\ processed \in Seq(Cells) /\ incoming \in Seq(Cells)
      /\ processed \o incoming \in Seq(Cells)
  BY ConcatProperties DEF TypeOK
<1>3. c \in Cells /\ <<c>> \in Seq(Cells)
  <2>1. Len(served) \in Nat
    BY <1>2, LenProperties
  <2> QED
    BY <2>1 DEF Cells
<1> HIDE DEF c
<1>4. /\ served' = served \o <<c>> /\ arriving' = arriving \o <<c>>
      /\ served' \in Seq(Cells) /\ arriving' \in Seq(Cells)
  BY <1>1, <1>2, <1>3, AppendIsConcat, AppendProperties
<1>5. TypeOK'
  BY <1>1, <1>4 DEF TypeOK, clock, sending, out
<1>6. LockInv' /\ OutInv'
  BY <1>1, OutFrame DEF sending
<1>7. InInv'
  <2>1. ((processed \o incoming) \o arriving) \o <<c>>
          = (processed \o incoming) \o (arriving \o <<c>>)
    BY <1>2, <1>3, Regroup
  <2> QED
    BY <1>1, <1>4, <2>1 DEF InInv
<1> QED
  BY <1>5, <1>6, <1>7

\* recv moves cells behind those in the buffer.
LEMMA ReadStep ==
  ASSUME IInv, Read
  PROVE  IInv'
<1> USE DEF IInv
<1>1. /\ ircPc' = "lines"
      /\ UNCHANGED <<state, sock, fds, clock, sending, closing, out, served, processed,
                     serverOpen>>
  BY DEF Read, Goto
<1>2. PICK k \in 1 .. Lesser(Len(arriving), BufSize - 1 - Len(incoming)) :
        /\ incoming' = incoming \o SubSeq(arriving, 1, k)
        /\ arriving' = From(arriving, k + 1)
  BY DEF Read
<1> DEFINE taken == SubSeq(arriving, 1, k)
           rest  == From(arriving, k + 1)
<1>3. /\ arriving \in Seq(Cells) /\ incoming \in Seq(Cells) /\ processed \in Seq(Cells)
      /\ Len(arriving) \in Nat /\ Len(incoming) \in Nat
  BY LenProperties DEF TypeOK
<1>4. k \in 1 .. Len(arriving) /\ Len(incoming) + k < BufSize
  BY <1>2, <1>3, Constants DEF Lesser
<1>5. /\ taken \in Seq(Cells) /\ rest \in Seq(Cells) /\ taken \o rest = arriving
      /\ Len(taken) = k
  BY <1>3, <1>4, Cut
<1>6. incoming' = incoming \o taken /\ arriving' = rest
  BY <1>2
<1> HIDE DEF taken, rest
<1>7. /\ incoming \o taken \in Seq(Cells)
      /\ Len(incoming \o taken) = Len(incoming) + k
  BY <1>3, <1>5, ConcatProperties
<1>8. TypeOK'
  <2>1. Len(incoming') < BufSize
    BY <1>4, <1>6, <1>7
  <2> QED
    BY <1>1, <1>5, <1>6, <1>7, <2>1 DEF TypeOK, clock, sending, out, IrcPCs
<1>9. LockInv' /\ OutInv'
  BY <1>1, OutFrame DEF sending
<1>10. InInv'
  <2>1. processed \o incoming \in Seq(Cells)
    BY <1>3, ConcatProperties
  <2>2. (processed \o incoming) \o (taken \o rest)
          = ((processed \o incoming) \o taken) \o rest
    BY <1>5, <2>1, Regroup
  <2>3. (processed \o incoming) \o taken = processed \o (incoming \o taken)
    BY <1>3, <1>5, Regroup, SMTT(60)
  <2> QED
    BY <1>1, <1>5, <1>6, <2>2, <2>3 DEF InInv
<1> QED
  BY <1>8, <1>9, <1>10

\* A whole line leaves the buffer at the front.
LEMMA ProcessLineStep ==
  ASSUME IInv, ProcessLine
  PROVE  IInv'
<1> USE DEF IInv
<1>1. /\ ircPc = "lines" /\ ircPc' = "lines" /\ sendPc[Irc] = "none"
      /\ UNCHANGED sendPc \/ Called(Irc)
      /\ UNCHANGED <<state, sock, fds, clock, line, mutex_session, closing, out,
                     arriving, served, serverOpen>>
  BY DEF ProcessLine, Goto
<1>2. PICK i \in 1 .. Len(incoming) : /\ processed' = processed \o SubSeq(incoming, 1, i)
                                     /\ incoming' = From(incoming, i + 1)
  BY DEF ProcessLine
<1> DEFINE lines == SubSeq(incoming, 1, i)
           rest  == From(incoming, i + 1)
<1>3. /\ processed \in Seq(Cells) /\ incoming \in Seq(Cells)
      /\ Len(incoming) \in Nat /\ Len(incoming) < BufSize
  BY LenProperties DEF TypeOK
<1>4. /\ lines \in Seq(Cells) /\ rest \in Seq(Cells) /\ lines \o rest = incoming
      /\ Len(rest) = Len(incoming) - i
  BY <1>3, Cut
<1>5. processed' = processed \o lines /\ incoming' = rest
  BY <1>2
<1> HIDE DEF lines, rest
<1>6. processed \o lines \in Seq(Cells)
  BY <1>3, <1>4, ConcatProperties
<1>7. TypeOK'
  <2>1. Len(incoming') < BufSize
    BY <1>3, <1>4, <1>5, Constants
  <2>2. sendPc' \in [Actors -> {"none", "lock", "text", "crlf"}]
    BY <1>1, CallKeepsTypes, Constants DEF TypeOK
  <2> QED
    BY <1>1, <1>4, <1>5, <1>6, <2>1, <2>2 DEF TypeOK, clock, out, IrcPCs
<1>8. LockInv' /\ OutInv'
  BY <1>1, OutFrame
<1>9. InInv'
  <2>1. (processed \o lines) \o rest = processed \o (lines \o rest)
    BY <1>3, <1>4, Regroup, ZenonT(60)
  <2> QED
    BY <1>1, <1>4, <1>5, <2>1 DEF InInv
<1> QED
  BY <1>7, <1>8, <1>9

-----------------------------------------------------------------------------
(***************************************************************************)
(* The theorems.                                                           *)
(***************************************************************************)
Moving == \/ \E a \in Actors : Accept(a) \/ CopyText(a) \/ CopyCrlf(a)
          \/ Write \/ SendDone \/ SendFails
          \/ \E last \in BOOLEAN : ServerSends(last)
          \/ Read \/ ProcessLine

\* A step moves cells or it does not.
LEMMA StepKinds == Next => Quiet \/ Moving
BY DEF Next, Run, Server, SendRaw, User, Quiet, Moving

\* Every step keeps the invariant.
LEMMA NextStep ==
  ASSUME IInv, [Next]_vars
  PROVE  IInv'
<1>1. CASE Quiet
  BY <1>1, QuietSteps
<1>2. CASE Moving
  BY <1>2, AcceptStep, CopyTextStep, CopyCrlfStep, WriteStep, SendDoneStep,
     SendFailsStep, ServerSendsStep, ReadStep, ProcessLineStep DEF Moving
<1>3. CASE UNCHANGED vars
  <2>1. Unmoved /\ UNCHANGED <<state, sock, ircPc, fds, clock, sendPc, closing, serverOpen>>
    BY <1>3 DEF vars, sending, out, in, Unmoved
  <2>2. TypeOK'
    BY <2>1, QuietTypes DEF IInv, TypeOK, clock
  <2> QED
    BY <2>1, <2>2, CallFrame, Constants DEF IInv
<1> QED
  BY <1>1, <1>2, <1>3, StepKinds

\* So it holds always.
LEMMA Inductive == Spec => []IInv
<1>1. Init => IInv
  BY Initially
<1>2. IInv /\ [Next]_vars => IInv'
  BY NextStep
<1> QED
  BY <1>1, <1>2, PTL DEF Spec

\* Types; in particular neither buffer is ever written past its end.
THEOREM TypeCorrect == Spec => []TypeOK
<1>1. IInv => TypeOK
  BY DEF IInv
<1> QED
  BY <1>1, Inductive, PTL

\* A step that does not accept or send a line moves nothing of the output.
LEMMA OutStep ==
  ASSUME IInv, [Next]_vars
  PROVE  [OutStream!Put \/ OutStream!Take]_<<queued, wire>>
<1> USE DEF IInv
<1>1. IInv'
  BY NextStep
<1>2. CASE Quiet
  BY <1>2 DEF Quiet, UserSends, CloseSocket, ResetState, ServerCloses, Connect, StartRun,
     NextRound, AddDescriptors, SelectFails, SelectReady, IdleWaits, IdlePings, IdleDrops,
     Drop, Process, CheckPeer, Establish, Register, ReadFails, LinesDone, out
<1>3. ASSUME NEW a \in Actors, Accept(a)
      PROVE  OutStream!Put \/ UNCHANGED <<queued, wire>>
  <2>1. CASE LineLength >= BufSize - Len(outgoing)
    BY <1>3, <2>1 DEF Accept
  <2>2. CASE ~(LineLength >= BufSize - Len(outgoing))
    <3> DEFINE n == Len(queued) \div LineLength + 1
               cells == <<Text(n), Crlf(n)>>
    <3>1. queued \in Seq(Cells) /\ Len(queued) \in Nat
      BY LenProperties DEF TypeOK
    <3>2. cells \in Seq(Cells)
      BY <3>1, CellTypes DEF LineLength
    <3>3. queued' = queued \o cells /\ UNCHANGED wire
      BY <1>3, <2>2 DEF Accept
    <3> HIDE DEF cells
    <3>4. OutStream!IsPrefix(queued, queued')
      BY <3>1, <3>2, <3>3, Continues
    <3> QED
      BY <3>3, <3>4 DEF OutStream!Put
  <2> QED
    BY <2>1, <2>2
<1>4. ASSUME SendDone
      PROVE  OutStream!Take
  <2>1. PICK k \in 1 .. Len(outgoing) : wire' = wire \o SubSeq(outgoing, 1, k)
    BY <1>4 DEF SendDone
  <2>2. /\ wire \in Seq(Cells) /\ outgoing \in Seq(Cells)
        /\ wire' \in Seq(Cells) /\ outgoing' \in Seq(Cells) /\ Pending' \in Seq(Cells)
    <3>1. Pending' \in Seq(Cells)
      <4>1. /\ ircPc = "send" /\ mutex_session' = Nobody /\ ircPc' = "top"
            /\ UNCHANGED sendPc
        BY <1>4 DEF SendDone, Goto
      <4>2. Pending' = <<>>
        BY <4>1, Unlock
      <4> QED
        BY <4>2, EmptySeq
    <3> QED
      BY <1>1, <3>1 DEF TypeOK, Cells
  <2>3. OutStream!IsPrefix(wire, wire')
    BY <2>1, <2>2, Cut, Continues
  <2>4. UNCHANGED queued
    BY <1>4 DEF SendDone
  <2>5. queued = wire' \o (outgoing' \o Pending')
    <3>1. queued' = (wire' \o outgoing') \o Pending'
      BY <1>1 DEF OutInv
    <3> QED
      BY <2>2, <2>4, <3>1, Regroup
  <2>6. OutStream!IsPrefix(wire', queued)
    <3>1. outgoing' \o Pending' \in Seq(Cells)
      BY <2>2, ConcatProperties
    <3> QED
      BY <2>2, <2>5, <3>1, Continues
  <2> QED
    BY <2>3, <2>4, <2>6 DEF OutStream!Take
<1>5. CASE \/ \E a \in Actors : CopyText(a) \/ CopyCrlf(a)
           \/ Write \/ SendFails \/ Read \/ ProcessLine
           \/ \E last \in BOOLEAN : ServerSends(last)
  BY <1>5 DEF CopyText, CopyCrlf, Write, SendFails, ServerSends, Read, ProcessLine, out
<1>6. CASE UNCHANGED vars
  BY <1>6 DEF vars, out
<1> QED
  BY <1>2, <1>3, <1>4, <1>5, <1>6, StepKinds DEF Moving

\* A step in which the server sends nothing and no line is processed moves
\* nothing of the input.
LEMMA InStep ==
  ASSUME IInv, [Next]_vars
  PROVE  [InStream!Put \/ InStream!Take]_<<served, processed>>
<1> USE DEF IInv
<1>1. IInv'
  BY NextStep
<1>2. CASE Quiet
  BY <1>2 DEF Quiet, UserSends, CloseSocket, ResetState, ServerCloses, Connect, StartRun,
     NextRound, AddDescriptors, SelectFails, SelectReady, IdleWaits, IdlePings, IdleDrops,
     Drop, Process, CheckPeer, Establish, Register, ReadFails, LinesDone, in
<1>3. ASSUME NEW last \in BOOLEAN, ServerSends(last)
      PROVE  InStream!Put
  <2> DEFINE c == [line |-> Len(served) + 1, last |-> last]
  <2>1. served' = Append(served, c) /\ UNCHANGED processed
    BY <1>3 DEF ServerSends
  <2>2. served \in Seq(Cells) /\ Len(served) \in Nat
    BY LenProperties DEF TypeOK
  <2>3. c \in Cells /\ <<c>> \in Seq(Cells)
    BY <2>2 DEF Cells
  <2> HIDE DEF c
  <2>4. served' = served \o <<c>>
    BY <2>1, <2>2, <2>3, AppendIsConcat
  <2>5. InStream!IsPrefix(served, served')
    BY <2>2, <2>3, <2>4, Continues
  <2> QED
    BY <2>1, <2>5 DEF InStream!Put
<1>4. ASSUME ProcessLine
      PROVE  InStream!Take
  <2>1. PICK i \in 1 .. Len(incoming) : processed' = processed \o SubSeq(incoming, 1, i)
    BY <1>4 DEF ProcessLine
  <2>2. /\ processed \in Seq(Cells) /\ incoming \in Seq(Cells)
        /\ processed' \in Seq(Cells) /\ incoming' \in Seq(Cells)
        /\ arriving' \in Seq(Cells)
    BY <1>1 DEF TypeOK, Cells
  <2>3. InStream!IsPrefix(processed, processed')
    BY <2>1, <2>2, Cut, Continues
  <2>4. UNCHANGED served
    BY <1>4 DEF ProcessLine
  <2>5. served = processed' \o (incoming' \o arriving')
    <3>1. served' = (processed' \o incoming') \o arriving'
      BY <1>1 DEF InInv
    <3> QED
      BY <2>2, <2>4, <3>1, Regroup
  <2>6. InStream!IsPrefix(processed', served)
    <3>1. incoming' \o arriving' \in Seq(Cells)
      BY <2>2, ConcatProperties
    <3> QED
      BY <2>2, <2>5, <3>1, Continues
  <2> QED
    BY <2>3, <2>4, <2>6 DEF InStream!Take
<1>5. CASE \/ \E a \in Actors : Accept(a) \/ CopyText(a) \/ CopyCrlf(a)
           \/ Write \/ SendDone \/ SendFails \/ Read
  BY <1>5 DEF Accept, CopyText, CopyCrlf, Write, SendDone, SendFails, Read, in
<1>6. CASE UNCHANGED vars
  BY <1>6 DEF vars, in
<1> QED
  BY <1>2, <1>3, <1>4, <1>5, <1>6, StepKinds DEF Moving

\* The session implements the stream towards the server: lines accepted from
\* any number of threads leave whole, in the order of acceptance, once.
THEOREM LinesOut == Spec => LinesLeaveInOrder
<1>1. Init => OutStream!Init
  BY DEF Init, OutStream!Init
<1>2. IInv /\ [Next]_vars => [OutStream!Put \/ OutStream!Take]_<<queued, wire>>
  BY OutStep
<1> QED
  BY <1>1, <1>2, Inductive, PTL DEF Spec, LinesLeaveInOrder, OutStream!Spec

\* And the stream from the server: the event handlers get what it sent, in
\* order, once, however recv cuts it.
THEOREM LinesIn == Spec => LinesArriveInOrder
<1>1. Init => InStream!Init
  BY DEF Init, InStream!Init
<1>2. IInv /\ [Next]_vars => [InStream!Put \/ InStream!Take]_<<served, processed>>
  BY InStep
<1> QED
  BY <1>1, <1>2, Inductive, PTL DEF Spec, LinesArriveInOrder, InStream!Spec
-----------------------------------------------------------------------------
(***************************************************************************)
(* The keepalive of irc_run, for every timeout, grace period and number of *)
(* lines in flight.  Two invariants relate last_ping and ping_sent to the  *)
(* program point: the first bounds the time without a PING, which needs    *)
(* rounds that are not late; the second says that ping_sent and last_ping  *)
(* remember an unanswered PING, which needs a session without DCC traffic. *)
(***************************************************************************)
\* Without a PING the time since last_ping stays within max_timeout, but for a
\* round that goes on to write: writing sets last_ping back to max_timeout.
\* While connecting there is one round only, and it starts at 0.
Free == ircPc \in {"top", "poll", "select", "peer", "establish", "pass", "nick",
                   "user", "read", "lines"}

Registered == ircPc \in {"pass", "nick", "user", "read", "lines", "write", "send"}

WaitInv ==
  /\ sock = "open" /\ ~ping_sent /\ Free => idle <= MaxTimeout
  /\ sock = "open" /\ ~ping_sent /\ ircPc = "process" =>
       idle <= MaxTimeout \/ ("out" \in fds /\ "in" \notin fds)
  /\ ircPc \in {"top", "poll", "select"} /\ state = "connecting" => idle = 0
  /\ ircPc = "process" /\ state = "connecting" => idle <= MaxStall
  /\ Registered => state # "connecting"
  /\ DropsOnlyAfterPing

\* An unanswered PING is remembered, and so is the time since it was sent.
PingInv ==
  unanswered # NoPing => /\ ircPc \notin {"connect", "run"}
                         /\ ping_sent
                         /\ idle >= MaxTimeout + unanswered

-----------------------------------------------------------------------------
\* What the actions of other threads leave alone.
LEMMA OthersWait ==
  ASSUME WaitInv, UNCHANGED <<ircPc, fds, clock>>,
         state' = "init" \/ UNCHANGED state,
         sock' = "closed" \/ UNCHANGED sock
  PROVE  WaitInv'
BY DEF WaitInv, Free, Registered, clock, DropsOnlyAfterPing

\* What neither moves the thread nor the clock forgets no PING.
LEMMA OthersPing ==
  ASSUME PingInv, UNCHANGED <<ircPc, clock>>
  PROVE  PingInv'
BY DEF PingInv, clock, NoPing

Others == \/ Server
          \/ \E a \in Actors : SendRaw(a)
          \/ \E u \in Users : User(u) \/ ResetState(u)

\* The users and the server leave the thread where it is.
LEMMA OthersStep ==
  ASSUME Others
  PROVE  /\ UNCHANGED <<ircPc, fds, clock>>
         /\ state' = "init" \/ UNCHANGED state
         /\ sock' = "closed" \/ UNCHANGED sock
<1>1. CASE Server
  BY <1>1 DEF Server, ServerSends, ServerCloses
<1>2. ASSUME NEW a \in Actors, SendRaw(a)
      PROVE  UNCHANGED <<ircPc, fds, clock, state, sock>>
  BY <1>2 DEF SendRaw, Accept, CopyText, CopyCrlf
<1>3. ASSUME NEW u \in Users, User(u) \/ ResetState(u)
      PROVE  /\ UNCHANGED <<ircPc, fds, clock>>
             /\ state' = "init" \/ UNCHANGED state
             /\ sock' = "closed" \/ UNCHANGED sock
  BY <1>3 DEF User, UserSends, CloseSocket, ResetState
<1> QED
  BY <1>1, <1>2, <1>3 DEF Others

\* A step is one of the session's thread, or of somebody else.
LEMMA RunOrOthers == [Next]_vars => Run \/ Others \/ UNCHANGED vars
BY DEF Next, Others

-----------------------------------------------------------------------------
(***************************************************************************)
(* No disconnection without a PING.                                        *)
(***************************************************************************)
LEMMA WaitStep ==
  ASSUME TypeOK, WaitInv, [Next]_vars,
         MaxStall < Grace, MaxStall <= MaxTimeout
  PROVE  WaitInv'
<1>1. /\ idle \in 0 .. MaxIdle /\ MaxTimeout \in Nat /\ Grace \in Nat
      /\ MaxStall \in Nat /\ MaxIdle = MaxTimeout + Grace
  BY Constants DEF TypeOK
<1> USE DEF DropsOnlyAfterPing, Free, Registered
<1>2. CASE Others
  BY <1>2, OthersStep, OthersWait
<1>3. CASE UNCHANGED vars
  BY <1>3, OthersWait DEF vars
<1>4. CASE Connect
  BY <1>4 DEF WaitInv, Connect, Goto, clock
<1>5. CASE StartRun
  BY <1>1, <1>5 DEF WaitInv, StartRun, Goto
<1>6. CASE NextRound \/ AddDescriptors
  BY <1>6 DEF WaitInv, NextRound, AddDescriptors, Goto, clock
<1>7. CASE SelectFails \/ ReadFails \/ SendFails
  BY <1>7 DEF WaitInv, SelectFails, ReadFails, SendFails, Goto, clock
<1>8. ASSUME NEW d \in 0 .. MaxStall, NEW R \in SUBSET {"in", "out", "dcc"},
             SelectReady(d, R)
      PROVE  WaitInv'
  <2>1. /\ ircPc = "select" /\ ircPc' = "process" /\ sock = "open" /\ fds' = R /\ R # {}
        /\ UNCHANGED <<state, sock>>
    BY <1>8 DEF SelectReady, Goto
  <2>2. idle' = IF R \cap {"in", "dcc"} # {} THEN 0 ELSE Lesser(idle + d, MaxIdle)
    BY <1>8 DEF SelectReady
  <2>3. idle' <= MaxTimeout \/ ("out" \in fds' /\ "in" \notin fds')
    <3>1. CASE R \cap {"in", "dcc"} # {}
      BY <1>1, <2>2, <3>1
    <3>2. CASE R \cap {"in", "dcc"} = {}
      BY <2>1, <3>2
    <3> QED
      BY <3>1, <3>2
  <2>4. state' = "connecting" => idle' <= MaxStall
    BY <1>1, <2>1, <2>2 DEF WaitInv, Lesser
  <2> QED
    BY <2>1, <2>3, <2>4 DEF WaitInv
<1>9. ASSUME NEW d \in 1 .. MaxStall, IdleWaits(d) \/ IdlePings(d) \/ IdleDrops(d)
      PROVE  WaitInv'
  <2>1. /\ ircPc = "select" /\ sock = "open" /\ idle' = Lesser(idle + d, MaxIdle)
        /\ UNCHANGED state
    BY <1>9 DEF IdleWaits, IdlePings, IdleDrops, IdleRound
  <2>2. state' = "connecting" => idle' <= MaxStall
    BY <1>1, <2>1 DEF WaitInv, Lesser
  <2>3. CASE IdleWaits(d)
    <3>1. ircPc' = "process" /\ UNCHANGED <<sock, ping_sent>>
      BY <2>3 DEF IdleWaits, Goto
    <3>2. idle' < MaxTimeout \/ ping_sent
      BY <2>3 DEF IdleWaits
    <3> QED
      BY <1>1, <2>1, <2>2, <3>1, <3>2 DEF WaitInv, Lesser
  <2>4. CASE IdlePings(d)
    <3>1. ircPc' = "process" /\ ping_sent'
      BY <2>4 DEF IdlePings, Goto
    <3> QED
      BY <2>2, <3>1 DEF WaitInv
  <2>5. CASE IdleDrops(d)
    <3>1. /\ ircPc' = "drop" /\ idle' = MaxIdle /\ UNCHANGED ping_sent
          /\ sock' = "closed"
      BY <2>5 DEF IdleDrops, Goto
    <3>2. ping_sent
      <4> SUFFICES ASSUME ~ping_sent PROVE FALSE
        OBVIOUS
      <4>1. idle <= MaxTimeout
        BY <2>1 DEF WaitInv
      <4> QED
        BY <1>1, <2>1, <3>1, <4>1 DEF Lesser
    <3> QED
      BY <3>1, <3>2 DEF WaitInv
  <2> QED
    BY <1>9, <2>3, <2>4, <2>5
<1>10. CASE Drop
  BY <1>10 DEF WaitInv, Drop, Goto, clock
<1>11. CASE Process
  <2>1. ircPc = "process" /\ UNCHANGED <<state, sock, fds, clock>>
    BY <1>11 DEF Process, Goto
  <2>2. CASE state \in {"init", "disconnected"}
    <3>1. ircPc' = "returned"
      BY <1>11, <2>2 DEF Process, Goto, IsConnected
    <3> QED
      BY <2>1, <3>1 DEF WaitInv, clock
  <2>3. CASE state = "connecting"
    <3>1. ircPc' \in {"peer", "returned"}
      BY <1>11, <2>3 DEF Process, Goto, IsConnected
    <3> QED
      BY <1>1, <2>1, <2>3, <3>1 DEF WaitInv, clock
  <2>4. CASE state = "connected"
    <3>1. ircPc' = IF IsSet("in") THEN "read" ELSE IF IsSet("out") THEN "write" ELSE "top"
      BY <1>11, <2>4 DEF Process, Goto, IsConnected
    <3> QED
      BY <1>1, <2>1, <2>4, <3>1 DEF WaitInv, IsSet, clock
  <2> QED
    BY <2>2, <2>3, <2>4 DEF TypeOK, States
<1>12. CASE CheckPeer \/ Establish \/ Register
  <2>1. UNCHANGED <<sock, fds, clock>>
    BY <1>12 DEF CheckPeer, Establish, Register
  <2>2. /\ ircPc \in {"peer", "establish", "pass", "nick", "user"}
        /\ ircPc' \in {"establish", "pass", "nick", "user", "top", "returned"}
    BY <1>12 DEF CheckPeer, Establish, Register, Goto
  <2>3. ircPc' \notin {"establish", "returned"} => state' # "connecting"
    BY <1>12 DEF CheckPeer, Establish, Register, Goto, WaitInv
  <2> QED
    BY <2>1, <2>2, <2>3 DEF WaitInv, clock
<1>13. CASE Read \/ ProcessLine \/ LinesDone
  <2>1. /\ ircPc \in {"read", "lines"} /\ ircPc' \in {"lines", "write", "top"}
        /\ UNCHANGED <<state, sock, fds, clock>>
    <3>1. CASE Read
      BY <3>1 DEF Read, Goto
    <3>2. CASE ProcessLine
      BY <3>2 DEF ProcessLine, Goto
    <3>3. CASE LinesDone
      BY <3>3 DEF LinesDone, Goto
    <3> QED
      BY <1>13, <3>1, <3>2, <3>3
  <2> QED
    BY <2>1 DEF WaitInv, clock
<1>14. CASE Write
  BY <1>14 DEF WaitInv, Write, Goto, clock
<1>15. CASE SendDone
  <2>1. /\ ircPc = "send" /\ ircPc' = "top" /\ UNCHANGED <<state, sock, ping_sent>>
        /\ idle' = IF ~ping_sent /\ idle >= (MaxTimeout * 3) \div 4 THEN MaxTimeout
                   ELSE idle
    BY <1>15 DEF SendDone, Goto
  <2>2. (MaxTimeout * 3) \div 4 <= MaxTimeout
    BY <1>1
  <2>3. ~ping_sent => idle' <= MaxTimeout
    BY <1>1, <2>1, <2>2
  <2> QED
    BY <2>1, <2>3 DEF WaitInv
<1> QED
  BY <1>2, <1>3, <1>4, <1>5, <1>6, <1>7, <1>8, <1>9, <1>10, <1>11, <1>12, <1>13,
     <1>14, <1>15, RunOrOthers DEF Run

\* No time has passed at first.
LEMMA WaitInit == Init => WaitInv
BY DEF Init, WaitInv, Free, Registered, DropsOnlyAfterPing

\* A session is dropped only after a PING, provided that no select round is as
\* late as the grace period: then a round sees the PING due before the drop.
THEOREM DropsAfterPing ==
  ASSUME MaxStall < Grace, MaxStall <= MaxTimeout
  PROVE  Spec => []DropsOnlyAfterPing
<1>1. WaitInv /\ TypeOK /\ [Next]_vars => WaitInv'
  BY WaitStep
<1>2. WaitInv => DropsOnlyAfterPing
  BY DEF WaitInv
<1> QED
  BY <1>1, <1>2, WaitInit, TypeCorrect, PTL DEF Spec

-----------------------------------------------------------------------------
(***************************************************************************)
(* A PING that stays unanswered ends the session.                          *)
(***************************************************************************)
LEMMA WaitedFacts ==
  ASSUME NEW d \in 0 .. MaxStall, TypeOK
  PROVE  /\ unanswered = NoPing => Waited(d) = NoPing
         /\ unanswered # NoPing => Waited(d) = Lesser(unanswered + d, Grace)
BY DEF Waited

\* The time since last_ping grows at least as much as the history.
LEMMA StillRemembered ==
  ASSUME TypeOK, NEW d \in 0 .. MaxStall, unanswered # NoPing,
         idle >= MaxTimeout + unanswered
  PROVE  Lesser(idle + d, MaxIdle) >= MaxTimeout + Lesser(unanswered + d, Grace)
<1>1. /\ idle \in Nat /\ unanswered \in Nat /\ MaxTimeout \in Nat /\ Grace \in Nat
      /\ d \in Nat
  BY Constants DEF TypeOK, NoPing
<1>2. MaxIdle = MaxTimeout + Grace
  BY DEF MaxIdle
<1> QED
  BY <1>1, <1>2 DEF Lesser

\* Without DCC an unanswered PING is remembered until the server answers.
LEMMA PingStep ==
  ASSUME TypeOK, PingInv, [Next]_vars, Dcc = FALSE
  PROVE  PingInv'
<1>1. CASE Others
  BY <1>1, OthersStep, OthersPing
<1>2. CASE UNCHANGED vars
  BY <1>2, OthersPing DEF vars
<1>3. CASE Connect
  BY <1>3 DEF PingInv, Connect, Goto, clock, NoPing
<1>4. CASE StartRun
  BY <1>4 DEF PingInv, StartRun, Goto, NoPing
<1>5. CASE NextRound \/ AddDescriptors
  BY <1>5 DEF PingInv, NextRound, AddDescriptors, Goto, clock, NoPing
<1>6. CASE SelectFails \/ ReadFails \/ SendFails
  BY <1>6 DEF PingInv, SelectFails, ReadFails, SendFails, Goto, clock, NoPing
<1>7. ASSUME NEW d \in 0 .. MaxStall, NEW R \in SUBSET {"in", "out", "dcc"},
             SelectReady(d, R)
      PROVE  PingInv'
  <2>1. /\ ircPc' = "process" /\ "dcc" \notin R
        /\ idle' = IF R \cap {"in", "dcc"} # {} THEN 0 ELSE Lesser(idle + d, MaxIdle)
        /\ ping_sent' = (ping_sent /\ R \cap {"in", "dcc"} = {})
        /\ unanswered' = IF "in" \in R THEN NoPing ELSE Waited(d)
    BY <1>7 DEF SelectReady, Goto
  <2>2. CASE "in" \in R \/ unanswered = NoPing
    BY <2>1, <2>2, WaitedFacts DEF PingInv
  <2>3. CASE "in" \notin R /\ unanswered # NoPing
    <3>1. R \cap {"in", "dcc"} = {}
      BY <2>1, <2>3
    <3>2. ping_sent /\ idle >= MaxTimeout + unanswered
      BY <2>3 DEF PingInv
    <3>3. idle' = Lesser(idle + d, MaxIdle)
      BY <2>1, <3>1
    <3>4. unanswered' = Lesser(unanswered + d, Grace)
      BY <2>1, <2>3, WaitedFacts
    <3>5. ping_sent'
      BY <2>1, <3>1, <3>2
    <3>6. idle' >= MaxTimeout + unanswered'
      BY <2>3, <3>2, <3>3, <3>4, StillRemembered
    <3> QED
      BY <2>1, <3>5, <3>6 DEF PingInv
  <2> QED
    BY <2>2, <2>3
<1>8. ASSUME NEW d \in 1 .. MaxStall, IdleWaits(d) \/ IdleDrops(d)
      PROVE  PingInv'
  <2>1. /\ ircPc' \in {"process", "drop"} /\ ping_sent' = ping_sent
        /\ idle' = Lesser(idle + d, MaxIdle) /\ unanswered' = Waited(d)
    BY <1>8 DEF IdleWaits, IdleDrops, IdleRound, Goto
  <2>2. d \in 0 .. MaxStall
    BY Constants
  <2>3. CASE unanswered = NoPing
    BY <2>1, <2>2, <2>3, WaitedFacts DEF PingInv
  <2>4. CASE unanswered # NoPing
    <3>1. unanswered' = Lesser(unanswered + d, Grace)
      BY <2>1, <2>2, <2>4, WaitedFacts
    <3>2. ping_sent /\ idle >= MaxTimeout + unanswered
      BY <2>4 DEF PingInv
    <3>3. idle' >= MaxTimeout + unanswered'
      BY <2>1, <2>2, <2>4, <3>1, <3>2, StillRemembered
    <3> QED
      BY <2>1, <3>2, <3>3 DEF PingInv
  <2> QED
    BY <2>3, <2>4
<1>9. ASSUME NEW d \in 1 .. MaxStall, IdlePings(d)
      PROVE  PingInv'
  <2>1. /\ ircPc' = "process" /\ ping_sent' /\ ~ping_sent /\ idle' >= MaxTimeout
        /\ unanswered' = IF unanswered = NoPing THEN 0 ELSE Waited(d)
    BY <1>9 DEF IdlePings, Goto
  <2>2. unanswered' = 0
    BY <2>1 DEF PingInv
  <2> QED
    BY <2>1, <2>2, Constants DEF PingInv
<1>10. CASE Drop \/ Process
  BY <1>10 DEF PingInv, Drop, Process, Goto, clock, NoPing
<1>11. CASE CheckPeer \/ Establish \/ Register
  BY <1>11 DEF PingInv, CheckPeer, Establish, Register, Goto, clock, NoPing
<1>12. CASE Read \/ ProcessLine \/ LinesDone \/ Write
  BY <1>12 DEF PingInv, Read, ProcessLine, LinesDone, Write, Goto, clock, NoPing
<1>13. CASE SendDone
  BY <1>13 DEF PingInv, SendDone, Goto, NoPing
<1> QED
  BY <1>1, <1>2, <1>3, <1>4, <1>5, <1>6, <1>7, <1>8, <1>9, <1>10, <1>11, <1>12,
     <1>13, RunOrOthers DEF Run

\* At first nothing was asked.
LEMMA PingInit == Init => PingInv
BY DEF Init, PingInv

\* What NoPongDisconnects says of one step.
NoPongStep ==
  ircPc = "select" /\ fds' = {} /\ ircPc' # "returned" /\ unanswered' = Grace
    => ircPc' = "drop" \/ ircPc' = "select"

\* An idle round behind the grace period disconnects.
LEMMA NoPongHolds ==
  ASSUME TypeOK, PingInv, [Next]_vars
  PROVE  [NoPongStep]_vars
<1> SUFFICES ASSUME Next, ircPc = "select", fds' = {}, ircPc' # "returned",
                    unanswered' = Grace, ircPc' # "select"
             PROVE  ircPc' = "drop"
  BY DEF NoPongStep
<1>1. Run
  BY OthersStep, RunOrOthers DEF vars
<1>2. ~SelectFails
  BY DEF SelectFails, Goto
<1>3. \A d \in 0 .. MaxStall, R \in SUBSET {"in", "out", "dcc"} : ~SelectReady(d, R)
  BY DEF SelectReady
<1>4. PICK d \in 1 .. MaxStall : IdleWaits(d) \/ IdlePings(d) \/ IdleDrops(d)
  BY <1>1, <1>2, <1>3
     DEF Run, Connect, StartRun, NextRound, AddDescriptors, Drop, Process, CheckPeer,
         Establish, Register, Read, ReadFails, ProcessLine, LinesDone, Write, SendDone,
         SendFails, Goto
<1>5. /\ Grace \in Nat /\ Grace # 0 /\ Grace # NoPing /\ MaxTimeout \in Nat
      /\ MaxIdle = MaxTimeout + Grace /\ d \in 0 .. MaxStall
  BY Constants, SizeAssumption DEF NoPing, MaxIdle
<1>6. ~IdlePings(d)
  <2> SUFFICES ASSUME IdlePings(d) PROVE FALSE
    OBVIOUS
  <2>1. /\ ~ping_sent
        /\ unanswered' = IF unanswered = NoPing THEN 0 ELSE Waited(d)
    BY DEF IdlePings
  <2> QED
    BY <1>5, <2>1 DEF PingInv
<1>7. ~IdleWaits(d)
  <2> SUFFICES ASSUME IdleWaits(d) PROVE FALSE
    OBVIOUS
  <2>1. /\ idle' = Lesser(idle + d, MaxIdle) /\ unanswered' = Waited(d)
        /\ idle' < MaxTimeout \/ idle' < MaxIdle
    BY DEF IdleWaits, IdleRound
  <2>2. unanswered # NoPing
    BY <1>5, <2>1, WaitedFacts
  <2>3. Lesser(unanswered + d, Grace) = Grace
    BY <1>5, <2>1, <2>2, WaitedFacts
  <2>4. idle' >= MaxTimeout + Grace
    BY <1>5, <2>1, <2>2, <2>3, StillRemembered DEF PingInv
  <2>5. idle' \in Int
    BY <1>5, <2>1 DEF Lesser, TypeOK
  <2> QED
    BY <1>5, <2>1, <2>4, <2>5
<1> QED
  BY <1>4, <1>6, <1>7 DEF IdleDrops, Goto

\* Without DCC traffic, a round that comes Grace after a PING with nothing heard
\* from the server since is the last: the session is disconnected.
THEOREM NoPongEnds ==
  ASSUME Dcc = FALSE
  PROVE  Spec => NoPongDisconnects
<1>1. PingInv /\ TypeOK /\ [Next]_vars => PingInv'
  BY PingStep
<1>2. PingInv /\ TypeOK /\ [Next]_vars => [NoPongStep]_vars
  BY NoPongHolds
<1>3. Spec => [][NoPongStep]_vars
  BY <1>1, <1>2, PingInit, TypeCorrect, PTL DEF Spec
<1> QED
  BY <1>3 DEF NoPongDisconnects, NoPongStep
=============================================================================
