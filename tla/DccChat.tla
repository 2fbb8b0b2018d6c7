------------------------------ MODULE DccChat ------------------------------
(***************************************************************************)
(* The text of a direct chat as it comes in (dcc.c, utils.c): a peer sends *)
(* lines, the network cuts them anywhere, and each call of recv looks for  *)
(* one line in the buffer.  The peer and the network are external.  The    *)
(* sessions themselves are in DccSessions.                                 *)
(***************************************************************************)
EXTENDS Integers, Sequences

CONSTANTS ChatSize,       \* sizeof(incoming_buf)
          ChatLengths,    \* the lengths a line may have
          MaxChatLines    \* bound: lines sent that are not empty

ASSUME ChatAssumption == ChatSize \in Nat \ {0} /\ ChatLengths \subseteq Nat /\ MaxChatLines \in Nat

\* A character of a line is the number of the line.
CR == -1
LF == -2
Ends == {<<CR, LF>>, <<LF>>}

VARIABLES
  chat_sent,        \* history: the lines sent that are not empty
  chat_arriving,    \* characters on their way
  incoming_buf,     \* the buffer up to its offset
  chat_lines        \* history: the lines taken out of it, as dcc_callback shows them

chatVars == <<chat_sent, chat_arriving, incoming_buf, chat_lines>>

ChatInit == chat_sent = <<>> /\ chat_arriving = <<>> /\ incoming_buf = <<>> /\ chat_lines = <<>>

Line(k, length) == [i \in 1 .. length |-> k]

\* Programs end a line with CRLF, or with LF only.
PeerSends(length, end) ==
  LET line == Line(Len(chat_sent) + 1, length) IN
  /\ Len(chat_sent) < MaxChatLines
  /\ Len(chat_arriving) <= ChatSize
  /\ chat_sent' = IF line = <<>> THEN chat_sent ELSE Append(chat_sent, line)
  /\ chat_arriving' = chat_arriving \o line \o end
  /\ UNCHANGED <<incoming_buf, chat_lines>>

-----------------------------------------------------------------------------
IsEnd(c) == c \in {CR, LF}

\* Mutant: the character after the end of a line is taken to belong to it.
TakenWithNext(buf, end) == IF end < Len(buf) - 1 THEN end + 1 ELSE end

\* libirc_findcrorlf: what it takes when a line ends at a place. The second character
\* of CRLF is taken too, but not as the last one of the buffer.
Taken(buf, end) == IF end < Len(buf) - 1 /\ IsEnd(buf[end + 1]) THEN end + 1 ELSE end

\* A line ends in the buffer: it is handed over and taken, and what follows waits for
\* more to come. dcc_callback does not show an empty one.
OneLine(buf) ==
  \E end \in DOMAIN buf :
    /\ IsEnd(buf[end]) /\ \A i \in 1 .. end - 1 : ~IsEnd(buf[i])
    /\ incoming_buf' = SubSeq(buf, Taken(buf, end) + 1, Len(buf))
    /\ chat_lines' = IF end = 1 THEN chat_lines ELSE Append(chat_lines, SubSeq(buf, 1, end - 1))

\* No line ends there: the callback is given what there is, and nothing is taken.
NoLineYet(buf) ==
  /\ ~\E i \in DOMAIN buf : IsEnd(buf[i])
  /\ incoming_buf' = buf
  /\ UNCHANGED chat_lines

\* A round of select with the socket readable: it waits for it only while two places
\* are free.
ChatRecv(n) ==
  /\ Len(incoming_buf) < ChatSize - 1
  /\ n <= Len(chat_arriving) /\ n <= ChatSize - Len(incoming_buf)
  /\ LET buf == incoming_buf \o SubSeq(chat_arriving, 1, n) IN OneLine(buf) \/ NoLineYet(buf)
  /\ chat_arriving' = SubSeq(chat_arriving, n + 1, Len(chat_arriving))
  /\ UNCHANGED chat_sent

ChatNext ==
  \/ \E length \in ChatLengths, end \in Ends : PeerSends(length, end)
  \/ \E n \in 1 .. ChatSize : ChatRecv(n)

ChatSpec == ChatInit /\ [][ChatNext]_chatVars

-----------------------------------------------------------------------------
Characters == {CR, LF} \cup 1 .. MaxChatLines

\* The buffer is not overrun.
ChatTypeOK ==
  /\ incoming_buf \in Seq(Characters) /\ chat_arriving \in Seq(Characters)
  /\ Len(incoming_buf) <= ChatSize

\* Wherever the network cuts the text, also between CR and LF, however lines end and
\* however many of them wait in the buffer, what is taken out of it is the peer's
\* lines: whole, in order, and once each.
ChatLinesInOrder == \E n \in 0 .. Len(chat_sent) : chat_lines = SubSeq(chat_sent, 1, n)
=============================================================================
