---------------------------- MODULE TabComplete ----------------------------
(***************************************************************************)
(* TAB (mdi_crap.c) completes the word at the caret from the nicks of the  *)
(* channel's list box, or from the channels if it begins with '#'; pressed *)
(* again it puts the next one in its place.  The word, its place and the   *)
(* places reached in the two tables are kept between the keys, for all     *)
(* windows together, until an edit control reports a change of its text.   *)
(* List box and edit control are external.                                 *)
(***************************************************************************)
EXTENDS Integers, Sequences, FiniteSetsExt

CONSTANTS TabChars,     \* characters
          TabTexts,     \* texts: sequences of characters
          NickLists,    \* list boxes: sequences of a prefix and a nick
          ChannelTables,\* the channels of irc_windows, in its order
          CharMax,      \* the largest char
          MaxTabs       \* bound: presses of TAB in a row

ListPrefixes == {"@", "+", ""}

ASSUME TabAssumption ==
  /\ CharMax \in Nat /\ MaxTabs \in Nat \ {0}
  /\ <<>> \in TabTexts /\ TabTexts \subseteq Seq(TabChars)
  /\ NickLists \subseteq Seq(ListPrefixes \X Seq(TabChars))
  /\ ChannelTables \subseteq Seq(Seq(TabChars))

VARIABLES
  tab_continue, tab_word, tab_pos,
  last_nick, last_chan,  \* the last one found in each table, 0 for -1
  tab_text,              \* the text of the window in front
  tab_hlist, tab_channels, \* its list box, and the table of windows
  tab_wild,              \* replace_word was given a negative place
  tab_from,              \* history: the text at the first TAB
  tab_offers             \* history: what each TAB since has found

tabStatics == <<tab_continue, tab_word, tab_pos, last_nick, last_chan>>
tabTables == <<tab_hlist, tab_channels>>
tabHistory == <<tab_from, tab_offers>>
tabVars == <<tabStatics, tab_text, tabTables, tab_wild, tabHistory>>

TabInit ==
  /\ tab_continue = FALSE /\ tab_word = <<>> /\ tab_pos = 0
  /\ last_nick = 0 /\ last_chan = 0
  /\ tab_text = <<>>
  /\ tab_hlist \in NickLists /\ tab_channels \in ChannelTables
  /\ tab_wild = FALSE /\ tab_from = <<>> /\ tab_offers = <<>>

-----------------------------------------------------------------------------
\* Places in a text count from 0; behind it is the character 0.
BlankAt(text, p) == p >= Len(text) \/ text[p + 1] = " "

Opening == {" ", "<"}
Closing == {" ", ">"}

\* get_substr: where the word around a place begins and ends, and whether there is one.
WordStart(text, p) == Max({s \in 0 .. p : s = 0 \/ text[s] \in Opening})
WordEnd(text, p) == Min({e \in WordStart(text, p) .. Len(text) : e = Len(text) \/ text[e + 1] \in Closing})
WordAt(text, p) == SubSeq(text, WordStart(text, p) + 1, WordEnd(text, p))
HasWord(text, p) ==
  /\ p <= Len(text)
  /\ ~(BlankAt(text, p) /\ (p = 0 \/ BlankAt(text, p - 1)))
  /\ WordAt(text, p) # <<>>

\* replace_word, which takes the place as a char.
Char(p) == LET c == p % (2 * (CharMax + 1)) IN IF c > CharMax THEN c - 2 * (CharMax + 1) ELSE c
Replaced(text, p, name) ==
  IF HasWord(text, p)
  THEN SubSeq(text, 1, WordStart(text, p)) \o name \o SubSeq(text, WordEnd(text, p) + 1, Len(text))
  ELSE text

-----------------------------------------------------------------------------
FirstOrNone(S) == IF S = {} THEN 0 ELSE Min(S)
FromLast(S, last) == IF \E i \in S : i > last THEN Min({i \in S : i > last}) ELSE FirstOrNone(S)

Begins(word, name) == \E n \in 0 .. Len(name) : word = SubSeq(name, 1, n)

NicksMatching(prefix, word) ==
  {i \in DOMAIN tab_hlist : tab_hlist[i][1] = prefix /\ Begins(word, tab_hlist[i][2])}

\* LB_FINDSTRING, for each prefix: from the last one on and then from the top.
Searches(word) == {FromLast(NicksMatching(p, word), last_nick) : p \in ListPrefixes} \ {0}

\* Mutant: of the three places found the first in the list is taken.
FirstFound(word) == FirstOrNone(Searches(word))

\* find_next_nick
NextNick(word) == FromLast(Searches(word), last_nick)

\* handle_next_chan
ChannelsMatching(word) == {i \in DOMAIN tab_channels : Begins(word, tab_channels[i])}
NextChan(word) == FromLast(ChannelsMatching(word), last_chan)

IsChannel(word) == Head(word) = "#"
NextIn(word) == IF IsChannel(word) THEN NextChan(word) ELSE NextNick(word)
NameOf(word, i) == IF IsChannel(word) THEN tab_channels[i] ELSE tab_hlist[i][2]

\* A window without a list box finds nothing, as one with an empty list box does, but
\* the last nick found stays.
Kept == IF tab_hlist = <<>> THEN {last_nick} ELSE {}

\* tab_next: handle_next_nick and handle_next_chan, which leave an empty text alone.
\* What replace_word finds before the text is not known, and nothing can be said then.
Completes(word, p) ==
  LET next == NextIn(word) IN
  IF tab_text = <<>> THEN UNCHANGED <<last_nick, last_chan, tab_text, tab_wild>>
  ELSE /\ last_chan' = IF IsChannel(word) THEN next ELSE last_chan
       /\ last_nick' \in IF IsChannel(word) THEN {last_nick} ELSE {next} \cup Kept
       /\ tab_wild' = (next # 0 /\ Char(p) < 0)
       /\ tab_text' = IF next # 0 /\ Char(p) >= 0 THEN Replaced(tab_text, Char(p), NameOf(word, next))
                      ELSE tab_text

\* tab_completion: the first TAB, the caret somewhere.
FirstTab(caret) ==
  /\ ~tab_continue /\ caret \in 0 .. Len(tab_text) /\ HasWord(tab_text, caret)
  /\ tab_continue' = TRUE
  /\ tab_word' = WordAt(tab_text, caret) /\ tab_pos' = WordStart(tab_text, caret)
  /\ Completes(tab_word', tab_pos')
  /\ tab_from' = tab_text /\ tab_offers' = <<NextIn(tab_word')>>
  /\ UNCHANGED tabTables

NoWord(caret) ==
  /\ ~tab_continue /\ caret \in 0 .. Len(tab_text) /\ ~HasWord(tab_text, caret)
  /\ tab_word' = <<>>
  /\ UNCHANGED <<tab_continue, tab_pos, last_nick, last_chan, tab_text, tabTables, tab_wild, tabHistory>>

\* TAB again, wherever the caret is by now.
NextTab ==
  /\ tab_continue /\ Len(tab_offers) < MaxTabs
  /\ Completes(tab_word, tab_pos)
  /\ tab_offers' = IF tab_offers = <<>> THEN <<>> ELSE Append(tab_offers, NextIn(tab_word))
  /\ UNCHANGED <<tab_continue, tab_word, tab_pos, tabTables, tab_from>>

\* EN_CHANGE: the user changed the text.
TypeText(text) ==
  /\ tab_text' = text
  /\ tab_continue' = FALSE
  /\ tab_offers' = <<>> /\ tab_from' = <<>>
  /\ UNCHANGED <<tab_word, tab_pos, last_nick, last_chan, tabTables, tab_wild>>

\* ESC, UP and DOWN set the text of the control, which it does not report; and another
\* window may come to the front.
TextReplaced(text, list) ==
  /\ tab_text' = text /\ tab_hlist' = list
  /\ tab_offers' = <<>> /\ tab_from' = <<>>
  /\ UNCHANGED <<tabStatics, tab_channels, tab_wild>>

\* Somebody joins or leaves, a window opens or closes.
TablesChange(list, channels) ==
  /\ tab_hlist' = list /\ tab_channels' = channels
  /\ tab_offers' = <<>> /\ tab_from' = <<>>
  /\ UNCHANGED <<tabStatics, tab_text, tab_wild>>

TabNext ==
  /\ ~tab_wild
  /\ \/ \E caret \in 0 .. Len(tab_text) : FirstTab(caret) \/ NoWord(caret)
     \/ NextTab
     \/ \E text \in TabTexts : \/ TypeText(text)
                               \/ \E list \in NickLists : TextReplaced(text, list)
     \/ \E list \in NickLists, channels \in ChannelTables : TablesChange(list, channels)

TabSpec == TabInit /\ [][TabNext]_tabVars

-----------------------------------------------------------------------------
\* Texts are texts, a word goes with a place, and the tables are among those there are.
TabTypeOK ==
  /\ tab_continue \in BOOLEAN /\ tab_wild \in BOOLEAN
  /\ tab_text \in Seq(TabChars) /\ tab_word \in Seq(TabChars) /\ tab_from \in Seq(TabChars)
  /\ tab_continue => tab_word # <<>>
  /\ tab_pos \in Nat /\ last_nick \in Nat /\ last_chan \in Nat
  /\ tab_hlist \in NickLists /\ tab_channels \in ChannelTables
  /\ tab_offers \in Seq(Nat) /\ Len(tab_offers) <= MaxTabs

Matching(word) ==
  IF IsChannel(word) THEN ChannelsMatching(word)
  ELSE UNION {NicksMatching(p, word) : p \in ListPrefixes}

\* As long as the text is the user's own, the tables stay as they are and the word is
\* within the first CharMax characters, each TAB offers one of the names that begin
\* with the word, none again before the others had their turn, whatever was completed
\* before and in which window; and all of the text but the word stays.
TabOffersEach ==
  tab_offers # <<>> /\ tab_pos <= CharMax =>
    LET names == Matching(tab_word)
        latest == tab_offers[Len(tab_offers)]
    IN /\ \A i, j \in DOMAIN tab_offers :
            i < j /\ j - i < Cardinality(names) => tab_offers[i] # tab_offers[j]
       /\ IF names = {} THEN tab_text = tab_from
          ELSE /\ \A i \in DOMAIN tab_offers : tab_offers[i] \in names
               /\ tab_text = SubSeq(tab_from, 1, tab_pos) \o NameOf(tab_word, latest)
                             \o SubSeq(tab_from, tab_pos + Len(tab_word) + 1, Len(tab_from))
=============================================================================
