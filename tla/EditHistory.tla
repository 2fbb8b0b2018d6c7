---------------------------- MODULE EditHistory ----------------------------
(***************************************************************************)
(* The lines typed (mdi_crap.c).  All windows share one array: entry 0 is  *)
(* the line being typed, the others are the lines sent, the latest first.  *)
(* UP and DOWN move through it and copy an entry into the edit control of  *)
(* the window.  The empty text marks a free entry.                         *)
(***************************************************************************)
EXTENDS Integers

CONSTANTS EditLines,         \* the lines somebody types
          EmptyLine,         \* a text of no characters
          EditWindows,       \* windows with an edit control
          MAX_EDIT_HISTORY

ASSUME EditAssumption ==
  /\ MAX_EDIT_HISTORY \in Nat \ (0 .. 2)
  /\ EmptyLine \notin EditLines

VARIABLES edit_buffer, scroll_history_pos,
          edit_text          \* per window, what its edit control shows

editVars == <<edit_buffer, scroll_history_pos, edit_text>>

\* A text is a line, and whether line breaks follow it.
Unbroken(line) == [line |-> line, break |-> FALSE]
Empty == Unbroken(EmptyLine)

Entries == 0 .. MAX_EDIT_HISTORY - 1
Blank == [i \in Entries |-> Empty]

EditInit ==
  /\ edit_buffer = Blank
  /\ scroll_history_pos = 0
  /\ edit_text = [w \in EditWindows |-> Empty]

\* trim_return takes all line breaks off; RETURN adds one.
Trim(text) == Unbroken(text.line)
WithBreak(text) == [text EXCEPT !.break = TRUE]

Show(w, text) == edit_text' = [edit_text EXCEPT ![w] = text]

\* EN_CHANGE: the user changed the text.
Type(w, text) ==
  /\ edit_buffer' = [edit_buffer EXCEPT ![0] = text]
  /\ scroll_history_pos' = 0
  /\ Show(w, text)

\* TAB sets the text, which a multiline edit control does not report.
Complete(w, text) ==
  /\ Show(w, text)
  /\ UNCHANGED <<edit_buffer, scroll_history_pos>>

\* Mutant: the repeated line stays where it is too.
NotMoved(buffer, line) ==
  [i \in Entries |-> IF i = 0 THEN Empty ELSE IF i = 1 THEN line ELSE buffer[i - 1]]

\* add_history and resort_history: the line goes to entry 1; those before its old
\* entry, or all of them, move up by one. Entry 0 is cleared for a new line only.
Added(buffer, line) ==
  LET at == {i \in Entries \ {0} : buffer[i] = line}
      moved(i) == \A j \in at : i <= j
  IN [i \in Entries |-> IF i = 0 THEN (IF at = {} THEN Empty ELSE buffer[0])
                        ELSE IF i = 1 THEN line
                        ELSE IF moved(i) THEN buffer[i - 1]
                        ELSE buffer[i]]

\* RETURN: EN_VSCROLL sends the line and clears the control. The control also reports
\* the change of its text (EN_CHANGE), before it scrolls or after; what it reports
\* after the handler is the cleared text.
Return(w, reportedFirst) ==
  LET line == Trim(edit_text[w])
      before == IF reportedFirst
                THEN [edit_buffer EXCEPT ![0] = WithBreak(edit_text[w])] ELSE edit_buffer
      added == IF line = Empty THEN before ELSE Added(before, line)
  IN /\ edit_buffer' = IF reportedFirst THEN added ELSE [added EXCEPT ![0] = Empty]
     /\ scroll_history_pos' = 0
     /\ Show(w, Empty)

Escape(w) ==
  /\ scroll_history_pos' = IF edit_buffer[0] = Empty THEN 0 ELSE -1
  /\ Show(w, Empty)
  /\ UNCHANGED edit_buffer

\* The line being typed is also the last one sent: it is not shown twice in a row.
Repeated == edit_buffer[0] # Empty /\ edit_buffer[0] = edit_buffer[1]

Step(dir) ==
  CASE Repeated /\ scroll_history_pos = 0 /\ dir = 1 -> 2
    [] Repeated /\ scroll_history_pos = 1 /\ dir = -1 -> -1
    [] OTHER -> scroll_history_pos + dir

Capped(pos) == IF pos < MAX_EDIT_HISTORY THEN pos ELSE MAX_EDIT_HISTORY - 1

\* Mutant: the position is not kept from going further down.
BelowDraftFurther(w, dir) ==
  /\ Step(dir) < 0
  /\ scroll_history_pos' = Step(dir)
  /\ Show(w, Empty)

\* restore_buffer, for UP (1) and DOWN (-1).
BelowDraft(w, dir) ==
  /\ Step(dir) < 0
  /\ scroll_history_pos' = IF edit_buffer[0] = Empty THEN 0 ELSE -1
  /\ Show(w, Empty)

AtLine(w, dir) ==
  LET pos == Capped(Step(dir)) IN
  /\ Step(dir) >= 0 /\ edit_buffer[pos] # Empty
  /\ scroll_history_pos' = pos
  /\ Show(w, edit_buffer[pos])

\* An empty entry above the lines: the position goes back. C's % keeps the sign.
AtFree(w, dir) ==
  LET pos == Capped(Step(dir))
      back == IF pos # 0 THEN pos - dir ELSE 0
  IN /\ Step(dir) >= 0 /\ edit_buffer[pos] = Empty
     /\ scroll_history_pos' = IF back < 0 THEN back ELSE back % MAX_EDIT_HISTORY
     /\ IF pos = 0 THEN Show(w, Empty) ELSE UNCHANGED edit_text

restore_buffer(w, dir) ==
  /\ BelowDraft(w, dir) \/ AtLine(w, dir) \/ AtFree(w, dir)
  /\ UNCHANGED edit_buffer

\* The menu command that clears what was typed leaves the position.
ClearTyped ==
  /\ edit_buffer' = Blank
  /\ UNCHANGED <<scroll_history_pos, edit_text>>

EditNext ==
  \/ \E w \in EditWindows, l \in EditLines \cup {EmptyLine} : Type(w, Unbroken(l))
  \/ \E w \in EditWindows, l \in EditLines : Complete(w, Unbroken(l))
  \/ \E w \in EditWindows, first \in BOOLEAN : Return(w, first)
  \/ \E w \in EditWindows : Escape(w)
  \/ \E w \in EditWindows, dir \in {1, -1} : restore_buffer(w, dir)
  \/ ClearTyped

EditSpec == EditInit /\ [][EditNext]_editVars

-----------------------------------------------------------------------------
Texts == [line : EditLines \cup {EmptyLine}, break : BOOLEAN]

\* Entries and controls hold texts, with no free entry among the lines sent; the
\* position is an entry, or below all of them.
EditTypeOK ==
  /\ edit_buffer \in [Entries -> Texts]
  /\ \A i \in Entries \ {0, 1} : edit_buffer[i] # Empty => edit_buffer[i - 1] # Empty
  /\ scroll_history_pos \in Entries \cup {-1}
  /\ edit_text \in [EditWindows -> Texts]

\* The entries after 0, read up to the first free one.
History ==
  LET n == CHOOSE n \in Entries : /\ \A i \in 1 .. n : edit_buffer[i] # Empty
                                  /\ n + 1 \in Entries => edit_buffer[n + 1] = Empty
  IN [i \in 1 .. n |-> edit_buffer[i]]

Recent == INSTANCE RecentLines
            WITH Lines <- {Unbroken(l) : l \in EditLines}, Limit <- MAX_EDIT_HISTORY - 1, recent <- History

InStep(w) == edit_text[w] = IF scroll_history_pos = -1 THEN Empty ELSE edit_buffer[scroll_history_pos]

\* A press of UP in a window that shows the current entry shows another text as long
\* as there is an older, different line; a press of DOWN in one that shows a sent
\* line shows another text.
KeyMoves(w, dir) ==
  /\ InStep(w)
  /\ IF dir = 1
     THEN \E i \in Entries : i > scroll_history_pos /\ edit_buffer[i] \notin {Empty, edit_text[w]}
     ELSE scroll_history_pos > 0 /\ edit_buffer[scroll_history_pos] # Empty

\* Whatever is typed, sent again, walked through and cleared, in whichever window,
\* the array is the list of the lines sent last, the latest first and none twice; and
\* no repeated or half-typed line keeps UP and DOWN from reaching the others.
HistoryIsRecent ==
  /\ Recent!Spec
  /\ [][\A w \in EditWindows, dir \in {1, -1} :
          KeyMoves(w, dir) /\ restore_buffer(w, dir) => edit_text'[w] # edit_text[w]]_editVars
=============================================================================
