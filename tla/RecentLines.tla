---------------------------- MODULE RecentLines ----------------------------
(***************************************************************************)
(* What a history of lines promises: the lines used last, the latest first *)
(* and each of them once.                                                  *)
(***************************************************************************)
EXTENDS Integers, Sequences

CONSTANTS Lines, Limit
VARIABLE recent

Init == recent = <<>>

\* The other lines, as they stand.
Without(line) ==
  LET at == {i \in 1 .. Len(recent) : recent[i] = line}
      i == CHOOSE i \in at : TRUE
  IN IF at = {} THEN recent ELSE SubSeq(recent, 1, i - 1) \o SubSeq(recent, i + 1, Len(recent))

\* A line is used; the one used longest ago is forgotten when there are too many.
Use(line) ==
  LET lines == <<line>> \o Without(line)
  IN recent' = SubSeq(lines, 1, IF Len(lines) > Limit THEN Limit ELSE Len(lines))

Forget == recent' = <<>>

Next == Forget \/ \E line \in Lines : Use(line)

Spec == Init /\ [][Next]_recent
=============================================================================
