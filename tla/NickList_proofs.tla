--------------------------- MODULE NickList_proofs ---------------------------
(***************************************************************************)
(* The nick list of a channel, for any number of nicks and of messages on  *)
(* their way.  The argument: each message tells of a change from one view  *)
(* of the channel to the next, and the list is up to date with the view    *)
(* before the message to handle next: it lists members only and each of    *)
(* them once at most, and it lists all of them, in their right forms, but  *)
(* for those whose names were cleared and are to come, or are in the       *)
(* messages to handle next.                                                *)
(***************************************************************************)
EXTENDS NickList, SequenceTheorems, TLAPS

\* What the channel may look like: its members and their modes.
Views == UNION {[present -> SUBSET {"o", "v"}] : present \in SUBSET Everybody}

ListMessages == [type : {"JOIN", "LEAVE"}, nick : Everybody]
                \cup [type : {"NICK"}, nick : Everybody, new : Everybody]
                \cup [type : {"MODE"}, set : BOOLEAN, mode : {"o", "v"}, nick : Everybody]
                \cup [type : {"NAMES"}, forms : SUBSET Forms, last : BOOLEAN]

ListTypes ==
  /\ NickTypeOK
  /\ members \in Views /\ to_client \in Seq(ListMessages)

FormOf(view, n) == <<Shown(view[n]), n>>
FormsOf(view) == {FormOf(view, n) : n \in DOMAIN view}

\* A message of the server tells of a change, while the client is in the channel.
Tells(m, view, next) ==
  \/ /\ m.type = "JOIN" /\ m.nick = Me
     /\ Me \notin DOMAIN view /\ Me \in DOMAIN next
  \/ /\ m.type = "JOIN" /\ m.nick # Me /\ Me \in DOMAIN view
     /\ m.nick \in Everybody \ DOMAIN view
     /\ DOMAIN next = DOMAIN view \cup {m.nick} /\ next[m.nick] = {}
     /\ \A n \in DOMAIN view : next[n] = view[n]
  \/ /\ m.type = "LEAVE" /\ Me \in DOMAIN view /\ m.nick \in DOMAIN view
     /\ DOMAIN next = DOMAIN view \ {m.nick}
     /\ \A n \in DOMAIN next : next[n] = view[n]
  \/ /\ m.type = "NICK" /\ Me \in DOMAIN view /\ m.nick \in DOMAIN view \ {Me}
     /\ m.new \in Everybody \ DOMAIN view
     /\ DOMAIN next = (DOMAIN view \ {m.nick}) \cup {m.new} /\ next[m.new] = view[m.nick]
     /\ \A n \in DOMAIN view \ {m.nick} : next[n] = view[n]
  \/ /\ m.type = "MODE" /\ Me \in DOMAIN view /\ m.nick \in DOMAIN view
     /\ DOMAIN next = DOMAIN view
     /\ m.set \in BOOLEAN /\ m.mode \in {"o", "v"}
     /\ m.set => next[m.nick] = view[m.nick] \cup {m.mode}
     /\ \A n \in DOMAIN view \ {m.nick} : next[n] = view[n]
  \/ /\ m.type = "NAMES" /\ Me \in DOMAIN view
     /\ next = view /\ m.forms \subseteq FormsOf(view) /\ m.last \in BOOLEAN

\* The first half of an answer to NAMES is followed by the second one, and the client's
\* own JOIN by an answer.
Followed(m, i, messages, view) ==
  /\ m.type = "JOIN" /\ m.nick = Me =>
       i < Len(messages) /\ messages[i + 1].type = "NAMES" /\ ~messages[i + 1].last
  /\ m.type = "NAMES" /\ ~m.last =>
       /\ i < Len(messages) /\ messages[i + 1].type = "NAMES" /\ messages[i + 1].last
       /\ FormsOf(view) \subseteq m.forms \cup messages[i + 1].forms

\* The views between the messages on their way, up to the server's. A client that is not
\* in the channel has no view of it.
ViewsOf(views, messages, now) ==
  /\ views \in [1 .. Len(messages) + 1 -> Views]
  /\ \A i \in 1 .. Len(messages) : Tells(messages[i], views[i], views[i + 1])
  /\ \A i \in 1 .. Len(messages) : Followed(messages[i], i, messages, views[i])
  /\ IF Me \in DOMAIN now THEN views[Len(messages) + 1] = now ELSE Me \notin DOMAIN views[Len(messages) + 1]

\* A list with members only, each of them once at most.
OnlyMembers(list, view) ==
  /\ \A f \in Forms : list[f] \in {0, 1}
  /\ \A n \in Everybody \ DOMAIN view, p \in Prefixes : list[<<p, n>>] = 0
  /\ \A n \in DOMAIN view, p, q \in Prefixes : list[<<p, n>>] = 1 /\ list[<<q, n>>] = 1 => p = q

\* It has somebody once, in the right form.
Right(list, view, n) == \A p \in Prefixes : list[<<p, n>>] = IF p = Shown(view[n]) THEN 1 ELSE 0

\* The names that are not right are in the messages to handle next.
AllRight(list, view, messages) ==
  \/ \A n \in DOMAIN view : Right(list, view, n)
  \/ /\ messages # <<>> /\ messages[1].type = "NAMES"
     /\ messages[1].last => \A n \in DOMAIN view : FormOf(view, n) \in messages[1].forms \/ Right(list, view, n)

UpToDate(list, view, messages, state) ==
  IF Me \in DOMAIN view
  THEN /\ OnlyMembers(list, view)
       /\ state = "none" => AllRight(list, view, messages)
       /\ state = "coming" => /\ messages # <<>> /\ messages[1].type = "NAMES" /\ messages[1].last
                              /\ AllRight(list, view, messages)
  ELSE list = EmptyList /\ state # "coming"

ListInv ==
  \E views : ViewsOf(views, to_client, members) /\ (~ghosts => UpToDate(hlist, views[1], to_client, gap))

-----------------------------------------------------------------------------
\* Forms, and the form that modes call for.
LEMMA FormFacts ==
  /\ \A p \in Prefixes, n \in Everybody : <<p, n>> \in Forms
  /\ \A f \in Forms : f[1] \in Prefixes /\ f[2] \in Everybody /\ f = <<f[1], f[2]>>
BY DEF Forms

\* The prefix shown is @ for operators, + for the voiced and none for others.
LEMMA ShownFacts ==
  ASSUME NEW modes
  PROVE  /\ Shown(modes) \in Prefixes
         /\ "o" \in modes => Shown(modes) = "@"
         /\ "o" \notin modes /\ "v" \in modes => Shown(modes) = "+"
         /\ "o" \notin modes /\ "v" \notin modes => Shown(modes) = ""
<1>1. CASE "o" \in modes
  BY <1>1 DEF Shown, Prefixes
<1>2. CASE "o" \notin modes /\ "v" \in modes
  BY <1>2 DEF Shown, Prefixes
<1>3. CASE "o" \notin modes /\ "v" \notin modes
  BY <1>3 DEF Shown, Prefixes
<1> QED
  BY <1>1, <1>2, <1>3

\* A view is a function from some people to their modes.
LEMMA ViewFacts ==
  ASSUME NEW view \in Views
  PROVE  /\ DOMAIN view \subseteq Everybody
         /\ \A n \in DOMAIN view : view[n] \subseteq {"o", "v"} /\ FormOf(view, n) \in Forms
         /\ FormsOf(view) \subseteq Forms
<1>1. DOMAIN view \subseteq Everybody /\ \A n \in DOMAIN view : view[n] \subseteq {"o", "v"}
  BY DEF Views
<1>2. \A n \in DOMAIN view : FormOf(view, n) \in Forms
  BY <1>1, ShownFacts, FormFacts DEF FormOf
<1> QED
  BY <1>1, <1>2 DEF FormsOf

\* Modes for some of the people are a view.
LEMMA IsView ==
  ASSUME NEW present \in SUBSET Everybody, NEW view \in [present -> SUBSET {"o", "v"}]
  PROVE  view \in Views
BY DEF Views

\* What the server puts together are messages.
LEMMA MessageFacts ==
  /\ \A n \in Everybody : /\ [type |-> "JOIN", nick |-> n] \in ListMessages
                          /\ [type |-> "LEAVE", nick |-> n] \in ListMessages
  /\ \A n, new \in Everybody : [type |-> "NICK", nick |-> n, new |-> new] \in ListMessages
  /\ \A n \in Everybody, set \in BOOLEAN, mode \in {"o", "v"} :
       [type |-> "MODE", set |-> set, mode |-> mode, nick |-> n] \in ListMessages
  /\ \A forms \in SUBSET Forms, last \in BOOLEAN :
       [type |-> "NAMES", forms |-> forms, last |-> last] \in ListMessages
  /\ \A m \in ListMessages :
       /\ m.type \in {"JOIN", "LEAVE", "NICK", "MODE"} => m.nick \in Everybody
       /\ m.type = "NICK" => m.new \in Everybody
       /\ m.type = "MODE" => m.set \in BOOLEAN /\ m.mode \in {"o", "v"}
       /\ m.type = "NAMES" => m.forms \in SUBSET Forms /\ m.last \in BOOLEAN
BY DEF ListMessages

\* update_nick_in_list finds a form of the nick if the list has one.
LEMMA FoundFacts ==
  ASSUME NEW list \in [Forms -> Nat], NEW n \in Everybody
  PROVE  /\ Found(list, n) \subseteq {f \in Forms : list[f] > 0 /\ f[2] = n}
         /\ \A p \in Prefixes : list[<<p, n>>] > 0 => Found(list, n) # {}
<1>1. <<"@", n>> \in Forms /\ <<"+", n>> \in Forms /\ <<"", n>> \in Forms
  BY FormFacts DEF Prefixes
<1> DEFINE op == <<"@", n>>
           voice == <<"+", n>>
           plain == <<"", n>>
<1>2. list[op] \in Nat /\ list[voice] \in Nat /\ list[plain] \in Nat
      /\ op[2] = n /\ voice[2] = n /\ plain[2] = n
  BY <1>1
<1>3. Found(list, n) = CASE list[op] > 0 -> {op}
                         [] list[op] = 0 /\ list[voice] > 0 -> {voice}
                         [] list[op] = 0 /\ list[voice] = 0 /\ list[plain] > 0 -> {plain}
                         [] OTHER -> {}
  BY DEF Found
<1> HIDE DEF op, voice, plain
<1>4. \/ Found(list, n) = {op} /\ list[op] > 0
      \/ Found(list, n) = {voice} /\ list[voice] > 0
      \/ Found(list, n) = {plain} /\ list[plain] > 0
      \/ Found(list, n) = {}
  <2>1. \/ list[op] > 0
        \/ list[op] = 0 /\ ~(list[op] > 0) /\ list[voice] > 0
        \/ list[op] = 0 /\ ~(list[op] > 0) /\ list[voice] = 0 /\ ~(list[voice] > 0) /\ list[plain] > 0
        \/ list[op] = 0 /\ ~(list[op] > 0) /\ list[voice] = 0 /\ ~(list[voice] > 0) /\ ~(list[plain] > 0)
    BY <1>2
  <2>2. list[op] > 0 => list[op] # 0
    BY <1>2
  <2>3. list[voice] > 0 => list[voice] # 0
    BY <1>2
  <2> QED
    BY <1>3, <2>1, <2>2, <2>3
<1>5. list[op] > 0 \/ list[voice] > 0 \/ list[plain] > 0 => Found(list, n) # {}
  <2>1. /\ list[op] > 0 => list[op] # 0
        /\ list[voice] > 0 => list[voice] # 0
        /\ list[plain] > 0 => list[plain] # 0
        /\ list[op] > 0 \/ list[op] = 0
        /\ list[voice] > 0 \/ list[voice] = 0
    BY <1>2
  <2>2. CASE list[op] > 0
    BY <1>3, <2>1, <2>2
  <2>3. CASE list[op] = 0 /\ list[voice] > 0
    BY <1>3, <2>1, <2>3
  <2>4. CASE list[op] = 0 /\ list[voice] = 0 /\ list[plain] > 0
    BY <1>3, <2>1, <2>4
  <2> QED
    BY <2>1, <2>2, <2>3, <2>4
<1> QED
  BY <1>1, <1>2, <1>4, <1>5 DEF op, voice, plain, Prefixes

\* The list box counts, whatever is done to it.
LEMMA ListBox ==
  ASSUME NEW list \in [Forms -> Nat]
  PROVE  /\ EmptyList \in [Forms -> Nat]
         /\ \A f \in Forms : Put(list, f) \in [Forms -> Nat] /\ Dropped(list, f) \in [Forms -> Nat]
         /\ \A f \in Forms : AddNick(list, f) \in [Forms -> Nat]
         /\ \A forms \in SUBSET Forms : AddNicks(list, forms) \in [Forms -> Nat]
         /\ \A n \in Everybody : Found(list, n) \subseteq {f \in Forms : list[f] > 0 /\ f[2] = n}
         /\ \A n \in Everybody : DropNick(list, n) \in [Forms -> Nat]
         /\ \A n, new \in Everybody : RenameNick(list, n, new) \in [Forms -> Nat]
         /\ \A n \in Everybody, mode \in {"o", "v"} : SetShown(list, mode, n) \in [Forms -> Nat]
<1>1. EmptyList \in [Forms -> Nat]
  BY DEF EmptyList
<1>2. ASSUME NEW f \in Forms, NEW box \in [Forms -> Nat]
      PROVE  Put(box, f) \in [Forms -> Nat] /\ Dropped(box, f) \in [Forms -> Nat]
  BY <1>2 DEF Put, Dropped
<1>3. ASSUME NEW f \in Forms
      PROVE  AddNick(list, f) \in [Forms -> Nat]
  <2>1. [g \in Forms |-> IF g[2] = f[2] /\ list[g] > 0 THEN list[g] - 1 ELSE list[g]] \in [Forms -> Nat]
    OBVIOUS
  <2> QED
    BY <1>2, <2>1 DEF AddNick
<1>4. ASSUME NEW forms \in SUBSET Forms
      PROVE  AddNicks(list, forms) \in [Forms -> Nat]
  BY DEF AddNicks
<1>5. ASSUME NEW n \in Everybody
      PROVE  Found(list, n) \subseteq {f \in Forms : list[f] > 0 /\ f[2] = n}
  BY FoundFacts
<1>6. ASSUME NEW n \in Everybody
      PROVE  DropNick(list, n) \in [Forms -> Nat]
  BY <1>5 DEF DropNick
<1>7. ASSUME NEW n \in Everybody, NEW new \in Everybody
      PROVE  RenameNick(list, n, new) \in [Forms -> Nat]
  <2>1. CASE Found(list, n) = {}
    BY <2>1 DEF RenameNick
  <2>2. CASE Found(list, n) # {}
    <3>1. PICK f \in Found(list, n) : RenameNick(list, n, new) = Put(Dropped(list, f), <<f[1], new>>)
      BY <2>2 DEF RenameNick
    <3>2. f \in Forms /\ <<f[1], new>> \in Forms
      BY <1>5, <3>1, FormFacts
    <3> QED
      BY <1>2, <3>1, <3>2
  <2> QED
    BY <2>1, <2>2
<1>8. ASSUME NEW n \in Everybody, NEW mode \in {"o", "v"}
      PROVE  SetShown(list, mode, n) \in [Forms -> Nat]
  BY <1>3, FormFacts DEF SetShown, Prefixes
<1> QED
  BY <1>1, <1>2, <1>3, <1>4, <1>5, <1>6, <1>7, <1>8

-----------------------------------------------------------------------------
\* In new, somebody has the forms with these prefixes, once each, and nobody else has changed.
SetTo(new, list, n, prefixes) ==
  /\ \A p \in Prefixes : new[<<p, n>>] = IF p \in prefixes THEN 1 ELSE 0
  /\ \A m \in Everybody \ {n}, p \in Prefixes : new[<<p, m>>] = list[<<p, m>>]

\* Nothing is in the list twice.
Once(list) == list \in [Forms -> Nat] /\ \A f \in Forms : list[f] \in {0, 1}

\* Nobody is in it in two forms.
OneForm(list, n) == \A p, q \in Prefixes : list[<<p, n>>] = 1 /\ list[<<q, n>>] = 1 => p = q

\* Adding a form leaves the nick with that form only.
LEMMA AddNickIs ==
  ASSUME NEW list, Once(list), NEW n \in Everybody, NEW q \in Prefixes
  PROVE  SetTo(AddNick(list, <<q, n>>), list, n, {q})
<1> DEFINE without == [g \in Forms |-> IF g[2] = n /\ list[g] > 0 THEN list[g] - 1 ELSE list[g]]
<1>1. AddNick(list, <<q, n>>) = [without EXCEPT ![<<q, n>>] = @ + 1]
  BY DEF AddNick, Put
<1>2. /\ without \in [Forms -> Nat]
      /\ \A p \in Prefixes : without[<<p, n>>] = 0
      /\ \A m \in Everybody \ {n}, p \in Prefixes : without[<<p, m>>] = list[<<p, m>>]
  BY FormFacts DEF Once
<1> HIDE DEF without
<1>3. ASSUME NEW p \in Prefixes
      PROVE  AddNick(list, <<q, n>>)[<<p, n>>] = IF p \in {q} THEN 1 ELSE 0
  BY <1>1, <1>2, FormFacts
<1>4. ASSUME NEW m \in Everybody \ {n}, NEW p \in Prefixes
      PROVE  AddNick(list, <<q, n>>)[<<p, m>>] = list[<<p, m>>]
  BY <1>1, <1>2, FormFacts
<1> QED
  BY <1>3, <1>4 DEF SetTo

\* Removing a nick leaves it with no form.
LEMMA DropNickIs ==
  ASSUME NEW list, Once(list), NEW n \in Everybody, OneForm(list, n)
  PROVE  SetTo(DropNick(list, n), list, n, {})
<1>1. /\ list \in [Forms -> Nat] /\ \A f \in Forms : list[f] \in {0, 1}
      /\ Found(list, n) \subseteq {f \in Forms : list[f] > 0 /\ f[2] = n}
      /\ \A p \in Prefixes : list[<<p, n>>] > 0 => Found(list, n) # {}
      /\ \A f \in Forms : DropNick(list, n)[f] = IF f \in Found(list, n) THEN list[f] - 1 ELSE list[f]
  BY FoundFacts DEF Once, DropNick
<1>2. ASSUME NEW p \in Prefixes, list[<<p, n>>] = 1
      PROVE  <<p, n>> \in Found(list, n)
  <2>1. PICK f \in Found(list, n) : TRUE
    BY <1>1, <1>2
  <2>2. f \in Forms /\ list[f] = 1 /\ f[2] = n
    BY <1>1, <2>1
  <2>3. f[1] \in Prefixes /\ f = <<f[1], n>>
    BY <2>2, FormFacts
  <2>4. f[1] = p
    BY <1>2, <2>2, <2>3 DEF OneForm
  <2> QED
    BY <2>1, <2>3, <2>4
<1>3. ASSUME NEW p \in Prefixes
      PROVE  DropNick(list, n)[<<p, n>>] = 0
  <2>1. <<p, n>> \in Forms
    BY FormFacts
  <2>2. CASE list[<<p, n>>] = 1
    BY <1>1, <1>2, <2>1, <2>2
  <2>3. CASE list[<<p, n>>] = 0
    <3>1. <<p, n>> \notin Found(list, n)
      BY <1>1, <2>1, <2>3
    <3> QED
      BY <1>1, <2>1, <2>3, <3>1
  <2> QED
    BY <1>1, <2>1, <2>2, <2>3
<1>4. ASSUME NEW m \in Everybody \ {n}, NEW p \in Prefixes
      PROVE  DropNick(list, n)[<<p, m>>] = list[<<p, m>>]
  <2>1. <<p, m>> \in Forms /\ <<p, m>>[2] # n
    BY FormFacts
  <2> QED
    BY <1>1, <2>1
<1> QED
  BY <1>3, <1>4 DEF SetTo

\* The form that is found becomes one of the new nick.
LEMMA RenameNickIs ==
  ASSUME NEW list, Once(list), NEW n \in Everybody, NEW new \in Everybody, n # new, OneForm(list, n),
         \A p \in Prefixes : list[<<p, new>>] = 0
  PROVE  /\ \A p \in Prefixes : /\ RenameNick(list, n, new)[<<p, n>>] = 0
                                /\ RenameNick(list, n, new)[<<p, new>>] = list[<<p, n>>]
         /\ \A m \in Everybody \ {n, new}, p \in Prefixes : RenameNick(list, n, new)[<<p, m>>] = list[<<p, m>>]
<1>1. /\ list \in [Forms -> Nat] /\ \A f \in Forms : list[f] \in {0, 1}
      /\ Found(list, n) \subseteq {f \in Forms : list[f] > 0 /\ f[2] = n}
      /\ \A p \in Prefixes : list[<<p, n>>] > 0 => Found(list, n) # {}
  BY FoundFacts DEF Once
<1>2. CASE Found(list, n) = {}
  <2>1. RenameNick(list, n, new) = list
    BY <1>2 DEF RenameNick
  <2>2. ASSUME NEW p \in Prefixes
        PROVE  list[<<p, n>>] = 0
    <3>1. list[<<p, n>>] \in {0, 1} /\ ~(list[<<p, n>>] > 0)
      BY <1>1, <1>2, FormFacts
    <3> QED
      BY <3>1
  <2> QED
    BY <2>1, <2>2
<1>3. CASE Found(list, n) # {}
  <2>1. PICK f \in Found(list, n) : RenameNick(list, n, new) = Put(Dropped(list, f), <<f[1], new>>)
    BY <1>3 DEF RenameNick
  <2>2. f \in Forms /\ list[f] = 1 /\ f[2] = n
    BY <1>1, <2>1
  <2>3. PICK p \in Prefixes : f = <<p, n>> /\ f[1] = p /\ <<p, new>> \in Forms
    BY <2>2, FormFacts
  <2>4. \A q \in Prefixes : list[<<q, n>>] = IF q = p THEN 1 ELSE 0
    BY <1>1, <2>2, <2>3, FormFacts, ZenonT(60) DEF OneForm
  <2> DEFINE mid == [list EXCEPT ![f] = 0]
  <2>5. Dropped(list, f) = mid
    <3>1. (IF list[f] > 0 THEN list[f] - 1 ELSE 0) = 0
      BY <2>2
    <3> QED
      BY <3>1 DEF Dropped
  <2>6. RenameNick(list, n, new) = [mid EXCEPT ![<<p, new>>] = @ + 1]
    BY <2>1, <2>3, <2>5 DEF Put
  <2>7. /\ mid \in [Forms -> Nat] /\ \A q \in Prefixes : mid[<<q, n>>] = 0
        /\ \A m \in Everybody \ {n}, q \in Prefixes : mid[<<q, m>>] = list[<<q, m>>]
    BY <1>1, <2>2, <2>3, <2>4, FormFacts
  <2> HIDE DEF mid
  <2>8. ASSUME NEW q \in Prefixes
        PROVE  /\ RenameNick(list, n, new)[<<q, n>>] = 0
               /\ RenameNick(list, n, new)[<<q, new>>] = list[<<q, n>>]
    BY <2>4, <2>6, <2>7, FormFacts
  <2>9. ASSUME NEW m \in Everybody \ {n, new}, NEW q \in Prefixes
        PROVE  RenameNick(list, n, new)[<<q, m>>] = list[<<q, m>>]
    BY <2>6, <2>7, FormFacts
  <2> QED
    BY <2>8, <2>9
<1> QED
  BY <1>2, <1>3

\* Who is among the names gets the form they have there.
LEMMA AddNicksIs ==
  ASSUME NEW list, Once(list), NEW forms \in SUBSET Forms, NEW n \in Everybody,
         \A p, q \in Prefixes : <<p, n>> \in forms /\ <<q, n>> \in forms => p = q
  PROVE  /\ (\E p \in Prefixes : <<p, n>> \in forms) =>
              \A p \in Prefixes : AddNicks(list, forms)[<<p, n>>] = IF <<p, n>> \in forms THEN 1 ELSE 0
         /\ (\A p \in Prefixes : <<p, n>> \notin forms) =>
              \A p \in Prefixes : AddNicks(list, forms)[<<p, n>>] = list[<<p, n>>]
<1>1. (\E f \in forms : f[2] = n) <=> \E p \in Prefixes : <<p, n>> \in forms
  BY FormFacts
<1>2. ASSUME NEW p \in Prefixes
      PROVE  AddNicks(list, forms)[<<p, n>>] =
               LET kept == IF list[<<p, n>>] > 0 /\ \E f \in forms : f[2] = n THEN list[<<p, n>>] - 1 ELSE list[<<p, n>>]
               IN IF <<p, n>> \in forms THEN kept + 1 ELSE kept
  <2>1. <<p, n>> \in Forms /\ <<p, n>>[2] = n
    BY FormFacts
  <2> QED
    BY <2>1 DEF AddNicks
<1>3. \A p \in Prefixes : list[<<p, n>>] \in {0, 1}
  BY FormFacts DEF Once
<1>4. CASE \E p \in Prefixes : <<p, n>> \in forms
  <2>1. ASSUME NEW p \in Prefixes
        PROVE  (IF list[<<p, n>>] > 0 THEN list[<<p, n>>] - 1 ELSE list[<<p, n>>]) = 0
    BY <1>3
  <2> QED
    BY <1>1, <1>2, <1>4, <2>1
<1>5. CASE \A p \in Prefixes : <<p, n>> \notin forms
  BY <1>1, <1>2, <1>5
<1> QED
  BY <1>4, <1>5

-----------------------------------------------------------------------------
\* What the server may say, and how the queue of messages grows.
LEMMA Told ==
  ASSUME ListTypes, NEW messages \in Seq(ListMessages), Tell(messages)
  PROVE  to_client' \in Seq(ListMessages) /\ Len(to_client') <= MaxMessages
<1>1. Len(to_client \o messages) = Len(to_client) + Len(messages) /\ to_client \o messages \in Seq(ListMessages)
  BY ConcatProperties DEF ListTypes
<1> QED
  BY <1>1 DEF Tell

\* An answer consists of messages.
LEMMA NamesTyped ==
  ASSUME NEW all \in SUBSET Forms, NEW part \in SUBSET all
  PROVE  Names(part, all) \in Seq(ListMessages)
<1> DEFINE one == [type |-> "NAMES", forms |-> part, last |-> FALSE]
           two == [type |-> "NAMES", forms |-> all \ part, last |-> TRUE]
<1>1. one \in ListMessages /\ two \in ListMessages
  BY MessageFacts
<1> HIDE DEF one, two
<1>2. <<one, two>> \in Seq(ListMessages)
  BY <1>1
<1> QED
  BY <1>2 DEF one, two, Names

\* At first nobody is in the channel and nothing on its way.
LEMMA ListTypesInit == NickInit => ListTypes
<1> SUFFICES ASSUME NickInit PROVE ListTypes
  OBVIOUS
<1>1. members = [n \in {} |-> {}] /\ to_client = <<>> /\ asked = 0 /\ hlist = EmptyList
      /\ ghosts = FALSE /\ gap = "none" /\ events = 0
  BY DEF NickInit
<1>2. members \in [{} -> SUBSET {"o", "v"}] /\ {} \in SUBSET Everybody
  BY <1>1
<1>3. members \in Views
  BY <1>2, IsView
<1>4. <<>> \in Seq(ListMessages) /\ Len(<<>>) = 0
  BY EmptySeq
<1>5. MaxMessages \in Nat /\ MaxEvents \in Nat
  BY NickAssumption
<1>6. hlist \in [Forms -> Nat]
  BY <1>1 DEF EmptyList
<1>7. Len(to_client) <= MaxMessages /\ events \in 0 .. MaxEvents /\ asked \in Nat
  BY <1>1, <1>4, <1>5
<1>8. DOMAIN members \subseteq Everybody /\ \A n \in DOMAIN members : members[n] \subseteq {"o", "v"}
  BY <1>3, ViewFacts
<1> QED
  BY <1>1, <1>3, <1>4, <1>6, <1>7, <1>8 DEF ListTypes, NickTypeOK

\* What happens in the channel.
LEMMA ServerTypes ==
  ASSUME ListTypes, Server
  PROVE  ListTypes'
<1>1. /\ members \in Views /\ DOMAIN members \subseteq Everybody /\ \A n \in DOMAIN members : members[n] \subseteq {"o", "v"}
      /\ FormsOf(members) \subseteq Forms /\ MemberForms = FormsOf(members)
      /\ to_client \in Seq(ListMessages) /\ Len(to_client) <= MaxMessages
      /\ events \in 0 .. MaxEvents /\ MaxEvents \in Nat
  BY ViewFacts, NickAssumption DEF ListTypes, NickTypeOK, MemberForms, FormsOf, FormOf
<1>2. SUFFICES /\ members' \in Views /\ to_client' \in Seq(ListMessages) /\ Len(to_client') <= MaxMessages
               /\ events' \in 0 .. MaxEvents
               /\ asked' \in Nat /\ UNCHANGED <<hlist, ghosts, gap>>
  BY ViewFacts DEF ListTypes, NickTypeOK
<1>3. Happens => events' \in 0 .. MaxEvents
  BY <1>1 DEF Happens
<1>4. ASSUME NEW m \in ListMessages, TellChannel(m)
      PROVE  to_client' \in Seq(ListMessages) /\ Len(to_client') <= MaxMessages
  <2>1. <<m>> \in Seq(ListMessages)
    OBVIOUS
  <2> QED
    BY <1>1, <1>4, <2>1, Told DEF TellChannel
<1>5. UNCHANGED client => asked' \in Nat /\ UNCHANGED <<hlist, ghosts, gap>>
  BY DEF client, ListTypes, NickTypeOK
<1>6. ASSUME NEW n \in NickNames, Joins(n)
      PROVE  /\ members' \in Views /\ to_client' \in Seq(ListMessages) /\ Len(to_client') <= MaxMessages
             /\ Happens /\ UNCHANGED client
  <2>1. n \in Everybody /\ [type |-> "JOIN", nick |-> n] \in ListMessages
    BY MessageFacts DEF Everybody
  <2>2. members' \in [DOMAIN members \cup {n} -> SUBSET {"o", "v"}]
    BY <1>1, <1>6 DEF Joins
  <2>3. members' \in Views
    BY <1>1, <2>1, <2>2, IsView
  <2> QED
    BY <1>4, <1>6, <2>1, <2>3 DEF Joins
<1>7. ASSUME NEW n \in NickNames, Leaves(n)
      PROVE  /\ members' \in Views /\ to_client' \in Seq(ListMessages) /\ Len(to_client') <= MaxMessages
             /\ Happens /\ UNCHANGED client
  <2>1. [type |-> "LEAVE", nick |-> n] \in ListMessages
    BY MessageFacts DEF Everybody
  <2>2. members' \in [DOMAIN members \ {n} -> SUBSET {"o", "v"}]
    BY <1>1, <1>7 DEF Leaves
  <2>3. members' \in Views
    BY <1>1, <2>2, IsView
  <2> QED
    BY <1>4, <1>7, <2>1, <2>3 DEF Leaves
<1>8. ASSUME NEW n \in NickNames, NEW new \in NickNames, Renames(n, new)
      PROVE  /\ members' \in Views /\ to_client' \in Seq(ListMessages) /\ Len(to_client') <= MaxMessages
             /\ Happens /\ UNCHANGED client
  <2>1. new \in Everybody /\ [type |-> "NICK", nick |-> n, new |-> new] \in ListMessages
    BY MessageFacts DEF Everybody
  <2>2. members' \in [(DOMAIN members \ {n}) \cup {new} -> SUBSET {"o", "v"}]
    BY <1>1, <1>8 DEF Renames
  <2>3. members' \in Views
    BY <1>1, <2>1, <2>2, IsView
  <2> QED
    BY <1>4, <1>8, <2>1, <2>3 DEF Renames
<1>9. ASSUME NEW n \in Everybody, NEW set \in BOOLEAN, NEW mode \in {"o", "v"}, SetsMode(n, set, mode)
      PROVE  /\ members' \in Views /\ to_client' \in Seq(ListMessages) /\ Len(to_client') <= MaxMessages
             /\ Happens /\ UNCHANGED client
  <2>1. [type |-> "MODE", set |-> set, mode |-> mode, nick |-> n] \in ListMessages
    BY MessageFacts
  <2>2. members \in [DOMAIN members -> SUBSET {"o", "v"}]
    BY <1>1 DEF Views
  <2>3. members' \in [DOMAIN members -> SUBSET {"o", "v"}]
    BY <1>9, <2>2 DEF SetsMode
  <2>4. members' \in Views
    BY <1>1, <2>3, IsView
  <2> QED
    BY <1>4, <1>9, <2>1, <2>4 DEF SetsMode
<1>10. ASSUME NEW part \in SUBSET MemberForms, IJoin(part)
       PROVE  /\ members' \in Views /\ to_client' \in Seq(ListMessages) /\ Len(to_client') <= MaxMessages
              /\ Happens /\ UNCHANGED client
  <2>1. Me \in Everybody /\ [type |-> "JOIN", nick |-> Me] \in ListMessages
    BY MessageFacts DEF Everybody
  <2>2. members' \in [DOMAIN members \cup {Me} -> SUBSET {"o", "v"}]
    BY <1>1, <1>10 DEF IJoin
  <2>3. members' \in Views
    BY <1>1, <2>1, <2>2, IsView
  <2> DEFINE all == MemberForms \cup {<<"", Me>>}
             names == Names(part, all)
  <2>4. all \in SUBSET Forms /\ part \in SUBSET all
    BY <1>1, <2>1, FormFacts DEF Prefixes
  <2>5. names \in Seq(ListMessages)
    BY <2>4, NamesTyped
  <2> HIDE DEF names
  <2>6. <<[type |-> "JOIN", nick |-> Me]>> \in Seq(ListMessages)
    BY <2>1
  <2>7. <<[type |-> "JOIN", nick |-> Me]>> \o names \in Seq(ListMessages)
    BY <2>5, <2>6, ConcatProperties
  <2>8. Tell(<<[type |-> "JOIN", nick |-> Me]>> \o names)
    BY <1>10 DEF IJoin, names
  <2> QED
    BY <1>10, <2>3, <2>7, <2>8, Told DEF IJoin
<1>11. CASE IAmKicked
  <2>1. [type |-> "LEAVE", nick |-> Me] \in ListMessages
    BY MessageFacts DEF Everybody
  <2>2. members' \in [DOMAIN members \ {Me} -> SUBSET {"o", "v"}]
    BY <1>1, <1>11 DEF IAmKicked
  <2>3. members' \in Views
    BY <1>1, <2>2, IsView
  <2>4. <<[type |-> "LEAVE", nick |-> Me]>> \in Seq(ListMessages)
    BY <2>1
  <2>5. to_client' \in Seq(ListMessages) /\ Len(to_client') <= MaxMessages
    BY <1>11, <2>4, Told DEF IAmKicked
  <2> QED
    BY <1>3, <1>5, <1>11, <2>3, <2>5 DEF IAmKicked
<1>12. ASSUME NEW part \in SUBSET MemberForms, AnswerNames(part)
       PROVE  /\ members' \in Views /\ to_client' \in Seq(ListMessages) /\ Len(to_client') <= MaxMessages
              /\ events' \in 0 .. MaxEvents
              /\ asked' \in Nat /\ UNCHANGED <<hlist, ghosts, gap>>
  <2>1. Names(part, MemberForms) \in Seq(ListMessages)
    BY <1>1, NamesTyped
  <2>2. to_client' \in Seq(ListMessages) /\ Len(to_client') <= MaxMessages
    BY <1>1, <1>12, <2>1, Told DEF AnswerNames
  <2> QED
    BY <1>1, <1>12, <2>2 DEF AnswerNames, ListTypes, NickTypeOK
<1> QED
  BY <1>3, <1>5, <1>6, <1>7, <1>8, <1>9, <1>10, <1>11, <1>12 DEF Server

\* Every step of the server and of the client keeps the types.
LEMMA ListTypesStep == ListTypes /\ [NickNext]_nickVars => ListTypes'
<1> SUFFICES ASSUME ListTypes, [NickNext]_nickVars PROVE ListTypes'
  OBVIOUS
<1>1. ASSUME NEW sent \in BOOLEAN, AskAgain(sent)
      PROVE  /\ hlist' \in [Forms -> Nat] /\ ghosts' \in BOOLEAN /\ gap' \in {"none", "cleared", "coming"}
             /\ asked' \in Nat
  <2>1. hlist' = EmptyList /\ ghosts' = FALSE /\ gap' = "cleared" /\ asked' \in {asked, asked + 1}
    BY <1>1 DEF AskAgain
  <2>2. EmptyList \in [Forms -> Nat]
    BY DEF EmptyList
  <2>3. asked \in Nat
    BY DEF ListTypes, NickTypeOK
  <2>4. asked' \in Nat
    BY <2>1, <2>3
  <2>5. ghosts' \in BOOLEAN /\ gap' \in {"none", "cleared", "coming"}
    BY <2>1
  <2>6. hlist' \in [Forms -> Nat]
    BY <2>1, <2>2
  <2> QED
    BY <2>4, <2>5, <2>6
<1>2. ASSUME NEW sent \in BOOLEAN, Handle(sent)
      PROVE  ListTypes'
  <2> DEFINE m == Head(to_client)
  <2>1. /\ m \in ListMessages /\ to_client' \in Seq(ListMessages) /\ Len(to_client') <= MaxMessages
    <3>1. /\ m \in ListMessages /\ to_client' \in Seq(ListMessages) /\ Len(to_client') = Len(to_client) - 1
          /\ Len(to_client) \in Nat
      BY <1>2, HeadTailProperties, LenProperties DEF Handle, ListTypes
    <3>2. Len(to_client) <= MaxMessages /\ MaxMessages \in Nat
      BY NickAssumption DEF ListTypes, NickTypeOK
    <3> QED
      BY <3>1, <3>2
  <2>2. hlist \in [Forms -> Nat] /\ Me \in Everybody
    BY DEF ListTypes, NickTypeOK, Everybody
  <2>3. UNCHANGED <<members, events>>
    BY <1>2 DEF Handle
  <2>4. HandleJoin(m) \/ HandleLeave(m) \/ HandleNick(m) \/ HandleMode(m, sent) \/ HandleNames(m)
    BY <1>2 DEF Handle
  <2> HIDE DEF m
  <2>5. ASSUME NEW list \in [Forms -> Nat], Changes(list)
        PROVE  /\ hlist' \in [Forms -> Nat] /\ ghosts' \in BOOLEAN /\ gap' \in {"none", "cleared", "coming"}
               /\ asked' \in Nat
    BY <2>5 DEF Changes, ListTypes, NickTypeOK
  <2>6. /\ hlist' \in [Forms -> Nat] /\ ghosts' \in BOOLEAN /\ gap' \in {"none", "cleared", "coming"}
        /\ asked' \in Nat
    <3>1. CASE HandleJoin(m)
      <4>1. m.nick \in Everybody /\ <<"", m.nick>> \in Forms
        BY <2>1, <3>1, MessageFacts, FormFacts DEF HandleJoin, Prefixes
      <4>2. AddNick(hlist, <<"", m.nick>>) \in [Forms -> Nat]
        BY <2>2, <4>1, ListBox
      <4>3. Changes(IF m.nick = Me THEN hlist ELSE AddNick(hlist, <<"", m.nick>>))
        BY <3>1 DEF HandleJoin
      <4> QED
        BY <2>2, <2>5, <4>2, <4>3
    <3>2. CASE HandleLeave(m)
      <4>1. m.nick \in Everybody /\ hlist' = DropNick(hlist, m.nick)
        BY <2>1, <3>2, MessageFacts DEF HandleLeave
      <4>2. hlist' \in [Forms -> Nat]
        BY <2>2, <4>1, ListBox
      <4> QED
        BY <3>2, <4>2 DEF HandleLeave, ListTypes, NickTypeOK
    <3>3. CASE HandleNick(m)
      <4>1. m.nick \in Everybody /\ m.new \in Everybody /\ Changes(RenameNick(hlist, m.nick, m.new))
        BY <2>1, <3>3, MessageFacts DEF HandleNick
      <4> QED
        BY <2>2, <2>5, <4>1, ListBox
    <3>4. CASE HandleMode(m, sent)
      <4>1. m.nick \in Everybody /\ m.mode \in {"o", "v"}
        BY <2>1, <3>4, MessageFacts DEF HandleMode
      <4>2. IF m.set THEN Changes(SetShown(hlist, m.mode, m.nick)) ELSE AskAgain(sent)
        BY <3>4 DEF HandleMode
      <4>3. SetShown(hlist, m.mode, m.nick) \in [Forms -> Nat]
        BY <2>2, <4>1, ListBox
      <4> QED
        BY <1>1, <2>5, <4>2, <4>3
    <3>5. CASE HandleNames(m)
      <4>1. m.forms \in SUBSET Forms /\ hlist' = AddNicks(hlist, m.forms)
        BY <2>1, <3>5, MessageFacts DEF HandleNames
      <4>2. hlist' \in [Forms -> Nat]
        BY <2>2, <4>1, ListBox
      <4>3. gap' \in {"coming", "none", gap}
        BY <3>5 DEF HandleNames
      <4> QED
        BY <3>5, <4>2, <4>3 DEF HandleNames, ListTypes, NickTypeOK
    <3> QED
      BY <2>4, <3>1, <3>2, <3>3, <3>4, <3>5
  <2> QED
    BY <2>1, <2>3, <2>6 DEF ListTypes, NickTypeOK
<1>3. ASSUME NEW sent \in BOOLEAN, Refresh(sent)
      PROVE  ListTypes'
  BY <1>1, <1>3 DEF Refresh, ListTypes, NickTypeOK
<1>4. CASE UNCHANGED nickVars
  BY <1>4 DEF nickVars, ListTypes, NickTypeOK
<1> QED
  BY <1>2, <1>3, <1>4, ServerTypes DEF NickNext

\* The list box never counts below zero, and it holds forms of nicks, whatever comes.
THEOREM NickTypes == NickSpec => []NickTypeOK
<1>1. ListTypes => NickTypeOK
  BY DEF ListTypes
<1> QED
  BY <1>1, ListTypesInit, ListTypesStep, PTL DEF NickSpec

-----------------------------------------------------------------------------
\* After a message the list has members only, and all of them if it had all before.
Keeps(new, next, list, view) ==
  /\ OnlyMembers(new, next)
  /\ (\A n \in DOMAIN view : Right(list, view, n)) => \A n \in DOMAIN next : Right(new, next, n)

\* A list with members only has each form once at most, and none of others.
LEMMA OnlyOnce ==
  ASSUME NEW list \in [Forms -> Nat], NEW view, OnlyMembers(list, view)
  PROVE  /\ Once(list)
         /\ \A n \in Everybody \ DOMAIN view : \A p \in Prefixes : list[<<p, n>>] = 0
         /\ \A n \in Everybody : OneForm(list, n)
<1>1. \A n \in Everybody \ DOMAIN view : OneForm(list, n)
  BY DEF OnlyMembers, OneForm
<1>2. \A n \in DOMAIN view : OneForm(list, n)
  BY DEF OnlyMembers, OneForm
<1> QED
  BY <1>1, <1>2 DEF OnlyMembers, Once

\* The others are as right as before.
OthersKept(new, next, list, view, n) ==
  OnlyMembers(new, next) /\ \A k \in DOMAIN next \ {n} : Right(list, view, k) => Right(new, next, k)

\* The others and their modes stay.
OthersSame(view, next, n) ==
  DOMAIN next \ {n} = DOMAIN view \ {n} /\ \A k \in DOMAIN next \ {n} : next[k] = view[k]

\* Somebody comes, goes or gets another form.
LEMMA SetKeeps ==
  ASSUME NEW list \in [Forms -> Nat], NEW new \in [Forms -> Nat], NEW view \in Views, NEW next \in Views,
         OnlyMembers(list, view), NEW n \in Everybody, NEW prefixes, SetTo(new, list, n, prefixes),
         \A p, q \in prefixes : p = q, n \notin DOMAIN next => prefixes = {},
         OthersSame(view, next, n)
  PROVE  /\ OthersKept(new, next, list, view, n)
         /\ n \in DOMAIN next /\ prefixes = {Shown(next[n])} => Right(new, next, n)
<1>1. /\ DOMAIN view \subseteq Everybody /\ DOMAIN next \subseteq Everybody
      /\ DOMAIN next \ {n} = DOMAIN view \ {n} /\ \A k \in DOMAIN next \ {n} : next[k] = view[k]
  BY ViewFacts DEF OthersSame
<1>2. /\ \A p \in Prefixes : new[<<p, n>>] = IF p \in prefixes THEN 1 ELSE 0
      /\ \A m \in Everybody \ {n}, p \in Prefixes : new[<<p, m>>] = list[<<p, m>>]
  BY DEF SetTo
<1>3. ASSUME NEW f \in Forms
      PROVE  new[f] \in {0, 1}
  <2>1. PICK p \in Prefixes, m \in Everybody : f = <<p, m>>
    BY FormFacts
  <2>2. CASE m = n
    BY <1>2, <2>1, <2>2
  <2>3. CASE m # n
    BY <1>2, <2>1, <2>3, FormFacts DEF OnlyMembers
  <2> QED
    BY <2>2, <2>3
<1>4. ASSUME NEW m \in Everybody \ DOMAIN next, NEW p \in Prefixes
      PROVE  new[<<p, m>>] = 0
  <2>1. CASE m = n
    BY <1>2, <2>1
  <2>2. CASE m # n
    BY <1>1, <1>2, <2>2 DEF OnlyMembers
  <2> QED
    BY <2>1, <2>2
<1>5. ASSUME NEW m \in DOMAIN next, NEW p \in Prefixes, NEW o \in Prefixes, new[<<p, m>>] = 1, new[<<o, m>>] = 1
      PROVE  p = o
  <2>1. CASE m = n
    BY <1>2, <1>5, <2>1
  <2>2. CASE m # n
    BY <1>1, <1>2, <1>5, <2>2 DEF OnlyMembers
  <2> QED
    BY <2>1, <2>2
<1>6. \A k \in DOMAIN next \ {n} : Right(list, view, k) => Right(new, next, k)
  BY <1>1, <1>2 DEF Right
<1>7. n \in DOMAIN next /\ prefixes = {Shown(next[n])} => Right(new, next, n)
  BY <1>2 DEF Right
<1> QED
  BY <1>3, <1>4, <1>5, <1>6, <1>7 DEF OnlyMembers, OthersKept

\* join_channel_event for somebody else.
LEMMA JoinKeeps ==
  ASSUME NEW list \in [Forms -> Nat], NEW view \in Views, NEW next \in Views, OnlyMembers(list, view),
         NEW n \in Everybody \ DOMAIN view, DOMAIN next = DOMAIN view \cup {n}, next[n] = {},
         \A k \in DOMAIN view : next[k] = view[k]
  PROVE  Keeps(AddNick(list, <<"", n>>), next, list, view)
<1> DEFINE q == ""
           new == AddNick(list, <<q, n>>)
<1>1. q \in Prefixes /\ q = Shown(next[n]) /\ n \in Everybody
  BY ShownFacts DEF Prefixes
<1>2. SetTo(new, list, n, {q}) /\ new \in [Forms -> Nat]
  BY <1>1, OnlyOnce, AddNickIs, ListBox, FormFacts
<1> HIDE DEF new, q
<1>3. OthersKept(new, next, list, view, n) /\ ({q} = {Shown(next[n])} => Right(new, next, n))
  <2>1. n \in DOMAIN next /\ (\A p, o \in {q} : p = o) /\ (n \notin DOMAIN next => {q} = {})
    OBVIOUS
  <2>2. OthersSame(view, next, n)
    BY DEF OthersSame
  <2> QED
    BY <1>1, <1>2, <2>1, <2>2, SetKeeps, SMTT(60)
<1> QED
  BY <1>1, <1>3 DEF Keeps, OthersKept, new, q

\* part_channel_event, quit_irc_event and event_kick.
LEMMA LeaveKeeps ==
  ASSUME NEW list \in [Forms -> Nat], NEW view \in Views, NEW next \in Views, OnlyMembers(list, view),
         NEW n \in DOMAIN view, DOMAIN next = DOMAIN view \ {n}, \A k \in DOMAIN next : next[k] = view[k]
  PROVE  Keeps(DropNick(list, n), next, list, view)
<1> DEFINE new == DropNick(list, n)
<1>1. n \in Everybody
  BY ViewFacts
<1>2. SetTo(new, list, n, {}) /\ new \in [Forms -> Nat]
  BY <1>1, OnlyOnce, DropNickIs, ListBox
<1> HIDE DEF new
<1>3. OthersKept(new, next, list, view, n)
  <2>1. \A p, q \in {} : p = q
    OBVIOUS
  <2>2. OthersSame(view, next, n)
    BY DEF OthersSame
  <2> QED
    BY <1>1, <1>2, <2>1, <2>2, SetKeeps
<1> QED
  BY <1>3 DEF Keeps, OthersKept, new

\* event_mode, for what is given.
LEMMA ModeKeeps ==
  ASSUME NEW list \in [Forms -> Nat], NEW view \in Views, NEW next \in Views, OnlyMembers(list, view),
         NEW n \in DOMAIN view, NEW mode \in {"o", "v"}, DOMAIN next = DOMAIN view,
         next[n] = view[n] \cup {mode}, \A k \in DOMAIN view \ {n} : next[k] = view[k]
  PROVE  Keeps(SetShown(list, mode, n), next, list, view)
<1>1. n \in Everybody /\ "@" \in Prefixes /\ "+" \in Prefixes /\ <<"@", n>> \in Forms
  BY ViewFacts, FormFacts DEF Prefixes
<1>2. list[<<"@", n>>] \in {0, 1}
  BY <1>1 DEF OnlyMembers
<1>3. CASE mode = "v" /\ list[<<"@", n>>] = 1
  <2>1. SetShown(list, mode, n) = list
    BY <1>3 DEF SetShown
  <2>2. OnlyMembers(list, next)
    BY DEF OnlyMembers
  <2>3. ASSUME Right(list, view, n)
        PROVE  Right(list, next, n)
    <3>1. "@" = Shown(view[n])
      BY <1>1, <1>3, <2>3 DEF Right
    <3>2. "o" \in view[n]
      BY <3>1, ShownFacts
    <3>3. Shown(next[n]) = "@"
      BY <3>2, ShownFacts
    <3> QED
      BY <2>3, <3>1, <3>3 DEF Right
  <2>4. \A k \in DOMAIN view \ {n} : Right(list, view, k) => Right(list, next, k)
    BY DEF Right
  <2> QED
    BY <2>1, <2>2, <2>3, <2>4 DEF Keeps
<1>4. CASE ~(mode = "v" /\ list[<<"@", n>>] = 1)
  <2> DEFINE q == IF mode = "o" THEN "@" ELSE "+"
             new == AddNick(list, <<q, n>>)
  <2>1. SetShown(list, mode, n) = new /\ q \in Prefixes
    BY <1>1, <1>2, <1>4 DEF SetShown
  <2>2. SetTo(new, list, n, {q}) /\ new \in [Forms -> Nat]
    BY <1>1, <2>1, OnlyOnce, AddNickIs, ListBox, FormFacts
  <2>3. Right(list, view, n) => q = Shown(next[n])
    <3>1. CASE mode = "o"
      BY <3>1, ShownFacts
    <3>2. CASE mode = "v"
      <4>1. list[<<"@", n>>] = 0
        BY <1>2, <1>4, <3>2
      <4>2. Right(list, view, n) => "@" # Shown(view[n])
        BY <1>1, <4>1 DEF Right
      <4>3. Right(list, view, n) => "o" \notin view[n]
        BY <4>2, ShownFacts
      <4>4. Right(list, view, n) => "o" \notin next[n] /\ "v" \in next[n]
        BY <3>2, <4>3
      <4> QED
        BY <3>2, <4>4, ShownFacts
    <3> QED
      BY <3>1, <3>2
  <2> HIDE DEF new, q
  <2>4. /\ OthersKept(new, next, list, view, n)
        /\ {q} = {Shown(next[n])} => Right(new, next, n)
    <3>1. n \in DOMAIN next /\ (\A p, o \in {q} : p = o) /\ (n \notin DOMAIN next => {q} = {})
      OBVIOUS
    <3>2. OthersSame(view, next, n)
      BY DEF OthersSame
    <3>3. n \in Everybody /\ SetTo(new, list, n, {q}) /\ new \in [Forms -> Nat]
      BY <1>1, <2>2
    <3> QED
      BY <3>1, <3>2, <3>3, SetKeeps
  <2> QED
    BY <2>1, <2>3, <2>4 DEF Keeps, OthersKept
<1> QED
  BY <1>2, <1>3, <1>4

\* event_nick
LEMMA NickKeeps ==
  ASSUME NEW list \in [Forms -> Nat], NEW view \in Views, NEW next \in Views, OnlyMembers(list, view),
         NEW n \in DOMAIN view, NEW new \in Everybody \ DOMAIN view,
         DOMAIN next = (DOMAIN view \ {n}) \cup {new}, next[new] = view[n],
         \A k \in DOMAIN view \ {n} : next[k] = view[k]
  PROVE  Keeps(RenameNick(list, n, new), next, list, view)
<1> DEFINE box == RenameNick(list, n, new)
<1>1. n \in Everybody /\ n # new /\ DOMAIN view \subseteq Everybody /\ DOMAIN next \subseteq Everybody
  BY ViewFacts
<1>2. Once(list) /\ OneForm(list, n) /\ \A p \in Prefixes : list[<<p, new>>] = 0
  BY <1>1, OnlyOnce
<1>3. /\ \A p \in Prefixes : box[<<p, n>>] = 0 /\ box[<<p, new>>] = list[<<p, n>>]
      /\ \A m \in Everybody \ {n, new}, p \in Prefixes : box[<<p, m>>] = list[<<p, m>>]
  BY <1>1, <1>2, RenameNickIs
<1> HIDE DEF box
<1>4. ASSUME NEW f \in Forms
      PROVE  box[f] \in {0, 1}
  <2>1. PICK p \in Prefixes, m \in Everybody : f = <<p, m>>
    BY FormFacts
  <2>2. CASE m = n
    BY <1>3, <2>1, <2>2
  <2>3. CASE m = new
    <3>1. list[<<p, n>>] \in {0, 1}
      BY <1>1, FormFacts DEF OnlyMembers
    <3> QED
      BY <1>3, <2>1, <2>3, <3>1
  <2>4. CASE m \notin {n, new}
    BY <1>3, <2>1, <2>4, FormFacts DEF OnlyMembers
  <2> QED
    BY <2>2, <2>3, <2>4
<1>5. ASSUME NEW m \in Everybody \ DOMAIN next, NEW p \in Prefixes
      PROVE  box[<<p, m>>] = 0
  <2>1. CASE m = n
    BY <1>3, <2>1
  <2>2. CASE m # n
    <3>1. m \in Everybody \ DOMAIN view /\ m \in Everybody \ {n, new}
      BY <2>2
    <3> QED
      BY <1>3, <3>1 DEF OnlyMembers
  <2> QED
    BY <2>1, <2>2
<1>6. ASSUME NEW m \in DOMAIN next, NEW p \in Prefixes, NEW q \in Prefixes, box[<<p, m>>] = 1, box[<<q, m>>] = 1
      PROVE  p = q
  <2>1. CASE m = new
    <3>1. list[<<p, n>>] = 1 /\ list[<<q, n>>] = 1
      BY <1>3, <1>6, <2>1
    <3> QED
      BY <3>1 DEF OnlyMembers
  <2>2. CASE m # new
    <3>1. m \in DOMAIN view /\ m \in Everybody \ {n, new}
      BY <1>1, <2>2
    <3> QED
      BY <1>3, <1>6, <3>1 DEF OnlyMembers
  <2> QED
    BY <2>1, <2>2
<1>7. ASSUME NEW m \in DOMAIN next, m # new, Right(list, view, m)
      PROVE  Right(box, next, m)
  <2>1. m \in Everybody \ {n, new} /\ next[m] = view[m]
    BY <1>1, <1>7
  <2> QED
    BY <1>3, <1>7, <2>1 DEF Right
<1>8. Right(list, view, n) => Right(box, next, new)
  BY <1>3 DEF Right
<1>9. OnlyMembers(box, next)
  BY <1>4, <1>5, <1>6 DEF OnlyMembers
<1> QED
  BY <1>7, <1>8, <1>9 DEF Keeps, box

\* list_names_event: who is named is right afterwards, and who was right stays so.
LEMMA NamesKeep ==
  ASSUME NEW list \in [Forms -> Nat], NEW view \in Views, OnlyMembers(list, view),
         NEW forms \in SUBSET FormsOf(view)
  PROVE  /\ OnlyMembers(AddNicks(list, forms), view)
         /\ \A n \in DOMAIN view : FormOf(view, n) \in forms \/ Right(list, view, n)
                                     => Right(AddNicks(list, forms), view, n)
<1> DEFINE new == AddNicks(list, forms)
<1>1. DOMAIN view \subseteq Everybody /\ forms \in SUBSET Forms /\ Once(list)
  BY ViewFacts, OnlyOnce
<1>2. ASSUME NEW n \in Everybody, NEW p \in Prefixes, <<p, n>> \in forms
      PROVE  n \in DOMAIN view /\ p = Shown(view[n])
  BY <1>2 DEF FormsOf, FormOf
<1>3. ASSUME NEW n \in Everybody
      PROVE  /\ (\E p \in Prefixes : <<p, n>> \in forms) =>
                   \A p \in Prefixes : new[<<p, n>>] = IF <<p, n>> \in forms THEN 1 ELSE 0
             /\ (\A p \in Prefixes : <<p, n>> \notin forms) =>
                   \A p \in Prefixes : new[<<p, n>>] = list[<<p, n>>]
  <2>1. \A p, q \in Prefixes : <<p, n>> \in forms /\ <<q, n>> \in forms => p = q
    BY <1>2
  <2> QED
    BY <1>1, <2>1, AddNicksIs
<1> HIDE DEF new
<1>4. ASSUME NEW n \in Everybody
      PROVE  \/ n \in DOMAIN view /\ Right(new, view, n)
             \/ \A p \in Prefixes : <<p, n>> \notin forms /\ new[<<p, n>>] = list[<<p, n>>]
  <2>1. CASE \E p \in Prefixes : <<p, n>> \in forms
    <3>1. PICK q \in Prefixes : <<q, n>> \in forms
      BY <2>1
    <3>2. n \in DOMAIN view /\ q = Shown(view[n])
      BY <1>2, <3>1
    <3>3. \A p \in Prefixes : <<p, n>> \in forms <=> p = q
      BY <1>2, <3>1, <3>2
    <3>4. \A p \in Prefixes : new[<<p, n>>] = IF p = q THEN 1 ELSE 0
      BY <1>3, <3>1, <3>3
    <3> QED
      BY <3>2, <3>4 DEF Right
  <2>2. CASE \A p \in Prefixes : <<p, n>> \notin forms
    BY <1>3, <2>2
  <2> QED
    BY <2>1, <2>2
<1>5. ASSUME NEW f \in Forms
      PROVE  new[f] \in {0, 1}
  <2>1. PICK p \in Prefixes, n \in Everybody : f = <<p, n>>
    BY FormFacts
  <2>2. list[<<p, n>>] \in {0, 1}
    BY FormFacts DEF OnlyMembers
  <2>3. Right(new, view, n) => new[<<p, n>>] \in {0, 1}
    BY DEF Right
  <2> QED
    BY <1>4, <2>1, <2>2, <2>3
<1>6. ASSUME NEW n \in Everybody \ DOMAIN view, NEW p \in Prefixes
      PROVE  new[<<p, n>>] = 0
  BY <1>4 DEF OnlyMembers
<1>7. ASSUME NEW n \in DOMAIN view, NEW p \in Prefixes, NEW q \in Prefixes, new[<<p, n>>] = 1, new[<<q, n>>] = 1
      PROVE  p = q
  <2>1. Right(new, view, n) => p = q
    BY <1>7 DEF Right
  <2>2. list[<<p, n>>] = 1 /\ list[<<q, n>>] = 1 => p = q
    BY DEF OnlyMembers
  <2> QED
    BY <1>1, <1>4, <1>7, <2>1, <2>2
<1>8. ASSUME NEW n \in DOMAIN view, FormOf(view, n) \in forms \/ Right(list, view, n)
      PROVE  Right(new, view, n)
  <2>1. n \in Everybody /\ Shown(view[n]) \in Prefixes
    BY <1>1, ShownFacts
  <2>2. CASE Right(new, view, n)
    BY <2>2
  <2>3. CASE \A p \in Prefixes : <<p, n>> \notin forms /\ new[<<p, n>>] = list[<<p, n>>]
    <3>1. FormOf(view, n) \notin forms
      BY <2>1, <2>3 DEF FormOf
    <3> QED
      BY <1>8, <2>3, <3>1 DEF Right
  <2> QED
    BY <1>4, <2>1, <2>2, <2>3
<1>9. OnlyMembers(new, view)
  BY <1>5, <1>6, <1>7 DEF OnlyMembers
<1> QED
  BY <1>8, <1>9 DEF new

-----------------------------------------------------------------------------
\* The views after the first message is handled.
LEMMA Shift ==
  ASSUME NEW queue \in Seq(ListMessages), queue # <<>>, NEW now, NEW views, ViewsOf(views, queue, now)
  PROVE  \E shifted : ViewsOf(shifted, Tail(queue), now) /\ shifted[1] = views[2]
<1> DEFINE l == Len(queue)
           rest == Tail(queue)
           shifted == [i \in 1 .. l |-> views[i + 1]]
<1>1. /\ l \in Nat \ {0} /\ Len(rest) = l - 1 /\ \A i \in 1 .. Len(rest) : rest[i] = queue[i + 1]
  BY HeadTailProperties, EmptySeq
<1>2. /\ views \in [1 .. l + 1 -> Views]
      /\ \A i \in 1 .. l : Tells(queue[i], views[i], views[i + 1])
      /\ \A i \in 1 .. l : Followed(queue[i], i, queue, views[i])
      /\ IF Me \in DOMAIN now THEN views[l + 1] = now ELSE Me \notin DOMAIN views[l + 1]
  BY DEF ViewsOf
<1> HIDE DEF l, rest
<1>3. /\ \A i \in 1 .. l : i + 1 \in 1 .. l + 1
      /\ \A i \in 1 .. l - 1 : i \in 1 .. l /\ i + 1 \in 1 .. l
      /\ \A i \in 1 .. l - 1 : i + 1 < l => i < l - 1 /\ i + 1 \in 1 .. l - 1
      /\ 1 \in 1 .. l /\ l \in 1 .. l /\ (l - 1) + 1 = l /\ 1 + 1 = 2
  BY <1>1
<1>4. shifted \in [1 .. Len(rest) + 1 -> Views] /\ \A i \in 1 .. l : shifted[i] = views[i + 1]
  BY <1>1, <1>2, <1>3
<1> HIDE DEF shifted
<1>5. \A i \in 1 .. Len(rest) : Tells(rest[i], shifted[i], shifted[i + 1])
  BY <1>1, <1>2, <1>3, <1>4
<1>6. ASSUME NEW i \in 1 .. Len(rest)
      PROVE  Followed(rest[i], i, rest, shifted[i])
  <2>1. Followed(queue[i + 1], i + 1, queue, shifted[i]) /\ rest[i] = queue[i + 1]
    BY <1>1, <1>2, <1>3, <1>4
  <2>2. i + 1 < Len(queue) => i < Len(rest) /\ rest[i + 1] = queue[(i + 1) + 1]
    BY <1>1, <1>3 DEF l
  <2> QED
    BY <2>1, <2>2 DEF Followed
<1>7. IF Me \in DOMAIN now THEN shifted[Len(rest) + 1] = now ELSE Me \notin DOMAIN shifted[Len(rest) + 1]
  BY <1>1, <1>2, <1>3, <1>4
<1>8. ViewsOf(shifted, rest, now) /\ shifted[1] = views[2]
  BY <1>3, <1>4, <1>5, <1>6, <1>7 DEF ViewsOf
<1> QED
  BY <1>8 DEF rest

\* The views when more messages come.
LEMMA Grow ==
  ASSUME NEW queue \in Seq(ListMessages), NEW more \in Seq(ListMessages), NEW before, NEW now,
         NEW views, ViewsOf(views, queue, before),
         NEW later, ViewsOf(later, more, now), later[1] = views[Len(queue) + 1]
  PROVE  \E grown : ViewsOf(grown, queue \o more, now) /\ grown[1] = views[1]
<1> DEFINE l == Len(queue)
           k == Len(more)
           all == queue \o more
           grown == [i \in 1 .. l + k + 1 |-> IF i <= l + 1 THEN views[i] ELSE later[i - l]]
<1>1. /\ l \in Nat /\ k \in Nat /\ Len(all) = l + k
      /\ \A i \in 1 .. l + k : all[i] = IF i <= l THEN queue[i] ELSE more[i - l]
  BY ConcatProperties, LenProperties
<1>2. /\ views \in [1 .. l + 1 -> Views]
      /\ \A i \in 1 .. l : Tells(queue[i], views[i], views[i + 1])
      /\ \A i \in 1 .. l : Followed(queue[i], i, queue, views[i])
  BY DEF ViewsOf
<1>3. /\ later \in [1 .. k + 1 -> Views] /\ later[1] = views[l + 1]
      /\ \A i \in 1 .. k : Tells(more[i], later[i], later[i + 1])
      /\ \A i \in 1 .. k : Followed(more[i], i, more, later[i])
      /\ IF Me \in DOMAIN now THEN later[k + 1] = now ELSE Me \notin DOMAIN later[k + 1]
  BY DEF ViewsOf
<1> HIDE DEF l, k, all
<1>4. /\ \A i \in 1 .. l + k + 1 : i <= l + 1 => i \in 1 .. l + 1
      /\ \A i \in 1 .. l + k + 1 : ~(i <= l + 1) => i - l \in 1 .. k + 1
      /\ Len(all) + 1 = l + k + 1
  BY <1>1
<1>5. grown \in [1 .. Len(all) + 1 -> Views]
  BY <1>2, <1>3, <1>4
<1>6. /\ \A i \in 1 .. l + 1 : grown[i] = views[i] /\ i \in 1 .. l + k + 1
      /\ \A i \in 1 .. k + 1 : grown[i + l] = later[i]
  <2>1. ASSUME NEW i \in 1 .. l + 1
        PROVE  i \in 1 .. l + k + 1 /\ i <= l + 1
    BY <1>1
  <2>2. ASSUME NEW i \in 1 .. k + 1
        PROVE  /\ i + l \in 1 .. l + k + 1 /\ (i + l) - l = i
               /\ i + l <= l + 1 => i = 1 /\ i + l = l + 1
    BY <1>1
  <2> QED
    BY <1>3, <2>1, <2>2
<1> HIDE DEF grown
<1>7. /\ \A i \in 1 .. l : i \in 1 .. l + 1 /\ i + 1 \in 1 .. l + 1 /\ i \in 1 .. l + k /\ i <= l
      /\ \A i \in 1 .. l : i < l => i + 1 \in 1 .. l /\ i + 1 \in 1 .. l + k /\ i + 1 <= l /\ i < l + k
      /\ 1 \in 1 .. l + 1
  BY <1>1
<1>8. ASSUME NEW i \in 1 .. k
      PROVE  /\ i \in 1 .. k + 1 /\ i + 1 \in 1 .. k + 1 /\ i + l \in 1 .. l + k /\ ~(i + l <= l)
             /\ (i + l) - l = i /\ (i + l) + 1 = (i + 1) + l
             /\ i < k => /\ i + l < l + k /\ (i + l) + 1 \in 1 .. l + k /\ ~((i + l) + 1 <= l)
                         /\ ((i + l) + 1) - l = i + 1
  BY <1>1
<1>9. ASSUME NEW i \in 1 .. l
      PROVE  Tells(all[i], grown[i], grown[i + 1]) /\ Followed(all[i], i, all, grown[i])
  <2>1. all[i] = queue[i] /\ grown[i] = views[i] /\ grown[i + 1] = views[i + 1]
    BY <1>1, <1>6, <1>7
  <2>2. i < Len(queue) => i < Len(all) /\ all[i + 1] = queue[i + 1]
    BY <1>1, <1>7 DEF l
  <2>3. Followed(queue[i], i, queue, views[i])
    BY <1>2
  <2>4. Followed(all[i], i, all, grown[i])
    BY <2>1, <2>2, <2>3 DEF Followed
  <2> QED
    BY <1>2, <2>1, <2>4
<1>10. ASSUME NEW i \in 1 .. k
       PROVE  Tells(all[i + l], grown[i + l], grown[(i + l) + 1]) /\ Followed(all[i + l], i + l, all, grown[i + l])
  <2>1. all[i + l] = more[i] /\ grown[i + l] = later[i] /\ grown[(i + l) + 1] = later[i + 1]
    BY <1>1, <1>6, <1>8
  <2>2. i < Len(more) => i + l < Len(all) /\ all[(i + l) + 1] = more[i + 1]
    BY <1>1, <1>8, SMTT(60) DEF k
  <2>3. Followed(more[i], i, more, later[i])
    BY <1>3
  <2>4. Followed(all[i + l], i + l, all, grown[i + l])
    BY <2>1, <2>2, <2>3 DEF Followed
  <2> QED
    BY <1>3, <2>1, <2>4
<1>11. ASSUME NEW i \in 1 .. Len(all)
       PROVE  Tells(all[i], grown[i], grown[i + 1]) /\ Followed(all[i], i, all, grown[i])
  <2>1. i \in 1 .. l \/ \E j \in 1 .. k : i = j + l
    <3>1. i <= l \/ (i - l \in 1 .. k /\ i = (i - l) + l)
      BY <1>1
    <3> QED
      BY <1>1, <3>1
  <2> QED
    BY <1>9, <1>10, <2>1
<1>12. grown[Len(all) + 1] = later[k + 1]
  <2>1. k + 1 \in 1 .. k + 1 /\ (k + 1) + l = Len(all) + 1
    BY <1>1
  <2> QED
    BY <1>6, <2>1
<1>13. ViewsOf(grown, all, now) /\ grown[1] = views[1]
  BY <1>3, <1>5, <1>6, <1>7, <1>11, <1>12 DEF ViewsOf
<1> QED
  BY <1>13 DEF all

\* What is up to date stays so when messages come, since they come behind the others.
LEMMA StaysUpToDate ==
  ASSUME NEW queue \in Seq(ListMessages), NEW more \in Seq(ListMessages), NEW list, NEW view, NEW state,
         UpToDate(list, view, queue, state)
  PROVE  UpToDate(list, view, queue \o more, state)
<1>1. queue # <<>> => queue \o more # <<>> /\ (queue \o more)[1] = queue[1]
  <2> SUFFICES ASSUME queue # <<>> PROVE queue \o more # <<>> /\ (queue \o more)[1] = queue[1]
    OBVIOUS
  <2>1. Len(queue) \in Nat \ {0} /\ Len(more) \in Nat
    BY EmptySeq, LenProperties
  <2>2. 1 \in 1 .. Len(queue) + Len(more) /\ 1 <= Len(queue) /\ Len(queue) + Len(more) # 0
    BY <2>1
  <2> QED
    BY <2>2, ConcatProperties, EmptySeq
<1> QED
  BY <1>1 DEF UpToDate, AllRight

-----------------------------------------------------------------------------
\* One message that is not an answer, or the client's own JOIN.
LEMMA OneMore ==
  ASSUME NEW m \in ListMessages, NEW view \in Views, NEW next \in Views, NEW now, Tells(m, view, next),
         m.type # "NAMES", ~(m.type = "JOIN" /\ m.nick = Me),
         IF Me \in DOMAIN now THEN next = now ELSE Me \notin DOMAIN next
  PROVE  \E later : ViewsOf(later, <<m>>, now) /\ later[1] = view
<1>1. PICK later \in [1 .. 2 -> Views] : later[1] = view /\ later[2] = next
  <2> DEFINE two == [i \in 1 .. 2 |-> IF i = 1 THEN view ELSE next]
  <2>1. two \in [1 .. 2 -> Views] /\ two[1] = view /\ two[2] = next
    OBVIOUS
  <2> HIDE DEF two
  <2> QED
    BY <2>1
<1> DEFINE messages == <<m>>
<1>2. Len(messages) = 1 /\ messages[1] = m /\ 1 + 1 = 2
  OBVIOUS
<1> HIDE DEF messages
<1>3. \A i \in 1 .. 1 : i = 1
  OBVIOUS
<1>4. Followed(m, 1, messages, view)
  BY DEF Followed
<1>5. ViewsOf(later, messages, now)
  BY <1>1, <1>2, <1>3, <1>4 DEF ViewsOf
<1> QED
  BY <1>1, <1>5 DEF messages

\* An answer, while the client is in the channel.
LEMMA AnswerMore ==
  ASSUME NEW view \in Views, Me \in DOMAIN view, NEW part \in SUBSET FormsOf(view)
  PROVE  \E later : ViewsOf(later, Names(part, FormsOf(view)), view) /\ later[1] = view
<1> DEFINE one == [type |-> "NAMES", forms |-> part, last |-> FALSE]
           two == [type |-> "NAMES", forms |-> FormsOf(view) \ part, last |-> TRUE]
           messages == <<one, two>>
<1>1. PICK later \in [1 .. 3 -> Views] : later[1] = view /\ later[2] = view /\ later[3] = view
  <2>1. [i \in 1 .. 3 |-> view] \in [1 .. 3 -> Views] /\ 1 \in 1 .. 3 /\ 2 \in 1 .. 3 /\ 3 \in 1 .. 3
    OBVIOUS
  <2> QED
    BY <2>1
<1>2. /\ one.type = "NAMES" /\ one.forms = part /\ one.last = FALSE
      /\ two.type = "NAMES" /\ two.forms = FormsOf(view) \ part /\ two.last = TRUE
  OBVIOUS
<1>3. messages = Names(part, FormsOf(view))
  BY DEF Names
<1> HIDE DEF one, two
<1>4. Len(messages) = 2 /\ messages[1] = one /\ messages[2] = two /\ 1 + 1 = 2 /\ 2 + 1 = 3 /\ 1 < 2
  OBVIOUS
<1> HIDE DEF messages
<1>5. Tells(one, view, view) /\ Tells(two, view, view)
  BY <1>2 DEF Tells
<1>6. Followed(one, 1, messages, view) /\ Followed(two, 2, messages, view)
  <2>1. FormsOf(view) \subseteq one.forms \cup two.forms
    BY <1>2
  <2> QED
    BY <1>2, <1>4, <2>1 DEF Followed
<1>7. \A i \in 1 .. 2 : i = 1 \/ i = 2
  OBVIOUS
<1>8. ViewsOf(later, messages, view)
  BY <1>1, <1>4, <1>5, <1>6, <1>7 DEF ViewsOf
<1> QED
  BY <1>1, <1>3, <1>8

\* The client's own JOIN with the answer behind it.
LEMMA JoinMore ==
  ASSUME NEW view \in Views, Me \notin DOMAIN view, NEW next \in Views, Me \in DOMAIN next,
         NEW part \in SUBSET FormsOf(next)
  PROVE  \E later : /\ ViewsOf(later, <<[type |-> "JOIN", nick |-> Me]>> \o Names(part, FormsOf(next)), next)
                    /\ later[1] = view
<1> DEFINE join == [type |-> "JOIN", nick |-> Me]
           one == [type |-> "NAMES", forms |-> part, last |-> FALSE]
           two == [type |-> "NAMES", forms |-> FormsOf(next) \ part, last |-> TRUE]
           messages == <<join>> \o <<one, two>>
<1>1. PICK later \in [1 .. 4 -> Views] : later[1] = view /\ later[2] = next /\ later[3] = next /\ later[4] = next
  <2> DEFINE four == [i \in 1 .. 4 |-> IF i = 1 THEN view ELSE next]
  <2>1. four \in [1 .. 4 -> Views] /\ four[1] = view /\ four[2] = next /\ four[3] = next /\ four[4] = next
    OBVIOUS
  <2> HIDE DEF four
  <2> QED
    BY <2>1
<1>2. /\ one.type = "NAMES" /\ one.forms = part /\ one.last = FALSE
      /\ two.type = "NAMES" /\ two.forms = FormsOf(next) \ part /\ two.last = TRUE
      /\ join.type = "JOIN" /\ join.nick = Me
  OBVIOUS
<1>3. messages = <<[type |-> "JOIN", nick |-> Me]>> \o Names(part, FormsOf(next))
  BY DEF Names
<1> HIDE DEF one, two, join
<1>4. /\ Len(messages) = 3 /\ messages[1] = join /\ messages[2] = one /\ messages[3] = two
      /\ 1 + 1 = 2 /\ 2 + 1 = 3 /\ 3 + 1 = 4 /\ 1 < 3 /\ 2 < 3
  <2> DEFINE first == <<join>>
             pair == <<one, two>>
  <2>1. first \in Seq({join, one, two}) /\ pair \in Seq({join, one, two}) /\ messages = first \o pair
    OBVIOUS
  <2>2. Len(first) = 1 /\ first[1] = join /\ Len(pair) = 2 /\ pair[1] = one /\ pair[2] = two
    OBVIOUS
  <2> HIDE DEF first, pair, messages
  <2>0. /\ Len(first \o pair) = Len(first) + Len(pair)
        /\ \A i \in 1 .. Len(first) + Len(pair) :
             (first \o pair)[i] = IF i <= Len(first) THEN first[i] ELSE pair[i - Len(first)]
    BY <2>1, ConcatProperties
  <2>3. /\ Len(messages) = 1 + 2
        /\ \A i \in 1 .. 1 + 2 : messages[i] = IF i <= 1 THEN first[i] ELSE pair[i - 1]
    BY <2>0, <2>1, <2>2
  <2> QED
    BY <2>2, <2>3
<1> HIDE DEF messages
<1>5. Tells(one, next, next) /\ Tells(two, next, next) /\ Tells(join, view, next)
  BY <1>2 DEF Tells
<1>6. Followed(join, 1, messages, view) /\ Followed(one, 2, messages, next) /\ Followed(two, 3, messages, next)
  <2>1. FormsOf(next) \subseteq one.forms \cup two.forms
    BY <1>2
  <2> QED
    BY <1>2, <1>4, <2>1 DEF Followed
<1>7. \A i \in 1 .. 3 : i = 1 \/ i = 2 \/ i = 3
  OBVIOUS
<1>8. ViewsOf(later, messages, next)
  BY <1>1, <1>4, <1>5, <1>6, <1>7 DEF ViewsOf
<1> QED
  BY <1>1, <1>3, <1>8

\* Messages that tell of a change come behind the others.
LEMMA Comes ==
  ASSUME ListTypes, ListInv, NEW more \in Seq(ListMessages), Tell(more), UNCHANGED <<hlist, ghosts, gap>>,
         \A view \in Views : (IF Me \in DOMAIN members THEN view = members ELSE Me \notin DOMAIN view)
            => \E later : ViewsOf(later, more, members') /\ later[1] = view
  PROVE  ListInv'
<1>1. to_client \in Seq(ListMessages) /\ to_client' = to_client \o more /\ Len(to_client) \in Nat
  BY LenProperties DEF ListTypes, Tell
<1>2. PICK views : ViewsOf(views, to_client, members) /\ (~ghosts => UpToDate(hlist, views[1], to_client, gap))
  BY DEF ListInv
<1> DEFINE last == views[Len(to_client) + 1]
<1>3. last \in Views /\ IF Me \in DOMAIN members THEN last = members ELSE Me \notin DOMAIN last
  <2>1. Len(to_client) + 1 \in 1 .. Len(to_client) + 1
    BY <1>1
  <2> QED
    BY <1>2, <2>1 DEF ViewsOf
<1>4. PICK later : ViewsOf(later, more, members') /\ later[1] = last
  BY <1>3
<1>5. PICK grown : ViewsOf(grown, to_client \o more, members') /\ grown[1] = views[1]
  BY <1>1, <1>2, <1>4, Grow
<1>6. ~ghosts => UpToDate(hlist, grown[1], to_client \o more, gap)
  BY <1>1, <1>2, <1>5, StaysUpToDate
<1> QED
  BY <1>1, <1>5, <1>6 DEF ListInv

\* Something happens in the channel, and the client hears of it if it is there.
LEMMA ChannelStep ==
  ASSUME ListTypes, ListInv, NEW m \in ListMessages, TellChannel(m), UNCHANGED <<hlist, ghosts, gap>>,
         members' \in Views, m.type # "NAMES", ~(m.type = "JOIN" /\ m.nick = Me),
         Me \in DOMAIN members => Tells(m, members, members'),
         Me \notin DOMAIN members => Me \notin DOMAIN members'
  PROVE  ListInv'
<1>1. CASE Me \in DOMAIN members
  <2>1. Tell(<<m>>) /\ <<m>> \in Seq(ListMessages) /\ members \in Views
    BY <1>1 DEF TellChannel, ListTypes
  <2>2. PICK next \in Views : next = members'
    OBVIOUS
  <2>3. IF Me \in DOMAIN members' THEN next = members' ELSE Me \notin DOMAIN next
    BY <2>2
  <2>4. \E later : ViewsOf(later, <<m>>, members') /\ later[1] = members
    BY <1>1, <2>1, <2>2, <2>3, OneMore
  <2> QED
    BY <1>1, <2>1, <2>4, Comes
<1>2. CASE Me \notin DOMAIN members
  <2>1. to_client' = to_client
    BY <1>2 DEF TellChannel
  <2>2. PICK views : ViewsOf(views, to_client, members) /\ (~ghosts => UpToDate(hlist, views[1], to_client, gap))
    BY DEF ListInv
  <2>3. ViewsOf(views, to_client, members')
    BY <1>2, <2>2 DEF ViewsOf
  <2> QED
    BY <2>1, <2>2, <2>3 DEF ListInv
<1> QED
  BY <1>1, <1>2

\* The server's steps send what tells of the change.
LEMMA ServerStep ==
  ASSUME ListTypes, ListTypes', ListInv, Server
  PROVE  ListInv'
<1>1. /\ members \in Views /\ members' \in Views /\ DOMAIN members \subseteq Everybody
      /\ MemberForms = FormsOf(members)
      /\ Me \notin NickNames /\ NickNames \subseteq Everybody /\ Me \in Everybody
  BY ViewFacts, NickAssumption DEF ListTypes, MemberForms, FormsOf, FormOf, Everybody
<1>2. UNCHANGED client => UNCHANGED <<hlist, ghosts, gap>>
  BY DEF client
<1>3. ASSUME NEW n \in NickNames, Joins(n)
      PROVE  ListInv'
  <2> DEFINE m == [type |-> "JOIN", nick |-> n]
  <2>1. m \in ListMessages /\ m.type = "JOIN" /\ m.nick = n /\ n # Me
    BY <1>1, MessageFacts
  <2>2. /\ DOMAIN members' = DOMAIN members \cup {n} /\ members'[n] = {} /\ n \notin DOMAIN members
        /\ \A k \in DOMAIN members : members'[k] = members[k]
        /\ TellChannel(m) /\ UNCHANGED <<hlist, ghosts, gap>>
    BY <1>2, <1>3 DEF Joins
  <2> HIDE DEF m
  <2>3. Me \in DOMAIN members => Tells(m, members, members')
    BY <1>1, <2>1, <2>2 DEF Tells
  <2> QED
    BY <1>1, <2>1, <2>2, <2>3, ChannelStep
<1>4. ASSUME NEW n \in NickNames, Leaves(n)
      PROVE  ListInv'
  <2> DEFINE m == [type |-> "LEAVE", nick |-> n]
  <2>1. m \in ListMessages /\ m.type = "LEAVE" /\ m.nick = n
    BY <1>1, MessageFacts
  <2>2. /\ DOMAIN members' = DOMAIN members \ {n} /\ n \in DOMAIN members
        /\ \A k \in DOMAIN members' : members'[k] = members[k]
        /\ TellChannel(m) /\ UNCHANGED <<hlist, ghosts, gap>>
    BY <1>2, <1>4 DEF Leaves
  <2> HIDE DEF m
  <2>3. Me \in DOMAIN members => Tells(m, members, members')
    BY <2>1, <2>2 DEF Tells
  <2> QED
    BY <1>1, <2>1, <2>2, <2>3, ChannelStep
<1>5. ASSUME NEW n \in NickNames, NEW new \in NickNames, Renames(n, new)
      PROVE  ListInv'
  <2> DEFINE m == [type |-> "NICK", nick |-> n, new |-> new]
  <2>1. m \in ListMessages /\ m.type = "NICK" /\ m.nick = n /\ m.new = new /\ n # Me /\ new # Me
    BY <1>1, MessageFacts
  <2>2. /\ DOMAIN members' = (DOMAIN members \ {n}) \cup {new} /\ n \in DOMAIN members /\ new \notin DOMAIN members
        /\ members'[new] = members[n]
        /\ \A k \in DOMAIN members \ {n} : members'[k] = members[k]
        /\ TellChannel(m) /\ UNCHANGED <<hlist, ghosts, gap>>
    BY <1>2, <1>5 DEF Renames
  <2> HIDE DEF m
  <2>3. Me \in DOMAIN members => Tells(m, members, members')
    BY <1>1, <2>1, <2>2 DEF Tells
  <2> QED
    BY <1>1, <2>1, <2>2, <2>3, ChannelStep
<1>6. ASSUME NEW n \in Everybody, NEW set \in BOOLEAN, NEW mode \in {"o", "v"}, SetsMode(n, set, mode)
      PROVE  ListInv'
  <2> DEFINE m == [type |-> "MODE", set |-> set, mode |-> mode, nick |-> n]
  <2>1. m \in ListMessages /\ m.type = "MODE" /\ m.nick = n /\ m.set = set /\ m.mode = mode
    BY MessageFacts
  <2>2. /\ DOMAIN members' = DOMAIN members /\ n \in DOMAIN members
        /\ set => members'[n] = members[n] \cup {mode}
        /\ \A k \in DOMAIN members \ {n} : members'[k] = members[k]
        /\ TellChannel(m) /\ UNCHANGED <<hlist, ghosts, gap>>
    BY <1>1, <1>2, <1>6 DEF SetsMode, Views
  <2> HIDE DEF m
  <2>3. Me \in DOMAIN members => Tells(m, members, members')
    BY <2>1, <2>2 DEF Tells
  <2> QED
    BY <1>1, <2>1, <2>2, <2>3, ChannelStep
<1>7. ASSUME NEW part \in SUBSET MemberForms, IJoin(part)
      PROVE  ListInv'
  <2> DEFINE all == MemberForms \cup {<<"", Me>>}
             more == <<[type |-> "JOIN", nick |-> Me]>> \o Names(part, all)
  <2>1. /\ DOMAIN members' = DOMAIN members \cup {Me} /\ members'[Me] = {} /\ Me \notin DOMAIN members
        /\ \A k \in DOMAIN members : members'[k] = members[k]
        /\ Tell(more) /\ UNCHANGED <<hlist, ghosts, gap>>
    BY <1>2, <1>7 DEF IJoin
  <2>2. PICK next \in Views : next = members'
    BY <1>1
  <2>3. all = FormsOf(next)
    <3>1. FormOf(next, Me) = <<"", Me>>
      BY <2>1, <2>2, ShownFacts DEF FormOf
    <3>2. \A k \in DOMAIN members : FormOf(next, k) = FormOf(members, k)
      BY <2>1, <2>2 DEF FormOf
    <3>3. \A f : f \in FormsOf(next) <=> (f = FormOf(next, Me) \/ \E k \in DOMAIN members : f = FormOf(next, k))
      BY <2>1, <2>2 DEF FormsOf
    <3>4. \A f : f \in FormsOf(members) <=> \E k \in DOMAIN members : f = FormOf(members, k)
      BY DEF FormsOf
    <3>5. \A f : f \in all <=> f \in FormsOf(members) \/ f = <<"", Me>>
      BY <1>1
    <3> HIDE DEF all
    <3>6. \A f : f \in all <=> f \in FormsOf(next)
      BY <3>1, <3>2, <3>3, <3>4, <3>5
    <3> QED
      BY <3>6
  <2>4. all \in SUBSET Forms /\ part \in SUBSET all
    BY <2>2, <2>3, ViewFacts
  <2>5. <<[type |-> "JOIN", nick |-> Me]>> \in Seq(ListMessages)
    <3> DEFINE join == [type |-> "JOIN", nick |-> Me]
    <3>1. join \in ListMessages
      BY <1>1, MessageFacts
    <3> HIDE DEF join
    <3>2. <<join>> \in Seq(ListMessages)
      BY <3>1
    <3> QED
      BY <3>2 DEF join
  <2>6. more \in Seq(ListMessages)
    BY <2>4, <2>5, NamesTyped, ConcatProperties
  <2>7. ASSUME NEW view \in Views, Me \notin DOMAIN view
        PROVE  \E later : ViewsOf(later, more, members') /\ later[1] = view
    <3>1. Me \in DOMAIN next /\ part \in SUBSET FormsOf(next)
      BY <2>1, <2>2, <2>3, <2>4
    <3>2. \E later : /\ ViewsOf(later, <<[type |-> "JOIN", nick |-> Me]>> \o Names(part, FormsOf(next)), next)
                     /\ later[1] = view
      BY <2>7, <3>1, JoinMore
    <3> QED
      BY <2>2, <2>3, <3>2
  <2> QED
    BY <2>1, <2>6, <2>7, Comes
<1>8. ASSUME NEW part \in SUBSET MemberForms, AnswerNames(part)
      PROVE  ListInv'
  <2>1. members' = members /\ UNCHANGED <<hlist, ghosts, gap>>
    BY <1>8 DEF AnswerNames
  <2>2. CASE Me \in DOMAIN members
    <3> DEFINE more == Names(part, MemberForms)
    <3>1. Tell(more) /\ more \in Seq(ListMessages)
      BY <1>1, <1>8, <2>2, NamesTyped, ViewFacts DEF AnswerNames
    <3>2. \E later : ViewsOf(later, more, members) /\ later[1] = members
      BY <1>1, <2>2, AnswerMore
    <3> HIDE DEF more
    <3> QED
      BY <2>1, <2>2, <3>1, <3>2, Comes
  <2>3. CASE Me \notin DOMAIN members
    BY <1>8, <2>1, <2>3 DEF AnswerNames, ListInv
  <2> QED
    BY <2>2, <2>3
<1>9. CASE IAmKicked
  <2> DEFINE m == [type |-> "LEAVE", nick |-> Me]
  <2>1. m \in ListMessages /\ m.type = "LEAVE" /\ m.nick = Me
    BY <1>1, MessageFacts
  <2>2. /\ DOMAIN members' = DOMAIN members \ {Me} /\ Me \in DOMAIN members
        /\ \A k \in DOMAIN members' : members'[k] = members[k]
        /\ Tell(<<m>>) /\ UNCHANGED <<hlist, ghosts, gap>>
    BY <1>2, <1>9 DEF IAmKicked
  <2> HIDE DEF m
  <2>3. Tells(m, members, members')
    BY <2>1, <2>2 DEF Tells
  <2>4. TellChannel(m)
    BY <2>2 DEF TellChannel
  <2> QED
    BY <1>1, <2>1, <2>2, <2>3, <2>4, ChannelStep
<1> QED
  BY <1>3, <1>4, <1>5, <1>6, <1>7, <1>8, <1>9 DEF Server

-----------------------------------------------------------------------------
\* A message that is no answer: the list was right, but for what was cleared.
LEMMA PlainUpToDate ==
  ASSUME NEW list, NEW new, NEW view, NEW next, NEW queue, NEW rest, NEW state,
         Me \in DOMAIN view, Me \in DOMAIN next, queue # <<>>, queue[1].type # "NAMES",
         UpToDate(list, view, queue, state), Keeps(new, next, list, view)
  PROVE  UpToDate(new, next, rest, state)
<1>1. OnlyMembers(new, next) /\ state # "coming"
  BY DEF UpToDate, Keeps
<1>2. state = "none" => \A n \in DOMAIN next : Right(new, next, n)
  BY DEF UpToDate, AllRight, Keeps
<1> QED
  BY <1>1, <1>2 DEF UpToDate, AllRight

\* A list that was cleared waits for all names.
LEMMA EmptyUpToDate ==
  ASSUME NEW view \in Views, NEW queue
  PROVE  UpToDate(EmptyList, view, queue, "cleared")
<1>1. \A f \in Forms : EmptyList[f] = 0
  BY DEF EmptyList
<1>2. DOMAIN view \subseteq Everybody
  BY ViewFacts
<1>3. OnlyMembers(EmptyList, view)
  BY <1>1, <1>2, FormFacts DEF OnlyMembers
<1> QED
  BY <1>3 DEF UpToDate

\* The client's own JOIN: the list is empty, and the names are behind it.
LEMMA MyJoinUpToDate ==
  ASSUME NEW list, NEW view, NEW next \in Views, NEW queue, NEW rest, NEW state,
         Me \notin DOMAIN view, Me \in DOMAIN next,
         rest # <<>>, rest[1].type = "NAMES", ~rest[1].last, UpToDate(list, view, queue, state)
  PROVE  UpToDate(list, next, rest, state)
<1>1. list = EmptyList /\ state # "coming"
  BY DEF UpToDate
<1>2. OnlyMembers(EmptyList, next)
  BY EmptyUpToDate DEF UpToDate
<1>3. AllRight(list, next, rest)
  BY DEF AllRight
<1> QED
  BY <1>1, <1>2, <1>3 DEF UpToDate

\* Half of an answer: what is not right afterwards is in the other half.
LEMMA NamesUpToDate ==
  ASSUME NEW list \in [Forms -> Nat], NEW view \in Views, Me \in DOMAIN view,
         NEW m, NEW queue, NEW rest, NEW state, NEW after,
         queue[1] = m, m.last \in BOOLEAN, m.forms \subseteq FormsOf(view),
         ~m.last => /\ rest # <<>> /\ rest[1].type = "NAMES" /\ rest[1].last
                    /\ FormsOf(view) \subseteq m.forms \cup rest[1].forms,
         UpToDate(list, view, queue, state), state \in {"none", "cleared", "coming"},
         state = "cleared" /\ ~m.last => after = "coming",
         state = "coming" /\ m.last => after = "none",
         ~(state = "cleared" /\ ~m.last) /\ ~(state = "coming" /\ m.last) => after = state
  PROVE  UpToDate(AddNicks(list, m.forms), view, rest, after)
<1> DEFINE new == AddNicks(list, m.forms)
<1>1. OnlyMembers(list, view)
  BY DEF UpToDate
<1>2. /\ OnlyMembers(new, view)
      /\ \A n \in DOMAIN view : FormOf(view, n) \in m.forms \/ Right(list, view, n) => Right(new, view, n)
  BY <1>1, NamesKeep
<1>3. \A n \in DOMAIN view : FormOf(view, n) \in FormsOf(view)
  BY DEF FormsOf
<1> HIDE DEF new
<1>4. CASE ~m.last
  <2>1. \A n \in DOMAIN view : FormOf(view, n) \in rest[1].forms \/ Right(new, view, n)
    BY <1>2, <1>3, <1>4
  <2>2. AllRight(new, view, rest)
    BY <1>4, <2>1 DEF AllRight
  <2> QED
    BY <1>2, <1>4, <2>2 DEF UpToDate, new
<1>5. CASE m.last
  <2>1. state # "cleared" => AllRight(list, view, queue)
    BY DEF UpToDate
  <2>2. state # "cleared" => \A n \in DOMAIN view : Right(new, view, n)
    BY <1>2, <1>5, <2>1 DEF AllRight
  <2>3. after = "cleared" \/ (after = "none" /\ \A n \in DOMAIN view : Right(new, view, n))
    BY <1>5, <2>2
  <2> QED
    BY <1>2, <2>3 DEF UpToDate, AllRight, new
<1> QED
  BY <1>4, <1>5

\* The client handles a message: the list goes with the view.
LEMMA HandleStep ==
  ASSUME ListTypes, ListInv, NEW sent \in BOOLEAN, Handle(sent)
  PROVE  ListInv'
<1>1. /\ to_client \in Seq(ListMessages) /\ to_client # <<>> /\ to_client' = Tail(to_client) /\ members' = members
      /\ hlist \in [Forms -> Nat] /\ gap \in {"none", "cleared", "coming"}
  BY DEF ListTypes, NickTypeOK, Handle
<1>2. PICK views : ViewsOf(views, to_client, members) /\ (~ghosts => UpToDate(hlist, views[1], to_client, gap))
  BY DEF ListInv
<1>3. PICK shifted : ViewsOf(shifted, Tail(to_client), members) /\ shifted[1] = views[2]
  BY <1>1, <1>2, Shift
<1>4. SUFFICES ASSUME ~ghosts' PROVE UpToDate(hlist', views[2], to_client', gap')
  BY <1>1, <1>3 DEF ListInv
<1>5. Len(to_client) \in Nat /\ Len(to_client) >= 1 /\ to_client[1] = Head(to_client) /\ to_client[1] \in ListMessages
  BY <1>1, HeadTailProperties, LenProperties
<1>6. PICK view \in Views, next \in Views :
         view = views[1] /\ next = views[2] /\ Tells(to_client[1], view, next)
         /\ Followed(to_client[1], 1, to_client, view)
  <2>1. 1 \in 1 .. Len(to_client) /\ 1 \in 1 .. Len(to_client) + 1 /\ 2 \in 1 .. Len(to_client) + 1 /\ 1 + 1 = 2
    BY <1>5
  <2> QED
    BY <1>2, <2>1 DEF ViewsOf
<1>7. PICK m \in ListMessages : m = to_client[1]
  BY <1>5
<1>8. HandleJoin(m) \/ HandleLeave(m) \/ HandleNick(m) \/ HandleMode(m, sent) \/ HandleNames(m)
  BY <1>5, <1>7 DEF Handle
<1>9. PICK rest : /\ rest = Tail(to_client)
                  /\ 1 < Len(to_client) => rest # <<>> /\ rest[1] = to_client[2]
  <2>1. SUFFICES ASSUME 1 < Len(to_client)
                 PROVE  Tail(to_client) # <<>> /\ Tail(to_client)[1] = to_client[2]
    OBVIOUS
  <2>2. /\ Len(Tail(to_client)) = Len(to_client) - 1
        /\ \A i \in 1 .. Len(Tail(to_client)) : Tail(to_client)[i] = to_client[i + 1]
    BY <1>1, HeadTailProperties
  <2>3. 1 \in 1 .. Len(Tail(to_client)) /\ 1 + 1 = 2 /\ Len(Tail(to_client)) # 0
    <3>1. ASSUME NEW k \in Nat, NEW j, 1 < k, j = k - 1
          PROVE  1 \in 1 .. j /\ 1 + 1 = 2 /\ j # 0
      BY <3>1
    <3>2. Len(to_client) \in Nat /\ Len(Tail(to_client)) = Len(to_client) - 1
      BY <1>5, <2>2
    <3> QED
      BY <2>1, <3>1, <3>2
  <2>4. Tail(to_client)[1] = to_client[2]
    BY <2>2, <2>3
  <2>5. Tail(to_client) # <<>>
    BY <2>3, EmptySeq
  <2> QED
    BY <2>4, <2>5
<1>10. Followed(m, 1, to_client, view) /\ Tells(m, view, next)
  BY <1>6, <1>7
<1>11. 1 + 1 = 2
  OBVIOUS
<1>12. ~ghosts => UpToDate(hlist, view, to_client, gap)
  BY <1>2, <1>6
<1>13. SUFFICES UpToDate(hlist', next, rest, gap')
  BY <1>1, <1>6, <1>9
<1>14. ASSUME NEW list, Changes(list)
       PROVE  hlist' = list /\ gap' = gap /\ ~ghosts /\ UpToDate(hlist, view, to_client, gap)
  BY <1>4, <1>12, <1>14 DEF Changes
<1>15. CASE HandleJoin(m)
  <2>1. m.type = "JOIN" /\ Changes(IF m.nick = Me THEN hlist ELSE AddNick(hlist, <<"", m.nick>>))
    BY <1>15 DEF HandleJoin
  <2>2. CASE m.nick = Me
    <3>1. hlist' = hlist /\ gap' = gap /\ UpToDate(hlist, view, to_client, gap)
      BY <1>14, <2>1, <2>2
    <3>2. rest # <<>> /\ rest[1].type = "NAMES" /\ ~rest[1].last
      BY <1>9, <1>10, <1>11, <2>1, <2>2 DEF Followed
    <3>3. Me \notin DOMAIN view /\ Me \in DOMAIN next
      BY <1>10, <2>1, <2>2 DEF Tells
    <3> QED
      BY <3>1, <3>2, <3>3, MyJoinUpToDate
  <2>3. CASE m.nick # Me
    <3>1. /\ Me \in DOMAIN view /\ m.nick \in Everybody \ DOMAIN view
          /\ DOMAIN next = DOMAIN view \cup {m.nick} /\ next[m.nick] = {}
          /\ \A n \in DOMAIN view : next[n] = view[n]
      BY <1>10, <2>1, <2>3 DEF Tells
    <3>2. hlist' = AddNick(hlist, <<"", m.nick>>) /\ gap' = gap /\ UpToDate(hlist, view, to_client, gap)
      BY <1>14, <2>1, <2>3
    <3>3. OnlyMembers(hlist, view)
      BY <3>1, <3>2 DEF UpToDate
    <3>4. Keeps(AddNick(hlist, <<"", m.nick>>), next, hlist, view)
      BY <1>1, <3>1, <3>3, JoinKeeps
    <3>5. to_client[1].type # "NAMES"
      BY <1>7, <2>1
    <3> QED
      BY <1>1, <3>1, <3>2, <3>4, <3>5, PlainUpToDate
  <2> QED
    BY <2>2, <2>3
<1>16. CASE HandleLeave(m)
  <2>1. m.type = "LEAVE" /\ hlist' = DropNick(hlist, m.nick) /\ gap' = gap /\ ~ghosts /\ m.nick # Me
    BY <1>4, <1>16 DEF HandleLeave
  <2>2. /\ Me \in DOMAIN view /\ m.nick \in DOMAIN view
        /\ DOMAIN next = DOMAIN view \ {m.nick}
        /\ \A n \in DOMAIN next : next[n] = view[n]
    BY <1>10, <2>1 DEF Tells
  <2>3. UpToDate(hlist, view, to_client, gap) /\ OnlyMembers(hlist, view) /\ Me \in DOMAIN next
    BY <1>12, <2>1, <2>2 DEF UpToDate
  <2>4. Keeps(DropNick(hlist, m.nick), next, hlist, view)
    BY <1>1, <2>2, <2>3, LeaveKeeps
  <2>5. to_client[1].type # "NAMES"
    BY <1>7, <2>1
  <2> QED
    BY <1>1, <2>1, <2>2, <2>3, <2>4, <2>5, PlainUpToDate
<1>17. CASE HandleNick(m)
  <2>1. m.type = "NICK" /\ Changes(RenameNick(hlist, m.nick, m.new))
    BY <1>17 DEF HandleNick
  <2>2. /\ Me \in DOMAIN view /\ m.nick \in DOMAIN view /\ m.nick # Me
        /\ m.new \in Everybody \ DOMAIN view
        /\ DOMAIN next = (DOMAIN view \ {m.nick}) \cup {m.new} /\ next[m.new] = view[m.nick]
        /\ \A n \in DOMAIN view \ {m.nick} : next[n] = view[n]
    BY <1>10, <2>1 DEF Tells
  <2>3. hlist' = RenameNick(hlist, m.nick, m.new) /\ gap' = gap /\ UpToDate(hlist, view, to_client, gap)
    BY <1>14, <2>1
  <2>4. OnlyMembers(hlist, view) /\ Me \in DOMAIN next
    BY <2>2, <2>3 DEF UpToDate
  <2>5. Keeps(RenameNick(hlist, m.nick, m.new), next, hlist, view)
    BY <1>1, <2>2, <2>4, NickKeeps
  <2>6. to_client[1].type # "NAMES"
    BY <1>7, <2>1
  <2> QED
    BY <1>1, <2>2, <2>3, <2>4, <2>5, <2>6, PlainUpToDate
<1>18. CASE HandleMode(m, sent)
  <2>1. m.type = "MODE" /\ IF m.set THEN Changes(SetShown(hlist, m.mode, m.nick)) ELSE AskAgain(sent)
    BY <1>18 DEF HandleMode
  <2>2. /\ Me \in DOMAIN view /\ m.nick \in DOMAIN view /\ DOMAIN next = DOMAIN view
        /\ m.set \in BOOLEAN /\ m.mode \in {"o", "v"}
        /\ m.set => next[m.nick] = view[m.nick] \cup {m.mode}
        /\ \A n \in DOMAIN view \ {m.nick} : next[n] = view[n]
    BY <1>10, <2>1 DEF Tells
  <2>3. CASE m.set
    <3>1. hlist' = SetShown(hlist, m.mode, m.nick) /\ gap' = gap /\ UpToDate(hlist, view, to_client, gap)
      BY <1>14, <2>1, <2>3
    <3>2. OnlyMembers(hlist, view) /\ Me \in DOMAIN next
      BY <2>2, <3>1 DEF UpToDate
    <3>3. Keeps(SetShown(hlist, m.mode, m.nick), next, hlist, view)
      BY <1>1, <2>2, <2>3, <3>2, ModeKeeps
    <3>4. to_client[1].type # "NAMES"
      BY <1>7, <2>1
    <3> QED
      BY <1>1, <2>2, <3>1, <3>2, <3>3, <3>4, PlainUpToDate
  <2>4. CASE ~m.set
    <3>1. hlist' = EmptyList /\ gap' = "cleared"
      BY <2>1, <2>4 DEF AskAgain
    <3> QED
      BY <3>1, EmptyUpToDate
  <2> QED
    BY <2>3, <2>4
<1>19. CASE HandleNames(m)
  <2>1. /\ m.type = "NAMES" /\ hlist' = AddNicks(hlist, m.forms) /\ ~ghosts
        /\ gap' = CASE gap = "cleared" /\ ~m.last -> "coming"
                    [] gap = "coming" /\ m.last -> "none"
                    [] OTHER -> gap
    BY <1>4, <1>19 DEF HandleNames
  <2>2. next = view /\ Me \in DOMAIN view /\ m.forms \subseteq FormsOf(view) /\ m.last \in BOOLEAN
    BY <1>10, <2>1 DEF Tells
  <2>3. ~m.last => /\ rest # <<>> /\ rest[1].type = "NAMES" /\ rest[1].last
                   /\ FormsOf(view) \subseteq m.forms \cup rest[1].forms
    BY <1>9, <1>10, <1>11, <2>1 DEF Followed
  <2>4. PICK after : after = gap'
    OBVIOUS
  <2>5. /\ gap = "cleared" /\ ~m.last => after = "coming"
        /\ gap = "coming" /\ m.last => after = "none"
        /\ ~(gap = "cleared" /\ ~m.last) /\ ~(gap = "coming" /\ m.last) => after = gap
    BY <2>1, <2>2, <2>4
  <2>6. UpToDate(hlist, view, to_client, gap)
    BY <1>12, <2>1
  <2>7. UpToDate(AddNicks(hlist, m.forms), view, rest, after)
    BY <1>1, <1>7, <2>2, <2>3, <2>5, <2>6, NamesUpToDate
  <2> QED
    BY <2>1, <2>2, <2>4, <2>7
<1> QED
  BY <1>8, <1>15, <1>16, <1>17, <1>18, <1>19

\* A client that has joined nothing has an empty list and no view.
LEMMA ListInit == NickInit => ListInv
<1> SUFFICES ASSUME NickInit PROVE ListInv
  OBVIOUS
<1>1. to_client = <<>> /\ Len(to_client) = 0 /\ hlist = EmptyList /\ gap = "none" /\ DOMAIN members = {}
  BY DEF NickInit
<1>2. members \in Views
  BY ListTypesInit DEF ListTypes
<1> DEFINE views == [i \in 1 .. 1 |-> members]
<1>3. views \in [1 .. 0 + 1 -> Views] /\ views[1] = members /\ views[0 + 1] = members
  BY <1>2
<1> HIDE DEF views
<1>4. \A i \in 1 .. 0 : FALSE
  OBVIOUS
<1>5. ViewsOf(views, to_client, members)
  BY <1>1, <1>3, <1>4 DEF ViewsOf
<1>6. UpToDate(hlist, views[1], to_client, gap)
  BY <1>1, <1>3 DEF UpToDate
<1> QED
  BY <1>5, <1>6 DEF ListInv

\* The server, the client and the UI's clearing of the list keep it up to date.
LEMMA ListStep == ListTypes /\ ListTypes' /\ ListInv /\ [NickNext]_nickVars => ListInv'
<1> SUFFICES ASSUME ListTypes, ListTypes', ListInv, [NickNext]_nickVars PROVE ListInv'
  OBVIOUS
<1>1. ASSUME NEW sent \in BOOLEAN, Refresh(sent)
      PROVE  ListInv'
  <2>1. hlist' = EmptyList /\ gap' = "cleared" /\ UNCHANGED <<members, to_client>>
    BY <1>1 DEF Refresh, AskAgain
  <2>2. PICK views : ViewsOf(views, to_client, members)
    BY DEF ListInv
  <2>3. Len(to_client) \in Nat
    BY LenProperties DEF ListTypes
  <2>4. 1 \in 1 .. Len(to_client) + 1
    BY <2>3
  <2>5. views[1] \in Views
    BY <2>2, <2>4 DEF ViewsOf
  <2>6. UpToDate(hlist', views[1], to_client', gap')
    BY <2>1, <2>5, EmptyUpToDate
  <2> QED
    BY <2>1, <2>2, <2>6 DEF ListInv
<1>2. CASE UNCHANGED nickVars
  BY <1>2 DEF nickVars, ListInv
<1> QED
  BY <1>1, <1>2, ServerStep, HandleStep DEF NickNext

\* When all is handled the list is up to date with the channel itself.
LEMMA QuietIsRight == ListTypes /\ ListInv => ListShowsChannel
<1> SUFFICES ASSUME ListTypes, ListInv, Quiet, ~ghosts
             PROVE  /\ \A n \in Everybody : Listed(n) => n \in DOMAIN members
                    /\ gap = "none" => \A f \in Forms : hlist[f] = IF f \in MemberForms THEN 1 ELSE 0
  BY DEF ListShowsChannel
<1>1. to_client = <<>> /\ Len(to_client) = 0 /\ 0 + 1 = 1 /\ Me \in DOMAIN members
  BY DEF Quiet
<1>2. PICK views : ViewsOf(views, to_client, members) /\ UpToDate(hlist, views[1], to_client, gap)
  BY DEF ListInv
<1>3. views[1] = members
  BY <1>1, <1>2 DEF ViewsOf
<1>4. OnlyMembers(hlist, members) /\ (gap = "none" => AllRight(hlist, members, to_client))
  BY <1>1, <1>2, <1>3 DEF UpToDate
<1>5. ASSUME NEW n \in Everybody, Listed(n)
      PROVE  n \in DOMAIN members
  <2>1. PICK p \in Prefixes : hlist[<<p, n>>] > 0
    BY <1>5 DEF Listed
  <2> QED
    BY <1>4, <2>1 DEF OnlyMembers
<1>6. ASSUME gap = "none", NEW f \in Forms
      PROVE  hlist[f] = IF f \in MemberForms THEN 1 ELSE 0
  <2>1. PICK p \in Prefixes, n \in Everybody : f = <<p, n>>
    BY FormFacts
  <2>2. f \in MemberForms <=> n \in DOMAIN members /\ p = Shown(members[n])
    BY <2>1 DEF MemberForms
  <2>3. n \in DOMAIN members => hlist[f] = IF p = Shown(members[n]) THEN 1 ELSE 0
    BY <1>1, <1>4, <1>6, <2>1 DEF AllRight, Right
  <2>4. n \notin DOMAIN members => hlist[f] = 0
    BY <1>4, <2>1 DEF OnlyMembers
  <2> QED
    BY <2>2, <2>3, <2>4
<1> QED
  BY <1>5, <1>6

\* When the client has handled all it was sent, the list shows members only; and once
\* the names have come since it was cleared, each member once and in the right form,
\* however many nicks, events, messages and requests overtake each other.
THEOREM ListRight == NickSpec => []ListShowsChannel
<1>1. NickInit => ListTypes /\ ListInv
  BY ListTypesInit, ListInit
<1>2. ListTypes /\ ListInv /\ [NickNext]_nickVars => (ListTypes /\ ListInv)'
  BY ListTypesStep, ListStep
<1>3. ListTypes /\ ListInv => ListShowsChannel
  BY QuietIsRight
<1> QED
  BY <1>1, <1>2, <1>3, PTL DEF NickSpec
=============================================================================
