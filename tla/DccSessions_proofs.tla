------------------------ MODULE DccSessions_proofs ------------------------
(***************************************************************************)
(* The DCC chats of a session, for any number of them and any buffers.     *)
(* The argument: what is in the list has not been freed, and a session is  *)
(* freed when it leaves the list.  While the session's thread has left     *)
(* mutex_dcc for a callback, only a chat that is being set up can leave    *)
(* the list behind its back; that chat is the newest, at the head of the   *)
(* list, so it is neither the session of the callback nor the next one of  *)
(* the walk.  For a peer that answers before irc_dcc_chat has returned     *)
(* this fails, and so the theorems are about peers that wait.              *)
(***************************************************************************)
EXTENDS DccSessions, SequenceTheorems, TLAPS

Chats   == {"newCall", "readCall", "writeCall"}
Serving == Chats \cup {"serve", "new", "read", "write"}
Asked   == {"chatAsked", "fileAsked"}

\* The list has no session twice, and none that was freed.
ListInv ==
  /\ IsInjective(dcc_sessions)
  /\ \A d \in Listed : state[d] # "none" /\ frees[d] = 0

\* A session that was not made yet is unknown everywhere.
FreshInv == \A d \in Dccs : state[d] = "none" => frees[d] = 0 /\ d \notin told \cup in_set

\* The mutex is held at the points of the two walks, and nowhere else.
LockInv == locked <=> ircPc \in Walks

\* What the session's thread holds on to.
ThreadInv ==
  /\ ircPc \in {"visit", "new"} => dcc \in Listed \cup {None}
  /\ ircPc \in Calls \cup {"read", "write"} => dcc \in Listed
  /\ ircPc \in Calls => dcc \notin SettingUp
  /\ ircPc \in {"expire", "reread"} =>
       dcc_next = None \/ dcc_next \in Listed \ ({dcc} \cup SettingUp)
  /\ ircPc = "reread" => /\ dcc \in Dccs \ Listed /\ frees[dcc] = 1
                         /\ state[dcc] = "removed" => dcc \in late

\* The chat that irc_dcc_chat is setting up: the newest, and not served yet.
ChatInv ==
  \A d \in SettingUp :
    /\ d \in Listed /\ state[d] = "listening"
    /\ ircPc \notin Asked => HeadOf(dcc_sessions) = d
    /\ ircPc \in Serving => d \notin in_set

\* A chat under way has its callback, once it is set up.
CallbackInv ==
  /\ \A d \in Listed \ SettingUp : state[d] \in {"listening", "connecting", "connected"} => cb[d]
  /\ CallbackSet

\* A session whose end was reported is over, or its callback still runs.
ToldInv ==
  \A d \in told \cap Listed :
    \/ state[d] = "removed"
    \/ dcc = d /\ ircPc = "expire"
    \/ dcc = d /\ ircPc \in Chats /\ err

DccInv == /\ TypeOK /\ ListInv /\ FreshInv /\ LockInv /\ ThreadInv /\ ChatInv
          /\ CallbackInv /\ ToldInv /\ FreedOnce

-----------------------------------------------------------------------------
\* What a list without duplicates is after its i-th session was unlinked.
LEMMA RemoveAtProperties ==
  ASSUME NEW S, NEW s \in Seq(S), IsInjective(s), NEW i \in 1 .. Len(s)
  PROVE  /\ RemoveAt(s, i) \in Seq(S)
         /\ IsInjective(RemoveAt(s, i))
         /\ ToSet(RemoveAt(s, i)) = ToSet(s) \ {s[i]}
         /\ i # 1 => RemoveAt(s, i) # <<>> /\ RemoveAt(s, i)[1] = s[1]
<1> DEFINE a == SubSeq(s, 1, i - 1)
           b == SubSeq(s, i + 1, Len(s))
           r == RemoveAt(s, i)
<1>1. Len(s) \in Nat /\ DOMAIN s = 1 .. Len(s) /\ \A k \in 1 .. Len(s) : s[k] \in S
  BY LenProperties, ElementOfSeq
<1>0. Len(s) \in Nat /\ i \in Nat /\ 1 <= i /\ i <= Len(s)
  BY <1>1
<1>2. /\ a \in Seq(S) /\ Len(a) = i - 1
      /\ \A k \in 1 .. i - 1 : a[k] = s[k]
  <2>1. i - 1 \in Int /\ \A k \in 1 .. i - 1 : s[k] \in S
    BY <1>1
  <2> QED
    BY <1>1, <2>1, SubSeqProperties
<1>3. /\ b \in Seq(S) /\ Len(b) = Len(s) - i
      /\ \A k \in 1 .. Len(s) - i : b[k] = s[k + i]
  <2>1. i + 1 \in Int /\ Len(s) \in Int /\ \A k \in i + 1 .. Len(s) : s[k] \in S
    BY <1>1
  <2>2. /\ b \in Seq(S)
        /\ Len(b) = IF i + 1 <= Len(s) THEN Len(s) - (i + 1) + 1 ELSE 0
        /\ \A k \in 1 .. Len(s) - (i + 1) + 1 : b[k] = s[i + 1 + k - 1]
    BY <2>1, SubSeqProperties
  <2>3. Len(s) - (i + 1) + 1 = Len(s) - i /\ \A k \in 1 .. Len(s) - i : i + 1 + k - 1 = k + i
    BY <1>1
  <2> HIDE DEF a, b, r
  <2>4. Len(b) = Len(s) - i
    <3>1. CASE i = Len(s)
      <4>1. ~(i + 1 <= Len(s)) /\ Len(s) - i = 0
        BY <1>1, <3>1
      <4> QED
        BY <2>2, <4>1
    <3>2. CASE i # Len(s)
      <4>1. i + 1 <= Len(s)
        BY <1>0, <3>2
      <4> QED
        BY <2>2, <2>3, <4>1
    <3> QED
      BY <3>1, <3>2
  <2> QED
    BY <2>2, <2>3, <2>4
<1>4. /\ r \in Seq(S) /\ Len(r) = Len(s) - 1
      /\ \A k \in 1 .. Len(s) - 1 : r[k] = IF k < i THEN s[k] ELSE s[k + 1]
  <2>1. /\ r \in Seq(S) /\ Len(r) = Len(a) + Len(b)
        /\ \A k \in 1 .. Len(a) + Len(b) : r[k] = IF k <= Len(a) THEN a[k] ELSE b[k - Len(a)]
    BY <1>2, <1>3, ConcatProperties DEF RemoveAt
  <2> HIDE DEF a, b, r
  <2>2. Len(a) + Len(b) = Len(s) - 1
    BY <1>1, <1>2, <1>3
  <2>3. ASSUME NEW k \in 1 .. Len(s) - 1 PROVE r[k] = IF k < i THEN s[k] ELSE s[k + 1]
    <3>1. CASE k < i
      <4>1. k <= Len(a) /\ k \in 1 .. i - 1
        BY <1>2, <3>1
      <4> QED
        BY <1>2, <2>1, <2>2, <3>1, <4>1
    <3>2. CASE ~(k < i)
      <4>1. /\ ~(k <= Len(a)) /\ k - Len(a) \in 1 .. Len(s) - i
            /\ k - Len(a) + i = k + 1
        BY <1>1, <1>2, <3>2
      <4> QED
        BY <1>3, <2>1, <2>2, <3>2, <4>1
    <3> QED
      BY <3>1, <3>2
  <2> QED
    BY <2>1, <2>2, <2>3
<1> HIDE DEF a, b, r
<1>5. DOMAIN r = 1 .. Len(s) - 1
  BY <1>4, LenProperties
<1>6. \A k, m \in 1 .. Len(s) : s[k] = s[m] => k = m
  BY <1>1 DEF IsInjective
<1>7. IsInjective(r)
  BY <1>1, <1>4, <1>5, <1>6 DEF IsInjective
<1>8. ASSUME NEW k \in 1 .. Len(s) - 1 PROVE r[k] \in ToSet(s) \ {s[i]}
  <2>1. CASE k < i
    BY <1>1, <1>4, <1>6, <2>1 DEF ToSet
  <2>2. CASE ~(k < i)
    BY <1>1, <1>4, <1>6, <2>2 DEF ToSet
  <2> QED
    BY <2>1, <2>2
<1>9. ASSUME NEW k \in 1 .. Len(s), k # i PROVE \E m \in 1 .. Len(s) - 1 : r[m] = s[k]
  <2>1. CASE k < i
    BY <1>1, <1>4, <2>1
  <2>2. CASE k > i
    <3>1. k - 1 \in 1 .. Len(s) - 1 /\ ~(k - 1 < i) /\ k - 1 + 1 = k
      BY <1>1, <2>2
    <3> QED
      BY <1>4, <3>1
  <2> QED
    BY <1>1, <1>9, <2>1, <2>2
<1>10. ToSet(r) = ToSet(s) \ {s[i]}
  <2>1. ToSet(r) = {r[k] : k \in 1 .. Len(s) - 1} /\ ToSet(s) = {s[k] : k \in 1 .. Len(s)}
    BY <1>1, <1>5 DEF ToSet
  <2>2. ToSet(r) \subseteq ToSet(s) \ {s[i]}
    BY <1>8, <2>1
  <2>3. ASSUME NEW e \in ToSet(s) \ {s[i]} PROVE e \in ToSet(r)
    BY <1>9, <2>1, <2>3
  <2> QED
    BY <2>2, <2>3
<1>11. ASSUME i # 1 PROVE r # <<>> /\ r[1] = s[1]
  BY <1>1, <1>4, <1>5, <1>11
<1> QED
  BY <1>4, <1>7, <1>10, <1>11 DEF r

\* A new session comes before the others.
LEMMA ConsProperties ==
  ASSUME NEW S, NEW s \in Seq(S), NEW d \in S, IsInjective(s), d \notin ToSet(s)
  PROVE  /\ <<d>> \o s \in Seq(S)
         /\ IsInjective(<<d>> \o s)
         /\ ToSet(<<d>> \o s) = ToSet(s) \cup {d}
         /\ HeadOf(<<d>> \o s) = d
<1> DEFINE r == <<d>> \o s
<1>1. Len(s) \in Nat /\ DOMAIN s = 1 .. Len(s)
  BY LenProperties
<1>2. <<d>> \in Seq(S) /\ Len(<<d>>) = 1 /\ <<d>>[1] = d
  OBVIOUS
<1>3. /\ r \in Seq(S) /\ Len(r) = Len(s) + 1
      /\ \A k \in 1 .. Len(s) + 1 : r[k] = IF k <= 1 THEN <<d>>[k] ELSE s[k - 1]
  <2>1. /\ r \in Seq(S) /\ Len(r) = Len(<<d>>) + Len(s)
        /\ \A k \in 1 .. Len(<<d>>) + Len(s) :
             r[k] = IF k <= Len(<<d>>) THEN <<d>>[k] ELSE s[k - Len(<<d>>)]
    BY <1>2, ConcatProperties
  <2> HIDE DEF r
  <2> QED
    BY <1>1, <1>2, <2>1
<1> HIDE DEF r
<1>4. DOMAIN r = 1 .. Len(s) + 1
  BY <1>3, LenProperties
<1>5. r[1] = d /\ \A k \in 1 .. Len(s) : k + 1 \in 1 .. Len(s) + 1 /\ r[k + 1] = s[k]
  BY <1>1, <1>2, <1>3
<1>6. \A k \in 2 .. Len(s) + 1 : k - 1 \in 1 .. Len(s) /\ r[k] = s[k - 1]
  BY <1>1, <1>3
<1>7. ToSet(r) = ToSet(s) \cup {d}
  BY <1>1, <1>4, <1>5, <1>6, SMTT(60) DEF ToSet
<1>8. IsInjective(r)
  <2> SUFFICES ASSUME NEW k \in 1 .. Len(s) + 1, NEW m \in 1 .. Len(s) + 1, r[k] = r[m]
               PROVE  k = m
    BY <1>4 DEF IsInjective
  <2>1. \A x \in 1 .. Len(s) : s[x] # d
    BY <1>1 DEF ToSet
  <2>2. \A x, y \in 1 .. Len(s) : s[x] = s[y] => x = y
    BY <1>1 DEF IsInjective
  <2>3. CASE k = 1
    BY <1>1, <1>5, <1>6, <2>1, <2>3
  <2>4. CASE m = 1
    BY <1>1, <1>5, <1>6, <2>1, <2>4
  <2>5. CASE k # 1 /\ m # 1
    BY <1>1, <1>6, <2>2, <2>5
  <2> QED
    BY <2>3, <2>4, <2>5
<1>9. r # <<>> /\ HeadOf(r) = d
  BY <1>1, <1>4, <1>5 DEF HeadOf
<1> QED
  BY <1>3, <1>7, <1>8, <1>9 DEF r

\* No session is the null session.
LEMMA NoneIsNoSession == None \notin Dccs
BY SizeAssumption DEF None

\* Sessions of the list are sessions, and each is at its place.
LEMMA ListedProperties ==
  ASSUME dcc_sessions \in Seq(Dccs)
  PROVE  /\ Listed \subseteq Dccs
         /\ HeadOf(dcc_sessions) \in Listed \cup {None}
         /\ \A d \in Listed : PlaceOf(d) \in 1 .. Len(dcc_sessions) /\ dcc_sessions[PlaceOf(d)] = d
<1>1. /\ Len(dcc_sessions) \in Nat /\ DOMAIN dcc_sessions = 1 .. Len(dcc_sessions)
      /\ \A i \in 1 .. Len(dcc_sessions) : dcc_sessions[i] \in Dccs
  BY LenProperties, ElementOfSeq
<1>2. Listed = {dcc_sessions[i] : i \in 1 .. Len(dcc_sessions)}
  BY <1>1 DEF Listed, ToSet
<1>3. HeadOf(dcc_sessions) \in Listed \cup {None}
  <2>1. dcc_sessions # <<>> => 1 \in 1 .. Len(dcc_sessions)
    BY <1>1, EmptySeq
  <2> QED
    BY <1>2, <2>1 DEF HeadOf
<1>4. ASSUME NEW d \in Listed
      PROVE  PlaceOf(d) \in 1 .. Len(dcc_sessions) /\ dcc_sessions[PlaceOf(d)] = d
  BY <1>1, <1>2 DEF PlaceOf
<1> QED
  BY <1>1, <1>2, <1>3, <1>4

\* The next session is another one, and not the newest.
LEMMA NextProperties ==
  ASSUME dcc_sessions \in Seq(Dccs), IsInjective(dcc_sessions), NEW d \in Listed
  PROVE  \/ NextOf(d) = None
         \/ NextOf(d) \in Listed \ {d, HeadOf(dcc_sessions)}
<1> SUFFICES ASSUME PlaceOf(d) # Len(dcc_sessions)
             PROVE  NextOf(d) \in Listed \ {d, HeadOf(dcc_sessions)}
  BY DEF NextOf
<1>1. Len(dcc_sessions) \in Nat /\ DOMAIN dcc_sessions = 1 .. Len(dcc_sessions)
  BY LenProperties
<1>2. PlaceOf(d) \in 1 .. Len(dcc_sessions) /\ dcc_sessions[PlaceOf(d)] = d
  BY ListedProperties
<1>3. /\ PlaceOf(d) + 1 \in 1 .. Len(dcc_sessions) /\ 1 \in 1 .. Len(dcc_sessions)
      /\ PlaceOf(d) + 1 # PlaceOf(d) /\ PlaceOf(d) + 1 # 1
  BY <1>1, <1>2
<1>4. NextOf(d) = dcc_sessions[PlaceOf(d) + 1]
  BY DEF NextOf
<1>5. dcc_sessions # <<>>
  BY <1>1, <1>3
<1>6. HeadOf(dcc_sessions) = dcc_sessions[1]
  BY <1>5 DEF HeadOf
<1>7. NextOf(d) \in Listed
  BY <1>1, <1>3, <1>4 DEF Listed, ToSet
<1> QED
  BY <1>1, <1>2, <1>3, <1>4, <1>6, <1>7 DEF IsInjective

\* A session that is removed leaves the others in their order.
LEMMA Unlinks ==
  ASSUME dcc_sessions \in Seq(Dccs), IsInjective(dcc_sessions), NEW d \in Dccs, RemoveSession(d)
  PROVE  /\ dcc_sessions' \in Seq(Dccs) /\ IsInjective(dcc_sessions')
         /\ Listed' = Listed \ {d}
         /\ HeadOf(dcc_sessions) # d => HeadOf(dcc_sessions') = HeadOf(dcc_sessions)
<1>1. CASE d \notin Listed
  BY <1>1 DEF RemoveSession, Listed
<1>2. CASE d \in Listed
  <2>1. PlaceOf(d) \in 1 .. Len(dcc_sessions) /\ dcc_sessions[PlaceOf(d)] = d
    BY <1>2, ListedProperties
  <2>2. dcc_sessions' = RemoveAt(dcc_sessions, PlaceOf(d))
    BY <1>2 DEF RemoveSession
  <2>3. /\ dcc_sessions' \in Seq(Dccs) /\ IsInjective(dcc_sessions')
        /\ ToSet(dcc_sessions') = ToSet(dcc_sessions) \ {d}
        /\ PlaceOf(d) # 1 => dcc_sessions' # <<>> /\ dcc_sessions'[1] = dcc_sessions[1]
    BY <2>1, <2>2, RemoveAtProperties
  <2>4. dcc_sessions # <<>>
    BY <2>1
  <2> QED
    BY <2>1, <2>3, <2>4 DEF HeadOf, Listed
<1> QED
  BY <1>1, <1>2

\* A new session was in no list, and becomes its head.
LEMMA Links ==
  ASSUME dcc_sessions \in Seq(Dccs), ListInv, NEW d \in Dccs, NEW s, NewSession(d, s)
  PROVE  /\ dcc_sessions' \in Seq(Dccs) /\ IsInjective(dcc_sessions')
         /\ d \notin Listed /\ Listed' = Listed \cup {d}
         /\ HeadOf(dcc_sessions') = d
<1>1. d \notin Listed /\ dcc_sessions' = <<d>> \o dcc_sessions
  BY DEF NewSession, Fresh, ListInv
<1> QED
  BY <1>1, ConsProperties DEF Listed, ListInv

-----------------------------------------------------------------------------
\* At first no session exists.
LEMMA InvInit == Init => DccInv
<1> SUFFICES ASSUME Init PROVE DccInv
  OBVIOUS
<1>1. Listed = {} /\ IsInjective(dcc_sessions) /\ dcc_sessions \in Seq(Dccs)
  BY DEF Init, Listed, ToSet, IsInjective
<1>2. TypeOK
  <2>1. 0 \in 0 .. MaxLines /\ 0 \in 0 .. 2 /\ "none" \in States /\ FALSE \in BOOLEAN
    BY SizeAssumption DEF States
  <2> QED
    BY <1>1, <2>1 DEF Init, TypeOK
<1>3. LockInv
  BY DEF Init, LockInv, Walks
<1>5. ListInv /\ FreshInv /\ FreedOnce
  BY <1>1 DEF Init, ListInv, FreshInv, FreedOnce
<1>4. ThreadInv /\ ChatInv /\ CallbackInv /\ ToldInv
  BY <1>1 DEF Init, ThreadInv, ChatInv, SettingUp, CallbackInv, CallbackSet, ToldInv, Calls
<1> QED
  BY <1>2, <1>3, <1>4, <1>5 DEF DccInv

\* Steps that leave the list alone.
LEMMA SameList ==
  ASSUME UNCHANGED dcc_sessions
  PROVE  /\ Listed' = Listed /\ HeadOf(dcc_sessions)' = HeadOf(dcc_sessions)
         /\ IsInjective(dcc_sessions)' = IsInjective(dcc_sessions)
BY DEF Listed

\* The first walk, and what comes of sessions that are over.
LEMMA VisitStep == DccInv /\ (Visit \/ Expired) => DccInv'
<1> SUFFICES ASSUME DccInv, Visit \/ Expired PROVE DccInv'
  OBVIOUS
<1> USE NoneIsNoSession DEF DccInv, TypeOK, ListInv, FreshInv, LockInv, ThreadInv, ChatInv, SettingUp,
        CallbackInv, CallbackSet, ToldInv, FreedOnce, list, walk, sets, ui, Goto, States, Waiting,
        Walks, Calls, Chats, Asked, Serving
<1>0. Listed \subseteq Dccs /\ HeadOf(dcc_sessions) \in Listed \cup {None}
  BY ListedProperties
<1>1. CASE StartVisits
  BY <1>0, <1>1, SameList DEF StartVisits
<1>2. CASE Skip
  BY <1>0, <1>2, SameList, NextProperties DEF Skip
<1>3. CASE Reclaim
  <2>1. dcc \in Listed \ SettingUp /\ dcc \in Dccs /\ RemoveSession(dcc)
    BY <1>0, <1>3 DEF Reclaim
  <2>2. NextOf(dcc) \in (Listed \ {dcc}) \cup {None}
    BY <2>1, NextProperties
  <2>3. /\ dcc_sessions' \in Seq(Dccs) /\ IsInjective(dcc_sessions')
        /\ Listed' = Listed \ {dcc}
        /\ HeadOf(dcc_sessions) # dcc => HeadOf(dcc_sessions)' = HeadOf(dcc_sessions)
    BY <2>1, Unlinks
  <2> QED
    BY <1>0, <1>3, <2>1, <2>2, <2>3 DEF Reclaim, RemoveSession
<1>4. CASE Expire
  <2>1. dcc \in Listed /\ dcc \in Dccs
    BY <1>0, <1>4 DEF Expire
  <2>2. NextOf(dcc) \in (Listed \ {dcc, HeadOf(dcc_sessions)}) \cup {None}
    BY <2>1, NextProperties
  <2> QED
    BY <1>0, <1>4, <2>1, <2>2, SameList, ZenonT(60) DEF Expire
<1>5. CASE Expired
  <2>1. dcc \in Listed \ SettingUp /\ dcc \in Dccs /\ RemoveSession(dcc)
    BY <1>0, <1>5 DEF Expired
  <2>2. /\ dcc_sessions' \in Seq(Dccs) /\ IsInjective(dcc_sessions')
        /\ Listed' = Listed \ {dcc}
        /\ HeadOf(dcc_sessions) # dcc => HeadOf(dcc_sessions)' = HeadOf(dcc_sessions)
    BY <2>1, Unlinks
  <2> QED
    BY <1>0, <1>5, <2>1, <2>2 DEF Expired, RemoveSession
<1>6. CASE ExpireUnasked
  <2>1. dcc \in Listed \ SettingUp /\ dcc \in Dccs /\ RemoveSession(dcc)
    BY <1>0, <1>6 DEF ExpireUnasked
  <2>2. NextOf(dcc) \in (Listed \ {dcc, HeadOf(dcc_sessions)}) \cup {None}
    BY <2>1, NextProperties
  <2>3. /\ dcc_sessions' \in Seq(Dccs) /\ IsInjective(dcc_sessions')
        /\ Listed' = Listed \ {dcc}
        /\ HeadOf(dcc_sessions) # dcc => HeadOf(dcc_sessions)' = HeadOf(dcc_sessions)
    BY <2>1, Unlinks
  <2> QED
    BY <1>0, <1>6, <2>1, <2>2, <2>3 DEF ExpireUnasked, RemoveSession
<1>7. CASE Reread
  <2>1. dcc \in Dccs \ Listed /\ dcc_next \in Listed \cup {None}
    BY <1>7 DEF Reread
  <2>2. CASE UNCHANGED list
    BY <1>0, <1>7, <2>1, <2>2, SameList DEF Reread
  <2>3. CASE state[dcc] = "removed" /\ RemoveSession(dcc)
    <3>1. UNCHANGED dcc_sessions
      BY <2>1, <2>3 DEF RemoveSession
    <3> QED
      BY <1>0, <1>7, <2>1, <2>3, <3>1, SameList DEF Reread, RemoveSession
  <2> QED
    BY <1>7, <2>2, <2>3 DEF Reread
<1>8. CASE CollectSockets
  <2> QED
    BY <1>0, <1>8, SameList DEF CollectSockets
<1> QED
  BY <1>1, <1>2, <1>3, <1>4, <1>5, <1>6, <1>7, <1>8 DEF Visit

\* select hands out no chat that is being set up, as its peer waits; the end of the
\* run frees what is in the list.
LEMMA SelectStep == PeerWaits /\ DccInv /\ (SelectReady \/ RunEnds) => DccInv'
<1> SUFFICES ASSUME PeerWaits, DccInv, SelectReady \/ RunEnds PROVE DccInv'
  OBVIOUS
<1> USE NoneIsNoSession DEF DccInv, TypeOK, ListInv, FreshInv, LockInv, ThreadInv, ChatInv, SettingUp,
        CallbackInv, CallbackSet, ToldInv, FreedOnce, list, walk, sets, ui, Goto, States, Waiting,
        Walks, Calls, Chats, Asked, Serving
<1>0. Listed \subseteq Dccs /\ HeadOf(dcc_sessions) \in Listed \cup {None}
  BY ListedProperties
<1>1. CASE SelectReady
  BY <1>0, <1>1, SameList DEF SelectReady
<1>2. CASE RunEnds
  <2>1. Listed' = {} /\ IsInjective(dcc_sessions') /\ dcc_sessions' \in Seq(Dccs)
    BY <1>2 DEF RunEnds, Listed, ToSet, IsInjective
  <2> QED
    BY <1>0, <1>2, <2>1 DEF RunEnds
<1> QED
  BY <1>1, <1>2

\* The second walk.
LEMMA ServeStep == DccInv /\ Serve => DccInv'
<1> SUFFICES ASSUME DccInv, Serve PROVE DccInv'
  OBVIOUS
<1> USE NoneIsNoSession DEF DccInv, TypeOK, ListInv, FreshInv, LockInv, ThreadInv, ChatInv, SettingUp,
        CallbackInv, CallbackSet, ToldInv, FreedOnce, list, walk, sets, ui, Goto, States, Waiting,
        Walks, Calls, Chats, Asked, Serving
<1>0. Listed \subseteq Dccs /\ HeadOf(dcc_sessions) \in Listed \cup {None}
  BY ListedProperties
<1>1. CASE StartServing
  BY <1>0, <1>1, SameList DEF StartServing
<1>2. CASE PeerAnswers
  <2>1. TypeOK'
    BY <1>0, <1>2, SameList DEF PeerAnswers, Call
  <2>2. ListInv' /\ FreshInv' /\ LockInv' /\ FreedOnce'
    BY <1>0, <1>2, SameList DEF PeerAnswers, Call
  <2>3. ThreadInv' /\ ChatInv'
    BY <1>0, <1>2, SameList DEF PeerAnswers, Call
  <2>4. CallbackInv'
    BY <1>0, <1>2, SameList DEF PeerAnswers, Call
  <2>5. ToldInv'
    BY <1>0, <1>2, SameList DEF PeerAnswers, Call
  <2> QED
    BY <2>1, <2>2, <2>3, <2>4, <2>5
<1>3. CASE NothingNew \/ NothingToRead
  BY <1>0, <1>3, SameList, ZenonT(60) DEF NothingNew, NothingToRead
<1>4. CASE Receive
  <2>1. TypeOK'
    BY <1>0, <1>4, SameList DEF Receive, Call
  <2>2. ListInv' /\ FreshInv' /\ LockInv' /\ FreedOnce'
    BY <1>0, <1>4, SameList DEF Receive, Call
  <2>3. ThreadInv' /\ ChatInv'
    BY <1>0, <1>4, SameList DEF Receive, Call
  <2>4. CallbackInv'
    BY <1>0, <1>4, SameList DEF Receive, Call
  <2>5. ToldInv'
    BY <1>0, <1>4, SameList DEF Receive, Call
  <2> QED
    BY <2>1, <2>2, <2>3, <2>4, <2>5
<1>5. CASE Send
  <2>1. dcc \in Listed /\ dcc \in Dccs /\ NextOf(dcc) \in Listed \cup {None}
    BY <1>0, <1>5, NextProperties DEF Send
  <2>2. CASE Call("writeCall", TRUE) /\ UNCHANGED outgoing
    BY <1>0, <1>5, <2>1, <2>2, SameList DEF Send, Call
  <2>3. ASSUME Goto("write", "new"), dcc' = NextOf(dcc), NEW n \in 0 .. outgoing[dcc] - 1,
               outgoing' = [outgoing EXCEPT ![dcc] = n],
               UNCHANGED <<locked, dcc_next, err, ui, told, late>>
        PROVE  DccInv'
    <3>1. outgoing' \in [Dccs -> 0 .. MaxLines]
      <4>1. n \in 0 .. MaxLines
        BY <2>1, <2>3, SizeAssumption
      <4> QED
        BY <2>3, <4>1
    <3> QED
      BY <1>0, <1>5, <2>1, <2>3, <3>1, SameList DEF Send
  <2> QED
    BY <1>5, <2>2, <2>3 DEF Send
<1>6. CASE NothingToSend
  <2>1. dcc \in Listed /\ NextOf(dcc) \in Listed \cup {None}
    BY <1>0, <1>6, NextProperties DEF NothingToSend
  <2> QED
    BY <1>0, <1>6, <2>1, SameList DEF NothingToSend
<1>7. CASE Served
  BY <1>0, <1>7, SameList DEF Served
<1> QED
  BY <1>1, <1>2, <1>3, <1>4, <1>5, <1>6, <1>7 DEF Serve

\* Callbacks return, requests arrive and are handled.
LEMMA HandleStep ==
  DccInv /\ (CallReturns \/ AcceptRequest \/ DeclineRequest \/ LeaveRequest \/ Request \/ NextRound)
    => DccInv'
<1> SUFFICES ASSUME DccInv,
                    CallReturns \/ AcceptRequest \/ DeclineRequest \/ LeaveRequest \/ Request \/ NextRound
             PROVE  DccInv'
  OBVIOUS
<1> USE NoneIsNoSession DEF DccInv, TypeOK, ListInv, FreshInv, LockInv, ThreadInv, ChatInv, SettingUp,
        CallbackInv, CallbackSet, ToldInv, FreedOnce, list, walk, sets, ui, Goto, States, Waiting,
        Walks, Calls, Chats, Asked, Serving
<1>0. Listed \subseteq Dccs /\ HeadOf(dcc_sessions) \in Listed \cup {None}
  BY ListedProperties
<1>1. CASE CallReturns
  <2>1. dcc \in Listed /\ dcc \in Dccs /\ NextOf(dcc) \in Listed \cup {None}
    BY <1>0, <1>1, NextProperties DEF CallReturns
  <2> QED
    BY <1>0, <1>1, <2>1, SameList DEF CallReturns, Destroyed, Answered
<1>2. CASE AcceptRequest
  <2>1. TypeOK'
    BY <1>0, <1>2, SameList, ZenonT(60) DEF AcceptRequest, Destroyed, Answered
  <2>2. ListInv' /\ FreshInv' /\ LockInv' /\ FreedOnce'
    BY <1>0, <1>2, SameList DEF AcceptRequest, Destroyed, Answered
  <2>3. ThreadInv' /\ ChatInv'
    BY <1>0, <1>2, SameList DEF AcceptRequest, Destroyed, Answered
  <2>4. CallbackInv'
    BY <1>0, <1>2, SameList DEF AcceptRequest, Destroyed, Answered
  <2>5. ToldInv'
    BY <1>0, <1>2, SameList DEF AcceptRequest, Destroyed, Answered
  <2> QED
    BY <2>1, <2>2, <2>3, <2>4, <2>5
<1>3. CASE DeclineRequest
  BY <1>0, <1>3, SameList DEF DeclineRequest, Destroyed, Answered
<1>4. CASE LeaveRequest
  BY <1>0, <1>4, SameList DEF LeaveRequest, Answered
<1>6. CASE NextRound
  BY <1>0, <1>6, SameList DEF NextRound
<1>5. CASE Request
  <2> PICK d \in Dccs : NewSession(d, "init") /\ dcc' = d
    BY <1>5 DEF Request
  <2>1. /\ dcc_sessions' \in Seq(Dccs) /\ IsInjective(dcc_sessions')
        /\ d \notin Listed /\ Listed' = Listed \cup {d}
    BY Links
  <2>2. /\ ircPc = "lines" /\ ircPc' \in Asked /\ dcc' = d
        /\ UNCHANGED <<locked, dcc_next, err, in_set, out_set, uiPc, uiDcc, told, late>>
    BY <1>5 DEF Request
  <2>3. /\ state[d] = "none" /\ state'[d] = "init" /\ \A e \in Listed : e # d /\ state'[e] = state[e]
        /\ state' \in [Dccs -> States]
        /\ UNCHANGED <<frees, cb, outgoing>>
    BY <1>0, <2>1 DEF NewSession, Fresh
  <2>4. TypeOK' /\ LockInv'
    BY <2>1, <2>2, <2>3
  <2>5. ListInv' /\ FreshInv' /\ FreedOnce'
    BY <1>0, <2>1, <2>2, <2>3 DEF NewSession
  <2>6. d \notin SettingUp /\ SettingUp' = SettingUp
    BY <2>1, <2>2
  <2>7. ThreadInv'
    BY <2>1, <2>2, <2>6
  <2>8. ChatInv'
    BY <2>1, <2>2, <2>3, <2>6
  <2>9. CallbackInv' /\ ToldInv'
    BY <2>1, <2>2, <2>3, <2>6
  <2> QED
    BY <2>4, <2>5, <2>7, <2>8, <2>9
<1> QED
  BY <1>1, <1>2, <1>3, <1>4, <1>5, <1>6

\* The UI thread.
LEMMA UiStep == DccInv /\ (UiUses \/ UiCall) => DccInv'
<1> SUFFICES ASSUME DccInv, UiUses \/ UiCall PROVE DccInv'
  OBVIOUS
<1> USE NoneIsNoSession DEF irc, DccInv, TypeOK, ListInv, FreshInv, LockInv, ThreadInv, ChatInv, SettingUp,
        CallbackInv, CallbackSet, ToldInv, FreedOnce, list, walk, sets, ui, Goto, States, Waiting,
        Walks, Calls, Chats, Asked, Serving
<1>0. Listed \subseteq Dccs /\ HeadOf(dcc_sessions) \in Listed \cup {None}
  BY ListedProperties
<1>1. CASE StartChat
  BY <1>0, <1>1, SameList DEF StartChat
<1>2. ASSUME NEW d \in Dccs, UseChat(d) PROVE DccInv'
  BY <1>0, <1>2, SameList DEF UseChat
<1>3. CASE NewChat
  <2>1. CASE uiPc' = "idle" /\ UNCHANGED <<list, uiDcc>>
    BY <1>0, <1>3, <2>1, SameList DEF NewChat
  <2>2. ASSUME NEW d \in Dccs, NewSession(d, "listening"), uiDcc' = d, uiPc' = "request" PROVE DccInv'
    <3>1. /\ dcc_sessions' \in Seq(Dccs) /\ IsInjective(dcc_sessions')
          /\ d \notin Listed /\ Listed' = Listed \cup {d}
          /\ HeadOf(dcc_sessions)' = d
      BY <2>2, Links
    <3>20. TypeOK'
      BY <1>0, <1>3, <2>2, <3>1 DEF NewChat, NewSession, Fresh
    <3>21. ListInv' /\ FreshInv' /\ LockInv' /\ FreedOnce'
      BY <1>0, <1>3, <2>2, <3>1 DEF NewChat, NewSession, Fresh
    <3>22. ThreadInv' /\ ChatInv'
      BY <1>0, <1>3, <2>2, <3>1 DEF NewChat, NewSession, Fresh
    <3>23. CallbackInv'
      BY <1>0, <1>3, <2>2, <3>1 DEF NewChat, NewSession, Fresh
    <3>24. ToldInv'
      BY <1>0, <1>3, <2>2, <3>1 DEF NewChat, NewSession, Fresh
    <3> QED
      BY <3>20, <3>21, <3>22, <3>23, <3>24
  <2> QED
    BY <1>3, <2>1, <2>2 DEF NewChat
<1>4. CASE RequestSent
  BY <1>0, <1>4, SameList DEF RequestSent
<1>8. CASE Register
  BY <1>0, <1>8, SameList DEF Register
<1>5. CASE RequestFails
  <2>1. uiDcc \in Listed /\ uiDcc \in Dccs /\ RemoveSession(uiDcc)
    BY <1>0, <1>5 DEF RequestFails
  <2>2. /\ dcc_sessions' \in Seq(Dccs) /\ IsInjective(dcc_sessions')
        /\ Listed' = Listed \ {uiDcc}
    BY <2>1, Unlinks
  <2> QED
    BY <1>0, <1>5, <2>1, <2>2 DEF RequestFails, RemoveSession
<1>6. CASE SendMsg
  <2>1. TypeOK'
    BY <1>0, <1>6, SizeAssumption, SameList, SMTT(60) DEF SendMsg
  <2>2. ListInv' /\ FreshInv' /\ LockInv' /\ FreedOnce'
    BY <1>0, <1>6, SizeAssumption, SameList DEF SendMsg
  <2>3. ThreadInv' /\ ChatInv'
    BY <1>0, <1>6, SizeAssumption, SameList DEF SendMsg
  <2>4. CallbackInv'
    BY <1>0, <1>6, SizeAssumption, SameList DEF SendMsg
  <2>5. ToldInv'
    BY <1>0, <1>6, SizeAssumption, SameList DEF SendMsg
  <2> QED
    BY <2>1, <2>2, <2>3, <2>4, <2>5
<1>7. CASE Destroy
  BY <1>0, <1>7, SameList DEF Destroy, Destroyed
<1> QED
  BY <1>1, <1>2, <1>3, <1>4, <1>5, <1>6, <1>7, <1>8 DEF UiUses, UiCall

\* Every step of the session's thread, the UI thread and the peers keeps the invariant.
LEMMA InvStep == PeerWaits /\ DccInv /\ [Next]_vars => DccInv'
<1>1. DccInv /\ UNCHANGED vars => DccInv'
  BY SameList DEF vars, list, walk, sets, ui, DccInv, TypeOK, ListInv, FreshInv, LockInv, ThreadInv, ChatInv, SettingUp,
     CallbackInv, CallbackSet, ToldInv, FreedOnce
<1> QED
  BY <1>1, VisitStep, SelectStep, ServeStep, HandleStep, UiStep DEF Next, Run, Handle

\* The whole invariant, whatever the peers and the user do.
THEOREM DccInvariant == PeerWaits => (Spec => []DccInv)
<1> SUFFICES ASSUME PeerWaits PROVE Spec => []DccInv
  OBVIOUS
<1>1. DccInv /\ [Next]_vars => DccInv'
  BY InvStep
<1> QED
  BY <1>1, InvInit, PTL DEF Spec

\* The list, the sessions, the two walks and the UI thread's calls keep their types.
THEOREM DccTypes == PeerWaits => (Spec => []TypeOK)
<1>1. DccInv => TypeOK
  BY DEF DccInv
<1> QED
  BY <1>1, DccInvariant, PTL

\* A session is freed once, or it was destroyed while its timeout was being reported.
THEOREM DccFreedOnce == PeerWaits => (Spec => []FreedOnce)
<1>1. DccInv => FreedOnce
  BY DEF DccInv
<1> QED
  BY <1>1, DccInvariant, PTL

\* The sessions that a thread works on while the other one may take the mutex live, and
\* the callbacks called have been set.
THEOREM HeldSessions == PeerWaits => (Spec => []HeldSessionsLive)
<1>1. ASSUME DccInv PROVE HeldSessionsLive
  <2>1. /\ \A d \in Listed : frees[d] = 0
        /\ CallbackSet
    BY <1>1 DEF DccInv, ListInv, CallbackInv
  <2>2. ircPc \in Calls => dcc \in Listed
    BY <1>1 DEF DccInv, ThreadInv
  <2>3. ircPc \in {"expire", "reread"} /\ dcc_next # None => dcc_next \in Listed
    BY <1>1 DEF DccInv, ThreadInv
  <2>4. uiPc = "register" => uiDcc \in Listed
    BY <1>1 DEF DccInv, ChatInv, SettingUp
  <2> QED
    BY <2>1, <2>2, <2>3, <2>4 DEF HeldSessionsLive
<1> QED
  BY <1>1, DccInvariant, PTL

\* No callback is called for a session whose end was reported: every step that enters
\* one starts from a session in the list that is not removed, or from a new one.
THEOREM ErrorsComeLast == PeerWaits => (Spec => ErrorIsLast)
<1>1. ASSUME DccInv, [Next]_vars, ircPc' \in Calls, ircPc' # ircPc PROVE dcc' \notin told
  <2> USE DEF Goto, Calls
  <2>1. Expire \/ PeerAnswers \/ Receive \/ Send \/ Request
    BY <1>1 DEF Next, Run, Visit, StartVisits, Skip, Reclaim, ExpireUnasked, Reread, CollectSockets, Serve,
       StartServing, NothingNew, NothingToRead, NothingToSend, Served, Handle, Expired, CallReturns, AcceptRequest,
       DeclineRequest, LeaveRequest, SelectReady, RunEnds, NextRound, UiUses, StartChat, UseChat, UiCall, NewChat,
       RequestSent, RequestFails, Register, SendMsg, Destroy, irc, vars
  <2>2. CASE Request
    BY <1>1, <2>2 DEF Request, NewSession, Fresh, DccInv, FreshInv
  <2>3. CASE Expire \/ PeerAnswers \/ Receive \/ Send
    <3>1. /\ dcc' = dcc /\ dcc \in Listed /\ state[dcc] # "removed"
          /\ ircPc \in {"visit", "new", "read", "write"}
      BY <1>1, <2>3 DEF Expire, PeerAnswers, Receive, Send, Call, Waiting, DccInv, ThreadInv
    <3> QED
      BY <1>1, <3>1 DEF DccInv, ToldInv, Chats
  <2> QED
    BY <2>1, <2>2, <2>3
<1>2. DccInv /\ [Next]_vars => [ircPc' \in Calls /\ ircPc' # ircPc => dcc' \notin told]_vars
  BY <1>1
<1> QED
  BY <1>2, DccInvariant, PTL DEF Spec, ErrorIsLast
=============================================================================
