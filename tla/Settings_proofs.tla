-------------------------- MODULE Settings_proofs --------------------------
(***************************************************************************)
(* The settings: the ini in memory, and the tables of entries, for any     *)
(* names, any number of nodes and any table sizes.                         *)
(***************************************************************************)
EXTENDS RamIni, ServerEntries, FiniteSetTheorems, WellFoundedInduction, TLAPS

(***************************************************************************)
(* The ini in memory.  The argument: each list is a chain that ends and    *)
(* can be walked both ways, no two of them meet, and no name is twice in   *)
(* one.  Putting a node at the end of a list adds it to the chain, taking  *)
(* one out takes away that node and no other.  What reading finds follows  *)
(* from the nodes on the chains.                                           *)
(***************************************************************************)
\* A function from nodes whose links lead to nodes or nowhere.
Links(node) ==
  /\ 0 \notin DOMAIN node
  /\ \A n \in DOMAIN node : node[n].next \in DOMAIN node \cup {0} /\ node[n].prev \in DOMAIN node \cup {0}

\* A list from its first node on: it ends, in one node, and prev leads back.
IsList(node, first) ==
  /\ first \in DOMAIN node \cup {0}
  /\ MirrorLinks(node, first)
  /\ first # 0 => \E n \in Chain(node, first) : node[n].next = 0
  /\ \A m, n \in Chain(node, first) : node[m].next = 0 /\ node[n].next = 0 => m = n

\* The nodes of a list are those of C.
ListOf(node, first, C) == IsList(node, first) /\ Chain(node, first) = C

SameLinks(a, b, n) == a[n].next = b[n].next /\ a[n].prev = b[n].prev

-----------------------------------------------------------------------------
\* What is on a chain.
LEMMA ChainFacts ==
  ASSUME NEW node, Links(node), NEW first \in DOMAIN node \cup {0}
  PROVE  /\ Chain(node, first) \subseteq DOMAIN node /\ 0 \notin Chain(node, first)
         /\ first # 0 => first \in Chain(node, first)
         /\ first = 0 => Chain(node, first) = {}
         /\ \A n \in Chain(node, first) : node[n].next \in Chain(node, first) \cup {0}
<1>1. Chain(node, first) \subseteq DOMAIN node /\ 0 \notin Chain(node, first)
  BY DEF Chain, Links
<1>2. first # 0 => first \in Chain(node, first)
  BY DEF Chain
<1>3. first = 0 => Chain(node, first) = {}
  <2>1. {} \in SUBSET DOMAIN node /\ Closed(node, {})
    BY DEF Closed
  <2> QED
    BY <2>1 DEF Chain
<1>4. ASSUME NEW n \in Chain(node, first), node[n].next # 0
      PROVE  node[n].next \in Chain(node, first)
  <2>1. node[n].next \in DOMAIN node
    BY <1>1, <1>4 DEF Links
  <2>2. ASSUME NEW S \in SUBSET DOMAIN node, first \in S \cup {0}, Closed(node, S)
        PROVE  node[n].next \in S
    <3>1. n \in S
      BY <2>2 DEF Chain
    <3> QED
      BY <1>4, <2>2, <3>1 DEF Closed
  <2> QED
    BY <2>1, <2>2 DEF Chain
<1> QED
  BY <1>1, <1>2, <1>3, <1>4

\* No smaller set has the first node and is not left by following next.
LEMMA ChainLeast ==
  ASSUME NEW node, NEW first, NEW S \in SUBSET DOMAIN node, first \in S \cup {0}, Closed(node, S)
  PROVE  Chain(node, first) \subseteq S
BY DEF Chain

\* A chain is the smallest set, so a set that is both is the chain.
LEMMA ChainIs ==
  ASSUME NEW node, NEW first, NEW C \in SUBSET DOMAIN node, first \in C \cup {0}, Closed(node, C),
         \A S \in SUBSET DOMAIN node : first \in S \cup {0} /\ Closed(node, S) => C \subseteq S
  PROVE  Chain(node, first) = C
<1>1. Chain(node, first) \subseteq C
  BY ChainLeast
<1>2. C \subseteq Chain(node, first)
  BY DEF Chain
<1> QED
  BY <1>1, <1>2

\* What happens to nodes that are not on the list does not touch it.
LEMMA ListSame ==
  ASSUME NEW node, NEW other, Links(node), DOMAIN other = DOMAIN node, NEW first, IsList(node, first),
         \A n \in Chain(node, first) : SameLinks(other, node, n)
  PROVE  ListOf(other, first, Chain(node, first))
<1> DEFINE C == Chain(node, first)
<1>1. first \in DOMAIN node \cup {0}
  BY DEF IsList
<1>2. C \subseteq DOMAIN node /\ (first # 0 => first \in C) /\ \A n \in C : node[n].next \in C \cup {0}
  BY <1>1, ChainFacts
<1>3. ASSUME NEW S \in SUBSET DOMAIN node, first \in S \cup {0}, Closed(other, S)
      PROVE  C \subseteq S
  <2>1. S \cap C \in SUBSET DOMAIN node /\ first \in (S \cap C) \cup {0}
    BY <1>2, <1>3
  <2>2. Closed(node, S \cap C)
    BY <1>2, <1>3 DEF Closed, SameLinks
  <2>3. C \subseteq S \cap C
    BY <2>1, <2>2, ChainLeast
  <2> QED
    BY <2>3
<1>4. C \in SUBSET DOMAIN other /\ first \in C \cup {0} /\ Closed(other, C)
  BY <1>1, <1>2 DEF Closed, SameLinks
<1> HIDE DEF C
<1>5. Chain(other, first) = C
  BY <1>3, <1>4, ChainIs
<1>6. MirrorLinks(other, first)
  BY <1>2, <1>5 DEF C, MirrorLinks, IsList, SameLinks
<1> QED
  BY <1>5, <1>6 DEF C, IsList, SameLinks, ListOf

\* Every node of a list but the first is next to the one prev names.
LEMMA Before ==
  ASSUME NEW node, Links(node), NEW first, IsList(node, first), NEW n \in Chain(node, first), n # first
  PROVE  /\ node[n].prev \in Chain(node, first) /\ node[n].prev # n /\ node[n].prev # 0
         /\ node[node[n].prev].next = n
<1> DEFINE C == Chain(node, first)
<1>1. /\ C \subseteq DOMAIN node /\ 0 \notin C /\ (first # 0 => first \in C) /\ \A m \in C : node[m].next \in C \cup {0}
      /\ first \in C \cup {0}
  BY ChainFacts DEF IsList
<1>2. \E m \in C : m # n /\ node[m].next = n
  <2> SUFFICES ASSUME \A m \in C \ {n} : node[m].next # n PROVE FALSE
    OBVIOUS
  <2>1. C \ {n} \in SUBSET DOMAIN node /\ first \in (C \ {n}) \cup {0}
    BY <1>1
  <2>2. Closed(node, C \ {n})
    BY <1>1 DEF Closed
  <2>3. C \subseteq C \ {n}
    BY <2>1, <2>2, ChainLeast
  <2> QED
    BY <2>3
<1>3. PICK m \in C : m # n /\ node[m].next = n
  BY <1>2
<1>4. node[n].prev = m
  BY <1>1, <1>3 DEF IsList, MirrorLinks
<1> QED
  BY <1>1, <1>3, <1>4

\* The nodes before and after one are two.
LEMMA Apart ==
  ASSUME NEW node, Links(node), NEW first, IsList(node, first), NEW n \in Chain(node, first), node[n].prev # 0
  PROVE  node[n].prev # node[n].next
<1> DEFINE C == Chain(node, first)
           m == node[n].prev
<1> SUFFICES ASSUME m = node[n].next PROVE FALSE
  OBVIOUS
<1>1. /\ C \subseteq DOMAIN node /\ \A k \in C : node[k].next \in C \cup {0}
      /\ first \in C \cup {0} /\ 0 \notin C
  BY ChainFacts DEF IsList
<1>2. /\ \A k \in C : node[k].prev = 0 <=> k = first
      /\ \A k \in C : node[k].next # 0 => node[node[k].next].prev = k
  BY DEF IsList, MirrorLinks
<1>3. n # first
  BY <1>2
<1>4. m \in C /\ m # n /\ node[m].next = n
  BY <1>3, Before
<1>5. node[m].prev = n /\ m # first
  BY <1>1, <1>2, <1>4
<1>6. \A k \in C : (node[k].next = n => k = m) /\ (node[k].next = m => k = n)
  BY <1>1, <1>2, <1>4, <1>5
<1>7. C \ {m, n} \in SUBSET DOMAIN node /\ first \in (C \ {m, n}) \cup {0}
  BY <1>1, <1>3, <1>5
<1>8. Closed(node, C \ {m, n})
  BY <1>1, <1>6 DEF Closed
<1>9. C \subseteq C \ {m, n}
  BY <1>7, <1>8, ChainLeast
<1> QED
  BY <1>9

\* A list of one node.
LEMMA PutFirst ==
  ASSUME NEW node, Links(node), NEW new \in DOMAIN node, node[new].next = 0, node[new].prev = 0
  PROVE  ListOf(node, new, {new})
<1>1. new # 0 /\ {new} \in SUBSET DOMAIN node /\ Closed(node, {new})
  BY DEF Links, Closed
<1>2. Chain(node, new) = {new}
  BY <1>1, ChainIs
<1> QED
  BY <1>1, <1>2 DEF IsList, MirrorLinks, ListOf

\* A node is put behind the last one.
LEMMA PutLast ==
  ASSUME NEW node, Links(node), NEW first, IsList(node, first), first # 0,
         NEW new \in DOMAIN node \ Chain(node, first),
         NEW last \in Chain(node, first), node[last].next = 0,
         NEW after, DOMAIN after = DOMAIN node,
         after[last].next = new, after[last].prev = node[last].prev, after[new].next = 0, after[new].prev = last,
         \A n \in Chain(node, first) \ {last} : SameLinks(after, node, n)
  PROVE  ListOf(after, first, Chain(node, first) \cup {new})
<1> DEFINE C == Chain(node, first)
<1>1. /\ C \subseteq DOMAIN node /\ \A k \in C : node[k].next \in C \cup {0}
      /\ first \in C /\ 0 \notin C /\ new # 0 /\ first \in DOMAIN node
  BY ChainFacts DEF IsList, Links
<1>2. /\ \A k \in C : node[k].prev = 0 <=> k = first
      /\ \A k \in C : node[k].next # 0 => node[node[k].next].prev = k
      /\ \A m, n \in C : node[m].next = 0 /\ node[n].next = 0 => m = n
  BY DEF IsList, MirrorLinks
<1>3. \A n \in C \ {last} : after[n].next = node[n].next /\ after[n].prev = node[n].prev /\ node[n].next # 0
  BY <1>2 DEF SameLinks
<1>4. \A n \in C : after[n].prev = node[n].prev
  BY <1>3
<1>5. C \cup {new} \in SUBSET DOMAIN after /\ first \in (C \cup {new}) \cup {0}
  BY <1>1
<1>6. Closed(after, C \cup {new})
  BY <1>1, <1>3 DEF Closed
<1>7. ASSUME NEW S \in SUBSET DOMAIN after, first \in S \cup {0}, Closed(after, S)
      PROVE  C \cup {new} \subseteq S
  <2>1. S \cap C \in SUBSET DOMAIN node /\ first \in (S \cap C) \cup {0}
    BY <1>1, <1>7
  <2>2. Closed(node, S \cap C)
    BY <1>1, <1>3, <1>7 DEF Closed
  <2>3. C \subseteq S \cap C
    BY <2>1, <2>2, ChainLeast
  <2>4. new \in S
    BY <1>1, <1>7, <2>3 DEF Closed
  <2> QED
    BY <2>3, <2>4
<1> HIDE DEF C
<1>8. Chain(after, first) = C \cup {new}
  BY <1>5, <1>6, <1>7, ChainIs
<1>9. new \notin C /\ last \in C
  BY DEF C
<1>10. \A k \in C \cup {new} : after[k].prev = 0 <=> k = first
  BY <1>1, <1>2, <1>4, <1>9
<1>11. \A k \in C \cup {new} : after[k].next # 0 => after[after[k].next].prev = k
  BY <1>1, <1>2, <1>3, <1>4, <1>9
<1>12. \A k \in C \cup {new} : after[k].next = 0 <=> k = new
  BY <1>1, <1>3, <1>9
<1> QED
  BY <1>1, <1>8, <1>10, <1>11, <1>12 DEF IsList, MirrorLinks, ListOf, C

\* A node is taken out, wherever it stands.
LEMMA TakeOut ==
  ASSUME NEW node, Links(node), NEW first, IsList(node, first), NEW n \in Chain(node, first),
         NEW after, DOMAIN after = DOMAIN node,
         \A m \in Chain(node, first) \ {n} :
           /\ after[m].next = IF m = node[n].prev THEN node[n].next ELSE node[m].next
           /\ after[m].prev = IF m = node[n].next THEN node[n].prev ELSE node[m].prev,
         NEW rest, rest = IF node[n].prev = 0 THEN node[n].next ELSE first
  PROVE  ListOf(after, rest, Chain(node, first) \ {n})
<1> DEFINE C == Chain(node, first)
           p == node[n].prev
           q == node[n].next
<1>1. /\ C \subseteq DOMAIN node /\ \A k \in C : node[k].next \in C \cup {0}
      /\ first \in C /\ 0 \notin C
  BY ChainFacts DEF IsList
<1>2. /\ \A k \in C : node[k].prev = 0 <=> k = first
      /\ \A k \in C : node[k].next # 0 => node[node[k].next].prev = k
      /\ \A k, l \in C : node[k].next = 0 /\ node[l].next = 0 => k = l
      /\ \E l \in C : node[l].next = 0
  BY <1>1 DEF IsList, MirrorLinks
<1>3. p # 0 => p \in C /\ p # n /\ node[p].next = n
  BY <1>2, Before
<1>4. p = 0 <=> n = first
  BY <1>2
<1>5. q # 0 => q \in C /\ q # n /\ node[q].prev = n
  BY <1>1, <1>2, <1>3
<1>6. \A k \in C : node[k].next = n => k = p
  BY <1>1, <1>2
<1>7. \A m \in C \ {n} : /\ after[m].next = IF m = p THEN q ELSE node[m].next
                         /\ after[m].prev = IF m = q THEN p ELSE node[m].prev
  OBVIOUS
<1>8. rest = (IF p = 0 THEN q ELSE first) /\ n \in C
  OBVIOUS
<1> HIDE DEF C, p, q
<1>9. rest \in (C \ {n}) \cup {0} /\ C \ {n} \in SUBSET DOMAIN after
  BY <1>1, <1>4, <1>5, <1>8
<1>10. Closed(after, C \ {n})
  BY <1>1, <1>5, <1>6, <1>7 DEF Closed
<1>11. ASSUME NEW S \in SUBSET DOMAIN after, rest \in S \cup {0}, Closed(after, S)
       PROVE  C \ {n} \subseteq S
  <2> DEFINE D == S \cap (C \ {n})
             T == D \cup {n}
  <2>1. \A m \in D : m # p => node[m].next \in D \cup {0, n}
    BY <1>1, <1>7, <1>11 DEF Closed
  <2>2. CASE p = 0 \/ p \in S
    <3>1. q \in D \cup {0}
      BY <1>3, <1>5, <1>7, <1>8, <1>11, <2>2 DEF Closed
    <3>2. \A m \in T : node[m].next \in T \cup {0}
      BY <1>1, <1>3, <2>1, <3>1 DEF q
    <3>3. first \in T /\ T \in SUBSET DOMAIN node
      BY <1>1, <1>4, <1>8, <1>11
    <3>5. Closed(node, T)
      BY <3>2, <3>3 DEF Closed
    <3>6. C \subseteq T
      <4>1. first \in T \cup {0}
        BY <3>2, <3>3
      <4> HIDE DEF T, D
      <4> QED
        BY <3>5, <3>2, <3>3, <4>1, ChainLeast DEF C
    <3> QED
      BY <3>6
  <2>3. CASE p # 0 /\ p \notin S
    <3>1. \A m \in D : node[m].next \in D \cup {0}
      BY <1>6, <2>1, <2>3
    <3>2. first \in D /\ D \in SUBSET DOMAIN node
      BY <1>1, <1>4, <1>8, <1>11, <2>3
    <3>5. Closed(node, D)
      BY <3>1, <3>2 DEF Closed
    <3>6. C \subseteq D
      <4>1. first \in D \cup {0}
        BY <3>1, <3>2
      <4> HIDE DEF T, D
      <4> QED
        BY <3>5, <3>1, <3>2, <4>1, ChainLeast DEF C
    <3> QED
      BY <3>6
  <2> QED
    BY <2>2, <2>3
<1>12. Chain(after, rest) = C \ {n}
  BY <1>9, <1>10, <1>11, ChainIs
<1>13. \A k \in C \ {n} : after[k].prev = 0 <=> k = rest
  <2>1. ASSUME NEW k \in C \ {n}
        PROVE  after[k].prev = 0 <=> k = rest
    <3>1. CASE k = q
      BY <1>1, <1>2, <1>4, <1>5, <1>7, <1>8, <2>1, <3>1
    <3>2. CASE k # q
      BY <1>1, <1>2, <1>4, <1>7, <1>8, <2>1, <3>2
    <3> QED
      BY <3>1, <3>2
  <2> QED
    BY <2>1
<1>14. ASSUME NEW k \in C \ {n}, after[k].next # 0
       PROVE  after[after[k].next].prev = k
  <2>1. CASE k = p
    BY <1>5, <1>7, <1>14, <2>1
  <2>2. CASE k # p
    <3>1. after[k].next = node[k].next /\ node[k].next # n /\ node[k].next \in C /\ node[node[k].next].prev = k
      BY <1>1, <1>2, <1>6, <1>7, <1>14, <2>2
    <3>2. node[k].next # q
      BY <1>5, <1>14, <3>1
    <3> QED
      BY <1>7, <3>1, <3>2
  <2> QED
    BY <2>1, <2>2
<1>15. ASSUME rest # 0
       PROVE  \E k \in C \ {n} : after[k].next = 0
  <2>1. PICK l \in C : node[l].next = 0
    BY <1>2
  <2>2. CASE l # n
    BY <1>1, <1>3, <1>7, <1>8, <2>1, <2>2
  <2>3. CASE l = n
    BY <1>3, <1>7, <1>8, <1>15, <2>1, <2>3 DEF q
  <2> QED
    BY <2>2, <2>3
<1>16. ASSUME NEW k \in C \ {n}, NEW l \in C \ {n}, after[k].next = 0, after[l].next = 0
       PROVE  k = l
  <2>1. q = 0 => \A m \in C \ {n} : node[m].next # 0
    BY <1>2, <1>8 DEF q
  <2> QED
    BY <1>2, <1>7, <1>16, <2>1
<1>17. rest \in DOMAIN after \cup {0}
  BY <1>9
<1> QED
  BY <1>12, <1>13, <1>14, <1>15, <1>16, <1>17 DEF IsList, MirrorLinks, ListOf, C

\* A list that is not empty has a last node.
LEMMA LastIs ==
  ASSUME NEW node, NEW first, first # 0, IsList(node, first)
  PROVE  Last(node, first) \in Chain(node, first) /\ node[Last(node, first)].next = 0
<1>1. \E n \in Chain(node, first) : node[n].next = 0
  BY DEF IsList
<1> QED
  BY <1>1 DEF Last

-----------------------------------------------------------------------------
\* Nodes of sections and of keys.
SectionRecords == [section : IniSections \cup {NoText}, next : 0 .. SectionNodes, prev : 0 .. SectionNodes,
                   keys : 0 .. KeyNodes]
KeyRecords == [key : IniKeys \cup {NoText}, str : IniValues \cup {NoText}, next : 0 .. KeyNodes, prev : 0 .. KeyNodes]

\* Node 0 is no node.
LEMMA Bounds ==
  /\ SectionNodes \in Nat /\ KeyNodes \in Nat /\ 0 \notin 1 .. SectionNodes /\ 0 \notin 1 .. KeyNodes
  /\ 0 .. SectionNodes = (1 .. SectionNodes) \cup {0} /\ 0 .. KeyNodes = (1 .. KeyNodes) \cup {0}
BY IniAssumption

\* Nodes have both links.
LEMMA NodesLink ==
  /\ \A node \in [1 .. SectionNodes -> SectionRecords] : DOMAIN node = 1 .. SectionNodes /\ Links(node)
  /\ \A node \in [1 .. KeyNodes -> KeyRecords] : DOMAIN node = 1 .. KeyNodes /\ Links(node)
<1>1. ASSUME NEW node \in [1 .. SectionNodes -> SectionRecords]
      PROVE  DOMAIN node = 1 .. SectionNodes /\ Links(node)
  <2>1. DOMAIN node = 1 .. SectionNodes
    OBVIOUS
  <2>2. \A n \in DOMAIN node : node[n].next \in 0 .. SectionNodes /\ node[n].prev \in 0 .. SectionNodes
    BY DEF SectionRecords
  <2> QED
    BY <2>1, <2>2, Bounds DEF Links
<1>2. ASSUME NEW node \in [1 .. KeyNodes -> KeyRecords]
      PROVE  DOMAIN node = 1 .. KeyNodes /\ Links(node)
  <2>1. DOMAIN node = 1 .. KeyNodes
    OBVIOUS
  <2>2. \A n \in DOMAIN node : node[n].next \in 0 .. KeyNodes /\ node[n].prev \in 0 .. KeyNodes
    BY DEF KeyRecords
  <2> QED
    BY <2>1, <2>2, Bounds DEF Links
<1> QED
  BY <1>1, <1>2

\* In after, n is put at the end of the list, and nothing else is changed but links.
KeyPut(node, first, after, head, n, k, v) ==
  /\ after \in [1 .. KeyNodes -> KeyRecords]
  /\ after[n].key = k /\ after[n].str = v
  /\ \A m \in (1 .. KeyNodes) \ {n} : after[m].key = node[m].key /\ after[m].str = node[m].str
  /\ \A m \in (1 .. KeyNodes) \ {n} : m \notin Chain(node, first) => after[m] = node[m]
  /\ ListOf(after, head, Chain(node, first) \cup {n})

\* A new key node, filled in and put at the end of a list.
LEMMA KeyLinked ==
  ASSUME NEW node \in [1 .. KeyNodes -> KeyRecords], NEW first, IsList(node, first),
         NEW n \in (1 .. KeyNodes) \ Chain(node, first), NEW k \in IniKeys, NEW v \in IniValues,
         NEW start, start = [node EXCEPT ![n] = [FreedKey EXCEPT !.key = k, !.str = v]],
         NEW after, after = Linked(start, first, n),
         NEW head, head = IF first = 0 THEN n ELSE first
  PROVE  KeyPut(node, first, after, head, n, k, v)
<1> DEFINE new == [FreedKey EXCEPT !.key = k, !.str = v]
           C == Chain(node, first)
<1>1. /\ new \in KeyRecords
      /\ new.key = k /\ new.str = v /\ new.next = 0 /\ new.prev = 0
  BY Bounds DEF FreedKey, KeyRecords
<1> HIDE DEF new
<1>2. /\ start \in [1 .. KeyNodes -> KeyRecords] /\ start[n] = new
      /\ \A m \in (1 .. KeyNodes) \ {n} : start[m] = node[m]
  BY <1>1 DEF new
<1>3. DOMAIN node = 1 .. KeyNodes /\ Links(node) /\ DOMAIN start = 1 .. KeyNodes /\ Links(start)
  BY <1>2, NodesLink
<1>4. first \in DOMAIN node \cup {0} /\ C \subseteq 1 .. KeyNodes /\ (first = 0 => C = {})
  BY <1>3, ChainFacts DEF IsList
<1>5. Chain(start, first) = C /\ IsList(start, first)
  <2>1. \A m \in Chain(node, first) : SameLinks(start, node, m)
    BY <1>2, <1>4 DEF SameLinks
  <2>2. DOMAIN start = DOMAIN node /\ Links(node) /\ IsList(node, first)
    BY <1>3
  <2> HIDE DEF C
  <2>3. ListOf(start, first, Chain(node, first))
    BY <2>1, <2>2, ListSame
  <2> QED
    BY <2>3 DEF C, ListOf
<1>6. CASE first = 0
  <2>1. after = start /\ head = n
    BY <1>6 DEF Linked
  <2>2. Chain(start, n) = {n} /\ IsList(start, n)
    BY <1>1, <1>2, <1>3, PutFirst DEF ListOf
  <2> QED
    BY <1>1, <1>2, <1>4, <1>6, <2>1, <2>2 DEF ListOf, KeyPut
<1>7. CASE first # 0
  <2> DEFINE last == Last(start, first)
  <2>1. last \in C /\ start[last].next = 0 /\ last \in 1 .. KeyNodes /\ last # n
    BY <1>4, <1>5, <1>7, LastIs
  <2>2. after = [start EXCEPT ![last].next = n, ![n].prev = last] /\ head = first
    BY <1>7 DEF Linked
  <2> HIDE DEF last, C
  <2>3. /\ after[last] = [start[last] EXCEPT !.next = n] /\ after[n] = [new EXCEPT !.prev = last]
        /\ \A m \in (1 .. KeyNodes) \ {n, last} : after[m] = node[m]
        /\ DOMAIN after = 1 .. KeyNodes
    BY <1>2, <2>1, <2>2
  <2>4. /\ after[last] \in KeyRecords /\ after[n] \in KeyRecords
        /\ after[last].next = n /\ after[last].prev = start[last].prev
        /\ after[last].key = start[last].key /\ after[last].str = start[last].str
        /\ after[n].next = 0 /\ after[n].prev = last /\ after[n].key = k /\ after[n].str = v
    <3>1. /\ start[last] \in KeyRecords /\ new \in KeyRecords
          /\ n \in 0 .. KeyNodes /\ last \in 0 .. KeyNodes
      BY <1>1, <1>2, <2>1, Bounds
    <3>2. \A r \in KeyRecords, i \in 0 .. KeyNodes :
            /\ [r EXCEPT !.next = i] \in KeyRecords /\ [r EXCEPT !.next = i].next = i
            /\ [r EXCEPT !.next = i].prev = r.prev
            /\ [r EXCEPT !.next = i].key = r.key /\ [r EXCEPT !.next = i].str = r.str
            /\ [r EXCEPT !.prev = i] \in KeyRecords /\ [r EXCEPT !.prev = i].prev = i
            /\ [r EXCEPT !.prev = i].next = r.next
            /\ [r EXCEPT !.prev = i].key = r.key /\ [r EXCEPT !.prev = i].str = r.str
      BY DEF KeyRecords
    <3>3. /\ [start[last] EXCEPT !.next = n] \in KeyRecords /\ [start[last] EXCEPT !.next = n].next = n
          /\ [start[last] EXCEPT !.next = n].prev = start[last].prev
          /\ [start[last] EXCEPT !.next = n].key = start[last].key
          /\ [start[last] EXCEPT !.next = n].str = start[last].str
      BY <3>1, <3>2, ZenonT(60)
    <3>4. /\ [new EXCEPT !.prev = last] \in KeyRecords /\ [new EXCEPT !.prev = last].prev = last
          /\ [new EXCEPT !.prev = last].next = 0
          /\ [new EXCEPT !.prev = last].key = k /\ [new EXCEPT !.prev = last].str = v
      BY <1>1, <3>1, <3>2
    <3>5. after[last] = [start[last] EXCEPT !.next = n] /\ after[n] = [new EXCEPT !.prev = last]
      BY <2>3
    <3> QED
      BY <3>3, <3>4, <3>5
  <2>5. after \in [1 .. KeyNodes -> KeyRecords]
    <3>1. \A m \in 1 .. KeyNodes : after[m] \in KeyRecords
      BY <2>3, <2>4
    <3>2. after = [m \in 1 .. KeyNodes |-> after[m]]
      BY <2>2, <2>3
    <3> QED
      BY <3>1, <3>2
  <2>6. ListOf(after, first, C \cup {n})
    <3>1. \A m \in Chain(start, first) \ {last} : SameLinks(after, start, m)
      BY <1>2, <1>4, <1>5, <2>3 DEF SameLinks, C
    <3>2. n \in DOMAIN start \ Chain(start, first) /\ last \in Chain(start, first)
      BY <1>3, <1>5, <2>1 DEF C
    <3>3. DOMAIN after = DOMAIN start /\ Links(start) /\ IsList(start, first)
      BY <1>3, <1>5, <2>3
    <3>4. start[last].next = 0 /\ after[last].next = n /\ after[last].prev = start[last].prev
          /\ after[n].next = 0 /\ after[n].prev = last
      BY <2>1, <2>4
    <3>5. ListOf(after, first, Chain(start, first) \cup {n})
      BY <1>7, <3>1, <3>2, <3>3, <3>4, PutLast, ZenonT(60)
    <3> QED
      BY <1>5, <3>5 DEF ListOf
  <2>7. after[n].key = k /\ after[n].str = v
    BY <2>4
  <2>8. ASSUME NEW m \in (1 .. KeyNodes) \ {n}
        PROVE  after[m].key = node[m].key /\ after[m].str = node[m].str
    <3>1. CASE m = last
      BY <1>2, <2>1, <2>4, <3>1
    <3>2. CASE m # last
      BY <2>3, <3>2
    <3> QED
      BY <3>1, <3>2
  <2>9. \A m \in (1 .. KeyNodes) \ {n} : m \notin C => after[m] = node[m]
    BY <2>1, <2>3
  <2> QED
    BY <2>2, <2>5, <2>6, <2>7, <2>8, <2>9 DEF C, KeyPut
<1> QED
  BY <1>6, <1>7

SectionPut(node, first, after, head, n, s) ==
  /\ after \in [1 .. SectionNodes -> SectionRecords]
  /\ after[n].section = s /\ after[n].keys = 0
  /\ \A m \in (1 .. SectionNodes) \ {n} : after[m].section = node[m].section /\ after[m].keys = node[m].keys
  /\ \A m \in (1 .. SectionNodes) \ {n} : m \notin Chain(node, first) => after[m] = node[m]
  /\ ListOf(after, head, Chain(node, first) \cup {n})

\* A new section node likewise, without keys.
LEMMA SectionLinked ==
  ASSUME NEW node \in [1 .. SectionNodes -> SectionRecords], NEW first, IsList(node, first),
         NEW n \in (1 .. SectionNodes) \ Chain(node, first), NEW s \in IniSections,
         NEW start, start = [node EXCEPT ![n] = [FreedSection EXCEPT !.section = s]],
         NEW after, after = Linked(start, first, n),
         NEW head, head = IF first = 0 THEN n ELSE first
  PROVE  SectionPut(node, first, after, head, n, s)
<1> DEFINE new == [FreedSection EXCEPT !.section = s]
           C == Chain(node, first)
<1>1. /\ new \in SectionRecords
      /\ new.section = s /\ new.keys = 0 /\ new.next = 0 /\ new.prev = 0
  BY Bounds DEF FreedSection, SectionRecords
<1> HIDE DEF new
<1>2. /\ start \in [1 .. SectionNodes -> SectionRecords] /\ start[n] = new
      /\ \A m \in (1 .. SectionNodes) \ {n} : start[m] = node[m]
  BY <1>1 DEF new
<1>3. DOMAIN node = 1 .. SectionNodes /\ Links(node) /\ DOMAIN start = 1 .. SectionNodes /\ Links(start)
  BY <1>2, NodesLink
<1>4. first \in DOMAIN node \cup {0} /\ C \subseteq 1 .. SectionNodes /\ (first = 0 => C = {})
  BY <1>3, ChainFacts DEF IsList
<1>5. Chain(start, first) = C /\ IsList(start, first)
  <2>1. \A m \in Chain(node, first) : SameLinks(start, node, m)
    BY <1>2, <1>4 DEF SameLinks
  <2>2. DOMAIN start = DOMAIN node /\ Links(node) /\ IsList(node, first)
    BY <1>3
  <2> HIDE DEF C
  <2>3. ListOf(start, first, Chain(node, first))
    BY <2>1, <2>2, ListSame
  <2> QED
    BY <2>3 DEF C, ListOf
<1>6. CASE first = 0
  <2>1. after = start /\ head = n
    BY <1>6 DEF Linked
  <2>2. Chain(start, n) = {n} /\ IsList(start, n)
    BY <1>1, <1>2, <1>3, PutFirst DEF ListOf
  <2> QED
    BY <1>1, <1>2, <1>4, <1>6, <2>1, <2>2 DEF ListOf, SectionPut
<1>7. CASE first # 0
  <2> DEFINE last == Last(start, first)
  <2>1. last \in C /\ start[last].next = 0 /\ last \in 1 .. SectionNodes /\ last # n
    BY <1>4, <1>5, <1>7, LastIs
  <2>2. after = [start EXCEPT ![last].next = n, ![n].prev = last] /\ head = first
    BY <1>7 DEF Linked
  <2> HIDE DEF last, C
  <2>3. /\ after[last] = [start[last] EXCEPT !.next = n] /\ after[n] = [new EXCEPT !.prev = last]
        /\ \A m \in (1 .. SectionNodes) \ {n, last} : after[m] = node[m]
        /\ DOMAIN after = 1 .. SectionNodes
    BY <1>2, <2>1, <2>2
  <2>4. /\ after[last] \in SectionRecords /\ after[n] \in SectionRecords
        /\ after[last].next = n /\ after[last].prev = start[last].prev
        /\ after[last].section = start[last].section /\ after[last].keys = start[last].keys
        /\ after[n].next = 0 /\ after[n].prev = last /\ after[n].section = s /\ after[n].keys = 0
    <3>1. /\ start[last] \in SectionRecords /\ new \in SectionRecords
          /\ n \in 0 .. SectionNodes /\ last \in 0 .. SectionNodes
      BY <1>1, <1>2, <2>1, Bounds
    <3>2. \A r \in SectionRecords, i \in 0 .. SectionNodes :
            /\ [r EXCEPT !.next = i] \in SectionRecords /\ [r EXCEPT !.next = i].next = i
            /\ [r EXCEPT !.next = i].prev = r.prev
            /\ [r EXCEPT !.next = i].section = r.section /\ [r EXCEPT !.next = i].keys = r.keys
            /\ [r EXCEPT !.prev = i] \in SectionRecords /\ [r EXCEPT !.prev = i].prev = i
            /\ [r EXCEPT !.prev = i].next = r.next
            /\ [r EXCEPT !.prev = i].section = r.section /\ [r EXCEPT !.prev = i].keys = r.keys
      BY DEF SectionRecords
    <3>3. /\ [start[last] EXCEPT !.next = n] \in SectionRecords /\ [start[last] EXCEPT !.next = n].next = n
          /\ [start[last] EXCEPT !.next = n].prev = start[last].prev
          /\ [start[last] EXCEPT !.next = n].section = start[last].section
          /\ [start[last] EXCEPT !.next = n].keys = start[last].keys
      BY <3>1, <3>2, ZenonT(60)
    <3>4. /\ [new EXCEPT !.prev = last] \in SectionRecords /\ [new EXCEPT !.prev = last].prev = last
          /\ [new EXCEPT !.prev = last].next = 0
          /\ [new EXCEPT !.prev = last].section = s /\ [new EXCEPT !.prev = last].keys = 0
      BY <1>1, <3>1, <3>2, ZenonT(60)
    <3>5. after[last] = [start[last] EXCEPT !.next = n] /\ after[n] = [new EXCEPT !.prev = last]
      BY <2>3
    <3> QED
      BY <3>3, <3>4, <3>5
  <2>5. after \in [1 .. SectionNodes -> SectionRecords]
    <3>1. \A m \in 1 .. SectionNodes : after[m] \in SectionRecords
      BY <2>3, <2>4
    <3>2. after = [m \in 1 .. SectionNodes |-> after[m]]
      BY <2>2, <2>3
    <3> QED
      BY <3>1, <3>2
  <2>6. ListOf(after, first, C \cup {n})
    <3>1. \A m \in Chain(start, first) \ {last} : SameLinks(after, start, m)
      BY <1>2, <1>4, <1>5, <2>3 DEF SameLinks, C
    <3>2. n \in DOMAIN start \ Chain(start, first) /\ last \in Chain(start, first)
      BY <1>3, <1>5, <2>1 DEF C
    <3>3. DOMAIN after = DOMAIN start /\ Links(start) /\ IsList(start, first)
      BY <1>3, <1>5, <2>3
    <3>4. start[last].next = 0 /\ after[last].next = n /\ after[last].prev = start[last].prev
          /\ after[n].next = 0 /\ after[n].prev = last
      BY <2>1, <2>4
    <3>5. ListOf(after, first, Chain(start, first) \cup {n})
      BY <1>7, <3>1, <3>2, <3>3, <3>4, PutLast, ZenonT(60)
    <3> QED
      BY <1>5, <3>5 DEF ListOf
  <2>7. after[n].section = s /\ after[n].keys = 0
    BY <2>4
  <2>8. ASSUME NEW m \in (1 .. SectionNodes) \ {n}
        PROVE  after[m].section = node[m].section /\ after[m].keys = node[m].keys
    <3>1. CASE m = last
      BY <1>2, <2>1, <2>4, <3>1
    <3>2. CASE m # last
      BY <2>3, <3>2
    <3> QED
      BY <3>1, <3>2
  <2>9. \A m \in (1 .. SectionNodes) \ {n} : m \notin C => after[m] = node[m]
    BY <2>1, <2>3
  <2> QED
    BY <2>2, <2>5, <2>6, <2>7, <2>8, <2>9 DEF C, SectionPut
<1> QED
  BY <1>6, <1>7
\* In after, n is free, and nothing else is changed but links.
KeyOut(node, first, after, n) ==
  /\ after \in [1 .. KeyNodes -> KeyRecords]
  /\ after[n] = FreedKey
  /\ \A m \in (1 .. KeyNodes) \ {n} : after[m].key = node[m].key /\ after[m].str = node[m].str
  /\ \A m \in 1 .. KeyNodes : m \notin Chain(node, first) => after[m] = node[m]
  /\ ListOf(after, FirstWithout(first, node, n), Chain(node, first) \ {n})

\* delete_key's node is taken out and freed.
LEMMA KeyUnlinked ==
  ASSUME NEW node \in [1 .. KeyNodes -> KeyRecords], NEW first, IsList(node, first), NEW n \in Chain(node, first),
         NEW after, after = [Unlinked(node, n) EXCEPT ![n] = FreedKey]
  PROVE  KeyOut(node, first, after, n)
<1> DEFINE C == Chain(node, first)
           p == node[n].prev
           q == node[n].next
<1>1. DOMAIN node = 1 .. KeyNodes /\ Links(node)
  BY NodesLink
<1>2. /\ C \subseteq 1 .. KeyNodes /\ 0 \notin C /\ q \in C \cup {0}
      /\ (p # 0 => p \in C) /\ p \in 0 .. KeyNodes /\ q \in 0 .. KeyNodes /\ (p # 0 => p # q)
  <2>1. /\ C \subseteq 1 .. KeyNodes /\ 0 \notin C /\ q \in C \cup {0}
    BY <1>1, ChainFacts DEF IsList
  <2>2. p # 0 => n # first
    BY DEF IsList, MirrorLinks
  <2>3. p # 0 => p \in C /\ p # q
    BY <1>1, <2>2, Before, Apart
  <2> QED
    BY <2>1, <2>3, Bounds
<1>3. FreedKey \in KeyRecords
  BY Bounds DEF FreedKey, KeyRecords
<1> DEFINE step(m) == CASE m = p -> [node[m] EXCEPT !.next = q]
                        [] m = q -> [node[m] EXCEPT !.prev = p]
                        [] OTHER -> node[m]
<1>4. after = [m \in 1 .. KeyNodes |-> IF m = n THEN FreedKey ELSE step(m)]
  <2>1. Unlinked(node, n) = [m \in 1 .. KeyNodes |-> step(m)]
    BY <1>1 DEF Unlinked
  <2> HIDE DEF step
  <2> QED
    BY <2>1
<1> HIDE DEF C, p, q
<1>5. \A m \in 1 .. KeyNodes :
        /\ m = p => step(m) = [node[m] EXCEPT !.next = q]
        /\ m = q => step(m) = [node[m] EXCEPT !.prev = p]
        /\ m # p /\ m # q => step(m) = node[m]
  <2>1. ASSUME NEW m \in 1 .. KeyNodes
        PROVE  m # 0
    BY Bounds
  <2>2. ASSUME NEW m \in 1 .. KeyNodes, m = p
        PROVE  step(m) = [node[m] EXCEPT !.next = q] /\ m # q
    <3>1. m # q
      BY <1>2, <2>1, <2>2
    <3> QED
      BY <2>2, <3>1
  <2>3. ASSUME NEW m \in 1 .. KeyNodes, m = q
        PROVE  step(m) = [node[m] EXCEPT !.prev = p] /\ m # p
    <3>1. m # p
      BY <2>2, <2>3
    <3> QED
      BY <2>3, <3>1
  <2>4. ASSUME NEW m \in 1 .. KeyNodes, m # p, m # q
        PROVE  step(m) = node[m]
    BY <2>4
  <2> QED
    BY <2>2, <2>3, <2>4
<1> HIDE DEF step
<1>6. \A r \in KeyRecords, i \in 0 .. KeyNodes :
        /\ [r EXCEPT !.next = i] \in KeyRecords /\ [r EXCEPT !.next = i].next = i
        /\ [r EXCEPT !.next = i].prev = r.prev
        /\ [r EXCEPT !.next = i].key = r.key /\ [r EXCEPT !.next = i].str = r.str
        /\ [r EXCEPT !.prev = i] \in KeyRecords /\ [r EXCEPT !.prev = i].prev = i
        /\ [r EXCEPT !.prev = i].next = r.next
        /\ [r EXCEPT !.prev = i].key = r.key /\ [r EXCEPT !.prev = i].str = r.str
  BY DEF KeyRecords
<1>7. ASSUME NEW m \in 1 .. KeyNodes
      PROVE  /\ step(m) \in KeyRecords /\ step(m).key = node[m].key /\ step(m).str = node[m].str
             /\ step(m).next = IF m = p THEN q ELSE node[m].next
             /\ step(m).prev = IF m = q THEN p ELSE node[m].prev
  <2>1. node[m] \in KeyRecords /\ m # 0
    BY Bounds
  <2>2. CASE m = p
    <3>1. m # q
      BY <1>2, <2>1, <2>2
    <3>2. step(m) = [node[m] EXCEPT !.next = q]
      BY <1>5, <2>2
    <3>3. /\ [node[m] EXCEPT !.next = q] \in KeyRecords /\ [node[m] EXCEPT !.next = q].next = q
          /\ [node[m] EXCEPT !.next = q].prev = node[m].prev
          /\ [node[m] EXCEPT !.next = q].key = node[m].key /\ [node[m] EXCEPT !.next = q].str = node[m].str
      BY <1>2, <1>6, <2>1
    <3> QED
      BY <2>2, <3>1, <3>2, <3>3
  <2>3. CASE m = q /\ m # p
    <3>1. step(m) = [node[m] EXCEPT !.prev = p]
      BY <1>5, <2>3
    <3>2. p \in 0 .. KeyNodes
      BY <1>2
    <3>3. /\ [node[m] EXCEPT !.prev = p] \in KeyRecords /\ [node[m] EXCEPT !.prev = p].prev = p
          /\ [node[m] EXCEPT !.prev = p].next = node[m].next
          /\ [node[m] EXCEPT !.prev = p].key = node[m].key /\ [node[m] EXCEPT !.prev = p].str = node[m].str
      BY <1>6, <2>1, <3>2
    <3> QED
      BY <2>3, <3>1, <3>3
  <2>4. CASE m # p /\ m # q
    BY <1>5, <2>1, <2>4
  <2> QED
    BY <2>2, <2>3, <2>4
<1>8. \A m \in (1 .. KeyNodes) \ {n} : after[m] = step(m)
  BY <1>4
<1>9. n \in 1 .. KeyNodes /\ after[n] = FreedKey
  BY <1>2, <1>4 DEF C
<1>10. after \in [1 .. KeyNodes -> KeyRecords]
  <2>1. \A m \in 1 .. KeyNodes : after[m] \in KeyRecords
    BY <1>3, <1>7, <1>8, <1>9
  <2>2. after = [m \in 1 .. KeyNodes |-> after[m]]
    BY <1>4
  <2> QED
    BY <2>1, <2>2
<1>11. \A m \in 1 .. KeyNodes : m \notin C => after[m] = node[m]
  BY <1>2, <1>5, <1>8, Bounds DEF C
<1>12. ListOf(after, FirstWithout(first, node, n), C \ {n})
  <2>1. DOMAIN after = DOMAIN node
    BY <1>1, <1>10
  <2>2. \A m \in Chain(node, first) \ {n} :
          /\ after[m].next = IF m = node[n].prev THEN node[n].next ELSE node[m].next
          /\ after[m].prev = IF m = node[n].next THEN node[n].prev ELSE node[m].prev
    BY <1>2, <1>7, <1>8 DEF C, p, q
  <2>3. PICK rest : rest = FirstWithout(first, node, n)
    OBVIOUS
  <2>4. rest = IF node[n].prev = 0 THEN node[n].next ELSE first
    BY <2>3 DEF FirstWithout
  <2>5. ListOf(after, rest, Chain(node, first) \ {n})
    BY <1>1, <2>1, <2>2, <2>4, TakeOut
  <2> QED
    BY <2>3, <2>5 DEF C
<1> QED
  BY <1>7, <1>8, <1>9, <1>10, <1>11, <1>12 DEF C, KeyOut

SectionOut(node, first, after, n) ==
  /\ after \in [1 .. SectionNodes -> SectionRecords]
  /\ after[n] = FreedSection
  /\ \A m \in (1 .. SectionNodes) \ {n} : after[m].section = node[m].section /\ after[m].keys = node[m].keys
  /\ \A m \in 1 .. SectionNodes : m \notin Chain(node, first) => after[m] = node[m]
  /\ ListOf(after, FirstWithout(first, node, n), Chain(node, first) \ {n})

\* delete_section's node likewise.
LEMMA SectionUnlinked ==
  ASSUME NEW node \in [1 .. SectionNodes -> SectionRecords], NEW first, IsList(node, first), NEW n \in Chain(node, first),
         NEW after, after = [Unlinked(node, n) EXCEPT ![n] = FreedSection]
  PROVE  SectionOut(node, first, after, n)
<1> DEFINE C == Chain(node, first)
           p == node[n].prev
           q == node[n].next
<1>1. DOMAIN node = 1 .. SectionNodes /\ Links(node)
  BY NodesLink
<1>2. /\ C \subseteq 1 .. SectionNodes /\ 0 \notin C /\ q \in C \cup {0}
      /\ (p # 0 => p \in C) /\ p \in 0 .. SectionNodes /\ q \in 0 .. SectionNodes /\ (p # 0 => p # q)
  <2>1. /\ C \subseteq 1 .. SectionNodes /\ 0 \notin C /\ q \in C \cup {0}
    BY <1>1, ChainFacts DEF IsList
  <2>2. p # 0 => n # first
    BY DEF IsList, MirrorLinks
  <2>3. p # 0 => p \in C /\ p # q
    BY <1>1, <2>2, Before, Apart
  <2> QED
    BY <2>1, <2>3, Bounds
<1>3. FreedSection \in SectionRecords
  BY Bounds DEF FreedSection, SectionRecords
<1> DEFINE step(m) == CASE m = p -> [node[m] EXCEPT !.next = q]
                        [] m = q -> [node[m] EXCEPT !.prev = p]
                        [] OTHER -> node[m]
<1>4. after = [m \in 1 .. SectionNodes |-> IF m = n THEN FreedSection ELSE step(m)]
  <2>1. Unlinked(node, n) = [m \in 1 .. SectionNodes |-> step(m)]
    BY <1>1 DEF Unlinked
  <2> HIDE DEF step
  <2> QED
    BY <2>1
<1> HIDE DEF C, p, q
<1>5. \A m \in 1 .. SectionNodes :
        /\ m = p => step(m) = [node[m] EXCEPT !.next = q]
        /\ m = q => step(m) = [node[m] EXCEPT !.prev = p]
        /\ m # p /\ m # q => step(m) = node[m]
  <2>1. ASSUME NEW m \in 1 .. SectionNodes
        PROVE  m # 0
    BY Bounds
  <2>2. ASSUME NEW m \in 1 .. SectionNodes, m = p
        PROVE  step(m) = [node[m] EXCEPT !.next = q] /\ m # q
    <3>1. m # q
      BY <1>2, <2>1, <2>2
    <3> QED
      BY <2>2, <3>1
  <2>3. ASSUME NEW m \in 1 .. SectionNodes, m = q
        PROVE  step(m) = [node[m] EXCEPT !.prev = p] /\ m # p
    <3>1. m # p
      BY <2>2, <2>3
    <3> QED
      BY <2>3, <3>1
  <2>4. ASSUME NEW m \in 1 .. SectionNodes, m # p, m # q
        PROVE  step(m) = node[m]
    BY <2>4
  <2> QED
    BY <2>2, <2>3, <2>4
<1> HIDE DEF step
<1>6. \A r \in SectionRecords, i \in 0 .. SectionNodes :
        /\ [r EXCEPT !.next = i] \in SectionRecords /\ [r EXCEPT !.next = i].next = i
        /\ [r EXCEPT !.next = i].prev = r.prev
        /\ [r EXCEPT !.next = i].section = r.section /\ [r EXCEPT !.next = i].keys = r.keys
        /\ [r EXCEPT !.prev = i] \in SectionRecords /\ [r EXCEPT !.prev = i].prev = i
        /\ [r EXCEPT !.prev = i].next = r.next
        /\ [r EXCEPT !.prev = i].section = r.section /\ [r EXCEPT !.prev = i].keys = r.keys
  BY DEF SectionRecords
<1>7. ASSUME NEW m \in 1 .. SectionNodes
      PROVE  /\ step(m) \in SectionRecords /\ step(m).section = node[m].section /\ step(m).keys = node[m].keys
             /\ step(m).next = IF m = p THEN q ELSE node[m].next
             /\ step(m).prev = IF m = q THEN p ELSE node[m].prev
  <2>1. node[m] \in SectionRecords /\ m # 0
    BY Bounds
  <2>2. CASE m = p
    <3>1. m # q
      BY <1>2, <2>1, <2>2
    <3>2. step(m) = [node[m] EXCEPT !.next = q]
      BY <1>5, <2>2
    <3>3. /\ [node[m] EXCEPT !.next = q] \in SectionRecords /\ [node[m] EXCEPT !.next = q].next = q
          /\ [node[m] EXCEPT !.next = q].prev = node[m].prev
          /\ [node[m] EXCEPT !.next = q].section = node[m].section /\ [node[m] EXCEPT !.next = q].keys = node[m].keys
      BY <1>2, <1>6, <2>1
    <3> QED
      BY <2>2, <3>1, <3>2, <3>3
  <2>3. CASE m = q /\ m # p
    <3>1. step(m) = [node[m] EXCEPT !.prev = p]
      BY <1>5, <2>3
    <3>2. p \in 0 .. SectionNodes
      BY <1>2
    <3>3. /\ [node[m] EXCEPT !.prev = p] \in SectionRecords /\ [node[m] EXCEPT !.prev = p].prev = p
          /\ [node[m] EXCEPT !.prev = p].next = node[m].next
          /\ [node[m] EXCEPT !.prev = p].section = node[m].section /\ [node[m] EXCEPT !.prev = p].keys = node[m].keys
      BY <1>6, <2>1, <3>2
    <3> QED
      BY <2>3, <3>1, <3>3
  <2>4. CASE m # p /\ m # q
    BY <1>5, <2>1, <2>4
  <2> QED
    BY <2>2, <2>3, <2>4
<1>8. \A m \in (1 .. SectionNodes) \ {n} : after[m] = step(m)
  BY <1>4
<1>9. n \in 1 .. SectionNodes /\ after[n] = FreedSection
  BY <1>2, <1>4 DEF C
<1>10. after \in [1 .. SectionNodes -> SectionRecords]
  <2>1. \A m \in 1 .. SectionNodes : after[m] \in SectionRecords
    BY <1>3, <1>7, <1>8, <1>9
  <2>2. after = [m \in 1 .. SectionNodes |-> after[m]]
    BY <1>4
  <2> QED
    BY <2>1, <2>2
<1>11. \A m \in 1 .. SectionNodes : m \notin C => after[m] = node[m]
  BY <1>2, <1>5, <1>8, Bounds DEF C
<1>12. ListOf(after, FirstWithout(first, node, n), C \ {n})
  <2>1. DOMAIN after = DOMAIN node
    BY <1>1, <1>10
  <2>2. \A m \in Chain(node, first) \ {n} :
          /\ after[m].next = IF m = node[n].prev THEN node[n].next ELSE node[m].next
          /\ after[m].prev = IF m = node[n].next THEN node[n].prev ELSE node[m].prev
    BY <1>2, <1>7, <1>8 DEF C, p, q
  <2>3. PICK rest : rest = FirstWithout(first, node, n)
    OBVIOUS
  <2>4. rest = IF node[n].prev = 0 THEN node[n].next ELSE first
    BY <2>3 DEF FirstWithout
  <2>5. ListOf(after, rest, Chain(node, first) \ {n})
    BY <1>1, <2>1, <2>2, <2>4, TakeOut
  <2> QED
    BY <2>3, <2>5 DEF C
<1> QED
  BY <1>7, <1>8, <1>9, <1>10, <1>11, <1>12 DEF C, SectionOut

-----------------------------------------------------------------------------
\* The nodes of the keys of a section.
KeyChain(snode, knode, sn) == Chain(knode, snode[sn].keys)

\* The sections: a list, each name once, and nodes that are not on it are free.
SoundSections(first, snode) ==
  /\ first \in 0 .. SectionNodes /\ snode \in [1 .. SectionNodes -> SectionRecords]
  /\ IsList(snode, first)
  /\ \A sn \in Chain(snode, first) : snode[sn].section \in IniSections
  /\ \A sn, tn \in Chain(snode, first) : snode[sn].section = snode[tn].section => sn = tn
  /\ \A n \in 1 .. SectionNodes : n \notin Chain(snode, first) => snode[n] = FreedSection

\* The keys of the sections S: a list each, no node on two of them, each name once in a
\* list, and nodes that are on none are free.
SoundKeys(S, snode, knode) ==
  /\ knode \in [1 .. KeyNodes -> KeyRecords]
  /\ \A sn \in S : IsList(knode, snode[sn].keys)
  /\ \A sn, tn \in S, n \in 1 .. KeyNodes : n \in KeyChain(snode, knode, sn) /\ n \in KeyChain(snode, knode, tn) => sn = tn
  /\ \A sn \in S : \A kn \in KeyChain(snode, knode, sn) : knode[kn].key \in IniKeys
  /\ \A sn \in S : \A kn, ln \in KeyChain(snode, knode, sn) : knode[kn].key = knode[ln].key => kn = ln
  /\ \A n \in 1 .. KeyNodes : (\A sn \in S : n \notin KeyChain(snode, knode, sn)) => knode[n] = FreedKey

Sound(first, snode, knode) == SoundSections(first, snode) /\ SoundKeys(Chain(snode, first), snode, knode)

IniInv == Sound(ini_sections, section_node, key_node)

\* The node kn is what reading the key k of the section s finds.
Reads(first, snode, knode, s, k, kn) ==
  \E sn \in Chain(snode, first) : snode[sn].section = s /\ kn \in KeyChain(snode, knode, sn) /\ knode[kn].key = k

\* A key reads the same after a change, in the second three, as before.
KeyKept(first, snode, knode, first2, snode2, knode2, s, k) ==
  \A kn \in 1 .. KeyNodes :
    /\ Reads(first2, snode2, knode2, s, k, kn) <=> Reads(first, snode, knode, s, k, kn)
    /\ Reads(first, snode, knode, s, k, kn) => knode2[kn].str = knode[kn].str

\* A key has the value v.
Gets(first, snode, knode, s, k, v) ==
  \E kn \in 1 .. KeyNodes : Reads(first, snode, knode, s, k, kn) /\ knode[kn].str = v

Lacks(first, snode, knode, s, k) == \A kn \in 1 .. KeyNodes : ~Reads(first, snode, knode, s, k, kn)

\* What sound lists link are nodes.
LEMMA SoundFacts ==
  ASSUME NEW first, NEW snode, NEW knode, Sound(first, snode, knode)
  PROVE  /\ Links(snode) /\ Links(knode) /\ DOMAIN snode = 1 .. SectionNodes /\ DOMAIN knode = 1 .. KeyNodes
         /\ Chain(snode, first) \subseteq 1 .. SectionNodes
         /\ \A sn \in Chain(snode, first) : KeyChain(snode, knode, sn) \subseteq 1 .. KeyNodes
<1>1. Links(snode) /\ Links(knode) /\ DOMAIN snode = 1 .. SectionNodes /\ DOMAIN knode = 1 .. KeyNodes
  BY NodesLink DEF Sound, SoundSections, SoundKeys
<1>2. Chain(snode, first) \subseteq 1 .. SectionNodes
  BY <1>1, ChainFacts DEF Sound, SoundSections, IsList
<1>3. ASSUME NEW sn \in Chain(snode, first)
      PROVE  KeyChain(snode, knode, sn) \subseteq 1 .. KeyNodes
  <2>1. IsList(knode, snode[sn].keys)
    BY DEF Sound, SoundKeys
  <2> QED
    BY <1>1, <2>1, ChainFacts DEF IsList, KeyChain
<1> QED
  BY <1>1, <1>2, <1>3

\* The section s has the node n and no keys, and all keys read as before.
SectionNew(first, snode, knode, first2, snode2, n, s) ==
  /\ Sound(first2, snode2, knode)
  /\ n \in Chain(snode2, first2) /\ snode2[n].section = s /\ snode2[n].keys = 0
  /\ \A t, k : KeyKept(first, snode, knode, first2, snode2, knode, t, k)

\* add_section: the new section reads like one that is not there.
LEMMA SectionAdded ==
  ASSUME NEW first, NEW snode, NEW knode, Sound(first, snode, knode), NEW s \in IniSections,
         \A sn \in Chain(snode, first) : snode[sn].section # s,
         NEW n \in (1 .. SectionNodes) \ Chain(snode, first),
         NEW after, after = Linked([snode EXCEPT ![n] = [FreedSection EXCEPT !.section = s]], first, n),
         NEW head, head = IF first = 0 THEN n ELSE first
  PROVE  SectionNew(first, snode, knode, head, after, n, s)
<1> DEFINE S == Chain(snode, first)
<1>1. /\ first \in 0 .. SectionNodes /\ snode \in [1 .. SectionNodes -> SectionRecords] /\ IsList(snode, first)
      /\ \A sn \in S : snode[sn].section \in IniSections
      /\ \A sn, tn \in S : snode[sn].section = snode[tn].section => sn = tn
      /\ \A m \in 1 .. SectionNodes : m \notin S => snode[m] = FreedSection
  BY DEF Sound, SoundSections
<1>2. PICK start : start = [snode EXCEPT ![n] = [FreedSection EXCEPT !.section = s]]
  OBVIOUS
<1>3. /\ after \in [1 .. SectionNodes -> SectionRecords]
      /\ after[n].section = s /\ after[n].keys = 0
      /\ \A m \in (1 .. SectionNodes) \ {n} : after[m].section = snode[m].section /\ after[m].keys = snode[m].keys
      /\ \A m \in (1 .. SectionNodes) \ {n} : m \notin S => after[m] = snode[m]
      /\ Chain(after, head) = S \cup {n} /\ IsList(after, head)
  <2>1. after = Linked(start, first, n)
    BY <1>2
  <2>2. SectionPut(snode, first, after, head, n, s)
    BY <1>1, <1>2, <2>1, SectionLinked
  <2> QED
    BY <2>2 DEF ListOf, SectionPut
<1>4. S \subseteq 1 .. SectionNodes
  BY SoundFacts
<1>5. SoundSections(head, after)
  <2>1. head \in 0 .. SectionNodes
    BY <1>1, Bounds
  <2> HIDE DEF S
  <2>2. \A sn \in S \cup {n} : after[sn].section \in IniSections
    BY <1>1, <1>3, <1>4, ZenonT(60)
  <2>3. \A sn, tn \in S \cup {n} : after[sn].section = after[tn].section => sn = tn
    <3>1. \A sn \in S : sn # n /\ after[sn].section = snode[sn].section /\ snode[sn].section # s
      BY <1>3, <1>4 DEF S
    <3>2. after[n].section = s
      BY <1>3
    <3> QED
      BY <1>1, <3>1, <3>2, ZenonT(60)
  <2>4. \A m \in 1 .. SectionNodes : m \notin S \cup {n} => after[m] = FreedSection
    BY <1>1, <1>3
  <2> QED
    BY <1>3, <2>1, <2>2, <2>3, <2>4 DEF SoundSections
<1>6. IsList(knode, 0) /\ Chain(knode, 0) = {}
  <2>1. Links(knode)
    BY SoundFacts
  <2>2. Chain(knode, 0) = {}
    BY <2>1, ChainFacts
  <2> QED
    BY <2>2 DEF IsList, MirrorLinks
<1>7. /\ \A sn \in S : KeyChain(after, knode, sn) = KeyChain(snode, knode, sn) /\ after[sn].keys = snode[sn].keys
      /\ KeyChain(after, knode, n) = {} /\ after[n].keys = 0
  BY <1>3, <1>4, <1>6 DEF KeyChain
<1>8. SoundKeys(S, snode, knode)
  BY DEF Sound
<1>9. n \notin S
  OBVIOUS
<1> HIDE DEF S
<1>10. SoundKeys(S \cup {n}, after, knode)
  <2>1. \A sn \in S \cup {n} : IsList(knode, after[sn].keys)
    BY <1>6, <1>7, <1>8 DEF SoundKeys
  <2>2. \A sn \in S \cup {n} : \A kn \in KeyChain(after, knode, sn) : sn \in S /\ kn \in KeyChain(snode, knode, sn)
    BY <1>7
  <2>3. \A m \in 1 .. KeyNodes : (\A sn \in S \cup {n} : m \notin KeyChain(after, knode, sn)) => knode[m] = FreedKey
    BY <1>7, <1>8 DEF SoundKeys
  <2> QED
    BY <1>8, <2>1, <2>2, <2>3 DEF SoundKeys
<1>11. ASSUME NEW t, NEW k
       PROVE  KeyKept(first, snode, knode, head, after, knode, t, k)
  BY <1>3, <1>4, <1>7, <1>9 DEF KeyKept, Reads, S
<1> QED
  BY <1>3, <1>5, <1>10, <1>11 DEF Sound, SectionNew

-----------------------------------------------------------------------------
\* In later, the section node sn has another first key.
Rekeyed(first, snode, later, sn, head) ==
  /\ SoundSections(first, later) /\ Chain(later, first) = Chain(snode, first)
  /\ later[sn].keys = head
  /\ \A m \in 1 .. SectionNodes : later[m].section = snode[m].section /\ (m # sn => later[m].keys = snode[m].keys)

\* A section gets another first key, and the list of sections stays.
LEMMA Rekey ==
  ASSUME NEW first, NEW snode, SoundSections(first, snode), NEW sn \in Chain(snode, first),
         NEW head \in 0 .. KeyNodes, NEW later, later = [snode EXCEPT ![sn].keys = head]
  PROVE  Rekeyed(first, snode, later, sn, head)
<1>1. /\ snode \in [1 .. SectionNodes -> SectionRecords] /\ IsList(snode, first)
      /\ Links(snode) /\ DOMAIN snode = 1 .. SectionNodes
      /\ Chain(snode, first) \subseteq 1 .. SectionNodes /\ sn \in 1 .. SectionNodes
  BY NodesLink, ChainFacts DEF SoundSections, IsList
<1>2. /\ [snode[sn] EXCEPT !.keys = head] \in SectionRecords
      /\ [snode[sn] EXCEPT !.keys = head].keys = head
      /\ [snode[sn] EXCEPT !.keys = head].section = snode[sn].section
      /\ [snode[sn] EXCEPT !.keys = head].next = snode[sn].next
      /\ [snode[sn] EXCEPT !.keys = head].prev = snode[sn].prev
  <2>1. snode[sn] \in SectionRecords
    BY <1>1
  <2> QED
    BY <2>1 DEF SectionRecords
<1>3. /\ later = [snode EXCEPT ![sn] = [snode[sn] EXCEPT !.keys = head]]
      /\ DOMAIN later = DOMAIN snode
  BY <1>1
<1>4. /\ later \in [1 .. SectionNodes -> SectionRecords]
      /\ later[sn].keys = head
      /\ \A m \in 1 .. SectionNodes : later[m].section = snode[m].section /\ SameLinks(later, snode, m)
      /\ \A m \in 1 .. SectionNodes : m # sn => later[m] = snode[m]
  BY <1>1, <1>2, <1>3 DEF SameLinks
<1>5. \A n \in Chain(snode, first) : SameLinks(later, snode, n)
  BY <1>1, <1>4
<1>6. ListOf(later, first, Chain(snode, first))
  BY <1>1, <1>3, <1>5, ListSame
<1>7. SoundSections(first, later)
  <2>1. Chain(later, first) = Chain(snode, first) /\ IsList(later, first)
    BY <1>6 DEF ListOf
  <2>2. \A m \in Chain(snode, first) : later[m].section \in IniSections
    BY <1>1, <1>4 DEF SoundSections
  <2>3. \A m, n \in Chain(snode, first) : later[m].section = later[n].section => m = n
    BY <1>1, <1>4 DEF SoundSections
  <2>4. \A m \in 1 .. SectionNodes : m \notin Chain(snode, first) => later[m] = FreedSection
    BY <1>4 DEF SoundSections
  <2>5. first \in 0 .. SectionNodes
    BY DEF SoundSections
  <2> QED
    BY <1>4, <2>1, <2>2, <2>3, <2>4, <2>5 DEF SoundSections
<1> QED
  BY <1>4, <1>6, <1>7 DEF Rekeyed, ListOf

\* Only the list of the section sn has changed, and it has the nodes of C.
Changed(first, snode, knode, later, after, sn, C) ==
  /\ Sound(first, later, after)
  /\ \A t, k, kn : Reads(first, later, after, t, k, kn) <=>
       IF t = snode[sn].section THEN kn \in C /\ after[kn].key = k ELSE Reads(first, snode, knode, t, k, kn)
  /\ \A t, k : t # snode[sn].section => KeyKept(first, snode, knode, first, later, after, t, k)

\* The list of one section's keys changes, and the other lists stay.
LEMMA OneListChanged ==
  ASSUME NEW first, NEW snode, NEW knode, Sound(first, snode, knode), NEW sn \in Chain(snode, first),
         NEW head, NEW later, Rekeyed(first, snode, later, sn, head),
         NEW after \in [1 .. KeyNodes -> KeyRecords], NEW C \in SUBSET (1 .. KeyNodes), ListOf(after, head, C),
         \A m \in 1 .. KeyNodes : m \notin KeyChain(snode, knode, sn) /\ m \notin C => after[m] = knode[m],
         \A m \in C : m \notin KeyChain(snode, knode, sn) => knode[m] = FreedKey,
         \A m \in KeyChain(snode, knode, sn) : m \notin C => after[m] = FreedKey,
         \A m \in C : after[m].key \in IniKeys,
         \A m, n \in C : after[m].key = after[n].key => m = n
  PROVE  Changed(first, snode, knode, later, after, sn, C)
<1> DEFINE S == Chain(snode, first)
           Old(tn) == KeyChain(snode, knode, tn)
           New(tn) == KeyChain(later, after, tn)
<1>1. /\ Links(knode) /\ DOMAIN knode = 1 .. KeyNodes /\ S \subseteq 1 .. SectionNodes
      /\ \A tn \in S : Old(tn) \subseteq 1 .. KeyNodes
  BY SoundFacts
<1>2. /\ \A tn \in S : IsList(knode, snode[tn].keys)
      /\ \A tn, un \in S, n \in 1 .. KeyNodes : n \in Old(tn) /\ n \in Old(un) => tn = un
      /\ \A tn \in S : \A kn \in Old(tn) : knode[kn].key \in IniKeys
      /\ \A tn \in S : \A kn, ln \in Old(tn) : knode[kn].key = knode[ln].key => kn = ln
      /\ \A n \in 1 .. KeyNodes : (\A tn \in S : n \notin Old(tn)) => knode[n] = FreedKey
      /\ \A tn, un \in S : snode[tn].section = snode[un].section => tn = un
  BY DEF Sound, SoundKeys, SoundSections
<1>3. /\ SoundSections(first, later) /\ Chain(later, first) = S /\ later[sn].keys = head
      /\ \A m \in S : later[m].section = snode[m].section /\ (m # sn => later[m].keys = snode[m].keys)
  BY <1>1 DEF Rekeyed
<1>4. FreedKey.key \notin IniKeys
  BY IniAssumption DEF FreedKey
<1>5. ASSUME NEW tn \in S, tn # sn
      PROVE  \A m \in Old(tn) : m \in 1 .. KeyNodes /\ m \notin Old(sn) /\ m \notin C /\ after[m] = knode[m]
  BY <1>1, <1>2, <1>4, <1>5
<1>6. ASSUME NEW tn \in S, tn # sn
      PROVE  IsList(after, snode[tn].keys) /\ New(tn) = Old(tn)
  <2>1. \A m \in Chain(knode, snode[tn].keys) : SameLinks(after, knode, m)
    BY <1>5, <1>6 DEF SameLinks, KeyChain
  <2>2. DOMAIN after = DOMAIN knode /\ IsList(knode, snode[tn].keys)
    BY <1>1, <1>2
  <2>3. ListOf(after, snode[tn].keys, Chain(knode, snode[tn].keys))
    BY <1>1, <2>1, <2>2, ListSame
  <2> QED
    BY <1>3, <1>6, <2>3 DEF ListOf, KeyChain
<1>7. New(sn) = C /\ IsList(after, later[sn].keys)
  BY <1>3 DEF ListOf, KeyChain
<1>8. SoundKeys(S, later, after)
  <2>1. \A tn \in S : IsList(after, later[tn].keys)
    BY <1>3, <1>6, <1>7
  <2>2. \A tn \in S : tn # sn => New(tn) = Old(tn) /\ \A m \in Old(tn) : m \notin C /\ after[m] = knode[m]
    BY <1>5, <1>6
  <2>3. \A n \in 1 .. KeyNodes : (\A tn \in S : n \notin New(tn)) => after[n] = FreedKey
    BY <1>2, <1>7, <2>2
  <2> HIDE DEF S, Old, New
  <2>4. \A tn, un \in S, n \in 1 .. KeyNodes : n \in New(tn) /\ n \in New(un) => tn = un
    BY <1>2, <1>7, <2>2
  <2>5. \A tn \in S : \A kn \in New(tn) : after[kn].key \in IniKeys
    BY <1>2, <1>7, <2>2
  <2>6. \A tn \in S : \A kn, ln \in New(tn) : after[kn].key = after[ln].key => kn = ln
    BY <1>2, <1>7, <2>2
  <2> QED
    BY <2>1, <2>3, <2>4, <2>5, <2>6 DEF SoundKeys, New
<1>9. Sound(first, later, after)
  BY <1>3, <1>8 DEF Sound
<1>10. ASSUME NEW t, NEW k, NEW kn
       PROVE  Reads(first, later, after, t, k, kn) <=>
                IF t = snode[sn].section THEN kn \in C /\ after[kn].key = k ELSE Reads(first, snode, knode, t, k, kn)
  <2>1. Reads(first, later, after, t, k, kn) <=>
          \E tn \in S : snode[tn].section = t /\ kn \in New(tn) /\ after[kn].key = k
    BY <1>3 DEF Reads
  <2>2. Reads(first, snode, knode, t, k, kn) <=>
          \E tn \in S : snode[tn].section = t /\ kn \in Old(tn) /\ knode[kn].key = k
    BY DEF Reads
  <2>3. CASE t = snode[sn].section
    BY <1>2, <1>7, <2>1, <2>3
  <2>4. CASE t # snode[sn].section
    <3>1. \A tn \in S : snode[tn].section = t => New(tn) = Old(tn) /\ \A m \in Old(tn) : after[m] = knode[m]
      BY <1>5, <1>6, <2>4
    <3> QED
      BY <2>1, <2>2, <2>4, <3>1
  <2> QED
    BY <2>3, <2>4
<1>11. ASSUME NEW t, NEW k, t # snode[sn].section
       PROVE  KeyKept(first, snode, knode, first, later, after, t, k)
  <2>1. \A kn : Reads(first, snode, knode, t, k, kn) => after[kn] = knode[kn]
    BY <1>5, <1>11 DEF Reads
  <2> QED
    BY <1>10, <1>11, <2>1 DEF KeyKept
<1> QED
  BY <1>9, <1>10, <1>11 DEF Changed

-----------------------------------------------------------------------------
\* The key k of the section s has been given the string v, and no other key has changed.
KeyWritten(first, snode, knode, first2, snode2, knode2, s, k, v) ==
  /\ Sound(first2, snode2, knode2)
  /\ Gets(first2, snode2, knode2, s, k, v)
  /\ \A t, l : t # s \/ l # k => KeyKept(first, snode, knode, first2, snode2, knode2, t, l)

\* add_key: the key gets the value, and the others read as before.
LEMMA KeyAdded ==
  ASSUME NEW first, NEW snode, NEW knode, Sound(first, snode, knode), NEW sn \in Chain(snode, first),
         NEW k \in IniKeys, NEW v \in IniValues, \A kn \in KeyChain(snode, knode, sn) : knode[kn].key # k,
         NEW n \in 1 .. KeyNodes, knode[n] = FreedKey,
         NEW after, after = Linked([knode EXCEPT ![n] = [FreedKey EXCEPT !.key = k, !.str = v]], snode[sn].keys, n),
         NEW head, head = (IF snode[sn].keys = 0 THEN n ELSE snode[sn].keys),
         NEW later, later = [snode EXCEPT ![sn].keys = head]
  PROVE  KeyWritten(first, snode, knode, first, later, after, snode[sn].section, k, v)
<1> DEFINE old == KeyChain(snode, knode, sn)
           C == old \cup {n}
<1>1. /\ knode \in [1 .. KeyNodes -> KeyRecords] /\ IsList(knode, snode[sn].keys)
      /\ old \subseteq 1 .. KeyNodes /\ sn \in 1 .. SectionNodes
      /\ snode \in [1 .. SectionNodes -> SectionRecords] /\ SoundSections(first, snode)
      /\ \A kn \in old : knode[kn].key \in IniKeys
      /\ \A kn, ln \in old : knode[kn].key = knode[ln].key => kn = ln
  BY SoundFacts DEF Sound, SoundKeys, SoundSections
<1>2. n \notin old
  BY <1>1, IniAssumption DEF FreedKey
<1>3. PICK start : start = [knode EXCEPT ![n] = [FreedKey EXCEPT !.key = k, !.str = v]]
  OBVIOUS
<1>4. KeyPut(knode, snode[sn].keys, after, head, n, k, v)
  <2>1. n \in (1 .. KeyNodes) \ Chain(knode, snode[sn].keys)
    BY <1>2 DEF KeyChain
  <2>2. after = Linked(start, snode[sn].keys, n)
    BY <1>3
  <2> QED
    BY <1>1, <1>3, <2>1, <2>2, KeyLinked
<1>5. /\ after \in [1 .. KeyNodes -> KeyRecords]
      /\ after[n].key = k /\ after[n].str = v
      /\ \A m \in (1 .. KeyNodes) \ {n} : after[m].key = knode[m].key /\ after[m].str = knode[m].str
      /\ \A m \in (1 .. KeyNodes) \ {n} : m \notin old => after[m] = knode[m]
      /\ ListOf(after, head, C)
  BY <1>4 DEF KeyPut, KeyChain
<1>6. Rekeyed(first, snode, later, sn, head)
  <2>1. snode[sn].keys \in 0 .. KeyNodes
    BY <1>1 DEF SectionRecords
  <2>2. head \in 0 .. KeyNodes
    BY <2>1, Bounds
  <2> QED
    BY <1>1, <2>2, Rekey
<1>7. Changed(first, snode, knode, later, after, sn, C)
  <2>1. C \in SUBSET (1 .. KeyNodes)
    BY <1>1
  <2>2. /\ \A m \in 1 .. KeyNodes : m \notin old /\ m \notin C => after[m] = knode[m]
        /\ \A m \in C : m \notin old => knode[m] = FreedKey
        /\ \A m \in old : m \notin C => after[m] = FreedKey
    BY <1>5
  <2>3. \A m \in C : after[m].key \in IniKeys
    BY <1>1, <1>5
  <2>4. \A l, m \in C : after[l].key = after[m].key => l = m
    <3>1. \A kn \in old : after[kn].key = knode[kn].key /\ knode[kn].key # k
      BY <1>1, <1>2, <1>5
    <3>2. after[n].key = k
      BY <1>5
    <3>3. \A kn, ln \in old : after[kn].key = after[ln].key => kn = ln
      BY <1>1, <3>1
    <3>4. \A kn \in old : after[kn].key # after[n].key
      BY <3>1, <3>2
    <3> HIDE DEF old
    <3> QED
      BY <3>3, <3>4
  <2> HIDE DEF C
  <2> QED
    BY <1>5, <1>6, <2>1, <2>2, <2>3, <2>4, OneListChanged
<1>8. \A t, l, kn : Reads(first, later, after, t, l, kn) <=>
        IF t = snode[sn].section THEN kn \in C /\ after[kn].key = l ELSE Reads(first, snode, knode, t, l, kn)
  BY <1>7 DEF Changed
<1>9. Gets(first, later, after, snode[sn].section, k, v)
  BY <1>5, <1>8 DEF Gets
<1>10. ASSUME NEW t, NEW l, t # snode[sn].section \/ l # k
       PROVE  KeyKept(first, snode, knode, first, later, after, t, l)
  <2>1. CASE t # snode[sn].section
    BY <1>7, <2>1 DEF Changed
  <2>2. CASE t = snode[sn].section /\ l # k
    <3>1. \A kn : Reads(first, snode, knode, t, l, kn) <=> kn \in old /\ knode[kn].key = l
      BY <2>2 DEF Reads, Sound, SoundSections
    <3>2. \A kn \in C : after[kn].key = l <=> kn \in old /\ knode[kn].key = l
      BY <1>1, <1>2, <1>5, <2>2
    <3>3. \A kn \in old : after[kn].str = knode[kn].str
      BY <1>1, <1>2, <1>5
    <3> QED
      BY <1>8, <2>2, <3>1, <3>2, <3>3, ZenonT(60) DEF KeyKept
  <2> QED
    BY <1>10, <2>1, <2>2
<1> QED
  BY <1>7, <1>9, <1>10 DEF Changed, KeyWritten

\* A new string for a key that is there.
LEMMA KeySet ==
  ASSUME NEW first, NEW snode, NEW knode, Sound(first, snode, knode), NEW sn \in Chain(snode, first),
         NEW n \in KeyChain(snode, knode, sn), NEW v \in IniValues \cup {NoText},
         NEW after, after = [knode EXCEPT ![n].str = v]
  PROVE  KeyWritten(first, snode, knode, first, snode, after, snode[sn].section, knode[n].key, v)
<1> DEFINE old == KeyChain(snode, knode, sn)
           k == knode[n].key
<1>1. /\ knode \in [1 .. KeyNodes -> KeyRecords] /\ IsList(knode, snode[sn].keys)
      /\ old \subseteq 1 .. KeyNodes /\ sn \in 1 .. SectionNodes /\ n \in 1 .. KeyNodes
      /\ snode \in [1 .. SectionNodes -> SectionRecords] /\ SoundSections(first, snode)
      /\ DOMAIN knode = 1 .. KeyNodes /\ Links(knode)
  BY SoundFacts DEF Sound, SoundKeys, SoundSections
<1>2. /\ \A kn \in old : knode[kn].key \in IniKeys
      /\ \A kn, ln \in old : knode[kn].key = knode[ln].key => kn = ln
  BY DEF Sound, SoundKeys
<1>3. /\ [knode[n] EXCEPT !.str = v] \in KeyRecords
      /\ [knode[n] EXCEPT !.str = v].str = v
      /\ [knode[n] EXCEPT !.str = v].key = k
      /\ [knode[n] EXCEPT !.str = v].next = knode[n].next
      /\ [knode[n] EXCEPT !.str = v].prev = knode[n].prev
  <2>1. knode[n] \in KeyRecords
    BY <1>1
  <2> QED
    BY <2>1 DEF KeyRecords
<1>4. after = [knode EXCEPT ![n] = [knode[n] EXCEPT !.str = v]] /\ DOMAIN after = DOMAIN knode
  BY <1>1
<1>5. /\ after \in [1 .. KeyNodes -> KeyRecords]
      /\ after[n].str = v
      /\ \A m \in 1 .. KeyNodes : after[m].key = knode[m].key /\ SameLinks(after, knode, m)
      /\ \A m \in 1 .. KeyNodes : m # n => after[m] = knode[m]
  BY <1>1, <1>3, <1>4 DEF SameLinks
<1>6. ListOf(after, snode[sn].keys, old)
  <2>1. \A m \in Chain(knode, snode[sn].keys) : SameLinks(after, knode, m)
    BY <1>1, <1>5 DEF KeyChain
  <2> QED
    BY <1>1, <1>4, <2>1, ListSame DEF KeyChain
<1>7. Rekeyed(first, snode, snode, sn, snode[sn].keys)
  BY <1>1 DEF Rekeyed
<1>8. Changed(first, snode, knode, snode, after, sn, old)
  <2>1. \A m \in 1 .. KeyNodes : m \notin old => after[m] = knode[m]
    BY <1>5
  <2>2. \A m \in old : after[m].key \in IniKeys
    BY <1>1, <1>2, <1>5
  <2>3. \A l, m \in old : after[l].key = after[m].key => l = m
    BY <1>1, <1>2, <1>5
  <2>4. PICK C, head : C = old /\ head = snode[sn].keys
    OBVIOUS
  <2>5. /\ C \in SUBSET (1 .. KeyNodes) /\ ListOf(after, head, C) /\ Rekeyed(first, snode, snode, sn, head)
        /\ \A m \in 1 .. KeyNodes : m \notin KeyChain(snode, knode, sn) /\ m \notin C => after[m] = knode[m]
        /\ \A m \in C : m \notin KeyChain(snode, knode, sn) => knode[m] = FreedKey
        /\ \A m \in KeyChain(snode, knode, sn) : m \notin C => after[m] = FreedKey
        /\ \A m \in C : after[m].key \in IniKeys
        /\ \A l, m \in C : after[l].key = after[m].key => l = m
    BY <1>1, <1>6, <1>7, <2>1, <2>2, <2>3, <2>4
  <2>6. Changed(first, snode, knode, snode, after, sn, C)
    BY <1>5, <2>5, OneListChanged, ZenonT(60)
  <2> QED
    BY <2>4, <2>6
<1>9. \A t, l, kn : Reads(first, snode, after, t, l, kn) <=>
        IF t = snode[sn].section THEN kn \in old /\ after[kn].key = l ELSE Reads(first, snode, knode, t, l, kn)
  BY <1>8 DEF Changed
<1>10. Gets(first, snode, after, snode[sn].section, k, v)
  BY <1>1, <1>5, <1>9 DEF Gets
<1>11. ASSUME NEW t, NEW l, t # snode[sn].section \/ l # k
       PROVE  KeyKept(first, snode, knode, first, snode, after, t, l)
  <2>1. CASE t # snode[sn].section
    BY <1>8, <2>1 DEF Changed
  <2>2. CASE t = snode[sn].section /\ l # k
    <3>1. \A kn : Reads(first, snode, knode, t, l, kn) <=> kn \in old /\ knode[kn].key = l
      BY <2>2 DEF Reads, Sound, SoundSections
    <3>2. \A kn \in old : after[kn].key = knode[kn].key
      BY <1>1, <1>5
    <3>3. \A kn \in old : knode[kn].key = l => after[kn].str = knode[kn].str
      BY <1>1, <1>5, <2>2
    <3>4. \A kn : Reads(first, snode, after, t, l, kn) <=> kn \in old /\ after[kn].key = l
      BY <1>9, <2>2
    <3>5. \A kn : Reads(first, snode, after, t, l, kn) <=> Reads(first, snode, knode, t, l, kn)
      BY <3>1, <3>2, <3>4
    <3>6. \A kn : Reads(first, snode, knode, t, l, kn) => after[kn].str = knode[kn].str
      BY <3>1, <3>3
    <3> QED
      BY <3>5, <3>6 DEF KeyKept
  <2> QED
    BY <1>11, <2>1, <2>2
<1> QED
  BY <1>8, <1>10, <1>11 DEF Changed, KeyWritten

\* The key k of the section s reads as none, and the others as before.
KeyDropped(first, snode, knode, first2, snode2, knode2, s, k) ==
  /\ Sound(first2, snode2, knode2)
  /\ Lacks(first2, snode2, knode2, s, k)
  /\ \A t, l : t # s \/ l # k => KeyKept(first, snode, knode, first2, snode2, knode2, t, l)

\* delete_key
LEMMA KeyDeleted ==
  ASSUME NEW first, NEW snode, NEW knode, Sound(first, snode, knode), NEW sn \in Chain(snode, first),
         NEW n \in KeyChain(snode, knode, sn),
         NEW after, after = [Unlinked(knode, n) EXCEPT ![n] = FreedKey],
         NEW head, head = FirstWithout(snode[sn].keys, knode, n),
         NEW later, later = [snode EXCEPT ![sn].keys = head]
  PROVE  KeyDropped(first, snode, knode, first, later, after, snode[sn].section, knode[n].key)
<1> DEFINE old == KeyChain(snode, knode, sn)
           k == knode[n].key
<1>1. /\ knode \in [1 .. KeyNodes -> KeyRecords] /\ IsList(knode, snode[sn].keys)
      /\ old \subseteq 1 .. KeyNodes /\ sn \in 1 .. SectionNodes /\ n \in 1 .. KeyNodes
      /\ snode \in [1 .. SectionNodes -> SectionRecords] /\ SoundSections(first, snode)
      /\ DOMAIN knode = 1 .. KeyNodes /\ Links(knode)
  BY SoundFacts DEF Sound, SoundKeys, SoundSections
<1>2. /\ \A kn \in old : knode[kn].key \in IniKeys
      /\ \A kn, ln \in old : knode[kn].key = knode[ln].key => kn = ln
  BY DEF Sound, SoundKeys
<1>3. KeyOut(knode, snode[sn].keys, after, n)
  <2>1. n \in Chain(knode, snode[sn].keys)
    BY DEF KeyChain
  <2> QED
    BY <1>1, <2>1, KeyUnlinked
<1>4. PICK C : C = old \ {n}
  OBVIOUS
<1>5. /\ after \in [1 .. KeyNodes -> KeyRecords] /\ after[n] = FreedKey
      /\ \A m \in (1 .. KeyNodes) \ {n} : after[m].key = knode[m].key /\ after[m].str = knode[m].str
      /\ \A m \in 1 .. KeyNodes : m \notin old => after[m] = knode[m]
      /\ ListOf(after, head, C)
  BY <1>3, <1>4 DEF KeyOut, KeyChain
<1>6. Rekeyed(first, snode, later, sn, head)
  <2>1. snode[sn].keys \in 0 .. KeyNodes
    BY <1>1 DEF SectionRecords
  <2>2. knode[n].next \in 0 .. KeyNodes
    BY <1>1 DEF KeyRecords
  <2>3. head \in 0 .. KeyNodes
    BY <2>1, <2>2 DEF FirstWithout
  <2> QED
    BY <1>1, <2>3, Rekey
<1>7. Changed(first, snode, knode, later, after, sn, C)
  <2>1. C \in SUBSET (1 .. KeyNodes)
    BY <1>1, <1>4
  <2>2. /\ \A m \in 1 .. KeyNodes : m \notin old /\ m \notin C => after[m] = knode[m]
        /\ \A m \in C : m \notin old => knode[m] = FreedKey
        /\ \A m \in old : m \notin C => after[m] = FreedKey
    BY <1>4, <1>5
  <2>3. \A m \in C : after[m].key = knode[m].key
    BY <1>1, <1>4, <1>5
  <2>4. \A m \in C : after[m].key \in IniKeys
    BY <1>2, <1>4, <2>3
  <2>5. \A l, m \in C : after[l].key = after[m].key => l = m
    BY <1>2, <1>4, <2>3
  <2> QED
    BY <1>5, <1>6, <2>1, <2>2, <2>4, <2>5, OneListChanged
<1>8. \A t, l, kn : Reads(first, later, after, t, l, kn) <=>
        IF t = snode[sn].section THEN kn \in C /\ after[kn].key = l ELSE Reads(first, snode, knode, t, l, kn)
  BY <1>7 DEF Changed
<1>9. \A kn \in C : kn \in old /\ kn # n /\ after[kn].key = knode[kn].key /\ after[kn].str = knode[kn].str
  BY <1>1, <1>4, <1>5
<1>10. Lacks(first, later, after, snode[sn].section, k)
  <2>1. \A kn : Reads(first, later, after, snode[sn].section, k, kn) <=> kn \in C /\ after[kn].key = k
    BY <1>8
  <2>2. \A kn \in C : after[kn].key # k
    BY <1>2, <1>9
  <2> QED
    BY <2>1, <2>2 DEF Lacks
<1>11. ASSUME NEW t, NEW l, t # snode[sn].section \/ l # k
       PROVE  KeyKept(first, snode, knode, first, later, after, t, l)
  <2>1. CASE t # snode[sn].section
    BY <1>7, <2>1 DEF Changed
  <2>2. CASE t = snode[sn].section /\ l # k
    <3>1. \A kn : Reads(first, snode, knode, t, l, kn) <=> kn \in old /\ knode[kn].key = l
      BY <2>2 DEF Reads, Sound, SoundSections
    <3>2. \A kn \in old : knode[kn].key = l => kn \in C
      BY <1>4, <2>2
    <3>3. \A kn : Reads(first, later, after, t, l, kn) <=> kn \in C /\ after[kn].key = l
      BY <1>8, <2>2
    <3>4. \A kn : Reads(first, later, after, t, l, kn) <=> Reads(first, snode, knode, t, l, kn)
      BY <1>9, <3>1, <3>2, <3>3
    <3>5. \A kn : Reads(first, snode, knode, t, l, kn) => after[kn].str = knode[kn].str
      BY <1>9, <3>1, <3>2
    <3> QED
      BY <3>4, <3>5 DEF KeyKept
  <2> QED
    BY <1>11, <2>1, <2>2
<1> QED
  BY <1>7, <1>10, <1>11 DEF Changed, KeyDropped

\* The section s reads as none, and the others as before.
SectionGone(first, snode, knode, first2, snode2, knode2, s) ==
  /\ Sound(first2, snode2, knode2)
  /\ \A k : Lacks(first2, snode2, knode2, s, k)
  /\ \A t, k : t # s => KeyKept(first, snode, knode, first2, snode2, knode2, t, k)

\* delete_section
LEMMA SectionDeleted ==
  ASSUME NEW first, NEW snode, NEW knode, Sound(first, snode, knode), NEW n \in Chain(snode, first),
         NEW after, after = [Unlinked(snode, n) EXCEPT ![n] = FreedSection],
         NEW head, head = FirstWithout(first, snode, n),
         NEW keys, keys = [m \in 1 .. KeyNodes |-> IF m \in Chain(knode, snode[n].keys) THEN FreedKey ELSE knode[m]]
  PROVE  SectionGone(first, snode, knode, head, after, keys, snode[n].section)
<1> DEFINE S == Chain(snode, first)
           Old(tn) == KeyChain(snode, knode, tn)
           New(tn) == KeyChain(after, keys, tn)
<1>1. /\ Links(knode) /\ DOMAIN knode = 1 .. KeyNodes /\ S \subseteq 1 .. SectionNodes
      /\ \A tn \in S : Old(tn) \subseteq 1 .. KeyNodes
      /\ knode \in [1 .. KeyNodes -> KeyRecords]
      /\ snode \in [1 .. SectionNodes -> SectionRecords] /\ IsList(snode, first) /\ first \in 0 .. SectionNodes
  BY SoundFacts DEF Sound, SoundKeys, SoundSections
<1>2. /\ \A tn \in S : IsList(knode, snode[tn].keys)
      /\ \A tn, un \in S, m \in 1 .. KeyNodes : m \in Old(tn) /\ m \in Old(un) => tn = un
      /\ \A tn \in S : \A kn \in Old(tn) : knode[kn].key \in IniKeys
      /\ \A tn \in S : \A kn, ln \in Old(tn) : knode[kn].key = knode[ln].key => kn = ln
      /\ \A m \in 1 .. KeyNodes : (\A tn \in S : m \notin Old(tn)) => knode[m] = FreedKey
  BY DEF Sound, SoundKeys
<1>3. /\ \A tn \in S : snode[tn].section \in IniSections
      /\ \A tn, un \in S : snode[tn].section = snode[un].section => tn = un
      /\ \A m \in 1 .. SectionNodes : m \notin S => snode[m] = FreedSection
  BY DEF Sound, SoundSections
<1>4. PICK T : T = S \ {n}
  OBVIOUS
<1>5. /\ after \in [1 .. SectionNodes -> SectionRecords] /\ after[n] = FreedSection
      /\ \A m \in (1 .. SectionNodes) \ {n} : after[m].section = snode[m].section /\ after[m].keys = snode[m].keys
      /\ \A m \in 1 .. SectionNodes : m \notin S => after[m] = snode[m]
      /\ Chain(after, head) = T /\ IsList(after, head)
  <2>1. SectionOut(snode, first, after, n)
    BY <1>1, SectionUnlinked
  <2> QED
    BY <1>4, <2>1 DEF SectionOut, ListOf
<1>6. \A m \in T : m \in S /\ m # n /\ after[m].section = snode[m].section /\ after[m].keys = snode[m].keys
  BY <1>1, <1>4, <1>5
<1>7. SoundSections(head, after)
  <2>1. head \in 0 .. SectionNodes
    <3>1. snode[n].next \in 0 .. SectionNodes
      BY <1>1 DEF SectionRecords
    <3> QED
      BY <1>1, <3>1 DEF FirstWithout
  <2>2. \A m \in T : after[m].section \in IniSections
    BY <1>3, <1>6
  <2>3. \A l, m \in T : after[l].section = after[m].section => l = m
    BY <1>3, <1>6
  <2>4. \A m \in 1 .. SectionNodes : m \notin T => after[m] = FreedSection
    BY <1>3, <1>4, <1>5
  <2> QED
    BY <1>5, <2>1, <2>2, <2>3, <2>4 DEF SoundSections
<1>8. /\ keys \in [1 .. KeyNodes -> KeyRecords] /\ DOMAIN keys = 1 .. KeyNodes
      /\ \A m \in 1 .. KeyNodes : keys[m] = IF m \in Old(n) THEN FreedKey ELSE knode[m]
  <2>1. FreedKey \in KeyRecords
    BY Bounds DEF FreedKey, KeyRecords
  <2> QED
    BY <1>1, <2>1 DEF KeyChain
<1>9. \A m \in T : \A kn \in Old(m) : kn \in 1 .. KeyNodes /\ kn \notin Old(n) /\ keys[kn] = knode[kn]
  <2>1. ASSUME NEW m \in T, NEW kn \in Old(m)
        PROVE  kn \in 1 .. KeyNodes /\ kn \notin Old(n)
    BY <1>1, <1>2, <1>6
  <2> QED
    BY <1>8, <2>1
<1>10. ASSUME NEW m \in T
       PROVE  IsList(keys, after[m].keys) /\ New(m) = Old(m)
  <2>1. \A kn \in Chain(knode, snode[m].keys) : SameLinks(keys, knode, kn)
    BY <1>9 DEF SameLinks, KeyChain
  <2>2. DOMAIN keys = DOMAIN knode /\ IsList(knode, snode[m].keys)
    BY <1>1, <1>2, <1>6, <1>8
  <2>3. ListOf(keys, snode[m].keys, Chain(knode, snode[m].keys))
    BY <1>1, <2>1, <2>2, ListSame
  <2> QED
    BY <1>6, <2>3 DEF ListOf, KeyChain
<1>11. SoundKeys(T, after, keys)
  <2>1. \A m \in T : m \in S /\ New(m) = Old(m) /\ \A kn \in Old(m) : keys[kn] = knode[kn]
    BY <1>6, <1>9, <1>10
  <2>2. \A kn \in 1 .. KeyNodes : (\A m \in T : kn \notin New(m)) => keys[kn] = FreedKey
    BY <1>2, <1>4, <1>8, <2>1
  <2> HIDE DEF S, Old, New
  <2>3. \A l, m \in T, kn \in 1 .. KeyNodes : kn \in New(l) /\ kn \in New(m) => l = m
    BY <1>2, <2>1
  <2>4. \A m \in T : \A kn \in New(m) : keys[kn].key \in IniKeys
    BY <1>2, <2>1
  <2>5. \A m \in T : \A kn, ln \in New(m) : keys[kn].key = keys[ln].key => kn = ln
    BY <1>2, <2>1
  <2>6. \A m \in T : IsList(keys, after[m].keys)
    BY <1>10
  <2> QED
    BY <1>8, <2>2, <2>3, <2>4, <2>5, <2>6 DEF SoundKeys, New
<1>12. Sound(head, after, keys)
  BY <1>5, <1>7, <1>11 DEF Sound
<1>13. ASSUME NEW t, NEW k, NEW kn
       PROVE  Reads(head, after, keys, t, k, kn) <=>
                \E m \in T : snode[m].section = t /\ kn \in Old(m) /\ knode[kn].key = k
  <2>1. Reads(head, after, keys, t, k, kn) <=>
          \E m \in T : after[m].section = t /\ kn \in New(m) /\ keys[kn].key = k
    BY <1>5 DEF Reads
  <2>2. \A m \in T : /\ after[m].section = snode[m].section
                     /\ kn \in New(m) <=> kn \in Old(m)
                     /\ kn \in Old(m) => keys[kn] = knode[kn]
    BY <1>6, <1>9, <1>10
  <2> HIDE DEF Old, New
  <2> QED
    BY <2>1, <2>2
<1>14. ASSUME NEW t, NEW k, NEW kn
       PROVE  Reads(first, snode, knode, t, k, kn) <=>
                \E m \in S : snode[m].section = t /\ kn \in Old(m) /\ knode[kn].key = k
  BY DEF Reads
<1> HIDE DEF S, Old, New
<1>15. ASSUME NEW k
       PROVE  Lacks(head, after, keys, snode[n].section, k)
  <2>1. \A m \in T : snode[m].section # snode[n].section
    BY <1>3, <1>6 DEF S
  <2>2. PICK name : name = snode[n].section
    OBVIOUS
  <2>3. ASSUME NEW kn
        PROVE  ~Reads(head, after, keys, name, k, kn)
    <3>1. Reads(head, after, keys, name, k, kn) <=>
            \E m \in T : snode[m].section = name /\ kn \in Old(m) /\ knode[kn].key = k
      BY <1>13, ZenonT(60)
    <3> QED
      BY <2>1, <2>2, <3>1
  <2> QED
    BY <2>2, <2>3 DEF Lacks
<1>16. ASSUME NEW t, NEW k, t # snode[n].section
       PROVE  KeyKept(first, snode, knode, head, after, keys, t, k)
  <2>1. \A m \in S : snode[m].section = t => m \in T
    BY <1>4, <1>16
  <2>2. ASSUME NEW kn
        PROVE  /\ Reads(head, after, keys, t, k, kn) <=> Reads(first, snode, knode, t, k, kn)
               /\ Reads(first, snode, knode, t, k, kn) => keys[kn].str = knode[kn].str
    <3>1. Reads(head, after, keys, t, k, kn) <=>
            \E m \in T : snode[m].section = t /\ kn \in Old(m) /\ knode[kn].key = k
      BY <1>13, ZenonT(60)
    <3>2. Reads(first, snode, knode, t, k, kn) <=>
            \E m \in S : snode[m].section = t /\ kn \in Old(m) /\ knode[kn].key = k
      BY <1>14
    <3>3. \A m \in T : m \in S
      BY <1>6
    <3>4. Reads(head, after, keys, t, k, kn) <=> Reads(first, snode, knode, t, k, kn)
      BY <2>1, <3>1, <3>2, <3>3
    <3>5. \A m \in T : kn \in Old(m) => keys[kn] = knode[kn]
      BY <1>9
    <3> QED
      BY <3>1, <3>4, <3>5
  <2> QED
    BY <2>2 DEF KeyKept
<1> QED
  BY <1>12, <1>15, <1>16 DEF SectionGone

-----------------------------------------------------------------------------
\* What the settings read as: the string of the node that is found, and no value where
\* none is found.
ReadAs(first, snode, knode, contents) ==
  /\ contents = [s \in IniSections |-> [k \in IniKeys |-> contents[s][k]]]
  /\ \A s \in IniSections, k \in IniKeys :
       /\ \A kn : Reads(first, snode, knode, s, k, kn) => contents[s][k] = knode[kn].str
       /\ Lacks(first, snode, knode, s, k) => contents[s][k] = NoText

\* Contents is what get_private_profile_string reads from the lists.
LEMMA ContentsAre ==
  IniInv => ReadAs(ini_sections, section_node, key_node, Contents)
<1> SUFFICES ASSUME IniInv
             PROVE  ReadAs(ini_sections, section_node, key_node, Contents)
  OBVIOUS
<1> DEFINE S == Chain(section_node, ini_sections)
           Of(sn) == KeyChain(section_node, key_node, sn)
           Nodes(s, k) == {n \in UNION {Of(sn) : sn \in {m \in S : section_node[m].section = s}} : key_node[n].key = k}
           Value(nodes) == LET found == {key_node[n].str : n \in nodes}
                           IN IF found \subseteq {NoText} THEN NoText ELSE CHOOSE v \in found : v # NoText
<1>1. Contents = [s \in IniSections |-> [k \in IniKeys |-> Value(Nodes(s, k))]]
  <2> DEFINE Keys(s) == UNION {Of(sn) : sn \in {m \in S : section_node[m].section = s}}
  <2>1. ASSUME NEW s \in IniSections, Keys(s) = {}
        PROVE  [k \in IniKeys |-> NoText] = [k \in IniKeys |-> Value(Nodes(s, k))]
    <3>1. \A k : Nodes(s, k) = {}
      BY <2>1
    <3> QED
      BY <3>1
  <2>2. Contents = [s \in IniSections |-> IF Keys(s) = {} THEN [k \in IniKeys |-> NoText]
                                          ELSE [k \in IniKeys |-> Value(Nodes(s, k))]]
    BY DEF Contents, KeyChain
  <2> HIDE DEF Keys, Nodes, Value
  <2> QED
    BY <2>1, <2>2
<1>2. \A s, k, kn : kn \in Nodes(s, k) <=> Reads(ini_sections, section_node, key_node, s, k, kn)
  BY DEF Reads
<1>3. \A s, k, kn, ln : kn \in Nodes(s, k) /\ ln \in Nodes(s, k) => kn = ln
  BY <1>2 DEF IniInv, Sound, SoundSections, SoundKeys, Reads
<1> HIDE DEF Nodes
<1>4. ASSUME NEW s, NEW k, NEW kn \in Nodes(s, k)
      PROVE  Value(Nodes(s, k)) = key_node[kn].str
  <2>1. Nodes(s, k) = {kn}
    BY <1>3
  <2>2. {key_node[n].str : n \in {kn}} = {key_node[kn].str}
    OBVIOUS
  <2> QED
    BY <2>1, <2>2
<1>5. ASSUME NEW s, NEW k, Nodes(s, k) = {}
      PROVE  Value(Nodes(s, k)) = NoText
  BY <1>5
<1> HIDE DEF Value
<1>6. \A s \in IniSections, k \in IniKeys : Contents[s][k] = Value(Nodes(s, k))
  BY <1>1
<1>7. Contents = [s \in IniSections |-> [k \in IniKeys |-> Contents[s][k]]]
  BY <1>1, <1>6
<1>8. \A s, k : Lacks(ini_sections, section_node, key_node, s, k) => Nodes(s, k) = {}
  <2>1. ASSUME NEW s, NEW k, NEW kn \in Nodes(s, k)
        PROVE  kn \in 1 .. KeyNodes
    <3>1. Reads(ini_sections, section_node, key_node, s, k, kn)
      BY <1>2
    <3> QED
      BY <3>1, SoundFacts DEF IniInv, Reads
  <2> QED
    BY <1>2, <2>1 DEF Lacks
<1> QED
  BY <1>2, <1>4, <1>5, <1>6, <1>7, <1>8 DEF ReadAs

\* So each operation does to what is read what it does to a map.
LEMMA MapSteps ==
  ASSUME NEW first, NEW snode, NEW knode, NEW old, ReadAs(first, snode, knode, old),
         NEW first2, NEW snode2, NEW knode2, NEW new, ReadAs(first2, snode2, knode2, new)
  PROVE  /\ \A s \in IniSections, k \in IniKeys : \A v :
              KeyWritten(first, snode, knode, first2, snode2, knode2, s, k, v)
              => new = [old EXCEPT ![s][k] = v] /\ new[s][k] = v
         /\ \A s \in IniSections, k \in IniKeys :
              KeyDropped(first, snode, knode, first2, snode2, knode2, s, k) => new = [old EXCEPT ![s][k] = NoText]
         /\ \A s \in IniSections :
              SectionGone(first, snode, knode, first2, snode2, knode2, s)
              => new = [old EXCEPT ![s] = [k \in IniKeys |-> NoText]]
         /\ (\A t, k : KeyKept(first, snode, knode, first2, snode2, knode2, t, k)) => new = old
<1>1. ASSUME NEW s \in IniSections, NEW k \in IniKeys, KeyKept(first, snode, knode, first2, snode2, knode2, s, k)
      PROVE  new[s][k] = old[s][k]
  <2>1. CASE Lacks(first, snode, knode, s, k)
    <3>1. Lacks(first2, snode2, knode2, s, k)
      BY <1>1, <2>1 DEF Lacks, KeyKept
    <3> QED
      BY <2>1, <3>1 DEF ReadAs
  <2>2. CASE ~Lacks(first, snode, knode, s, k)
    <3>1. PICK kn \in 1 .. KeyNodes : Reads(first, snode, knode, s, k, kn)
      BY <2>2 DEF Lacks
    <3>2. Reads(first2, snode2, knode2, s, k, kn) /\ knode2[kn].str = knode[kn].str
      BY <1>1, <3>1 DEF KeyKept
    <3> QED
      BY <3>1, <3>2 DEF ReadAs
  <2> QED
    BY <2>1, <2>2
<1>2. ASSUME NEW s \in IniSections, NEW k \in IniKeys, NEW v, Gets(first2, snode2, knode2, s, k, v)
      PROVE  new[s][k] = v
  BY <1>2 DEF Gets, ReadAs
<1>3. ASSUME NEW s \in IniSections, NEW k \in IniKeys, Lacks(first2, snode2, knode2, s, k)
      PROVE  new[s][k] = NoText
  BY <1>3 DEF ReadAs
<1>4. /\ old = [s \in IniSections |-> [k \in IniKeys |-> old[s][k]]]
      /\ new = [s \in IniSections |-> [k \in IniKeys |-> new[s][k]]]
  BY DEF ReadAs
<1>5. ASSUME NEW s \in IniSections, NEW k \in IniKeys, NEW v, new[s][k] = v,
             \A t \in IniSections, l \in IniKeys : t # s \/ l # k => new[t][l] = old[t][l]
      PROVE  new = [old EXCEPT ![s][k] = v]
  <2>1. [old EXCEPT ![s][k] = v] =
          [t \in IniSections |-> [l \in IniKeys |-> IF t = s /\ l = k THEN v ELSE old[t][l]]]
    <3>1. [old EXCEPT ![s][k] = v] = [t \in IniSections |-> IF t = s THEN [old[s] EXCEPT ![k] = v] ELSE old[t]]
      BY <1>4
    <3>2. \A t \in IniSections : old[t] = [l \in IniKeys |-> old[t][l]]
      BY <1>4
    <3>3. [old[s] EXCEPT ![k] = v] = [l \in IniKeys |-> IF l = k THEN v ELSE old[s][l]]
      BY <3>2
    <3>4. \A t \in IniSections : (IF t = s THEN [old[s] EXCEPT ![k] = v] ELSE old[t]) =
                                  [l \in IniKeys |-> IF t = s /\ l = k THEN v ELSE old[t][l]]
      <4>1. ASSUME NEW t \in IniSections, t = s
            PROVE  [old[s] EXCEPT ![k] = v] = [l \in IniKeys |-> IF t = s /\ l = k THEN v ELSE old[t][l]]
        BY <3>3, <4>1
      <4>2. ASSUME NEW t \in IniSections, t # s
            PROVE  old[t] = [l \in IniKeys |-> IF t = s /\ l = k THEN v ELSE old[t][l]]
        BY <3>2, <4>2
      <4> QED
        BY <4>1, <4>2
    <3> QED
      BY <3>1, <3>4
  <2>2. \A t \in IniSections, l \in IniKeys : new[t][l] = IF t = s /\ l = k THEN v ELSE old[t][l]
    BY <1>5
  <2>3. \A t \in IniSections : new[t] = [l \in IniKeys |-> IF t = s /\ l = k THEN v ELSE old[t][l]]
    <3>1. \A t \in IniSections : new[t] = [l \in IniKeys |-> new[t][l]]
      BY <1>4
    <3> QED
      BY <2>2, <3>1
  <2>4. new = [t \in IniSections |-> new[t]]
    BY <1>4
  <2> QED
    BY <2>1, <2>3, <2>4
<1>6. ASSUME NEW s \in IniSections, NEW k \in IniKeys, NEW v,
             KeyWritten(first, snode, knode, first2, snode2, knode2, s, k, v)
      PROVE  new = [old EXCEPT ![s][k] = v] /\ new[s][k] = v
  <2>1. new[s][k] = v
    BY <1>2, <1>6 DEF KeyWritten
  <2>2. \A t \in IniSections, l \in IniKeys : t # s \/ l # k => new[t][l] = old[t][l]
    BY <1>1, <1>6 DEF KeyWritten
  <2> QED
    BY <1>5, <2>1, <2>2
<1>7. ASSUME NEW s \in IniSections, NEW k \in IniKeys, KeyDropped(first, snode, knode, first2, snode2, knode2, s, k)
      PROVE  new = [old EXCEPT ![s][k] = NoText]
  <2>1. new[s][k] = NoText
    BY <1>3, <1>7 DEF KeyDropped
  <2>2. \A t \in IniSections, l \in IniKeys : t # s \/ l # k => new[t][l] = old[t][l]
    BY <1>1, <1>7 DEF KeyDropped
  <2> QED
    BY <1>5, <2>1, <2>2
<1>8. ASSUME NEW s \in IniSections, SectionGone(first, snode, knode, first2, snode2, knode2, s)
      PROVE  new = [old EXCEPT ![s] = [k \in IniKeys |-> NoText]]
  <2>1. \A k \in IniKeys : new[s][k] = NoText
    BY <1>3, <1>8 DEF SectionGone
  <2>2. \A t \in IniSections, k \in IniKeys : t # s => new[t][k] = old[t][k]
    BY <1>1, <1>8 DEF SectionGone
  <2>3. \A t \in IniSections : /\ old[t] = [k \in IniKeys |-> old[t][k]]
                               /\ new[t] = [k \in IniKeys |-> new[t][k]]
    BY <1>4
  <2>4. \A t \in IniSections : t # s => new[t] = old[t]
    BY <2>2, <2>3
  <2>5. new[s] = [k \in IniKeys |-> NoText]
    BY <2>1, <2>3
  <2>6. new = [t \in IniSections |-> new[t]] /\ old = [t \in IniSections |-> old[t]]
    BY <1>4
  <2> QED
    BY <2>4, <2>5, <2>6
<1>9. ASSUME \A t, k : KeyKept(first, snode, knode, first2, snode2, knode2, t, k)
      PROVE  new = old
  <2>1. \A s \in IniSections, k \in IniKeys : new[s][k] = old[s][k]
    BY <1>1, <1>9
  <2> QED
    BY <1>4, <2>1
<1> QED
  BY <1>6, <1>7, <1>8, <1>9

-----------------------------------------------------------------------------
\* malloc gives one of the free nodes.
LEMMA LowestIs ==
  ASSUME NEW N \in Nat, NEW S \in SUBSET (1 .. N), S # {}
  PROVE  LowestOf(S) \in S
<1>1. \E i \in S : \A j \in S : ~(<<j, i>> \in OpToRel(<, Nat))
  <2>1. S \subseteq Nat
    OBVIOUS
  <2> QED
    BY <2>1, NatLessThanWellFounded, WFMin
<1>2. \A i, j \in S : <<j, i>> \notin OpToRel(<, Nat) => i <= j
  BY DEF OpToRel
<1> QED
  BY <1>1, <1>2 DEF LowestOf

\* A free node is in no list.
LEMMA FreeNodes ==
  ASSUME IniInv
  PROVE  /\ FreeSections = (1 .. SectionNodes) \ Chain(section_node, ini_sections)
         /\ FreeSections # {} => LowestOf(FreeSections) \in FreeSections
         /\ FreeKeys # {} => LowestOf(FreeKeys) \in FreeKeys
<1>1. FreedSection.section \notin IniSections
  BY IniAssumption DEF FreedSection
<1>2. FreeSections = (1 .. SectionNodes) \ Chain(section_node, ini_sections)
  BY <1>1 DEF IniInv, Sound, SoundSections, FreeSections
<1>3. FreeSections # {} => LowestOf(FreeSections) \in FreeSections
  <2>1. FreeSections \in SUBSET (1 .. SectionNodes) /\ SectionNodes \in Nat
    BY IniAssumption DEF FreeSections
  <2> QED
    BY <2>1, LowestIs
<1>4. FreeKeys # {} => LowestOf(FreeKeys) \in FreeKeys
  <2>1. FreeKeys \in SUBSET (1 .. KeyNodes) /\ KeyNodes \in Nat
    BY IniAssumption DEF FreeKeys
  <2> QED
    BY <2>1, LowestIs
<1> QED
  BY <1>2, <1>3, <1>4

-----------------------------------------------------------------------------
\* add_section alone.
LEMMA AddSectionStep ==
  ASSUME IniInv, NEW s \in IniSections, AddSection(s)
  PROVE  /\ Sound(ini_sections', section_node', key_node')
         /\ \A t, k : KeyKept(ini_sections, section_node, key_node, ini_sections', section_node', key_node', t, k)
<1>1. PICK n : n = LowestOf(FreeSections)
  OBVIOUS
<1>2. n \in (1 .. SectionNodes) \ Chain(section_node, ini_sections)
  BY <1>1, FreeNodes DEF AddSection
<1>3. PICK after, head : after = section_node' /\ head = ini_sections'
  OBVIOUS
<1>4. /\ after = Linked([section_node EXCEPT ![n] = [FreedSection EXCEPT !.section = s]], ini_sections, n)
      /\ head = (IF ini_sections = 0 THEN n ELSE ini_sections) /\ key_node' = key_node
  BY <1>1, <1>3 DEF AddSection, AddedSection
<1>5. \A sn \in Chain(section_node, ini_sections) : section_node[sn].section # s
  BY DEF AddSection, FindSection
<1>6. SectionNew(ini_sections, section_node, key_node, head, after, n, s)
  BY <1>2, <1>4, <1>5, SectionAdded DEF IniInv
<1> QED
  BY <1>3, <1>4, <1>6 DEF SectionNew

\* add_key in a section that is there.
LEMMA AddKeyStep ==
  ASSUME IniInv, NEW s \in IniSections, NEW k \in IniKeys, NEW v \in IniValues, AddKey(s, k, v)
  PROVE  KeyWritten(ini_sections, section_node, key_node, ini_sections', section_node', key_node', s, k, v)
<1>1. PICK sn \in FindSection(s) :
        LET first == section_node[sn].keys
            n == LowestOf(FreeKeys)
        IN /\ FindKey(sn, k) = {}
           /\ key_node' = AddedKey(n, first, k, v)
           /\ section_node' = [section_node EXCEPT ![sn].keys = IF first = 0 THEN n ELSE first]
  BY DEF AddKey
<1>2. PICK n : n = LowestOf(FreeKeys)
  OBVIOUS
<1>3. n \in 1 .. KeyNodes /\ key_node[n] = FreedKey
  <2>1. n \in FreeKeys
    BY <1>2, FreeNodes DEF AddKey
  <2> QED
    BY <2>1 DEF FreeKeys
<1>4. PICK after, later, head : /\ after = key_node' /\ later = section_node'
                                /\ head = (IF section_node[sn].keys = 0 THEN n ELSE section_node[sn].keys)
  OBVIOUS
<1>5. after = Linked([key_node EXCEPT ![n] = [FreedKey EXCEPT !.key = k, !.str = v]], section_node[sn].keys, n)
  BY <1>1, <1>2, <1>4 DEF AddedKey
<1>6. later = [section_node EXCEPT ![sn].keys = head]
  BY <1>1, <1>2, <1>4
<1>7. \A kn \in KeyChain(section_node, key_node, sn) : key_node[kn].key # k
  BY <1>1 DEF FindKey, KeyChain
<1>8. sn \in Chain(section_node, ini_sections) /\ section_node[sn].section = s
  BY DEF FindSection
<1>9. KeyWritten(ini_sections, section_node, key_node, ini_sections, later, after, section_node[sn].section, k, v)
  BY <1>3, <1>4, <1>5, <1>6, <1>7, <1>8, KeyAdded, ZenonT(60) DEF IniInv
<1> QED
  BY <1>4, <1>8, <1>9 DEF AddKey

\* add_section and add_key: the section is added as a list of its own first.
LEMMA AddBothStep ==
  ASSUME IniInv, NEW s \in IniSections, NEW k \in IniKeys, NEW v \in IniValues, AddBoth(s, k, v)
  PROVE  KeyWritten(ini_sections, section_node, key_node, ini_sections', section_node', key_node', s, k, v)
<1>1. PICK sn, n : sn = LowestOf(FreeSections) /\ n = LowestOf(FreeKeys)
  OBVIOUS
<1>2. sn \in (1 .. SectionNodes) \ Chain(section_node, ini_sections)
  BY <1>1, FreeNodes DEF AddBoth
<1>3. n \in 1 .. KeyNodes /\ key_node[n] = FreedKey
  <2>1. n \in FreeKeys
    BY <1>1, FreeNodes DEF AddBoth
  <2> QED
    BY <2>1 DEF FreeKeys
<1>4. PICK mid, head : /\ mid = Linked([section_node EXCEPT ![sn] = [FreedSection EXCEPT !.section = s]], ini_sections, sn)
                       /\ head = (IF ini_sections = 0 THEN sn ELSE ini_sections)
  OBVIOUS
<1>5. PICK after, later : after = key_node' /\ later = section_node'
  OBVIOUS
<1>6. /\ later = [mid EXCEPT ![sn].keys = n] /\ ini_sections' = head
      /\ after = Linked([key_node EXCEPT ![n] = [FreedKey EXCEPT !.key = k, !.str = v]], 0, n)
  BY <1>1, <1>4, <1>5 DEF AddBoth, AddedSection, AddedKey
<1>7. \A tn \in Chain(section_node, ini_sections) : section_node[tn].section # s
  BY DEF AddBoth, FindSection
<1>8. SectionNew(ini_sections, section_node, key_node, head, mid, sn, s)
  BY <1>2, <1>4, <1>7, SectionAdded DEF IniInv
<1>9. /\ Sound(head, mid, key_node) /\ sn \in Chain(mid, head) /\ mid[sn].section = s /\ mid[sn].keys = 0
      /\ \A t, l : KeyKept(ini_sections, section_node, key_node, head, mid, key_node, t, l)
  BY <1>8 DEF SectionNew
<1>10. \A kn \in KeyChain(mid, key_node, sn) : key_node[kn].key # k
  <2>1. Links(key_node)
    BY SoundFacts DEF IniInv
  <2>2. Chain(key_node, 0) = {}
    BY <2>1, ChainFacts
  <2> QED
    BY <1>9, <2>2 DEF KeyChain
<1>11. KeyWritten(head, mid, key_node, head, later, after, s, k, v)
  <2>1. after = Linked([key_node EXCEPT ![n] = [FreedKey EXCEPT !.key = k, !.str = v]], mid[sn].keys, n)
    BY <1>6, <1>9
  <2>2. PICK only : only = (IF mid[sn].keys = 0 THEN n ELSE mid[sn].keys)
    OBVIOUS
  <2>3. later = [mid EXCEPT ![sn].keys = only]
    BY <1>6, <1>9, <2>2
  <2>4. KeyWritten(head, mid, key_node, head, later, after, mid[sn].section, k, v)
    BY <1>3, <1>9, <1>10, <2>1, <2>2, <2>3, KeyAdded
  <2> QED
    BY <1>9, <2>4
<1>12. ASSUME NEW t, NEW l, t # s \/ l # k
       PROVE  KeyKept(ini_sections, section_node, key_node, head, later, after, t, l)
  <2>1. /\ KeyKept(ini_sections, section_node, key_node, head, mid, key_node, t, l)
        /\ KeyKept(head, mid, key_node, head, later, after, t, l)
    BY <1>9, <1>11, <1>12 DEF KeyWritten
  <2> QED
    BY <2>1 DEF KeyKept
<1> QED
  BY <1>5, <1>6, <1>11, <1>12 DEF KeyWritten

\* A key that is there gets another value.
LEMMA SetKeyStep ==
  ASSUME IniInv, NEW s \in IniSections, NEW k \in IniKeys, NEW v \in IniValues \cup {NoText}, SetKey(s, k, v)
  PROVE  KeyWritten(ini_sections, section_node, key_node, ini_sections', section_node', key_node', s, k, v)
<1>0. PICK sn \in FindSection(s) : \E n \in FindKey(sn, k) : key_node' = [key_node EXCEPT ![n].str = v]
  BY DEF SetKey
<1>1. PICK n \in FindKey(sn, k) : key_node' = [key_node EXCEPT ![n].str = v]
  BY <1>0
<1>2. PICK after : after = key_node'
  OBVIOUS
<1>3. /\ sn \in Chain(section_node, ini_sections) /\ section_node[sn].section = s
      /\ n \in KeyChain(section_node, key_node, sn) /\ key_node[n].key = k
  BY DEF FindSection, FindKey, KeyChain
<1>4. after = [key_node EXCEPT ![n].str = v]
  BY <1>1, <1>2
<1>5. KeyWritten(ini_sections, section_node, key_node, ini_sections, section_node, after, section_node[sn].section, key_node[n].key, v)
  BY <1>3, <1>4, KeySet DEF IniInv
<1> QED
  BY <1>2, <1>3, <1>5 DEF SetKey

\* A key is unlinked, and its value gone.
LEMMA DeleteKeyStep ==
  ASSUME IniInv, NEW s \in IniSections, NEW k \in IniKeys, DeleteKey(s, k)
  PROVE  KeyDropped(ini_sections, section_node, key_node, ini_sections', section_node', key_node', s, k)
<1>0. PICK sn \in FindSection(s) : \E n \in FindKey(sn, k) :
        /\ key_node' = [Unlinked(key_node, n) EXCEPT ![n] = FreedKey]
        /\ section_node' = [section_node EXCEPT ![sn].keys = FirstWithout(@, key_node, n)]
  BY DEF DeleteKey
<1>1. PICK n \in FindKey(sn, k) :
        /\ key_node' = [Unlinked(key_node, n) EXCEPT ![n] = FreedKey]
        /\ section_node' = [section_node EXCEPT ![sn].keys = FirstWithout(@, key_node, n)]
  BY <1>0
<1>2. PICK after, later, head : /\ after = key_node' /\ later = section_node'
                                /\ head = FirstWithout(section_node[sn].keys, key_node, n)
  OBVIOUS
<1>3. /\ sn \in Chain(section_node, ini_sections) /\ section_node[sn].section = s
      /\ n \in KeyChain(section_node, key_node, sn) /\ key_node[n].key = k
  BY DEF FindSection, FindKey, KeyChain
<1>4. after = [Unlinked(key_node, n) EXCEPT ![n] = FreedKey]
  BY <1>1, <1>2
<1>5. later = [section_node EXCEPT ![sn].keys = head]
  BY <1>1, <1>2
<1>6. KeyDropped(ini_sections, section_node, key_node, ini_sections, later, after, section_node[sn].section, key_node[n].key)
  BY <1>2, <1>3, <1>4, <1>5, KeyDeleted DEF IniInv
<1> QED
  BY <1>2, <1>3, <1>6 DEF DeleteKey

\* A section is unlinked, and all its keys gone.
LEMMA DeleteSectionStep ==
  ASSUME IniInv, NEW s \in IniSections, DeleteSection(s)
  PROVE  SectionGone(ini_sections, section_node, key_node, ini_sections', section_node', key_node', s)
<1>1. PICK n \in FindSection(s) :
        /\ key_node' = [m \in 1 .. KeyNodes |->
                          IF m \in Chain(key_node, section_node[n].keys) THEN FreedKey ELSE key_node[m]]
        /\ section_node' = [Unlinked(section_node, n) EXCEPT ![n] = FreedSection]
        /\ ini_sections' = FirstWithout(ini_sections, section_node, n)
  BY DEF DeleteSection
<1>2. PICK after, keys, head : after = section_node' /\ keys = key_node' /\ head = ini_sections'
  OBVIOUS
<1>3. n \in Chain(section_node, ini_sections) /\ section_node[n].section = s
  BY DEF FindSection
<1>4. /\ after = [Unlinked(section_node, n) EXCEPT ![n] = FreedSection]
      /\ head = FirstWithout(ini_sections, section_node, n)
      /\ keys = [m \in 1 .. KeyNodes |->
                   IF m \in Chain(key_node, section_node[n].keys) THEN FreedKey ELSE key_node[m]]
  BY <1>1, <1>2
<1>5. SectionGone(ini_sections, section_node, key_node, head, after, keys, section_node[n].section)
  BY <1>3, <1>4, SectionDeleted DEF IniInv
<1> QED
  BY <1>2, <1>3, <1>5

-----------------------------------------------------------------------------
\* What a step is to the lists: nothing is read otherwise, a section is gone, or one key
\* has a string, or none.
LEMMA StepIs ==
  ASSUME IniInv, IniNext
  PROVE  /\ Sound(ini_sections', section_node', key_node')
         /\ \/ \A t, k : KeyKept(ini_sections, section_node, key_node, ini_sections', section_node', key_node', t, k)
            \/ \E s \in IniSections :
                 SectionGone(ini_sections, section_node, key_node, ini_sections', section_node', key_node', s)
            \/ \E s \in IniSections, k \in IniKeys, v \in IniValues \cup {NoText} :
                 KeyWritten(ini_sections, section_node, key_node, ini_sections', section_node', key_node', s, k, v)
            \/ \E s \in IniSections, k \in IniKeys :
                 KeyDropped(ini_sections, section_node, key_node, ini_sections', section_node', key_node', s, k)
<1>1. PICK s \in IniSections : \/ AddSection(s)
                               \/ DeleteSection(s)
                               \/ \E k \in IniKeys : WriteString(s, k) \/ DeleteKey(s, k)
  BY DEF IniNext
<1>2. CASE AddSection(s)
  BY <1>2, AddSectionStep
<1>3. CASE DeleteSection(s)
  BY <1>3, DeleteSectionStep DEF SectionGone
<1>4. ASSUME NEW k \in IniKeys, DeleteKey(s, k)
      PROVE  KeyDropped(ini_sections, section_node, key_node, ini_sections', section_node', key_node', s, k)
  BY <1>4, DeleteKeyStep
<1>5. ASSUME NEW k \in IniKeys, WriteString(s, k)
      PROVE  \E v \in IniValues \cup {NoText} :
               KeyWritten(ini_sections, section_node, key_node, ini_sections', section_node', key_node', s, k, v)
  <2>1. ASSUME NEW v \in IniValues, AddBoth(s, k, v)
        PROVE  KeyWritten(ini_sections, section_node, key_node, ini_sections', section_node', key_node', s, k, v)
    BY <2>1, AddBothStep
  <2>2. ASSUME NEW v \in IniValues, AddKey(s, k, v)
        PROVE  KeyWritten(ini_sections, section_node, key_node, ini_sections', section_node', key_node', s, k, v)
    BY <2>2, AddKeyStep
  <2>3. ASSUME NEW v \in IniValues \cup {NoText}, SetKey(s, k, v)
        PROVE  KeyWritten(ini_sections, section_node, key_node, ini_sections', section_node', key_node', s, k, v)
    BY <2>3, SetKeyStep
  <2> QED
    BY <1>5, <2>1, <2>2, <2>3 DEF WriteString
<1>6. CASE \E k \in IniKeys : WriteString(s, k) \/ DeleteKey(s, k)
  BY <1>4, <1>5, <1>6 DEF KeyWritten, KeyDropped
<1> QED
  BY <1>1, <1>2, <1>3, <1>6

-----------------------------------------------------------------------------
\* No lists at all are sound, and nothing is read of them.
LEMMA IniInvInit == IniInit => IniInv /\ \A s, k : Lacks(ini_sections, section_node, key_node, s, k)
<1> SUFFICES ASSUME IniInit
             PROVE  IniInv /\ \A s, k : Lacks(ini_sections, section_node, key_node, s, k)
  OBVIOUS
<1>1. /\ section_node \in [1 .. SectionNodes -> SectionRecords] /\ key_node \in [1 .. KeyNodes -> KeyRecords]
      /\ ini_sections = 0 /\ 0 \in 0 .. SectionNodes
      /\ \A n \in 1 .. SectionNodes : section_node[n] = FreedSection
      /\ \A n \in 1 .. KeyNodes : key_node[n] = FreedKey
  <2>1. FreedSection \in SectionRecords /\ FreedKey \in KeyRecords
    BY Bounds DEF FreedSection, FreedKey, SectionRecords, KeyRecords
  <2> QED
    BY <2>1, Bounds DEF IniInit
<1>2. Chain(section_node, ini_sections) = {}
  BY <1>1, NodesLink, ChainFacts
<1>3. IsList(section_node, ini_sections)
  BY <1>1, <1>2 DEF IsList, MirrorLinks
<1>4. SoundSections(ini_sections, section_node)
  BY <1>1, <1>2, <1>3 DEF SoundSections
<1>5. SoundKeys({}, section_node, key_node)
  BY <1>1 DEF SoundKeys
<1> QED
  BY <1>2, <1>4, <1>5 DEF IniInv, Sound, Lacks, Reads

\* Every write keeps both levels of lists sound.
LEMMA IniInvStep == IniInv /\ [IniNext]_iniVars => IniInv'
<1>1. ASSUME IniInv, IniNext
      PROVE  IniInv'
  BY <1>1, StepIs DEF IniInv
<1>2. ASSUME IniInv, UNCHANGED iniVars
      PROVE  IniInv'
  <2>1. ini_sections' = ini_sections /\ section_node' = section_node /\ key_node' = key_node
    BY <1>2 DEF iniVars
  <2> QED
    BY <1>2, <2>1 DEF IniInv
<1> QED
  BY <1>1, <1>2

\* The lists stay sound.
THEOREM IniSound == IniSpec => []IniInv
BY IniInvInit, IniInvStep, PTL DEF IniSpec

\* Sound lists have the types.
LEMMA IniTypesHold == IniInv => IniTypeOK
BY DEF IniInv, Sound, SoundSections, SoundKeys, SectionRecords, KeyRecords, IniTypeOK

\* The settings in memory are typed as IniTypeOK says.
THEOREM IniTypes == IniSpec => []IniTypeOK
BY IniSound, IniTypesHold, PTL

-----------------------------------------------------------------------------
\* Sound lists are well formed.
LEMMA WellFormed == IniInv => ListsWellFormed
<1> SUFFICES ASSUME IniInv
             PROVE  ListsWellFormed
  OBVIOUS
<1> DEFINE S == Chain(section_node, ini_sections)
           ChainOf(sn) == Chain(key_node, section_node[sn].keys)
<1>1. /\ MirrorLinks(section_node, ini_sections)
      /\ \A sn, tn \in S : section_node[sn].section = section_node[tn].section => sn = tn
      /\ \A sn \in S : MirrorLinks(key_node, section_node[sn].keys)
  BY DEF IniInv, Sound, SoundSections, SoundKeys, IsList
<1>2. S = (1 .. SectionNodes) \ FreeSections
  BY FreeNodes, SoundFacts DEF IniInv
<1>3. \A sn \in S : ChainOf(sn) \subseteq 1 .. KeyNodes
  BY SoundFacts DEF IniInv, KeyChain
<1>4. /\ \A sn, tn \in S, n \in 1 .. KeyNodes : n \in ChainOf(sn) /\ n \in ChainOf(tn) => sn = tn
      /\ \A sn \in S : \A n \in ChainOf(sn) : key_node[n].key \in IniKeys
      /\ \A n \in 1 .. KeyNodes : (\A sn \in S : n \notin ChainOf(sn)) => key_node[n] = FreedKey
  BY DEF IniInv, Sound, SoundKeys, KeyChain
<1>5. FreedKey.key \notin IniKeys
  BY IniAssumption DEF FreedKey
<1> HIDE DEF S, ChainOf
<1>6. UNION {ChainOf(sn) : sn \in S} = (1 .. KeyNodes) \ FreeKeys
  <2>1. \A n : n \in UNION {ChainOf(sn) : sn \in S} <=> \E sn \in S : n \in ChainOf(sn)
    OBVIOUS
  <2>2. ASSUME NEW n, NEW sn \in S, n \in ChainOf(sn)
        PROVE  n \in (1 .. KeyNodes) \ FreeKeys
    <3>1. n \in 1 .. KeyNodes /\ key_node[n].key \in IniKeys
      BY <1>3, <1>4, <2>2
    <3> QED
      BY <1>5, <3>1 DEF FreeKeys
  <2>3. ASSUME NEW n \in (1 .. KeyNodes) \ FreeKeys
        PROVE  \E sn \in S : n \in ChainOf(sn)
    BY <1>4 DEF FreeKeys
  <2> QED
    BY <2>1, <2>2, <2>3
<1>7. \A sn, tn \in S : sn # tn => ChainOf(sn) \cap ChainOf(tn) = {}
  BY <1>3, <1>4
<1> QED
  BY <1>1, <1>2, <1>6, <1>7 DEF ListsWellFormed, S, ChainOf

\* Reading finds what a map would hold.
ReadsLikeMap == ReadAs(ini_sections, section_node, key_node, Contents)

\* Sound lists are read as a map.
LEMMA ReadsMap == IniInv => ReadsLikeMap
BY ContentsAre DEF ReadsLikeMap

\* At first there are no values.
LEMMA MapInit == IniInit => Map!Init
<1> SUFFICES ASSUME IniInit
             PROVE  Map!Init
  OBVIOUS
<1>1. ReadAs(ini_sections, section_node, key_node, Contents)
  BY IniInvInit, ContentsAre
<1>2. \A s \in IniSections, k \in IniKeys : Contents[s][k] = NoText
  BY <1>1, IniInvInit DEF ReadAs
<1>3. Contents = [s \in IniSections |-> [k \in IniKeys |-> Contents[s][k]]]
  BY <1>1 DEF ReadAs
<1> QED
  BY <1>2, <1>3 DEF Map!Init

\* Every step of the lists is a step of the map, or none.
LEMMA MapNext == IniInv /\ ReadsLikeMap /\ ReadsLikeMap' /\ [IniNext]_iniVars => [Map!Next]_Contents
<1> SUFFICES ASSUME IniInv, ReadsLikeMap, ReadsLikeMap', [IniNext]_iniVars
             PROVE  [Map!Next]_Contents
  OBVIOUS
<1>1. PICK old, new, first2, snode2, knode2 :
        /\ old = Contents /\ new = Contents'
        /\ first2 = ini_sections' /\ snode2 = section_node' /\ knode2 = key_node'
  OBVIOUS
<1>2. ReadAs(ini_sections, section_node, key_node, old) /\ ReadAs(first2, snode2, knode2, new)
  BY <1>1 DEF ReadsLikeMap
<1>3. CASE UNCHANGED iniVars
  <2>1. Contents' = Contents
    BY <1>3 DEF iniVars, Contents, Chain, Closed
  <2> QED
    BY <2>1
<1>4. CASE IniNext
  <2>1. \/ \A t, k : KeyKept(ini_sections, section_node, key_node, first2, snode2, knode2, t, k)
        \/ \E s \in IniSections : SectionGone(ini_sections, section_node, key_node, first2, snode2, knode2, s)
        \/ \E s \in IniSections, k \in IniKeys, v \in IniValues \cup {NoText} :
             KeyWritten(ini_sections, section_node, key_node, first2, snode2, knode2, s, k, v)
        \/ \E s \in IniSections, k \in IniKeys :
             KeyDropped(ini_sections, section_node, key_node, first2, snode2, knode2, s, k)
    BY <1>1, <1>4, StepIs
  <2>2. \/ new = old
        \/ \E s \in IniSections : new = [old EXCEPT ![s] = [k \in IniKeys |-> NoText]]
        \/ \E s \in IniSections, k \in IniKeys, v \in IniValues \cup {NoText} : new = [old EXCEPT ![s][k] = v]
    BY <1>2, <2>1, MapSteps, SMTT(60)
  <2>3. new = old \/ Map!Written(old, new)
    BY <2>2 DEF Map!Written
  <2> QED
    BY <1>1, <2>3 DEF Map!Next
<1> QED
  BY <1>3, <1>4

\* What is written is read, and the lists stay well formed.
LEMMA WrittenIsRead ==
  IniInv /\ ReadsLikeMap /\ ReadsLikeMap' /\ ListsWellFormed' /\ [IniNext]_iniVars
  => [iniVars' # iniVars =>
        /\ ListsWellFormed'
        /\ \A s \in IniSections, k \in IniKeys, v \in IniValues :
             AddBoth(s, k, v) \/ AddKey(s, k, v) \/ SetKey(s, k, v) => Contents'[s][k] = v]_iniVars
<1> SUFFICES ASSUME IniInv, ReadsLikeMap, ReadsLikeMap', NEW s \in IniSections, NEW k \in IniKeys, NEW v \in IniValues,
                    AddBoth(s, k, v) \/ AddKey(s, k, v) \/ SetKey(s, k, v)
             PROVE  Contents'[s][k] = v
  OBVIOUS
<1>1. PICK old, new, first2, snode2, knode2 :
        /\ old = Contents /\ new = Contents'
        /\ first2 = ini_sections' /\ snode2 = section_node' /\ knode2 = key_node'
  OBVIOUS
<1>2. ReadAs(ini_sections, section_node, key_node, old) /\ ReadAs(first2, snode2, knode2, new)
  BY <1>1 DEF ReadsLikeMap
<1>3. KeyWritten(ini_sections, section_node, key_node, ini_sections', section_node', key_node', s, k, v)
  BY AddBothStep, AddKeyStep, SetKeyStep
<1>4. new[s][k] = v
  BY <1>1, <1>2, <1>3, MapSteps
<1> QED
  BY <1>1, <1>4

\* The lists of the settings in memory implement a map, whatever was added, deleted and
\* lost for want of memory before.
THEOREM IniMap == IniSpec => IniIsMap
<1>1. IniSpec => Map!Spec
  BY IniSound, ReadsMap, MapInit, MapNext, PTL DEF IniSpec, Map!Spec
<1>2. IniSpec => [][iniVars' # iniVars =>
        /\ ListsWellFormed'
        /\ \A s \in IniSections, k \in IniKeys, v \in IniValues :
             AddBoth(s, k, v) \/ AddKey(s, k, v) \/ SetKey(s, k, v) => Contents'[s][k] = v]_iniVars
  BY IniSound, ReadsMap, WellFormed, WrittenIsRead, PTL DEF IniSpec
<1> QED
  BY <1>1, <1>2, PTL DEF IniIsMap

-----------------------------------------------------------------------------
(***************************************************************************)
(* The tables of entries.  What holds of one table is stated of any table, *)
(* entry, with the names N in it, the places D and the sections there are; *)
(* Server and Channel instantiate it.                                      *)
(***************************************************************************)
Table(entry, sections, D, N) ==
  /\ D \subseteq Nat
  /\ NoEntry \notin N
  /\ entry \in [D -> N \cup {NoEntry}]
  /\ sections \subseteq N

NamesIn(entry) == {entry[i] : i \in DOMAIN entry}

\* A set of places has a first one.
LEMMA FirstExists ==
  ASSUME NEW S \in SUBSET Nat, S # {}
  PROVE  FirstOf(S) # {}
<1>1. \E i \in S : \A j \in S : ~(<<j, i>> \in OpToRel(<, Nat))
  BY NatLessThanWellFounded, WFMin
<1>2. \A i, j \in S : <<j, i>> \notin OpToRel(<, Nat) => i <= j
  BY DEF OpToRel
<1> QED
  BY <1>1, <1>2 DEF FirstOf

\* And only one.
LEMMA FirstUnique ==
  ASSUME NEW S \in SUBSET Nat, NEW i \in FirstOf(S), NEW j \in FirstOf(S)
  PROVE  i = j
BY DEF FirstOf

-----------------------------------------------------------------------------
\* Where an entry is put: a place of its new name, of the name it had, or a free one.
LEMMA PlaceFacts ==
  ASSUME NEW entry, NEW sections, NEW D, NEW N, Table(entry, sections, D, N),
         NEW new \in N, NEW old \in N \cup {NoEntry}
  PROVE  /\ PlaceFor(entry, new, old) \subseteq D
         /\ \A i \in PlaceFor(entry, new, old) : entry[i] \in {new, old, NoEntry}
         /\ \A i, j \in PlaceFor(entry, new, old) : i = j
         /\ PlaceFor(entry, new, old) = {} => new \notin NamesIn(entry) /\ (old \in NamesIn(entry) => old = NoEntry)
<1> DEFINE named == PlacesOf(entry, new) \cup (IF old = NoEntry THEN {} ELSE PlacesOf(entry, old))
           S == IF named # {} THEN named ELSE PlacesOf(entry, NoEntry)
<1>1. PlaceFor(entry, new, old) = FirstOf(S)
  BY DEF PlaceFor
<1>2. DOMAIN entry = D /\ S \in SUBSET D /\ S \in SUBSET Nat
  BY DEF Table, PlacesOf
<1>3. \A i \in S : entry[i] \in {new, old, NoEntry}
  BY DEF PlacesOf
<1>4. FirstOf(S) \subseteq S
  BY DEF FirstOf
<1>5. \A i, j \in FirstOf(S) : i = j
  BY <1>2, FirstUnique
<1>6. FirstOf(S) = {} => named = {}
  BY <1>2, FirstExists
<1>7. named = {} => new \notin NamesIn(entry) /\ (old \in NamesIn(entry) => old = NoEntry)
  BY DEF PlacesOf, NamesIn
<1> QED
  BY <1>1, <1>2, <1>3, <1>4, <1>5, <1>6, <1>7

\* A name put into a table leaves it a table.
LEMMA PutTable ==
  ASSUME NEW entry, NEW sections, NEW D, NEW N, Table(entry, sections, D, N),
         NEW new \in N, NEW old \in N \cup {NoEntry}
  PROVE  Table(EntryPut(entry, new, old), SectionsPut(entry, sections, new, old), D, N)
BY DEF Table, EntryPut, SectionsPut

\* Saving shows the new name, hides the old one, and no other; a full table is unchanged.
LEMMA PutRows ==
  ASSUME NEW entry, NEW sections, NEW D, NEW N, Table(entry, sections, D, N),
         NEW new \in N, NEW old \in N \cup {NoEntry},
         sections \subseteq NamesIn(entry)
  PROVE  LET entries == EntryPut(entry, new, old)
             left == SectionsPut(entry, sections, new, old)
             place == PlaceFor(entry, new, old)
         IN /\ left \subseteq NamesIn(entries)
            /\ place # {} => left = (sections \ {old}) \cup {new}
            /\ place = {} => entries = entry /\ left = sections
<1> DEFINE entries == EntryPut(entry, new, old)
           left == SectionsPut(entry, sections, new, old)
           place == PlaceFor(entry, new, old)
<1>1. /\ DOMAIN entry = D /\ DOMAIN entries = D
      /\ \A i \in D : entries[i] = IF i \in place THEN new ELSE entry[i]
  BY DEF Table, EntryPut
<1>2. old \notin NamesIn(entry) => old \notin sections
  OBVIOUS
<1>3. PlacesOf(entry, old) # {} <=> old \in NamesIn(entry)
  BY DEF PlacesOf, NamesIn
<1>4. NoEntry \notin sections
  BY DEF Table
<1>5. CASE place = {}
  <2>1. left = sections
    BY <1>2, <1>3, <1>4, <1>5, PlaceFacts DEF SectionsPut
  <2>2. entries = entry
    BY <1>1, <1>5 DEF Table, EntryPut
  <2> QED
    BY <1>5, <2>1, <2>2
<1>6. CASE place # {}
  <2>1. left = (sections \ {old}) \cup {new}
    BY <1>2, <1>3, <1>6 DEF SectionsPut
  <2>2. new \in NamesIn(entries)
    BY <1>1, <1>6, PlaceFacts DEF NamesIn
  <2>3. ASSUME NEW s \in sections, s # old, s # new PROVE s \in NamesIn(entries)
    <3>1. PICK i \in D : entry[i] = s
      BY <1>1 DEF NamesIn
    <3>2. i \notin place
      BY <1>4, <2>3, <3>1, PlaceFacts
    <3> QED
      BY <1>1, <3>1, <3>2 DEF NamesIn
  <2> QED
    BY <1>6, <2>1, <2>2, <2>3
<1> QED
  BY <1>5, <1>6

\* Saving keeps a tidy table tidy, unless an entry is renamed to another one.
LEMMA PutTidy ==
  ASSUME NEW entry, NEW sections, NEW D, NEW N, Table(entry, sections, D, N),
         NEW new \in N, NEW old \in N \cup {NoEntry},
         Tidy(entry, sections), ~Clash(entry, new, old)
  PROVE  Tidy(EntryPut(entry, new, old), SectionsPut(entry, sections, new, old))
<1> DEFINE entries == EntryPut(entry, new, old)
           left == SectionsPut(entry, sections, new, old)
           place == PlaceFor(entry, new, old)
<1>1. /\ DOMAIN entry = D /\ DOMAIN entries = D /\ D \subseteq Nat
      /\ \A i \in D : entries[i] = IF i \in place THEN new ELSE entry[i]
  BY DEF Table, EntryPut
<1>2. \A i, j \in D : entry[i] = entry[j] /\ entry[i] # NoEntry => i = j
  BY <1>1 DEF Tidy
<1>3. old \notin {NoEntry, new} => new \notin NamesIn(entry)
  BY DEF Clash, NamesIn
<1>4. new # NoEntry
  BY DEF Table
<1> DEFINE named == PlacesOf(entry, new) \cup (IF old = NoEntry THEN {} ELSE PlacesOf(entry, old))
\* The names sought stand in one place at most.
<1>5. \A i, j \in named : i = j
  BY <1>1, <1>2, <1>3, <1>4 DEF PlacesOf, NamesIn
<1>6. named \in SUBSET Nat
  BY <1>1 DEF PlacesOf
<1>7. named # {} => place = named
  BY <1>5, <1>6 DEF PlaceFor, FirstOf
<1>8. \A i \in D \ place : entry[i] # new /\ (entry[i] = old => old = NoEntry)
  <2>1. CASE named # {}
    BY <1>1, <1>7, <2>1 DEF PlacesOf
  <2>2. CASE named = {}
    BY <1>1, <2>2 DEF PlacesOf
  <2> QED
    BY <2>1, <2>2
<1>9. \A i, j \in D : entries[i] = entries[j] /\ entries[i] # NoEntry => i = j
  BY <1>1, <1>2, <1>8, PlaceFacts
<1>10. \A i \in D : entries[i] \in left \cup {NoEntry}
  <2> SUFFICES ASSUME NEW i \in D PROVE entries[i] \in left \cup {NoEntry}
    OBVIOUS
  <2>1. CASE i \in place
    BY <1>1, <2>1 DEF SectionsPut
  <2>2. CASE i \notin place
    <3>1. entry[i] \in sections \cup {NoEntry}
      BY <1>1 DEF Tidy
    <3>2. entry[i] # NoEntry => entry[i] \in left
      BY <1>8, <2>2, <3>1 DEF SectionsPut
    <3> QED
      BY <1>1, <2>2, <3>2
  <2> QED
    BY <2>1, <2>2
<1> QED
  BY <1>1, <1>9, <1>10, ZenonT(60) DEF Tidy

-----------------------------------------------------------------------------
\* Names cleared from a table leave the others.
LEMMA ClearedFacts ==
  ASSUME NEW entry, NEW sections, NEW D, NEW N, Table(entry, sections, D, N),
         NEW name \in N, NEW rows, NEW limit
  PROVE  /\ Table(Cleared(entry, name, rows, limit), sections \ {name}, D, N)
         /\ \A i \in D : \/ Cleared(entry, name, rows, limit)[i] = entry[i]
                         \/ entry[i] = name /\ Cleared(entry, name, rows, limit)[i] = NoEntry
         /\ sections \subseteq NamesIn(entry) =>
              sections \ {name} \subseteq NamesIn(Cleared(entry, name, rows, limit))
<1>1. /\ DOMAIN entry = D
      /\ Cleared(entry, name, rows, limit) \in [D -> N \cup {NoEntry}]
      /\ \A i \in D : \/ Cleared(entry, name, rows, limit)[i] = entry[i]
                      \/ entry[i] = name /\ Cleared(entry, name, rows, limit)[i] = NoEntry
  BY DEF Table, Cleared, PlacesOf
<1>2. sections \subseteq NamesIn(entry) =>
        sections \ {name} \subseteq NamesIn(Cleared(entry, name, rows, limit))
  BY <1>1 DEF NamesIn
<1> QED
  BY <1>1, <1>2 DEF Table

\* Deleting keeps a tidy table tidy, if the places of the name are below the limit.
LEMMA ClearedTidy ==
  ASSUME NEW entry, NEW sections, NEW D, NEW N, Table(entry, sections, D, N),
         NEW name \in N, NEW rows \in Nat \ {0}, NEW limit \in Nat,
         Tidy(entry, sections), \A i \in PlacesOf(entry, name) : ~(i >= limit)
  PROVE  Tidy(Cleared(entry, name, rows, limit), sections \ {name})
<1> DEFINE places == {i \in PlacesOf(entry, name) : i < limit}
           cleared == Cleared(entry, name, rows, limit)
<1>1. DOMAIN entry = D /\ DOMAIN cleared = D /\ D \subseteq Nat /\ name # NoEntry
  BY DEF Table, Cleared
<1>2. \A i \in D : entry[i] = name => i \in places
  BY <1>1 DEF PlacesOf
<1>3. \A i, j \in places : i = j
  BY <1>1 DEF PlacesOf, Tidy
<1>4. \A i \in places : {j \in places : j < i} = {}
  <2>1. \A i \in places : i \in Nat
    BY <1>1 DEF PlacesOf
  <2>2. \A i, j \in places : ~(j < i)
    BY <1>3, <2>1
  <2> QED
    BY <2>2
<1>5. \A i \in D : entry[i] = name => cleared[i] = NoEntry
  <2> SUFFICES ASSUME NEW i \in D, entry[i] = name PROVE cleared[i] = NoEntry
    OBVIOUS
  <2>1. i \in places /\ Cardinality({j \in places : j < i}) = 0
    BY <1>2, <1>4, FS_EmptySet
  <2>2. Cardinality({j \in places : j < i}) < rows
    BY <2>1
  <2>3. cleared[i] = IF i \in places /\ Cardinality({j \in places : j < i}) < rows
                     THEN NoEntry ELSE entry[i]
    BY <1>1 DEF Cleared
  <2> QED
    BY <2>1, <2>2, <2>3
<1>6. \A i \in D : cleared[i] = entry[i] \/ cleared[i] = NoEntry
  BY <1>1 DEF Cleared
<1> QED
  BY <1>1, <1>5, <1>6 DEF Tidy

-----------------------------------------------------------------------------
\* The two tables.
ServerPlaces == 0 .. MAX_SERVERS - 1
ChannelPlaces == 0 .. MAX_CHANNELS - 1
Channels == ChannelNetworks \X ChannelNames

ServerTable == Table(server_entry, server_sections, ServerPlaces, ServerNames)
ChannelTable == Table(channel_entry, channel_sections, ChannelPlaces, Channels)

\* The types of both dialogs are those of a table each.
LEMMA TypesAreTables ==
  EntriesTypeOK <=> /\ ServerTable
                    /\ ChannelTable
                    /\ entry_clash \in BOOLEAN /\ deleted_beyond \in BOOLEAN
BY EntriesAssumption
   DEF EntriesTypeOK, ServerTable, ChannelTable, Table, ServerPlaces, ChannelPlaces, Channels

\* No section is without its entry.
SectionsNamed ==
  /\ server_sections \subseteq NamesIn(server_entry)
  /\ channel_sections \subseteq NamesIn(channel_entry)

EntriesInv == EntriesTypeOK /\ SectionsNamed /\ EntriesInUse

\* A channel's old name, as SaveChannel looks for it.
OldName(network, oldChannel) == IF oldChannel = NoEntry THEN NoEntry ELSE <<network, oldChannel>>

\* Both tables begin empty.
LEMMA EntriesInvInit == EntriesInit => EntriesInv
<1> SUFFICES ASSUME EntriesInit PROVE EntriesInv
  OBVIOUS
<1>1. EntriesTypeOK
  BY EntriesAssumption DEF EntriesInit, EntriesTypeOK
<1>2. SectionsNamed /\ EntriesInUse
  BY DEF EntriesInit, SectionsNamed, EntriesInUse, Tidy
<1> QED
  BY <1>1, <1>2 DEF EntriesInv

\* Saving in the dialog of servers.
LEMMA SaveServerStep ==
  ASSUME EntriesInv, NEW new \in ServerNames, NEW old \in ServerNames \cup {NoEntry}, SaveServer(new, old)
  PROVE  EntriesInv'
<1>1. /\ ServerTable /\ ChannelTable
      /\ UNCHANGED <<channel_entry, channel_sections, deleted_beyond>>
      /\ server_entry' = EntryPut(server_entry, new, old)
      /\ server_sections' = SectionsPut(server_entry, server_sections, new, old)
      /\ entry_clash' = (entry_clash \/ Clash(server_entry, new, old))
  BY TypesAreTables DEF SaveServer, channelTable, EntriesInv
<1>2. ServerTable' /\ ChannelTable'
  BY <1>1, PutTable, ZenonT(60) DEF ServerTable, ChannelTable, Table
<1>3. EntriesTypeOK'
  BY <1>1, <1>2, TypesAreTables DEF EntriesTypeOK, EntriesInv, ServerTable, ChannelTable, Table,
       ServerPlaces, ChannelPlaces, Channels
<1>4. SectionsNamed'
  BY <1>1, PutRows DEF SectionsNamed, EntriesInv, ServerTable, NamesIn
<1>5. EntriesInUse'
  <2> SUFFICES ASSUME ~entry_clash'
               PROVE  /\ Tidy(server_entry, server_sections)'
                      /\ deleted_beyond \/ Tidy(channel_entry, channel_sections)'
    BY <1>1 DEF EntriesInUse, Tidy
  <2>1. /\ ~Clash(server_entry, new, old)
        /\ Tidy(server_entry, server_sections)
        /\ deleted_beyond \/ Tidy(channel_entry, channel_sections)
    BY <1>1 DEF EntriesInUse, EntriesInv
  <2>2. Tidy(EntryPut(server_entry, new, old), SectionsPut(server_entry, server_sections, new, old))
    BY <1>1, <2>1, PutTidy DEF ServerTable
  <2> QED
    BY <1>1, <2>1, <2>2 DEF Tidy
<1> QED
  BY <1>3, <1>4, <1>5 DEF EntriesInv

\* Saving in the dialog of channels.
LEMMA SaveChannelStep ==
  ASSUME EntriesInv, NEW network \in ChannelNetworks, NEW channel \in ChannelNames,
         NEW oldChannel \in ChannelNames \cup {NoEntry}, SaveChannel(network, channel, oldChannel)
  PROVE  EntriesInv'
<1> DEFINE new == <<network, channel>>
           old == OldName(network, oldChannel)
<1>1. /\ ServerTable /\ ChannelTable
      /\ UNCHANGED <<server_entry, server_sections, deleted_beyond>>
      /\ channel_entry' = EntryPut(channel_entry, new, old)
      /\ channel_sections' = SectionsPut(channel_entry, channel_sections, new, old)
      /\ entry_clash' = (entry_clash \/ Clash(channel_entry, new, old))
  BY TypesAreTables DEF SaveChannel, OldName, serverTable, EntriesInv
<1>2. new \in Channels /\ old \in Channels \cup {NoEntry}
  BY DEF Channels, OldName
<1> HIDE DEF new, old
<1>3. ServerTable' /\ ChannelTable'
  BY <1>1, <1>2, PutTable, ZenonT(60) DEF ServerTable, ChannelTable, Table
<1>4. EntriesTypeOK'
  BY <1>1, <1>3 DEF EntriesTypeOK, EntriesInv, ServerTable, ChannelTable, Table,
       ServerPlaces, ChannelPlaces, Channels
<1>5. SectionsNamed'
  BY <1>1, <1>2, PutRows DEF SectionsNamed, EntriesInv, ChannelTable, NamesIn
<1>6. EntriesInUse'
  <2> SUFFICES ASSUME ~entry_clash'
               PROVE  /\ Tidy(server_entry, server_sections)'
                      /\ deleted_beyond \/ Tidy(channel_entry, channel_sections)'
    BY <1>1 DEF EntriesInUse, Tidy
  <2>1. /\ ~Clash(channel_entry, new, old)
        /\ Tidy(server_entry, server_sections)
        /\ deleted_beyond \/ Tidy(channel_entry, channel_sections)
    BY <1>1 DEF EntriesInUse, EntriesInv
  <2>2. deleted_beyond \/
        Tidy(EntryPut(channel_entry, new, old), SectionsPut(channel_entry, channel_sections, new, old))
    BY <1>1, <1>2, <2>1, PutTidy DEF ChannelTable
  <2> QED
    BY <1>1, <2>1, <2>2 DEF Tidy
<1> QED
  BY <1>4, <1>5, <1>6 DEF EntriesInv

\* Deleting in the dialog of servers.
LEMMA DeleteServerStep ==
  ASSUME EntriesInv, NEW name \in ServerNames, NEW rows \in 1 .. MAX_SERVERS, DeleteServer(name, rows)
  PROVE  EntriesInv'
<1>1. /\ ServerTable /\ ChannelTable
      /\ UNCHANGED <<channel_entry, channel_sections, entry_clash, deleted_beyond>>
      /\ server_entry' = Cleared(server_entry, name, rows, MAX_SERVERS)
      /\ server_sections' = server_sections \ {name}
  BY TypesAreTables DEF DeleteServer, channelTable, EntriesInv
<1>2. ServerTable' /\ ChannelTable'
  BY <1>1, ClearedFacts DEF ServerTable, ChannelTable, Table
<1>3. EntriesTypeOK'
  BY <1>1, <1>2 DEF EntriesTypeOK, EntriesInv, ServerTable, ChannelTable, Table,
       ServerPlaces, ChannelPlaces, Channels
<1>4. SectionsNamed'
  <2>1. server_sections \ {name} \subseteq NamesIn(Cleared(server_entry, name, rows, MAX_SERVERS))
    BY <1>1, ClearedFacts DEF SectionsNamed, EntriesInv, ServerTable
  <2> QED
    BY <1>1, <2>1 DEF SectionsNamed, EntriesInv, NamesIn
<1>5. \A i \in PlacesOf(server_entry, name) : ~(i >= MAX_SERVERS)
  BY <1>1, EntriesAssumption DEF PlacesOf, ServerTable, Table, ServerPlaces
<1>6. EntriesInUse'
  BY <1>1, <1>5, ClearedTidy, EntriesAssumption DEF EntriesInUse, EntriesInv, ServerTable, Tidy
<1> QED
  BY <1>3, <1>4, <1>6 DEF EntriesInv

\* Deleting in the dialog of channels.
LEMMA DeleteChannelStep ==
  ASSUME EntriesInv, NEW name \in Channels, NEW rows \in 1 .. MAX_CHANNELS, DeleteChannel(name, rows)
  PROVE  EntriesInv'
<1>1. /\ ServerTable /\ ChannelTable
      /\ UNCHANGED <<server_entry, server_sections, entry_clash>>
      /\ channel_entry' = Cleared(channel_entry, name, rows, MAX_SERVERS)
      /\ channel_sections' = channel_sections \ {name}
      /\ deleted_beyond' = (deleted_beyond \/ \E i \in PlacesOf(channel_entry, name) : i >= MAX_SERVERS)
  BY TypesAreTables DEF DeleteChannel, serverTable, EntriesInv
<1>2. ServerTable' /\ ChannelTable'
  BY <1>1, ClearedFacts DEF ServerTable, ChannelTable, Table
<1>3. EntriesTypeOK'
  BY <1>1, <1>2 DEF EntriesTypeOK, EntriesInv, ServerTable, ChannelTable, Table,
       ServerPlaces, ChannelPlaces, Channels
<1>4. SectionsNamed'
  <2>1. channel_sections \ {name} \subseteq NamesIn(Cleared(channel_entry, name, rows, MAX_SERVERS))
    BY <1>1, ClearedFacts DEF SectionsNamed, EntriesInv, ChannelTable
  <2> QED
    BY <1>1, <2>1 DEF SectionsNamed, EntriesInv, NamesIn
<1>5. EntriesInUse'
  <2> SUFFICES ASSUME ~entry_clash, ~deleted_beyond'
               PROVE  Tidy(server_entry, server_sections) /\ Tidy(channel_entry, channel_sections)'
    BY <1>1 DEF EntriesInUse, EntriesInv, Tidy
  <2>1. Tidy(server_entry, server_sections) /\ Tidy(channel_entry, channel_sections)
    BY <1>1 DEF EntriesInUse, EntriesInv
  <2>2. \A i \in PlacesOf(channel_entry, name) : ~(i >= MAX_SERVERS)
    BY <1>1
  <2>3. Tidy(Cleared(channel_entry, name, rows, MAX_SERVERS), channel_sections \ {name})
    BY <1>1, <2>1, <2>2, ClearedTidy, EntriesAssumption DEF ChannelTable
  <2> QED
    BY <1>1, <2>1, <2>3 DEF Tidy
<1> QED
  BY <1>3, <1>4, <1>5 DEF EntriesInv

\* Both dialogs keep the tables tidy.
LEMMA EntriesInvStep == EntriesInv /\ [ServerDialog \/ ChannelDialog]_entriesVars => EntriesInv'
<1> SUFFICES ASSUME EntriesInv, [ServerDialog \/ ChannelDialog]_entriesVars PROVE EntriesInv'
  OBVIOUS
<1>1. server_sections \subseteq ServerNames /\ channel_sections \subseteq Channels
  BY DEF EntriesInv, EntriesTypeOK, Channels
<1>2. Rows(server_entry, server_sections) \subseteq ServerNames
  BY <1>1 DEF Rows
<1>3. Rows(channel_entry, channel_sections) \subseteq Channels
  BY <1>1 DEF Rows
<1>4. {name[2] : name \in Rows(channel_entry, channel_sections)} \subseteq ChannelNames
  BY <1>3 DEF Channels
<1>5. CASE ServerDialog
  BY <1>2, <1>5, SaveServerStep, DeleteServerStep DEF ServerDialog
<1>6. CASE ChannelDialog
  BY <1>3, <1>4, <1>6, SaveChannelStep, DeleteChannelStep DEF ChannelDialog
<1>7. CASE UNCHANGED entriesVars
  BY <1>7 DEF entriesVars, serverTable, channelTable, EntriesInv, EntriesTypeOK, SectionsNamed,
       EntriesInUse, Tidy, NamesIn
<1> QED
  BY <1>5, <1>6, <1>7

\* So they are always.
LEMMA InvHolds == EntriesSpec => []EntriesInv
BY EntriesInvInit, EntriesInvStep, PTL DEF EntriesSpec

\* The tables hold names, and sections are named.
THEOREM EntriesTypes == EntriesSpec => []EntriesTypeOK
<1>1. EntriesInv => EntriesTypeOK
  BY DEF EntriesInv
<1> QED
  BY <1>1, InvHolds, PTL

\* Unless an entry was renamed to another one, each entry has its section and stands once.
THEOREM EntriesTidy == EntriesSpec => []EntriesInUse
<1>1. EntriesInv => EntriesInUse
  BY DEF EntriesInv
<1> QED
  BY <1>1, InvHolds, PTL

-----------------------------------------------------------------------------
\* The rows shown are the sections, as each has an entry.
LEMMA RowsAreSections ==
  ASSUME EntriesInv, EntriesInv'
  PROVE  /\ ServerRows = server_sections /\ ServerRows' = server_sections'
         /\ ChannelRows = channel_sections /\ ChannelRows' = channel_sections'
BY DEF EntriesInv, SectionsNamed, NamesIn, ServerRows, ChannelRows, Rows

\* What the dialog of servers does to the rows.
LEMMA ServerRowsKept ==
  ASSUME EntriesInv, EntriesInv', serverTable' # serverTable
  PROVE  /\ \A new \in ServerNames, old \in ServerRows \cup {NoEntry} :
              SaveServer(new, old) =>
                /\ PlaceFor(server_entry, new, old) # {}
                /\ ServerRows' = (ServerRows \ {old}) \cup {new}
         /\ \A name \in ServerRows, rows \in 1 .. MAX_SERVERS :
              DeleteServer(name, rows) => ServerRows' = ServerRows \ {name}
<1>1. ServerRows = server_sections /\ ServerRows' = server_sections'
  BY RowsAreSections
<1>2. /\ Table(server_entry, server_sections, ServerPlaces, ServerNames)
      /\ server_sections \subseteq ServerNames
      /\ server_sections \subseteq NamesIn(server_entry)
  BY TypesAreTables DEF EntriesInv, ServerTable, Table, SectionsNamed
<1>3. ASSUME NEW new \in ServerNames, NEW old \in ServerRows \cup {NoEntry}, SaveServer(new, old)
      PROVE  /\ PlaceFor(server_entry, new, old) # {}
             /\ ServerRows' = (ServerRows \ {old}) \cup {new}
  <2>1. old \in ServerNames \cup {NoEntry}
    BY <1>1, <1>2
  <2>2. /\ server_entry' = EntryPut(server_entry, new, old)
        /\ server_sections' = SectionsPut(server_entry, server_sections, new, old)
    BY <1>3 DEF SaveServer
  <2>3. PlaceFor(server_entry, new, old) # {}
    BY <1>2, <2>1, <2>2, PutRows DEF serverTable
  <2>4. server_sections' = (server_sections \ {old}) \cup {new}
    BY <1>2, <2>1, <2>2, <2>3, PutRows
  <2> QED
    BY <1>1, <2>3, <2>4
<1>4. ASSUME NEW name \in ServerRows, NEW rows \in 1 .. MAX_SERVERS, DeleteServer(name, rows)
      PROVE  ServerRows' = ServerRows \ {name}
  BY <1>1, <1>4 DEF DeleteServer
<1> QED
  BY <1>3, <1>4

\* What the dialog of channels does to the rows.
LEMMA ChannelRowsKept ==
  ASSUME EntriesInv, EntriesInv', channelTable' # channelTable
  PROVE  /\ \A network \in ChannelNetworks, channel \in ChannelNames, old \in ChannelNames \cup {NoEntry} :
              SaveChannel(network, channel, old) =>
                ChannelRows' = (ChannelRows \ {<<network, old>>}) \cup {<<network, channel>>}
         /\ \A name \in ChannelRows, rows \in 1 .. MAX_CHANNELS :
              DeleteChannel(name, rows) => ChannelRows' = ChannelRows \ {name}
<1>1. ChannelRows = channel_sections /\ ChannelRows' = channel_sections'
  BY RowsAreSections
<1>2. /\ Table(channel_entry, channel_sections, ChannelPlaces, Channels)
      /\ channel_sections \subseteq Channels
      /\ channel_sections \subseteq NamesIn(channel_entry)
  BY TypesAreTables DEF EntriesInv, ChannelTable, Table, SectionsNamed
<1>3. ASSUME NEW network \in ChannelNetworks, NEW channel \in ChannelNames,
             NEW old \in ChannelNames \cup {NoEntry}, SaveChannel(network, channel, old)
      PROVE  ChannelRows' = (ChannelRows \ {<<network, old>>}) \cup {<<network, channel>>}
  <2> DEFINE new == <<network, channel>>
             name == OldName(network, old)
  <2>1. new \in Channels /\ name \in Channels \cup {NoEntry}
    BY DEF Channels, OldName
  <2>2. /\ channel_entry' = EntryPut(channel_entry, new, name)
        /\ channel_sections' = SectionsPut(channel_entry, channel_sections, new, name)
    BY <1>3 DEF SaveChannel, OldName
  <2>3. channel_sections \ {<<network, old>>} = channel_sections \ {name}
    BY <1>2, EntriesAssumption DEF OldName, Channels
  <2> HIDE DEF new, name
  <2>4. PlaceFor(channel_entry, new, name) # {}
    BY <1>2, <2>1, <2>2, PutRows DEF channelTable
  <2>5. channel_sections' = (channel_sections \ {name}) \cup {new}
    BY <1>2, <2>1, <2>2, <2>4, PutRows
  <2> QED
    BY <1>1, <2>3, <2>5 DEF new
<1>4. ASSUME NEW name \in ChannelRows, NEW rows \in 1 .. MAX_CHANNELS, DeleteChannel(name, rows)
      PROVE  ChannelRows' = ChannelRows \ {name}
  BY <1>1, <1>4 DEF DeleteChannel
<1> QED
  BY <1>3, <1>4

\* Saving and deleting change the rows they are about and no other, in any table.
THEOREM RowsKept == EntriesSpec => RowsAreKept
<1> DEFINE Kept ==
      /\ serverTable' # serverTable =>
           /\ \A new \in ServerNames, old \in ServerRows \cup {NoEntry} :
                SaveServer(new, old) =>
                  /\ PlaceFor(server_entry, new, old) # {}
                  /\ ServerRows' = (ServerRows \ {old}) \cup {new}
           /\ \A name \in ServerRows, rows \in 1 .. MAX_SERVERS :
                DeleteServer(name, rows) => ServerRows' = ServerRows \ {name}
      /\ channelTable' # channelTable =>
           /\ \A network \in ChannelNetworks, channel \in ChannelNames, old \in ChannelNames \cup {NoEntry} :
                SaveChannel(network, channel, old) =>
                  ChannelRows' = (ChannelRows \ {<<network, old>>}) \cup {<<network, channel>>}
           /\ \A name \in ChannelRows, rows \in 1 .. MAX_CHANNELS :
                DeleteChannel(name, rows) => ChannelRows' = ChannelRows \ {name}
      /\ server_sections' = ServerRows' /\ channel_sections' = ChannelRows'
<1>1. EntriesInv /\ EntriesInv' => Kept
  <2> SUFFICES ASSUME EntriesInv, EntriesInv' PROVE Kept
    OBVIOUS
  <2>1. server_sections' = ServerRows' /\ channel_sections' = ChannelRows'
    BY RowsAreSections
  <2> QED
    BY <2>1, ServerRowsKept, ChannelRowsKept
<1> HIDE DEF Kept
<1>2. EntriesInv /\ EntriesInv' => [Kept]_entriesVars
  BY <1>1
<1>3. EntriesSpec => [][Kept]_entriesVars
  BY <1>2, InvHolds, PTL DEF EntriesSpec
<1> QED
  BY <1>3 DEF Kept, RowsAreKept
=============================================================================
