------------------------------- MODULE RamIni -------------------------------
(***************************************************************************)
(* The settings kept in memory when there is no ini file                   *)
(* (ram_ini_file.h): a doubly linked list of sections, each with a doubly  *)
(* linked list of keys.  Nodes are numbered; 0 is the null pointer.  Every *)
(* malloc may fail.                                                        *)
(***************************************************************************)
EXTENDS Integers

CONSTANTS IniSections, IniKeys, IniValues,  \* names that differ in more than case
          NoText,                           \* a null string
          SectionNodes, KeyNodes            \* bounds: the memory there is

ASSUME IniAssumption ==
  /\ SectionNodes \in Nat /\ KeyNodes \in Nat
  /\ NoText \notin IniSections \cup IniKeys \cup IniValues

VARIABLES ini_sections,  \* the first section
          section_node,  \* per section node: its name, neighbours and first key
          key_node       \* per key node: its name, string and neighbours

iniVars == <<ini_sections, section_node, key_node>>

FreedSection == [section |-> NoText, next |-> 0, prev |-> 0, keys |-> 0]
FreedKey == [key |-> NoText, str |-> NoText, next |-> 0, prev |-> 0]

IniInit ==
  /\ ini_sections = 0
  /\ section_node = [n \in 1 .. SectionNodes |-> FreedSection]
  /\ key_node = [n \in 1 .. KeyNodes |-> FreedKey]

-----------------------------------------------------------------------------
\* The nodes a walk along next meets, from the first one on: those that no set with the
\* first node in it leaves out, unless following next leaves the set.
Closed(node, S) == \A n \in S : node[n].next = 0 \/ node[n].next \in S
Chain(node, first) ==
  {n \in DOMAIN node : ~\E S \in SUBSET (DOMAIN node \ {n}) : first \in S \cup {0} /\ Closed(node, S)}

Last(node, first) == CHOOSE n \in Chain(node, first) : node[n].next = 0

Linked(node, first, new) ==
  IF first = 0 THEN node
  ELSE LET last == Last(node, first)
       IN [node EXCEPT ![last].next = new, ![new].prev = last]

\* Mutant: the node after it keeps pointing back at it.
UnlinkedOneWay(node, n) ==
  [m \in DOMAIN node |-> IF m = node[n].prev THEN [node[m] EXCEPT !.next = node[n].next]
                         ELSE node[m]]

Unlinked(node, n) ==
  [m \in DOMAIN node |->
     CASE m = node[n].prev -> [node[m] EXCEPT !.next = node[n].next]
       [] m = node[n].next -> [node[m] EXCEPT !.prev = node[n].prev]
       [] OTHER -> node[m]]

FirstWithout(first, node, n) == IF node[n].prev = 0 THEN node[n].next ELSE first

\* find_section and find_key: the node with that name, or none.
FindSection(s) == {n \in Chain(section_node, ini_sections) : section_node[n].section = s}
FindKey(sn, k) == {n \in Chain(key_node, section_node[sn].keys) : key_node[n].key = k}

FreeSections == {n \in 1 .. SectionNodes : section_node[n] = FreedSection}
FreeKeys == {n \in 1 .. KeyNodes : key_node[n] = FreedKey}
LowestOf(S) == CHOOSE n \in S : \A m \in S : n <= m

-----------------------------------------------------------------------------
AddedSection(n, s) ==
  Linked([section_node EXCEPT ![n] = [FreedSection EXCEPT !.section = s]], ini_sections, n)

\* add_section, and nothing more: the string is null, or there is no memory for it.
AddSection(s) ==
  /\ FindSection(s) = {} /\ FreeSections # {}
  /\ LET n == LowestOf(FreeSections) IN
       /\ section_node' = AddedSection(n, s)
       /\ ini_sections' = IF ini_sections = 0 THEN n ELSE ini_sections
  /\ UNCHANGED key_node

AddedKey(n, first, k, v) ==
  Linked([key_node EXCEPT ![n] = [FreedKey EXCEPT !.key = k, !.str = v]], first, n)

\* add_key in a section that is there.
AddKey(s, k, v) ==
  /\ FreeKeys # {}
  /\ \E sn \in FindSection(s) :
       LET first == section_node[sn].keys
           n == LowestOf(FreeKeys)
       IN /\ FindKey(sn, k) = {}
          /\ key_node' = AddedKey(n, first, k, v)
          /\ section_node' = [section_node EXCEPT ![sn].keys = IF first = 0 THEN n ELSE first]
  /\ UNCHANGED ini_sections

\* add_section and add_key.
AddBoth(s, k, v) ==
  /\ FindSection(s) = {} /\ FreeSections # {} /\ FreeKeys # {}
  /\ LET sn == LowestOf(FreeSections)
         n == LowestOf(FreeKeys)
     IN /\ section_node' = [AddedSection(sn, s) EXCEPT ![sn].keys = n]
        /\ ini_sections' = IF ini_sections = 0 THEN sn ELSE ini_sections
        /\ key_node' = AddedKey(n, 0, k, v)

\* A new string for a key: the old one is freed first, so it is lost when there is no
\* memory for the new one.
SetKey(s, k, v) ==
  /\ \E sn \in FindSection(s) : \E n \in FindKey(sn, k) : key_node' = [key_node EXCEPT ![n].str = v]
  /\ UNCHANGED <<ini_sections, section_node>>

\* delete_key
DeleteKey(s, k) ==
  /\ \E sn \in FindSection(s) : \E n \in FindKey(sn, k) :
       /\ key_node' = [Unlinked(key_node, n) EXCEPT ![n] = FreedKey]
       /\ section_node' = [section_node EXCEPT ![sn].keys = FirstWithout(@, key_node, n)]
  /\ UNCHANGED ini_sections

\* delete_section, with all its keys.
DeleteSection(s) ==
  \E n \in FindSection(s) :
    /\ key_node' = [m \in 1 .. KeyNodes |->
                      IF m \in Chain(key_node, section_node[n].keys) THEN FreedKey ELSE key_node[m]]
    /\ section_node' = [Unlinked(section_node, n) EXCEPT ![n] = FreedSection]
    /\ ini_sections' = FirstWithout(ini_sections, section_node, n)

\* write_private_profile_string, with a key and a string, a key and no string, no key.
WriteString(s, k) == \/ \E v \in IniValues : AddBoth(s, k, v) \/ AddKey(s, k, v)
                     \/ \E v \in IniValues \cup {NoText} : SetKey(s, k, v)

IniNext == \E s \in IniSections : \/ AddSection(s)
                                  \/ DeleteSection(s)
                                  \/ \E k \in IniKeys : WriteString(s, k) \/ DeleteKey(s, k)

IniSpec == IniInit /\ [][IniNext]_iniVars

-----------------------------------------------------------------------------
\* get_private_profile_string, for every section and key: a section without keys, or
\* one that is not there, has no values, nor has a key without a string.
Contents ==
  LET sections == Chain(section_node, ini_sections)
      keysOf(s) == UNION {Chain(key_node, section_node[n].keys) :
                            n \in {m \in sections : section_node[m].section = s}}
      value(nodes) == LET found == {key_node[n].str : n \in nodes}
                      IN IF found \subseteq {NoText} THEN NoText ELSE CHOOSE v \in found : v # NoText
      none == [k \in IniKeys |-> NoText]
  IN [s \in IniSections |-> LET keys == keysOf(s) IN
        IF keys = {} THEN none ELSE [k \in IniKeys |-> value({n \in keys : key_node[n].key = k})]]

Map == INSTANCE Profile WITH Sections <- IniSections, Keys <- IniKeys, Values <- IniValues,
                             Absent <- NoText, profile <- Contents

\* prev is the inverse of next along a list.
MirrorLinks(node, first) ==
  \A n \in Chain(node, first) :
    /\ node[n].prev = 0 <=> n = first
    /\ node[n].next # 0 => node[node[n].next].prev = n

\* Both lists can be walked both ways, and every node that is not free is on one list
\* and no other: nothing leaks and nothing freed is reached, also when memory runs out
\* between the steps of an insertion.
ListsWellFormed ==
  LET chainOf(sn) == Chain(key_node, section_node[sn].keys)
      sections == Chain(section_node, ini_sections)
  IN /\ MirrorLinks(section_node, ini_sections)
     /\ sections = (1 .. SectionNodes) \ FreeSections
     /\ \A sn \in sections : MirrorLinks(key_node, section_node[sn].keys)
     /\ UNION {chainOf(sn) : sn \in sections} = (1 .. KeyNodes) \ FreeKeys
     /\ \A sn, tn \in sections : sn # tn => chainOf(sn) \cap chainOf(tn) = {}
     /\ \A sn, tn \in sections : section_node[sn].section = section_node[tn].section => sn = tn

\* Whatever was added, deleted and lost for want of memory before, each operation
\* changes what reading finds for one key, or loses one section, and no other: the
\* lists implement a map. What is written is what reading that key finds. And the lists
\* stay lists: nothing leaks, nothing freed is reached.
IniIsMap ==
  /\ Map!Spec
  /\ [][iniVars' # iniVars =>
         /\ ListsWellFormed'
         /\ \A s \in IniSections, k \in IniKeys, v \in IniValues :
              AddBoth(s, k, v) \/ AddKey(s, k, v) \/ SetKey(s, k, v) => Contents'[s][k] = v]_iniVars

\* Nodes hold names, strings and nodes.
IniTypeOK ==
  /\ ini_sections \in 0 .. SectionNodes
  /\ section_node \in [1 .. SectionNodes ->
       [section : IniSections \cup {NoText}, next : 0 .. SectionNodes, prev : 0 .. SectionNodes,
        keys : 0 .. KeyNodes]]
  /\ key_node \in [1 .. KeyNodes ->
       [key : IniKeys \cup {NoText}, str : IniValues \cup {NoText}, next : 0 .. KeyNodes, prev : 0 .. KeyNodes]]
=============================================================================
