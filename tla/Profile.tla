------------------------------ MODULE Profile ------------------------------
(***************************************************************************)
(* What a profile promises: a value, or none, for each key of each section. *)
(***************************************************************************)
CONSTANTS Sections, Keys, Values, Absent
VARIABLE profile

Init == profile = [s \in Sections |-> [k \in Keys |-> Absent]]

\* A key gets a value or loses the one it has; a section loses all of them.
Written(old, new) ==
  \E s \in Sections :
    \/ new = [old EXCEPT ![s] = [k \in Keys |-> Absent]]
    \/ \E k \in Keys, v \in Values \cup {Absent} : new = [old EXCEPT ![s][k] = v]

\* The two values of the variable are computed once.
Next == \E old \in {profile}, new \in {profile'} : Written(old, new)

Spec == Init /\ [][Next]_profile
=============================================================================
