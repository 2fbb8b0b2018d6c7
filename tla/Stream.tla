------------------------------- MODULE Stream -------------------------------
(***************************************************************************)
(* What a connection promises in each direction: what is put in at one end *)
(* comes out at the other in the same order, once, and without gaps.  The  *)
(* connection may end with something still inside.                         *)
(***************************************************************************)
EXTENDS Sequences, SequencesExt

VARIABLES put,  \* everything handed over so far
          got   \* everything that has come out so far

Init == put = <<>> /\ got = <<>>

Put  == IsPrefix(put, put') /\ UNCHANGED got
Take == IsPrefix(got, got') /\ IsPrefix(got', put) /\ UNCHANGED put

Spec == Init /\ [][Put \/ Take]_<<put, got>>
=============================================================================
