-------------------------- MODULE MCServerThreads --------------------------
(* Instances of ServerThreads for TLC. *)
EXTENDS ServerThreads, TLC

\* The connection threads are interchangeable.
ThreadSymmetry == Permutations(Threads)
=============================================================================
