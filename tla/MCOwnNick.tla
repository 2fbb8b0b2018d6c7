----------------------------- MODULE MCOwnNick -----------------------------
(* An instance of OwnNick for TLC. *)
EXTENDS OwnNick

\* Two nicks of which one begins with the other, and one the client makes up.
MCNickStarts == [n \in {"al", "ali", "u0"} |-> IF n = "al" THEN {"al", "ali"} ELSE {n}]
MCFallbacks == <<"u0">>
=============================================================================
