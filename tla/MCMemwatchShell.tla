--------------------------- MODULE MCMemwatchShell ---------------------------
(***************************************************************************)
(* Two processes, a game and a game's server, that a name may both mean;    *)
(* "7zip" is the name of one and begins with the pid of the other.          *)
(***************************************************************************)
EXTENDS MemwatchShell

CONSTANTS game, server

TwoProcs == {game, server}
ThreadNames == {"main", "writer"}
TwoWords == {"name", "7zip"}
DigitsOf == [w \in TwoWords |-> IF w = "7zip" THEN server ELSE NoTask]
NamedBy == [w \in TwoWords |-> IF w = "7zip" THEN {game} ELSE TwoProcs]

=============================================================================
