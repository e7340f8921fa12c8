-------------------------- MODULE MCSearchSession --------------------------
(***************************************************************************)
(* Two pages of two cells and one cell; the target moves between two        *)
(* memories in which a page vanishes, becomes unreadable, and cells rise    *)
(* and fall, and set makes a third.  A named search and the unnamed one.    *)
(***************************************************************************)
EXTENDS SearchSession

CONSTANTS nomemory, first

MCPages == <<[addr |-> 1, size |-> 2], [addr |-> 4, size |-> 1]>>

Ram(s1, s2, u, v, w) ==
  [status |-> <<s1, s2>>,
   cell |-> [x \in {1, 2, 4} |-> CASE x = 1 -> u [] x = 2 -> v [] OTHER -> w]]

MCRams == {Ram("ok", "dark", 0, 1, 0), Ram("gone", "ok", 1, 1, 1)}

FallingRams == {Ram("ok", "ok", 1, 1, 1), Ram("ok", "ok", 0, 0, 1)}

OneName == {first}
MCRequests == {<<"ALL", NoValue>>, <<">=", NoValue>>, <<"=", <<1>>>>}
DataRequests == {<<"=", <<1>>>>, <<"=", NoValue>>}
=============================================================================
