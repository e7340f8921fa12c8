------------------------- MODULE MCFreezerLive ------------------------------
(***************************************************************************)
(* A plain region and an array of two entries of two bytes that overlap,   *)
(* and a freeze of what is there, in a target that clears any byte and     *)
(* unmaps the last two.                                                    *)
(***************************************************************************)
EXTENDS RegionFreezer

CONSTANTS p1, none, noparse

MCProcs == {p1}
MCAddrs == 1..4
MCByte == {0, 1, 2}
MCNames == {"bombs"}
MCTokens == {"bombs"}
MCParse == [t \in MCTokens |-> noparse]
MCInitialMem == {[a \in MCAddrs |-> 1]}
MCRequests ==
  {[addr |-> 2, items |-> 0, data |-> <<1>>, mask |-> <<>>, null |-> <<>>, null_mask |-> <<>>],
   [addr |-> 1, items |-> 2, data |-> <<1, 2>>, mask |-> <<255, 255>>, null |-> <<>>, null_mask |-> <<>>]}
MCCopies == {<<3, 1, 0>>}
MCPages == {{3, 4}}
=============================================================================
