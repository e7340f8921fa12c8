-------------------------- MODULE MCFreezerTables --------------------------
(***************************************************************************)
(* Up to three freezes of one byte each at two addresses.  The token "1" is *)
(* at once a name, an address and an index; "bombs" is a name only.         *)
(***************************************************************************)
EXTENDS RegionFreezer

CONSTANTS p1, none, noparse

Plain(a, d) == [addr |-> a, items |-> 0, data |-> d, mask |-> <<>>,
                null |-> <<>>, null_mask |-> <<>>]

MCProcs == {p1}
MCAddrs == 1..2
MCByte == {0, 1}
MCInitialMem == {[a \in MCAddrs |-> 0]}
MCNames == {"bombs", "1"}
MCTokens == {"bombs", "1", "2"}
MCAddrOf == [t \in MCTokens |-> CASE t = "1" -> 1 [] t = "2" -> 2 [] OTHER -> noparse]
MCDecOf == [t \in MCTokens |-> CASE t = "1" -> 1 [] t = "2" -> 2 [] OTHER -> noparse]
MCRequests == {Plain(1, <<1>>), Plain(2, <<1>>)}
=============================================================================
