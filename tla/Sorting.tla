------------------------------ MODULE Sorting ------------------------------
(***************************************************************************)
(* Lists of addresses in ascending order.                                  *)
(***************************************************************************)
EXTENDS Integers, FiniteSets, Sequences

Rank(S, a) == Cardinality({b \in S : b <= a})

\* the members of S, from the least to the greatest
Ascending(S) == [i \in 1..Cardinality(S) |-> CHOOSE a \in S : Rank(S, a) = i]

\* the elements of seq that are in S, in their order
Kept(seq, S) ==
  LET at == Ascending({i \in DOMAIN seq : seq[i] \in S})
  IN [j \in DOMAIN at |-> seq[at[j]]]

Ordered(seq) == \A i, j \in DOMAIN seq : i < j => seq[i] < seq[j]
=============================================================================
