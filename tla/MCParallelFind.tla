--------------------------- MODULE MCParallelFind ---------------------------
(***************************************************************************)
(* Three regions of one to two pages, one of them unreadable, with matches  *)
(* at page borders and at the last offset.                                  *)
(***************************************************************************)
EXTENDS ParallelFind

CONSTANTS w1, w2

Region(a, s, ok, h) == [addr |-> a, size |-> s, readable |-> ok, hits |-> h]

TwoWorkers == {w1, w2}
MCSnapshot == <<Region(4, 2, FALSE, {}), Region(8, 4, TRUE, {1, 2, 3}),
                Region(12, 2, TRUE, {0, 1})>>
OnMain == {Main}
=============================================================================
