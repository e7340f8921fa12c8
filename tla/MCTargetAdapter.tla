-------------------------- MODULE MCTargetAdapter --------------------------
(***************************************************************************)
(* Four pages.  The first three may be one region, or several of one object *)
(* that a change of protection joins; the second may be dark, the last one  *)
(* guarded.                                                                 *)
(***************************************************************************)
EXTENDS TargetAdapter

CONSTANTS gone, ram, dark, guarded

Map(obj, prot) == [obj |-> obj, prot |-> prot]

MCChoices ==
  [p \in Space |->
     CASE p = 0 -> {gone, Map(ram, {"r", "w"}), Map(ram, {"w"})}
       [] p = 1 -> {gone, Map(ram, {"r", "w"}), Map(ram, {"w"}), Map(dark, {"w"})}
       [] p = 2 -> {gone, Map(ram, {"r", "w"})}
       [] OTHER -> {gone, Map(guarded, {"w"})}]

DarkChoices == [p \in Space |-> {gone, Map(dark, {"w"})}]

MCTargets == {<<1>>, <<0, 3>>}
MCRights == {{"w"}}
=============================================================================
