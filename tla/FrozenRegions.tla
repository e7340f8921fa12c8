--------------------------- MODULE FrozenRegions ---------------------------
(***************************************************************************)
(* What the freezer promises about its table: a set of frozen regions under *)
(* indices that are never issued twice.  A command selects regions by one   *)
(* name, one address, one index, or all of them, and removes or switches    *)
(* exactly the selected ones; nothing else about a region ever changes.     *)
(***************************************************************************)
EXTENDS Naturals

CONSTANT Content    \* what the user asked for: name, address, data, masks

VARIABLES frozen,   \* index -> [what, on]
          issued    \* number of indices issued

vars == <<frozen, issued>>

Init == frozen = << >> /\ issued = 0

Freeze(w, on) ==
  /\ frozen' = [i \in DOMAIN frozen \cup {issued} |->
                  IF i = issued THEN [what |-> w, on |-> on] ELSE frozen[i]]
  /\ issued' = issued + 1

(***************************************************************************)
(* The sets of regions one command may act on.                             *)
(***************************************************************************)
SameName(i) == {j \in DOMAIN frozen : frozen[j].what.name = frozen[i].what.name}
SameAddr(i) == {j \in DOMAIN frozen : frozen[j].what.addr = frozen[i].what.addr}

Selections ==
  {DOMAIN frozen}
    \cup UNION {{SameName(i), SameAddr(i), {i}} : i \in DOMAIN frozen}

Unfreeze(S) ==
  /\ frozen' = [i \in DOMAIN frozen \ S |-> frozen[i]]
  /\ UNCHANGED issued

Switch(S, b) ==
  /\ frozen' = [i \in DOMAIN frozen |->
                  IF i \in S THEN [frozen[i] EXCEPT !.on = b] ELSE frozen[i]]
  /\ UNCHANGED issued

Next ==
  \/ \E w \in Content, on \in BOOLEAN : Freeze(w, on)
  \/ \E S \in Selections : Unfreeze(S) \/ \E b \in BOOLEAN : Switch(S, b)

Spec == Init /\ [][Next]_vars
=============================================================================
