---------------------------- MODULE MemorySearch ----------------------------
(***************************************************************************)
(* What one search does to one iteration: check_can_update, the four cases *)
(* of update, and delete_results.  A snapshot is made of bytes, a value is  *)
(* a sequence of bytes and << >> stands for no value given.                 *)
(*                                                                         *)
(* These operators say WHAT update computes when every comparison reads     *)
(* inside the data of a region; MemoryUpdate has its loops, shows that they *)
(* compute it, and which comparisons read further.                          *)
(***************************************************************************)
EXTENDS Evaluators, Sorting

CONSTANTS
  NoMemory,    \* an iteration without a snapshot
  AddrSpace    \* 2^64: addresses and sizes are computed modulo this

ASSUME AddrSpaceAssumption == AddrSpace \in Nat \ {0}

NoValue == <<>>

\* how many bytes an evaluator looks at: size is a parameter of data only
Width(type, size) == IF type = "data" THEN size ELSE FieldSize(type)

----------------------------------------------------------------------------
(* Snapshots: sequences of regions [addr, size, data], where data is << >>  *)
(* when the region could not be read.                                      *)

EndAddr(r) == r.addr + r.size

RegionCells(r) == r.addr .. (EndAddr(r) - 1)

Readable(snap) ==
  UNION {RegionCells(snap[k]) : k \in {j \in DOMAIN snap : snap[j].data # <<>>}}

Covered(snap) == UNION {RegionCells(snap[k]) : k \in DOMAIN snap}

\* where the fields of a type start: at every size-th byte of a region
Fields(type, snap) ==
  UNION {{a \in RegionCells(snap[k]) : (a - snap[k].addr) % FieldSize(type) = 0} :
           k \in {j \in DOMAIN snap : snap[j].data # <<>>}}

RegionAt(snap, a) ==
  snap[CHOOSE j \in DOMAIN snap : snap[j].data # <<>> /\ a \in RegionCells(snap[j])]

Window(r, a, n) == SubSeq(r.data, a - r.addr + 1, a - r.addr + n)

Fits(r, a, n) == a - r.addr + n <= Len(r.data)

\* the n bytes at a readable address
BytesAt(snap, a, n) == Window(RegionAt(snap, a), a, n)

----------------------------------------------------------------------------
(* Iterations. *)

NewSearch(type) ==
  [type |-> type, results_valid |-> FALSE, memory |-> NoMemory,
   prev_size |-> 0, results |-> <<>>]

HasMemory(s) == s.memory # NoMemory

CanUpdate(s, op, v) ==
  /\ HasEvaluator(s.type, op)
  /\ s.type # "data" => Len(v) \in {0, FieldSize(s.type)}
  /\ ~HasMemory(s) => /\ v # NoValue \/ op = "ALL"
                      /\ s.type = "data" => v # NoValue

\* y < region.size - data.size() leaves the last place of a region out
FirstHits(s, new, op, v) ==
  {a \in Fields(s.type, new) :
     /\ a + Len(v) < EndAddr(RegionAt(new, a))
     /\ Evaluate(s.type, op, BytesAt(new, a, Len(v)), v)}

FirstResults(s, new, op, v, max) ==
  LET all == Ascending(FirstHits(s, new, op, v))
  IN SubSeq(all, 1, IF Len(all) < max THEN Len(all) ELSE max)

\* mutant: old and new are swapped
HoldsSwapped(s, new, op, v, a) ==
  LET n == Width(s.type, IF v = NoValue THEN s.prev_size ELSE Len(v))
  IN Evaluate(s.type, op, IF v = NoValue THEN BytesAt(s.memory, a, n) ELSE v,
              BytesAt(new, a, n))

\* the comparison of one field with the given value or with the old snapshot
Holds(s, new, op, v, a) ==
  LET n == Width(s.type, IF v = NoValue THEN s.prev_size ELSE Len(v))
  IN Evaluate(s.type, op, BytesAt(new, a, n),
              IF v = NoValue THEN BytesAt(s.memory, a, n) ELSE v)

\* mutant: the last cell of a region is left out here too
SecondResultsShort(s, new, op, v) ==
  Ascending({a \in Fields(s.type, new) \cap Readable(s.memory) :
               /\ a + FieldSize(s.type) < EndAddr(RegionAt(new, a))
               /\ Holds(s, new, op, v, a)})

SecondResults(s, new, op, v) ==
  Ascending({a \in Fields(s.type, new) \cap Readable(s.memory) : Holds(s, new, op, v, a)})

\* mutant: deleted results are marked and not removed
NarrowedMarks(s, new, op, v) ==
  [i \in DOMAIN s.results |->
     LET a == s.results[i]
     IN IF /\ a \in Readable(new) \cap Covered(s.memory)
           /\ Holds(s, new, op, v, a)
        THEN a ELSE 0]

\* address 0 marks a deleted result
Narrowed(s, new, op, v) ==
  Kept(s.results, {a \in Range(s.results) \cap Readable(new) \cap Covered(s.memory) :
                     a # 0 /\ Holds(s, new, op, v, a)})

\* mutant: a later search starts over
UpdateStartsOver(s, new, op, v, max) ==
  IF ~HasMemory(s) /\ op = "ALL" THEN [s EXCEPT !.memory = new]
  ELSE [s EXCEPT
          !.results = IF ~HasMemory(s) THEN FirstResults(s, new, op, v, max)
                      ELSE SecondResults(s, new, op, v),
          !.results_valid = TRUE,
          !.prev_size = Len(v),
          !.memory = new]

Update(s, new, op, v, max) ==
  IF ~HasMemory(s) /\ op = "ALL" THEN [s EXCEPT !.memory = new]
  ELSE [s EXCEPT
          !.results = IF ~HasMemory(s) THEN FirstResults(s, new, op, v, max)
                      ELSE IF ~s.results_valid THEN SecondResults(s, new, op, v)
                      ELSE Narrowed(s, new, op, v),
          !.results_valid = TRUE,
          !.prev_size = Len(v),
          !.memory = new]

----------------------------------------------------------------------------
(* delete_results erases from lower_bound(start) to lower_bound(end + 1).   *)

LowerBound(seq, a) == Cardinality({k \in DOMAIN seq : seq[k] < a})

AfterEnd(end) == (end + 1) % AddrSpace

\* otherwise vector::erase is given a backward range
DeleteDefined(seq, start, end) ==
  LowerBound(seq, start) <= LowerBound(seq, AfterEnd(end))

DeleteResults(seq, start, end) ==
  SubSeq(seq, 1, LowerBound(seq, start))
    \o SubSeq(seq, LowerBound(seq, AfterEnd(end)) + 1, Len(seq))
=============================================================================
