---------------------------- MODULE MemoryUpdate ----------------------------
(***************************************************************************)
(* The loops of MemorySearch::update, one field or one result at a time:    *)
(* two cursors walk the old and the new snapshot in step, jump over gaps    *)
(* and never go back.  Both snapshots are ascending lists of disjoint       *)
(* regions, as a paused target is walked, and need not have the same        *)
(* borders: the target maps and unmaps memory between two searches.         *)
(*                                                                         *)
(* A comparison that reads beyond the data of a region is undefined: it may *)
(* say anything, or end the program.                                       *)
(***************************************************************************)
EXTENDS MemorySearch

CONSTANTS
  Families,     \* sets of [searches, snapshots, ops, values]: what update may be given
  MaxResults

ASSUME MaxResultsAssumption == MaxResults \in Nat

(***************************************************************************)
(* A snapshot: ascending regions of the address space that do not overlap,  *)
(* each with all of its data or none.  None begins at address 0, which      *)
(* update also uses to mark a deleted result.  Regions are pages, so a field *)
(* of any type fits in them a whole number of times.  The results of a      *)
(* search ascend and are fields that were read with its snapshot; one that  *)
(* is not valid has none.                                                  *)
(***************************************************************************)
IsSnapshot(snap) ==
  /\ snap \in Seq([addr: Nat \ {0}, size: Nat \ {0}, data: Seq(Byte)])
  /\ \A i \in DOMAIN snap : /\ Len(snap[i].data) \in {0, snap[i].size}
                            /\ EndAddr(snap[i]) <= AddrSpace
  /\ \A i, j \in DOMAIN snap : i < j => EndAddr(snap[i]) <= snap[j].addr

Aligned(type, n) == n % FieldSize(type) = 0

WholeFields(type, snap) ==
  \A i \in DOMAIN snap : Aligned(type, snap[i].addr) /\ Aligned(type, snap[i].size)

IsSearch(s) ==
  /\ DOMAIN s = DOMAIN NewSearch(s.type)
  /\ s.type \in AllTypes /\ s.prev_size \in Nat /\ s.results \in Seq(Nat)
  /\ HasMemory(s) => IsSnapshot(s.memory) /\ WholeFields(s.type, s.memory)
  /\ s.results_valid => HasMemory(s)
  /\ ~s.results_valid => s.results = <<>>
  /\ Ordered(s.results)
  /\ \A i \in DOMAIN s.results :
       s.results[i] \in Readable(s.memory) /\ Aligned(s.type, s.results[i])

ASSUME FamiliesAssumption ==
  \A f \in Families :
    /\ \A s \in f.searches : IsSearch(s)
    /\ \A snap \in f.snapshots :
         IsSnapshot(snap) /\ \A s \in f.searches : WholeFields(s.type, snap)
    /\ f.values \subseteq Seq(Byte)

VARIABLES
  search,       \* the iteration as update finds it
  new, op, value,
  pc,           \* "first", "second", "narrow", "done" or "crashed"
  new_region_index, old_region_index,
  y,            \* offset of the field in the new region
  k,            \* index of the result, when narrowing
  results,
  overread      \* history: some comparison has read outside the data

given == <<search, new, op, value>>
vars == <<given, pc, new_region_index, old_region_index, y, k, results, overread>>

Init ==
  /\ \E f \in Families :
       search \in f.searches /\ new \in f.snapshots /\ op \in f.ops /\ value \in f.values
  /\ CanUpdate(search, op, value)
  /\ HasMemory(search) \/ op # "ALL"
  /\ pc = IF ~HasMemory(search) THEN "first"
          ELSE IF ~search.results_valid THEN "second" ELSE "narrow"
  /\ new_region_index = 1 /\ old_region_index = 1
  /\ y = 0 /\ k = 1
  /\ results = search.results
  /\ overread = FALSE

NewRegion == new[new_region_index]
OldRegion == search.memory[old_region_index]
NoOldLeft == old_region_index > Len(search.memory)
Field == FieldSize(search.type)

\* mutant: the offset is kept from region to region
NextRegionKeepsOffset == new_region_index' = new_region_index + 1 /\ y' = y

\* mutant: the same region again
NextRegionAgain == new_region_index' = new_region_index /\ y' = 0

NextRegion == new_region_index' = new_region_index + 1 /\ y' = 0

\* how many bytes the comparison reads on either side
Compared == Width(search.type, IF value = NoValue THEN search.prev_size ELSE Len(value))

\* the comparison at address a, and whether it stays inside the regions' data
Inside(a) ==
  /\ Fits(NewRegion, a, Compared)
  /\ pc # "first" /\ value = NoValue => Fits(OldRegion, a, Compared)

Passes(a) ==
  Evaluate(search.type, op, Window(NewRegion, a, Compared),
           IF value = NoValue THEN Window(OldRegion, a, Compared) ELSE value)

\* hit: what the comparison at a says
Compares(a, hit) ==
  /\ overread' = (overread \/ ~Inside(a))
  /\ Inside(a) => hit = Passes(a)

\* reading further than the data may hit an unmapped page
Crash(a) ==
  /\ ~Inside(a)
  /\ pc' = "crashed" /\ overread' = TRUE
  /\ UNCHANGED <<given, new_region_index, old_region_index, y, k, results>>

----------------------------------------------------------------------------
(* First search for a known value. *)

\* unsigned: wraps when the value is longer than the region
FirstBound == (NewRegion.size - Len(value)) % AddrSpace

FirstEnds == \/ NewRegion.data = <<>>
             \/ y >= FirstBound
             \/ Len(results) >= MaxResults

FirstNext ==
  /\ pc = "first" /\ new_region_index <= Len(new)
  /\ FirstEnds
  /\ NextRegion
  /\ UNCHANGED <<given, pc, old_region_index, k, results, overread>>

FirstField ==
  LET a == NewRegion.addr + y IN
  /\ pc = "first" /\ new_region_index <= Len(new)
  /\ ~FirstEnds
  /\ \/ Crash(a)
     \/ \E hit \in BOOLEAN :
          /\ Compares(a, hit)
          /\ results' = IF hit THEN Append(results, a) ELSE results
          /\ y' = y + Field
          /\ UNCHANGED <<given, pc, new_region_index, old_region_index, k>>

----------------------------------------------------------------------------
(* Second search, after an unknown initial value. *)

\* mutant: an old region without data is not skipped
SkippableIfBefore(a) == EndAddr(OldRegion) <= a

OldSkippable(a) == OldRegion.data = <<>> \/ EndAddr(OldRegion) <= a

InSecond ==
  /\ pc = "second" /\ new_region_index <= Len(new)
  /\ y < NewRegion.size /\ NewRegion.data # <<>>

\* mutant: the old cursor does not move
SkipOldStays ==
  /\ InSecond /\ ~NoOldLeft /\ OldSkippable(NewRegion.addr + y)
  /\ UNCHANGED vars

SkipOld ==
  /\ InSecond /\ ~NoOldLeft /\ OldSkippable(NewRegion.addr + y)
  /\ old_region_index' = old_region_index + 1
  /\ UNCHANGED <<given, pc, new_region_index, y, k, results, overread>>

SecondNext ==
  /\ pc = "second" /\ new_region_index <= Len(new)
  /\ y >= NewRegion.size \/ NewRegion.data = <<>> \/ NoOldLeft
  /\ NextRegion
  /\ UNCHANGED <<given, pc, old_region_index, k, results, overread>>

\* the address is before the old region: jump to where that starts
SecondJump ==
  /\ InSecond /\ ~NoOldLeft /\ ~OldSkippable(NewRegion.addr + y)
  /\ NewRegion.addr + y < OldRegion.addr
  /\ y' = OldRegion.addr - NewRegion.addr
  /\ UNCHANGED <<given, pc, new_region_index, old_region_index, k, results, overread>>

SecondField ==
  LET a == NewRegion.addr + y IN
  /\ InSecond /\ ~NoOldLeft /\ ~OldSkippable(a) /\ a >= OldRegion.addr
  /\ \/ Crash(a)
     \/ \E hit \in BOOLEAN :
          /\ Compares(a, hit)
          /\ results' = IF hit THEN Append(results, a) ELSE results
          /\ y' = y + Field
          /\ UNCHANGED <<given, pc, new_region_index, old_region_index, k>>

----------------------------------------------------------------------------
(* Later searches narrow the results; 0 marks a deleted one. *)

InNarrow == pc = "narrow" /\ k <= Len(results)

NewBefore(a) == new_region_index <= Len(new) /\ EndAddr(NewRegion) <= a
OldBefore(a) == ~NoOldLeft /\ EndAddr(OldRegion) <= a

SkipNew ==
  /\ InNarrow /\ NewBefore(results[k])
  /\ new_region_index' = new_region_index + 1
  /\ UNCHANGED <<given, pc, old_region_index, y, k, results, overread>>

SkipOldForResult ==
  /\ InNarrow /\ OldBefore(results[k])
  /\ old_region_index' = old_region_index + 1
  /\ UNCHANGED <<given, pc, new_region_index, y, k, results, overread>>

\* the result is still in a region of both snapshots, and could be read
Comparable(a) ==
  /\ new_region_index <= Len(new) /\ ~NoOldLeft
  /\ NewRegion.addr <= a /\ OldRegion.addr <= a
  /\ NewRegion.data # <<>>

DropResult ==
  LET a == results[k] IN
  /\ InNarrow /\ ~NewBefore(a) /\ ~OldBefore(a)
  /\ ~Comparable(a)
  /\ results' = [results EXCEPT ![k] = 0]
  /\ k' = k + 1
  /\ UNCHANGED <<given, pc, new_region_index, old_region_index, y, overread>>

NarrowResult ==
  LET a == results[k] IN
  /\ InNarrow /\ ~NewBefore(a) /\ ~OldBefore(a)
  /\ Comparable(a)
  /\ \/ Crash(a)
     \/ \E hit \in BOOLEAN :
          /\ Compares(a, hit)
          /\ results' = IF hit THEN results ELSE [results EXCEPT ![k] = 0]
          /\ k' = k + 1
          /\ UNCHANGED <<given, pc, new_region_index, old_region_index, y>>

----------------------------------------------------------------------------

Finish ==
  /\ \/ pc \in {"first", "second"} /\ new_region_index > Len(new) /\ UNCHANGED results
     \/ /\ pc = "narrow" /\ k > Len(results)
        /\ results' = Kept(results, Nat \ {0})
  /\ pc' = "done"
  /\ UNCHANGED <<given, new_region_index, old_region_index, y, k, overread>>

Returned == pc \in {"done", "crashed"} /\ UNCHANGED vars

Next ==
  \/ FirstNext \/ FirstField
  \/ SkipOld \/ SecondNext \/ SecondJump \/ SecondField
  \/ SkipNew \/ SkipOldForResult \/ DropResult \/ NarrowResult
  \/ Finish \/ Returned

Spec == Init /\ [][Next]_vars /\ WF_vars(Next)
----------------------------------------------------------------------------
(* Properties. *)

Computed == pc = "done" /\ ~overread

\* The loops compute what Update says: no field of the overlap of two snapshots
\* is skipped by a jump or a cursor that ran ahead, and none is compared with
\* the wrong old one, whatever the borders of the regions (update).
ComputesUpdate ==
  Computed => results = Update(search, new, op, value, MaxResults).results

\* Half-way through, the results are ascending and lie before the cursor, which
\* is what lets the cursors move forward only; a first search for data longer than a
\* region has left the region, and nothing is said of it (update).
AscendingSoFar ==
  pc = "second" \/ (pc = "first" /\ ~overread) =>
    /\ Ordered(results)
    /\ new_region_index <= Len(new) =>
         \A i \in DOMAIN results : results[i] < NewRegion.addr + y

\* A search for a number never compares bytes outside a region's data, in the new
\* snapshot or in the old one, whose regions may have been unreadable or shorter
\* (update reads both with no test of the length).
IntegersReadInside == search.type # "data" => ~overread

\* The numbers a user may mean by a value of a type, and which of them the bytes are,
\* according to the shell's own conversion (read_typed_value); a float may be none of
\* them, or zero with a sign.
Numbers(type) ==
  LET sign == SignBit(type)
  IN CASE Config[type].kind = "signed" -> -sign .. (sign - 1)
       [] Config[type].kind = "float" -> (2 - sign) .. (sign - 2)
       [] OTHER -> 0 .. (2 * sign - 1)

Meanings(type, bytes) ==
  {n \in Numbers(type) :
     \/ TypedValue(type, n) = bytes
     \/ Config[type].kind = "float" /\ n = 0 /\ bytes = Stored(type, SignBit(type))}

OneBitApart(m, n) ==
  \E i \in 0..(2 * Bits - 1) : m = n + Power[i] /\ (n \div Power[i]) % 2 = 0

\* what the README promises of a result at a
MeantToPass(a) ==
  LET n == Field
      current == BytesAt(new, a, n)
      target == IF value = NoValue THEN BytesAt(search.memory, a, n) ELSE value
  IN IF op = "$"
     THEN \/ OneBitApart(Unsigned(current), Unsigned(target))
          \/ OneBitApart(Unsigned(target), Unsigned(current))
     ELSE IF Meanings(search.type, current) = {} \/ Meanings(search.type, target) = {}
     THEN op \in {"!=", "ALL"}
     ELSE \E i \in Meanings(search.type, current), j \in Meanings(search.type, target) :
            Compare(op, i, j)

\* The results of a search for a number are the fields whose number, as the shell
\* would write it, passes the predicate: for every type, sign and byte order the
\* shell's conversion and the search's evaluators agree (README `search').
ResultsMeanNumbers ==
  Computed /\ search.type # "data" =>
    LET found == {results[i] : i \in DOMAIN results}
        candidates ==
          IF ~HasMemory(search) THEN {}
          ELSE IF ~search.results_valid THEN Fields(search.type, new) \cap Readable(search.memory)
          ELSE {search.results[i] : i \in DOMAIN search.results} \cap Readable(new)
    IN /\ \A a \in found : MeantToPass(a)
       /\ op # "$" => \A a \in candidates : MeantToPass(a) => a \in found

\* A first search compares every field of every region of the snapshot (update,
\* comment before the first loop).
NoCellMissed ==
  Computed /\ ~HasMemory(search) =>
    \A a \in Fields(search.type, new) :
      Evaluate(search.type, op, BytesAt(new, a, Len(value)), value) =>
        \E i \in DOMAIN results : results[i] = a

\* Every search ends: each cursor moves forward (update).
Terminates == <>(pc \in {"done", "crashed"})
=============================================================================
