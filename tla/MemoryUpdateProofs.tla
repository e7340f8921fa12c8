-------------------------- MODULE MemoryUpdateProofs --------------------------
(***************************************************************************)
(* What the cursor loops of update compute, for all snapshots, types,       *)
(* values and predicates that FamiliesAssumption describes: results ascend  *)
(* while they are found (ResultsAscend), an integer is read inside the data *)
(* of its region (ReadsInside), a loop that ends without a stray read has   *)
(* computed MemorySearch!Update (LoopsComputeUpdate), and for a search for  *)
(* numbers that is what the user means (ResultsAreMeant).                   *)
(***************************************************************************)
EXTENDS MemoryUpdate, EvaluatorProofs, SequenceTheorems

Searching == pc \in {"first", "second"}

\* the part that no step changes
GivenOK ==
  /\ IsSnapshot(new) /\ search.type \in AllTypes /\ value \in Seq(Byte)
  /\ pc = "first" => value # NoValue
  /\ pc = "second" => IsSnapshot(search.memory)

CountersOK ==
  Searching =>
    /\ new_region_index \in Nat \ {0} /\ old_region_index \in Nat \ {0}
    /\ y \in Nat /\ results \in Seq(Nat)

Below(seq, a) == \A i \in DOMAIN seq : seq[i] < a

\* a jump or the last step may take y past the end of the region; the results stay in it
Behind ==
  pc = "second" \/ (pc = "first" /\ ~overread) =>
    /\ Ordered(results)
    /\ new_region_index <= Len(new) =>
         Below(results, NewRegion.addr + y) /\ Below(results, EndAddr(NewRegion))

IInv == GivenOK /\ CountersOK /\ Behind

----------------------------------------------------------------------------
(* Data. *)

\* Every field has at least one byte (search_type_configs).
LEMMA FieldSizes == \A type \in AllTypes : FieldSize(type) \in Nat \ {0}
BY DEF AllTypes, FieldSize, Config

\* Appending a larger address keeps a list ascending (results.emplace_back).
LEMMA AppendOrdered ==
  ASSUME NEW seq \in Seq(Nat), NEW a \in Nat, Ordered(seq), Below(seq, a)
  PROVE  Append(seq, a) \in Seq(Nat) /\ Ordered(Append(seq, a))
BY DEF Ordered, Below

\* What lies below an address lies below every later one, and so does that address.
LEMMA AppendBelow ==
  ASSUME NEW seq \in Seq(Nat), NEW a \in Nat, NEW b \in Nat, Below(seq, a), a < b
  PROVE  Below(seq, b) /\ Below(Append(seq, a), b)
BY DEF Below

\* A snapshot is a vector of regions.
LEMMA SnapshotDomain ==
  ASSUME NEW snap, IsSnapshot(snap)
  PROVE  Len(snap) \in Nat /\ DOMAIN snap = 1..Len(snap)
<1> DEFINE R == [addr: Nat \ {0}, size: Nat \ {0}, data: Seq(Byte)]
<1>1. snap \in Seq(R)
  BY DEF IsSnapshot
<1> HIDE DEF R
<1> QED BY <1>1

\* A region of a snapshot has an address, a size and data of that size or none.
LEMMA RegionFacts ==
  ASSUME NEW snap, IsSnapshot(snap), NEW i \in DOMAIN snap
  PROVE  /\ snap[i].addr \in Nat \ {0} /\ snap[i].size \in Nat \ {0}
         /\ EndAddr(snap[i]) \in Nat
         /\ EndAddr(snap[i]) = snap[i].addr + snap[i].size
         /\ snap[i].data \in Seq(Byte) /\ Len(snap[i].data) <= snap[i].size
         /\ EndAddr(snap[i]) <= AddrSpace
<1> DEFINE R == [addr: Nat \ {0}, size: Nat \ {0}, data: Seq(Byte)]
<1>1. snap[i] \in R
  <2>1. snap \in Seq(R)
    BY DEF IsSnapshot
  <2> HIDE DEF R
  <2> QED BY <2>1
<1>2. Len(snap[i].data) \in {0, snap[i].size} /\ EndAddr(snap[i]) <= AddrSpace
  BY DEF IsSnapshot
<1> QED BY <1>1, <1>2 DEF EndAddr

\* The next region begins where this one has ended, or later.
LEMMA NextStarts ==
  ASSUME NEW snap, IsSnapshot(snap), NEW i \in DOMAIN snap, i + 1 \in DOMAIN snap
  PROVE  EndAddr(snap[i]) <= snap[i + 1].addr
<1>1. i \in Nat
  BY DEF IsSnapshot
<1> QED BY <1>1 DEF IsSnapshot

----------------------------------------------------------------------------
(* The two kinds of step. *)

\* The cursor goes on to the next region (new_region_index++, y = 0).
LEMMA NextRegionBehind ==
  ASSUME IInv, Searching, new_region_index <= Len(new),
         NextRegion, UNCHANGED <<given, pc, old_region_index, k, results, overread>>
  PROVE  IInv'
<1>1. GivenOK'
  BY DEF IInv, GivenOK, given
<1>2. CountersOK'
  BY DEF IInv, CountersOK, Searching, NextRegion
<1>3. Behind'
  <2> SUFFICES ASSUME pc = "second" \/ (pc = "first" /\ ~overread)
               PROVE  /\ Ordered(results)
                      /\ new_region_index + 1 <= Len(new) =>
                           /\ Below(results, new[new_region_index + 1].addr + 0)
                           /\ Below(results, EndAddr(new[new_region_index + 1]))
    BY DEF Behind, NextRegion, NewRegion, given
  <2>1. Ordered(results) /\ Below(results, EndAddr(NewRegion))
    BY DEF IInv, Behind
  <2> SUFFICES ASSUME new_region_index + 1 <= Len(new)
               PROVE  /\ Below(results, new[new_region_index + 1].addr + 0)
                      /\ Below(results, EndAddr(new[new_region_index + 1]))
    BY <2>1
  <2>2. /\ new_region_index \in DOMAIN new /\ new_region_index + 1 \in DOMAIN new
        /\ IsSnapshot(new) /\ results \in Seq(Nat)
    BY SnapshotDomain DEF IInv, GivenOK, CountersOK
  <2>3. EndAddr(NewRegion) <= new[new_region_index + 1].addr
    BY <2>2, NextStarts DEF NewRegion
  <2>4. EndAddr(NewRegion) \in Nat
    BY <2>2, RegionFacts DEF NewRegion
  <2>5. /\ new[new_region_index + 1].addr \in Nat
        /\ new[new_region_index + 1].addr < EndAddr(new[new_region_index + 1])
        /\ EndAddr(new[new_region_index + 1]) \in Nat
    <3> DEFINE r == new[new_region_index + 1]
    <3>1. r.addr \in Nat /\ r.size \in Nat \ {0} /\ EndAddr(r) = r.addr + r.size
      BY <2>2, RegionFacts
    <3> QED BY <3>1
  <2> QED BY <2>1, <2>2, <2>3, <2>4, <2>5 DEF Below
<1> QED BY <1>1, <1>2, <1>3 DEF IInv

\* A field inside the region is compared, and its address is a result or is not.
LEMMA FieldBehind ==
  ASSUME IInv, Searching, new_region_index <= Len(new),
         NEW hit \in BOOLEAN,
         Compares(NewRegion.addr + y, hit),
         results' = IF hit THEN Append(results, NewRegion.addr + y) ELSE results,
         y' = y + Field,
         pc = "second" \/ ~overread' => y < NewRegion.size,
         UNCHANGED <<given, pc, new_region_index, old_region_index, k>>
  PROVE  IInv'
<1>1. GivenOK'
  BY DEF IInv, GivenOK, given
<1>2. Field \in Nat \ {0}
  BY FieldSizes DEF IInv, GivenOK, Field
<1>3. new_region_index \in DOMAIN new /\ IsSnapshot(new)
  BY SnapshotDomain DEF IInv, GivenOK, CountersOK
<1>4. /\ NewRegion.addr \in Nat /\ NewRegion.size \in Nat \ {0}
      /\ EndAddr(NewRegion) = NewRegion.addr + NewRegion.size
  BY <1>3, RegionFacts DEF NewRegion
<1>5. y \in Nat /\ results \in Seq(Nat)
  BY DEF IInv, CountersOK
<1>6. CountersOK'
  BY <1>2, <1>4, <1>5 DEF IInv, CountersOK, Searching
<1>7. Behind'
  <2> DEFINE a == NewRegion.addr + y
             b == NewRegion.addr + y'
  <2> SUFFICES ASSUME pc = "second" \/ (pc = "first" /\ ~overread')
               PROVE  /\ Ordered(results')
                      /\ Below(results', b) /\ Below(results', EndAddr(NewRegion))
    BY DEF Behind, NewRegion, given
  <2>1. pc = "second" \/ (pc = "first" /\ ~overread)
    BY DEF Compares
  <2>2. Ordered(results) /\ Below(results, a)
    BY <2>1 DEF IInv, Behind
  <2>3. a \in Nat /\ b \in Nat /\ a < b
    BY <1>2, <1>4, <1>5
  <2>4. a < EndAddr(NewRegion) /\ EndAddr(NewRegion) \in Nat
    BY <1>4, <1>5
  <2> HIDE DEF a, b
  <2>5. Ordered(results')
    BY <1>5, <2>2, <2>3, AppendOrdered DEF a
  <2>6. Below(results', b)
    BY <1>5, <2>2, <2>3, AppendBelow DEF a
  <2>7. Below(results', EndAddr(NewRegion))
    BY <1>5, <2>2, <2>3, <2>4, AppendBelow DEF a
  <2> QED BY <2>5, <2>6, <2>7
<1> QED BY <1>1, <1>6, <1>7 DEF IInv

----------------------------------------------------------------------------
(* Every step. *)

\* The old cursor and the steps that end the loops or narrow say nothing new.
LEMMA NotSearching ==
  ASSUME IInv, UNCHANGED given, ~Searching'
  PROVE  IInv'
BY DEF IInv, GivenOK, CountersOK, Behind, Searching, given

\* A comparison that stays inside the data stays inside the region (first search).
LEMMA FirstFieldInside ==
  ASSUME IInv, pc = "first", new_region_index <= Len(new),
         NEW hit, Compares(NewRegion.addr + y, hit), ~overread'
  PROVE  y < NewRegion.size
<1>1. Fits(NewRegion, NewRegion.addr + y, Compared)
  BY DEF Compares, Inside
<1>2. new_region_index \in DOMAIN new /\ IsSnapshot(new) /\ y \in Nat
  BY SnapshotDomain DEF IInv, GivenOK, CountersOK, Searching
<1>3. /\ NewRegion.addr \in Nat /\ NewRegion.size \in Nat \ {0}
      /\ NewRegion.data \in Seq(Byte) /\ Len(NewRegion.data) <= NewRegion.size
  BY <1>2, RegionFacts DEF NewRegion
<1>4. Len(value) \in Nat \ {0} /\ value # NoValue
  BY EmptySeq DEF IInv, GivenOK, NoValue
<1>5. Compared \in Nat \ {0}
  BY <1>4, FieldSizes DEF Compared, Width, IInv, GivenOK
<1> HIDE DEF Compared
<1>6. Len(NewRegion.data) \in Nat
  BY <1>3
<1> QED BY <1>1, <1>2, <1>3, <1>5, <1>6 DEF Fits

\* The initial state of a first or second search has no results (update).
LEMMA InitIInv == Init => IInv
<1> SUFFICES ASSUME Init PROVE IInv
  OBVIOUS
<1>1. PICK f \in Families :
        search \in f.searches /\ new \in f.snapshots /\ op \in f.ops /\ value \in f.values
  BY DEF Init
<1>2. IsSearch(search) /\ IsSnapshot(new) /\ value \in Seq(Byte)
  BY <1>1, FamiliesAssumption
<1>3. pc = "first" => ~HasMemory(search) /\ value # NoValue
  BY DEF Init, CanUpdate
<1>4. pc = "second" => HasMemory(search) /\ ~search.results_valid
  BY DEF Init
<1>5. Searching => results = <<>>
  BY <1>2, <1>3, <1>4 DEF Searching, Init, IsSearch
<1>6. GivenOK
  BY <1>2, <1>3, <1>4 DEF GivenOK, IsSearch
<1>7. CountersOK
  <2>1. <<>> \in Seq(Nat)
    BY EmptySeq
  <2>2. new_region_index = 1 /\ old_region_index = 1 /\ y = 0
    BY DEF Init
  <2> QED BY <1>5, <2>1, <2>2 DEF CountersOK
<1>8. Behind
  BY <1>5 DEF Behind, Searching, Ordered, Below
<1> QED BY <1>6, <1>7, <1>8 DEF IInv

LEMMA NextIInv == IInv /\ [Next]_vars => IInv'
<1> SUFFICES ASSUME IInv, [Next]_vars PROVE IInv'
  OBVIOUS
<1>1. CASE FirstNext
  BY <1>1, NextRegionBehind DEF FirstNext, Searching
<1>2. CASE FirstField
  <2>1. CASE Crash(NewRegion.addr + y)
    BY <2>1, NotSearching DEF Crash, Searching
  <2>2. ASSUME NEW hit \in BOOLEAN,
               Compares(NewRegion.addr + y, hit),
               results' = IF hit THEN Append(results, NewRegion.addr + y) ELSE results,
               y' = y + Field,
               UNCHANGED <<given, pc, new_region_index, old_region_index, k>>
        PROVE  IInv'
    <3>1. pc = "first" /\ new_region_index <= Len(new)
      BY <1>2 DEF FirstField
    <3>2. ~overread' => y < NewRegion.size
      BY <2>2, <3>1, FirstFieldInside
    <3> QED BY <2>2, <3>1, <3>2, FieldBehind DEF Searching
  <2> QED BY <1>2, <2>1, <2>2 DEF FirstField
<1>3. CASE SkipOld
  BY <1>3 DEF SkipOld, IInv, GivenOK, CountersOK, Behind, Searching, NewRegion, given
<1>4. CASE SecondNext
  BY <1>4, NextRegionBehind DEF SecondNext, Searching
<1>5. CASE SecondJump
  <2>1. /\ pc = "second" /\ new_region_index <= Len(new) /\ ~NoOldLeft
        /\ IsSnapshot(new) /\ IsSnapshot(search.memory)
        /\ new_region_index \in Nat \ {0} /\ old_region_index \in Nat \ {0}
        /\ y \in Nat /\ results \in Seq(Nat)
    BY <1>5 DEF SecondJump, InSecond, IInv, GivenOK, CountersOK, Searching
  <2>2. new_region_index \in DOMAIN new /\ old_region_index \in DOMAIN search.memory
    BY <2>1, SnapshotDomain DEF NoOldLeft
  <2>3. NewRegion.addr \in Nat /\ OldRegion.addr \in Nat
    BY <2>1, <2>2, RegionFacts DEF NewRegion, OldRegion
  <2>4. y' \in Nat /\ NewRegion.addr + y < NewRegion.addr + y'
    BY <1>5, <2>1, <2>3 DEF SecondJump
  <2>5. /\ Ordered(results)
        /\ Below(results, NewRegion.addr + y) /\ Below(results, EndAddr(NewRegion))
    BY <2>1 DEF IInv, Behind
  <2>6. Below(results, NewRegion.addr + y')
    <3>1. NewRegion.addr + y \in Nat /\ NewRegion.addr + y' \in Nat
      BY <2>1, <2>3, <2>4
    <3> QED BY <2>1, <2>4, <2>5, <3>1, AppendBelow
  <2>7. Behind'
    BY <1>5, <2>5, <2>6 DEF Behind, SecondJump, NewRegion, given
  <2>8. GivenOK' /\ CountersOK'
    BY <1>5, <2>1, <2>4 DEF SecondJump, IInv, GivenOK, CountersOK, Searching, given
  <2> QED BY <2>7, <2>8 DEF IInv
<1>6. CASE SecondField
  <2>1. CASE Crash(NewRegion.addr + y)
    BY <2>1, NotSearching DEF Crash, Searching
  <2>2. ASSUME NEW hit \in BOOLEAN,
               Compares(NewRegion.addr + y, hit),
               results' = IF hit THEN Append(results, NewRegion.addr + y) ELSE results,
               y' = y + Field,
               UNCHANGED <<given, pc, new_region_index, old_region_index, k>>
        PROVE  IInv'
    <3>1. pc = "second" /\ new_region_index <= Len(new) /\ y < NewRegion.size
      BY <1>6 DEF SecondField, InSecond
    <3> QED BY <2>2, <3>1, FieldBehind DEF Searching
  <2> QED BY <1>6, <2>1, <2>2 DEF SecondField
<1>7. CASE SkipNew
  BY <1>7, NotSearching DEF SkipNew, InNarrow, Searching
<1>8. CASE SkipOldForResult
  BY <1>8, NotSearching DEF SkipOldForResult, InNarrow, Searching
<1>9. CASE DropResult
  BY <1>9, NotSearching DEF DropResult, InNarrow, Searching
<1>10. CASE NarrowResult
  BY <1>10, NotSearching DEF NarrowResult, InNarrow, Crash, Searching
<1>11. CASE Finish
  BY <1>11, NotSearching DEF Finish, Searching
<1>12. CASE UNCHANGED vars
  BY <1>12 DEF vars, IInv, GivenOK, CountersOK, Behind, Searching, NewRegion, given
<1> QED
  BY <1>1, <1>2, <1>3, <1>4, <1>5, <1>6, <1>7, <1>8, <1>9, <1>10, <1>11, <1>12
     DEF Next, Returned

\* The invariant that carries the order of the results.
THEOREM Inductive == Spec => []IInv
BY InitIInv, NextIInv, PTL DEF Spec

\* The loops of a first and of a second search find their results in ascending order,
\* each before the cursor, for all snapshots, types and values (MemorySearch::update).
THEOREM ResultsAscend == Spec => []AscendingSoFar
<1>1. IInv => AscendingSoFar
  BY DEF IInv, Behind, AscendingSoFar, Below
<1> QED BY <1>1, Inductive, PTL

----------------------------------------------------------------------------
(* Comparisons read inside the data. *)

\* what the arguments of update are like, for a search for numbers
ArgumentsOK ==
  /\ search.type \in AllTypes /\ value \in Seq(Byte)
  /\ search.type # "data" => Len(value) \in {0, Field}
  /\ IsSnapshot(new) /\ WholeFields(search.type, new)
  /\ pc = "first" => value # NoValue
  /\ pc \in {"second", "narrow"} =>
       IsSnapshot(search.memory) /\ WholeFields(search.type, search.memory)

\* the cursors stand in the regions, and a field begins at y
CursorsOK ==
  /\ new_region_index \in Nat \ {0} /\ old_region_index \in Nat \ {0}
  /\ y \in Nat
  /\ pc \in {"first", "second"} => Aligned(search.type, y)

\* the results still to be narrowed are as the last search has left them, and the old
\* cursor has passed no region that holds one of them
Remaining ==
  pc = "narrow" =>
    /\ k \in Nat \ {0} /\ results \in Seq(Nat)
    /\ \A i \in DOMAIN results : i >= k =>
         /\ results[i] \in Readable(search.memory) /\ Aligned(search.type, results[i])
         /\ results[k] <= results[i]
         /\ \A j \in DOMAIN search.memory :
              j < old_region_index => EndAddr(search.memory[j]) <= results[i]
    /\ \A i, j \in DOMAIN results : k <= i /\ i < j => results[i] < results[j]

Reads == ArgumentsOK /\ CursorsOK /\ Remaining /\ IntegersReadInside

LEMMA AlignedSums ==
  ASSUME NEW type \in AllTypes, NEW m \in Nat, NEW n \in Nat,
         Aligned(type, m), Aligned(type, n)
  PROVE  /\ Aligned(type, m + n)
         /\ m <= n => Aligned(type, n - m)
         /\ m < n => m + FieldSize(type) <= n
<1>1. FieldSize(type) = 1 \/ FieldSize(type) = 2
  BY DEF AllTypes, FieldSize, Config
<1>2. CASE FieldSize(type) = 1
  BY <1>2 DEF Aligned
<1>3. CASE FieldSize(type) = 2
  BY <1>3 DEF Aligned
<1> QED BY <1>1, <1>2, <1>3

LEMMA FieldAligned == \A type \in AllTypes : Aligned(type, FieldSize(type)) /\ Aligned(type, 0)
BY FieldSizes DEF Aligned, AllTypes, FieldSize, Config

\* A field that begins in a region with data lies in its data.
LEMMA FieldFits ==
  ASSUME NEW type \in AllTypes, NEW snap, IsSnapshot(snap), WholeFields(type, snap),
         NEW i \in DOMAIN snap, snap[i].data # <<>>,
         NEW a \in Nat, Aligned(type, a), snap[i].addr <= a, a < EndAddr(snap[i])
  PROVE  Fits(snap[i], a, FieldSize(type))
<1>1. /\ snap[i].addr \in Nat /\ snap[i].size \in Nat \ {0}
      /\ EndAddr(snap[i]) \in Nat /\ EndAddr(snap[i]) = snap[i].addr + snap[i].size
      /\ snap[i].data \in Seq(Byte)
  BY RegionFacts
<1>2. Len(snap[i].data) = snap[i].size
  <2>1. Len(snap[i].data) \in {0, snap[i].size}
    BY DEF IsSnapshot
  <2>2. Len(snap[i].data) # 0
    BY <1>1, EmptySeq
  <2> QED BY <2>1, <2>2
<1>3. Aligned(type, EndAddr(snap[i]))
  BY <1>1, AlignedSums DEF WholeFields
<1>4. a + FieldSize(type) <= EndAddr(snap[i])
  BY <1>1, <1>3, AlignedSums
<1> QED BY <1>1, <1>2, <1>4, FieldSizes DEF Fits

\* A comparison of a number looks at one field (evaluators ignore the size).
LEMMA ComparedField ==
  ASSUME ArgumentsOK, search.type # "data"
  PROVE  Compared = Field
BY DEF ArgumentsOK, Compared, Width, Field

\* The new region the cursor stands in is one of the snapshot's.
LEMMA AtRegion ==
  ASSUME Reads, new_region_index <= Len(new)
  PROVE  /\ new_region_index \in DOMAIN new
         /\ NewRegion.addr \in Nat /\ NewRegion.size \in Nat \ {0}
         /\ EndAddr(NewRegion) = NewRegion.addr + NewRegion.size
         /\ Aligned(search.type, NewRegion.addr) /\ Aligned(search.type, NewRegion.size)
<1>1. IsSnapshot(new) /\ new_region_index \in Nat \ {0} /\ WholeFields(search.type, new)
  BY DEF Reads, ArgumentsOK, CursorsOK
<1>2. new_region_index \in DOMAIN new
  BY <1>1, SnapshotDomain
<1> QED BY <1>1, <1>2, RegionFacts DEF NewRegion, WholeFields

\* and an aligned offset in it is an aligned address
LEMMA FieldInRegion ==
  ASSUME Reads, new_region_index <= Len(new),
         y \in Nat, Aligned(search.type, y), y < NewRegion.size
  PROVE  /\ NewRegion.addr + y \in Nat /\ NewRegion.addr <= NewRegion.addr + y
         /\ NewRegion.addr + y < EndAddr(NewRegion)
         /\ Aligned(search.type, NewRegion.addr + y)
<1>1. /\ NewRegion.addr \in Nat /\ NewRegion.size \in Nat
      /\ EndAddr(NewRegion) = NewRegion.addr + NewRegion.size
      /\ Aligned(search.type, NewRegion.addr)
  BY AtRegion
<1>2. Aligned(search.type, NewRegion.addr + y)
  <2>1. search.type \in AllTypes
    BY DEF Reads, ArgumentsOK
  <2> QED BY <1>1, <2>1, AlignedSums
<1> QED BY <1>1, <1>2

LEMMA AtOldRegion ==
  ASSUME Reads, pc \in {"second", "narrow"}, ~NoOldLeft
  PROVE  /\ old_region_index \in DOMAIN search.memory
         /\ OldRegion.addr \in Nat /\ OldRegion.size \in Nat \ {0}
         /\ EndAddr(OldRegion) = OldRegion.addr + OldRegion.size
         /\ OldRegion.data \in Seq(Byte)
         /\ Aligned(search.type, OldRegion.addr) /\ Aligned(search.type, OldRegion.size)
<1>1. /\ IsSnapshot(search.memory) /\ WholeFields(search.type, search.memory)
      /\ old_region_index \in Nat \ {0}
  BY DEF Reads, ArgumentsOK, CursorsOK
<1>2. old_region_index \in DOMAIN search.memory
  BY <1>1, SnapshotDomain DEF NoOldLeft
<1> QED BY <1>1, <1>2, RegionFacts DEF OldRegion, WholeFields

\* A first search stops before the last field of a region (y < region.size - data.size()).
LEMMA FirstInside ==
  ASSUME Reads, search.type # "data", pc = "first", new_region_index <= Len(new), ~FirstEnds
  PROVE  Inside(NewRegion.addr + y)
<1> DEFINE a == NewRegion.addr + y
<1>1. /\ y \in Nat /\ Aligned(search.type, y) /\ search.type \in AllTypes
      /\ IsSnapshot(new) /\ WholeFields(search.type, new)
  BY DEF Reads, CursorsOK, ArgumentsOK
<1>2. Len(value) = Field /\ Field \in Nat \ {0}
  <2>1. Len(value) # 0
    BY EmptySeq DEF Reads, ArgumentsOK, NoValue
  <2> QED BY <2>1, FieldSizes DEF Reads, ArgumentsOK, Field
<1>3. Field <= NewRegion.size
  <2>1. Aligned(search.type, 0) /\ Aligned(search.type, NewRegion.size)
    BY <1>1, AtRegion, FieldAligned
  <2>2. 0 \in Nat /\ NewRegion.size \in Nat /\ 0 < NewRegion.size
    BY AtRegion
  <2>3. 0 + FieldSize(search.type) <= NewRegion.size
    BY <1>1, <2>1, <2>2, AlignedSums
  <2> QED BY <1>2, <2>3 DEF Field
<1>4. y < NewRegion.size
  <2>1. NewRegion.size - Field \in Nat /\ NewRegion.size \in Nat
    BY <1>2, <1>3, AtRegion
  <2>2. \A n \in Nat : n % AddrSpace <= n /\ n % AddrSpace \in Nat
    BY AddrSpaceAssumption
  <2>3. FirstBound <= NewRegion.size - Field /\ FirstBound \in Nat
    BY <1>2, <2>1, <2>2 DEF FirstBound
  <2>4. y < FirstBound
    BY <1>1, <2>3 DEF FirstEnds
  <2> QED BY <1>1, <1>2, <2>1, <2>3, <2>4
<1>5. a \in Nat /\ NewRegion.addr <= a /\ a < EndAddr(NewRegion) /\ Aligned(search.type, a)
  BY <1>1, <1>4, FieldInRegion
<1>6. NewRegion.data # <<>>
  BY DEF FirstEnds
<1>7. new_region_index \in DOMAIN new
  BY AtRegion
<1> HIDE DEF a
<1>8. Fits(NewRegion, a, Field)
  BY <1>1, <1>5, <1>6, <1>7, FieldFits DEF NewRegion, Field
<1>9. Fits(NewRegion, a, Compared)
  BY <1>8, ComparedField DEF Reads
<1> QED BY <1>9 DEF Inside, a

\* A second search compares where both regions have been read.
LEMMA SecondInside ==
  ASSUME Reads, search.type # "data", InSecond, ~NoOldLeft,
         ~OldSkippable(NewRegion.addr + y), NewRegion.addr + y >= OldRegion.addr
  PROVE  Inside(NewRegion.addr + y)
<1> DEFINE a == NewRegion.addr + y
<1>0. pc = "second" /\ new_region_index <= Len(new) /\ NewRegion.data # <<>>
  BY DEF InSecond
<1>1. /\ y \in Nat /\ Aligned(search.type, y) /\ search.type \in AllTypes
      /\ IsSnapshot(new) /\ WholeFields(search.type, new)
      /\ IsSnapshot(search.memory) /\ WholeFields(search.type, search.memory)
  BY <1>0 DEF Reads, CursorsOK, ArgumentsOK
<1>2. a \in Nat /\ NewRegion.addr <= a /\ a < EndAddr(NewRegion) /\ Aligned(search.type, a)
  BY <1>0, <1>1, FieldInRegion DEF InSecond
<1>3. OldRegion.data # <<>> /\ OldRegion.addr <= a /\ a < EndAddr(OldRegion)
  BY <1>0, <1>2, AtOldRegion DEF OldSkippable
<1> HIDE DEF a
<1>4. Fits(NewRegion, a, Field)
  BY <1>0, <1>1, <1>2, AtRegion, FieldFits DEF NewRegion, Field
<1>5. Fits(OldRegion, a, Field)
  BY <1>0, <1>1, <1>2, <1>3, AtOldRegion, FieldFits DEF OldRegion, Field
<1>6. Compared = Field
  BY ComparedField DEF Reads
<1> QED BY <1>4, <1>5, <1>6 DEF Inside, a

\* A result to be narrowed lies in a region the last search has read, and the old
\* cursor stands there.
LEMMA NarrowInside ==
  ASSUME Reads, search.type # "data", InNarrow, ~NewBefore(results[k]), ~OldBefore(results[k]),
         Comparable(results[k])
  PROVE  Inside(results[k])
<1> DEFINE a == results[k]
<1>0. /\ pc = "narrow" /\ k \in DOMAIN results /\ new_region_index <= Len(new) /\ ~NoOldLeft
      /\ NewRegion.addr <= a /\ OldRegion.addr <= a /\ NewRegion.data # <<>>
      /\ k \in Nat \ {0} /\ results \in Seq(Nat)
  BY DEF InNarrow, Comparable, Reads, Remaining
<1>1. /\ search.type \in AllTypes
      /\ IsSnapshot(new) /\ WholeFields(search.type, new)
      /\ IsSnapshot(search.memory) /\ WholeFields(search.type, search.memory)
  BY <1>0 DEF Reads, ArgumentsOK
<1>2. /\ a \in Nat /\ Aligned(search.type, a) /\ a \in Readable(search.memory)
      /\ \A j \in DOMAIN search.memory : j < old_region_index => EndAddr(search.memory[j]) <= a
  BY <1>0 DEF Reads, Remaining
<1>3. a < EndAddr(NewRegion) /\ a < EndAddr(OldRegion)
  <2>1. EndAddr(NewRegion) \in Nat
    BY <1>0, AtRegion
  <2>2. EndAddr(OldRegion) \in Nat
    BY <1>0, AtOldRegion
  <2>3. ~ (EndAddr(NewRegion) <= a) /\ ~ (EndAddr(OldRegion) <= a)
    BY <1>0 DEF NewBefore, OldBefore
  <2> QED BY <1>2, <2>1, <2>2, <2>3
<1> HIDE DEF a
<1>4. OldRegion.data # <<>>
  <2>1. PICK j \in DOMAIN search.memory :
          search.memory[j].data # <<>> /\ a \in RegionCells(search.memory[j])
    BY <1>2 DEF Readable
  <2>2. /\ search.memory[j].addr \in Nat /\ EndAddr(search.memory[j]) \in Nat
    BY <1>1, RegionFacts
  <2>3. search.memory[j].addr <= a /\ a < EndAddr(search.memory[j])
    BY <1>2, <2>1, <2>2 DEF RegionCells
  <2>4. old_region_index \in DOMAIN search.memory /\ j \in Nat /\ old_region_index \in Nat
    BY <1>0, <1>1, AtOldRegion, SnapshotDomain
  <2>5. ~ (j < old_region_index)
    BY <1>2, <2>2, <2>3
  <2>6. ~ (old_region_index < j)
    <3> SUFFICES ASSUME old_region_index < j PROVE FALSE
      OBVIOUS
    <3>1. EndAddr(OldRegion) <= search.memory[j].addr
      BY <1>1, <2>4 DEF IsSnapshot, OldRegion
    <3> QED BY <1>0, <1>2, <1>3, <2>2, <2>3, <3>1, AtOldRegion
  <2>7. j = old_region_index
    BY <2>4, <2>5, <2>6
  <2> QED BY <2>1, <2>7 DEF OldRegion
<1>5. Fits(NewRegion, a, Field)
  BY <1>0, <1>1, <1>2, <1>3, AtRegion, FieldFits DEF NewRegion, Field
<1>6. Fits(OldRegion, a, Field)
  BY <1>0, <1>1, <1>2, <1>3, <1>4, AtOldRegion, FieldFits DEF OldRegion, Field
<1>7. Compared = Field
  BY ComparedField DEF Reads
<1> QED BY <1>5, <1>6, <1>7 DEF Inside, a

LEMMA InitReads == Init => Reads
<1> SUFFICES ASSUME Init PROVE Reads
  OBVIOUS
<1>1. PICK f \in Families :
        search \in f.searches /\ new \in f.snapshots /\ op \in f.ops /\ value \in f.values
  BY DEF Init
<1>2. /\ IsSearch(search) /\ IsSnapshot(new) /\ value \in Seq(Byte)
      /\ WholeFields(search.type, new)
  BY <1>1, FamiliesAssumption
<1>3. /\ pc = "first" => ~HasMemory(search) /\ value # NoValue
      /\ pc \in {"second", "narrow"} => HasMemory(search)
      /\ search.type # "data" => Len(value) \in {0, Field}
  BY DEF Init, CanUpdate, Field
<1>4. ArgumentsOK
  BY <1>2, <1>3 DEF ArgumentsOK, IsSearch
<1>5. CursorsOK
  BY <1>2, FieldAligned DEF CursorsOK, Init, IsSearch
<1>6. Remaining
  <2>1. k = 1 /\ results = search.results /\ old_region_index = 1
    BY DEF Init
  <2>2. /\ results \in Seq(Nat)
        /\ \A i, j \in DOMAIN results : i < j => results[i] < results[j]
        /\ \A i \in DOMAIN results :
             results[i] \in Readable(search.memory) /\ Aligned(search.type, results[i])
    BY <1>2, <2>1 DEF IsSearch, Ordered
  <2>3. \A i \in DOMAIN results : i \in 1..Len(results) /\ 1 \in DOMAIN results
                                 /\ results[i] \in Nat /\ results[1] \in Nat
    BY <2>2
  <2>4. \A i \in DOMAIN results : results[1] <= results[i]
    BY <2>2, <2>3
  <2>5. pc = "narrow" => \A j \in DOMAIN search.memory : j \in Nat \ {0}
    BY <1>4, SnapshotDomain DEF ArgumentsOK
  <2> QED BY <2>1, <2>2, <2>3, <2>4, <2>5 DEF Remaining
<1>7. IntegersReadInside
  BY DEF Init, IntegersReadInside
<1> QED BY <1>4, <1>5, <1>6, <1>7 DEF Reads

\* An update is over, or has read further: no cursor matters any more.
LEMMA ReadsEnd ==
  ASSUME Reads, UNCHANGED <<given, new_region_index, old_region_index, y>>,
         pc' \in {"done", "crashed"}, overread' = overread
  PROVE  Reads'
BY DEF Reads, ArgumentsOK, CursorsOK, Remaining, IntegersReadInside, given, Field

\* a crash is a comparison that reads outside
LEMMA ReadsCrash ==
  ASSUME Reads, NEW a, Crash(a), search.type # "data" => Inside(a)
  PROVE  Reads'
BY DEF Crash, Reads, ArgumentsOK, CursorsOK, Remaining, IntegersReadInside, given, Field

\* the loops of a first or a second search leave the result cursor alone
LEMMA ReadsSearching ==
  ASSUME Reads, UNCHANGED <<given, pc, overread>>, pc \in {"first", "second"},
         new_region_index' \in Nat \ {0}, old_region_index' \in Nat \ {0},
         y' \in Nat, Aligned(search.type, y')
  PROVE  Reads'
<1>1. Aligned(search.type, y)'
  BY DEF given
<1> QED BY <1>1 DEF Reads, ArgumentsOK, CursorsOK, Remaining, IntegersReadInside, given, Field

LEMMA ReadsNextRegion ==
  ASSUME Reads, pc \in {"first", "second"}, NextRegion,
         UNCHANGED <<given, pc, old_region_index, k, results, overread>>
  PROVE  Reads'
<1>1. search.type \in AllTypes /\ y' = 0 /\ new_region_index' \in Nat \ {0}
  BY DEF Reads, ArgumentsOK, CursorsOK, NextRegion
<1>2. y' \in Nat /\ Aligned(search.type, y')
  BY <1>1, FieldAligned
<1>3. old_region_index' \in Nat \ {0}
  BY DEF Reads, CursorsOK
<1> QED BY <1>1, <1>2, <1>3, ReadsSearching

LEMMA ReadsField ==
  ASSUME Reads, pc \in {"first", "second"}, NEW a, NEW hit, Compares(a, hit),
         search.type # "data" => Inside(a), y' = y + Field,
         UNCHANGED <<given, pc, new_region_index, old_region_index, k>>
  PROVE  Reads'
<1>1. /\ search.type \in AllTypes /\ y \in Nat /\ Aligned(search.type, y)
  BY DEF Reads, ArgumentsOK, CursorsOK
<1>2. y' \in Nat /\ Aligned(search.type, y')
  <2>1. Field \in Nat /\ Aligned(search.type, Field)
    BY <1>1, FieldSizes, FieldAligned DEF Field
  <2> QED BY <1>1, <2>1, AlignedSums
<1>3. Aligned(search.type, y)'
  BY <1>2 DEF given
<1>4. search.type # "data" => ~overread'
  BY DEF Compares, Reads, IntegersReadInside
<1> QED BY <1>2, <1>3, <1>4
         DEF Reads, ArgumentsOK, CursorsOK, Remaining, IntegersReadInside, given, Field

\* The old cursor passes a region that ends before the next result, and so before each
\* of those that remain.
LEMMA ReadsSkipOld ==
  ASSUME Reads, SkipOldForResult
  PROVE  Reads'
<1>1. pc = "narrow" /\ k \in DOMAIN results
  BY DEF SkipOldForResult, InNarrow, Reads, Remaining
<1>2. ~NoOldLeft /\ EndAddr(OldRegion) <= results[k]
  BY DEF SkipOldForResult, OldBefore
<1>3. /\ old_region_index' = old_region_index + 1
      /\ UNCHANGED <<given, pc, new_region_index, y, k, results, overread>>
  BY DEF SkipOldForResult
<1>4. EndAddr(OldRegion) \in Nat
  BY <1>1, <1>2, AtOldRegion
<1>5. /\ old_region_index \in Nat
      /\ \A j \in DOMAIN search.memory : j \in Nat
  BY <1>1, SnapshotDomain DEF Reads, ArgumentsOK, CursorsOK
<1>6. ASSUME NEW i \in DOMAIN results, i >= k,
             NEW j \in DOMAIN search.memory, j < old_region_index + 1
      PROVE  EndAddr(search.memory[j]) <= results[i]
  <2>1. CASE j = old_region_index
    <3>1. results[k] <= results[i] /\ results[i] \in Nat /\ results[k] \in Nat
      BY <1>1, <1>6 DEF Reads, Remaining
    <3> QED BY <1>2, <1>4, <2>1, <3>1 DEF OldRegion
  <2>2. CASE j < old_region_index
    BY <1>1, <1>6, <2>2 DEF Reads, Remaining
  <2> QED BY <1>5, <1>6, <2>1, <2>2
<1>7. Remaining'
  BY <1>1, <1>3, <1>6 DEF Reads, Remaining, given
<1> QED BY <1>1, <1>3, <1>5, <1>7
         DEF Reads, ArgumentsOK, CursorsOK, IntegersReadInside, given, Field

\* The next result is left alone or deleted; those after it are not touched.
LEMMA ReadsResult ==
  ASSUME Reads, InNarrow,
         results' \in {results, [results EXCEPT ![k] = 0]}, k' = k + 1,
         UNCHANGED <<given, pc, new_region_index, old_region_index, y>>,
         search.type # "data" => ~overread'
  PROVE  Reads'
<1>1. /\ pc = "narrow" /\ k \in Nat \ {0} /\ results \in Seq(Nat) /\ k \in DOMAIN results
      /\ \A i, j \in DOMAIN results : k <= i /\ i < j => results[i] < results[j]
  BY DEF Reads, Remaining, InNarrow
<1>2. /\ results' \in Seq(Nat) /\ DOMAIN results' = DOMAIN results
      /\ \A i \in DOMAIN results : i >= k + 1 => results'[i] = results[i]
  <2>1. CASE results' = results
    BY <1>1, <2>1
  <2>2. CASE results' = [results EXCEPT ![k] = 0]
    <3>1. DOMAIN results' = 1..Len(results) /\ DOMAIN results' = DOMAIN results
      BY <1>1, <2>2
    <3>2. \A i \in DOMAIN results : results'[i] = IF i = k THEN 0 ELSE results[i]
      BY <2>2
    <3>3. results' \in Seq(Nat)
      BY <1>1, <2>2
    <3>4. \A i \in DOMAIN results : i >= k + 1 => i # k
      BY <1>1
    <3> QED BY <3>1, <3>2, <3>3, <3>4
  <2> QED BY <2>1, <2>2
<1>3. \A i \in DOMAIN results : i \in 1..Len(results) /\ results[i] \in Nat
  BY <1>1
<1>4. ASSUME NEW i \in DOMAIN results, i >= k + 1
      PROVE  results'[k + 1] <= results'[i]
  <2>1. k + 1 \in DOMAIN results /\ k <= k + 1 /\ k + 1 >= k + 1
    BY <1>1, <1>3, <1>4
  <2>2. results'[k + 1] = results[k + 1] /\ results'[i] = results[i]
    BY <1>2, <1>4, <2>1
  <2>3. results[k + 1] \in Nat /\ results[i] \in Nat
    BY <1>3, <2>1
  <2>4. CASE i = k + 1
    BY <2>2, <2>3, <2>4
  <2>5. CASE k + 1 < i
    <3>1. results[k + 1] < results[i]
      BY <1>1, <2>1, <2>5
    <3> QED BY <2>2, <2>3, <3>1
  <2> QED BY <1>1, <1>3, <1>4, <2>4, <2>5
<1>5. ASSUME NEW i \in DOMAIN results, i >= k + 1
      PROVE  /\ results'[i] \in Readable(search.memory) /\ Aligned(search.type, results'[i])
             /\ \A j \in DOMAIN search.memory :
                  j < old_region_index => EndAddr(search.memory[j]) <= results'[i]
  <2>1. i >= k /\ results'[i] = results[i]
    BY <1>1, <1>2, <1>3, <1>5
  <2> QED BY <1>1, <2>1 DEF Reads, Remaining
<1>6. ASSUME NEW i \in DOMAIN results, NEW j \in DOMAIN results, k + 1 <= i, i < j
      PROVE  results'[i] < results'[j]
  <2>1. k <= i /\ i >= k + 1 /\ j >= k + 1
    BY <1>1, <1>3, <1>6
  <2>2. results'[i] = results[i] /\ results'[j] = results[j]
    BY <1>2, <2>1
  <2>3. results[i] < results[j]
    BY <1>1, <1>6, <2>1
  <2> QED BY <2>2, <2>3
<1>7. Remaining'
  BY <1>1, <1>2, <1>4, <1>5, <1>6 DEF Remaining, given
<1> QED BY <1>1, <1>7
         DEF Reads, ArgumentsOK, CursorsOK, IntegersReadInside, given, Field

LEMMA NextReads == Reads /\ [Next]_vars => Reads'
<1> SUFFICES ASSUME Reads, [Next]_vars PROVE Reads'
  OBVIOUS
<1>0. /\ search.type \in AllTypes /\ y \in Nat
      /\ new_region_index \in Nat \ {0} /\ old_region_index \in Nat \ {0}
  BY DEF Reads, ArgumentsOK, CursorsOK
<1>1. CASE FirstNext
  BY <1>1, ReadsNextRegion DEF FirstNext
<1>2. CASE FirstField
  <2>1. pc = "first" /\ (search.type # "data" => Inside(NewRegion.addr + y))
    BY <1>2, FirstInside DEF FirstField
  <2> QED BY <1>2, <2>1, ReadsCrash, ReadsField DEF FirstField
<1>3. CASE SkipOld
  <2>1. /\ pc = "second" /\ old_region_index' \in Nat \ {0}
        /\ UNCHANGED <<given, pc, new_region_index, y, k, results, overread>>
    BY <1>0, <1>3 DEF SkipOld, InSecond
  <2>2. Aligned(search.type, y')
    BY <2>1 DEF Reads, CursorsOK
  <2> QED BY <1>0, <2>1, <2>2, ReadsSearching
<1>4. CASE SecondNext
  BY <1>4, ReadsNextRegion DEF SecondNext
<1>5. CASE SecondJump
  <2>1. /\ pc = "second" /\ new_region_index <= Len(new) /\ ~NoOldLeft
        /\ NewRegion.addr + y < OldRegion.addr /\ y' = OldRegion.addr - NewRegion.addr
        /\ UNCHANGED <<given, pc, new_region_index, old_region_index, k, results, overread>>
    BY <1>5 DEF SecondJump, InSecond
  <2>2. /\ NewRegion.addr \in Nat /\ Aligned(search.type, NewRegion.addr)
        /\ OldRegion.addr \in Nat /\ Aligned(search.type, OldRegion.addr)
    BY <2>1, AtRegion, AtOldRegion
  <2>3. NewRegion.addr <= OldRegion.addr
    BY <1>0, <2>1, <2>2
  <2>4. y' \in Nat /\ Aligned(search.type, y')
    <3>1. Aligned(search.type, OldRegion.addr - NewRegion.addr)
      BY <1>0, <2>2, <2>3, AlignedSums
    <3> QED BY <2>1, <2>2, <2>3, <3>1
  <2> QED BY <1>0, <2>1, <2>4, ReadsSearching
<1>6. CASE SecondField
  <2>1. pc = "second" /\ (search.type # "data" => Inside(NewRegion.addr + y))
    BY <1>6, SecondInside DEF SecondField, InSecond
  <2> QED BY <1>6, <2>1, ReadsCrash, ReadsField DEF SecondField
<1>7. CASE SkipNew
  BY <1>0, <1>7 DEF SkipNew, InNarrow, Reads, ArgumentsOK, CursorsOK, Remaining,
                    IntegersReadInside, given, Field
<1>8. CASE SkipOldForResult
  BY <1>8, ReadsSkipOld
<1>9. CASE DropResult
  <2>1. search.type # "data" => ~overread'
    BY <1>9 DEF DropResult, Reads, IntegersReadInside
  <2> QED BY <1>9, <2>1, ReadsResult DEF DropResult
<1>10. CASE NarrowResult
  <2>1. search.type # "data" => Inside(results[k])
    BY <1>10, NarrowInside DEF NarrowResult
  <2>2. CASE Crash(results[k])
    BY <2>1, <2>2, ReadsCrash
  <2>3. ASSUME NEW hit \in BOOLEAN, Compares(results[k], hit),
               results' = IF hit THEN results ELSE [results EXCEPT ![k] = 0],
               k' = k + 1, UNCHANGED <<given, pc, new_region_index, old_region_index, y>>
        PROVE  Reads'
    <3>1. search.type # "data" => ~overread'
      BY <2>1, <2>3 DEF Compares, Reads, IntegersReadInside
    <3> QED BY <1>10, <2>3, <3>1, ReadsResult DEF NarrowResult
  <2> QED BY <1>10, <2>2, <2>3 DEF NarrowResult
<1>11. CASE Finish
  BY <1>11, ReadsEnd DEF Finish
<1>12. CASE UNCHANGED vars
  BY <1>12 DEF vars, Reads, ArgumentsOK, CursorsOK, Remaining, IntegersReadInside, given, Field
<1> QED
  BY <1>1, <1>2, <1>3, <1>4, <1>5, <1>6, <1>7, <1>8, <1>9, <1>10, <1>11, <1>12
     DEF Next, Returned

\* A search for numbers reads inside the data of both snapshots, for all layouts of their
\* regions, whichever of them could be read (MemorySearch::update).
THEOREM ReadsInside == Spec => []IntegersReadInside
<1>1. Reads => IntegersReadInside
  BY DEF Reads
<1> QED BY <1>1, InitReads, NextReads, PTL DEF Spec

----------------------------------------------------------------------------
(* What the loops compute: the fields that pass behind the cursor are the   *)
(* results so far, and Update makes the same list of all of them.           *)

\* which of the four cases of update this is
ModeOK ==
  /\ DOMAIN search = DOMAIN NewSearch(search.type) /\ search.results \in Seq(Nat)
  /\ pc = "first" => ~HasMemory(search) /\ op # "ALL"
  /\ pc = "second" => HasMemory(search) /\ ~search.results_valid
  /\ pc = "narrow" => HasMemory(search) /\ search.results_valid

\* the cursor has passed the field at a
Passed(a) ==
  \E i \in DOMAIN new :
    /\ a \in RegionCells(new[i])
    /\ i < new_region_index \/ (i = new_region_index /\ a < new[i].addr + y)

Listed(a) == \E i \in DOMAIN results : results[i] = a

\* what Update makes a list of, in a first, a second and a later search
FirstOne(a) ==
  /\ a \in Fields(search.type, new)
  /\ a + Len(value) < EndAddr(RegionAt(new, a))
  /\ Evaluate(search.type, op, BytesAt(new, a, Len(value)), value)

SecondOne(a) ==
  /\ a \in Fields(search.type, new) /\ a \in Readable(search.memory)
  /\ Holds(search, new, op, value, a)

NarrowOne(a) ==
  /\ a \in Readable(new) /\ a \in Covered(search.memory)
  /\ a # 0 /\ Holds(search, new, op, value, a)

\* a field that passes and is not a result came when the list was full
FirstComplete ==
  pc = "first" /\ ~overread =>
    /\ \A i \in DOMAIN results : FirstOne(results[i])
    /\ \A a \in Nat : Passed(a) /\ FirstOne(a) /\ ~Listed(a) =>
         MaxResults <= Len(results) /\ Below(results, a)
    /\ Len(results) <= MaxResults

\* the old region has no field at or after the cursor
OldPassed(j) ==
  \/ search.memory[j].data = <<>>
  \/ new_region_index <= Len(new) =>
       /\ EndAddr(search.memory[j]) <= NewRegion.addr + y
       /\ EndAddr(search.memory[j]) <= EndAddr(NewRegion)

SecondComplete ==
  pc = "second" /\ ~overread =>
    /\ \A i \in DOMAIN results : SecondOne(results[i])
    /\ \A a \in Nat : Passed(a) /\ SecondOne(a) => Listed(a)
    /\ \A j \in DOMAIN search.memory : j < old_region_index => OldPassed(j)

\* the results before the cursor are decided, the others are as they were; no new region
\* that the cursor has passed holds one of those
NarrowComplete ==
  pc = "narrow" /\ ~overread =>
    /\ Len(results) = Len(search.results)
    /\ \A i \in DOMAIN results :
         results[i] = IF i >= k \/ NarrowOne(search.results[i])
                      THEN search.results[i] ELSE 0
    /\ \A i \in DOMAIN results, j \in DOMAIN new :
         i >= k /\ j < new_region_index => EndAddr(new[j]) <= results[i]

Complete ==
  ModeOK /\ FirstComplete /\ SecondComplete /\ NarrowComplete /\ ComputesUpdate

\* The addresses of a region.
LEMMA CellsOf ==
  ASSUME NEW snap, IsSnapshot(snap), NEW i \in DOMAIN snap, NEW a
  PROVE  a \in RegionCells(snap[i]) <=>
           a \in Nat /\ snap[i].addr <= a /\ a < EndAddr(snap[i])
<1>1. snap[i].addr \in Nat /\ EndAddr(snap[i]) \in Nat
  BY RegionFacts
<1> QED BY <1>1 DEF RegionCells

\* No address is in two regions.
LEMMA OneRegion ==
  ASSUME NEW snap, IsSnapshot(snap), NEW i \in DOMAIN snap, NEW j \in DOMAIN snap,
         NEW a, a \in RegionCells(snap[i]), a \in RegionCells(snap[j])
  PROVE  i = j
<1>1. i \in Nat /\ j \in Nat
  BY SnapshotDomain
<1>2. /\ a \in Nat /\ snap[i].addr <= a /\ a < EndAddr(snap[i])
      /\ snap[j].addr <= a /\ a < EndAddr(snap[j])
  BY CellsOf
<1>3. /\ snap[i].addr \in Nat /\ EndAddr(snap[i]) \in Nat
      /\ snap[j].addr \in Nat /\ EndAddr(snap[j]) \in Nat
  BY RegionFacts
<1>4. /\ i < j => EndAddr(snap[i]) <= snap[j].addr
      /\ j < i => EndAddr(snap[j]) <= snap[i].addr
  BY DEF IsSnapshot
<1> QED BY <1>1, <1>2, <1>3, <1>4

\* RegionAt is the region that holds the address.
LEMMA RegionAtIs ==
  ASSUME NEW snap, IsSnapshot(snap), NEW i \in DOMAIN snap, snap[i].data # <<>>,
         NEW a, a \in RegionCells(snap[i])
  PROVE  RegionAt(snap, a) = snap[i]
<1> DEFINE P(j) == snap[j].data # <<>> /\ a \in RegionCells(snap[j])
           c == CHOOSE j \in DOMAIN snap : P(j)
<1>1. c \in DOMAIN snap /\ P(c)
  OBVIOUS
<1>2. c = i
  <2> HIDE DEF c
  <2> QED BY <1>1, OneRegion
<1> QED BY <1>2 DEF RegionAt

\* What it means for an address in a region to be a field, readable or covered.
LEMMA FieldsOf ==
  ASSUME NEW type, NEW snap, IsSnapshot(snap), NEW i \in DOMAIN snap,
         NEW a, a \in RegionCells(snap[i])
  PROVE  /\ a \in Fields(type, snap) <=>
              snap[i].data # <<>> /\ Aligned(type, a - snap[i].addr)
         /\ a \in Readable(snap) <=> snap[i].data # <<>>
         /\ a \in Covered(snap)
<1>1. \A j \in DOMAIN snap : a \in RegionCells(snap[j]) => j = i
  BY OneRegion
<1>2. a \in Fields(type, snap) <=>
        \E j \in DOMAIN snap : /\ snap[j].data # <<>> /\ a \in RegionCells(snap[j])
                               /\ (a - snap[j].addr) % FieldSize(type) = 0
  <2> DEFINE In(j) == {b \in RegionCells(snap[j]) : (b - snap[j].addr) % FieldSize(type) = 0}
             D == {j \in DOMAIN snap : snap[j].data # <<>>}
  <2>1. \A j \in D : a \in In(j) <=> /\ a \in RegionCells(snap[j])
                                     /\ (a - snap[j].addr) % FieldSize(type) = 0
    BY Zenon
  <2>2. Fields(type, snap) = UNION {In(j) : j \in D}
    BY Zenon DEF Fields
  <2>3. \A j : j \in D <=> j \in DOMAIN snap /\ snap[j].data # <<>>
    BY Zenon
  <2>4. a \in Fields(type, snap) <=> \E j \in D : a \in In(j)
    <3> HIDE DEF In, D
    <3> QED BY Zenon, <2>2
  <2> HIDE DEF In, D
  <2> QED BY Zenon, <2>1, <2>3, <2>4
<1>3. a \in Readable(snap) <=>
        \E j \in DOMAIN snap : snap[j].data # <<>> /\ a \in RegionCells(snap[j])
  BY Zenon DEF Readable
<1>4. a \in Covered(snap) <=> \E j \in DOMAIN snap : a \in RegionCells(snap[j])
  BY Zenon DEF Covered
<1> QED BY <1>1, <1>2, <1>3, <1>4 DEF Aligned

\* Such an address is in a region.
LEMMA RegionOf ==
  ASSUME NEW type, NEW snap, IsSnapshot(snap), NEW a,
         a \in Fields(type, snap) \/ a \in Readable(snap) \/ a \in Covered(snap)
  PROVE  /\ \E i \in DOMAIN snap : a \in RegionCells(snap[i])
         /\ a \in Nat /\ a <= AddrSpace
<1>1. PICK i \in DOMAIN snap : a \in RegionCells(snap[i])
  BY Zenon DEF Fields, Readable, Covered
<1>2. /\ a \in Nat /\ a < EndAddr(snap[i]) /\ EndAddr(snap[i]) \in Nat
      /\ EndAddr(snap[i]) <= AddrSpace
  BY <1>1, CellsOf, RegionFacts
<1> QED BY <1>1, <1>2, AddrSpaceAssumption

\* The region the cursor has come to is the one that holds the address.
LEMMA CursorAt ==
  ASSUME NEW snap, IsSnapshot(snap), NEW c \in Nat \ {0}, NEW a,
         \A j \in DOMAIN snap : j < c => EndAddr(snap[j]) <= a,
         c \in DOMAIN snap => a < EndAddr(snap[c]),
         NEW i \in DOMAIN snap, a \in RegionCells(snap[i])
  PROVE  i = c
<1>1. /\ i \in Nat /\ a \in Nat /\ snap[i].addr <= a /\ a < EndAddr(snap[i])
      /\ snap[i].addr \in Nat /\ EndAddr(snap[i]) \in Nat
  BY SnapshotDomain, CellsOf, RegionFacts
<1>2. ~(i < c)
  BY <1>1
<1>3. ASSUME c < i PROVE FALSE
  <2>1. c \in DOMAIN snap
    BY <1>1, <1>3, SnapshotDomain
  <2>2. EndAddr(snap[c]) <= snap[i].addr /\ EndAddr(snap[c]) \in Nat
    BY <1>3, <2>1, RegionFacts DEF IsSnapshot
  <2> QED BY <1>1, <2>1, <2>2
<1> QED BY <1>1, <1>2, <1>3

\* A comparison that stays inside compares what Update compares.
LEMMA PassesIs ==
  ASSUME Reads, new_region_index <= Len(new), NEW a,
         a \in RegionCells(NewRegion), NewRegion.data # <<>>,
         value = NoValue => /\ pc \in {"second", "narrow"} /\ ~NoOldLeft
                            /\ a \in RegionCells(OldRegion) /\ OldRegion.data # <<>>
  PROVE  /\ RegionAt(new, a) = NewRegion
         /\ Passes(a) = Holds(search, new, op, value, a)
<1>1. RegionAt(new, a) = NewRegion
  <2>1. IsSnapshot(new) /\ new_region_index \in DOMAIN new
    BY AtRegion DEF Reads, ArgumentsOK
  <2> QED BY <2>1, RegionAtIs DEF NewRegion
<1>2. value = NoValue => RegionAt(search.memory, a) = OldRegion
  <2>1. SUFFICES ASSUME value = NoValue PROVE RegionAt(search.memory, a) = OldRegion
    OBVIOUS
  <2>2. IsSnapshot(search.memory) /\ old_region_index \in DOMAIN search.memory
    BY <2>1, AtOldRegion DEF Reads, ArgumentsOK
  <2> QED BY <2>1, <2>2, RegionAtIs DEF OldRegion
<1> QED BY <1>1, <1>2 DEF Passes, Holds, Compared, BytesAt

\* Nothing but the cursors decides what they have passed.
LEMMA PassedOn ==
  ASSUME Reads, UNCHANGED given,
         new_region_index' = new_region_index \/ NextRegion,
         NEW a, Passed(a)'
  PROVE  \/ Passed(a)
         \/ /\ new_region_index \in DOMAIN new /\ new_region_index <= Len(new)
            /\ a \in RegionCells(NewRegion) /\ a \in Nat /\ NewRegion.addr + y <= a
            /\ a < EndAddr(NewRegion)
            /\ new_region_index' = new_region_index => a < NewRegion.addr + y'
<1>1. IsSnapshot(new) /\ new_region_index \in Nat \ {0} /\ y \in Nat
  BY DEF Reads, ArgumentsOK, CursorsOK
<1>2. PICK i \in DOMAIN new :
        /\ a \in RegionCells(new[i])
        /\ i < new_region_index' \/ (i = new_region_index' /\ a < new[i].addr + y')
  BY DEF Passed, given
<1>3. /\ i \in Nat /\ a \in Nat /\ new[i].addr <= a /\ a < EndAddr(new[i])
      /\ new[i].addr \in Nat /\ i <= Len(new)
  BY <1>1, <1>2, SnapshotDomain, CellsOf, RegionFacts
<1>4. i < new_region_index \/ i = new_region_index
  BY <1>1, <1>2, <1>3 DEF NextRegion
<1>5. CASE i < new_region_index \/ a < new[i].addr + y
  BY <1>2, <1>4, <1>5 DEF Passed
<1>6. CASE i = new_region_index /\ new[i].addr + y <= a
  BY <1>1, <1>2, <1>3, <1>6 DEF NewRegion
<1> QED BY <1>1, <1>3, <1>4, <1>5, <1>6

\* One field is passed by a comparison.
LEMMA OneField ==
  ASSUME Reads, pc \in {"first", "second"}, new_region_index <= Len(new),
         NEW a \in Nat, a \in RegionCells(NewRegion), a \in Fields(search.type, new),
         NewRegion.addr + y <= a, a < NewRegion.addr + (y + Field)
  PROVE  a = NewRegion.addr + y
<1>1. /\ IsSnapshot(new) /\ search.type \in AllTypes /\ y \in Nat /\ Aligned(search.type, y)
  BY DEF Reads, ArgumentsOK, CursorsOK
<1>2. new_region_index \in DOMAIN new /\ NewRegion.addr \in Nat
  BY AtRegion
<1>3. Aligned(search.type, a - NewRegion.addr)
  BY <1>1, <1>2, FieldsOf DEF NewRegion
<1> DEFINE d == a - NewRegion.addr
<1>4. d \in Nat /\ y <= d /\ d < y + Field
  BY <1>1, <1>2, FieldSizes DEF Field
<1>5. y < d => y + Field <= d
  <2> HIDE DEF d
  <2> QED BY <1>1, <1>3, <1>4, AlignedSums DEF d, Field
<1>6. y = d
  <2>1. Field \in Nat
    BY <1>1, FieldSizes DEF Field
  <2> HIDE DEF d
  <2> QED BY <1>1, <1>4, <1>5, <2>1
<1> QED BY <1>2, <1>6

\* The field at the cursor.
LEMMA FieldHere ==
  ASSUME Reads, pc \in {"first", "second"}, new_region_index <= Len(new),
         y < NewRegion.size, NewRegion.data # <<>>
  PROVE  /\ NewRegion.addr + y \in Nat
         /\ NewRegion.addr + y \in RegionCells(NewRegion)
         /\ NewRegion.addr + y \in Fields(search.type, new)
<1>1. IsSnapshot(new) /\ y \in Nat /\ Aligned(search.type, y)
  BY DEF Reads, ArgumentsOK, CursorsOK
<1>2. new_region_index \in DOMAIN new /\ NewRegion.addr \in Nat /\ NewRegion.size \in Nat
      /\ EndAddr(NewRegion) = NewRegion.addr + NewRegion.size
  BY AtRegion
<1> DEFINE a == NewRegion.addr + y
<1>3. a \in Nat /\ NewRegion.addr <= a /\ a < EndAddr(NewRegion) /\ a - NewRegion.addr = y
  BY <1>1, <1>2
<1> HIDE DEF a
<1>4. a \in RegionCells(NewRegion)
  BY <1>1, <1>2, <1>3, CellsOf DEF NewRegion
<1>5. a \in Fields(search.type, new)
  BY <1>1, <1>2, <1>3, <1>4, FieldsOf DEF NewRegion
<1> QED BY <1>3, <1>4, <1>5 DEF a

\* No step changes what is asked for.
LEMMA SameOnes ==
  ASSUME UNCHANGED given
  PROVE  \A a : /\ FirstOne(a)' <=> FirstOne(a)
                /\ SecondOne(a)' <=> SecondOne(a)
                /\ NarrowOne(a)' <=> NarrowOne(a)
BY DEF given, FirstOne, SecondOne, NarrowOne

----------------------------------------------------------------------------
(* The first search. *)

\* A field a first search takes lies before the bound of its region.
LEMMA FirstOneBelowBound ==
  ASSUME Reads, pc = "first", new_region_index <= Len(new),
         NEW a, a \in RegionCells(NewRegion), FirstOne(a)
  PROVE  NewRegion.data # <<>> /\ a - NewRegion.addr < FirstBound
<1>1. IsSnapshot(new) /\ Len(value) \in Nat \ {0}
  <2>1. value \in Seq(Byte) /\ value # NoValue
    BY DEF Reads, ArgumentsOK
  <2> QED BY <2>1, EmptySeq DEF Reads, ArgumentsOK, NoValue
<1>2. /\ new_region_index \in DOMAIN new /\ NewRegion.addr \in Nat /\ NewRegion.size \in Nat
      /\ EndAddr(NewRegion) = NewRegion.addr + NewRegion.size
  BY AtRegion
<1>3. NewRegion.data # <<>>
  BY <1>1, <1>2, FieldsOf DEF FirstOne, NewRegion
<1>4. RegionAt(new, a) = NewRegion
  BY <1>1, <1>2, <1>3, RegionAtIs DEF NewRegion
<1>5. a \in Nat /\ NewRegion.addr <= a /\ EndAddr(NewRegion) <= AddrSpace
  BY <1>1, <1>2, CellsOf, RegionFacts DEF NewRegion
<1>6. a + Len(value) < EndAddr(NewRegion)
  BY <1>4 DEF FirstOne
<1> DEFINE room == NewRegion.size - Len(value)
<1>7. room \in Nat /\ room < AddrSpace /\ a - NewRegion.addr < room
  BY <1>1, <1>2, <1>5, <1>6, AddrSpaceAssumption
<1>8. room % AddrSpace = room
  <2> HIDE DEF room
  <2> QED BY <1>7, AddrSpaceAssumption
<1> QED BY <1>3, <1>7, <1>8 DEF FirstBound

\* A comparison of the first search that stays inside decides the field at the cursor.
LEMMA FirstDecides ==
  ASSUME Reads, pc = "first", new_region_index <= Len(new), ~FirstEnds,
         y < NewRegion.size, Inside(NewRegion.addr + y)
  PROVE  FirstOne(NewRegion.addr + y) <=> Passes(NewRegion.addr + y)
<1>1. /\ IsSnapshot(new) /\ value \in Seq(Byte) /\ value # NoValue
      /\ search.type # "data" => Len(value) \in {0, Field}
      /\ y \in Nat
  BY DEF Reads, ArgumentsOK, CursorsOK
<1>2. Len(value) \in Nat \ {0}
  BY <1>1, EmptySeq DEF NoValue
<1>3. NewRegion.data # <<>> /\ ~(y >= FirstBound)
  BY DEF FirstEnds
<1> DEFINE a == NewRegion.addr + y
<1>4. /\ new_region_index \in DOMAIN new /\ NewRegion.addr \in Nat
      /\ NewRegion.size \in Nat \ {0} /\ EndAddr(NewRegion) = NewRegion.addr + NewRegion.size
  BY AtRegion
<1>5. a \in Nat /\ a \in RegionCells(NewRegion) /\ a \in Fields(search.type, new)
  BY <1>3, FieldHere
<1>6. Compared = Len(value)
  BY <1>1, <1>2 DEF Compared, Width, Field
<1>7. /\ RegionAt(new, a) = NewRegion
      /\ Passes(a) = Holds(search, new, op, value, a)
  <2> HIDE DEF a
  <2> QED BY <1>1, <1>3, <1>5, PassesIs
<1>8. Holds(search, new, op, value, a)
        = Evaluate(search.type, op, BytesAt(new, a, Len(value)), value)
  <2> HIDE DEF a
  <2> QED BY <1>1, <1>6 DEF Holds, Compared
<1>9. a + Len(value) < EndAddr(RegionAt(new, a))
  <2>1. y + Len(value) <= Len(NewRegion.data) /\ Len(NewRegion.data) <= NewRegion.size
        /\ Len(NewRegion.data) \in Nat /\ EndAddr(NewRegion) <= AddrSpace
    <3>1. /\ Len(NewRegion.data) <= NewRegion.size /\ NewRegion.data \in Seq(Byte)
          /\ EndAddr(NewRegion) <= AddrSpace
      BY <1>1, <1>4, RegionFacts DEF NewRegion
    <3>2. a - NewRegion.addr = y
      BY <1>1, <1>4
    <3>3. y + Len(value) <= Len(NewRegion.data)
      BY <1>6, <3>2 DEF Inside, Fits
    <3> QED BY <3>1, <3>3
  <2> DEFINE room == NewRegion.size - Len(value)
  <2>2. room \in Nat /\ room < AddrSpace
    BY <1>1, <1>2, <1>4, <2>1, AddrSpaceAssumption
  <2>3. room % AddrSpace = room
    <3> HIDE DEF room
    <3> QED BY <2>2, AddrSpaceAssumption
  <2>4. y < room
    BY <1>1, <1>3, <2>2, <2>3 DEF FirstBound
  <2>5. a + Len(value) < EndAddr(NewRegion)
    BY <1>1, <1>2, <1>4, <2>4
  <2> QED BY <1>7, <2>5
<1>10. FirstOne(a) <=> Passes(a)
  <2> HIDE DEF a
  <2> QED BY <1>5, <1>7, <1>8, <1>9 DEF FirstOne
<1> QED BY <1>10 DEF a

\* The first search goes on to the next region: what it leaves out is no match, or the
\* list is full.
LEMMA FirstNextComplete ==
  ASSUME IInv, Reads, FirstComplete, FirstNext
  PROVE  FirstComplete'
<1>1. /\ pc = "first" /\ new_region_index <= Len(new) /\ FirstEnds /\ NextRegion
      /\ UNCHANGED <<given, pc, old_region_index, k, results, overread>>
  BY DEF FirstNext
<1>2. results \in Seq(Nat) /\ Len(results) \in Nat /\ y \in Nat
  BY <1>1 DEF IInv, CountersOK, Searching
<1> SUFFICES ASSUME ~overread PROVE FirstComplete'
  BY <1>1 DEF FirstComplete
<1>3. ASSUME NEW a \in Nat, Passed(a)', FirstOne(a), ~Listed(a)
      PROVE  MaxResults <= Len(results) /\ Below(results, a)
  <2>1. CASE Passed(a)
    BY <1>1, <1>3, <2>1 DEF FirstComplete
  <2>2. CASE ~Passed(a)
    <3>1. /\ new_region_index \in DOMAIN new
          /\ a \in RegionCells(NewRegion) /\ a \in Nat /\ NewRegion.addr + y <= a
      BY <1>1, <1>3, <2>2, PassedOn
    <3>2. NewRegion.data # <<>> /\ a - NewRegion.addr < FirstBound
      BY <1>1, <1>3, <3>1, FirstOneBelowBound
    <3>3. NewRegion.addr \in Nat /\ FirstBound \in Nat
      <4>1. NewRegion.addr \in Nat /\ NewRegion.size \in Nat
        BY <1>1, AtRegion
      <4>2. Len(value) \in Nat
        BY DEF Reads, ArgumentsOK
      <4>3. NewRegion.size - Len(value) \in Int
        BY <4>1, <4>2
      <4> QED BY <4>1, <4>3, AddrSpaceAssumption DEF FirstBound
    <3>4. ~(y >= FirstBound)
      BY <1>2, <3>1, <3>2, <3>3
    <3>5. Len(results) >= MaxResults
      BY <1>1, <3>2, <3>4 DEF FirstEnds
    <3>6. Below(results, NewRegion.addr + y)
      BY <1>1 DEF IInv, Behind
    <3>7. Below(results, a)
      BY <1>2, <3>1, <3>3, <3>6 DEF Below
    <3> QED BY <1>2, <3>5, <3>7, MaxResultsAssumption
  <2> QED BY <2>1, <2>2
<1>4. \A a : Listed(a)' <=> Listed(a)
  BY <1>1 DEF Listed
<1>6. \A i \in DOMAIN results : FirstOne(results[i])
  BY <1>1 DEF FirstComplete
<1>7. Len(results) <= MaxResults
  BY <1>1 DEF FirstComplete
<1>8. \A a : FirstOne(a)' <=> FirstOne(a)
  BY <1>1, SameOnes
<1>9. \A i \in DOMAIN results' : FirstOne(results[i])'
  BY <1>1, <1>6 DEF given, FirstOne
<1>10. \A a \in Nat : Passed(a)' /\ FirstOne(a)' /\ ~Listed(a)' =>
         MaxResults <= Len(results') /\ Below(results', a)
  BY <1>1, <1>3, <1>4, <1>8
<1> QED BY <1>1, <1>7, <1>9, <1>10 DEF FirstComplete

\* The first search compares a field.
LEMMA FirstFieldComplete ==
  ASSUME IInv, Reads, FirstComplete, pc = "first", new_region_index <= Len(new), ~FirstEnds,
         NEW hit \in BOOLEAN, Compares(NewRegion.addr + y, hit),
         results' = IF hit THEN Append(results, NewRegion.addr + y) ELSE results,
         y' = y + Field,
         UNCHANGED <<given, pc, new_region_index, old_region_index, k>>
  PROVE  FirstComplete'
<1> SUFFICES ASSUME ~overread' PROVE FirstComplete'
  BY DEF FirstComplete
<1>1. /\ ~overread /\ Inside(NewRegion.addr + y)
      /\ hit <=> Passes(NewRegion.addr + y)
  BY DEF Compares
<1>2. y < NewRegion.size /\ NewRegion.data # <<>>
  BY FirstFieldInside DEF FirstEnds
<1>3. PICK here \in Nat : here = NewRegion.addr + y
  BY <1>2, FieldHere
<1>4. FirstOne(here) <=> hit
  BY <1>1, <1>2, <1>3, FirstDecides
<1>5. results \in Seq(Nat) /\ Len(results) \in Nat /\ ~(Len(results) >= MaxResults)
  BY DEF IInv, CountersOK, Searching, FirstEnds
<1>6. \A a : FirstOne(a)' <=> FirstOne(a)
  BY SameOnes
<1>7. ASSUME NEW a \in Nat, Passed(a)', FirstOne(a) PROVE Passed(a) \/ a = here
  <2> SUFFICES ASSUME ~Passed(a) PROVE a = here
    OBVIOUS
  <2>1. /\ a \in RegionCells(NewRegion) /\ NewRegion.addr + y <= a
        /\ a < NewRegion.addr + y'
    BY <1>7, PassedOn
  <2>2. a \in Fields(search.type, new)
    BY <1>7 DEF FirstOne
  <2> QED BY <1>3, <2>1, <2>2, OneField
<1>8. ASSUME NEW a \in Nat, Passed(a), FirstOne(a) PROVE Listed(a)
  BY <1>1, <1>5, <1>8, MaxResultsAssumption DEF FirstComplete
<1>9. \A i \in DOMAIN results : FirstOne(results[i])
  BY <1>1 DEF FirstComplete
<1>10. results' = IF hit THEN Append(results, here) ELSE results
  BY <1>3
<1>11. /\ \A i \in DOMAIN results' : FirstOne(results'[i])
       /\ Len(results') <= MaxResults
       /\ \A a : Listed(a) => Listed(a)'
       /\ hit => Listed(here)'
  <2>1. CASE hit
    <3>1. /\ results' = Append(results, here) /\ DOMAIN results' = 1..(Len(results) + 1)
          /\ Len(results') = Len(results) + 1 /\ results'[Len(results) + 1] = here
          /\ DOMAIN results = 1..Len(results)
          /\ \A i \in DOMAIN results : i \in DOMAIN results' /\ results'[i] = results[i]
          /\ Len(results) + 1 \in DOMAIN results'
      BY <1>3, <1>5, <1>10, <2>1
    <3>2. \A i \in DOMAIN results' : i \in DOMAIN results \/ i = Len(results) + 1
      BY <1>5, <3>1
    <3>3. Len(results') <= MaxResults
      BY <1>5, <3>1, MaxResultsAssumption
    <3>4. \A i \in DOMAIN results' : FirstOne(results'[i])
      BY <1>4, <1>9, <2>1, <3>1, <3>2
    <3>5. Listed(here)'
      <4>1. \E i \in DOMAIN results' : results'[i] = here
        BY <3>1
      <4> QED BY <4>1 DEF Listed
    <3>6. ASSUME NEW a, Listed(a) PROVE Listed(a)'
      BY <3>1, <3>6 DEF Listed
    <3> QED BY <3>3, <3>4, <3>5, <3>6
  <2>2. CASE ~hit
    BY <1>1, <1>5, <1>9, <1>10, <2>2 DEF Listed, FirstComplete
  <2> QED BY <2>1, <2>2
<1>12. ASSUME NEW a \in Nat, Passed(a)', FirstOne(a) PROVE Listed(a)'
  <2>1. CASE Passed(a)
    <3>1. Listed(a)
      BY <1>8, <1>12, <2>1
    <3> QED BY <1>11, <3>1
  <2>2. CASE a = here
    <3>1. hit
      BY <1>4, <1>12, <2>2
    <3>2. \E i \in DOMAIN results' : results'[i] = here
      BY <1>11, <3>1 DEF Listed
    <3> QED BY <2>2, <3>2 DEF Listed
  <2> QED BY <1>7, <1>12, <2>1, <2>2
<1>13. \A i \in DOMAIN results' : FirstOne(results[i])'
  BY <1>11 DEF given, FirstOne
<1> QED BY <1>6, <1>11, <1>12, <1>13 DEF FirstComplete

\* The first search stops at the bound: what it has found is what Update computes.
LEMMA FirstComputes ==
  ASSUME IInv, Reads, FirstComplete, pc = "first", ~overread, new_region_index > Len(new)
  PROVE  results = FirstResults(search, new, op, value, MaxResults)
<1> DEFINE S == FirstHits(search, new, op, value)
<1>1. IsSnapshot(new) /\ new_region_index \in Nat
  BY DEF Reads, ArgumentsOK, CursorsOK
<1>2. \A a : a \in S <=> FirstOne(a)
  BY DEF FirstHits, FirstOne
<1>3. results \in Seq(Nat) /\ Ordered(results)
  BY DEF IInv, CountersOK, Searching, Behind
<1>4. \A i \in DOMAIN results : results[i] \in S
  BY <1>2 DEF FirstComplete
<1> HIDE DEF S
<1>5. \A a \in S : a \in Nat /\ a <= AddrSpace /\ Passed(a)
  <2> SUFFICES ASSUME NEW a \in S PROVE a \in Nat /\ a <= AddrSpace /\ Passed(a)
    OBVIOUS
  <2>1. a \in Fields(search.type, new)
    BY <1>2 DEF FirstOne
  <2>2. PICK i \in DOMAIN new : a \in RegionCells(new[i])
    BY <1>1, <2>1, RegionOf
  <2>3. i < new_region_index
    BY <1>1, SnapshotDomain
  <2> QED BY <1>1, <2>1, <2>2, <2>3, RegionOf DEF Passed
<1>6. S \in SUBSET Nat /\ IsFiniteSet(S)
  <2>1. S \in SUBSET Nat /\ AddrSpace \in Nat /\ \A a \in S : a <= AddrSpace
    BY <1>5, AddrSpaceAssumption
  <2> QED BY <2>1, FS_BoundedSetOfNaturals
<1>7. results \in Seq(S)
  BY <1>3, <1>4
<1>8. \A a \in S : ~Listed(a) => MaxResults <= Len(results) /\ Below(results, a)
  BY <1>2, <1>5 DEF FirstComplete
<1>9. ClosedBelow(results, S)
  <2> SUFFICES ASSUME NEW i \in DOMAIN results, NEW a \in S, a < results[i], ~Listed(a)
               PROVE  FALSE
    BY DEF ClosedBelow, Listed
  <2>1. results[i] < a /\ results[i] \in Nat /\ a \in Nat
    BY <1>3, <1>5, <1>8 DEF Below
  <2> QED BY <2>1
<1> DEFINE n == Cardinality(S)
           l == Len(results)
           all == Ascending(S)
<1>10. /\ n \in Nat /\ l <= n /\ all \in Seq(S) /\ Len(all) = n
       /\ results = SubSeq(all, 1, l)
  BY <1>3, <1>6, <1>7, <1>9, AscendingPrefix
<1>11. l < MaxResults => l = n
  <2> SUFFICES ASSUME l < MaxResults PROVE l = n
    OBVIOUS
  <2>1. \A a \in S : \E i \in DOMAIN results : results[i] = a
    BY <1>3, <1>8, MaxResultsAssumption DEF Listed
  <2>2. results = all
    BY <1>3, <1>6, <1>7, <2>1, AscendingAll
  <2> QED BY <1>10, <2>2
<1>12. l \in Nat /\ l <= MaxResults
  BY <1>3 DEF FirstComplete
<1> HIDE DEF n, l, all
<1>13. (IF Len(all) < MaxResults THEN Len(all) ELSE MaxResults) = l
  BY <1>10, <1>11, <1>12, MaxResultsAssumption
<1> QED BY <1>10, <1>13 DEF FirstResults, all, S

----------------------------------------------------------------------------
(* The second search. *)

\* The part of the invariant that concerns the results, and what passes the cursor.
LEMMA SecondPassed ==
  ASSUME Reads, SecondComplete, pc = "second", ~overread, UNCHANGED <<given, pc>>,
         new_region_index' = new_region_index \/ NextRegion,
         NEW here, NEW hit \in BOOLEAN, hit => here \in Nat /\ SecondOne(here),
         results \in Seq(Nat),
         results' = IF hit THEN Append(results, here) ELSE results,
         \A a \in Nat : Passed(a)' /\ ~Passed(a) /\ SecondOne(a) => hit /\ a = here,
         \A j \in DOMAIN search.memory : j < old_region_index' => OldPassed(j)'
  PROVE  SecondComplete'
<1>1. \A i \in DOMAIN results : SecondOne(results[i])
  BY DEF SecondComplete
<1>2. \A a \in Nat : Passed(a) /\ SecondOne(a) => Listed(a)
  BY DEF SecondComplete
<1>3. /\ \A i \in DOMAIN results' : SecondOne(results'[i])
      /\ \A a : Listed(a) => \E i \in DOMAIN results' : results'[i] = a
      /\ hit => \E i \in DOMAIN results' : results'[i] = here
  <2>1. CASE hit
    <3>1. /\ results' = Append(results, here) /\ DOMAIN results' = 1..(Len(results) + 1)
          /\ results'[Len(results) + 1] = here
          /\ DOMAIN results = 1..Len(results)
          /\ \A i \in DOMAIN results : i \in DOMAIN results' /\ results'[i] = results[i]
          /\ Len(results) + 1 \in DOMAIN results' /\ Len(results) \in Nat
      BY <2>1
    <3>2. \A i \in DOMAIN results' : i \in DOMAIN results \/ i = Len(results) + 1
      BY <3>1
    <3>3. \A i \in DOMAIN results' : SecondOne(results'[i])
      BY <1>1, <2>1, <3>1, <3>2
    <3> QED BY <3>1, <3>3 DEF Listed
  <2>2. CASE ~hit
    BY <1>1, <2>2 DEF Listed
  <2> QED BY <2>1, <2>2
<1>4. \A a : SecondOne(a)' <=> SecondOne(a)
  BY SameOnes
<1>5. ASSUME NEW a \in Nat, Passed(a)', SecondOne(a)
      PROVE  \E i \in DOMAIN results' : results'[i] = a
  <2>1. CASE Passed(a)
    BY <1>2, <1>3, <1>5, <2>1
  <2>2. CASE ~Passed(a)
    BY <1>3, <1>5, <2>2
  <2> QED BY <2>1, <2>2
<1>6. \A a \in Nat : Passed(a)' /\ SecondOne(a)' => Listed(a)'
  BY <1>4, <1>5 DEF Listed
<1>7. \A i \in DOMAIN results' : SecondOne(results[i])'
  BY <1>3 DEF given, SecondOne
<1>8. \A j \in DOMAIN search'.memory : j < old_region_index' => OldPassed(j)'
  BY DEF given
<1> QED BY <1>6, <1>7, <1>8 DEF SecondComplete

\* Fields before the old region and after those that were passed cannot be compared.
LEMMA NotInOld ==
  ASSUME Reads, SecondComplete, InSecond, ~overread, NEW a, SecondOne(a),
         a \in RegionCells(NewRegion), NewRegion.addr + y <= a
  PROVE  /\ ~NoOldLeft
         /\ ~OldSkippable(NewRegion.addr + y) => OldRegion.addr <= a
<1>0. pc = "second" /\ new_region_index <= Len(new)
  BY DEF InSecond
<1>1. IsSnapshot(search.memory) /\ IsSnapshot(new) /\ old_region_index \in Nat \ {0} /\ y \in Nat
  BY <1>0 DEF Reads, ArgumentsOK, CursorsOK
<1>2. PICK j \in DOMAIN search.memory :
        search.memory[j].data # <<>> /\ a \in RegionCells(search.memory[j])
  BY Zenon DEF SecondOne, Readable
<1>3. /\ j \in Nat /\ j <= Len(search.memory) /\ Len(search.memory) \in Nat
      /\ DOMAIN search.memory = 1..Len(search.memory)
  BY <1>1, SnapshotDomain
<1>4. /\ a \in Nat /\ search.memory[j].addr <= a /\ a < EndAddr(search.memory[j])
      /\ EndAddr(search.memory[j]) \in Nat /\ search.memory[j].addr \in Nat
  BY <1>1, <1>2, CellsOf, RegionFacts
<1>5. NewRegion.addr \in Nat
  BY <1>0, AtRegion
<1>6. ~(j < old_region_index)
  <2> SUFFICES ASSUME j < old_region_index PROVE FALSE
    OBVIOUS
  <2>1. OldPassed(j)
    BY <1>0 DEF SecondComplete
  <2>2. EndAddr(search.memory[j]) <= NewRegion.addr + y
    BY <1>0, <1>2, <2>1 DEF OldPassed
  <2> QED BY <1>1, <1>4, <1>5, <2>2
<1>7. ~NoOldLeft
  BY <1>1, <1>3, <1>6 DEF NoOldLeft
<1>8. OldRegion.addr <= a
  <2>1. CASE j = old_region_index
    BY <1>4, <2>1 DEF OldRegion
  <2>2. CASE old_region_index < j
    <3>1. old_region_index \in DOMAIN search.memory
      BY <1>1, <1>3, <2>2
    <3>2. EndAddr(OldRegion) <= search.memory[j].addr
      BY <1>1, <2>2, <3>1 DEF IsSnapshot, OldRegion
    <3>3. OldRegion.addr \in Nat /\ OldRegion.addr <= EndAddr(OldRegion)
          /\ EndAddr(OldRegion) \in Nat
      BY <1>0, <1>7, AtOldRegion
    <3> QED BY <1>4, <3>2, <3>3
  <2> QED BY <1>1, <1>3, <1>6, <2>1, <2>2
<1> QED BY <1>7, <1>8

\* Old regions that were passed stay behind a cursor that moves on.
LEMMA OldStaysPassed ==
  ASSUME Reads, SecondComplete, pc = "second", ~overread, UNCHANGED given,
         new_region_index <= Len(new),
         (new_region_index' = new_region_index /\ y' \in Nat /\ y <= y') \/ NextRegion,
         NEW j \in DOMAIN search.memory, j < old_region_index
  PROVE  OldPassed(j)'
<1>1. OldPassed(j)
  BY DEF SecondComplete
<1>2. /\ IsSnapshot(new) /\ IsSnapshot(search.memory) /\ y \in Nat
      /\ new_region_index \in Nat \ {0} /\ new_region_index \in DOMAIN new
  BY AtRegion DEF Reads, ArgumentsOK, CursorsOK
<1> DEFINE e == EndAddr(search.memory[j])
<1>3. e \in Nat
  BY <1>2, RegionFacts
<1>4. NewRegion.addr \in Nat /\ EndAddr(NewRegion) \in Nat
  BY AtRegion
<1> SUFFICES ASSUME search.memory[j].data # <<>>, new_region_index' <= Len(new)
             PROVE  /\ e <= new[new_region_index'].addr + y'
                    /\ e <= EndAddr(new[new_region_index'])
  BY DEF OldPassed, NewRegion, given
<1>5. e <= NewRegion.addr + y /\ e <= EndAddr(NewRegion)
  BY <1>1 DEF OldPassed
<1>6. CASE new_region_index' = new_region_index /\ y' \in Nat /\ y <= y'
  <2> HIDE DEF e
  <2>1. e <= NewRegion.addr + y'
    BY <1>2, <1>3, <1>4, <1>5, <1>6
  <2> QED BY <1>5, <1>6, <2>1 DEF NewRegion
<1>7. CASE NextRegion
  <2> DEFINE m == new_region_index + 1
  <2>1. m \in DOMAIN new /\ new_region_index' = m /\ y' = 0
    BY <1>2, <1>7, SnapshotDomain DEF NextRegion
  <2>2. EndAddr(NewRegion) <= new[m].addr
    BY <1>2, <2>1, NextStarts DEF NewRegion
  <2>3. new[m].addr \in Nat /\ EndAddr(new[m]) \in Nat /\ new[m].addr <= EndAddr(new[m])
    <3> HIDE DEF m
    <3>1. /\ new[m].addr \in Nat /\ new[m].size \in Nat
          /\ EndAddr(new[m]) = new[m].addr + new[m].size
      BY <1>2, <2>1, RegionFacts
    <3> QED BY <3>1
  <2> HIDE DEF m, e
  <2> QED BY <1>3, <1>4, <1>5, <2>1, <2>2, <2>3
<1> QED BY <1>6, <1>7

\* A step of the cursors alone passes nothing that could be compared.
LEMMA CursorsOnly ==
  ASSUME IInv, Reads, SecondComplete, pc = "second",
         UNCHANGED <<given, pc, k, results, overread>>,
         new_region_index' = new_region_index \/ NextRegion,
         \A a \in Nat : Passed(a)' /\ ~Passed(a) => ~SecondOne(a),
         ~overread => \A j \in DOMAIN search.memory : j < old_region_index' => OldPassed(j)'
  PROVE  SecondComplete'
<1>1. CASE overread
  BY <1>1 DEF SecondComplete
<1>2. CASE ~overread
  <2>1. results \in Seq(Nat) /\ results' = IF FALSE THEN Append(results, 0) ELSE results
    BY DEF IInv, CountersOK, Searching
  <2> QED BY <1>2, <2>1, SecondPassed
<1> QED BY <1>1, <1>2

LEMMA SkipOldComplete ==
  ASSUME IInv, Reads, SecondComplete, SkipOld
  PROVE  SecondComplete'
<1>1. /\ pc = "second" /\ new_region_index <= Len(new) /\ y < NewRegion.size /\ ~NoOldLeft
      /\ OldRegion.data = <<>> \/ EndAddr(OldRegion) <= NewRegion.addr + y
      /\ old_region_index' = old_region_index + 1
      /\ UNCHANGED <<given, pc, new_region_index, y, k, results, overread>>
  BY DEF SkipOld, InSecond, OldSkippable
<1>2. \A a : Passed(a)' => Passed(a)
  BY <1>1 DEF Passed, given
<1>3. ASSUME ~overread, NEW j \in DOMAIN search.memory, j < old_region_index + 1
      PROVE  OldPassed(j)
  <2>1. j \in Nat /\ old_region_index \in Nat
    BY <1>1, SnapshotDomain DEF Reads, ArgumentsOK, CursorsOK
  <2>2. CASE j < old_region_index
    BY <1>1, <1>3, <2>2 DEF SecondComplete
  <2>3. CASE j = old_region_index
    <3>1. /\ EndAddr(OldRegion) \in Nat /\ NewRegion.addr \in Nat /\ NewRegion.size \in Nat
          /\ EndAddr(NewRegion) = NewRegion.addr + NewRegion.size
      BY <1>1, AtRegion, AtOldRegion
    <3>2. y \in Nat
      BY DEF Reads, CursorsOK
    <3>3. OldRegion.data # <<>> => EndAddr(OldRegion) <= EndAddr(NewRegion)
      BY <1>1, <3>1, <3>2
    <3> QED BY <1>1, <2>3, <3>3 DEF OldPassed, OldRegion
  <2> QED BY <1>3, <2>1, <2>2, <2>3
<1>4. ASSUME ~overread, NEW j \in DOMAIN search.memory, j < old_region_index'
      PROVE  OldPassed(j)'
  <2>1. OldPassed(j)
    BY <1>1, <1>3, <1>4
  <2> QED BY <1>1, <2>1 DEF OldPassed, NewRegion, given
<1> QED BY <1>1, <1>2, <1>4, CursorsOnly

LEMMA SecondNextComplete ==
  ASSUME IInv, Reads, SecondComplete, SecondNext
  PROVE  SecondComplete'
<1>1. /\ pc = "second" /\ new_region_index <= Len(new) /\ NextRegion
      /\ y >= NewRegion.size \/ NewRegion.data = <<>> \/ NoOldLeft
      /\ UNCHANGED <<given, pc, old_region_index, k, results, overread>>
  BY DEF SecondNext
<1>2. CASE overread
  BY <1>1, <1>2 DEF SecondComplete
<1>3. CASE ~overread
  <2>1. ASSUME NEW a \in Nat, Passed(a)', ~Passed(a), SecondOne(a) PROVE FALSE
    <3>1. /\ new_region_index \in DOMAIN new /\ a \in RegionCells(NewRegion)
          /\ NewRegion.addr + y <= a /\ a < EndAddr(NewRegion)
      BY <1>1, <2>1, PassedOn
    <3>2. NewRegion.data # <<>>
      <4>1. IsSnapshot(new) /\ a \in Fields(search.type, new)
        BY <2>1 DEF Reads, ArgumentsOK, SecondOne
      <4> QED BY <3>1, <4>1, FieldsOf DEF NewRegion
    <3>3. y < NewRegion.size
      <4>1. /\ NewRegion.addr \in Nat /\ NewRegion.size \in Nat /\ y \in Nat
            /\ EndAddr(NewRegion) = NewRegion.addr + NewRegion.size
        BY <1>1, AtRegion DEF Reads, CursorsOK
      <4> QED BY <3>1, <4>1
    <3>4. InSecond
      BY <1>1, <3>2, <3>3 DEF InSecond
    <3>5. ~NoOldLeft
      BY <1>3, <2>1, <3>1, <3>4, NotInOld
    <3>6. ~(y >= NewRegion.size)
      <4>1. NewRegion.size \in Nat /\ y \in Nat
        BY <1>1, AtRegion DEF Reads, CursorsOK
      <4> QED BY <3>3, <4>1
    <3> QED BY <1>1, <3>2, <3>5, <3>6
  <2>2. \A a \in Nat : Passed(a)' /\ ~Passed(a) => ~SecondOne(a)
    BY <2>1
  <2>3. ASSUME NEW j \in DOMAIN search.memory, j < old_region_index' PROVE OldPassed(j)'
    BY <1>1, <1>3, <2>3, OldStaysPassed
  <2> QED BY <1>1, <2>2, <2>3, CursorsOnly
<1> QED BY <1>2, <1>3

LEMMA SecondJumpComplete ==
  ASSUME IInv, Reads, SecondComplete, SecondJump
  PROVE  SecondComplete'
<1>1. /\ InSecond /\ pc = "second" /\ new_region_index <= Len(new) /\ ~NoOldLeft
      /\ ~OldSkippable(NewRegion.addr + y) /\ NewRegion.addr + y < OldRegion.addr
      /\ y' = OldRegion.addr - NewRegion.addr
      /\ UNCHANGED <<given, pc, new_region_index, old_region_index, k, results, overread>>
  BY DEF SecondJump, InSecond
<1>2. NewRegion.addr \in Nat /\ OldRegion.addr \in Nat /\ y \in Nat
  BY <1>1, AtRegion, AtOldRegion DEF Reads, CursorsOK
<1>3. y' \in Nat /\ y <= y' /\ NewRegion.addr + y' = OldRegion.addr
  BY <1>1, <1>2
<1>4. CASE overread
  BY <1>1, <1>4 DEF SecondComplete
<1>5. CASE ~overread
  <2>1. ASSUME NEW a \in Nat, Passed(a)', ~Passed(a), SecondOne(a) PROVE FALSE
    <3>1. /\ a \in RegionCells(NewRegion) /\ NewRegion.addr + y <= a
          /\ a < NewRegion.addr + y'
      BY <1>1, <2>1, PassedOn
    <3>2. OldRegion.addr <= a
      BY <1>1, <1>5, <2>1, <3>1, NotInOld
    <3> QED BY <1>2, <1>3, <3>1, <3>2
  <2>2. \A a \in Nat : Passed(a)' /\ ~Passed(a) => ~SecondOne(a)
    BY <2>1
  <2>3. ASSUME NEW j \in DOMAIN search.memory, j < old_region_index' PROVE OldPassed(j)'
    BY <1>1, <1>3, <1>5, <2>3, OldStaysPassed
  <2> QED BY <1>1, <2>2, <2>3, CursorsOnly
<1> QED BY <1>4, <1>5

\* The second search compares a field that both snapshots have.
LEMMA SecondFieldComplete ==
  ASSUME IInv, Reads, SecondComplete, InSecond, ~NoOldLeft,
         ~OldSkippable(NewRegion.addr + y), NewRegion.addr + y >= OldRegion.addr,
         NEW hit \in BOOLEAN, Compares(NewRegion.addr + y, hit),
         results' = IF hit THEN Append(results, NewRegion.addr + y) ELSE results,
         y' = y + Field,
         UNCHANGED <<given, pc, new_region_index, old_region_index, k>>
  PROVE  SecondComplete'
<1> SUFFICES ASSUME ~overread' PROVE SecondComplete'
  BY DEF SecondComplete
<1>1. /\ ~overread /\ Inside(NewRegion.addr + y)
      /\ hit <=> Passes(NewRegion.addr + y)
  BY DEF Compares
<1>2. /\ pc = "second" /\ new_region_index <= Len(new)
      /\ y < NewRegion.size /\ NewRegion.data # <<>>
  BY DEF InSecond
<1>3. PICK here \in Nat : here = NewRegion.addr + y
  BY <1>2, FieldHere
<1>4. here \in RegionCells(NewRegion) /\ here \in Fields(search.type, new)
  BY <1>2, <1>3, FieldHere
<1>5. /\ old_region_index \in DOMAIN search.memory /\ IsSnapshot(search.memory)
      /\ OldRegion.data # <<>>
      /\ here \in RegionCells(OldRegion) /\ here \in Readable(search.memory)
  <2>1. /\ old_region_index \in DOMAIN search.memory /\ IsSnapshot(search.memory)
        /\ OldRegion.addr \in Nat /\ EndAddr(OldRegion) \in Nat
    BY <1>2, AtOldRegion DEF Reads, ArgumentsOK
  <2>2. OldRegion.data # <<>> /\ OldRegion.addr <= here /\ here < EndAddr(OldRegion)
    BY <1>3, <2>1 DEF OldSkippable
  <2>3. here \in RegionCells(OldRegion)
    BY <2>1, <2>2, CellsOf DEF OldRegion
  <2> QED BY <2>1, <2>2, <2>3, FieldsOf DEF OldRegion
<1>6. Passes(here) = Holds(search, new, op, value, here)
  BY <1>2, <1>4, <1>5, PassesIs
<1>7. SecondOne(here) <=> hit
  BY <1>1, <1>3, <1>4, <1>5, <1>6 DEF SecondOne
<1>8. ASSUME NEW a \in Nat, Passed(a)', ~Passed(a), SecondOne(a) PROVE hit /\ a = here
  <2>1. /\ a \in RegionCells(NewRegion) /\ NewRegion.addr + y <= a
        /\ a < NewRegion.addr + y'
    BY <1>8, PassedOn
  <2>2. a \in Fields(search.type, new)
    BY <1>8 DEF SecondOne
  <2>3. a = here
    BY <1>2, <1>3, <2>1, <2>2, OneField
  <2> QED BY <1>7, <1>8, <2>3
<1>9. \A a \in Nat : Passed(a)' /\ ~Passed(a) /\ SecondOne(a) => hit /\ a = here
  BY <1>8
<1>10. y' \in Nat /\ y <= y'
  <2>1. y \in Nat /\ Field \in Nat
    BY FieldSizes DEF Reads, CursorsOK, ArgumentsOK, Field
  <2> QED BY <2>1
<1>11. ASSUME NEW j \in DOMAIN search.memory, j < old_region_index' PROVE OldPassed(j)'
  BY <1>1, <1>2, <1>10, <1>11, OldStaysPassed
<1>12. results \in Seq(Nat) /\ results' = IF hit THEN Append(results, here) ELSE results
  BY <1>2, <1>3 DEF IInv, CountersOK, Searching
<1> QED BY <1>1, <1>2, <1>3, <1>7, <1>9, <1>11, <1>12, SecondPassed

\* The second search is over: what it has found is what Update computes.
LEMMA SecondComputes ==
  ASSUME IInv, Reads, SecondComplete, pc = "second", ~overread, new_region_index > Len(new)
  PROVE  results = SecondResults(search, new, op, value)
<1> DEFINE S == {a \in Fields(search.type, new) \cap Readable(search.memory) :
                   Holds(search, new, op, value, a)}
<1>1. IsSnapshot(new) /\ new_region_index \in Nat
  BY DEF Reads, ArgumentsOK, CursorsOK
<1>2. \A a : a \in S <=> SecondOne(a)
  BY DEF SecondOne
<1>3. results \in Seq(Nat) /\ Ordered(results)
  BY DEF IInv, CountersOK, Searching, Behind
<1>4. SecondResults(search, new, op, value) = Ascending(S)
  BY DEF SecondResults
<1> HIDE DEF S
<1>5. \A i \in DOMAIN results : results[i] \in S
  BY <1>2 DEF SecondComplete
<1>6. \A a \in S : a \in Nat /\ a <= AddrSpace /\ Passed(a)
  <2> SUFFICES ASSUME NEW a \in S PROVE a \in Nat /\ a <= AddrSpace /\ Passed(a)
    OBVIOUS
  <2>1. a \in Fields(search.type, new)
    BY <1>2 DEF SecondOne
  <2>2. PICK i \in DOMAIN new : a \in RegionCells(new[i])
    BY <1>1, <2>1, RegionOf
  <2>3. i < new_region_index
    BY <1>1, SnapshotDomain
  <2> QED BY <1>1, <2>1, <2>2, <2>3, RegionOf DEF Passed
<1>7. S \in SUBSET Nat /\ IsFiniteSet(S)
  <2>1. S \in SUBSET Nat /\ AddrSpace \in Nat /\ \A a \in S : a <= AddrSpace
    BY <1>6, AddrSpaceAssumption
  <2> QED BY <2>1, FS_BoundedSetOfNaturals
<1>8. results \in Seq(S)
  BY <1>3, <1>5
<1>9. \A a \in S : \E i \in DOMAIN results : results[i] = a
  BY <1>2, <1>6 DEF SecondComplete, Listed
<1>10. results = Ascending(S)
  BY <1>3, <1>7, <1>8, <1>9, AscendingAll
<1> QED BY <1>4, <1>10

----------------------------------------------------------------------------
(* Later searches. *)

\* Where the cursors stand for the next result.
LEMMA NarrowCursors ==
  ASSUME Reads, NarrowComplete, InNarrow, ~overread,
         ~NewBefore(results[k]), ~OldBefore(results[k])
  PROVE  /\ results[k] \in Nat /\ results[k] = search.results[k]
         /\ results[k] \in Readable(search.memory)
         /\ \A i \in DOMAIN new : results[k] \in RegionCells(new[i]) => i = new_region_index
         /\ \A i \in DOMAIN search.memory :
              results[k] \in RegionCells(search.memory[i]) => i = old_region_index
<1> DEFINE a == results[k]
<1>1. /\ pc = "narrow" /\ k \in DOMAIN results /\ k \in Nat /\ results \in Seq(Nat)
  BY DEF InNarrow, Reads, Remaining
<1>2. /\ IsSnapshot(new) /\ IsSnapshot(search.memory)
      /\ new_region_index \in Nat \ {0} /\ old_region_index \in Nat \ {0}
  BY <1>1 DEF Reads, ArgumentsOK, CursorsOK
<1>3. /\ a \in Nat /\ a = search.results[k]
      /\ a \in Readable(search.memory)
      /\ \A j \in DOMAIN new : j < new_region_index => EndAddr(new[j]) <= a
      /\ \A j \in DOMAIN search.memory :
           j < old_region_index => EndAddr(search.memory[j]) <= a
  <2>1. k >= k
    BY <1>1
  <2> QED BY <1>1, <2>1 DEF Reads, Remaining, NarrowComplete
<1>4. new_region_index \in DOMAIN new => a < EndAddr(new[new_region_index])
  <2> SUFFICES ASSUME new_region_index \in DOMAIN new PROVE a < EndAddr(NewRegion)
    BY DEF NewRegion
  <2>1. new_region_index <= Len(new) /\ EndAddr(NewRegion) \in Nat
    BY <1>2, SnapshotDomain, RegionFacts DEF NewRegion
  <2> QED BY <1>3, <2>1 DEF NewBefore
<1>5. old_region_index \in DOMAIN search.memory => a < EndAddr(search.memory[old_region_index])
  <2> SUFFICES ASSUME old_region_index \in DOMAIN search.memory PROVE a < EndAddr(OldRegion)
    BY DEF OldRegion
  <2>1. ~NoOldLeft /\ EndAddr(OldRegion) \in Nat
    BY <1>2, SnapshotDomain, RegionFacts DEF OldRegion, NoOldLeft
  <2> QED BY <1>3, <2>1 DEF OldBefore
<1> HIDE DEF a
<1>6. \A i \in DOMAIN new : a \in RegionCells(new[i]) => i = new_region_index
  BY <1>2, <1>3, <1>4, CursorAt
<1>7. \A i \in DOMAIN search.memory :
        a \in RegionCells(search.memory[i]) => i = old_region_index
  BY <1>2, <1>3, <1>5, CursorAt
<1> QED BY <1>3, <1>6, <1>7 DEF a

\* A result that is in no region of one of the snapshots, or could not be read, fails.
LEMMA DropIsRight ==
  ASSUME Reads, NarrowComplete, InNarrow, ~overread,
         ~NewBefore(results[k]), ~OldBefore(results[k]), ~Comparable(results[k])
  PROVE  ~NarrowOne(results[k])
<1> SUFFICES ASSUME NarrowOne(results[k]) PROVE FALSE
  OBVIOUS
<1> DEFINE a == results[k]
<1>1. IsSnapshot(new) /\ IsSnapshot(search.memory)
  BY DEF InNarrow, Reads, ArgumentsOK
<1>2. PICK i \in DOMAIN new : new[i].data # <<>> /\ a \in RegionCells(new[i])
  BY Zenon DEF NarrowOne, Readable
<1>3. PICK j \in DOMAIN search.memory : a \in RegionCells(search.memory[j])
  BY Zenon DEF NarrowOne, Covered
<1>4. i = new_region_index /\ j = old_region_index
  BY <1>2, <1>3, NarrowCursors
<1>5. new_region_index <= Len(new) /\ ~NoOldLeft
  <2>1. new_region_index \in 1..Len(new) /\ old_region_index \in 1..Len(search.memory)
    BY <1>1, <1>4, SnapshotDomain
  <2> QED BY <2>1 DEF NoOldLeft
<1>6. NewRegion.addr <= a /\ OldRegion.addr <= a /\ NewRegion.data # <<>>
  <2> HIDE DEF a
  <2> QED BY <1>1, <1>2, <1>3, <1>4, CellsOf DEF NewRegion, OldRegion
<1> QED BY <1>5, <1>6 DEF Comparable

\* A comparison that stays inside decides the result.
LEMMA NarrowDecides ==
  ASSUME Reads, NarrowComplete, InNarrow, ~overread,
         ~NewBefore(results[k]), ~OldBefore(results[k]), Comparable(results[k]),
         results[k] # 0
  PROVE  NarrowOne(results[k]) <=> Passes(results[k])
<1> DEFINE a == results[k]
<1>1. /\ IsSnapshot(new) /\ IsSnapshot(search.memory) /\ pc = "narrow"
      /\ new_region_index <= Len(new) /\ ~NoOldLeft
      /\ NewRegion.addr <= a /\ OldRegion.addr <= a /\ NewRegion.data # <<>>
  BY DEF InNarrow, Reads, ArgumentsOK, Comparable
<1>2. a \in Nat /\ a \in Readable(search.memory)
  BY NarrowCursors
<1>3. new_region_index \in DOMAIN new /\ EndAddr(NewRegion) \in Nat
  BY <1>1, AtRegion
<1>4. old_region_index \in DOMAIN search.memory /\ EndAddr(OldRegion) \in Nat
  BY <1>1, AtOldRegion
<1>5. a < EndAddr(NewRegion) /\ a < EndAddr(OldRegion)
  BY <1>1, <1>2, <1>3, <1>4 DEF NewBefore, OldBefore
<1> HIDE DEF a
<1>6. a \in RegionCells(NewRegion) /\ a \in RegionCells(OldRegion)
  BY <1>1, <1>2, <1>3, <1>4, <1>5, CellsOf DEF NewRegion, OldRegion
<1>7. a \in Readable(new) /\ a \in Covered(search.memory) /\ OldRegion.data # <<>>
  BY <1>1, <1>2, <1>3, <1>4, <1>6, FieldsOf DEF NewRegion, OldRegion
<1>8. Passes(a) = Holds(search, new, op, value, a)
  BY <1>1, <1>6, <1>7, PassesIs
<1>9. a # 0
  BY DEF a
<1>10. NarrowOne(a) <=> Passes(a)
  BY <1>7, <1>8, <1>9 DEF NarrowOne
<1> QED BY <1>10 DEF a

\* The next result is decided.
LEMMA ResultDecided ==
  ASSUME Reads, NarrowComplete, InNarrow, ~overread,
         NEW pass \in BOOLEAN, pass \/ results[k] = 0 \/ ~NarrowOne(results[k]),
         pass /\ results[k] # 0 => NarrowOne(results[k]),
         results' = IF pass THEN results ELSE [results EXCEPT ![k] = 0],
         k' = k + 1,
         UNCHANGED <<given, pc, new_region_index, old_region_index, y>>
  PROVE  NarrowComplete'
<1>1. /\ pc = "narrow" /\ k \in Nat /\ k \in DOMAIN results /\ results \in Seq(Nat)
      /\ \A i \in DOMAIN results : i \in Nat
  BY DEF InNarrow, Reads, Remaining
<1>2. /\ Len(results) = Len(search.results)
      /\ \A i \in DOMAIN results :
           results[i] = IF i >= k \/ NarrowOne(search.results[i])
                        THEN search.results[i] ELSE 0
      /\ \A i \in DOMAIN results, j \in DOMAIN new :
           i >= k /\ j < new_region_index => EndAddr(new[j]) <= results[i]
  BY <1>1 DEF NarrowComplete
<1>3. /\ Len(results') = Len(results) /\ DOMAIN results' = DOMAIN results
      /\ \A i \in DOMAIN results :
           results'[i] = IF i = k /\ ~pass THEN 0 ELSE results[i]
  BY <1>1
<1>4. results[k] = search.results[k]
  BY <1>1, <1>2
<1>5. ASSUME NEW i \in DOMAIN results
      PROVE  results'[i] = IF i >= k + 1 \/ NarrowOne(search.results[i])
                           THEN search.results[i] ELSE 0
  <2>1. CASE i = k
    <3>1. ~(i >= k + 1) /\ results'[i] = IF pass THEN results[k] ELSE 0
      BY <1>1, <1>3, <2>1
    <3>2. NarrowOne(search.results[i]) <=> NarrowOne(results[k])
      BY <1>4, <2>1
    <3> QED BY <1>4, <2>1, <3>1, <3>2
  <2>2. CASE i # k
    <3>1. i >= k + 1 <=> i >= k
      BY <1>1, <2>2
    <3> QED BY <1>2, <1>3, <2>2, <3>1
  <2> QED BY <2>1, <2>2
<1>6. ASSUME NEW i \in DOMAIN results, NEW j \in DOMAIN new, i >= k + 1, j < new_region_index
      PROVE  EndAddr(new[j]) <= results'[i]
  <2>1. i >= k /\ i # k
    BY <1>1, <1>6
  <2> QED BY <1>2, <1>3, <1>6, <2>1
<1>7. \A a : NarrowOne(a)' <=> NarrowOne(a)
  BY SameOnes
<1>8. \A i \in DOMAIN results' :
        results'[i] = IF i >= k' \/ NarrowOne(search.results[i])'
                      THEN search.results[i] ELSE 0
  BY <1>3, <1>5 DEF given, NarrowOne
<1> QED BY <1>2, <1>3, <1>6, <1>8 DEF NarrowComplete, given

\* The new cursor passes a region that ends before the next result, and so before each of
\* those that remain.
LEMMA SkipNewComplete ==
  ASSUME Reads, NarrowComplete, SkipNew
  PROVE  NarrowComplete'
<1>1. /\ pc = "narrow" /\ k \in DOMAIN results /\ k \in Nat /\ results \in Seq(Nat)
      /\ new_region_index <= Len(new) /\ EndAddr(NewRegion) <= results[k]
      /\ new_region_index' = new_region_index + 1
      /\ UNCHANGED <<given, pc, old_region_index, y, k, results, overread>>
  BY DEF SkipNew, InNarrow, NewBefore, Reads, Remaining
<1> SUFFICES ASSUME ~overread PROVE NarrowComplete'
  BY <1>1 DEF NarrowComplete
<1>2. EndAddr(NewRegion) \in Nat /\ new_region_index \in Nat /\ \A j \in DOMAIN new : j \in Nat
  <2>1. IsSnapshot(new) /\ new_region_index \in Nat
    BY DEF Reads, ArgumentsOK, CursorsOK
  <2>2. DOMAIN new = 1..Len(new) /\ Len(new) \in Nat
    BY <2>1, SnapshotDomain
  <2>3. EndAddr(NewRegion) \in Nat
    BY <1>1, AtRegion
  <2> QED BY <2>1, <2>2, <2>3
<1>3. ASSUME NEW i \in DOMAIN results, NEW j \in DOMAIN new, i >= k, j < new_region_index + 1
      PROVE  EndAddr(new[j]) <= results[i]
  <2>1. CASE j = new_region_index
    <3>1. results[k] <= results[i] /\ results[i] \in Nat /\ results[k] \in Nat
      BY <1>1, <1>3 DEF Reads, Remaining
    <3> QED BY <1>1, <1>2, <2>1, <3>1 DEF NewRegion
  <2>2. CASE j < new_region_index
    BY <1>1, <1>3, <2>2 DEF NarrowComplete
  <2> QED BY <1>2, <1>3, <2>1, <2>2
<1>4. \A i \in DOMAIN results' :
        results'[i] = IF i >= k' \/ NarrowOne(search.results[i])'
                      THEN search.results[i] ELSE 0
  BY <1>1 DEF given, NarrowOne, NarrowComplete
<1> QED BY <1>1, <1>3, <1>4 DEF NarrowComplete, given

\* The narrowing is over: without its deleted results, the list is what Update computes.
LEMMA NarrowComputes ==
  ASSUME Reads, NarrowComplete, pc = "narrow", ~overread, k > Len(results),
         search.results \in Seq(Nat)
  PROVE  Kept(results, Nat \ {0}) = Narrowed(search, new, op, value)
<1> DEFINE S == {a \in Range(search.results) \cap Readable(new) \cap Covered(search.memory) :
                   a # 0 /\ Holds(search, new, op, value, a)}
<1>1. /\ results \in Seq(Nat) /\ k \in Nat /\ Len(results) \in Nat
      /\ DOMAIN results = 1..Len(results) /\ DOMAIN search.results = 1..Len(search.results)
      /\ Len(results) = Len(search.results)
  BY DEF Reads, Remaining, NarrowComplete
<1>2. \A i \in DOMAIN results : search.results[i] \in S <=> NarrowOne(search.results[i])
  BY <1>1 DEF NarrowOne, Range
<1>3. Narrowed(search, new, op, value) = Kept(search.results, S)
  BY DEF Narrowed
<1> HIDE DEF S
<1>4. ASSUME NEW i \in DOMAIN results
      PROVE  /\ results[i] \in Nat \ {0} <=> search.results[i] \in S
             /\ search.results[i] \in S => results[i] = search.results[i]
  <2>1. ~(i >= k)
    BY <1>1
  <2>2. results[i] = IF NarrowOne(search.results[i]) THEN search.results[i] ELSE 0
    BY <2>1 DEF NarrowComplete
  <2>3. NarrowOne(search.results[i]) => search.results[i] # 0
    BY DEF NarrowOne
  <2>4. search.results[i] \in Nat
    BY <1>1
  <2> QED BY <1>2, <2>2, <2>3, <2>4
<1> DEFINE D == {i \in DOMAIN results : results[i] \in Nat \ {0}}
           E == {i \in DOMAIN search.results : search.results[i] \in S}
<1>5. D = E
  BY <1>1, <1>4
<1>6. D \in SUBSET Nat /\ IsFiniteSet(D) /\ D \subseteq DOMAIN results
  <2>1. IsFiniteSet(1..Len(results)) /\ D \in SUBSET (1..Len(results))
    BY <1>1, FS_Interval
  <2> QED BY <1>1, <2>1, FS_Subset
<1>7. \A i \in D : results[i] = search.results[i]
  BY <1>4
<1> DEFINE at == Ascending(D)
<1>8. \A j \in DOMAIN at : at[j] \in D
  <2> HIDE DEF D
  <2> QED BY <1>6, AscendingMembers
<1>9. Kept(results, Nat \ {0}) = [j \in DOMAIN at |-> results[at[j]]]
  BY DEF Kept
<1>10. Kept(search.results, S) = [j \in DOMAIN at |-> search.results[at[j]]]
  <2>1. Kept(search.results, S) = [j \in DOMAIN Ascending(E) |-> search.results[Ascending(E)[j]]]
    BY DEF Kept
  <2> HIDE DEF D, E
  <2> QED BY <1>5, <2>1
<1> HIDE DEF at, D, E
<1>11. Kept(results, Nat \ {0}) = Kept(search.results, S)
  BY <1>7, <1>8, <1>9, <1>10
<1> QED BY <1>3, <1>11

----------------------------------------------------------------------------
(* Every step. *)

\* The results of Update, case by case.
LEMMA UpdateResults ==
  ASSUME ModeOK, HasMemory(search) \/ op # "ALL"
  PROVE  Update(search, new, op, value, MaxResults).results
           = IF ~HasMemory(search) THEN FirstResults(search, new, op, value, MaxResults)
             ELSE IF ~search.results_valid THEN SecondResults(search, new, op, value)
             ELSE Narrowed(search, new, op, value)
<1> DEFINE R == IF ~HasMemory(search) THEN FirstResults(search, new, op, value, MaxResults)
                ELSE IF ~search.results_valid THEN SecondResults(search, new, op, value)
                ELSE Narrowed(search, new, op, value)
<1>1. DOMAIN search = {"type", "results_valid", "memory", "prev_size", "results"}
  BY DEF ModeOK, NewSearch
<1>2. Update(search, new, op, value, MaxResults)
        = [search EXCEPT !.results = R, !.results_valid = TRUE,
                         !.prev_size = Len(value), !.memory = new]
  BY DEF Update
<1> HIDE DEF R
<1>3. [search EXCEPT !.results = R, !.results_valid = TRUE,
                     !.prev_size = Len(value), !.memory = new].results = R
  BY <1>1
<1> QED BY <1>2, <1>3 DEF R

LEMMA FinishComplete ==
  ASSUME IInv, Reads, Complete, Finish
  PROVE  Complete'
<1>1. /\ pc \in {"first", "second", "narrow"} /\ pc' = "done"
      /\ UNCHANGED <<given, overread>>
  BY DEF Finish
<1>2. ModeOK' /\ FirstComplete' /\ SecondComplete' /\ NarrowComplete'
  BY <1>1 DEF Complete, ModeOK, FirstComplete, SecondComplete, NarrowComplete, given
<1>3. ASSUME ~overread
      PROVE  results' = Update(search, new, op, value, MaxResults).results
  <2>1. HasMemory(search) \/ op # "ALL"
    BY <1>1 DEF Complete, ModeOK
  <2>2. CASE pc = "first"
    <3>1. results' = results /\ new_region_index > Len(new) /\ ~HasMemory(search)
      BY <2>2 DEF Finish, Complete, ModeOK
    <3>2. results = FirstResults(search, new, op, value, MaxResults)
      BY <1>3, <2>2, <3>1, FirstComputes DEF Complete
    <3> QED BY <2>1, <3>1, <3>2, UpdateResults DEF Complete
  <2>3. CASE pc = "second"
    <3>1. /\ results' = results /\ new_region_index > Len(new)
          /\ HasMemory(search) /\ ~search.results_valid
      BY <2>3 DEF Finish, Complete, ModeOK
    <3>2. results = SecondResults(search, new, op, value)
      BY <1>3, <2>3, <3>1, SecondComputes DEF Complete
    <3> QED BY <2>1, <3>1, <3>2, UpdateResults DEF Complete
  <2>4. CASE pc = "narrow"
    <3>1. /\ results' = Kept(results, Nat \ {0}) /\ k > Len(results)
          /\ HasMemory(search) /\ search.results_valid /\ search.results \in Seq(Nat)
      BY <2>4 DEF Finish, Complete, ModeOK
    <3>2. Kept(results, Nat \ {0}) = Narrowed(search, new, op, value)
      BY <1>3, <2>4, <3>1, NarrowComputes DEF Complete
    <3> QED BY <2>1, <3>1, <3>2, UpdateResults DEF Complete
  <2> QED BY <1>1, <2>2, <2>3, <2>4
<1>4. ComputesUpdate'
  BY <1>1, <1>3 DEF ComputesUpdate, Computed, given
<1> QED BY <1>2, <1>4 DEF Complete

\* After a comparison that has read too far nothing is claimed.
LEMMA CrashComplete ==
  ASSUME Complete, NEW a, Crash(a)
  PROVE  Complete'
BY DEF Crash, Complete, ModeOK, FirstComplete, SecondComplete, NarrowComplete,
       ComputesUpdate, Computed, given

\* A step of one search says nothing of the others.
LEMMA OneCase ==
  ASSUME Complete, UNCHANGED <<given, pc>>, pc \in {"first", "second", "narrow"},
         pc = "first" => FirstComplete', pc = "second" => SecondComplete',
         pc = "narrow" => NarrowComplete'
  PROVE  Complete'
BY DEF Complete, ModeOK, FirstComplete, SecondComplete, NarrowComplete,
       ComputesUpdate, Computed, given

LEMMA InitComplete == Init => Complete
<1> SUFFICES ASSUME Init PROVE Complete
  OBVIOUS
<1>1. PICK f \in Families : search \in f.searches /\ new \in f.snapshots
  BY DEF Init
<1>2. IsSearch(search) /\ IsSnapshot(new)
  BY <1>1, FamiliesAssumption
<1>3. ModeOK
  BY <1>2 DEF ModeOK, Init, IsSearch
<1>4. /\ new_region_index = 1 /\ old_region_index = 1 /\ y = 0 /\ k = 1
      /\ results = search.results /\ pc # "done"
  BY DEF Init
<1>5. pc \in {"first", "second"} => results = <<>>
  BY <1>2, <1>3, <1>4 DEF IsSearch, ModeOK
<1>6. \A a : ~Passed(a)
  <2> SUFFICES ASSUME NEW a, NEW i \in DOMAIN new, a \in RegionCells(new[i]),
                      i < 1 \/ a < new[i].addr + 0
               PROVE  FALSE
    BY <1>4 DEF Passed
  <2>1. i \in Nat \ {0}
    BY <1>2, SnapshotDomain
  <2>2. a \in Nat /\ new[i].addr <= a /\ new[i].addr \in Nat
    BY <1>2, CellsOf, RegionFacts
  <2> QED BY <2>1, <2>2
<1>7. FirstComplete
  <2>1. pc = "first" => DOMAIN results = {} /\ Len(results) = 0
    BY <1>5
  <2> QED BY <1>6, <2>1, MaxResultsAssumption DEF FirstComplete
<1>8. SecondComplete
  <2>1. pc = "second" => DOMAIN results = {}
    BY <1>5
  <2>2. pc = "second" => \A j \in DOMAIN search.memory : j \in Nat \ {0}
    BY <1>2, <1>3, SnapshotDomain DEF IsSearch, ModeOK
  <2> QED BY <1>4, <1>6, <2>1, <2>2 DEF SecondComplete
<1>9. NarrowComplete
  <2>1. search.results \in Seq(Nat)
    BY <1>2 DEF IsSearch
  <2>2. \A i \in DOMAIN results : i >= k
    BY <1>4, <2>1
  <2>3. \A j \in DOMAIN new : j \in Nat \ {0}
    BY <1>2, SnapshotDomain
  <2> QED BY <1>4, <2>2, <2>3 DEF NarrowComplete
<1>10. ComputesUpdate
  BY <1>4 DEF ComputesUpdate, Computed
<1> QED BY <1>3, <1>7, <1>8, <1>9, <1>10 DEF Complete

LEMMA NextComplete == IInv /\ Reads /\ Complete /\ [Next]_vars => Complete'
<1> SUFFICES ASSUME IInv, Reads, Complete, [Next]_vars PROVE Complete'
  OBVIOUS
<1>0. FirstComplete /\ SecondComplete /\ NarrowComplete
  BY DEF Complete
<1>1. CASE FirstNext
  BY <1>0, <1>1, FirstNextComplete, OneCase DEF FirstNext
<1>2. CASE FirstField
  <2>1. CASE Crash(NewRegion.addr + y)
    BY <2>1, CrashComplete
  <2>2. ASSUME NEW hit \in BOOLEAN,
               Compares(NewRegion.addr + y, hit),
               results' = IF hit THEN Append(results, NewRegion.addr + y) ELSE results,
               y' = y + Field,
               UNCHANGED <<given, pc, new_region_index, old_region_index, k>>
        PROVE  Complete'
    <3>1. pc = "first" /\ new_region_index <= Len(new) /\ ~FirstEnds
      BY <1>2 DEF FirstField
    <3>2. FirstComplete'
      BY <1>0, <2>2, <3>1, FirstFieldComplete
    <3> QED BY <2>2, <3>1, <3>2, OneCase
  <2> QED BY <1>2, <2>1, <2>2 DEF FirstField
<1>3. CASE SkipOld
  BY <1>0, <1>3, SkipOldComplete, OneCase DEF SkipOld, InSecond
<1>4. CASE SecondNext
  BY <1>0, <1>4, SecondNextComplete, OneCase DEF SecondNext
<1>5. CASE SecondJump
  BY <1>0, <1>5, SecondJumpComplete, OneCase DEF SecondJump, InSecond
<1>6. CASE SecondField
  <2>1. CASE Crash(NewRegion.addr + y)
    BY <2>1, CrashComplete
  <2>2. ASSUME NEW hit \in BOOLEAN,
               Compares(NewRegion.addr + y, hit),
               results' = IF hit THEN Append(results, NewRegion.addr + y) ELSE results,
               y' = y + Field,
               UNCHANGED <<given, pc, new_region_index, old_region_index, k>>
        PROVE  Complete'
    <3>1. /\ InSecond /\ ~NoOldLeft /\ ~OldSkippable(NewRegion.addr + y)
          /\ NewRegion.addr + y >= OldRegion.addr
      BY <1>6 DEF SecondField
    <3>2. SecondComplete'
      BY <1>0, <2>2, <3>1, SecondFieldComplete
    <3> QED BY <2>2, <3>1, <3>2, OneCase DEF InSecond
  <2> QED BY <1>6, <2>1, <2>2 DEF SecondField
<1>7. CASE SkipNew
  BY <1>0, <1>7, SkipNewComplete, OneCase DEF SkipNew, InNarrow
<1>8. CASE SkipOldForResult
  <2>1. NarrowComplete'
    <3>1. \A a : NarrowOne(a)' <=> NarrowOne(a)
      BY <1>8, SameOnes DEF SkipOldForResult
    <3> QED BY <1>0, <1>8, <3>1 DEF SkipOldForResult, NarrowComplete, NarrowOne, given
  <2> QED BY <1>8, <2>1, OneCase DEF SkipOldForResult, InNarrow
<1>9. CASE DropResult
  <2>1. /\ InNarrow /\ ~NewBefore(results[k]) /\ ~OldBefore(results[k])
        /\ ~Comparable(results[k]) /\ overread' = overread /\ k' = k + 1
        /\ results' = [results EXCEPT ![k] = 0]
        /\ UNCHANGED <<given, pc, new_region_index, old_region_index, y>>
    BY <1>9 DEF DropResult
  <2>2. CASE overread
    BY <2>1, <2>2, OneCase DEF NarrowComplete, InNarrow
  <2>3. CASE ~overread
    <3>1. ~NarrowOne(results[k])
      BY <1>0, <2>1, <2>3, DropIsRight
    <3>2. results' = IF FALSE THEN results ELSE [results EXCEPT ![k] = 0]
      BY <2>1
    <3>3. NarrowComplete'
      BY <1>0, <2>1, <2>3, <3>1, <3>2, ResultDecided
    <3> QED BY <2>1, <3>3, OneCase DEF InNarrow
  <2> QED BY <2>2, <2>3
<1>10. CASE NarrowResult
  <2>1. CASE Crash(results[k])
    BY <2>1, CrashComplete
  <2>2. ASSUME NEW hit \in BOOLEAN, Compares(results[k], hit),
               results' = IF hit THEN results ELSE [results EXCEPT ![k] = 0],
               k' = k + 1, UNCHANGED <<given, pc, new_region_index, old_region_index, y>>
        PROVE  Complete'
    <3>1. /\ InNarrow /\ ~NewBefore(results[k]) /\ ~OldBefore(results[k])
          /\ Comparable(results[k])
      BY <1>10 DEF NarrowResult
    <3>2. CASE overread'
      BY <2>2, <3>1, <3>2, OneCase DEF NarrowComplete, InNarrow
    <3>3. CASE ~overread'
      <4>1. ~overread /\ (hit <=> Passes(results[k]))
        BY <2>2, <3>3 DEF Compares
      <4>2. results[k] # 0 => (NarrowOne(results[k]) <=> hit)
        BY <1>0, <3>1, <4>1, NarrowDecides
      <4>3. NarrowComplete'
        BY <1>0, <2>2, <3>1, <4>1, <4>2, ResultDecided
      <4> QED BY <2>2, <3>1, <4>3, OneCase DEF InNarrow
    <3> QED BY <3>2, <3>3
  <2> QED BY <1>10, <2>1, <2>2 DEF NarrowResult
<1>11. CASE Finish
  BY <1>11, FinishComplete
<1>12. CASE UNCHANGED vars
  BY <1>12 DEF vars, Complete, ModeOK, FirstComplete, SecondComplete, NarrowComplete,
     ComputesUpdate, Computed, FirstOne, SecondOne, NarrowOne, Passed, Listed, Below,
     OldPassed, NewRegion, given
<1> QED
  BY <1>1, <1>2, <1>3, <1>4, <1>5, <1>6, <1>7, <1>8, <1>9, <1>10, <1>11, <1>12
     DEF Next, Returned

\* The loops of the four cases compute what Update says, for all pairs of snapshots, types,
\* values, predicates and limits: no field of the overlap is skipped by a jump or a cursor
\* that ran ahead, and none is compared with the wrong old one (MemorySearch::update).
THEOREM LoopsComputeUpdate == Spec => []ComputesUpdate
<1>1. Init => IInv /\ Reads /\ Complete
  BY InitIInv, InitReads, InitComplete
<1>2. IInv /\ Reads /\ Complete /\ [Next]_vars => (IInv /\ Reads /\ Complete)'
  BY NextIInv, NextReads, NextComplete
<1>3. Complete => ComputesUpdate
  BY DEF Complete
<1> QED BY <1>1, <1>2, <1>3, PTL DEF Spec

(***************************************************************************)
(* What a comparison means.                                                *)
(***************************************************************************)
\* A number has its remainder by 2s, whether it is stored as it is or from below.
LEMMA Remainders ==
  ASSUME NEW s \in Nat \ {0}, NEW n \in (-s)..(2 * s - 1)
  PROVE  n % (2 * s) = IF n < 0 THEN n + 2 * s ELSE n
<1>1. PICK w \in Nat \ {0} : w = 2 * s
  OBVIOUS
<1>2. CASE n < 0
  <2>1. PICK z \in 0..(w - 1) : z = n + w
    BY <1>1, <1>2
  <2>2. (w * (-1) + z) % w = z
    OBVIOUS
  <2>3. n = w * (-1) + z
    BY <2>1
  <2> QED BY <1>1, <1>2, <2>1, <2>2, <2>3
<1>3. CASE ~(n < 0)
  BY <1>1, <1>3
<1> QED BY <1>2, <1>3

\* The numbers a user may mean by the bytes of a field are the one number that the
\* evaluators read there, if it is one.
LEMMA OneMeaning ==
  ASSUME NEW type \in AllTypes, type # "data", NEW b \in FieldBytes(type)
  PROVE  Meanings(type, b) = IF NoNumber(type, b) THEN {} ELSE {Number(type, b)}
<1>1. PICK s \in Nat \ {0} : s = SignBit(type)
  BY SignBits
<1>2. PICK u \in 0..(2 * s - 1) : u = Unsigned(InOrder(type, b))
  BY <1>1, UnsignedField
<1>3. ASSUME NEW n \in (-s)..(2 * s - 1)
      PROVE  Stored(type, n) = b <=> u = IF n < 0 THEN n + 2 * s ELSE n
  <2>1. n \in Int
    OBVIOUS
  <2>2. Stored(type, n) = b <=> n % (2 * s) = u
    BY <1>1, <1>2, <2>1, StoredIs
  <2> QED BY <2>2, Remainders
<1>4. Number(type, b) = CASE Config[type].kind = "signed" /\ u >= s -> u - 2 * s
                          [] Config[type].kind = "float" /\ u >= s -> s - u
                          [] OTHER -> u
  BY <1>1, <1>2 DEF Number
<1>5. NoNumber(type, b) <=> Config[type].kind = "float" /\ u % s = s - 1
  BY <1>1, <1>2 DEF NoNumber
<1>6. Config[type].kind \in {"unsigned", "signed", "float"}
  BY TypeFacts
<1>7. CASE Config[type].kind = "unsigned"
  <2>1. Numbers(type) = 0..(2 * s - 1)
    BY <1>1, <1>7 DEF Numbers
  <2>2. \A n \in Numbers(type) : n \in Meanings(type, b) <=> n = u
    BY <1>3, <1>7, <2>1 DEF Meanings, TypedValue
  <2>3. Number(type, b) = u /\ ~NoNumber(type, b)
    BY <1>4, <1>5, <1>7
  <2>4. u \in Numbers(type) /\ Meanings(type, b) \subseteq Numbers(type)
    BY <2>1 DEF Meanings
  <2> QED BY <2>2, <2>3, <2>4
<1>8. CASE Config[type].kind = "signed"
  <2>1. Numbers(type) = (-s)..(s - 1)
    BY <1>1, <1>8 DEF Numbers
  <2>2. PICK m \in Numbers(type) : m = IF u >= s THEN u - 2 * s ELSE u
    BY <2>1
  <2>3. ASSUME NEW n \in Numbers(type) PROVE n \in Meanings(type, b) <=> n = m
    <3>1. n \in (-s)..(2 * s - 1)
      BY <2>1
    <3>2. Stored(type, n) = b <=> n = m
      BY <1>3, <2>1, <2>2, <3>1
    <3> QED BY <1>8, <3>2 DEF Meanings, TypedValue
  <2>4. Number(type, b) = m /\ ~NoNumber(type, b)
    BY <1>4, <1>5, <1>8, <2>2
  <2>5. Meanings(type, b) \subseteq Numbers(type)
    BY DEF Meanings
  <2> QED BY <2>2, <2>3, <2>4, <2>5
<1>9. CASE Config[type].kind = "float"
  <2>1. Numbers(type) = (2 - s)..(s - 2)
    BY <1>1, <1>9 DEF Numbers
  <2>2. ASSUME NEW n \in Numbers(type)
        PROVE  n \in Meanings(type, b) <=> u = (IF n < 0 THEN s - n ELSE n) \/ (n = 0 /\ u = s)
    <3>1. PICK m \in (-s)..(2 * s - 1) : m = IF n < 0 THEN s - n ELSE n
      BY <2>1
    <3>2. m >= 0
      BY <2>1, <3>1
    <3>3. Stored(type, m) = b <=> u = m
      BY <1>3, <3>2
    <3>4. TypedValue(type, n) = Stored(type, m)
      BY <1>1, <1>9, <3>1 DEF TypedValue
    <3>5. s \in (-s)..(2 * s - 1) /\ ~(s < 0)
      OBVIOUS
    <3>6. Stored(type, s) = b <=> u = s
      BY <1>3, <3>5
    <3>7. n \in Meanings(type, b) <=> TypedValue(type, n) = b \/ (n = 0 /\ Stored(type, s) = b)
      BY <1>1, <1>9 DEF Meanings
    <3> QED BY <3>1, <3>3, <3>4, <3>6, <3>7
  <2>3. Meanings(type, b) \subseteq Numbers(type)
    BY DEF Meanings
  <2>4. u % s = IF u < s THEN u ELSE u - s
    <3>1. CASE u < s
      BY <3>1
    <3>2. CASE u >= s
      <4>1. PICK z \in 0..(s - 1) : z = u - s
        BY <3>2
      <4>2. (s * 1 + z) % s = z /\ u = s * 1 + z
        BY <4>1
      <4> QED BY <3>2, <4>1, <4>2
    <3> QED BY <3>1, <3>2
  <2>5. CASE u % s = s - 1
    <3>1. \A n \in Numbers(type) : n \notin Meanings(type, b)
      BY <2>1, <2>2, <2>4, <2>5
    <3> QED BY <1>5, <1>9, <2>3, <2>5, <3>1
  <2>6. CASE u % s # s - 1
    <3>1. PICK m \in Numbers(type) : m = IF u >= s THEN s - u ELSE u
      BY <2>1, <2>4, <2>6
    <3>2. ASSUME NEW n \in Numbers(type) PROVE n \in Meanings(type, b) <=> n = m
      <4>1. n \in (2 - s)..(s - 2)
        BY <2>1
      <4>2. u = (IF n < 0 THEN s - n ELSE n) \/ (n = 0 /\ u = s) <=> n = m
        BY <2>4, <2>6, <3>1, <4>1
      <4> QED BY <2>2, <4>2
    <3>3. Number(type, b) = m /\ ~NoNumber(type, b)
      BY <1>4, <1>5, <1>9, <2>6, <3>1
    <3> QED BY <2>3, <3>2, <3>3
  <2> QED BY <2>5, <2>6
<1> QED BY <1>6, <1>7, <1>8, <1>9

\* The evaluators of numbers say what the numbers meant say.
LEMMA CompareMeans ==
  ASSUME NEW type \in AllTypes, type # "data", NEW test, test # "$",
         NEW a \in FieldBytes(type), NEW b \in FieldBytes(type)
  PROVE  Evaluate(type, test, a, b)
         <=> IF Meanings(type, a) = {} \/ Meanings(type, b) = {} THEN test \in {"!=", "ALL"}
             ELSE \E i \in Meanings(type, a), j \in Meanings(type, b) : Compare(test, i, j)
<1>1. Evaluate(type, test, a, b)
      <=> IF NoNumber(type, a) \/ NoNumber(type, b) THEN test \in {"!=", "ALL"}
          ELSE Compare(test, Number(type, a), Number(type, b))
  BY DEF Evaluate
<1>2. /\ Meanings(type, a) = IF NoNumber(type, a) THEN {} ELSE {Number(type, a)}
      /\ Meanings(type, b) = IF NoNumber(type, b) THEN {} ELSE {Number(type, b)}
  BY OneMeaning
<1>3. CASE NoNumber(type, a) \/ NoNumber(type, b)
  BY <1>1, <1>2, <1>3
<1>4. CASE ~(NoNumber(type, a) \/ NoNumber(type, b))
  <2>1. Meanings(type, a) = {Number(type, a)} /\ Meanings(type, b) = {Number(type, b)}
    BY <1>2, <1>4
  <2> QED BY <1>1, <1>4, <2>1
<1> QED BY <1>3, <1>4

\* Values that pass as a flag change differ by one bit, which one of them has.
LEMMA FlagMeans ==
  ASSUME NEW type \in AllTypes, NEW a \in FieldBytes(type), NEW b \in FieldBytes(type),
         Flag(type, a, b)
  PROVE  OneBitApart(Unsigned(a), Unsigned(b)) \/ OneBitApart(Unsigned(b), Unsigned(a))
<1> DEFINE w == Bits * FieldSize(type)
           A == BitsOf(Unsigned(a), w)
           B == BitsOf(Unsigned(b), w)
<1>1. w \in Nat /\ w <= 2 * Bits /\ Bits \in Nat
  BY BitsAssumption, TypeFacts
<1>2. Len(a) = FieldSize(type)
  BY DEF FieldBytes
<1>3. Cardinality((A \ B) \cup (B \ A)) = 1
  BY <1>2 DEF Flag, DifferingBits, SymDiff
<1>4. /\ \A i \in 0..(w - 1) : (i \in A <=> Bit(Unsigned(a), i) = 1)
      /\ \A i \in 0..(w - 1) : (i \in B <=> Bit(Unsigned(b), i) = 1)
      /\ A \subseteq 0..(w - 1) /\ B \subseteq 0..(w - 1)
  BY DEF BitsOf, Bit
<1>5. PICK m \in Nat, n \in Nat : /\ m = Unsigned(a) /\ n = Unsigned(b)
                                /\ m \in 0..(Power[w] - 1) /\ n \in 0..(Power[w] - 1)
  <2>1. Power[w] = 2 * SignBit(type)
    BY SignBits
  <2> QED BY <2>1, UnsignedField, SignBits
<1> HIDE DEF w, A, B
<1>6. IsFiniteSet((A \ B) \cup (B \ A))
  <2>1. IsFiniteSet(0..(w - 1)) /\ (A \ B) \cup (B \ A) \subseteq 0..(w - 1)
    BY <1>1, <1>4, FS_Interval
  <2> QED BY <2>1, FS_Subset
<1>7. PICK i : (A \ B) \cup (B \ A) = {i}
  BY <1>3, <1>6, FS_Singleton
<1>8. i \in 0..(w - 1) /\ i \in 0..(2 * Bits - 1) /\ i \in Nat
  <2>1. i \in 0..(w - 1)
    BY <1>4, <1>7
  <2>2. PICK v \in Nat : v = 2 * Bits
    BY <1>1
  <2> QED BY <1>1, <2>1, <2>2
<1>9. \A j \in 0..(w - 1) : Bit(m, j) \in {0, 1} /\ Bit(n, j) \in {0, 1}
  <2> SUFFICES ASSUME NEW j \in 0..(w - 1) PROVE Bit(m, j) \in {0, 1} /\ Bit(n, j) \in {0, 1}
    OBVIOUS
  <2>1. PICK p \in Nat \ {0} : p = Power[j]
    BY <1>1, PowerIs
  <2>2. (m \div p) % 2 \in {0, 1} /\ (n \div p) % 2 \in {0, 1}
    OBVIOUS
  <2> QED BY <2>1, <2>2 DEF Bit
<1>10. Alike(m, n, w, {i}) /\ Alike(n, m, w, {i})
  <2> SUFFICES ASSUME NEW j \in 0..(w - 1), j # i PROVE Bit(m, j) = Bit(n, j)
    BY DEF Alike
  <2>1. j \in A <=> j \in B
    BY <1>7
  <2> QED BY <1>4, <1>5, <1>9, <2>1
<1>11. CASE i \in A
  <2>1. i \notin B
    BY <1>7, <1>11
  <2>2. Bit(m, i) = 1 /\ Bit(n, i) = 0
    BY <1>4, <1>5, <1>8, <1>9, <1>11, <2>1
  <2>3. m = n + Power[i]
    BY <1>1, <1>5, <1>8, <1>10, <2>2, OneBitMore
  <2> QED BY <1>5, <1>8, <2>2, <2>3 DEF OneBitApart, Bit
<1>12. CASE i \notin A
  <2>1. i \in B
    BY <1>7, <1>12
  <2>2. Bit(n, i) = 1 /\ Bit(m, i) = 0
    BY <1>4, <1>5, <1>8, <1>9, <1>12, <2>1
  <2>3. n = m + Power[i]
    BY <1>1, <1>5, <1>8, <1>10, <2>2, OneBitMore
  <2> QED BY <1>5, <1>8, <2>2, <2>3 DEF OneBitApart, Bit
<1> QED BY <1>11, <1>12

\* what update is asked to do, which no step changes
Asked ==
  /\ IsSearch(search) /\ IsSnapshot(new) /\ WholeFields(search.type, new)
  /\ value \in Seq(Byte) /\ CanUpdate(search, op, value)
  /\ HasMemory(search) \/ op # "ALL"

\* The bytes at a field that was read.
LEMMA BytesOfField ==
  ASSUME NEW type \in AllTypes, NEW snap, IsSnapshot(snap), WholeFields(type, snap),
         NEW a \in Readable(snap), Aligned(type, a)
  PROVE  BytesAt(snap, a, FieldSize(type)) \in FieldBytes(type) /\ a \in Nat \ {0}
<1>1. PICK i \in DOMAIN snap : a \in RegionCells(snap[i]) /\ snap[i].data # <<>>
  BY RegionOf, FieldsOf
<1>2. /\ a \in Nat /\ snap[i].addr <= a /\ a < EndAddr(snap[i])
      /\ snap[i].addr \in Nat \ {0} /\ snap[i].data \in Seq(Byte)
  BY <1>1, CellsOf, RegionFacts
<1>3. RegionAt(snap, a) = snap[i]
  BY <1>1, RegionAtIs
<1>4. Fits(snap[i], a, FieldSize(type))
  BY <1>1, <1>2, FieldFits
<1>5. FieldSize(type) \in Nat \ {0}
  BY FieldSizes
<1>6. PICK o \in Nat, n \in Nat \ {0}, d \in Seq(Byte) :
        o = a - snap[i].addr /\ n = FieldSize(type) /\ d = snap[i].data /\ o + n <= Len(d)
  BY <1>2, <1>4, <1>5 DEF Fits
<1>7. PICK w \in Seq(Byte) : w = SubSeq(d, o + 1, o + n) /\ Len(w) = n
  <2>1. PICK l \in Int, h \in Int : l = o + 1 /\ h = o + n /\ l <= h /\ h - l + 1 = n
    BY <1>6
  <2>2. \A j \in l..h : d[j] \in Byte
    <3>1. \A j \in l..h : j \in 1..Len(d)
      <4>1. PICK z \in Nat : z = Len(d)
        OBVIOUS
      <4>2. o + n <= z
        BY <1>6, <4>1
      <4>3. h <= z /\ l >= 1
        BY <2>1, <4>2
      <4>4. \A j \in l..h : j \in 1..z
        BY <4>3
      <4> QED BY <4>1, <4>4
    <3> QED BY <1>6, <3>1
  <2>3. SubSeq(d, l, h) \in Seq(Byte) /\ Len(SubSeq(d, l, h)) = n
    BY <2>1, <2>2, SubSeqProperties
  <2> QED BY <2>1, <2>3
<1>8. BytesAt(snap, a, FieldSize(type)) = w
  <2>1. a - snap[i].addr + 1 = o + 1 /\ a - snap[i].addr + n = o + n
    BY <1>6
  <2> QED BY <1>3, <1>6, <1>7, <2>1 DEF BytesAt, Window
<1>9. w \in FieldBytes(type)
  BY <1>6, <1>7 DEF FieldBytes
<1> QED BY <1>2, <1>8, <1>9

\* The comparison of a field is what it means.
LEMMA HoldsMeans ==
  ASSUME Asked, search.type # "data", NEW a \in Readable(new), Aligned(search.type, a),
         value = NoValue => HasMemory(search) /\ a \in Readable(search.memory)
  PROVE  /\ Holds(search, new, op, value, a) => MeantToPass(a)
         /\ op # "$" /\ MeantToPass(a) => Holds(search, new, op, value, a)
<1>1. search.type \in AllTypes /\ Field = FieldSize(search.type) /\ value \in Seq(Byte)
  BY DEF Asked, IsSearch, Field
<1>2. Len(value) \in {0, Field}
  BY DEF Asked, CanUpdate, Field
<1> DEFINE current == BytesAt(new, a, Field)
           target == IF value = NoValue THEN BytesAt(search.memory, a, Field) ELSE value
<1>3. current \in FieldBytes(search.type)
  BY <1>1, BytesOfField DEF Asked
<1>4. target \in FieldBytes(search.type)
  <2>1. CASE value = NoValue
    <3>1. IsSnapshot(search.memory) /\ WholeFields(search.type, search.memory)
      BY <2>1 DEF Asked, IsSearch
    <3>2. BytesAt(search.memory, a, Field) \in FieldBytes(search.type)
      BY <1>1, <2>1, <3>1, BytesOfField
    <3> QED BY <2>1, <3>2
  <2>2. CASE value # NoValue
    <3>1. Len(value) = Field
      BY <1>1, <1>2, <2>2, EmptySeq DEF NoValue
    <3> QED BY <1>1, <2>2, <3>1 DEF FieldBytes
  <2> QED BY <2>1, <2>2
<1>5. Holds(search, new, op, value, a) <=> Evaluate(search.type, op, current, target)
  BY <1>1 DEF Holds, Width
<1>6. MeantToPass(a) <=>
        IF op = "$"
        THEN \/ OneBitApart(Unsigned(current), Unsigned(target))
             \/ OneBitApart(Unsigned(target), Unsigned(current))
        ELSE IF Meanings(search.type, current) = {} \/ Meanings(search.type, target) = {}
        THEN op \in {"!=", "ALL"}
        ELSE \E i \in Meanings(search.type, current), j \in Meanings(search.type, target) :
               Compare(op, i, j)
  BY DEF MeantToPass
<1> HIDE DEF current, target
<1>7. CASE op = "$"
  <2>1. Evaluate(search.type, op, current, target) <=> Flag(search.type, current, target)
    BY <1>7 DEF Evaluate
  <2> QED BY <1>1, <1>3, <1>4, <1>5, <1>6, <1>7, <2>1, FlagMeans
<1>8. CASE op # "$"
  <2>1. Evaluate(search.type, op, current, target)
        <=> IF Meanings(search.type, current) = {} \/ Meanings(search.type, target) = {}
            THEN op \in {"!=", "ALL"}
            ELSE \E i \in Meanings(search.type, current), j \in Meanings(search.type, target) :
                   Compare(op, i, j)
    BY <1>1, <1>3, <1>4, <1>8, CompareMeans
  <2> QED BY <1>5, <1>6, <1>8, <2>1
<1> QED BY <1>7, <1>8

\* A field of a snapshot was read, and begins at a whole number of fields.
LEMMA FieldsRead ==
  ASSUME NEW type \in AllTypes, NEW snap, IsSnapshot(snap), WholeFields(type, snap),
         NEW a \in Fields(type, snap)
  PROVE  a \in Readable(snap) /\ Aligned(type, a)
<1>1. PICK i \in DOMAIN snap : a \in RegionCells(snap[i])
  BY RegionOf
<1>2. snap[i].data # <<>> /\ Aligned(type, a - snap[i].addr)
  BY <1>1, FieldsOf
<1>3. a \in Nat /\ snap[i].addr <= a /\ snap[i].addr \in Nat
  BY <1>1, CellsOf, RegionFacts
<1>4. PICK o \in Nat : o = a - snap[i].addr
  BY <1>3
<1>5. Aligned(type, snap[i].addr + o)
  BY <1>2, <1>3, <1>4, AlignedSums DEF WholeFields
<1>6. snap[i].addr + o = a
  BY <1>3, <1>4
<1> QED BY <1>1, <1>2, <1>5, <1>6, FieldsOf

\* A set of addresses of a snapshot is finite, and its list has all of them.
LEMMA ListOf ==
  ASSUME NEW snap, IsSnapshot(snap), NEW S, S \subseteq Readable(snap)
  PROVE  /\ Ascending(S) \in Seq(S)
         /\ \A a \in S : \E i \in DOMAIN Ascending(S) : Ascending(S)[i] = a
<1>1. \A a \in S : a \in Nat /\ a <= AddrSpace
  BY RegionOf
<1>2. S \in SUBSET Nat /\ IsFiniteSet(S)
  <2>1. S \in SUBSET Nat /\ AddrSpace \in Nat
    BY <1>1, AddrSpaceAssumption
  <2> QED BY <1>1, <2>1, FS_BoundedSetOfNaturals
<1> QED BY <1>2, AscendingMembers

\* What Update computes, of the three cases, is what is meant.
LEMMA FirstMeans ==
  ASSUME Asked, search.type # "data", ~HasMemory(search),
         NEW i \in DOMAIN FirstResults(search, new, op, value, MaxResults)
  PROVE  MeantToPass(FirstResults(search, new, op, value, MaxResults)[i])
<1> DEFINE S == FirstHits(search, new, op, value)
           all == Ascending(S)
           m == IF Len(all) < MaxResults THEN Len(all) ELSE MaxResults
<1>1. /\ search.type \in AllTypes /\ IsSnapshot(new) /\ WholeFields(search.type, new)
      /\ op # "ALL" /\ value # NoValue /\ value \in Seq(Byte)
  BY DEF Asked, IsSearch, CanUpdate
<1>2. \A a \in S : /\ a \in Fields(search.type, new)
                   /\ Evaluate(search.type, op, BytesAt(new, a, Len(value)), value)
  BY DEF FirstHits
<1>3. \A a \in S : a \in Readable(new) /\ Aligned(search.type, a)
  BY <1>1, <1>2, FieldsRead
<1>4. all \in Seq(S) /\ Len(all) \in Nat
  <2> HIDE DEF S
  <2> QED BY <1>1, <1>3, ListOf
<1>5. FirstResults(search, new, op, value, MaxResults) = SubSeq(all, 1, m)
  BY DEF FirstResults
<1>6. m \in Nat /\ m <= Len(all)
  BY <1>4, MaxResultsAssumption
<1>7. Len(value) = FieldSize(search.type)
  <2>1. Len(value) \in {0, FieldSize(search.type)}
    BY DEF Asked, CanUpdate
  <2> QED BY <1>1, <2>1, EmptySeq DEF NoValue
<1> HIDE DEF S, all, m
<1>8. \A j \in 1..m : all[j] \in S
  BY <1>4, <1>6
<1>9. SubSeq(all, 1, m) \in Seq(S)
  BY <1>6, <1>8, SubSeqProperties
<1>10. PICK a \in S : a = FirstResults(search, new, op, value, MaxResults)[i]
  BY <1>5, <1>9
<1>11. Holds(search, new, op, value, a)
  BY <1>1, <1>2, <1>7 DEF Holds, Width
<1>12. MeantToPass(a)
  BY <1>1, <1>3, <1>11, HoldsMeans
<1> QED BY <1>10, <1>12

LEMMA SecondMeans ==
  ASSUME Asked, search.type # "data", HasMemory(search), ~search.results_valid
  PROVE  LET found == SecondResults(search, new, op, value) IN
         /\ \A i \in DOMAIN found : MeantToPass(found[i])
         /\ \A a \in Fields(search.type, new) \cap Readable(search.memory) :
              op # "$" /\ MeantToPass(a) => \E i \in DOMAIN found : found[i] = a
<1> DEFINE S == {a \in Fields(search.type, new) \cap Readable(search.memory) :
                   Holds(search, new, op, value, a)}
           found == SecondResults(search, new, op, value)
<1>1. search.type \in AllTypes /\ IsSnapshot(new) /\ WholeFields(search.type, new)
  BY DEF Asked, IsSearch
<1>2. \A a \in Fields(search.type, new) : a \in Readable(new) /\ Aligned(search.type, a)
  BY <1>1, FieldsRead
<1>3. found = Ascending(S)
  BY DEF SecondResults
<1>4. S \subseteq Readable(new)
  BY <1>2
<1>5. \A a \in Fields(search.type, new) \cap Readable(search.memory) :
        /\ a \in S => MeantToPass(a)
        /\ op # "$" /\ MeantToPass(a) => a \in S
  BY <1>2, HoldsMeans
<1>6. S \subseteq Fields(search.type, new) \cap Readable(search.memory)
  OBVIOUS
<1> HIDE DEF S, found
<1>7. found \in Seq(S) /\ \A a \in S : \E i \in DOMAIN found : found[i] = a
  BY <1>1, <1>3, <1>4, ListOf
<1>8. \A i \in DOMAIN found : found[i] \in S
  BY <1>7
<1> QED BY <1>5, <1>6, <1>7, <1>8 DEF found

LEMMA NarrowMeans ==
  ASSUME Asked, search.type # "data", HasMemory(search), search.results_valid
  PROVE  LET found == Narrowed(search, new, op, value) IN
         /\ \A i \in DOMAIN found : MeantToPass(found[i])
         /\ \A j \in DOMAIN search.results :
              /\ search.results[j] \in Readable(new)
              /\ op # "$" /\ MeantToPass(search.results[j])
              => \E i \in DOMAIN found : found[i] = search.results[j]
<1> DEFINE S == {a \in Range(search.results) \cap Readable(new) \cap Covered(search.memory) :
                   a # 0 /\ Holds(search, new, op, value, a)}
           found == Narrowed(search, new, op, value)
<1>1. /\ search.type \in AllTypes /\ IsSnapshot(new) /\ WholeFields(search.type, new)
      /\ search.results \in Seq(Nat)
  BY DEF Asked, IsSearch
<1>2. \A j \in DOMAIN search.results :
        search.results[j] \in Readable(search.memory) /\ Aligned(search.type, search.results[j])
  BY DEF Asked, IsSearch
<1>3. found = Kept(search.results, S)
  BY DEF Narrowed
<1>4. Readable(search.memory) \subseteq Covered(search.memory)
  BY DEF Readable, Covered
<1>5. ASSUME NEW j \in DOMAIN search.results, search.results[j] \in Readable(new)
      PROVE  /\ search.results[j] \in S => MeantToPass(search.results[j])
             /\ op # "$" /\ MeantToPass(search.results[j]) => search.results[j] \in S
  <2>1. PICK a \in Readable(new) : a = search.results[j]
    BY <1>5
  <2>2. a \in Readable(search.memory) /\ Aligned(search.type, a)
    BY <1>2, <2>1
  <2>3. a # 0
    BY <1>1, <2>2, BytesOfField
  <2>4. /\ Holds(search, new, op, value, a) => MeantToPass(a)
        /\ op # "$" /\ MeantToPass(a) => Holds(search, new, op, value, a)
    BY <2>2, HoldsMeans
  <2>5. a \in S <=> Holds(search, new, op, value, a)
    BY <1>4, <2>1, <2>2, <2>3 DEF Range
  <2> HIDE DEF S
  <2> QED BY <2>1, <2>4, <2>5
<1>6. S \subseteq Readable(new)
  OBVIOUS
<1> HIDE DEF S
<1>7. /\ \A i \in DOMAIN found :
           found[i] \in S /\ \E j \in DOMAIN search.results : found[i] = search.results[j]
      /\ \A j \in DOMAIN search.results : search.results[j] \in S =>
           \E i \in DOMAIN found : found[i] = search.results[j]
  BY <1>1, <1>3, KeptMembers
<1> HIDE DEF found
<1>8. ASSUME NEW i \in DOMAIN found PROVE MeantToPass(found[i])
  <2>1. PICK j \in DOMAIN search.results : found[i] = search.results[j]
    BY <1>7
  <2>2. search.results[j] \in S
    BY <1>7, <2>1
  <2> QED BY <1>5, <1>6, <2>1, <2>2
<1>9. ASSUME NEW j \in DOMAIN search.results, search.results[j] \in Readable(new),
             op # "$", MeantToPass(search.results[j])
      PROVE  \E i \in DOMAIN found : found[i] = search.results[j]
  BY <1>5, <1>7, <1>9
<1> QED BY <1>8, <1>9 DEF found

LEMMA ComputedMeans ==
  ASSUME Asked, ModeOK, ComputesUpdate
  PROVE  ResultsMeanNumbers
<1> SUFFICES ASSUME Computed, search.type # "data" PROVE ResultsMeanNumbers
  BY DEF ResultsMeanNumbers
<1> DEFINE found == {results[i] : i \in DOMAIN results}
           candidates ==
             IF ~HasMemory(search) THEN {}
             ELSE IF ~search.results_valid
             THEN Fields(search.type, new) \cap Readable(search.memory)
             ELSE {search.results[i] : i \in DOMAIN search.results} \cap Readable(new)
           Mean == /\ \A i \in DOMAIN results : MeantToPass(results[i])
                   /\ op # "$" => \A a \in candidates :
                        MeantToPass(a) => \E i \in DOMAIN results : results[i] = a
<1>1. HasMemory(search) \/ op # "ALL"
  BY DEF Asked
<1>2. results = IF ~HasMemory(search) THEN FirstResults(search, new, op, value, MaxResults)
                ELSE IF ~search.results_valid THEN SecondResults(search, new, op, value)
                ELSE Narrowed(search, new, op, value)
  BY <1>1, UpdateResults DEF ComputesUpdate
<1>3. ASSUME ~HasMemory(search) PROVE Mean
  <2>1. results = FirstResults(search, new, op, value, MaxResults) /\ candidates = {}
    BY <1>2, <1>3
  <2> HIDE DEF candidates
  <2>2. \A i \in DOMAIN results : MeantToPass(results[i])
    BY <1>3, <2>1, FirstMeans
  <2> QED BY <2>1, <2>2
<1>4. ASSUME HasMemory(search), ~search.results_valid PROVE Mean
  <2>1. /\ results = SecondResults(search, new, op, value)
        /\ candidates = Fields(search.type, new) \cap Readable(search.memory)
    BY <1>2, <1>4
  <2> HIDE DEF candidates
  <2> QED BY <1>4, <2>1, SecondMeans
<1>5. ASSUME HasMemory(search), search.results_valid PROVE Mean
  <2>1. /\ results = Narrowed(search, new, op, value)
        /\ candidates = {search.results[i] : i \in DOMAIN search.results} \cap Readable(new)
    BY <1>2, <1>5
  <2>2. \A a \in candidates :
          a \in Readable(new) /\ \E j \in DOMAIN search.results : a = search.results[j]
    BY <2>1
  <2> HIDE DEF candidates
  <2>3. /\ \A i \in DOMAIN results : MeantToPass(results[i])
        /\ \A j \in DOMAIN search.results :
             /\ search.results[j] \in Readable(new)
             /\ op # "$" /\ MeantToPass(search.results[j])
             => \E i \in DOMAIN results : results[i] = search.results[j]
    BY <1>5, <2>1, NarrowMeans
  <2> QED BY <2>2, <2>3
<1>6. Mean
  BY <1>3, <1>4, <1>5
<1>7. (\A a \in found : MeantToPass(a))
      /\ (op # "$" => \A a \in candidates : MeantToPass(a) => a \in found)
  <2> HIDE DEF candidates
  <2> QED BY <1>6
<1> QED BY <1>7 DEF ResultsMeanNumbers

LEMMA InitAsked == Init => Asked
<1> SUFFICES ASSUME Init PROVE Asked
  OBVIOUS
<1>1. PICK f \in Families :
        search \in f.searches /\ new \in f.snapshots /\ op \in f.ops /\ value \in f.values
  BY DEF Init
<1>2. /\ IsSearch(search) /\ IsSnapshot(new) /\ value \in Seq(Byte)
      /\ WholeFields(search.type, new)
  BY <1>1, FamiliesAssumption
<1> QED BY <1>2 DEF Init, Asked

LEMMA NextAsked == Asked /\ [Next]_vars => Asked'
<1> SUFFICES ASSUME Asked, [Next]_vars PROVE Asked'
  OBVIOUS
<1>1. UNCHANGED given
  BY DEF Next, FirstNext, FirstField, SkipOld, SecondNext, SecondJump, SecondField, SkipNew,
         SkipOldForResult, DropResult, NarrowResult, Finish, Returned, Crash, vars
<1> QED BY <1>1 DEF given, Asked

\* What a search for numbers finds are the fields whose number, as read_typed_value would
\* write it, passes the predicate: for bytes of any number of bits, every type, sign, byte
\* order and predicate, and all snapshots and values (README `search', evaluators).
THEOREM ResultsAreMeant == Spec => []ResultsMeanNumbers
<1>1. Init => IInv /\ Reads /\ Complete /\ Asked
  BY InitIInv, InitReads, InitComplete, InitAsked
<1>2. IInv /\ Reads /\ Complete /\ Asked /\ [Next]_vars => (IInv /\ Reads /\ Complete /\ Asked)'
  BY NextIInv, NextReads, NextComplete, NextAsked
<1>3. Complete /\ Asked => ResultsMeanNumbers
  BY ComputedMeans DEF Complete
<1> QED BY <1>1, <1>2, <1>3, PTL DEF Spec
=============================================================================
