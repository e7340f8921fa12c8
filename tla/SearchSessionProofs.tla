------------------------ MODULE SearchSessionProofs ------------------------
(***************************************************************************)
(* What the session promises of every search, for all names, requests,      *)
(* targets and limits: a search has from one to max_search_iterations       *)
(* iterations, each one's results are in its snapshot and ascend, they only *)
(* become fewer, and for integers they are the addresses that have passed   *)
(* every predicate.                                                        *)
(*                                                                         *)
(* The inductive invariant says of every open search that its iterations    *)
(* are each as EntryOK has it, and each Follows the one before.             *)
(***************************************************************************)
EXTENDS SearchSession, EvaluatorProofs, SequenceTheorems

\* what is kept under a name is a sequence, of whatever iterations
IsList(its) == \E S : its \in Seq(S)

IsRecord(s) ==
  s = [type |-> s.type, results_valid |-> s.results_valid, memory |-> s.memory,
       prev_size |-> s.prev_size, results |-> s.results]

Typed(e) ==
  LET s == e.iteration IN
  /\ e = [iteration |-> s, kept |-> e.kept, seen |-> e.seen, unknown |-> e.unknown]
  /\ IsRecord(s)
  /\ s.type \in Types /\ s.results_valid \in BOOLEAN
  /\ s.prev_size \in {0, 1} /\ s.results \in Seq(Cells)
  /\ e.unknown \in BOOLEAN

InSnapshot(e) ==
  LET s == e.iteration IN
  /\ s.results_valid => HasMemory(s) /\ Range(s.results) \subseteq Readable(s.memory)
  /\ ~s.results_valid => s.results = <<>>
  /\ Ordered(s.results)

\* the results are what the user is entitled to, and the snapshot is what the target was
Earned(e) ==
  LET s == e.iteration IN
  s.type = "u8" =>
    /\ Range(s.results) \subseteq e.kept
    /\ HasMemory(s) =>
         \A a \in e.kept \cap Readable(s.memory) :
           e.seen[a] \in Byte /\ BytesAt(s.memory, a, 1) = <<e.seen[a]>>
    /\ HasMemory(s) /\ ~s.results_valid => e.kept = Readable(s.memory)
    /\ e.unknown /\ s.results_valid => e.kept \subseteq Range(s.results)

EntryOK(e) == Typed(e) /\ InSnapshot(e) /\ Earned(e)

\* e is an iteration that may come after d
Follows(d, e) ==
  d.iteration.results_valid => Range(e.iteration.results) \subseteq Range(d.iteration.results)

Story(its) ==
  /\ IsList(its)
  /\ \A i \in DOMAIN its : EntryOK(its[i])
  /\ \A i \in 2..Len(its) : Follows(its[i - 1], its[i])

\* a list of iterations a command may store
Storable(its) == Story(its) /\ Len(its) \in 1..MaxIterations

IInv ==
  /\ DOMAIN searches \subseteq AllNames /\ current \in AllNames
  /\ ram \in RamType /\ fault \in BOOLEAN
  /\ \A n \in DOMAIN searches : Storable(searches[n])

(***************************************************************************)
(* Lists.                                                                  *)
(***************************************************************************)
LEMMA ListDomain ==
  ASSUME NEW its, IsList(its)
  PROVE  Len(its) \in Nat /\ DOMAIN its = 1..Len(its)
BY DEF IsList

LEMMA AppendStory ==
  ASSUME NEW its, Story(its), NEW e, EntryOK(e), Len(its) > 0 => Follows(its[Len(its)], e)
  PROVE  Story(Append(its, e)) /\ Len(Append(its, e)) = Len(its) + 1
<1>1. PICK S : its \in Seq(S)
  BY DEF Story, IsList
<1>2. its \in Seq(S \cup {e})
  BY <1>1
<1>3. /\ Append(its, e) \in Seq(S \cup {e}) /\ Len(Append(its, e)) = Len(its) + 1
      /\ \A i \in 1..Len(its) : Append(its, e)[i] = its[i]
      /\ Append(its, e)[Len(its) + 1] = e
  BY <1>2, AppendProperties
<1>4. Len(its) \in Nat /\ DOMAIN its = 1..Len(its) /\ DOMAIN Append(its, e) = 1..(Len(its) + 1)
  BY <1>1, <1>3
<1>5. \A i \in DOMAIN Append(its, e) : EntryOK(Append(its, e)[i])
  BY <1>3, <1>4 DEF Story
<1>6. ASSUME NEW i \in 2..(Len(its) + 1) PROVE Follows(Append(its, e)[i - 1], Append(its, e)[i])
  <2>1. CASE i = Len(its) + 1
    <3>1. i - 1 = Len(its) /\ Len(its) > 0 /\ i - 1 \in 1..Len(its)
      BY <1>4, <2>1
    <3> QED BY <1>3, <2>1, <3>1
  <2>2. CASE i # Len(its) + 1
    <3>1. i \in 2..Len(its) /\ i \in 1..Len(its) /\ i - 1 \in 1..Len(its)
      BY <1>4, <2>2
    <3> QED BY <1>3, <3>1 DEF Story
  <2> QED BY <2>1, <2>2
<1>7. IsList(Append(its, e))
  BY <1>3 DEF IsList
<1> QED BY <1>3, <1>5, <1>6, <1>7 DEF Story

LEMMA SingleStory ==
  ASSUME NEW e, EntryOK(e)
  PROVE  Storable(<<e>>)
<1>1. <<e>> \in Seq({e}) /\ Len(<<e>>) = 1 /\ <<e>>[1] = e /\ DOMAIN <<e>> = {1}
  OBVIOUS
<1>2. IsList(<<e>>)
  BY <1>1, Zenon DEF IsList
<1>3. 1 \in 1..MaxIterations /\ 2..1 = {}
  BY SessionAssumption
<1> QED BY <1>1, <1>2, <1>3 DEF Storable, Story

LEMMA SubStory ==
  ASSUME NEW its, Story(its), NEW m \in 1..(Len(its) + 1), NEW n \in 0..Len(its)
  PROVE  /\ Story(SubSeq(its, m, n))
         /\ Len(SubSeq(its, m, n)) = IF m <= n THEN n - m + 1 ELSE 0
         /\ \A i \in 1..(n - m + 1) : SubSeq(its, m, n)[i] = its[m + i - 1]
<1>1. PICK S : its \in Seq(S)
  BY DEF Story, IsList
<1>2. Len(its) \in Nat /\ m \in Int /\ n \in Int /\ DOMAIN its = 1..Len(its)
  BY <1>1
<1>3. \A i \in m..n : its[i] \in S
  BY <1>1, <1>2
<1> DEFINE sub == SubSeq(its, m, n)
<1>4. /\ sub \in Seq(S) /\ Len(sub) = IF m <= n THEN n - m + 1 ELSE 0
      /\ \A i \in 1..(n - m + 1) : sub[i] = its[m + i - 1]
  BY <1>2, <1>3, SubSeqProperties
<1> HIDE DEF sub
<1>5. DOMAIN sub = 1..Len(sub) /\ \A i \in 1..Len(sub) : i \in 1..(n - m + 1)
  BY <1>2, <1>4
<1>6. ASSUME NEW i \in DOMAIN sub PROVE EntryOK(sub[i])
  <2>1. m + i - 1 \in DOMAIN its
    BY <1>2, <1>5
  <2> QED BY <1>4, <1>5, <2>1 DEF Story
<1>7. ASSUME NEW i \in 2..Len(sub) PROVE Follows(sub[i - 1], sub[i])
  <2>1. i \in 1..(n - m + 1) /\ i - 1 \in 1..(n - m + 1) /\ i - 1 + m - 1 = m + i - 2
    BY <1>2, <1>4, <1>5
  <2>2. sub[i] = its[m + i - 1] /\ sub[i - 1] = its[(m + i - 1) - 1]
    BY <1>2, <1>4, <2>1
  <2>3. m + i - 1 \in 2..Len(its)
    BY <1>2, <2>1
  <2> QED BY <2>2, <2>3 DEF Story
<1>8. IsList(sub)
  BY <1>4 DEF IsList
<1> QED BY <1>4, <1>6, <1>7, <1>8 DEF Story, sub

LEMMA FrontStory ==
  ASSUME NEW its, Story(its), Len(its) > 0
  PROVE  /\ Story(Front(its)) /\ Len(Front(its)) = Len(its) - 1
         /\ \A i \in 1..(Len(its) - 1) : Front(its)[i] = its[i]
<1>1. Len(its) \in Nat
  BY ListDomain DEF Story
<1> DEFINE n == Len(its) - 1
           sub == SubSeq(its, 1, n)
<1>2. 1 \in 1..(Len(its) + 1) /\ n \in 0..Len(its) /\ n - 1 + 1 = n
  BY <1>1
<1>3. Story(sub) /\ Len(sub) = IF 1 <= n THEN n - 1 + 1 ELSE 0
  BY <1>2, SubStory
<1>4. \A i \in 1..(n - 1 + 1) : sub[i] = its[1 + i - 1]
  BY <1>2, SubStory
<1>5. Front(its) = sub
  BY DEF Front
<1> HIDE DEF sub, n
<1>6. Len(sub) = n /\ \A i \in 1..n : 1 + i - 1 = i
  <2>1. n \in Nat
    BY <1>1, <1>2
  <2>2. CASE 1 <= n
    BY <1>2, <1>3, <2>1, <2>2
  <2>3. CASE ~ (1 <= n)
    BY <1>3, <2>1, <2>3
  <2> QED BY <2>1, <2>2, <2>3
<1>7. \A i \in 1..n : sub[i] = its[i]
  BY <1>2, <1>4, <1>6
<1> QED BY <1>3, <1>5, <1>6, <1>7 DEF n

\* command_search trims from the front, to the limit
LEMMA TrimStory ==
  ASSUME NEW its, Story(its), Len(its) > 0
  PROVE  Storable(Trim(its))
<1>1. Len(its) \in Nat /\ MaxIterations \in Nat \ {0}
  BY ListDomain, SessionAssumption DEF Story
<1>2. CASE Len(its) > MaxIterations
  <2>1. Len(its) - MaxIterations + 1 \in 1..(Len(its) + 1) /\ Len(its) \in 0..Len(its)
    BY <1>1, <1>2
  <2>2. Story(Trim(its)) /\ Len(Trim(its)) = MaxIterations
    BY <1>1, <1>2, <2>1, SubStory DEF Trim
  <2> QED BY <1>1, <2>2 DEF Storable
<1>3. CASE ~(Len(its) > MaxIterations)
  <2>1. 1 \in 1..(Len(its) + 1) /\ Len(its) \in 0..Len(its)
    BY <1>1
  <2>2. Story(Trim(its)) /\ Len(Trim(its)) = Len(its)
    BY <1>1, <1>3, <2>1, SubStory DEF Trim
  <2> QED BY <1>1, <1>3, <2>2 DEF Storable
<1> QED BY <1>2, <1>3

(***************************************************************************)
(* Names.                                                                  *)
(***************************************************************************)
LEMMA WithStays ==
  ASSUME NEW f, NEW n \in AllNames, NEW its, Storable(its), DOMAIN f \subseteq AllNames,
         \A m \in DOMAIN f : Storable(f[m])
  PROVE  /\ DOMAIN With(f, n, its) \subseteq AllNames
         /\ \A m \in DOMAIN With(f, n, its) : Storable(With(f, n, its)[m])
BY DEF With

LEMMA WithoutStays ==
  ASSUME IInv, NEW S
  PROVE  /\ DOMAIN Without(S) \subseteq AllNames
         /\ \A m \in DOMAIN Without(S) : Storable(Without(S)[m])
BY DEF IInv, Without

\* a command that stores one list under one name, and keeps or moves the current name
LEMMA ReplaceIInv ==
  ASSUME IInv, NEW n \in AllNames, NEW its, Storable(its), Replace(n, its),
         current' \in AllNames, ram' = ram, fault' \in BOOLEAN
  PROVE  IInv'
<1>1. /\ DOMAIN searches' \subseteq AllNames
      /\ \A m \in DOMAIN searches' : Storable(searches'[m])
  BY WithStays DEF IInv, Replace
<1> QED BY <1>1 DEF IInv

(***************************************************************************)
(* The target's memory, and a snapshot of it.                              *)
(***************************************************************************)
LEMMA PageFacts ==
  /\ Len(Pages) \in Nat /\ DOMAIN Pages = 1..Len(Pages)
  /\ \A i \in DOMAIN Pages :
       /\ Pages[i].addr \in Nat \ {0} /\ Pages[i].size \in Nat \ {0}
       /\ PageCells(i) \subseteq Cells
  /\ \A a \in Cells : \E i \in DOMAIN Pages : a \in PageCells(i)
<1> DEFINE R == [addr: Nat \ {0}, size: Nat \ {0}]
<1>1. Pages \in Seq(R)
  BY SessionAssumption
<1> HIDE DEF R
<1>2. Len(Pages) \in Nat /\ DOMAIN Pages = 1..Len(Pages) /\ \A i \in DOMAIN Pages : Pages[i] \in R
  BY <1>1
<1>3. \A i \in DOMAIN Pages : Pages[i].addr \in Nat \ {0} /\ Pages[i].size \in Nat \ {0}
  BY <1>2 DEF R
<1>4. \A i \in DOMAIN Pages : Pages[i] \in Range(Pages)
  BY DEF Range
<1>5. \A p \in Range(Pages) : \E i \in DOMAIN Pages : p = Pages[i]
  BY DEF Range
<1>6. \A i \in DOMAIN Pages : PageCells(i) \subseteq Cells
  BY <1>4 DEF PageCells, Cells
<1>7. ASSUME NEW a \in Cells PROVE \E i \in DOMAIN Pages : a \in PageCells(i)
  <2>1. PICK p \in Range(Pages) : a \in p.addr .. (p.addr + p.size - 1)
    BY DEF Cells
  <2> QED BY <1>5, <2>1 DEF PageCells
<1> QED BY <1>2, <1>3, <1>6, <1>7

LEMMA CellsAreAddresses == Cells \subseteq Nat \ {0}
<1> SUFFICES ASSUME NEW a \in Cells PROVE a \in Nat \ {0}
  OBVIOUS
<1>1. PICK i \in DOMAIN Pages : a \in PageCells(i)
  BY PageFacts
<1>2. Pages[i].addr \in Nat \ {0} /\ Pages[i].size \in Nat \ {0}
  BY PageFacts
<1> QED BY <1>1, <1>2 DEF PageCells

LEMMA CellsFinite == IsFiniteSet(Cells)
<1>1. CASE Len(Pages) = 0
  <2>1. Cells = {}
    BY <1>1, PageFacts
  <2> QED BY <2>1, FS_EmptySet
<1>2. CASE Len(Pages) # 0
  <2> DEFINE top == Pages[Len(Pages)].addr + Pages[Len(Pages)].size
  <2>1. Len(Pages) \in DOMAIN Pages /\ top \in Nat
    BY <1>2, PageFacts
  <2>2. ASSUME NEW a \in Cells PROVE a <= top
    <3>1. PICK i \in DOMAIN Pages : a \in PageCells(i)
      BY PageFacts
    <3>2. /\ Pages[i].addr \in Nat \ {0} /\ Pages[i].size \in Nat \ {0}
          /\ Pages[Len(Pages)].addr \in Nat \ {0} /\ Pages[Len(Pages)].size \in Nat \ {0}
          /\ i \in Nat /\ Len(Pages) \in Nat /\ i <= Len(Pages)
      BY <2>1, PageFacts
    <3>3. a <= Pages[i].addr + Pages[i].size
      BY <3>1, <3>2 DEF PageCells
    <3>4. CASE i = Len(Pages)
      BY <3>3, <3>4
    <3>5. CASE i < Len(Pages)
      <4>1. Pages[i].addr + Pages[i].size <= Pages[Len(Pages)].addr
        BY <2>1, <3>5, SessionAssumption
      <4>2. a \in Nat
        BY CellsAreAddresses
      <4> QED BY <3>2, <3>3, <4>1, <4>2
    <3> QED BY <3>2, <3>4, <3>5
  <2>3. Cells \in SUBSET Nat
    BY CellsAreAddresses
  <2> HIDE DEF top
  <2> QED BY <2>1, <2>2, <2>3, FS_BoundedSetOfNaturals
<1> QED BY <1>1, <1>2

LEMMA OneElement ==
  ASSUME NEW S, NEW seq \in Seq(S), NEW k \in 1..Len(seq)
  PROVE  SubSeq(seq, k, k) = <<seq[k]>>
<1> DEFINE sub == SubSeq(seq, k, k)
<1>1. k \in Int /\ k - k + 1 = 1 /\ k + 1 - 1 = k /\ \A i \in k..k : seq[i] \in S
  OBVIOUS
<1>2. sub \in Seq(S) /\ Len(sub) = 1 /\ sub[1] = seq[k]
  BY <1>1, SubSeqProperties
<1> HIDE DEF sub
<1>3. sub = <<seq[k]>>
  BY <1>2
<1> QED BY <1>3 DEF sub

\* A page that is mapped gives a region, with its bytes when it can be read.
LEMMA ReadPageFacts ==
  ASSUME ram \in RamType, NEW i \in DOMAIN Pages
  PROVE  /\ ReadPage(i) \in [addr: Nat, size: Nat, data: Seq(Byte)]
         /\ RegionCells(ReadPage(i)) = PageCells(i)
         /\ ReadPage(i).data # <<>> <=> ram.status[i] = "ok"
         /\ ram.status[i] = "ok" =>
              \A a \in PageCells(i) :
                ram.cell[a] \in Byte /\ Window(ReadPage(i), a, 1) = <<ram.cell[a]>>
<1> DEFINE p == Pages[i].addr
           z == Pages[i].size
           bytes == [j \in 1..z |-> ram.cell[p + j - 1]]
<1>1. p \in Nat \ {0} /\ z \in Nat \ {0} /\ PageCells(i) \subseteq Cells
  BY PageFacts
<1>2. PageCells(i) = p .. (p + z - 1)
  BY DEF PageCells
<1>3. ReadPage(i) = [addr |-> p, size |-> z, data |-> IF ram.status[i] = "ok" THEN bytes ELSE <<>>]
  BY DEF ReadPage
<1>4. ram.cell \in [Cells -> Byte]
  BY DEF RamType
<1> HIDE DEF p, z
<1>5. bytes \in Seq(Byte) /\ Len(bytes) = z
  <2>1. \A j \in 1..z : p + j - 1 \in Cells
    BY <1>1, <1>2
  <2>2. bytes \in [1..z -> Byte]
    BY <1>4, <2>1
  <2> QED BY <1>1, <2>2
<1>6. bytes # <<>>
  BY <1>1, <1>5, EmptySeq
<1>7. ASSUME NEW a \in PageCells(i)
      PROVE  ram.cell[a] \in Byte /\ SubSeq(bytes, a - p + 1, a - p + 1) = <<ram.cell[a]>>
  <2>1. a \in Nat /\ a - p + 1 \in 1..z /\ p + (a - p + 1) - 1 = a /\ a \in Cells
    BY <1>1, <1>2
  <2>2. bytes[a - p + 1] = ram.cell[a] /\ ram.cell[a] \in Byte
    BY <1>4, <2>1
  <2> DEFINE k == a - p + 1
  <2>3. k \in 1..Len(bytes) /\ bytes[k] = ram.cell[a]
    BY <1>5, <2>1, <2>2
  <2> HIDE DEF k, bytes
  <2>4. SubSeq(bytes, k, k) = <<bytes[k]>>
    BY <1>5, <2>3, OneElement
  <2> QED BY <2>2, <2>3, <2>4 DEF k
<1> HIDE DEF bytes
<1>8. RegionCells(ReadPage(i)) = PageCells(i)
  <2>1. ReadPage(i).addr = p /\ ReadPage(i).size = z
    BY <1>3
  <2> QED BY <1>1, <1>2, <2>1 DEF RegionCells, EndAddr
<1>9. ram.status[i] = "ok" =>
        \A a \in PageCells(i) :
          ram.cell[a] \in Byte /\ Window(ReadPage(i), a, 1) = <<ram.cell[a]>>
  <2> SUFFICES ASSUME ram.status[i] = "ok", NEW a \in PageCells(i)
               PROVE  ram.cell[a] \in Byte /\ Window(ReadPage(i), a, 1) = <<ram.cell[a]>>
    OBVIOUS
  <2>1. ReadPage(i).addr = p /\ ReadPage(i).data = bytes
    BY <1>3
  <2>2. a - p + 1 \in Int /\ a \in Int /\ p \in Int
    BY <1>1, <1>2
  <2> QED BY <1>7, <2>1, <2>2 DEF Window
<1>10. ReadPage(i) \in [addr: Nat, size: Nat, data: Seq(Byte)]
  <2>1. <<>> \in Seq(Byte)
    BY EmptySeq
  <2> QED BY <1>1, <1>3, <1>5, <2>1
<1>11. ReadPage(i).data # <<>> <=> ram.status[i] = "ok"
  BY <1>3, <1>6
<1> QED BY <1>8, <1>9, <1>10, <1>11

\* the pages of S whose bytes the snapshot has
OkPages(S) == {i \in S : ram.status[i] = "ok"}

\* A snapshot of some pages has a region for each one that is mapped (get_target_regions).
LEMMA RegionsFacts ==
  ASSUME ram \in RamType, NEW S \in SUBSET DOMAIN Pages
  PROVE  /\ Regions(S) \in Seq([addr: Nat, size: Nat, data: Seq(Byte)])
         /\ \A j \in DOMAIN Regions(S) : \E i \in S : Regions(S)[j] = ReadPage(i)
         /\ \A i \in OkPages(S) : \E j \in DOMAIN Regions(S) : Regions(S)[j] = ReadPage(i)
<1> DEFINE M == {i \in S : ram.status[i] # "gone"}
           mapped == Ascending(M)
           n == Cardinality(M)
           R == [addr: Nat, size: Nat, data: Seq(Byte)]
<1>1. M \in SUBSET Nat /\ IsFiniteSet(M) /\ M \subseteq S /\ OkPages(S) \subseteq M
  <2>1. DOMAIN Pages \in SUBSET Nat /\ IsFiniteSet(DOMAIN Pages)
    BY PageFacts, FS_Interval
  <2>2. M \in SUBSET DOMAIN Pages
    OBVIOUS
  <2> QED BY <2>1, <2>2, FS_Subset DEF OkPages
<1>2. Regions(S) = [j \in DOMAIN mapped |-> ReadPage(mapped[j])]
  BY DEF Regions
<1> HIDE DEF M
<1>3. /\ n \in Nat /\ mapped \in [1..n -> M]
      /\ \A i \in M : \E j \in 1..n : mapped[j] = i
  BY <1>1, AscendingMembers
<1> HIDE DEF mapped, n
<1>4. Regions(S) = [j \in 1..n |-> ReadPage(mapped[j])]
  BY <1>2, <1>3
<1>5. \A i \in M : ReadPage(i) \in R
  BY <1>1, ReadPageFacts
<1> HIDE DEF R
<1>6. Regions(S) \in [1..n -> R]
  BY <1>3, <1>4, <1>5
<1>7. Regions(S) \in Seq(R)
  BY <1>3, <1>6
<1>8. \A j \in DOMAIN Regions(S) : \E i \in S : Regions(S)[j] = ReadPage(i)
  BY <1>1, <1>3, <1>4
<1>9. ASSUME NEW i \in OkPages(S)
      PROVE  \E j \in DOMAIN Regions(S) : Regions(S)[j] = ReadPage(i)
  <2>1. PICK j \in 1..n : mapped[j] = i
    BY <1>1, <1>3
  <2>2. j \in DOMAIN Regions(S) /\ Regions(S)[j] = ReadPage(i)
    BY <1>4, <2>1
  <2> QED BY <2>2
<1> QED BY <1>7, <1>8, <1>9 DEF R

LEMMA RegionsReadable ==
  ASSUME ram \in RamType, NEW S \in SUBSET DOMAIN Pages
  PROVE  /\ Readable(Regions(S)) = UNION {PageCells(i) : i \in OkPages(S)}
         /\ Readable(Regions(S)) \subseteq ReadableCells
         /\ Readable(Regions(S)) \subseteq Cells
         /\ \A a \in Readable(Regions(S)) :
              ram.cell[a] \in Byte /\ BytesAt(Regions(S), a, 1) = <<ram.cell[a]>>
<1> DEFINE mem == Regions(S)
<1>1. /\ \A j \in DOMAIN mem : \E i \in S : mem[j] = ReadPage(i)
      /\ \A i \in OkPages(S) : \E j \in DOMAIN mem : mem[j] = ReadPage(i)
  BY RegionsFacts
<1>2. \A i \in S : /\ RegionCells(ReadPage(i)) = PageCells(i)
                   /\ ReadPage(i).data # <<>> <=> ram.status[i] = "ok"
                   /\ PageCells(i) \subseteq Cells
                   /\ ram.status[i] = "ok" =>
                        \A a \in PageCells(i) :
                          ram.cell[a] \in Byte /\ Window(ReadPage(i), a, 1) = <<ram.cell[a]>>
  BY ReadPageFacts, PageFacts
<1> HIDE DEF mem
<1>3. ASSUME NEW j \in DOMAIN mem, mem[j].data # <<>>
      PROVE  /\ \E i \in OkPages(S) : RegionCells(mem[j]) = PageCells(i)
             /\ \A a \in RegionCells(mem[j]) :
                  ram.cell[a] \in Byte /\ Window(mem[j], a, 1) = <<ram.cell[a]>>
  BY <1>1, <1>2, <1>3 DEF OkPages
<1>4. Readable(mem) \subseteq UNION {PageCells(i) : i \in OkPages(S)}
  BY <1>3 DEF Readable
<1>5. ASSUME NEW i \in OkPages(S), NEW a \in PageCells(i) PROVE a \in Readable(mem)
  <2>1. PICK j \in DOMAIN mem : mem[j] = ReadPage(i)
    BY <1>1
  <2>2. mem[j].data # <<>> /\ a \in RegionCells(mem[j])
    BY <1>2, <2>1 DEF OkPages
  <2> QED BY <2>2 DEF Readable
<1>6. Readable(mem) = UNION {PageCells(i) : i \in OkPages(S)}
  BY <1>4, <1>5
<1>7. ASSUME NEW a \in Readable(mem)
      PROVE  ram.cell[a] \in Byte /\ BytesAt(mem, a, 1) = <<ram.cell[a]>>
  <2>1. \E j \in DOMAIN mem : mem[j].data # <<>> /\ a \in RegionCells(mem[j])
    BY DEF Readable
  <2> DEFINE j == CHOOSE j \in DOMAIN mem : mem[j].data # <<>> /\ a \in RegionCells(mem[j])
  <2>2. j \in DOMAIN mem /\ mem[j].data # <<>> /\ a \in RegionCells(mem[j])
    BY <2>1
  <2>3. RegionAt(mem, a) = mem[j]
    BY DEF RegionAt
  <2> HIDE DEF j
  <2>4. ram.cell[a] \in Byte /\ Window(mem[j], a, 1) = <<ram.cell[a]>>
    BY <1>3, <2>2
  <2> QED BY <2>3, <2>4 DEF BytesAt
<1>8. Readable(mem) \subseteq ReadableCells /\ Readable(mem) \subseteq Cells
  <2>1. OkPages(S) \subseteq {j \in DOMAIN Pages : ram.status[j] = "ok"} /\ OkPages(S) \subseteq S
    BY DEF OkPages
  <2>2. Readable(mem) \subseteq ReadableCells
    BY <1>6, <2>1 DEF ReadableCells
  <2>3. Readable(mem) \subseteq Cells
    BY <1>2, <1>6, <2>1
  <2> QED BY <2>2, <2>3
<1> QED BY <1>6, <1>7, <1>8 DEF mem

\* new is a snapshot that s may be updated with: what the target holds now, of every
\* page, or of every page that holds a result
Shows(s, new) ==
  /\ new \in Seq([addr: Nat, size: Nat, data: Seq(Byte)])
  /\ Readable(new) \subseteq ReadableCells
  /\ Readable(new) \subseteq Cells
  /\ \A a \in Readable(new) : ram.cell[a] \in Byte /\ BytesAt(new, a, 1) = <<ram.cell[a]>>
  /\ ~s.results_valid => Readable(new) = ReadableCells
  /\ \A a \in Range(s.results) \cap ReadableCells : s.results_valid => a \in Readable(new)

LEMMA SnapshotShows ==
  ASSUME ram \in RamType, NEW s, NEW extra \in BOOLEAN
  PROVE  Shows(s, Snapshot(s, extra))
<1> DEFINE S == IF s.results_valid THEN TargetPages(s.results, extra) ELSE DOMAIN Pages
<1>1. S \in SUBSET DOMAIN Pages
  BY DEF TargetPages
<1>2. Snapshot(s, extra) = Regions(S)
  BY DEF Snapshot
<1>3. ~s.results_valid => OkPages(S) = {j \in DOMAIN Pages : ram.status[j] = "ok"}
  BY DEF OkPages
<1>4. ASSUME NEW a \in Range(s.results) \cap ReadableCells, s.results_valid
      PROVE  \E i \in OkPages(S) : a \in PageCells(i)
  <2>1. PICK i \in DOMAIN Pages : ram.status[i] = "ok" /\ a \in PageCells(i)
    BY DEF ReadableCells
  <2>2. Range(s.results) \cap PageCells(i) # {}
    BY <2>1
  <2>3. i \in S
    BY <1>4, <2>2 DEF TargetPages
  <2> QED BY <2>1, <2>3 DEF OkPages
<1> HIDE DEF S
<1>5. ~s.results_valid => Readable(Regions(S)) = ReadableCells
  BY <1>1, <1>3, RegionsReadable DEF ReadableCells
<1>6. \A a \in Range(s.results) \cap ReadableCells :
        s.results_valid => a \in Readable(Regions(S))
  BY <1>1, <1>4, RegionsReadable
<1> QED BY <1>1, <1>2, <1>5, <1>6, RegionsFacts, RegionsReadable DEF Shows

(***************************************************************************)
(* The evaluators of one byte.                                             *)
(***************************************************************************)
LEMMA UnsignedByte ==
  ASSUME NEW x \in Byte
  PROVE  Unsigned(<<x>>) = x
<1>1. <<x>> \in Seq(Byte) /\ Len(<<x>>) = 1 /\ <<x>>[1] = x
  OBVIOUS
<1> QED BY <1>1, UnsignedIs

LEMMA EvaluateByte ==
  ASSUME NEW op, op # "$", NEW x \in Byte, NEW y \in Byte
  PROVE  Evaluate("u8", op, <<x>>, <<y>>) <=> Compare(op, x, y)
<1>1. Config["u8"].kind = "unsigned" /\ Config["u8"].reversed = FALSE
  BY DEF Config
<1>2. ASSUME NEW z \in Byte
      PROVE  Number("u8", <<z>>) = z /\ ~NoNumber("u8", <<z>>)
  <2>1. InOrder("u8", <<z>>) = <<z>>
    BY <1>1 DEF InOrder
  <2>2. Unsigned(InOrder("u8", <<z>>)) = z
    BY <2>1, UnsignedByte
  <2>3. ~NoNumber("u8", <<z>>)
    BY <1>1 DEF NoNumber
  <2>4. Number("u8", <<z>>) = Unsigned(InOrder("u8", <<z>>))
    BY <1>1 DEF Number
  <2> QED BY <2>2, <2>3, <2>4
<1>3. "u8" # "data"
  OBVIOUS
<1> QED BY <1>2, <1>3 DEF Evaluate

\* A value the user may give to search is one byte, or none.
LEMMA RequestFacts ==
  ASSUME NEW r \in Requests
  PROVE  /\ r[1] # "$" /\ r[2] \in Seq(Byte)
         /\ r[2] = NoValue \/ (Len(r[2]) = 1 /\ r[2][1] \in Byte /\ r[2] = <<r[2][1]>>)
         /\ r[2] # NoValue => Len(r[2]) = 1
         /\ Len(r[2]) \in {0, 1}
<1>1. r[1] # "$" /\ r[2] \in {NoValue} \cup [{1} -> Byte]
  BY SessionAssumption DEF Predicates
<1>2. CASE r[2] = NoValue
  <2>1. r[2] \in Seq(Byte) /\ Len(r[2]) = 0
    BY <1>2, EmptySeq DEF NoValue
  <2> QED BY <1>1, <1>2, <2>1
<1>3. CASE r[2] \in [{1} -> Byte]
  <2>1. {1} = 1..1
    OBVIOUS
  <2>2. r[2] \in [1..1 -> Byte]
    BY <1>3, <2>1
  <2>3. r[2] \in Seq(Byte) /\ Len(r[2]) = 1 /\ r[2][1] \in Byte
    <3>1. ASSUME NEW S, NEW n \in Nat, NEW v \in [1..n -> S]
          PROVE  v \in Seq(S) /\ Len(v) = n
      OBVIOUS
    <3>2. r[2][1] \in Byte /\ 1 \in Nat
      BY <2>2
    <3> QED BY <2>2, <3>1, <3>2
  <2>4. r[2] = <<r[2][1]>>
    BY <2>3
  <2> QED BY <1>1, <2>3, <2>4
<1> QED BY <1>1, <1>2, <1>3

(***************************************************************************)
(* The results of an update (MemorySearch::update).                        *)
(***************************************************************************)
LEMMA FieldsReadable ==
  ASSUME NEW type, NEW new, new \in Seq([addr: Nat, size: Nat, data: Seq(Byte)])
  PROVE  /\ Fields(type, new) \subseteq Readable(new)
         /\ Fields("u8", new) = Readable(new)
<1>1. Fields(type, new) \subseteq Readable(new)
  BY DEF Fields, Readable
<1>2. ASSUME NEW a \in Readable(new) PROVE a \in Fields("u8", new)
  <2> DEFINE R == [addr: Nat, size: Nat, data: Seq(Byte)]
  <2>0. new \in Seq(R)
    OBVIOUS
  <2>1. PICK k \in DOMAIN new : new[k].data # <<>> /\ a \in RegionCells(new[k])
    BY DEF Readable
  <2>2. new[k] \in R
    <3> HIDE DEF R
    <3> QED BY <2>0
  <2>3. new[k].addr \in Nat /\ new[k].size \in Nat
    BY <2>2
  <2>4. a \in Int
    BY <2>1, <2>3 DEF RegionCells, EndAddr
  <2>5. (a - new[k].addr) % 1 = 0
    BY <2>3, <2>4
  <2>6. FieldSize("u8") = 1
    BY DEF FieldSize, Config
  <2> QED BY <2>1, <2>5, <2>6 DEF Fields
<1>3. Fields("u8", new) \subseteq Readable(new)
  BY DEF Fields, Readable
<1> QED BY <1>1, <1>2, <1>3

\* A list of the members of a set of cells, in order.
LEMMA AscendingCells ==
  ASSUME NEW S \in SUBSET Cells
  PROVE  /\ Ascending(S) \in Seq(Cells) /\ Ordered(Ascending(S)) /\ Range(Ascending(S)) = S
<1>1. S \in SUBSET Nat /\ IsFiniteSet(S)
  BY CellsAreAddresses, CellsFinite, FS_Subset
<1>2. /\ Cardinality(S) \in Nat /\ Ascending(S) \in [1..Cardinality(S) -> S]
      /\ \A a \in S : \E i \in 1..Cardinality(S) : Ascending(S)[i] = a
  BY <1>1, AscendingMembers
<1>3. Range(Ascending(S)) = S
  BY <1>2 DEF Range
<1>4. Ascending(S) \in [1..Cardinality(S) -> Cells]
  BY <1>2
<1>5. Ascending(S) \in Seq(Cells)
  <2> DEFINE n == Cardinality(S)
  <2>1. n \in Nat /\ Ascending(S) \in [1..n -> Cells]
    BY <1>2, <1>4
  <2> HIDE DEF n
  <2> QED BY <2>1
<1> QED BY <1>1, <1>3, <1>5, AscendingOrdered

\* and the first few of them
LEMMA PrefixCells ==
  ASSUME NEW seq \in Seq(Cells), Ordered(seq), NEW n \in 0..Len(seq)
  PROVE  /\ SubSeq(seq, 1, n) \in Seq(Cells) /\ Ordered(SubSeq(seq, 1, n))
         /\ Range(SubSeq(seq, 1, n)) \subseteq Range(seq)
<1> DEFINE sub == SubSeq(seq, 1, n)
<1>1. n \in Int /\ DOMAIN seq = 1..Len(seq) /\ Len(seq) \in Nat /\ n - 1 + 1 = n
  OBVIOUS
<1>2. \A i \in 1..n : seq[i] \in Cells
  BY <1>1
<1>3. /\ sub \in Seq(Cells) /\ Len(sub) = (IF 1 <= n THEN n - 1 + 1 ELSE 0)
      /\ \A i \in 1..(n - 1 + 1) : sub[i] = seq[1 + i - 1]
  BY <1>1, <1>2, SubSeqProperties
<1> HIDE DEF sub
<1>4. Len(sub) = n /\ DOMAIN sub = 1..n
  BY <1>1, <1>3
<1>5. \A i \in 1..n : sub[i] = seq[i] /\ i \in DOMAIN seq
  BY <1>1, <1>3
<1>6. Ordered(sub)
  BY <1>4, <1>5 DEF Ordered
<1>7. Range(sub) \subseteq Range(seq)
  BY <1>4, <1>5 DEF Range
<1> QED BY <1>3, <1>6, <1>7 DEF sub

\* One byte is compared with the given one, or with what the last snapshot has there.
LEMMA HoldsByte ==
  ASSUME NEW s, s.type = "u8", NEW new, Shows(s, new), NEW r \in Requests,
         NEW a \in Readable(new), NEW y \in Byte,
         r[2] = NoValue => BytesAt(s.memory, a, 1) = <<y>>
  PROVE  Holds(s, new, r[1], r[2], a)
           <=> Compare(r[1], ram.cell[a], IF r[2] = NoValue THEN y ELSE r[2][1])
<1>1. Width("u8", IF r[2] = NoValue THEN s.prev_size ELSE Len(r[2])) = 1
  BY DEF Width, FieldSize, Config
<1>2. ram.cell[a] \in Byte /\ BytesAt(new, a, 1) = <<ram.cell[a]>>
  BY DEF Shows
<1>3. Holds(s, new, r[1], r[2], a)
        <=> Evaluate("u8", r[1], <<ram.cell[a]>>,
                     IF r[2] = NoValue THEN BytesAt(s.memory, a, 1) ELSE r[2])
  BY <1>1, <1>2 DEF Holds
<1>4. CASE r[2] = NoValue
  BY <1>2, <1>3, <1>4, RequestFacts, EvaluateByte
<1>5. CASE r[2] # NoValue
  BY <1>2, <1>3, <1>5, RequestFacts, EvaluateByte
<1> QED BY <1>4, <1>5

\* A first search for a value finds fields of the snapshot, in order; bytes, when they
\* compare as asked.
LEMMA FirstFound ==
  ASSUME NEW s, NEW new, Shows(s, new), NEW r \in Requests, r[2] # NoValue
  PROVE  LET found == FirstResults(s, new, r[1], r[2], MaxResults) IN
         /\ found \in Seq(Cells) /\ Ordered(found) /\ Range(found) \subseteq Readable(new)
         /\ s.type = "u8" =>
              \A a \in Range(found) : Compare(r[1], ram.cell[a], r[2][1])
<1> DEFINE S == FirstHits(s, new, r[1], r[2])
           all == Ascending(S)
           n == IF Len(all) < MaxResults THEN Len(all) ELSE MaxResults
           found == SubSeq(all, 1, n)
<1>1. S \subseteq Readable(new) /\ Readable(new) \subseteq Cells
  BY FieldsReadable DEF FirstHits, Shows
<1>2. ASSUME s.type = "u8", NEW a \in S PROVE Compare(r[1], ram.cell[a], r[2][1])
  <2>1. a \in Readable(new) /\ Evaluate("u8", r[1], BytesAt(new, a, Len(r[2])), r[2])
    BY <1>1, <1>2 DEF FirstHits
  <2>2. /\ Len(r[2]) = 1 /\ r[2][1] \in Byte /\ r[2] = <<r[2][1]>> /\ r[1] # "$"
        /\ ram.cell[a] \in Byte /\ BytesAt(new, a, 1) = <<ram.cell[a]>>
    BY <2>1, RequestFacts DEF Shows
  <2>3. Evaluate("u8", r[1], <<ram.cell[a]>>, <<r[2][1]>>)
    BY <2>1, <2>2
  <2> QED BY <2>2, <2>3, EvaluateByte
<1> HIDE DEF S
<1>3. all \in Seq(Cells) /\ Ordered(all) /\ Range(all) = S
  BY <1>1, AscendingCells
<1>4. FirstResults(s, new, r[1], r[2], MaxResults) = found
  BY DEF FirstResults, S
<1> HIDE DEF all
<1>5. n \in 0..Len(all)
  <2>1. Len(all) \in Nat /\ MaxResults \in Nat
    BY <1>3, SessionAssumption
  <2> QED BY <2>1
<1> HIDE DEF n
<1>6. found \in Seq(Cells) /\ Ordered(found) /\ Range(found) \subseteq Range(all)
  BY <1>3, <1>5, PrefixCells
<1> HIDE DEF found
<1> QED BY <1>1, <1>2, <1>3, <1>4, <1>6

\* A second search finds the fields that were read both times and compare as asked.
LEMMA SecondFound ==
  ASSUME NEW s, NEW new, Shows(s, new), NEW r \in Requests
  PROVE  LET found == SecondResults(s, new, r[1], r[2]) IN
         /\ found \in Seq(Cells) /\ Ordered(found)
         /\ Range(found) \subseteq Readable(new) \cap Readable(s.memory)
         /\ s.type = "u8" =>
              \A a \in Readable(new) \cap Readable(s.memory) :
                a \in Range(found) <=> Holds(s, new, r[1], r[2], a)
<1> DEFINE S == {a \in Fields(s.type, new) \cap Readable(s.memory) :
                   Holds(s, new, r[1], r[2], a)}
<1>1. new \in Seq([addr: Nat, size: Nat, data: Seq(Byte)]) /\ Readable(new) \subseteq Cells
  BY DEF Shows
<1>2. S \subseteq Readable(new) \cap Readable(s.memory)
  BY <1>1, FieldsReadable
<1>3. s.type = "u8" => \A a \in Readable(new) \cap Readable(s.memory) :
                         a \in S <=> Holds(s, new, r[1], r[2], a)
  BY <1>1, FieldsReadable
<1>4. SecondResults(s, new, r[1], r[2]) = Ascending(S)
  BY DEF SecondResults
<1> HIDE DEF S
<1>5. /\ Ascending(S) \in Seq(Cells) /\ Ordered(Ascending(S)) /\ Range(Ascending(S)) = S
  BY <1>1, <1>2, AscendingCells
<1> QED BY <1>2, <1>3, <1>4, <1>5

\* A later search keeps the results that can be read and compare as asked.
LEMMA NarrowFound ==
  ASSUME NEW s, s.results \in Seq(Cells), Ordered(s.results),
         Range(s.results) \subseteq Readable(s.memory), NEW new, NEW r \in Requests
  PROVE  LET found == Narrowed(s, new, r[1], r[2]) IN
         /\ found \in Seq(Cells) /\ Ordered(found)
         /\ Range(found) \subseteq Readable(new) \cap Range(s.results)
         /\ \A a \in Readable(new) \cap Range(s.results) :
              a \in Range(found) <=> Holds(s, new, r[1], r[2], a)
<1> DEFINE S == {a \in Range(s.results) \cap Readable(new) \cap Covered(s.memory) :
                   a # 0 /\ Holds(s, new, r[1], r[2], a)}
           found == Kept(s.results, S)
<1>1. Readable(s.memory) \subseteq Covered(s.memory)
  BY DEF Readable, Covered
<1>2. Range(s.results) \subseteq Cells
  BY DEF Range
<1>3. \A a \in Range(s.results) : a # 0
  BY <1>2, CellsAreAddresses
<1>4. S \subseteq Readable(new) \cap Range(s.results)
  OBVIOUS
<1>5. \A a \in Readable(new) \cap Range(s.results) : a \in S <=> Holds(s, new, r[1], r[2], a)
  BY <1>1, <1>3
<1>6. Narrowed(s, new, r[1], r[2]) = found
  BY DEF Narrowed
<1> HIDE DEF S
<1>7. /\ found \in Seq(Cells) /\ Ordered(found)
      /\ \A j \in DOMAIN found : found[j] \in S
      /\ \A i \in DOMAIN s.results : s.results[i] \in S =>
           \E j \in DOMAIN found : found[j] = s.results[i]
  <2>1. PICK seq \in Seq(Cells) : seq = s.results /\ Ordered(seq)
    OBVIOUS
  <2>2. /\ Kept(seq, S) \in Seq(Cells)
        /\ \A j \in DOMAIN Kept(seq, S) : Kept(seq, S)[j] \in S
        /\ \A i \in DOMAIN seq : seq[i] \in S =>
             \E j \in DOMAIN Kept(seq, S) : Kept(seq, S)[j] = seq[i]
    BY KeptMembers
  <2>3. Ordered(Kept(seq, S))
    BY <2>1, CellsAreAddresses, KeptMembers
  <2> QED BY <2>1, <2>2, <2>3
<1> HIDE DEF found
<1>8. Range(found) = S
  <2>1. Range(found) \subseteq S
    BY <1>7 DEF Range
  <2>2. ASSUME NEW a \in S PROVE a \in Range(found)
    <3>1. PICK i \in DOMAIN s.results : a = s.results[i]
      BY <1>4 DEF Range
    <3> QED BY <1>7, <3>1 DEF Range
  <2> QED BY <2>1, <2>2
<1>9. /\ Range(found) \subseteq Readable(new) \cap Range(s.results)
      /\ \A a \in Readable(new) \cap Range(s.results) :
           a \in Range(found) <=> Holds(s, new, r[1], r[2], a)
  BY <1>4, <1>5, <1>8
<1>10. found \in Seq(Cells) /\ Ordered(found)
  BY <1>7
<1> HIDE DEF found
<1> QED BY <1>6, <1>9, <1>10, Zenon

\* whether the search e is of began with an unknown value
BeganUnknown(e, op) == IF HasMemory(e.iteration) THEN e.unknown ELSE op = "ALL"

\* What one search makes of an iteration e, when the snapshot it takes is new.
Searched(e, new, op, v) ==
  [iteration |-> Update(e.iteration, new, op, v, MaxResults),
   kept |-> Entitled(e, op, v),
   seen |-> [a \in Entitled(e, op, v) |-> ram.cell[a]],
   unknown |-> BeganUnknown(e, op)]

\* An iteration with the given results, found in the snapshot, is as it should be when
\* they are what the user is entitled to.
LEMMA UpdatedEntry ==
  ASSUME NEW e, EntryOK(e), NEW r \in Requests, NEW new, Shows(e.iteration, new),
         NEW found, found \in Seq(Cells), Ordered(found), Range(found) \subseteq Readable(new),
         Update(e.iteration, new, r[1], r[2], MaxResults)
           = [e.iteration EXCEPT !.results = found, !.results_valid = TRUE,
                                 !.prev_size = Len(r[2]), !.memory = new],
         e.iteration.type = "u8" => Range(found) \subseteq Entitled(e, r[1], r[2]),
         e.iteration.type = "u8" /\ BeganUnknown(e, r[1]) => Entitled(e, r[1], r[2]) \subseteq Range(found),
         e.iteration.results_valid => Range(found) \subseteq Range(e.iteration.results)
  PROVE  LET d == Searched(e, new, r[1], r[2]) IN EntryOK(d) /\ Follows(e, d)
<1> DEFINE s == e.iteration
           u == Update(s, new, r[1], r[2], MaxResults)
           d == Searched(e, new, r[1], r[2])
           K == Entitled(e, r[1], r[2])
<1>1. u = [type |-> s.type, results_valid |-> TRUE, memory |-> new,
           prev_size |-> Len(r[2]), results |-> found]
  <2>1. IsRecord(s)
    BY DEF EntryOK, Typed
  <2> QED BY <2>1 DEF IsRecord
<1>2. d = [iteration |-> u, kept |-> K, seen |-> [a \in K |-> ram.cell[a]],
           unknown |-> BeganUnknown(e, r[1])]
  BY DEF Searched
<1>3. s.type \in Types /\ e.unknown \in BOOLEAN /\ Len(r[2]) \in {0, 1}
  BY RequestFacts DEF EntryOK, Typed
<1> HIDE DEF u, d, K
<1>4. /\ d.iteration = u /\ d.kept = K /\ d.seen = [a \in K |-> ram.cell[a]]
      /\ d.unknown = BeganUnknown(e, r[1])
      /\ d = [iteration |-> d.iteration, kept |-> d.kept, seen |-> d.seen,
              unknown |-> d.unknown]
  BY <1>2
<1>5. /\ u.type = s.type /\ u.results_valid = TRUE /\ u.memory = new
      /\ u.prev_size = Len(r[2]) /\ u.results = found /\ IsRecord(u)
  BY <1>1 DEF IsRecord
<1>6. d.unknown \in BOOLEAN
  BY <1>3, <1>4 DEF BeganUnknown
<1>7. Typed(d)
  BY <1>3, <1>4, <1>5, <1>6 DEF Typed
<1>8. HasMemory(u)
  BY <1>5, SessionAssumption DEF HasMemory, Shows
<1>9. InSnapshot(d)
  BY <1>4, <1>5, <1>8 DEF InSnapshot
<1>10. Earned(d)
  <2> SUFFICES ASSUME s.type = "u8"
               PROVE  /\ Range(found) \subseteq K
                      /\ \A a \in K \cap Readable(new) :
                           d.seen[a] \in Byte /\ BytesAt(new, a, 1) = <<d.seen[a]>>
                      /\ d.unknown => K \subseteq Range(found)
    BY <1>4, <1>5 DEF Earned
  <2>1. \A a \in K \cap Readable(new) :
          d.seen[a] \in Byte /\ BytesAt(new, a, 1) = <<d.seen[a]>>
    BY <1>4 DEF Shows
  <2> QED BY <1>4, <2>1 DEF K
<1>11. Follows(e, d)
  BY <1>4, <1>5 DEF Follows
<1> QED BY <1>7, <1>9, <1>10, <1>11 DEF EntryOK, d

LEMMA SearchEntry ==
  ASSUME NEW e, EntryOK(e), NEW r \in Requests, NEW new, Shows(e.iteration, new),
         CanUpdate(e.iteration, r[1], r[2])
  PROVE  LET d == Searched(e, new, r[1], r[2]) IN EntryOK(d) /\ Follows(e, d)
<1> DEFINE s == e.iteration
           K == Entitled(e, r[1], r[2])
<1>0. /\ Typed(e) /\ InSnapshot(e) /\ Earned(e)
      /\ s.results \in Seq(Cells) /\ s.results_valid \in BOOLEAN /\ e.unknown \in BOOLEAN
  BY DEF EntryOK, Typed
<1>1. K \subseteq ReadableCells
  BY DEF Entitled
<1>a. Readable(new) \subseteq ReadableCells
  BY DEF Shows
<1>2. CASE ~HasMemory(s) /\ r[1] = "ALL"
  <2> DEFINE u == Update(s, new, r[1], r[2], MaxResults)
             d == Searched(e, new, r[1], r[2])
  <2>1. ~s.results_valid /\ s.results = <<>>
    BY <1>0, <1>2 DEF InSnapshot
  <2>2. u = [s EXCEPT !.memory = new]
    BY <1>2 DEF Update
  <2>3. u = [type |-> s.type, results_valid |-> FALSE, memory |-> new,
             prev_size |-> s.prev_size, results |-> <<>>]
    BY <1>0, <2>1, <2>2 DEF Typed, IsRecord
  <2>4. K = ReadableCells
    BY <1>2 DEF Entitled
  <2>5. d = [iteration |-> u, kept |-> K, seen |-> [a \in K |-> ram.cell[a]],
             unknown |-> BeganUnknown(e, r[1])]
    BY DEF Searched
  <2> HIDE DEF u, d, K
  <2>6. /\ d.iteration = u /\ d.kept = K /\ d.seen = [a \in K |-> ram.cell[a]]
        /\ d.unknown = TRUE
        /\ d = [iteration |-> d.iteration, kept |-> d.kept, seen |-> d.seen,
                unknown |-> d.unknown]
    BY <1>2, <2>5 DEF BeganUnknown
  <2>7. /\ u.type = s.type /\ u.results_valid = FALSE /\ u.memory = new
        /\ u.prev_size = s.prev_size /\ u.results = <<>> /\ IsRecord(u)
    BY <2>3 DEF IsRecord
  <2>8. Typed(d)
    BY <1>0, <2>1, <2>6, <2>7 DEF Typed
  <2>9. InSnapshot(d)
    BY <2>6, <2>7 DEF InSnapshot, Ordered
  <2>10. Earned(d)
    <3>1. Range(<<>>) = {}
      BY DEF Range
    <3>2. K = Readable(new)
      BY <2>1, <2>4 DEF Shows
    <3>3. \A a \in Readable(new) :
            d.seen[a] \in Byte /\ BytesAt(new, a, 1) = <<d.seen[a]>>
      BY <2>6, <3>2 DEF Shows
    <3> QED BY <2>6, <2>7, <3>1, <3>2, <3>3 DEF Earned
  <2>11. Follows(e, d)
    BY <2>1 DEF Follows
  <2> QED BY <2>8, <2>9, <2>10, <2>11 DEF EntryOK, d
<1>3. CASE ~HasMemory(s) /\ r[1] # "ALL"
  <2> DEFINE found == FirstResults(s, new, r[1], r[2], MaxResults)
  <2>1. r[2] # NoValue
    BY <1>3 DEF CanUpdate
  <2>2. /\ found \in Seq(Cells) /\ Ordered(found) /\ Range(found) \subseteq Readable(new)
        /\ s.type = "u8" => \A a \in Range(found) : Compare(r[1], ram.cell[a], r[2][1])
    BY <2>1, FirstFound
  <2>3. Update(s, new, r[1], r[2], MaxResults)
          = [s EXCEPT !.results = found, !.results_valid = TRUE,
                      !.prev_size = Len(r[2]), !.memory = new]
    BY <1>3 DEF Update
  <2> HIDE DEF found
  <2>4. s.type = "u8" => Range(found) \subseteq K
    BY <1>3, <1>a, <2>2 DEF Entitled
  <2>5. ~s.results_valid
    BY <1>0, <1>3 DEF InSnapshot
  <2>6. ~BeganUnknown(e, r[1])
    BY <1>3 DEF BeganUnknown
  <2> HIDE DEF K
  <2> QED BY <2>2, <2>3, <2>4, <2>5, <2>6, UpdatedEntry DEF K
<1>4. CASE HasMemory(s) /\ ~s.results_valid
  <2> DEFINE found == SecondResults(s, new, r[1], r[2])
  <2>1. /\ found \in Seq(Cells) /\ Ordered(found)
        /\ Range(found) \subseteq Readable(new) \cap Readable(s.memory)
        /\ s.type = "u8" =>
             \A a \in Readable(new) \cap Readable(s.memory) :
               a \in Range(found) <=> Holds(s, new, r[1], r[2], a)
    BY SecondFound
  <2>2. Update(s, new, r[1], r[2], MaxResults)
          = [s EXCEPT !.results = found, !.results_valid = TRUE,
                      !.prev_size = Len(r[2]), !.memory = new]
    BY <1>4 DEF Update
  <2> HIDE DEF found
  <2>3. ASSUME s.type = "u8" PROVE Range(found) = K
    <3>1. e.kept = Readable(s.memory) /\ Readable(new) = ReadableCells
      BY <1>0, <1>4, <2>3 DEF Earned, Shows
    <3>2. ASSUME NEW a \in Readable(new) \cap Readable(s.memory)
          PROVE  a \in Range(found) <=>
                   Compare(r[1], ram.cell[a], IF r[2] = NoValue THEN e.seen[a] ELSE r[2][1])
      <4>1. e.seen[a] \in Byte /\ BytesAt(s.memory, a, 1) = <<e.seen[a]>>
        BY <1>0, <1>4, <2>3, <3>1 DEF Earned
      <4>2. Holds(s, new, r[1], r[2], a) <=>
              Compare(r[1], ram.cell[a], IF r[2] = NoValue THEN e.seen[a] ELSE r[2][1])
        BY <2>3, <4>1, HoldsByte
      <4> QED BY <2>1, <2>3, <4>2
    <3>3. K = {a \in Readable(s.memory) \cap Readable(new) :
                 Compare(r[1], ram.cell[a], IF r[2] = NoValue THEN e.seen[a] ELSE r[2][1])}
      BY <1>4, <3>1 DEF Entitled
    <3> QED BY <2>1, <3>2, <3>3
  <2>4. Range(found) \subseteq Readable(new)
    BY <2>1
  <2> HIDE DEF K
  <2> QED BY <1>4, <2>1, <2>2, <2>3, <2>4, UpdatedEntry DEF K
<1>5. CASE HasMemory(s) /\ s.results_valid
  <2> DEFINE found == Narrowed(s, new, r[1], r[2])
  <2>0. Ordered(s.results) /\ Range(s.results) \subseteq Readable(s.memory)
    BY <1>0, <1>5 DEF InSnapshot
  <2>1. /\ found \in Seq(Cells) /\ Ordered(found)
        /\ Range(found) \subseteq Readable(new) \cap Range(s.results)
        /\ \A a \in Readable(new) \cap Range(s.results) :
             a \in Range(found) <=> Holds(s, new, r[1], r[2], a)
    BY <1>0, <2>0, NarrowFound
  <2>2. Update(s, new, r[1], r[2], MaxResults)
          = [s EXCEPT !.results = found, !.results_valid = TRUE,
                      !.prev_size = Len(r[2]), !.memory = new]
    BY <1>5 DEF Update
  <2> HIDE DEF found
  <2>3. ASSUME s.type = "u8", NEW a \in Readable(new) \cap Range(s.results)
        PROVE  a \in Range(found) <=> a \in K
    <3>1. a \in e.kept /\ a \in Readable(s.memory) /\ a \in ReadableCells
      BY <1>0, <1>a, <2>0, <2>3 DEF Earned
    <3>2. e.seen[a] \in Byte /\ BytesAt(s.memory, a, 1) = <<e.seen[a]>>
      BY <1>0, <1>5, <2>3, <3>1 DEF Earned
    <3>3. Holds(s, new, r[1], r[2], a) <=>
            Compare(r[1], ram.cell[a], IF r[2] = NoValue THEN e.seen[a] ELSE r[2][1])
      BY <2>3, <3>2, HoldsByte
    <3>4. a \in K <=>
            Compare(r[1], ram.cell[a], IF r[2] = NoValue THEN e.seen[a] ELSE r[2][1])
      BY <1>5, <3>1 DEF Entitled
    <3> QED BY <2>1, <3>3, <3>4
  <2>4. s.type = "u8" => Range(found) \subseteq K
    BY <2>1, <2>3
  <2>5. ASSUME s.type = "u8", e.unknown PROVE K \subseteq Range(found)
    <3>1. K \subseteq e.kept
      BY <1>5 DEF Entitled
    <3>2. e.kept \subseteq Range(s.results)
      BY <1>0, <1>5, <2>5 DEF Earned
    <3>3. K \subseteq Range(s.results) \cap ReadableCells
      BY <1>1, <3>1, <3>2
    <3>4. K \subseteq Readable(new)
      BY <1>5, <3>3 DEF Shows
    <3> QED BY <2>3, <2>5, <3>3, <3>4
  <2>6. Range(found) \subseteq Readable(new) /\ Range(found) \subseteq Range(s.results)
    BY <2>1
  <2>7. BeganUnknown(e, r[1]) => e.unknown
    BY <1>5 DEF BeganUnknown
  <2> HIDE DEF K
  <2> QED BY <2>1, <2>2, <2>4, <2>5, <2>6, <2>7, UpdatedEntry DEF K
<1> QED BY <1>0, <1>2, <1>3, <1>4, <1>5

(***************************************************************************)
(* Deleting results (delete_results, command_delete).                      *)
(***************************************************************************)
\* The bisection of an ascending list: what is below x stands first (lower_bound).
LEMMA LowerBoundSplits ==
  ASSUME NEW seq \in Seq(Nat), Ordered(seq), NEW x \in Nat
  PROVE  /\ LowerBound(seq, x) \in 0..Len(seq)
         /\ \A i \in DOMAIN seq : seq[i] < x <=> i <= LowerBound(seq, x)
<1> DEFINE D == {i \in DOMAIN seq : seq[i] < x}
           m == LowerBound(seq, x)
<1>1. /\ Len(seq) \in Nat /\ DOMAIN seq = 1..Len(seq)
      /\ \A i \in DOMAIN seq : seq[i] \in Nat /\ i \in Nat \ {0}
  OBVIOUS
<1>2. m = Cardinality(D)
  BY DEF LowerBound
<1>3. \A k \in Nat : IsFiniteSet(1..k) /\ Cardinality(1..k) = k
  BY FS_Interval
<1>4. D \in SUBSET (1..Len(seq))
  BY <1>1
<1>5. \A i \in D, j \in DOMAIN seq : j <= i => j \in D
  BY <1>1 DEF Ordered
<1>6. \A i \in DOMAIN seq : i \in D <=> seq[i] < x
  OBVIOUS
<1> HIDE DEF D
<1>7. IsFiniteSet(D) /\ m \in Nat /\ m <= Len(seq)
  <2>1. IsFiniteSet(D) /\ Cardinality(D) <= Cardinality(1..Len(seq))
    BY <1>1, <1>3, <1>4, FS_Subset
  <2> QED BY <1>1, <1>2, <1>3, <2>1, FS_CardinalityType
<1>8. ASSUME NEW i \in D PROVE i <= m
  <2>1. i \in Nat /\ i \in DOMAIN seq
    BY <1>1, <1>4
  <2>2. (1..i) \in SUBSET D
    BY <1>1, <1>5, <2>1
  <2> QED BY <1>2, <1>3, <1>7, <2>1, <2>2, FS_Subset
<1>9. ASSUME NEW i \in DOMAIN seq, i \notin D PROVE m < i
  <2>1. i \in Nat \ {0} /\ i - 1 \in Nat
    BY <1>1
  <2>2. D \in SUBSET (1..(i - 1))
    <3> SUFFICES ASSUME NEW j \in D PROVE j \in 1..(i - 1)
      OBVIOUS
    <3>1. ~ (i <= j) /\ j \in 1..Len(seq)
      BY <1>4, <1>5, <1>9
    <3> QED BY <1>1, <2>1, <3>1
  <2>3. Cardinality(D) <= i - 1
    <3>1. IsFiniteSet(1..(i - 1)) /\ Cardinality(1..(i - 1)) = i - 1
      BY <1>3, <2>1
    <3>2. Cardinality(D) <= Cardinality(1..(i - 1))
      BY <2>2, <3>1, FS_Subset
    <3> QED BY <3>1, <3>2
  <2> QED BY <1>2, <1>7, <2>1, <2>3
<1> HIDE DEF m
<1>10. \A i \in DOMAIN seq : i \in D <=> i <= m
  BY <1>1, <1>7, <1>8, <1>9
<1> QED BY <1>1, <1>6, <1>7, <1>10 DEF m

\* The list without the elements from low to high - 1.
LEMMA CutResults ==
  ASSUME NEW seq \in Seq(Cells), Ordered(seq), NEW low \in Nat, NEW high \in Nat,
         LowerBound(seq, low) <= LowerBound(seq, high)
  PROVE  LET cut == SubSeq(seq, 1, LowerBound(seq, low))
                      \o SubSeq(seq, LowerBound(seq, high) + 1, Len(seq))
         IN  /\ cut \in Seq(Cells) /\ Ordered(cut)
             /\ Range(cut) = Range(seq) \ (low .. (high - 1))
<1> DEFINE p == LowerBound(seq, low)
           q == LowerBound(seq, high)
           first == SubSeq(seq, 1, p)
           last == SubSeq(seq, q + 1, Len(seq))
           cut == first \o last
<1>0. \A i \in DOMAIN seq : seq[i] \in Cells
  OBVIOUS
<1>1. /\ Len(seq) \in Nat /\ DOMAIN seq = 1..Len(seq) /\ seq \in Seq(Nat)
      /\ \A i \in DOMAIN seq : seq[i] \in Nat
  <2>1. Len(seq) \in Nat /\ DOMAIN seq = 1..Len(seq)
    OBVIOUS
  <2>2. \A i \in DOMAIN seq : seq[i] \in Nat
    BY <1>0, CellsAreAddresses
  <2> QED BY <2>1, <2>2, CellsAreAddresses
<1>2. /\ p \in 0..Len(seq) /\ q \in 0..Len(seq)
      /\ \A i \in DOMAIN seq : seq[i] < low <=> i <= p
      /\ \A i \in DOMAIN seq : seq[i] < high <=> i <= q
  BY <1>1, LowerBoundSplits
<1>3. p <= q
  OBVIOUS
<1> HIDE DEF p, q
<1>4. /\ first \in Seq(Cells) /\ Len(first) = p
      /\ \A i \in 1..p : first[i] = seq[i]
  <2>1. 1 \in Int /\ p \in Int /\ p - 1 + 1 = p /\ \A i \in 1..p : seq[i] \in Cells
    BY <1>0, <1>1, <1>2
  <2>2. /\ first \in Seq(Cells) /\ Len(first) = (IF 1 <= p THEN p - 1 + 1 ELSE 0)
        /\ \A i \in 1..(p - 1 + 1) : first[i] = seq[1 + i - 1]
    BY <2>1, SubSeqProperties
  <2> HIDE DEF first
  <2>3. Len(first) = p
    BY <1>2, <2>1, <2>2
  <2>4. \A i \in 1..p : 1 + i - 1 = i
    BY <2>1
  <2> QED BY <2>1, <2>2, <2>3, <2>4
<1>5. /\ last \in Seq(Cells) /\ Len(last) = Len(seq) - q
      /\ \A i \in 1..(Len(seq) - q) : last[i] = seq[q + i]
  <2>1. /\ q + 1 \in Int /\ Len(seq) \in Int /\ Len(seq) - (q + 1) + 1 = Len(seq) - q
        /\ \A i \in (q + 1)..Len(seq) : seq[i] \in Cells
    BY <1>0, <1>1, <1>2
  <2>2. /\ last \in Seq(Cells)
        /\ Len(last) = (IF q + 1 <= Len(seq) THEN Len(seq) - (q + 1) + 1 ELSE 0)
        /\ \A i \in 1..(Len(seq) - (q + 1) + 1) : last[i] = seq[(q + 1) + i - 1]
    BY <2>1, SubSeqProperties
  <2> HIDE DEF last
  <2>3. Len(last) = Len(seq) - q
    <3>1. CASE q + 1 <= Len(seq)
      BY <2>1, <2>2, <3>1
    <3>2. CASE ~ (q + 1 <= Len(seq))
      <4>0. q \in 0..Len(seq) /\ Len(seq) \in Nat
        BY <1>1, <1>2
      <4>1. q = Len(seq)
        BY <3>2, <4>0
      <4> QED BY <1>1, <2>2, <3>2, <4>1
    <3> QED BY <3>1, <3>2
  <2>4. \A i \in 1..(Len(seq) - q) : (q + 1) + i - 1 = q + i
    BY <1>1, <1>2
  <2> QED BY <2>1, <2>2, <2>3, <2>4
<1> HIDE DEF first, last
<1>6. /\ cut \in Seq(Cells) /\ Len(cut) = p + (Len(seq) - q)
      /\ \A i \in 1..(p + (Len(seq) - q)) : cut[i] = IF i <= p THEN first[i] ELSE last[i - p]
  <2>1. /\ cut \in Seq(Cells) /\ Len(cut) = Len(first) + Len(last)
        /\ \A i \in 1..(Len(first) + Len(last)) :
             cut[i] = IF i <= Len(first) THEN first[i] ELSE last[i - Len(first)]
    BY <1>4, <1>5, ConcatProperties
  <2> HIDE DEF cut
  <2> QED BY <1>4, <1>5, <2>1
<1> HIDE DEF cut
<1>7. DOMAIN cut = 1..(p + (Len(seq) - q))
  BY <1>6
<1>8. \A i \in DOMAIN cut : cut[i] = seq[IF i <= p THEN i ELSE q + (i - p)]
  <2> SUFFICES ASSUME NEW i \in DOMAIN cut
               PROVE  cut[i] = seq[IF i <= p THEN i ELSE q + (i - p)]
    OBVIOUS
  <2>1. CASE i <= p
    BY <1>2, <1>4, <1>6, <1>7, <2>1
  <2>2. CASE ~ (i <= p)
    <3>1. i - p \in 1..(Len(seq) - q)
      BY <1>1, <1>2, <1>7, <2>2
    <3> QED BY <1>5, <1>6, <1>7, <2>2, <3>1
  <2> QED BY <2>1, <2>2
<1>9. Ordered(cut)
  <2> SUFFICES ASSUME NEW i \in DOMAIN cut, NEW j \in DOMAIN cut, i < j
               PROVE  cut[i] < cut[j]
    BY DEF Ordered
  <2> DEFINE ii == IF i <= p THEN i ELSE q + (i - p)
             jj == IF j <= p THEN j ELSE q + (j - p)
  <2>a. /\ i \in 1..(p + (Len(seq) - q)) /\ j \in 1..(p + (Len(seq) - q))
        /\ p \in Nat /\ q \in Nat /\ Len(seq) \in Nat /\ p <= Len(seq) /\ q <= Len(seq)
    BY <1>1, <1>2, <1>7
  <2>b. ii \in 1..Len(seq) /\ jj \in 1..Len(seq)
    BY <1>3, <2>a
  <2>c. ii < jj
    <3>1. CASE j <= p
      BY <2>a, <3>1
    <3>2. CASE ~ (j <= p)
      BY <1>3, <2>a, <3>2
    <3> QED BY <3>1, <3>2
  <2>1. ii \in DOMAIN seq /\ jj \in DOMAIN seq /\ ii < jj
    BY <1>1, <2>b, <2>c
  <2>2. cut[i] = seq[ii] /\ cut[j] = seq[jj]
    BY <1>8
  <2> HIDE DEF ii, jj
  <2> QED BY <2>1, <2>2 DEF Ordered
<1>10. ASSUME NEW i \in DOMAIN cut
       PROVE  cut[i] \in Range(seq) /\ cut[i] \notin low .. (high - 1)
  <2>1. CASE i <= p
    <3>1. i \in DOMAIN seq /\ cut[i] = seq[i]
      BY <1>1, <1>2, <1>7, <1>8, <2>1
    <3>2. seq[i] < low /\ seq[i] \in Nat
      BY <1>1, <1>2, <2>1, <3>1
    <3> QED BY <3>1, <3>2 DEF Range
  <2>2. CASE ~ (i <= p)
    <3> DEFINE k == q + (i - p)
    <3>1. k \in DOMAIN seq /\ cut[i] = seq[k] /\ ~ (k <= q)
      BY <1>1, <1>2, <1>7, <1>8, <2>2
    <3> HIDE DEF k
    <3>2. ~ (seq[k] < high) /\ seq[k] \in Nat
      BY <1>1, <1>2, <3>1
    <3> QED BY <3>1, <3>2 DEF Range
  <2> QED BY <2>1, <2>2
<1>11. ASSUME NEW k \in DOMAIN seq, seq[k] \notin low .. (high - 1)
       PROVE  \E i \in DOMAIN cut : cut[i] = seq[k]
  <2>0. k \in Nat /\ k \in 1..Len(seq) /\ seq[k] \in Nat
    BY <1>1
  <2>1. CASE seq[k] < low
    <3>1. k <= p /\ k \in DOMAIN cut
      BY <1>1, <1>2, <1>7, <2>0, <2>1
    <3> QED BY <1>8, <3>1
  <2>2. CASE ~ (seq[k] < low)
    <3>1. ~ (seq[k] < high)
      BY <1>11, <2>0, <2>2
    <3>2. q < k
      BY <1>2, <2>0, <3>1
    <3> DEFINE i == k - q + p
    <3>3. i \in DOMAIN cut /\ ~ (i <= p) /\ q + (i - p) = k
      BY <1>1, <1>2, <1>7, <2>0, <3>2
    <3>4. cut[i] = seq[k]
      BY <1>8, <3>3
    <3> QED BY <3>3, <3>4
  <2> QED BY <2>1, <2>2
<1>12. Range(cut) = Range(seq) \ (low .. (high - 1))
  <2>1. Range(cut) \subseteq Range(seq) \ (low .. (high - 1))
    BY <1>10 DEF Range
  <2>2. ASSUME NEW a \in Range(seq), a \notin low .. (high - 1) PROVE a \in Range(cut)
    <3>1. PICK k \in DOMAIN seq : a = seq[k]
      BY DEF Range
    <3> QED BY <1>11, <2>2, <3>1 DEF Range
  <2> QED BY <2>1, <2>2
<1> QED BY <1>6, <1>9, <1>12 DEF cut, first, last, p, q

Deleted(e, start, end) ==
  [e EXCEPT !.iteration.results = DeleteResults(e.iteration.results, start, end),
            !.kept = IF e.iteration.results_valid
                     THEN @ \ (start .. (AfterEnd(end) - 1)) ELSE @]

LEMMA DeletedRecord ==
  ASSUME NEW e, NEW start, NEW end, Typed(e)
  PROVE  Deleted(e, start, end)
           = [iteration |-> [e.iteration EXCEPT !.results =
                               DeleteResults(e.iteration.results, start, end)],
              kept |-> IF e.iteration.results_valid
                       THEN e.kept \ (start .. (AfterEnd(end) - 1)) ELSE e.kept,
              seen |-> e.seen, unknown |-> e.unknown]
<1> DEFINE u == [e.iteration EXCEPT !.results =
                   DeleteResults(e.iteration.results, start, end)]
           K == IF e.iteration.results_valid
                THEN e.kept \ (start .. (AfterEnd(end) - 1)) ELSE e.kept
<1>1. Deleted(e, start, end) = [e EXCEPT !.iteration = u, !.kept = K]
  BY Zenon DEF Deleted
<1> HIDE DEF u, K
<1>2. PICK f : f = [e EXCEPT !.iteration = u]
  OBVIOUS
<1>3. f = [iteration |-> u, kept |-> e.kept, seen |-> e.seen, unknown |-> e.unknown]
  BY <1>2 DEF Typed
<1>4. [f EXCEPT !.kept = K]
        = [iteration |-> u, kept |-> K, seen |-> e.seen, unknown |-> e.unknown]
  BY <1>3
<1>5. [e EXCEPT !.iteration = u, !.kept = K] = [f EXCEPT !.kept = K]
  BY <1>2
<1> QED BY <1>1, <1>4, <1>5, Zenon DEF u, K

LEMMA DeleteEntry ==
  ASSUME NEW e, EntryOK(e), NEW start \in DeleteEnds, NEW end \in DeleteEnds,
         DeleteDefined(e.iteration.results, start, end)
  PROVE  LET d == Deleted(e, start, end) IN
         /\ EntryOK(d)
         /\ Range(d.iteration.results) \subseteq Range(e.iteration.results)
<1> DEFINE s == e.iteration
           cut == DeleteResults(s.results, start, end)
           X == start .. (AfterEnd(end) - 1)
           u == [s EXCEPT !.results = cut]
           K == IF s.results_valid THEN e.kept \ X ELSE e.kept
           d == Deleted(e, start, end)
<1>1. /\ Typed(e) /\ InSnapshot(e) /\ Earned(e)
      /\ s.results \in Seq(Cells) /\ s.results_valid \in BOOLEAN /\ Ordered(s.results)
  BY DEF EntryOK, Typed, InSnapshot
<1>2. start \in Nat /\ AfterEnd(end) \in Nat
  <2>1. start \in Nat /\ end \in Nat /\ AddrSpace \in Nat \ {0}
    BY SessionAssumption, AddrSpaceAssumption
  <2> QED BY <2>1 DEF AfterEnd
<1>3. cut \in Seq(Cells) /\ Ordered(cut) /\ Range(cut) = Range(s.results) \ X
  BY <1>1, <1>2, CutResults DEF DeleteResults, DeleteDefined
<1>4. u = [type |-> s.type, results_valid |-> s.results_valid, memory |-> s.memory,
           prev_size |-> s.prev_size, results |-> cut]
  BY <1>1 DEF Typed, IsRecord
<1>5. d = [iteration |-> u, kept |-> K, seen |-> e.seen, unknown |-> e.unknown]
  BY <1>1, DeletedRecord
<1> HIDE DEF d, u, K, cut, X
<1>6. /\ d.iteration = u /\ d.kept = K /\ d.seen = e.seen /\ d.unknown = e.unknown
      /\ d = [iteration |-> d.iteration, kept |-> d.kept, seen |-> d.seen,
              unknown |-> d.unknown]
  BY <1>5
<1>7. /\ u.type = s.type /\ u.results_valid = s.results_valid /\ u.memory = s.memory
      /\ u.prev_size = s.prev_size /\ u.results = cut /\ IsRecord(u)
  BY <1>4 DEF IsRecord
<1>8. Typed(d)
  BY <1>1, <1>3, <1>6, <1>7 DEF Typed
<1>9. ~s.results_valid => cut = <<>>
  <2> SUFFICES ASSUME ~s.results_valid PROVE cut = <<>>
    OBVIOUS
  <2>1. Range(s.results) = {}
    BY <1>1 DEF InSnapshot, Range
  <2>2. Range(cut) = {}
    BY <1>3, <2>1
  <2>3. cut # <<>> => cut[1] \in Range(cut)
    BY <1>3 DEF Range
  <2> QED BY <2>2, <2>3
<1>10. HasMemory(u) <=> HasMemory(s)
  BY <1>7 DEF HasMemory
<1>11. InSnapshot(d)
  BY <1>1, <1>3, <1>6, <1>7, <1>9, <1>10 DEF InSnapshot
<1>12. Earned(d)
  <2>1. s.results_valid => K = e.kept \ X
    BY DEF K
  <2>2. ~s.results_valid => K = e.kept /\ Range(cut) = Range(s.results)
    BY <1>1, <1>9 DEF K, InSnapshot
  <2>3. K \subseteq e.kept
    BY DEF K
  <2> QED BY <1>1, <1>3, <1>6, <1>7, <1>10, <2>1, <2>2, <2>3 DEF Earned
<1> QED BY <1>3, <1>6, <1>7, <1>8, <1>11, <1>12 DEF EntryOK, d

(***************************************************************************)
(* Every command.                                                          *)
(***************************************************************************)
\* A search that has just been opened.
LEMMA FreshEntry ==
  ASSUME NEW t \in Types
  PROVE  EntryOK(Fresh(t))
<1> DEFINE s == NewSearch(t)
           e == Fresh(t)
<1>1. e = [iteration |-> s, kept |-> {}, seen |-> << >>, unknown |-> FALSE]
  BY DEF Fresh
<1>2. s = [type |-> t, results_valid |-> FALSE, memory |-> NoMemory,
           prev_size |-> 0, results |-> <<>>]
  BY DEF NewSearch
<1> HIDE DEF e, s
<1>3. /\ e.iteration = s /\ e.kept = {} /\ e.unknown = FALSE
      /\ e = [iteration |-> e.iteration, kept |-> e.kept, seen |-> e.seen,
              unknown |-> e.unknown]
  BY <1>1
<1>4. /\ s.type = t /\ s.results_valid = FALSE /\ s.memory = NoMemory /\ s.prev_size = 0
      /\ s.results = <<>> /\ IsRecord(s) /\ ~HasMemory(s)
  BY <1>2 DEF IsRecord, HasMemory
<1>5. Typed(e)
  <2>1. <<>> \in Seq(Cells) /\ 0 \in {0, 1} /\ FALSE \in BOOLEAN
    OBVIOUS
  <2> QED BY <1>3, <1>4, <2>1 DEF Typed
<1>6. InSnapshot(e) /\ Earned(e)
  BY <1>3, <1>4 DEF InSnapshot, Earned, Ordered, Range
<1> QED BY <1>5, <1>6 DEF EntryOK, e

LEMMA CommandIInv ==
  ASSUME IInv, Next
  PROVE  IInv'
<1>0. MaxIterations \in Nat \ {0}
  BY SessionAssumption
<1>a. ASSUME NEW n \in DOMAIN searches
      PROVE  /\ Storable(searches[n]) /\ Story(searches[n]) /\ n \in AllNames
             /\ Len(searches[n]) \in 1..MaxIterations /\ Len(searches[n]) > 0
             /\ Len(searches[n]) \in DOMAIN searches[n] /\ EntryOK(Latest(n))
  <2>1. Storable(searches[n]) /\ n \in AllNames
    BY DEF IInv
  <2>2. Story(searches[n]) /\ Len(searches[n]) \in 1..MaxIterations
    BY <2>1 DEF Storable
  <2>3. Len(searches[n]) > 0 /\ Len(searches[n]) \in DOMAIN searches[n]
    BY <2>2, ListDomain DEF Story
  <2> QED BY <2>1, <2>2, <2>3 DEF Story, Latest
<1>b. current \in AllNames /\ ram \in RamType /\ fault \in BOOLEAN
  BY DEF IInv
<1>1. ASSUME NEW n \in AllNames, NEW t \in Types, Open(n, t) PROVE IInv'
  <2>1. Storable(<<Fresh(t)>>)
    BY FreshEntry, SingleStory
  <2>2. /\ current' = n /\ ram' = ram /\ fault' = fault
        /\ searches' = With(IF n = Unnamed THEN searches ELSE Without({Unnamed}),
                            n, <<Fresh(t)>>)
    BY <1>1 DEF Open, Quiet
  <2>3. /\ DOMAIN searches' \subseteq AllNames
        /\ \A m \in DOMAIN searches' : Storable(searches'[m])
    <3>1. CASE n = Unnamed
      BY <2>1, <2>2, <3>1, WithStays DEF IInv
    <3>2. CASE n # Unnamed
      <4> DEFINE f == Without({Unnamed})
      <4>1. DOMAIN f \subseteq AllNames /\ \A m \in DOMAIN f : Storable(f[m])
        BY WithoutStays
      <4>2. searches' = With(f, n, <<Fresh(t)>>)
        BY <2>2, <3>2
      <4> HIDE DEF f
      <4> QED BY <2>1, <4>1, <4>2, WithStays
    <3> QED BY <3>1, <3>2
  <2> QED BY <1>b, <2>2, <2>3 DEF IInv
<1>2. ASSUME NEW n \in AllNames, Reopen(n) \/ Close(n) PROVE IInv'
  <2>1. current' \in AllNames /\ ram' = ram /\ fault' = fault
    BY <1>2 DEF Reopen, Close, Quiet, IInv, AllNames
  <2>2. \E S : searches' = Without(S)
    BY <1>2 DEF Reopen, Close
  <2> QED BY <1>b, <2>1, <2>2, WithoutStays DEF IInv
<1>3. ASSUME NEW n \in AllNames, Undo(n) PROVE IInv'
  <2>1. /\ n \in DOMAIN searches /\ Len(searches[n]) > 1 /\ Replace(n, Front(searches[n]))
        /\ current' = current /\ ram' = ram /\ fault' = fault
    BY <1>3 DEF Undo, Chosen, Quiet
  <2>2. Story(Front(searches[n])) /\ Len(Front(searches[n])) = Len(searches[n]) - 1
    BY <1>a, <2>1, FrontStory
  <2>3. Storable(Front(searches[n]))
    BY <1>0, <1>a, <2>1, <2>2 DEF Storable
  <2> QED BY <1>b, <2>1, <2>3, ReplaceIInv
<1>4. ASSUME NEW n \in Names, ForkCurrent(n) PROVE IInv'
  <2>1. /\ Replace(n, searches[current]) /\ current \in DOMAIN searches /\ n \in AllNames
        /\ current' = n /\ ram' = ram /\ fault' = fault
    BY <1>4 DEF ForkCurrent, Quiet, AllNames
  <2> QED BY <1>a, <1>b, <2>1, ReplaceIInv
<1>5. ASSUME NEW a \in Names, NEW b \in AllNames, ForkNamed(a, b) PROVE IInv'
  <2>0. current' = current /\ ram' = ram /\ fault' = fault
    BY <1>5 DEF ForkNamed, Quiet
  <2>1. CASE a \in DOMAIN searches \ {b}
    <3>1. Replace(b, searches[a])
      BY <1>5, <2>1 DEF ForkNamed, Replace
    <3> QED BY <1>a, <1>b, <2>0, <2>1, <3>1, ReplaceIInv
  <2>2. CASE a \notin DOMAIN searches \ {b}
    <3>1. searches' = Without({b})
      BY <1>5, <2>2 DEF ForkNamed
    <3> QED BY <1>b, <2>0, <3>1, WithoutStays DEF IInv
  <2> QED BY <2>1, <2>2
<1>6. ASSUME NEW n \in AllNames, NEW r \in Requests, NEW extra \in BOOLEAN,
             Search(n, r[1], r[2], extra)
      PROVE  IInv'
  <2> DEFINE e == Latest(n)
             new == Snapshot(e.iteration, extra)
             d == Searched(e, new, r[1], r[2])
  <2>1. /\ n \in DOMAIN searches /\ CanUpdate(e.iteration, r[1], r[2])
        /\ Replace(n, Trim(Append(searches[n], d)))
        /\ current' = current /\ ram' = ram /\ fault' = fault
    BY <1>6 DEF Search, Chosen, Quiet, Searched, BeganUnknown
  <2>2. EntryOK(e) /\ e = searches[n][Len(searches[n])]
    BY <1>a, <2>1 DEF Latest
  <2>3. Shows(e.iteration, new)
    BY <1>b, <2>2, SnapshotShows
  <2> HIDE DEF new
  <2>4. EntryOK(d) /\ Follows(e, d)
    BY <2>1, <2>2, <2>3, SearchEntry
  <2> HIDE DEF d, e
  <2>5. /\ Story(Append(searches[n], d))
        /\ Len(Append(searches[n], d)) = Len(searches[n]) + 1
    BY <1>a, <2>1, <2>2, <2>4, AppendStory
  <2>6. Len(Append(searches[n], d)) > 0
    BY <1>0, <1>a, <2>1, <2>5
  <2>7. Storable(Trim(Append(searches[n], d)))
    BY <2>5, <2>6, TrimStory
  <2> QED BY <1>b, <2>1, <2>7, ReplaceIInv
<1>7. ASSUME NEW n \in AllNames, NEW count \in 1..MaxIterations, Truncate(n, count) PROVE IInv'
  <2> DEFINE its == SubSeq(searches[n], Len(searches[n]) - count + 1, Len(searches[n]))
  <2>1. /\ n \in DOMAIN searches /\ Len(searches[n]) > count /\ Replace(n, its)
        /\ current' = current /\ ram' = ram /\ fault' = fault
    BY <1>7 DEF Truncate, Chosen, Quiet
  <2>2. /\ Len(searches[n]) - count + 1 \in 1..(Len(searches[n]) + 1)
        /\ Len(searches[n]) \in 0..Len(searches[n])
    BY <1>0, <1>a, <2>1
  <2>3. Story(its) /\ Len(its) = count
    BY <1>0, <1>a, <2>1, <2>2, SubStory
  <2>4. Storable(its)
    BY <2>3 DEF Storable
  <2> HIDE DEF its
  <2> QED BY <1>b, <2>1, <2>4, ReplaceIInv
<1>8. ASSUME NEW start \in DeleteEnds, NEW end \in DeleteEnds, Delete(start, end) PROVE IInv'
  <2>0. ram' = ram /\ fault' \in BOOLEAN /\ current \in DOMAIN searches
    BY <1>8 DEF Delete
  <2>1. CASE fault'
    <3>1. searches' = << >> /\ current' = Unnamed
      BY <1>8, <2>1 DEF Delete
    <3> QED BY <1>b, <2>0, <3>1 DEF IInv, AllNames
  <2>2. CASE ~fault'
    <3> DEFINE its == searches[current]
               e == Latest(current)
               d == Deleted(e, start, end)
    <3>1. /\ DeleteDefined(e.iteration.results, start, end) /\ current' = current
          /\ Replace(current, Append(Front(its), d))
      BY <1>8, <2>2 DEF Delete, Deleted
    <3>2. /\ Story(its) /\ Len(its) \in 1..MaxIterations /\ Len(its) > 0
          /\ EntryOK(e) /\ e = its[Len(its)]
      BY <1>a, <2>0 DEF Latest
    <3>3. EntryOK(d) /\ Range(d.iteration.results) \subseteq Range(e.iteration.results)
      BY <3>1, <3>2, DeleteEntry
    <3> HIDE DEF d, e, its
    <3> DEFINE front == Front(its)
    <3>4. /\ Story(front) /\ Len(front) = Len(its) - 1
          /\ \A i \in 1..(Len(its) - 1) : front[i] = its[i]
      BY <3>2, FrontStory
    <3> HIDE DEF front
    <3>5. ASSUME Len(front) > 0 PROVE Follows(front[Len(front)], d)
      <4>1. Len(its) \in 2..Len(its) /\ Len(its) - 1 \in 1..(Len(its) - 1)
        BY <1>0, <3>2, <3>4, <3>5
      <4>2. Follows(its[Len(its) - 1], its[Len(its)])
        BY <3>2, <4>1 DEF Story
      <4>3. front[Len(front)] = its[Len(its) - 1]
        BY <3>4, <4>1
      <4> QED BY <3>2, <3>3, <4>2, <4>3 DEF Follows
    <3>6. Story(Append(front, d)) /\ Len(Append(front, d)) = Len(its)
      <4>1. Story(Append(front, d)) /\ Len(Append(front, d)) = Len(front) + 1
        BY <3>3, <3>4, <3>5, AppendStory
      <4> QED BY <1>0, <3>2, <3>4, <4>1
    <3>7. Storable(Append(front, d))
      BY <3>2, <3>6 DEF Storable
    <3> QED BY <1>b, <2>0, <3>1, <3>7, ReplaceIInv DEF front
  <2> QED BY <2>1, <2>2
<1>9. ASSUME NEW v \in Values, Set(v) PROVE IInv'
  <2>1. PICK S : ram' = [ram EXCEPT !.cell =
                          [a \in Cells |-> IF a \in S \cap ReadableCells THEN v ELSE @[a]]]
    BY <1>9 DEF Set
  <2>2. v \in Byte
    BY SessionAssumption
  <2>3. ram' \in RamType
    <3>1. PICK st \in [DOMAIN Pages -> {"ok", "dark", "gone"}], c \in [Cells -> Byte] :
            ram = [status |-> st, cell |-> c]
      BY <1>b DEF RamType
    <3>2. ram' = [status |-> st,
                  cell |-> [a \in Cells |-> IF a \in S \cap ReadableCells THEN v ELSE c[a]]]
      BY <2>1, <3>1
    <3> QED BY <2>2, <3>2 DEF RamType
  <2>4. searches' = searches /\ current' = current /\ fault' = fault
    BY <1>9 DEF Set
  <2> QED BY <1>b, <2>3, <2>4 DEF IInv
<1>10. CASE TargetRuns
  <2>1. ram' \in RamType /\ searches' = searches /\ current' = current /\ fault' = fault
    BY <1>10, SessionAssumption DEF TargetRuns
  <2> QED BY <1>b, <2>1 DEF IInv
<1>11. CASE Crashed
  BY <1>11 DEF Crashed, vars, IInv
<1> QED
  BY <1>1, <1>2, <1>3, <1>4, <1>5, <1>6, <1>7, <1>8, <1>9, <1>10, <1>11 DEF Next

(***************************************************************************)
(* The theorems.                                                           *)
(***************************************************************************)
LEMMA InitIInv == Init => IInv
<1> SUFFICES ASSUME Init PROVE IInv
  OBVIOUS
<1>1. ram \in RamType
  BY SessionAssumption DEF Init
<1>2. DOMAIN searches = {}
  BY DEF Init
<1> QED BY <1>1, <1>2 DEF Init, IInv, AllNames

LEMMA StepIInv == IInv /\ [Next]_vars => IInv'
<1>1. IInv /\ UNCHANGED vars => IInv'
  BY DEF IInv, vars
<1> QED BY <1>1, CommandIInv

\* Every reachable state satisfies the inductive invariant: the commands on searches_by_name.
THEOREM Inductive == Spec => []IInv
BY InitIInv, StepIInv, PTL DEF Spec

\* However searches are opened, forked, undone, truncated and trimmed, each has between one
\* and max_search_iterations iterations (command_search, command_truncate, command_undo).
THEOREM IterationsStayBounded == Spec => []IterationsBounded
<1>1. IInv => IterationsBounded
  BY DEF IInv, Storable, IterationsBounded
<1> QED BY <1>1, Inductive, PTL

\* an iteration of an open search is one the invariant speaks of
LEMMA EntriesOK ==
  ASSUME IInv, NEW m \in Entries
  PROVE  EntryOK(searches[m[1]][m[2]])
<1>1. PICK n \in DOMAIN searches : \E i \in DOMAIN searches[n] : m = <<n, i>>
  BY DEF Entries
<1>2. PICK i \in DOMAIN searches[n] : m = <<n, i>>
  BY <1>1
<1> QED BY <1>2 DEF IInv, Storable, Story

\* Types: every result of every iteration is an address of the target (MemorySearch::update,
\* delete_results, command_search).
THEOREM TypeCorrect == Spec => []TypeOK
<1>1. ASSUME IInv PROVE TypeOK
  <2>1. ASSUME NEW m \in Entries
        PROVE  LET s == Iteration(m) IN
               /\ s.type \in Types /\ s.results_valid \in BOOLEAN
               /\ s.prev_size \in {0, 1} /\ s.results \in Seq(Cells)
    BY <1>1, EntriesOK DEF EntryOK, Typed, Iteration
  <2> QED BY <1>1, <2>1 DEF TypeOK, IInv
<1> QED BY <1>1, Inductive, PTL

\* Results ascend and lie in the snapshot beside them, after any commands: what lower_bound
\* in delete_results needs, and the next search, which reads the old values there.
THEOREM ResultsStayInSnapshot == Spec => []ResultsInSnapshot
<1>1. ASSUME IInv PROVE ResultsInSnapshot
  <2>1. ASSUME NEW m \in Entries PROVE InSnapshot(searches[m[1]][m[2]])
    BY <1>1, EntriesOK DEF EntryOK
  <2> QED BY <2>1 DEF ResultsInSnapshot, InSnapshot, Iteration
<1> QED BY <1>1, Inductive, PTL

\* Whatever is forked, undone, truncated, trimmed or deleted in between, the results of one
\* iteration are among those of the iteration before it (command_search, MemorySearch::update).
THEOREM IterationsOnlyNarrow == Spec => []IterationsNarrow
<1>1. IInv => IterationsNarrow
  BY DEF IInv, Storable, Story, Follows, IterationsNarrow
<1> QED BY <1>1, Inductive, PTL

\* A result of an integer search has passed every predicate since the search was opened,
\* whatever the target did meanwhile and whatever was forked or undone (MemorySearch::update).
THEOREM ResultsAreSound == Spec => []ResultsSound
<1>1. IInv => ResultsSound
  BY DEF IInv, Storable, Story, EntryOK, Earned, ResultsSound
<1> QED BY <1>1, Inductive, PTL

\* A search for an unknown initial value keeps every address that passed every predicate
\* (command_search with "ALL", MemorySearch::update).
THEOREM NothingUnknownLost == Spec => []UnknownSearchComplete
<1>1. IInv => UnknownSearchComplete
  BY DEF IInv, Storable, Story, EntryOK, Earned, UnknownSearchComplete
<1> QED BY <1>1, Inductive, PTL
=============================================================================
