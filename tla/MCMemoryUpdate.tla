--------------------------- MODULE MCMemoryUpdate ---------------------------
(***************************************************************************)
(* Bytes of two bits.  Three families of updates: every pair of layouts of  *)
(* up to three regions over four bytes; every pair of old and new patterns  *)
(* of one number of every type, of which 7 is the NaN of a float; data of   *)
(* up to two bytes in regions that shrink.                                  *)
(***************************************************************************)
EXTENDS MemoryUpdate

CONSTANT nomemory

Unknown(type, old) == [NewSearch(type) EXCEPT !.memory = old]
WithResults(type, old, S, size) ==
  [Unknown(type, old) EXCEPT !.results_valid = TRUE, !.prev_size = size,
                             !.results = Ascending(S)]

----------------------------------------------------------------------------
Top == 4

RegionOf(lo, hi, ok, val(_)) ==
  [addr |-> lo, size |-> hi - lo + 1,
   data |-> IF ok THEN [j \in 1..(hi - lo + 1) |-> val(lo + j - 1)] ELSE <<>>]

RegionsOf(val(_)) ==
  {RegionOf(e[1], e[2], e[3], val) :
     e \in {f \in (1..Top) \X (1..Top) \X BOOLEAN : f[1] <= f[2]}}

Before(r, s) == EndAddr(r) <= s.addr

Layouts(val(_)) ==
  LET R == RegionsOf(val)
      Pairs == {p \in R \X R : Before(p[1], p[2])}
  IN {<<>>} \cup {<<r>> : r \in R} \cup Pairs
       \cup {<<t[1][1], t[1][2], t[2]>> :
               t \in {u \in Pairs \X R : Before(u[1][2], u[2])}}

OldValue(a) == 1
NewValue(a) == a % 3

OldLayouts == Layouts(OldValue)

Borders ==
  [searches |->
     {NewSearch("u8")}
       \cup {Unknown("u8", old) : old \in OldLayouts}
       \cup {WithResults("u8", old, Readable(old), 1) : old \in OldLayouts}
       \cup {WithResults("u8", old, Readable(old) \ {2, 3}, 1) : old \in OldLayouts},
   snapshots |-> Layouts(NewValue),
   ops |-> {"<", ">="}, values |-> {NoValue, <<1>>}]

----------------------------------------------------------------------------
\* one region of two fields; the second one never changes
Patterns(size) ==
  {<<[addr |-> 2, size |-> 2 * size, data |-> bytes \o [i \in 1..size |-> 1]]>> :
     bytes \in [1..size -> Byte]}

NumbersOf(type, ops) ==
  LET size == FieldSize(type)
      old == Patterns(size)
  IN [searches |-> {NewSearch(type)} \cup {Unknown(type, o) : o \in old}
                     \cup {WithResults(type, o, {2, 2 + size}, size) : o \in old},
      snapshots |-> old,
      ops |-> ops, values |-> {NoValue} \cup {TypedValue(type, n) : n \in {-1, 0, 2, 5, 7}}]

NumberTypes == AllTypes \ {"data"}

----------------------------------------------------------------------------
DataRegions(bytes) == {<<[addr |-> 2, size |-> n, data |-> SubSeq(bytes, 1, n)]>> : n \in 1..3}

DataUpdates ==
  LET old == DataRegions(<<1, 0, 1>>) IN
  [searches |-> {NewSearch("data")} \cup {Unknown("data", o) : o \in old}
     \cup {WithResults("data", o, {a \in Readable(o) : a + n <= EndAddr(o[1])}, n) :
             o \in old, n \in 0..2},
   snapshots |-> DataRegions(<<1, 0, 1>>) \cup DataRegions(<<1, 1, 2>>),
   ops |-> {"=", "<", "$"}, values |-> {NoValue, <<1>>, <<0>>, <<1, 0>>, <<1, 1>>}]

----------------------------------------------------------------------------
MCFamilies == {Borders, DataUpdates} \cup {NumbersOf(t, Predicates) : t \in NumberTypes}

FirstSearches ==
  {[NumbersOf("u8", {"<="}) EXCEPT !.searches = {NewSearch("u8")}]}
=============================================================================
