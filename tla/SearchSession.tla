--------------------------- MODULE SearchSession ---------------------------
(***************************************************************************)
(* The searches of the shell: named lists of iterations, the commands that  *)
(* open, reopen, close, fork, search, undo, truncate, delete and set, and   *)
(* a target that changes its memory between two commands.                   *)
(*                                                                         *)
(* The snapshot of one search is taken in one step: the target is paused    *)
(* (-f) or quick enough not to move.  kept and seen are history: what the   *)
(* user is entitled to, computed from the target and never from the         *)
(* snapshots or results of the program.  A value is one byte here, of the   *)
(* type u8 or data; Evaluators and MemoryUpdate have the wider ones.        *)
(***************************************************************************)
EXTENDS MemorySearch

CONSTANTS
  Names,        \* names of searches the user types
  Unnamed,      \* the name "" of an unnamed search
  Types,        \* subset of {"u8", "data"}
  Requests,     \* <<operator, value>> of a search command
  Values,       \* values the user may set
  Pages,        \* sequence of [addr, size]: what the target may have mapped
  Rams,         \* states the target may put its memory in
  DeleteEnds,   \* addresses the user types in delete
  MaxResults,
  MaxIterations, \* max_search_iterations
  MaxTotal      \* bound: iterations of all open searches together

AllNames == Names \cup {Unnamed}
Cells == UNION {p.addr .. (p.addr + p.size - 1) : p \in Range(Pages)}

(***************************************************************************)
(* status: "ok", "dark" (mapped, but every read fails) or "gone" per page. *)
(***************************************************************************)
RamType ==
  [status: [DOMAIN Pages -> {"ok", "dark", "gone"}], cell: [Cells -> Byte]]

ASSUME SessionAssumption ==
  /\ Unnamed \notin Names
  /\ Types \subseteq {"u8", "data"}
  /\ \A r \in Requests :
       r[1] \in Predicates \ {"$"} /\ r[2] \in {NoValue} \cup [{1} -> Byte]
  /\ Values \subseteq Byte
  /\ Pages \in Seq([addr: Nat \ {0}, size: Nat \ {0}])
  /\ \A i, j \in DOMAIN Pages : i < j => Pages[i].addr + Pages[i].size <= Pages[j].addr
  /\ Rams \subseteq RamType
  /\ NoMemory \notin Seq([addr: Nat, size: Nat, data: Seq(Byte)])
  /\ DeleteEnds \subseteq 0 .. (AddrSpace - 1)
  /\ MaxResults \in Nat /\ MaxIterations \in Nat \ {0} /\ MaxTotal \in Nat

VARIABLES
  searches,  \* name -> sequence of [iteration, kept, seen, unknown]
  current,   \* current_search_name
  ram,       \* the target's memory
  fault      \* memwatch has run into undefined behaviour

vars == <<searches, current, ram, fault>>

Latest(n) == searches[n][Len(searches[n])]

Without(S) == [n \in DOMAIN searches \ S |-> searches[n]]
With(f, n, its) == [m \in DOMAIN f \cup {n} |-> IF m = n THEN its ELSE f[m]]
Replace(n, its) == searches' = With(searches, n, its)

TotalOf(f) == Cardinality(UNION {{n} \X DOMAIN f[n] : n \in DOMAIN f})
Bounded == TotalOf(searches') <= MaxTotal

----------------------------------------------------------------------------
(* Reading the target. *)

PageCells(i) == Pages[i].addr .. (Pages[i].addr + Pages[i].size - 1)

ReadableCells ==
  UNION {PageCells(i) : i \in {j \in DOMAIN Pages : ram.status[j] = "ok"}}

ReadPage(i) ==
  [addr |-> Pages[i].addr, size |-> Pages[i].size,
   data |-> IF ram.status[i] = "ok"
            THEN [j \in 1..Pages[i].size |-> ram.cell[Pages[i].addr + j - 1]]
            ELSE <<>>]

Regions(S) ==
  LET mapped == Ascending({i \in S : ram.status[i] # "gone"})
  IN [j \in DOMAIN mapped |-> ReadPage(mapped[j])]

\* get_target_regions compares one address past the end of its list, so it may
\* also read the first region that lies after every result
TargetPages(results, extra) ==
  LET S == {i \in DOMAIN Pages : Range(results) \cap PageCells(i) # {}}
      past == {i \in DOMAIN Pages : /\ ram.status[i] # "gone"
                                    /\ \A a \in Range(results) : a < Pages[i].addr}
  IN S \cup {i \in past : extra /\ results # <<>> /\ \A j \in past : i <= j}

Snapshot(s, extra) ==
  Regions(IF s.results_valid THEN TargetPages(s.results, extra) ELSE DOMAIN Pages)

----------------------------------------------------------------------------
(* Commands. *)

Init ==
  /\ searches = << >> /\ current = Unnamed
  /\ ram \in Rams
  /\ fault = FALSE

Quiet == ~fault /\ UNCHANGED <<ram, fault>>

Fresh(type) ==
  [iteration |-> NewSearch(type), kept |-> {}, seen |-> << >>, unknown |-> FALSE]

\* opening or reopening a named search closes the unnamed one
Open(n, type) ==
  /\ Quiet
  /\ searches' = With(IF n = Unnamed THEN searches ELSE Without({Unnamed}),
                      n, <<Fresh(type)>>)
  /\ Bounded
  /\ current' = n

Reopen(n) ==
  /\ Quiet
  /\ n \in DOMAIN searches /\ n # Unnamed
  /\ searches' = Without({Unnamed})
  /\ current' = n

\* close without an argument, and close of a name
Close(n) ==
  /\ Quiet
  /\ n \in DOMAIN searches /\ n \in Names \cup {current}
  /\ searches' = Without({n})
  /\ current' = IF current = n THEN Unnamed ELSE current

ForkCurrent(n) ==
  /\ Quiet
  /\ n # current /\ current \in DOMAIN searches
  /\ Replace(n, searches[current]) /\ Bounded
  /\ current' = n

\* the copy's name is erased before the original is looked up; `fork a ', with a space
\* at its end, copies into the unnamed search
ForkNamed(a, b) ==
  /\ Quiet
  /\ searches' = IF a \in DOMAIN searches \ {b}
                 THEN With(searches, b, searches[a])
                 ELSE Without({b})
  /\ Bounded
  /\ UNCHANGED current

\* the commands that take an optional search name
Chosen(n) == n \in DOMAIN searches /\ n \in Names \cup {current}

\* mutant: iterations are never trimmed
TrimNothing(its) == its

Trim(its) == SubSeq(its, IF Len(its) > MaxIterations
                         THEN Len(its) - MaxIterations + 1 ELSE 1, Len(its))

\* history: the cells that have passed every predicate of this search so far
Entitled(e, op, v) ==
  IF ~HasMemory(e.iteration)
  THEN {a \in ReadableCells : op = "ALL" \/ Compare(op, ram.cell[a], v[1])}
  ELSE {a \in e.kept \cap ReadableCells :
          Compare(op, ram.cell[a], IF v = NoValue THEN e.seen[a] ELSE v[1])}

Search(n, op, v, extra) ==
  LET e == Latest(n)
      s == e.iteration
  IN
  /\ Quiet /\ UNCHANGED current
  /\ Chosen(n)
  /\ CanUpdate(s, op, v)
  /\ Replace(n, Trim(Append(searches[n],
       [iteration |-> Update(s, Snapshot(s, extra), op, v, MaxResults),
        kept |-> Entitled(e, op, v),
        seen |-> [a \in Entitled(e, op, v) |-> ram.cell[a]],
        unknown |-> IF HasMemory(s) THEN e.unknown ELSE op = "ALL"])))
  /\ Bounded

Undo(n) ==
  /\ Quiet /\ UNCHANGED current
  /\ Chosen(n) /\ Len(searches[n]) > 1
  /\ Replace(n, Front(searches[n]))

Truncate(n, count) ==
  /\ Quiet /\ UNCHANGED current
  /\ Chosen(n) /\ count > 0 /\ Len(searches[n]) > count
  /\ Replace(n, SubSeq(searches[n], Len(searches[n]) - count + 1, Len(searches[n])))

\* a range that ends at the last address deletes nothing, or is undefined, and then
\* nothing is known of the searches any more
Delete(start, end) ==
  LET e == Latest(current)
      seq == e.iteration.results
  IN
  /\ ~fault /\ UNCHANGED ram
  /\ current \in DOMAIN searches
  /\ start <= end
  /\ fault' = ~DeleteDefined(seq, start, end)
  /\ current' = IF fault' THEN Unnamed ELSE current
  /\ IF fault' THEN searches' = << >>
     ELSE Replace(current,
            Append(Front(searches[current]),
                   [e EXCEPT !.iteration.results = DeleteResults(seq, start, end),
                             !.kept = IF e.iteration.results_valid
                                      THEN @ \ (start .. (AfterEnd(end) - 1)) ELSE @]))

\* set: every result, or one of them; failed writes are reported and skipped
Set(v) ==
  /\ ~fault /\ UNCHANGED <<searches, current, fault>>
  /\ current \in DOMAIN searches /\ HasMemory(Latest(current).iteration)
  /\ LET all == Range(Latest(current).iteration.results) IN
     \E S \in {all} \cup {{a} : a \in all} :
       ram' = [ram EXCEPT !.cell =
                 [a \in Cells |-> IF a \in S \cap ReadableCells THEN v ELSE @[a]]]

TargetRuns ==
  /\ ~fault /\ UNCHANGED <<searches, current, fault>>
  /\ ram' \in Rams

Crashed == fault /\ UNCHANGED vars

Next ==
  \/ \E n \in AllNames, t \in Types : Open(n, t)
  \/ \E n \in AllNames : Reopen(n) \/ Close(n) \/ Undo(n)
  \/ \E n \in Names : ForkCurrent(n)
  \/ \E a \in Names, b \in AllNames : ForkNamed(a, b)
  \/ \E n \in AllNames, r \in Requests, extra \in BOOLEAN : Search(n, r[1], r[2], extra)
  \/ \E n \in AllNames, count \in 1..MaxIterations : Truncate(n, count)
  \/ \E start, end \in DeleteEnds : Delete(start, end)
  \/ \E v \in Values : Set(v)
  \/ TargetRuns \/ Crashed

Spec == Init /\ [][Next]_vars
----------------------------------------------------------------------------
(* Properties. *)

Entries == UNION {{<<n, i>> : i \in DOMAIN searches[n]} : n \in DOMAIN searches}
Iteration(m) == searches[m[1]][m[2]].iteration

\* Every variable has its type; a result is an address of the target, never the 0
\* that marks a deleted one (MemorySearch::update).
TypeOK ==
  /\ DOMAIN searches \subseteq AllNames /\ current \in AllNames
  /\ ram \in RamType /\ fault \in BOOLEAN
  /\ \A m \in Entries :
       LET s == Iteration(m) IN
       /\ s.type \in Types /\ s.results_valid \in BOOLEAN
       /\ s.prev_size \in {0, 1} /\ s.results \in Seq(Cells)

\* No sequence of commands leaves an open search without an iteration or with
\* more than max_search_iterations (command_search, command_truncate: "we can't
\* possibly delete all items").
IterationsBounded ==
  \A n \in DOMAIN searches : Len(searches[n]) \in 1..MaxIterations

\* The states of a search listed in MemorySearch.hh: results are valid only with a
\* snapshot, ascend strictly (delete_results searches them by bisection), and every
\* one lies in a region of that snapshot whose data was read, which is where the
\* next search reads the old value from without another test.
ResultsInSnapshot ==
  \A m \in Entries :
    LET s == Iteration(m) IN
    /\ s.results_valid => HasMemory(s)
    /\ ~s.results_valid => s.results = <<>>
    /\ Ordered(s.results)
    /\ s.results_valid => Range(s.results) \subseteq Readable(s.memory)

\* Searching only narrows: along the iterations of a search, whatever was forked,
\* undone, truncated or deleted in between, results are only ever removed
\* (command_search copies the latest iteration and update filters it).
IterationsNarrow ==
  \A n \in DOMAIN searches : \A i \in 2..Len(searches[n]) :
    LET old == searches[n][i - 1].iteration IN
    old.results_valid =>
      Range(searches[n][i].iteration.results) \subseteq Range(old.results)

\* A result of an integer search has passed every predicate since the search was
\* opened, each against the target's memory of that moment (README `search').
ResultsSound ==
  \A n \in DOMAIN searches : \A i \in DOMAIN searches[n] :
    LET e == searches[n][i] IN
    e.iteration.type = "u8" => Range(e.iteration.results) \subseteq e.kept

\* A search for an unknown initial value loses no cell that passed every predicate
\* (README `search [search_name] .').
UnknownSearchComplete ==
  \A n \in DOMAIN searches : \A i \in DOMAIN searches[n] :
    LET e == searches[n][i] IN
    e.iteration.type = "u8" /\ e.unknown /\ e.iteration.results_valid =>
      e.kept \subseteq Range(e.iteration.results)

\* A data search without a value compares with the value of the previous search,
\* so a result has passed every predicate (README `search': "If `value' is not
\* given, uses the value of the variable during the previous search").
DataResultsSound ==
  \A n \in DOMAIN searches : \A i \in DOMAIN searches[n] :
    LET e == searches[n][i] IN
    e.iteration.type = "data" => Range(e.iteration.results) \subseteq e.kept
=============================================================================
