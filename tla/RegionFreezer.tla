--------------------------- MODULE RegionFreezer ---------------------------
(***************************************************************************)
(* The memory freezer: the table of frozen regions, the commands of the    *)
(* shell that edit it, and the background thread that writes every enabled *)
(* region into the target process about every 10 ms.                       *)
(*                                                                         *)
(* Two threads of memwatch (the shell and the writer) and the target       *)
(* process run concurrently.  The writer holds `lock' for a whole pass, so *)
(* a command that edits the table never meets a pass in progress; the      *)
(* target and the adapter's task port are protected by nothing.            *)
(*                                                                         *)
(* A Region object is identified by its index, which is never reissued.    *)
(* The three maps of the code have immutable keys stored in the object, so *)
(* each is modelled by the set of indices it refers to.                    *)
(***************************************************************************)
EXTENDS Integers, Sequences, FiniteSets

CONSTANTS
  Procs,        \* processes memwatch may be attached to
  NoTask,       \* the task port after task_for_pid has failed
  Addrs,        \* byte addresses of a process
  Byte,         \* byte values
  Names,        \* freeze names, the empty one included
  Tokens,       \* arguments of unfreeze, enable and disable
  AddrOf,       \* token -> the address get_addr_from_command makes of it
  DecOf,        \* token -> the index stoull makes of it
  NoParse,      \* what a token that does not parse is mapped to
  Requests,     \* parsed freeze requests the user may type
  CopyRequests, \* freeze +s requests: <<addr, size, items>>
  InitialMem,   \* memories a process may have when memwatch attaches
  TargetBytes,  \* byte values the target stores on its own
  Pages,        \* sets of addresses the target may unmap and map again
  MaxRegions    \* bound on next_index

(***************************************************************************)
(* A freeze request.  items = 0 is a plain region (mask and null unused);  *)
(* null = <<>> is an array whose null entries are all zeroes.              *)
(***************************************************************************)
RequestType ==
  [addr: Nat, items: Nat, data: Seq(Byte), mask: Seq(Nat),
   null: Seq(Byte), null_mask: Seq(Nat)]

WellFormed(q) ==
  /\ q.addr > 0
  /\ Len(q.data) > 0
  /\ q.items > 0 => Len(q.mask) = Len(q.data)
  /\ q.null # <<>> => /\ q.items > 0
                      /\ Len(q.null) = Len(q.data)
                      /\ Len(q.null_mask) = Len(q.data)

ASSUME ConstantsAssumption ==
  /\ NoTask \notin Procs
  /\ Addrs \subseteq Nat
  /\ Byte \subseteq Nat /\ 0 \in Byte
  /\ NoParse \notin Nat
  /\ AddrOf \in [Tokens -> Nat \cup {NoParse}]
  /\ DecOf \in [Tokens -> Nat \cup {NoParse}]
  /\ \A q \in Requests : q \in RequestType /\ WellFormed(q)
  /\ CopyRequests \subseteq (Nat \ {0}) \X (Nat \ {0}) \X Nat
  /\ InitialMem \subseteq [Addrs -> Byte]
  /\ TargetBytes \subseteq Byte
  /\ Pages \subseteq SUBSET Addrs
  /\ MaxRegions \in Nat

VARIABLES
  rgn,          \* the live Region objects, by index
  by_name,      \* indices regions_by_name refers to
  by_addr,      \* indices regions_by_addr refers to
  by_index,     \* indices regions_by_index refers to: the frozen regions
  next_index,
  pc,           \* where the writer thread is
  todo,         \* enabled regions the writer's pass has not come to yet
  slot,         \* array entry the writer has chosen, while pc = "poke"
  should_exit,
  shell,        \* the shell thread: "running", inside freeze +s ("copying"),
                \* in the destructor ("joining"), or "exited"
  copy,         \* what freeze +s has read and not yet added
  task,         \* the process the adapter reads and writes
  mem,          \* memory of every process
  mapped        \* addresses mapped in every process

tables == <<rgn, by_name, by_addr, by_index, next_index>>
writer == <<pc, todo, slot>>
target == <<mem, mapped>>
vars == <<tables, writer, should_exit, shell, copy, task, target>>

Ids == 0..(MaxRegions - 1)

Errors == {"none", "failed", "full"}

RegionType ==
  [name: Names, req: RequestType, enable: BOOLEAN, error: Errors]

(***************************************************************************)
(* The unique_lock of run_write_thread, held for the whole pass.           *)
(***************************************************************************)
Held == pc \in {"scan", "poke"}

----------------------------------------------------------------------------
(* The adapter: reads and writes of the attached task. *)

Extent(a, n) == a .. (a + n - 1)

\* mach_vm_read_overwrite and mach_vm_write fail unless every page is mapped
Accessible(a, n) == task # NoTask /\ Extent(a, n) \subseteq mapped[task]

Overlay(m, a, d) ==
  [x \in DOMAIN m |-> IF x \in Extent(a, Len(d)) THEN d[x - a + 1] ELSE m[x]]

Put(a, d) == mem' = [mem EXCEPT ![task] = Overlay(@, a, d)]

----------------------------------------------------------------------------
(* Array entries. *)

Entry(q, x) ==
  [k \in 1..Len(q.data) |-> mem[task][q.addr + x * Len(q.data) + k - 1]]

\* memcmp_mask returns 0 or 1: no difference under the mask
Matches(item, data, mask) ==
  \A k \in DOMAIN data : mask[k] # 0 => item[k] = data[k]

IsNull(q, item) ==
  IF q.null = <<>> THEN \A k \in DOMAIN item : item[k] = 0
                   ELSE Matches(item, q.null, q.null_mask)

\* the search loop ends at this entry
Stops(q, x) ==
  Matches(Entry(q, x), q.data, q.mask) \/ IsNull(q, Entry(q, x))

Slots(q) == 0..(q.items - 1)

\* mutant: the loop that ran off the end uses the last entry
UsableOrLast(q) ==
  LET stopped == {x \in Slots(q) : Stops(q, x)}
  IN IF stopped = {} THEN {q.items - 1} ELSE stopped

Usable(q) == {x \in Slots(q) : Stops(q, x)}

FirstUsable(q, x) == x \in Usable(q) /\ \A y \in Usable(q) : x <= y

ArraySize(q) == q.items * Len(q.data)

----------------------------------------------------------------------------
(* The table. *)

Init ==
  /\ rgn = << >> /\ by_name = {} /\ by_addr = {} /\ by_index = {}
  /\ next_index = 0
  /\ pc = "check" /\ todo = {} /\ slot = 0
  /\ should_exit = FALSE /\ shell = "running" /\ copy = <<>>
  /\ task \in Procs
  /\ mem \in [Procs -> InitialMem]
  /\ mapped = [p \in Procs |-> Addrs]

\* mutant: commands do not take the lock
CommandUnlocked ==
  /\ shell = "running"
  /\ UNCHANGED <<writer, should_exit, shell, copy, task, target>>

\* a command runs: the shell thread is alive and takes the lock
Command ==
  /\ shell = "running" /\ ~Held
  /\ UNCHANGED <<writer, should_exit, shell, copy, task, target>>

\* mutant: the index is incremented before it is used
AddRegionPreIncrement(n, q, on) ==
  /\ next_index < MaxRegions
  /\ next_index' = next_index + 1
  /\ rgn' = [i \in DOMAIN rgn \cup {next_index'} |->
               IF i = next_index'
               THEN [name |-> n, req |-> q, enable |-> on, error |-> "none"]
               ELSE rgn[i]]
  /\ by_name' = by_name \cup {next_index'}
  /\ by_addr' = by_addr \cup {next_index'}
  /\ by_index' = by_index \cup {next_index'}

\* mutant: the index of a region is the number of regions before it
AddRegionAtSize(n, q, on) ==
  LET k == Cardinality(by_index) IN
  /\ next_index < MaxRegions
  /\ rgn' = [i \in DOMAIN rgn \cup {k} |->
               IF i = k
               THEN [name |-> n, req |-> q, enable |-> on, error |-> "none"]
               ELSE rgn[i]]
  /\ by_name' = by_name \cup {k}
  /\ by_addr' = by_addr \cup {k}
  /\ by_index' = by_index \cup {k}
  /\ next_index' = next_index + 1

AddRegion(n, q, on) ==
  /\ next_index < MaxRegions
  /\ rgn' = [i \in DOMAIN rgn \cup {next_index} |->
               IF i = next_index
               THEN [name |-> n, req |-> q, enable |-> on, error |-> "none"]
               ELSE rgn[i]]
  /\ by_name' = by_name \cup {next_index}
  /\ by_addr' = by_addr \cup {next_index}
  /\ by_index' = by_index \cup {next_index}
  /\ next_index' = next_index + 1

Freeze(n, q, on) == Command /\ AddRegion(n, q, on)

\* freeze +s<size>: the data is what the target holds now
InPlace(c, d) ==
  [addr |-> c[1], items |-> c[3], data |-> d, mask |-> [k \in 1..c[2] |-> 255],
   null |-> <<>>, null_mask |-> <<>>]

\* it is read under no lock ...
CopyInPlace(n, c, on) ==
  /\ shell = "running" /\ next_index < MaxRegions
  /\ Accessible(c[1], c[2])
  /\ shell' = "copying"
  /\ copy' = [name |-> n, on |-> on,
              req |-> InPlace(c, [k \in 1..c[2] |-> mem[task][c[1] + k - 1]])]
  /\ UNCHANGED <<tables, writer, should_exit, task, target>>

\* ... and added when the lock is free
FreezeInPlace ==
  /\ shell = "copying" /\ ~Held
  /\ AddRegion(copy.name, copy.req, copy.on)
  /\ shell' = "running" /\ copy' = <<>>
  /\ UNCHANGED <<writer, should_exit, task, target>>

\* objects no map refers to any more are destroyed
Keep(S) == rgn' = [i \in S |-> rgn[i]]

\* mutant: regions_by_name is forgotten
DropKeepsName(S) ==
  /\ by_addr' = by_addr \ S
  /\ by_index' = by_index \ S
  /\ Keep((DOMAIN rgn \ S) \cup by_name)
  /\ UNCHANGED <<by_name, next_index>>

Drop(S) ==
  /\ by_name' = by_name \ S
  /\ by_addr' = by_addr \ S
  /\ by_index' = by_index \ S
  /\ Keep(DOMAIN rgn \ S)
  /\ UNCHANGED next_index

Named(t) == {i \in by_name : rgn[i].name = t}
At(t) == {i \in by_addr : rgn[i].req.addr = AddrOf[t]}

\* command_unfreeze tries the argument as a name, an address and an index
UnfreezeByName(t) ==
  /\ Command
  /\ Named(t) # {}
  /\ Drop(Named(t))

UnfreezeByAddr(t) ==
  /\ Command
  /\ Named(t) = {} /\ At(t) # {}
  /\ Drop(At(t))

UnfreezeByIndex(t) ==
  /\ Command
  /\ Named(t) = {} /\ AddrOf[t] # NoParse /\ At(t) = {}
  /\ DecOf[t] \in by_index
  /\ Drop({DecOf[t]})

\* regions_by_name is cleared twice and regions_by_addr never
UnfreezeAll ==
  /\ Command
  /\ by_name' = {} /\ by_index' = {}
  /\ Keep(by_addr)
  /\ UNCHANGED <<by_addr, next_index>>

Differs(S, b) == {i \in S : rgn[i].enable # b}

Switch(S, b) ==
  /\ rgn' = [i \in DOMAIN rgn |->
               IF i \in S THEN [rgn[i] EXCEPT !.enable = b] ELSE rgn[i]]
  /\ UNCHANGED <<by_name, by_addr, by_index, next_index>>

\* command_enable_disable falls through when a selector CHANGED nothing
EnableByName(t, b) ==
  /\ Command
  /\ Differs(Named(t), b) # {}
  /\ Switch(Named(t), b)

EnableByAddr(t, b) ==
  /\ Command
  /\ Differs(Named(t), b) = {} /\ Differs(At(t), b) # {}
  /\ Switch(At(t), b)

EnableByIndex(t, b) ==
  /\ Command
  /\ Differs(Named(t), b) = {} /\ AddrOf[t] # NoParse /\ Differs(At(t), b) = {}
  /\ DecOf[t] \in by_index /\ rgn[DecOf[t]].enable # b
  /\ Switch({DecOf[t]}, b)

EnableAll(b) ==
  /\ Command
  /\ Differs(by_index, b) # {}
  /\ Switch(by_index, b)

----------------------------------------------------------------------------
(* The writer thread. *)

\* mutant: the loop does not look at should_exit
CheckNothing ==
  /\ pc = "check"
  /\ pc' = "lock"
  /\ UNCHANGED <<tables, todo, slot, should_exit, shell, copy, task, target>>

CheckExit ==
  /\ pc = "check"
  /\ pc' = IF should_exit THEN "done" ELSE "lock"
  /\ UNCHANGED <<tables, todo, slot, should_exit, shell, copy, task, target>>

\* mutant: disabled regions are written too
AcquireDisabled ==
  /\ pc = "lock"
  /\ pc' = "scan"
  /\ todo' = by_index
  /\ UNCHANGED <<tables, slot, should_exit, shell, copy, task, target>>

\* mutant: a pass writes only the first enabled region
AcquireFirst ==
  /\ pc = "lock"
  /\ pc' = "scan"
  /\ todo' = {i \in by_index : rgn[i].enable /\ \A j \in by_index : rgn[j].enable => i <= j}
  /\ UNCHANGED <<tables, slot, should_exit, shell, copy, task, target>>

Acquire ==
  /\ pc = "lock"
  /\ pc' = "scan"
  /\ todo' = {i \in by_index : rgn[i].enable}
  /\ UNCHANGED <<tables, slot, should_exit, shell, copy, task, target>>

SetError(i, e) == rgn' = [rgn EXCEPT ![i].error = e]

\* the region the pass has come to: std::map iterates in index order
Current(i) == i \in todo /\ \A j \in todo : i <= j

\* Region::write
WritePlain(i) ==
  LET q == rgn[i].req IN
  /\ pc = "scan" /\ Current(i) /\ q.items = 0
  /\ IF Accessible(q.addr, Len(q.data))
     THEN Put(q.addr, q.data) /\ SetError(i, "none")
     ELSE UNCHANGED mem /\ SetError(i, "failed")
  /\ todo' = todo \ {i}
  /\ UNCHANGED <<by_name, by_addr, by_index, next_index, pc, slot,
                 should_exit, shell, copy, task, mapped>>

\* ArrayRegion::write up to its decision; a masked match and a null entry are
\* both overwritten, and neither touches the error text
ReadArray(i) ==
  LET q == rgn[i].req
      Finish(e) == SetError(i, e) /\ todo' = todo \ {i} /\ UNCHANGED <<pc, slot>>
      Choose(x) == pc' = "poke" /\ slot' = x /\ UNCHANGED <<rgn, todo>>
  IN
  /\ pc = "scan" /\ Current(i) /\ q.items > 0
  /\ \/ ~Accessible(q.addr, ArraySize(q)) /\ Finish("failed")
     \/ /\ Accessible(q.addr, ArraySize(q))
        /\ Usable(q) = {} /\ Finish("full")
     \/ /\ Accessible(q.addr, ArraySize(q))
        /\ \E x \in Slots(q) :
             /\ FirstUsable(q, x)
             /\ IF Entry(q, x) = q.data THEN Finish("none") ELSE Choose(x)
  /\ UNCHANGED <<by_name, by_addr, by_index, next_index,
                 should_exit, shell, copy, task, target>>

SlotAddr(q, x) == q.addr + x * Len(q.data)

Poke(i) ==
  LET q == rgn[i].req IN
  /\ pc = "poke" /\ Current(i)
  /\ IF Accessible(SlotAddr(q, slot), Len(q.data))
     THEN Put(SlotAddr(q, slot), q.data) /\ UNCHANGED rgn
     ELSE UNCHANGED mem /\ SetError(i, "failed")
  /\ pc' = "scan" /\ slot' = 0 /\ todo' = todo \ {i}
  /\ UNCHANGED <<by_name, by_addr, by_index, next_index,
                 should_exit, shell, copy, task, mapped>>

EndPass ==
  /\ pc = "scan" /\ todo = {}
  /\ pc' = "sleep"
  /\ UNCHANGED <<tables, todo, slot, should_exit, shell, copy, task, target>>

Wake ==
  /\ pc = "sleep"
  /\ pc' = "check"
  /\ UNCHANGED <<tables, todo, slot, should_exit, shell, copy, task, target>>

Writer ==
  \/ CheckExit \/ Acquire \/ EndPass \/ Wake
  \/ \E i \in todo : WritePlain(i) \/ ReadArray(i) \/ Poke(i)

----------------------------------------------------------------------------
(* The rest of memwatch, and the target. *)

\* command_attach changes the adapter's task under no lock
Attach(p) ==
  /\ shell = "running"
  /\ task' = p
  /\ UNCHANGED <<tables, writer, should_exit, shell, copy, target>>

\* the shell ends and the destructor waits for the writer
Quit ==
  /\ shell = "running"
  /\ shell' = "joining" /\ should_exit' = TRUE
  /\ UNCHANGED <<tables, writer, copy, task, target>>

Join ==
  /\ shell = "joining" /\ pc = "done"
  /\ shell' = "exited"
  /\ UNCHANGED <<tables, writer, should_exit, copy, task, target>>

Exited ==
  /\ shell = "exited"
  /\ UNCHANGED vars

TargetStore(p, a, v) ==
  /\ a \in mapped[p]
  /\ mem' = [mem EXCEPT ![p][a] = v]
  /\ UNCHANGED <<tables, writer, should_exit, shell, copy, task, mapped>>

\* pages come back zero-filled
TargetRemap(p, S) ==
  /\ IF S \subseteq mapped[p]
     THEN mapped' = [mapped EXCEPT ![p] = @ \ S] /\ UNCHANGED mem
     ELSE /\ mapped' = [mapped EXCEPT ![p] = @ \cup S]
          /\ mem' = [mem EXCEPT ![p] =
                       [a \in Addrs |-> IF a \in S THEN 0 ELSE @[a]]]
  /\ UNCHANGED <<tables, writer, should_exit, shell, copy, task>>

Next ==
  \/ \E n \in Names, q \in Requests, on \in BOOLEAN : Freeze(n, q, on)
  \/ \E n \in Names, c \in CopyRequests, on \in BOOLEAN : CopyInPlace(n, c, on)
  \/ FreezeInPlace
  \/ \E t \in Tokens : UnfreezeByName(t) \/ UnfreezeByAddr(t) \/ UnfreezeByIndex(t)
  \/ UnfreezeAll
  \/ \E t \in Tokens, b \in BOOLEAN :
       EnableByName(t, b) \/ EnableByAddr(t, b) \/ EnableByIndex(t, b)
  \/ \E b \in BOOLEAN : EnableAll(b)
  \/ Writer
  \/ \E p \in Procs \cup {NoTask} : Attach(p)
  \/ Quit \/ Join \/ Exited
  \/ \E p \in Procs, a \in Addrs, v \in TargetBytes : TargetStore(p, a, v)
  \/ \E p \in Procs, S \in Pages : TargetRemap(p, S)

Spec == Init /\ [][Next]_vars

\* the writer is an ordinary thread: the scheduler runs it, usleep returns,
\* and the lock is free whenever it is at pc = "lock"
Fairness == WF_vars(Writer) /\ WF_vars(Join)

FairSpec == Spec /\ Fairness
----------------------------------------------------------------------------
(* Properties. *)

Pending(c) ==
  /\ c.name \in Names /\ c.on \in BOOLEAN
  /\ c.req \in RequestType /\ WellFormed(c.req)

\* Every variable has its type, every region object a well-formed request and an
\* index that was issued (RegionFreezer.hh, class Region and the maps).
TypeOK ==
  /\ DOMAIN rgn \subseteq Ids
  /\ \A i \in DOMAIN rgn : /\ rgn[i].name \in Names
                           /\ rgn[i].req \in RequestType /\ WellFormed(rgn[i].req)
                           /\ rgn[i].enable \in BOOLEAN /\ rgn[i].error \in Errors
  /\ next_index \in 0..MaxRegions
  /\ pc \in {"check", "lock", "scan", "poke", "sleep", "done"}
  /\ slot \in Nat
  /\ should_exit \in BOOLEAN
  /\ shell \in {"running", "copying", "joining", "exited"}
  /\ shell = "copying" => Pending(copy)
  /\ task \in Procs \cup {NoTask}
  /\ mem \in [Procs -> [Addrs -> Byte]]
  /\ mapped \in [Procs -> SUBSET Addrs]

\* The three maps stay in step across every sequence of commands: a frozen region
\* can be reached by its name, its address and its index; no map refers to a
\* destroyed object, and no index is issued twice (add_region, unfreeze_*).
TablesConsistent ==
  /\ by_name = by_index
  /\ by_index \subseteq by_addr
  /\ DOMAIN rgn = by_addr
  /\ \A i \in by_addr : i < next_index

\* Whatever the shell does, what the writer is about to write is frozen and
\* enabled, and an entry it has chosen lies inside its array (run_write_thread
\* keeps the lock from its scan of the table to its last write).
WritesAreFrozen ==
  /\ Held => \A i \in todo : i \in by_index /\ rgn[i].enable
  /\ ~Held => todo = {}
  /\ pc = "poke" => \E i \in todo : /\ Current(i)
                                    /\ slot \in Slots(rgn[i].req)

(* The refinement mapping to FrozenRegions. *)
Frozen ==
  [i \in by_index |->
     [what |-> [name |-> rgn[i].name, addr |-> rgn[i].req.addr, req |-> rgn[i].req],
      on |-> rgn[i].enable]]

Asked ==
  {[name |-> n, addr |-> q.addr, req |-> q] :
     n \in Names,
     q \in Requests \cup UNION {{InPlace(c, d) : d \in [1..c[2] -> Byte]} : c \in CopyRequests}}

Table == INSTANCE FrozenRegions
           WITH frozen <- Frozen, issued <- next_index, Content <- Asked

\* The table implements FrozenRegions: whatever a command is given, it removes or
\* switches exactly the regions of one name, one address or one index, or all of
\* them, and never alters, renames or renumbers another (unfreeze_*, enable_*).
TableImplemented == Table!Spec

Places(q) == IF q.items = 0 THEN {0} ELSE Slots(q)

StrayFree ==
  todo' # todo /\ mem' # mem =>
    \E i \in by_index :
      LET q == rgn[i].req
          hit == {a \in Addrs : mem'[task][a] # mem[task][a]}
      IN /\ rgn[i].enable
         /\ \A p \in Procs \ {task} : mem'[p] = mem[p]
         /\ \E x \in Places(q) :
              /\ hit \subseteq Extent(SlotAddr(q, x), Len(q.data))
              /\ \A k \in DOMAIN q.data :
                   mem'[task][SlotAddr(q, x) + k - 1] = q.data[k]

\* The writer changes the memory of the attached task only, and there only one
\* place of a region that is frozen and enabled, to that region's data, whatever
\* the shell attaches to or the target does in between (Region::write).
NoStrayWrite == [][StrayFree]_vars

\* An array pass writes only over an entry that, at that moment, is null or is the
\* frozen data up to masked bytes: live entries of the target survive
\* (ArrayRegion::write, which decides on a copy it read before).
LiveEntriesKept ==
  [][\A i \in todo : Poke(i) /\ mem' # mem => Stops(rgn[i].req, slot)]_vars

\* A successful unfreeze unfroze something: the command prints "region unfrozen"
\* only when a frozen region has gone (command_unfreeze).
UnfreezeReportIsTrue ==
  [][\A t \in Tokens : UnfreezeByAddr(t) => by_index' # by_index]_vars

InPlaceNow(i) ==
  LET q == rgn[i].req IN
  task # NoTask /\
  IF q.items = 0
  THEN \A k \in DOMAIN q.data : mem[task][q.addr + k - 1] = q.data[k]
  ELSE \E x \in Slots(q) : Matches(Entry(q, x), q.data, q.mask)

Active(i) == ~should_exit /\ i \in by_index /\ rgn[i].enable

\* A region that is frozen and enabled gets its data into the target, or shows an
\* error, unless the user drops or disables it or quits first: no region is
\* starved by the others of the table (run_write_thread).
EventuallyWritten ==
  \A i \in Ids :
    Active(i) ~> \/ ~Active(i)
                 \/ rgn[i].error # "none"
                 \/ InPlaceNow(i)

\* After quit the destructor's join returns: the writer leaves its loop however
\* long its pass (should_exit, ~RegionFreezer).
ShutdownCompletes == should_exit ~> shell = "exited"
=============================================================================
