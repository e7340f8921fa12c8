---------------------------- MODULE TargetAdapter ----------------------------
(***************************************************************************)
(* The walks of ProcessMemoryAdapter over the memory map of the target:     *)
(* list, dump and the searches, which make a region readable to read it     *)
(* and then restore its protection, and access, which sets it.  A step is   *)
(* one call of the kernel; between two of them the target maps, unmaps and  *)
(* protects its memory, unless the command holds a PauseGuard.              *)
(*                                                                         *)
(* The kernel is modelled from these calls: a region is a run of pages that *)
(* map one object with one protection, so protecting a part of an object    *)
(* splits a region and protecting it like its neighbour joins the two.      *)
(* Addresses count pages.                                                  *)
(***************************************************************************)
EXTENDS Integers, Sequences, FiniteSets

CONSTANTS
  N,            \* pages of the address space
  Gone,         \* nothing is mapped
  Objects,      \* what a page may map
  Guarded,      \* objects whose maximum protection has no "r"
  Dark,         \* objects that no read gets through to
  Choices,      \* page -> what the target may make of it
  Targets,      \* ascending sequences of result addresses
  Rights        \* protections the user gives to access

Space == 0..(N - 1)
Protections == SUBSET {"r", "w"}
Mappings == [obj: Objects, prot: Protections]

ASSUME AdapterAssumption ==
  /\ N \in Nat \ {0}
  /\ Gone \notin Mappings
  /\ Guarded \subseteq Objects /\ Dark \subseteq Objects
  /\ Choices \in [Space -> SUBSET (Mappings \cup {Gone})]
  /\ \A t \in Targets :
       t \in Seq(Space) /\ \A i, j \in DOMAIN t : i < j => t[i] < t[j]
  /\ Rights \subseteq Protections

VARIABLES
  page,         \* the target's memory map
  paused,       \* the command holds a PauseGuard
  job,          \* "none", "list", "all", "targets" or "access"
  pc,           \* "idle", "next", "lookup", "protect" or "read"
  cursor,       \* addr in the loop of the walk
  targets, it,  \* target_addresses, and target_it
  region,       \* the region the walk is at
  setting,      \* the arguments of set_protection, and who called it
  seen,         \* the region set_protection is about to change
  found,        \* the regions of the result
  before        \* history: the memory map when the paused command began

vars == <<page, paused, job, pc, cursor, targets, it, region, setting, seen, found, before>>

----------------------------------------------------------------------------
(* The kernel. *)

Mapped(p) == p \in Space /\ page[p] # Gone

Extent(r) == r.addr .. (r.addr + r.size - 1)

EndAddr(r) == r.addr + r.size

\* pages a to b-1 are one region
IsRegion(m, a, b) ==
  /\ a < b /\ m[a] # Gone
  /\ \A p \in a..(b - 1) : m[p] = m[a]
  /\ a > 0 => m[a - 1] # m[a]
  /\ b < N => m[b] # m[a]

\* mach_vm_region: the region at an address, or else the next one after it
RegionsFrom(addr) ==
  {[addr |-> e[1], size |-> e[2] - e[1], prot |-> page[e[1]].prot, read |-> FALSE] :
     e \in {f \in Space \X (1..N) :
              /\ IsRegion(page, f[1], f[2]) /\ addr < f[2]
              /\ \A p \in addr..(f[1] - 1) : page[p] = Gone}}

\* mach_vm_protect
MayProtect(r, prot) ==
  \A p \in Extent(r) : Mapped(p) /\ ("r" \in prot => page[p].obj \notin Guarded)

Protected(r, prot) ==
  [p \in Space |-> IF p \in Extent(r) THEN [page[p] EXCEPT !.prot = prot] ELSE page[p]]

\* mach_vm_read_overwrite: all of the pages, or an error
CanRead(r) ==
  \A p \in Extent(r) : Mapped(p) /\ "r" \in page[p].prot /\ page[p].obj \notin Dark

----------------------------------------------------------------------------
(* Commands. *)

NoRegion == [addr |-> 0, size |-> 0, prot |-> {}, read |-> FALSE]
NoSetting == [why |-> "none", addr |-> 0, prot |-> {}]
NoMap == [p \in Space |-> Gone]

\* the command returns, and takes the regions with it
Idle ==
  /\ paused' = FALSE /\ job' = "none" /\ pc' = "idle"
  /\ cursor' = 0 /\ targets' = <<>> /\ it' = 1
  /\ region' = NoRegion /\ setting' = NoSetting /\ seen' = NoRegion
  /\ found' = <<>> /\ before' = NoMap

Init ==
  /\ page \in [Space -> Mappings \cup {Gone}]
  /\ \A p \in Space : page[p] \in Choices[p]
  /\ paused = FALSE /\ job = "none" /\ pc = "idle"
  /\ cursor = 0 /\ targets = <<>> /\ it = 1
  /\ region = NoRegion /\ setting = NoSetting /\ seen = NoRegion
  /\ found = <<>> /\ before = NoMap

\* list, dump and search; with -p under a PauseGuard
StartWalk(kind, t, pausing) ==
  /\ pc = "idle"
  /\ job' = kind /\ pc' = "next" /\ targets' = t
  /\ paused' = pausing /\ before' = IF pausing THEN page ELSE NoMap
  /\ UNCHANGED <<page, cursor, it, region, setting, seen, found>>

\* access: never under a PauseGuard
StartAccess(addr, prot) ==
  /\ pc = "idle"
  /\ job' = "access" /\ pc' = "lookup"
  /\ setting' = [why |-> "access", addr |-> addr, prot |-> prot]
  /\ UNCHANGED <<page, paused, cursor, targets, it, region, seen, found, before>>

----------------------------------------------------------------------------
(* get_region, get_all_regions, get_target_regions. *)

\* mutant: the walk goes on from the start of the region
CursorAfterStart(r) == r.addr

\* mutant: the walk leaves a page out
CursorAfterGap(r) == EndAddr(r) + 1

CursorAfter(r) == EndAddr(r)

Store(r) ==
  /\ found' = Append(found, r)
  /\ pc' = "next"
  /\ region' = NoRegion /\ setting' = NoSetting /\ seen' = NoRegion

Call(why, r, prot) ==
  /\ pc' = "lookup"
  /\ region' = r
  /\ setting' = [why |-> why, addr |-> r.addr, prot |-> prot]
  /\ seen' = NoRegion /\ UNCHANGED found

\* read(Region&) makes the region readable if it has to
ReadOf(r) ==
  IF "r" \in r.prot
  THEN pc' = "read" /\ region' = r /\ UNCHANGED <<setting, seen, found>>
  ELSE Call("unprotect", r, r.prot \cup {"r"})

Skip == UNCHANGED <<pc, region, setting, seen, found>>

\* mutant: a target at the start of the region counts as before it
FirstAfter(r) ==
  {i \in it..(Len(targets) + 1) :
     /\ \A j \in it..(i - 1) : targets[j] <= r.addr
     /\ i <= Len(targets) => targets[i] > r.addr}

\* where the first target stands that is not before the region, or the end of the list
FirstFrom(r) ==
  {i \in it..(Len(targets) + 1) :
     /\ \A j \in it..(i - 1) : targets[j] < r.addr
     /\ i <= Len(targets) => targets[i] >= r.addr}

(***************************************************************************)
(* The iterator is compared after it may have reached the end of the list:  *)
(* what lies there is read as an address, and may say anything.             *)
(***************************************************************************)
NextTargetRegion(r) ==
  /\ it' \in FirstFrom(r)
  /\ IF it' > Len(targets) THEN ReadOf(r) \/ Skip
     ELSE IF targets[it'] < EndAddr(r) THEN ReadOf(r) ELSE Skip

WalkOver == RegionsFrom(cursor) = {} \/ (job = "targets" /\ it > Len(targets))

NextRegion ==
  /\ pc = "next" /\ ~WalkOver
  /\ \E r \in RegionsFrom(cursor) :
       /\ cursor' = CursorAfter(r)
       /\ \/ job = "list" /\ Store(r) /\ UNCHANGED it
          \/ job = "all" /\ ReadOf(r) /\ UNCHANGED it
          \/ job = "targets" /\ NextTargetRegion(r)
  /\ UNCHANGED <<page, paused, job, targets, before>>

Finish ==
  /\ pc = "next" /\ WalkOver
  /\ Idle
  /\ UNCHANGED page

----------------------------------------------------------------------------
(* set_protection and read(Region&).  An exception leaves read, and the     *)
(* region goes into the result without data, or with the data it has.      *)

walk == <<paused, job, cursor, targets, it, before>>

Throw ==
  \/ setting.why = "access" /\ Idle
  \/ setting.why # "access" /\ Store(region) /\ UNCHANGED walk

LookUp ==
  /\ pc = "lookup"
  /\ \/ \E r \in RegionsFrom(setting.addr) :
          /\ seen' = r /\ pc' = "protect"
          /\ UNCHANGED <<walk, region, setting, found>>
     \/ RegionsFrom(setting.addr) = {} /\ Throw
  /\ UNCHANGED page

\* mutant: a protection that is refused is tried again
ProtectFailsRetries == pc = "protect" /\ ~MayProtect(seen, setting.prot) /\ UNCHANGED vars

ProtectFails == pc = "protect" /\ ~MayProtect(seen, setting.prot) /\ Throw /\ UNCHANGED page

\* set_protection changes all of the region it has found, whatever the size given
Protect ==
  /\ pc = "protect" /\ MayProtect(seen, setting.prot)
  /\ page' = Protected(seen, setting.prot)
  /\ \/ setting.why = "access" /\ Idle
     \/ /\ setting.why = "unprotect" /\ pc' = "read"
        /\ setting' = NoSetting /\ seen' = NoRegion
        /\ UNCHANGED <<walk, region, found>>
     \/ setting.why = "restore" /\ Store(region) /\ UNCHANGED walk

\* mutant: a region that had to be made readable stays so
ReadNoRestore ==
  /\ pc = "read"
  /\ Store([region EXCEPT !.read = CanRead(region)])
  /\ UNCHANGED <<page, walk>>

\* the exception of a read that fails skips the restoring of the protection
Read ==
  /\ pc = "read"
  /\ IF CanRead(region) /\ "r" \notin region.prot
     THEN Call("restore", [region EXCEPT !.read = TRUE], region.prot)
     ELSE Store([region EXCEPT !.read = CanRead(region)])
  /\ UNCHANGED <<page, walk>>

----------------------------------------------------------------------------

TargetRuns ==
  /\ ~paused
  /\ \E p \in Space : \E m \in Choices[p] : m # page[p] /\ page' = [page EXCEPT ![p] = m]
  /\ UNCHANGED <<walk, pc, region, setting, seen, found>>

Working == NextRegion \/ Finish \/ LookUp \/ ProtectFails \/ Protect \/ Read

Next ==
  \/ \E pausing \in BOOLEAN :
       \/ \E kind \in {"list", "all"} : StartWalk(kind, <<>>, pausing)
       \/ \E t \in Targets : StartWalk("targets", t, pausing)
  \/ \E addr \in Space, prot \in Rights : StartAccess(addr, prot)
  \/ Working \/ TargetRuns

\* the thread of memwatch keeps running; nothing is asked of the target
Spec == Init /\ [][Next]_vars /\ WF_vars(Working)
----------------------------------------------------------------------------
(* Properties. *)

RegionsHave(r) == r \in [addr: Space, size: 1..N, prot: Protections, read: BOOLEAN]

\* Every variable has its type; a region of the result lies inside the address space
\* (get_region).
TypeOK ==
  /\ page \in [Space -> Mappings \cup {Gone}]
  /\ before \in [Space -> Mappings \cup {Gone}]
  /\ paused \in BOOLEAN
  /\ job \in {"none", "list", "all", "targets", "access"}
  /\ pc \in {"idle", "next", "lookup", "protect", "read"}
  /\ cursor \in 0..N
  /\ targets \in Seq(Space) /\ it \in 1..(Len(targets) + 1)
  /\ RegionsHave(region) \/ region = NoRegion
  /\ RegionsHave(seen) \/ seen = NoRegion
  /\ setting \in [why: {"none", "unprotect", "restore", "access"}, addr: Space, prot: Protections]
  /\ \A i \in DOMAIN found : RegionsHave(found[i]) /\ EndAddr(found[i]) <= N

\* The end of each region lies beyond the end of the one before, whatever the target maps
\* and unmaps during the walk (get_all_regions: "addr = ret.back().end_addr()").
EndsAscend ==
  \A i, j \in DOMAIN found : i < j => EndAddr(found[i]) < EndAddr(found[j])

\* pages that memwatch can get at: their protection may be given "r", and reads succeed
Open(m, r) ==
  \A p \in Extent(r) :
    /\ m[p].obj \notin Dark
    /\ "r" \in m[p].prot \/ m[p].obj \notin Guarded

\* no two pages of one object have different protections
Uniform(m) ==
  \A p, q \in Space :
    m[p] # Gone /\ m[q] # Gone /\ m[p].obj = m[q].obj => m[p].prot = m[q].prot

HasTarget(r) == \E i \in DOMAIN targets : targets[i] \in Extent(r)

\* The walk of a paused target whose objects are protected uniformly returns its regions as
\* they are: for list, dump and a first search all of them, for a later search those with a
\* result in them and perhaps the next one, each once, in order, and with its data exactly
\* when it can be had (get_all_regions, get_target_regions).
PausedWalkExact ==
  [][Finish /\ paused /\ Uniform(before) =>
       /\ \A i \in DOMAIN found :
            LET r == found[i] IN
            /\ IsRegion(before, r.addr, EndAddr(r)) /\ r.prot = before[r.addr].prot
            /\ r.read = (job # "list" /\ Open(before, r))
            /\ job = "targets" /\ ~HasTarget(r) =>
                 i = Len(found) /\ \A k \in DOMAIN targets : targets[k] < r.addr
       /\ \A i, j \in DOMAIN found : i < j => EndAddr(found[i]) <= found[j].addr
       /\ \A p \in Space :
            before[p] # Gone /\ (job = "targets" => p \in {targets[k] : k \in DOMAIN targets}) =>
              \E i \in DOMAIN found : p \in Extent(found[i])]_vars

\* Reading the memory of such a target takes no right from a page, and gives one only to a
\* region whose read then failed (read(Region&)).
ReadingTakesNothing ==
  [][Finish /\ paused /\ Uniform(before) =>
       \A p \in Space :
         \/ page[p] = before[p]
         \/ /\ page[p] = [before[p] EXCEPT !.prot = @ \cup {"r"}]
            /\ \E i \in DOMAIN found : p \in Extent(found[i]) /\ ~found[i].read]_vars

\* Every command returns, however the target changes its memory under it: the walk only
\* moves up (get_all_regions, get_target_regions).
WalkEnds == (pc # "idle") ~> (pc = "idle")

\* A command that reads leaves every protection as it was (read(Region&): "if we made the
\* region readable, restore its previous protection").
ProtectionRestored ==
  [][Finish /\ paused => page = before]_vars
=============================================================================
