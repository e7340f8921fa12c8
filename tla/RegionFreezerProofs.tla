------------------------ MODULE RegionFreezerProofs ------------------------
(***************************************************************************)
(* For every set of processes, addresses, names, tokens, requests and every *)
(* bound on the number of freezes: the variables of RegionFreezer keep      *)
(* their types, the three maps stay consistent and implement the table of   *)
(* FrozenRegions, the writer only writes regions that are frozen and        *)
(* enabled, and no live entry unless the target or attach interferes.       *)
(***************************************************************************)
EXTENDS RegionFreezer, TLAPS

(***************************************************************************)
(* A region object as the table holds it.                                  *)
(***************************************************************************)
Object(r) ==
  /\ r \in RegionType
  /\ WellFormed(r.req)

\* the parts of TypeOK about the table, and about everything else
TableTypeOK ==
  /\ DOMAIN rgn \subseteq Ids
  /\ rgn = [i \in DOMAIN rgn |-> rgn[i]]
  /\ \A i \in DOMAIN rgn : Object(rgn[i])
  /\ next_index \in 0..MaxRegions

ThreadTypeOK ==
  /\ pc \in {"check", "lock", "scan", "poke", "sleep", "done"}
  /\ slot \in Nat
  /\ should_exit \in BOOLEAN
  /\ shell \in {"running", "copying", "joining", "exited"}
  /\ shell = "copying" => Pending(copy)
  /\ task \in Procs \cup {NoTask}

MemoryTypeOK ==
  /\ mem \in [Procs -> [Addrs -> Byte]]
  /\ mapped \in [Procs -> SUBSET Addrs]

\* The request that freeze +s builds from the bytes it has read is well formed.
LEMMA InPlaceWellFormed ==
  ASSUME NEW c \in CopyRequests, NEW d \in [1..c[2] -> Byte]
  PROVE  InPlace(c, d) \in RequestType /\ WellFormed(InPlace(c, d))
<1>1. c[1] \in Nat \ {0} /\ c[2] \in Nat \ {0} /\ c[3] \in Nat
  BY ConstantsAssumption
<1>2. d \in Seq(Byte) /\ Len(d) = c[2]
  BY <1>1
<1>3. [k \in 1..c[2] |-> 255] \in Seq(Nat) /\ Len([k \in 1..c[2] |-> 255]) = c[2]
  BY <1>1
<1>4. <<>> \in Seq(Byte) /\ <<>> \in Seq(Nat)
  OBVIOUS
<1>5. InPlace(c, d) \in RequestType
  BY <1>1, <1>2, <1>3, <1>4 DEF InPlace, RequestType
<1>6. WellFormed(InPlace(c, d))
  BY <1>1, <1>2, <1>3 DEF InPlace, WellFormed
<1> QED BY <1>5, <1>6

\* A write through the adapter leaves a memory of the same shape.
LEMMA PutType ==
  ASSUME MemoryTypeOK, task \in Procs, NEW a \in Nat, NEW d \in Seq(Byte), Put(a, d)
  PROVE  mem' \in [Procs -> [Addrs -> Byte]]
<1>1. Overlay(mem[task], a, d) \in [Addrs -> Byte]
  <2> SUFFICES ASSUME NEW b \in Addrs
               PROVE  (IF b \in Extent(a, Len(d)) THEN d[b - a + 1] ELSE mem[task][b]) \in Byte
    BY DEF Overlay, MemoryTypeOK
  <2>1. CASE b \in Extent(a, Len(d))
    <3>1. b \in Nat /\ b - a + 1 \in 1..Len(d)
      BY <2>1, ConstantsAssumption DEF Extent
    <3> QED BY <2>1, <3>1
  <2>2. CASE b \notin Extent(a, Len(d))
    BY <2>2 DEF MemoryTypeOK
  <2> QED BY <2>1, <2>2
<1> QED BY <1>1 DEF Put, MemoryTypeOK

TableInv == TableTypeOK /\ TablesConsistent

----------------------------------------------------------------------------
(* The operations on the table, each of which a command or the writer uses. *)

\* A new index makes the new object reachable through all three maps.
LEMMA AddRegionTable ==
  ASSUME TableInv, NEW n \in Names, NEW q \in RequestType, WellFormed(q),
         NEW on \in BOOLEAN, AddRegion(n, q, on)
  PROVE  TableInv'
<1>1. next_index \in Ids /\ next_index' \in 0..MaxRegions
  BY ConstantsAssumption DEF AddRegion, Ids, TableInv, TableTypeOK
<1>2. DOMAIN rgn' = DOMAIN rgn \cup {next_index}
  BY DEF AddRegion
<1>3. ASSUME NEW i \in DOMAIN rgn' PROVE Object(rgn'[i])
  <2>1. CASE i = next_index
    BY <2>1, <1>2 DEF AddRegion, Object, RegionType, Errors
  <2>2. CASE i # next_index
    BY <2>2, <1>2 DEF AddRegion, TableInv, TableTypeOK
  <2> QED BY <2>1, <2>2
<1>4. TableTypeOK'
  BY <1>1, <1>2, <1>3 DEF TableInv, TableTypeOK, AddRegion, Ids
<1>5. TablesConsistent'
  <2>1. \A i \in by_addr : i \in Nat /\ i < next_index
    BY ConstantsAssumption DEF TableInv, TableTypeOK, TablesConsistent, Ids
  <2> QED BY <1>1, <1>2, <2>1 DEF TableInv, TablesConsistent, AddRegion, Ids
<1> QED BY <1>4, <1>5 DEF TableInv

\* Erasing the same regions from all three maps keeps them in step.
LEMMA DropTable ==
  ASSUME TableInv, NEW S, Drop(S)
  PROVE  TableInv'
<1>1. DOMAIN rgn' = DOMAIN rgn \ S /\ \A i \in DOMAIN rgn' : rgn'[i] = rgn[i]
  BY DEF Drop, Keep
<1>2. TableTypeOK'
  BY <1>1 DEF TableInv, TableTypeOK, Drop, Keep, Ids
<1>3. TablesConsistent'
  BY <1>1 DEF TableInv, TablesConsistent, Drop
<1> QED BY <1>2, <1>3 DEF TableInv

\* unfreeze_all leaves regions_by_addr behind, and the other two agree still.
LEMMA ClearTable ==
  ASSUME TableInv, UnfreezeAll
  PROVE  TableInv'
<1>1. DOMAIN rgn' = by_addr /\ \A i \in DOMAIN rgn' : rgn'[i] = rgn[i]
  BY DEF UnfreezeAll, Keep
<1>2. TableTypeOK'
  BY <1>1 DEF TableInv, TableTypeOK, TablesConsistent, UnfreezeAll, Keep, Ids
<1>3. TablesConsistent'
  BY <1>1 DEF TableInv, TablesConsistent, UnfreezeAll
<1> QED BY <1>2, <1>3 DEF TableInv

\* Enabling and disabling touches one field of some objects.
LEMMA SwitchTable ==
  ASSUME TableInv, NEW S, NEW b \in BOOLEAN, Switch(S, b)
  PROVE  TableInv'
<1>1. DOMAIN rgn' = DOMAIN rgn
  BY DEF Switch
<1>2. ASSUME NEW i \in DOMAIN rgn' PROVE Object(rgn'[i])
  <2>1. Object(rgn[i])
    BY <1>1, <1>2 DEF TableInv, TableTypeOK
  <2>2. rgn'[i] = IF i \in S THEN [rgn[i] EXCEPT !.enable = b] ELSE rgn[i]
    BY <1>1, <1>2 DEF Switch
  <2> QED BY <2>1, <2>2 DEF Object, RegionType
<1>3. TableTypeOK'
  BY <1>1, <1>2 DEF TableInv, TableTypeOK, Switch, Ids
<1>4. TablesConsistent'
  BY <1>1 DEF TableInv, TablesConsistent, Switch
<1> QED BY <1>3, <1>4 DEF TableInv

\* So does recording the outcome of a write.
LEMMA SetErrorTable ==
  ASSUME TableInv, NEW i \in DOMAIN rgn, NEW e \in Errors, SetError(i, e),
         UNCHANGED <<by_name, by_addr, by_index, next_index>>
  PROVE  TableInv'
<1>1. DOMAIN rgn' = DOMAIN rgn
  BY DEF SetError
<1>2. ASSUME NEW j \in DOMAIN rgn' PROVE Object(rgn'[j])
  <2>1. Object(rgn[j])
    BY <1>1, <1>2 DEF TableInv, TableTypeOK
  <2>2. rgn'[j] = IF j = i THEN [rgn[j] EXCEPT !.error = e] ELSE rgn[j]
    BY <1>1, <1>2 DEF SetError
  <2> QED BY <2>1, <2>2 DEF Object, RegionType
<1>3. rgn' = [j \in DOMAIN rgn' |-> rgn'[j]]
  BY DEF SetError, TableInv, TableTypeOK
<1>4. TableTypeOK'
  BY <1>1, <1>2, <1>3 DEF TableInv, TableTypeOK, Ids
<1>5. TablesConsistent'
  BY <1>1 DEF TableInv, TablesConsistent
<1> QED BY <1>4, <1>5 DEF TableInv

\* What a frozen region asks for, used by every step of the writer.
LEMMA FrozenRequest ==
  ASSUME TableInv, NEW i \in DOMAIN rgn
  PROVE  /\ rgn[i].req \in RequestType /\ WellFormed(rgn[i].req)
         /\ rgn[i].req.addr \in Nat /\ rgn[i].req.items \in Nat
         /\ rgn[i].req.data \in Seq(Byte) /\ Len(rgn[i].req.data) \in Nat \ {0}
<1>1. rgn[i].req \in RequestType /\ WellFormed(rgn[i].req)
  BY DEF TableInv, TableTypeOK, Object, RegionType
<1>2. rgn[i].req.data \in Seq(Byte) /\ Len(rgn[i].req.data) > 0
  BY <1>1 DEF RequestType, WellFormed
<1> QED BY <1>1, <1>2 DEF RequestType
----------------------------------------------------------------------------
(* The inductive invariant.  WritesAreFrozen needs TablesConsistent (the    *)
(* enabled regions the writer lists are live objects) and the types (the    *)
(* entries of an array); neither needs it.                                  *)

IInv == TableInv /\ ThreadTypeOK /\ MemoryTypeOK /\ WritesAreFrozen

\* The invariant holds when the freezer is constructed.
LEMMA InitIInv == Init => IInv
<1> SUFFICES ASSUME Init PROVE IInv
  OBVIOUS
<1>1. TableInv
  BY ConstantsAssumption DEF Init, TableInv, TableTypeOK, TablesConsistent, Ids
<1>2. ThreadTypeOK
  BY DEF Init, ThreadTypeOK
<1>3. MemoryTypeOK
  BY ConstantsAssumption DEF Init, MemoryTypeOK
<1>4. WritesAreFrozen
  BY DEF Init, WritesAreFrozen, Held
<1> QED BY <1>1, <1>2, <1>3, <1>4 DEF IInv

\* A command leaves the writer alone, which is at rest because the lock is free.
LEMMA CommandFrame ==
  ASSUME IInv, Command
  PROVE  ThreadTypeOK' /\ MemoryTypeOK' /\ WritesAreFrozen'
<1>1. UNCHANGED <<pc, slot, todo, should_exit, shell, copy, task, mem, mapped>>
  BY DEF Command, writer, target
<1>2. ~Held' /\ todo' = {} /\ pc' # "poke"
  BY <1>1 DEF IInv, WritesAreFrozen, Command, Held
<1>3. WritesAreFrozen'
  BY <1>2 DEF WritesAreFrozen
<1> QED BY <1>1, <1>3 DEF IInv, ThreadTypeOK, MemoryTypeOK

\* So does everything outside the table and the writer.
LEMMA OutsideFrame ==
  ASSUME IInv, UNCHANGED <<tables, writer>>, MemoryTypeOK',
         ThreadTypeOK'
  PROVE  IInv'
<1>1. UNCHANGED <<rgn, by_name, by_addr, by_index, next_index, pc, todo, slot>>
  BY DEF tables, writer
<1>2. TableInv'
  BY <1>1 DEF IInv, TableInv, TableTypeOK, TablesConsistent, Object
<1>3. WritesAreFrozen'
  BY <1>1 DEF IInv, WritesAreFrozen, Held, Current, Slots
<1> QED BY <1>2, <1>3 DEF IInv

\* Every command of the shell that edits the table preserves the invariant.
LEMMA CommandsIInv ==
  ASSUME IInv,
         \/ \E n \in Names, q \in Requests, on \in BOOLEAN : Freeze(n, q, on)
         \/ \E t \in Tokens : UnfreezeByName(t) \/ UnfreezeByAddr(t) \/ UnfreezeByIndex(t)
         \/ UnfreezeAll
         \/ \E t \in Tokens, b \in BOOLEAN :
              EnableByName(t, b) \/ EnableByAddr(t, b) \/ EnableByIndex(t, b)
         \/ \E b \in BOOLEAN : EnableAll(b)
  PROVE  IInv'
<1>1. Command
  BY DEF Freeze, UnfreezeByName, UnfreezeByAddr, UnfreezeByIndex,
         UnfreezeAll, EnableByName, EnableByAddr, EnableByIndex, EnableAll
<1>2. TableInv
  BY DEF IInv
<1>3. TableInv'
  <2>1. ASSUME NEW n \in Names, NEW q \in Requests, NEW on \in BOOLEAN, Freeze(n, q, on)
        PROVE  TableInv'
    <3>1. q \in RequestType /\ WellFormed(q)
      BY ConstantsAssumption
    <3>2. AddRegion(n, q, on)
      BY <2>1 DEF Freeze
    <3> QED BY <1>2, <3>1, <3>2, AddRegionTable
  <2>2. ASSUME NEW t \in Tokens, UnfreezeByName(t) \/ UnfreezeByAddr(t) \/ UnfreezeByIndex(t)
        PROVE  TableInv'
    BY <1>2, <2>2, DropTable DEF UnfreezeByName, UnfreezeByAddr, UnfreezeByIndex
  <2>3. ASSUME UnfreezeAll PROVE TableInv'
    BY <1>2, <2>3, ClearTable
  <2>4. ASSUME NEW t \in Tokens, NEW b \in BOOLEAN,
               EnableByName(t, b) \/ EnableByAddr(t, b) \/ EnableByIndex(t, b)
        PROVE  TableInv'
    BY <1>2, <2>4, SwitchTable DEF EnableByName, EnableByAddr, EnableByIndex
  <2>5. ASSUME NEW b \in BOOLEAN, EnableAll(b) PROVE TableInv'
    BY <1>2, <2>5, SwitchTable DEF EnableAll
  <2> QED BY <2>1, <2>2, <2>3, <2>4, <2>5
<1> QED BY <1>1, <1>3, CommandFrame DEF IInv

\* freeze +s: the bytes read are bytes of the target, so the request is well formed;
\* it is added later, when the writer is at rest.
LEMMA CopyIInv ==
  ASSUME IInv,
         \/ \E n \in Names, c \in CopyRequests, on \in BOOLEAN : CopyInPlace(n, c, on)
         \/ FreezeInPlace
  PROVE  IInv'
<1>1. ASSUME NEW n \in Names, NEW c \in CopyRequests, NEW on \in BOOLEAN,
             CopyInPlace(n, c, on)
      PROVE  IInv'
  <2> DEFINE d == [k \in 1..c[2] |-> mem[task][c[1] + k - 1]]
  <2>1. c[1] \in Nat /\ c[2] \in Nat
    BY ConstantsAssumption
  <2>2. task \in Procs /\ Extent(c[1], c[2]) \subseteq Addrs
    BY <1>1 DEF CopyInPlace, Accessible, IInv, ThreadTypeOK, MemoryTypeOK
  <2>3. ASSUME NEW k \in 1..c[2] PROVE mem[task][c[1] + k - 1] \in Byte
    <3>1. c[1] + k - 1 \in Extent(c[1], c[2])
      BY <2>1 DEF Extent
    <3> QED BY <3>1, <2>2 DEF IInv, MemoryTypeOK
  <2>4. InPlace(c, d) \in RequestType /\ WellFormed(InPlace(c, d))
    <3>1. d \in [1..c[2] -> Byte]
      BY <2>3
    <3> QED BY <3>1, InPlaceWellFormed
  <2>5. /\ shell' = "copying"
        /\ copy' = [name |-> n, on |-> on, req |-> InPlace(c, d)]
        /\ UNCHANGED <<tables, writer, should_exit, task, target>>
    BY <1>1 DEF CopyInPlace
  <2>6. ThreadTypeOK'
    <3>1. Pending(copy')
      BY <2>4, <2>5 DEF Pending
    <3> QED BY <3>1, <2>5 DEF IInv, ThreadTypeOK, writer
  <2>7. MemoryTypeOK'
    BY <2>5 DEF IInv, MemoryTypeOK, target
  <2> QED BY <2>5, <2>6, <2>7, OutsideFrame
<1>2. ASSUME FreezeInPlace PROVE IInv'
  <2>1. /\ ~Held /\ shell = "copying" /\ shell' = "running"
        /\ AddRegion(copy.name, copy.req, copy.on)
        /\ UNCHANGED <<pc, todo, slot, should_exit, task, mem, mapped>>
    BY <1>2 DEF FreezeInPlace, writer, target
  <2>2. TableInv'
    BY <2>1, AddRegionTable DEF IInv, ThreadTypeOK, Pending
  <2>3. ThreadTypeOK' /\ MemoryTypeOK'
    BY <2>1 DEF IInv, ThreadTypeOK, MemoryTypeOK
  <2>4. WritesAreFrozen'
    BY <2>1 DEF IInv, WritesAreFrozen, Held
  <2> QED BY <2>2, <2>3, <2>4 DEF IInv
<1> QED BY <1>1, <1>2

\* The writer's steps that only move its program counter.
LEMMA ControlIInv ==
  ASSUME IInv, CheckExit \/ Acquire \/ EndPass \/ Wake
  PROVE  IInv'
<1>1. UNCHANGED <<tables, slot, should_exit, shell, copy, task, target>>
  BY DEF CheckExit, Acquire, EndPass, Wake
<1>2. TableInv'
  BY <1>1 DEF IInv, TableInv, TableTypeOK, TablesConsistent, Object, tables
<1>3. ThreadTypeOK'
  BY <1>1 DEF IInv, ThreadTypeOK, CheckExit, Acquire, EndPass, Wake
<1>4. MemoryTypeOK'
  BY <1>1 DEF IInv, MemoryTypeOK, target
<1>5. WritesAreFrozen'
  <2>1. CASE Acquire
    <3>1. pc' = "scan" /\ todo' = {i \in by_index : rgn[i].enable}
      BY <2>1 DEF Acquire
    <3> QED BY <1>1, <3>1 DEF WritesAreFrozen, Held, tables
  <2>2. CASE EndPass
    BY <2>2 DEF EndPass, WritesAreFrozen, Held
  <2>3. CASE CheckExit \/ Wake
    BY <2>3 DEF CheckExit, Wake, IInv, WritesAreFrozen, Held
  <2> QED BY <2>1, <2>2, <2>3
<1> QED BY <1>2, <1>3, <1>4, <1>5 DEF IInv

\* A region the writer takes from its list is alive and stays in the table.
LEMMA WriterRegion ==
  ASSUME IInv, Held, NEW i \in todo
  PROVE  i \in DOMAIN rgn /\ i \in by_index /\ rgn[i].enable
BY DEF IInv, WritesAreFrozen, TableInv, TablesConsistent

\* Finishing with a region takes it off the list and touches no other object's
\* enable flag.
LEMMA FinishIInv ==
  ASSUME IInv, Held, NEW i \in todo, NEW e \in Errors,
         SetError(i, e) \/ UNCHANGED rgn,
         todo' = todo \ {i}, pc' = "scan", slot' \in Nat, MemoryTypeOK',
         UNCHANGED <<by_name, by_addr, by_index, next_index, should_exit, shell, copy, task>>
  PROVE  IInv'
<1>1. i \in DOMAIN rgn
  BY WriterRegion
<1>2. TableInv'
  <2>1. CASE SetError(i, e)
    BY <1>1, <2>1, SetErrorTable DEF IInv
  <2>2. CASE UNCHANGED rgn
    BY <2>2 DEF IInv, TableInv, TableTypeOK, TablesConsistent, Object
  <2> QED BY <2>1, <2>2
<1>3. ThreadTypeOK'
  BY DEF IInv, ThreadTypeOK
<1>4. WritesAreFrozen'
  <2>1. ASSUME NEW j \in todo' PROVE j \in by_index' /\ rgn'[j].enable
    <3>1. j \in todo /\ j # i
      BY <2>1
    <3>2. j \in DOMAIN rgn /\ j \in by_index /\ rgn[j].enable
      BY <3>1, WriterRegion
    <3>3. rgn'[j] = rgn[j]
      BY <3>1, <3>2 DEF SetError
    <3> QED BY <3>2, <3>3
  <2> QED BY <2>1 DEF WritesAreFrozen, Held
<1> QED BY <1>2, <1>3, <1>4 DEF IInv

\* Every step of the writer thread preserves the invariant.
LEMMA WriterIInv ==
  ASSUME IInv, Writer
  PROVE  IInv'
<1>1. ASSUME CheckExit \/ Acquire \/ EndPass \/ Wake PROVE IInv'
  BY <1>1, ControlIInv
<1>2. ASSUME NEW i \in todo, WritePlain(i) PROVE IInv'
  <2> DEFINE q == rgn[i].req
  <2>1. Held /\ pc' = "scan" /\ slot' = slot /\ slot \in Nat
    BY <1>2 DEF WritePlain, Held, IInv, ThreadTypeOK
  <2>2. i \in DOMAIN rgn
    BY <2>1, WriterRegion
  <2>3. q.addr \in Nat /\ q.data \in Seq(Byte)
    BY <2>2, FrozenRequest DEF IInv
  <2>4. mapped' = mapped
    BY <1>2 DEF WritePlain
  <2>5. CASE Accessible(q.addr, Len(q.data))
    <3>1. task \in Procs /\ Put(q.addr, q.data) /\ SetError(i, "none")
      BY <1>2, <2>5 DEF WritePlain, Accessible, IInv, ThreadTypeOK
    <3>2. MemoryTypeOK'
      BY <2>3, <2>4, <3>1, PutType DEF IInv, MemoryTypeOK
    <3> QED BY <1>2, <2>1, <3>1, <3>2, FinishIInv DEF WritePlain, Errors
  <2>6. CASE ~Accessible(q.addr, Len(q.data))
    <3>1. UNCHANGED mem /\ SetError(i, "failed")
      BY <1>2, <2>6 DEF WritePlain
    <3>2. MemoryTypeOK'
      BY <2>4, <3>1 DEF IInv, MemoryTypeOK
    <3> QED BY <1>2, <2>1, <3>1, <3>2, FinishIInv DEF WritePlain, Errors
  <2> QED BY <2>5, <2>6
<1>3. ASSUME NEW i \in todo, ReadArray(i) PROVE IInv'
  <2> DEFINE q == rgn[i].req
  <2>1. /\ Held /\ pc = "scan" /\ Current(i) /\ slot \in Nat
        /\ UNCHANGED <<by_name, by_addr, by_index, next_index, should_exit, shell,
                       copy, task, mem, mapped>>
    BY <1>3 DEF ReadArray, Held, IInv, ThreadTypeOK, target
  <2>2. MemoryTypeOK'
    BY <2>1 DEF IInv, MemoryTypeOK
  <2>3. i \in DOMAIN rgn
    BY <2>1, WriterRegion
  <2>4. q.items \in Nat
    BY <2>3, FrozenRequest DEF IInv
  <2>5. \/ \E e \in Errors : SetError(i, e) /\ todo' = todo \ {i} /\ UNCHANGED <<pc, slot>>
        \/ \E x \in Slots(q) : pc' = "poke" /\ slot' = x /\ UNCHANGED <<rgn, todo>>
    BY <1>3 DEF ReadArray, Errors
  <2>6. ASSUME NEW e \in Errors,
               SetError(i, e), todo' = todo \ {i}, UNCHANGED <<pc, slot>>
        PROVE  IInv'
    <3>1. pc' = "scan" /\ slot' \in Nat
      BY <2>1, <2>6
    <3> QED BY <2>1, <2>2, <2>6, <3>1, FinishIInv
  <2>7. ASSUME NEW x \in Slots(q), pc' = "poke", slot' = x, UNCHANGED <<rgn, todo>>
        PROVE  IInv'
    <3>1. slot' \in Nat
      BY <2>4, <2>7 DEF Slots
    <3>2. TableInv'
      BY <2>1, <2>7 DEF IInv, TableInv, TableTypeOK, TablesConsistent, Object
    <3>3. ThreadTypeOK'
      BY <2>1, <2>7, <3>1 DEF IInv, ThreadTypeOK
    <3>4. WritesAreFrozen'
      BY <2>1, <2>7 DEF IInv, WritesAreFrozen, Held, Current, Slots
    <3> QED BY <2>2, <3>2, <3>3, <3>4 DEF IInv
  <2> QED BY <2>5, <2>6, <2>7
<1>4. ASSUME NEW i \in todo, Poke(i) PROVE IInv'
  <2> DEFINE q == rgn[i].req
             a == SlotAddr(q, slot)
  <2>1. Held /\ pc' = "scan" /\ slot' = 0
    BY <1>4 DEF Poke, Held
  <2>2. i \in DOMAIN rgn
    BY <2>1, WriterRegion
  <2>3. q.addr \in Nat /\ q.data \in Seq(Byte) /\ Len(q.data) \in Nat
    BY <2>2, FrozenRequest DEF IInv
  <2>4. slot * Len(q.data) \in Nat
    BY <2>3, SMT DEF IInv, ThreadTypeOK
  <2>5. a \in Nat
    BY <2>3, <2>4 DEF SlotAddr
  <2>6. mapped' = mapped
    BY <1>4 DEF Poke
  <2>7. CASE Accessible(a, Len(q.data))
    <3>1. task \in Procs /\ Put(a, q.data) /\ UNCHANGED rgn
      BY <1>4, <2>7 DEF Poke, Accessible, IInv, ThreadTypeOK
    <3>2. MemoryTypeOK'
      BY <2>3, <2>5, <2>6, <3>1, PutType DEF IInv, MemoryTypeOK
    <3>3. "none" \in Errors /\ 0 \in Nat
      BY DEF Errors
    <3> QED BY <1>4, <2>1, <3>1, <3>2, <3>3, FinishIInv DEF Poke
  <2>8. CASE ~Accessible(a, Len(q.data))
    <3>1. UNCHANGED mem /\ SetError(i, "failed")
      BY <1>4, <2>8 DEF Poke
    <3>2. MemoryTypeOK'
      BY <2>6, <3>1 DEF IInv, MemoryTypeOK
    <3> QED BY <1>4, <2>1, <3>1, <3>2, FinishIInv DEF Poke, Errors
  <2> QED BY <2>7, <2>8
<1> QED BY <1>1, <1>2, <1>3, <1>4 DEF Writer

\* Every step of the system preserves the invariant.
LEMMA NextIInv == IInv /\ [Next]_vars => IInv'
<1> SUFFICES ASSUME IInv, [Next]_vars PROVE IInv'
  OBVIOUS
<1> USE DEF MemoryTypeOK
<1>1. CASE Writer
  BY <1>1, WriterIInv
<1>2. ASSUME NEW p \in Procs \cup {NoTask}, Attach(p) PROVE IInv'
  <2>1. ThreadTypeOK' /\ MemoryTypeOK'
    BY <1>2 DEF Attach, target, writer, IInv, ThreadTypeOK
  <2> QED BY <1>2, <2>1, OutsideFrame DEF Attach
<1>3. ASSUME Quit PROVE IInv'
  <2>1. ThreadTypeOK' /\ MemoryTypeOK'
    BY <1>3 DEF Quit, target, writer, IInv, ThreadTypeOK
  <2> QED BY <1>3, <2>1, OutsideFrame DEF Quit
<1>4. ASSUME Join PROVE IInv'
  <2>1. ThreadTypeOK' /\ MemoryTypeOK'
    BY <1>4 DEF Join, target, writer, IInv, ThreadTypeOK
  <2> QED BY <1>4, <2>1, OutsideFrame DEF Join
<1>5. ASSUME Exited \/ UNCHANGED vars PROVE IInv'
  <2>1. UNCHANGED vars
    BY <1>5 DEF Exited
  <2>2. ThreadTypeOK' /\ MemoryTypeOK'
    BY <2>1 DEF vars, target, writer, IInv, ThreadTypeOK
  <2> QED BY <2>1, <2>2, OutsideFrame DEF vars
<1>6. ASSUME NEW p \in Procs, NEW a \in Addrs, NEW v \in TargetBytes, TargetStore(p, a, v)
      PROVE  IInv'
  <2>1. MemoryTypeOK'
    BY <1>6, ConstantsAssumption DEF TargetStore, IInv
  <2>2. ThreadTypeOK'
    BY <1>6 DEF TargetStore, writer, IInv, ThreadTypeOK
  <2> QED BY <1>6, <2>1, <2>2, OutsideFrame DEF TargetStore
<1>7. ASSUME NEW p \in Procs, NEW S \in Pages, TargetRemap(p, S) PROVE IInv'
  <2>1. S \subseteq Addrs /\ 0 \in Byte
    BY ConstantsAssumption
  <2>2. ThreadTypeOK'
    BY <1>7 DEF TargetRemap, writer, IInv, ThreadTypeOK
  <2>3. MemoryTypeOK'
    <3>1. CASE S \subseteq mapped[p]
      BY <1>7, <2>1, <3>1 DEF TargetRemap, IInv
    <3>2. CASE ~(S \subseteq mapped[p])
      <4>1. mapped' \in [Procs -> SUBSET Addrs]
        BY <1>7, <2>1, <3>2 DEF TargetRemap, IInv
      <4>2. mem' \in [Procs -> [Addrs -> Byte]]
        BY <1>7, <2>1, <3>2 DEF TargetRemap, IInv
      <4> QED BY <4>1, <4>2
    <3> QED BY <3>1, <3>2
  <2> QED BY <1>7, <2>2, <2>3, OutsideFrame DEF TargetRemap
<1> QED BY <1>1, <1>2, <1>3, <1>4, <1>5, <1>6, <1>7, CommandsIInv, CopyIInv DEF Next

\* The variables of the freezer keep their types.
THEOREM TypeCorrect == Spec => []TypeOK
<1>1. IInv => TypeOK
  BY DEF IInv, TableInv, TableTypeOK, Object, RegionType, ThreadTypeOK, MemoryTypeOK, TypeOK
<1> QED BY <1>1, InitIInv, NextIInv, PTL DEF Spec

\* A frozen region is in all three maps and no map holds a destroyed object, after
\* any sequence of commands.
THEOREM TablesStayConsistent == Spec => []TablesConsistent
<1>1. IInv => TablesConsistent
  BY DEF IInv, TableInv
<1> QED BY <1>1, InitIInv, NextIInv, PTL DEF Spec

\* Whatever the writer is about to write is a frozen, enabled region, and an entry
\* it has chosen lies in its array.
THEOREM WritesStayFrozen == Spec => []WritesAreFrozen
<1>1. IInv => WritesAreFrozen
  BY DEF IInv
<1> QED BY <1>1, InitIInv, NextIInv, PTL DEF Spec
----------------------------------------------------------------------------
(* What a write does to the target.                                        *)

\* A write through the adapter leaves the other processes alone, changes no byte
\* outside its extent, and puts the data there.
LEMMA PutWrites ==
  ASSUME MemoryTypeOK, task \in Procs, NEW a \in Nat, NEW d \in Seq(Byte),
         Accessible(a, Len(d)), Put(a, d)
  PROVE  /\ \A p \in Procs \ {task} : mem'[p] = mem[p]
         /\ {b \in Addrs : mem'[task][b] # mem[task][b]} \subseteq Extent(a, Len(d))
         /\ \A k \in DOMAIN d : mem'[task][a + k - 1] = d[k]
<1>1. \A p \in Procs \ {task} : mem'[p] = mem[p]
  BY DEF Put, MemoryTypeOK
<1>2. mem'[task] = Overlay(mem[task], a, d)
  BY DEF Put, MemoryTypeOK
<1>3. DOMAIN mem[task] = Addrs
  BY DEF MemoryTypeOK
<1>4. \A b \in Addrs :
        mem'[task][b] = IF b \in Extent(a, Len(d)) THEN d[b - a + 1] ELSE mem[task][b]
  BY <1>2, <1>3 DEF Overlay
<1>5. ASSUME NEW k \in DOMAIN d PROVE mem'[task][a + k - 1] = d[k]
  <2>1. k \in 1..Len(d)
    OBVIOUS
  <2>2. a + k - 1 \in Extent(a, Len(d)) /\ (a + k - 1) - a + 1 = k
    BY <2>1 DEF Extent
  <2>3. a + k - 1 \in Addrs
    BY <2>2 DEF Accessible, MemoryTypeOK
  <2> QED BY <1>4, <2>2, <2>3
<1> QED BY <1>1, <1>4, <1>5

\* The offset of an entry is a natural number.
LEMMA ProductNat == ASSUME NEW a \in Nat, NEW b \in Nat PROVE a * b \in Nat
  OBVIOUS

\* The writer's two stores go to a place of the region it is writing.
LEMMA PlaceWritten ==
  ASSUME IInv, Held, NEW i \in todo, NEW x \in Places(rgn[i].req),
         SlotAddr(rgn[i].req, x) \in Nat,
         Accessible(SlotAddr(rgn[i].req, x), Len(rgn[i].req.data)),
         Put(SlotAddr(rgn[i].req, x), rgn[i].req.data)
  PROVE  StrayFree
<1> DEFINE q == rgn[i].req
<1>1. i \in DOMAIN rgn /\ i \in by_index /\ rgn[i].enable
  BY WriterRegion
<1>2. q.data \in Seq(Byte)
  BY <1>1, FrozenRequest DEF IInv
<1>3. task \in Procs
  BY DEF Accessible, IInv, ThreadTypeOK
<1>4. MemoryTypeOK
  BY DEF IInv
<1> HIDE DEF q
<1>5. /\ \A p \in Procs \ {task} : mem'[p] = mem[p]
      /\ {b \in Addrs : mem'[task][b] # mem[task][b]}
            \subseteq Extent(SlotAddr(q, x), Len(q.data))
      /\ \A k \in DOMAIN q.data : mem'[task][SlotAddr(q, x) + k - 1] = q.data[k]
  BY <1>2, <1>3, <1>4, PutWrites DEF q
<1> QED BY <1>1, <1>5 DEF StrayFree, q

\* A plain region is written at its address.
LEMMA PlainStrayFree ==
  ASSUME IInv, NEW i \in todo, WritePlain(i)
  PROVE  StrayFree
<1> DEFINE q == rgn[i].req
<1>1. Held /\ q.items = 0
  BY DEF WritePlain, Held
<1>2. q.addr \in Nat /\ Len(q.data) \in Nat
  BY <1>1, WriterRegion, FrozenRequest DEF IInv
<1>3. SlotAddr(q, 0) = q.addr /\ 0 \in Places(q)
  BY <1>1, <1>2 DEF SlotAddr, Places
<1>4. CASE Accessible(q.addr, Len(q.data))
  <2>1. Put(q.addr, q.data)
    BY <1>4 DEF WritePlain
  <2> QED BY <1>1, <1>2, <1>3, <1>4, <2>1, PlaceWritten
<1>5. CASE ~Accessible(q.addr, Len(q.data))
  BY <1>5 DEF WritePlain, StrayFree
<1> QED BY <1>4, <1>5

\* An array region is written at the entry the writer has chosen.
LEMMA PokeStrayFree ==
  ASSUME IInv, NEW i \in todo, Poke(i)
  PROVE  StrayFree
<1> DEFINE q == rgn[i].req
<1>1. Held /\ pc = "poke" /\ Current(i)
  BY DEF Poke, Held
<1>2. /\ q.addr \in Nat /\ q.items \in Nat /\ Len(q.data) \in Nat
      /\ \A j \in todo : j \in Nat
  <2>1. \A j \in todo : j \in DOMAIN rgn
    BY <1>1, WriterRegion
  <2>2. \A j \in todo : j \in Nat
    BY <2>1, ConstantsAssumption DEF IInv, TableInv, TableTypeOK, Ids
  <2> QED BY <2>1, <2>2, FrozenRequest DEF IInv
<1>3. slot \in Slots(q)
  <2>1. PICK j \in todo : Current(j) /\ slot \in Slots(rgn[j].req)
    BY <1>1 DEF IInv, WritesAreFrozen
  <2>2. i = j
    BY <1>1, <1>2, <2>1 DEF Current
  <2> QED BY <2>1, <2>2
<1>4. slot \in Nat /\ slot \in Places(q)
  BY <1>2, <1>3 DEF Slots, Places
<1> HIDE DEF q
<1>5. slot * Len(q.data) \in Nat
  BY <1>2, <1>4, ProductNat
<1>6. SlotAddr(q, slot) \in Nat
  BY <1>2, <1>5 DEF SlotAddr
<1> USE DEF q
<1>7. CASE Accessible(SlotAddr(q, slot), Len(q.data))
  <2>1. Put(SlotAddr(q, slot), q.data)
    BY <1>7 DEF Poke
  <2> QED BY <1>1, <1>4, <1>6, <1>7, <2>1, PlaceWritten
<1>8. CASE ~Accessible(SlotAddr(q, slot), Len(q.data))
  BY <1>8 DEF Poke, StrayFree
<1> QED BY <1>7, <1>8

\* The writer changes the memory of the attached task only, and there only one
\* place of one frozen, enabled region, to that region's data.
THEOREM NothingElseWritten == Spec => NoStrayWrite
<1>1. IInv /\ [Next]_vars => [StrayFree]_vars
  <2> SUFFICES ASSUME IInv, Next PROVE StrayFree
    BY DEF vars, StrayFree
  <2>1. ASSUME NEW i \in todo, WritePlain(i) PROVE StrayFree
    BY <2>1, PlainStrayFree
  <2>2. ASSUME NEW i \in todo, Poke(i) PROVE StrayFree
    BY <2>2, PokeStrayFree
  <2>3. ASSUME NEW i \in todo, ReadArray(i) PROVE StrayFree
    BY <2>3 DEF ReadArray, target, StrayFree
  <2>4. CASE CheckExit \/ Acquire \/ EndPass \/ Wake
    BY <2>4 DEF CheckExit, Acquire, EndPass, Wake, target, StrayFree
  <2>5. CASE ~Writer
    <3>1. todo' = todo
      BY <2>5 DEF Next, Freeze, CopyInPlace, FreezeInPlace, UnfreezeByName, UnfreezeByAddr,
                  UnfreezeByIndex, UnfreezeAll, EnableByName, EnableByAddr, EnableByIndex,
                  EnableAll, Command, writer, Attach, Quit, Join, Exited, vars,
                  TargetStore, TargetRemap
    <3> QED BY <3>1 DEF StrayFree
  <2> QED BY <2>1, <2>2, <2>3, <2>4, <2>5 DEF Writer
<1> QED BY <1>1, InitIInv, NextIInv, PTL DEF Spec, NoStrayWrite

----------------------------------------------------------------------------
(***************************************************************************)
(* Between the read of an array pass and its write the target may fill the  *)
(* entry chosen, and attach may put another process in its place; then the  *)
(* write is over a live entry.  Nothing else can bring that about.          *)
(***************************************************************************)

\* neither the target nor attach gets in between the read and the write of a pass
Undisturbed == pc = "poke" /\ pc' = "poke" => mem' = mem /\ task' = task

\* the entry chosen is still the data or null
ChoiceHolds == pc = "poke" => \A i \in todo : Current(i) => Stops(rgn[i].req, slot)

\* While an entry is chosen, the table and the choice stay as they are.
LEMMA ChoiceKept ==
  ASSUME Next, pc = "poke", pc' = "poke"
  PROVE  UNCHANGED <<rgn, todo, slot>>
<1>1. Held
  BY DEF Held
<1>2. ~Writer
  BY DEF Writer, CheckExit, Acquire, EndPass, Wake, WritePlain, ReadArray, Poke
<1>3. ~Command
  BY <1>1 DEF Command
<1>4. /\ ~(\E n \in Names, q \in Requests, on \in BOOLEAN : Freeze(n, q, on))
      /\ ~(\E t \in Tokens : UnfreezeByName(t) \/ UnfreezeByAddr(t) \/ UnfreezeByIndex(t))
      /\ ~UnfreezeAll
      /\ ~(\E t \in Tokens, b \in BOOLEAN :
             EnableByName(t, b) \/ EnableByAddr(t, b) \/ EnableByIndex(t, b))
      /\ ~(\E b \in BOOLEAN : EnableAll(b))
  BY <1>3 DEF Freeze, UnfreezeByName, UnfreezeByAddr, UnfreezeByIndex, UnfreezeAll,
              EnableByName, EnableByAddr, EnableByIndex, EnableAll
<1>5. ~FreezeInPlace
  BY <1>1 DEF FreezeInPlace
<1> QED BY <1>2, <1>4, <1>5
        DEF Next, CopyInPlace, Attach, Quit, Join, Exited, TargetStore, TargetRemap,
            tables, writer, vars

LEMMA StepChoice ==
  ASSUME IInv, ChoiceHolds, [Next]_vars, [Undisturbed]_vars
  PROVE  ChoiceHolds'
<1>1. CASE UNCHANGED vars
  BY <1>1 DEF vars, tables, writer, target, ChoiceHolds, Current, Stops, IsNull, Entry
<1>2. ASSUME Next, pc = "poke", pc' = "poke" PROVE ChoiceHolds'
  <2>1. UNCHANGED <<rgn, todo, slot>>
    BY <1>2, ChoiceKept
  <2>2. mem' = mem /\ task' = task
    BY <1>2 DEF Undisturbed, vars, tables, writer, target
  <2> QED BY <1>2, <2>1, <2>2 DEF ChoiceHolds, Current, Stops, IsNull, Entry
<1>3. ASSUME NEW i \in todo, ReadArray(i), pc' = "poke" PROVE ChoiceHolds'
  <2> DEFINE q == rgn[i].req
  <2>1. pc = "scan" /\ Current(i) /\ UNCHANGED <<task, mem>>
    BY <1>3 DEF ReadArray, target
  <2>2. PICK x \in Slots(q) : UNCHANGED <<rgn, todo>> /\ slot' = x /\ Stops(q, x)
    BY <1>3, <2>1 DEF ReadArray, FirstUsable, Usable
  <2>3. \A j \in todo : j \in Nat
    <3>1. \A j \in todo : j \in DOMAIN rgn
      BY <2>1, WriterRegion DEF Held
    <3> QED BY <3>1, ConstantsAssumption DEF IInv, TableInv, TableTypeOK, Ids
  <2>4. \A j \in todo : Current(j) => j = i
    BY <2>1, <2>3 DEF Current
  <2>5. Stops(rgn[i].req, slot)'
    BY <2>1, <2>2 DEF Stops, IsNull, Entry
  <2>6. ASSUME NEW j \in todo', Current(j)' PROVE j = i
    BY <2>2, <2>4, <2>6 DEF Current
  <2> QED BY <2>5, <2>6 DEF ChoiceHolds
<1>4. ASSUME Next, pc # "poke", pc' = "poke" PROVE \E i \in todo : ReadArray(i)
  <2>1. Writer
    BY <1>4 DEF Next, Freeze, CopyInPlace, FreezeInPlace, UnfreezeByName, UnfreezeByAddr,
                UnfreezeByIndex, UnfreezeAll, EnableByName, EnableByAddr, EnableByIndex,
                EnableAll, Command, writer, Attach, Quit, Join, Exited, vars,
                TargetStore, TargetRemap
  <2> QED BY <1>4, <2>1 DEF Writer, CheckExit, Acquire, EndPass, Wake, WritePlain, Poke
<1>5. CASE pc' # "poke"
  BY <1>5 DEF ChoiceHolds
<1> QED BY <1>1, <1>2, <1>3, <1>4, <1>5

\* The writer overwrites a live entry of a frozen array only when the target or attach
\* has come in between the read and the write of the pass (ArrayRegion::write).
THEOREM OnlyARaceLosesEntries == Spec /\ [][Undisturbed]_vars => LiveEntriesKept
<1>1. Init => ChoiceHolds
  BY DEF Init, ChoiceHolds
<1>2. IInv /\ ChoiceHolds /\ [Next]_vars /\ [Undisturbed]_vars => ChoiceHolds'
  BY StepChoice
<1>3. ChoiceHolds => [\A i \in todo : Poke(i) /\ mem' # mem => Stops(rgn[i].req, slot)]_vars
  BY DEF ChoiceHolds, Poke
<1> QED BY <1>1, <1>2, <1>3, InitIInv, NextIInv, PTL DEF Spec, LiveEntriesKept

----------------------------------------------------------------------------
(***************************************************************************)
(* The freezer implements FrozenRegions: the three maps, the objects they   *)
(* share and the writer that runs over them behave as one table of frozen   *)
(* regions, of which each command adds one, or removes or switches the ones *)
(* of one name, one address or one index, or all.                          *)
(*                                                                         *)
(* Every step of RegionFreezer is one of FrozenRegions or leaves Frozen     *)
(* alone.  That needs the invariant above, for the maps have to agree on    *)
(* what a name selects, and CopyAsked, for freeze +s adds what it has read  *)
(* some steps before.                                                      *)
(***************************************************************************)

CopiedRequests == UNION {{InPlace(c, d) : d \in [1..c[2] -> Byte]} : c \in CopyRequests}

\* what freeze +s is about to add is what the user has asked for
CopyAsked ==
  shell = "copying" =>
    copy.name \in Names /\ copy.on \in BOOLEAN /\ copy.req \in CopiedRequests

RInv == IInv /\ CopyAsked

(***************************************************************************)
(* Frozen.                                                                 *)
(***************************************************************************)
What(r) == [name |-> r.name, addr |-> r.req.addr, req |-> r.req]

LEMMA FrozenDomain ==
  /\ DOMAIN Frozen = by_index
  /\ \A i \in by_index : Frozen[i] = [what |-> What(rgn[i]), on |-> rgn[i].enable]
BY DEF Frozen, What

LEMMA FrozenDomainPrimed ==
  /\ DOMAIN Frozen' = by_index'
  /\ \A i \in by_index' : Frozen'[i] = [what |-> What(rgn'[i]), on |-> rgn'[i].enable]
BY DEF Frozen, What

\* nothing but the objects' names, requests and enable flags counts
LEMMA FrozenSame ==
  ASSUME by_index' = by_index, next_index' = next_index,
         \A i \in by_index : /\ rgn'[i].name = rgn[i].name
                             /\ rgn'[i].req = rgn[i].req
                             /\ rgn'[i].enable = rgn[i].enable
  PROVE  UNCHANGED Table!vars
<1>1. Frozen' = Frozen
  BY DEF Frozen
<1> QED BY <1>1 DEF Table!vars

LEMMA InitTable == Init => Table!Init
<1> SUFFICES ASSUME Init PROVE Table!Init
  OBVIOUS
<1>1. Frozen = << >>
  BY DEF Init, Frozen
<1>2. next_index = 0
  BY DEF Init
<1> QED BY <1>1, <1>2 DEF Table!Init

(***************************************************************************)
(* What each operation on the tables is in FrozenRegions.                  *)
(***************************************************************************)
LEMMA AddIsFreeze ==
  ASSUME TableInv, NEW n \in Names, NEW on \in BOOLEAN, NEW q \in Requests \cup CopiedRequests,
         AddRegion(n, q, on)
  PROVE  Table!Next
<1> DEFINE w == [name |-> n, addr |-> q.addr, req |-> q]
<1>1. w \in Asked
  BY DEF Asked, CopiedRequests
<1>2. next_index \notin by_index
  <2>1. \A i \in by_index : i < next_index /\ i \in Nat /\ next_index \in Nat
    BY ConstantsAssumption DEF TableInv, TableTypeOK, TablesConsistent, Ids
  <2> QED BY <2>1
<1>3. Frozen' = [i \in by_index \cup {next_index} |->
                   IF i = next_index THEN [what |-> w, on |-> on] ELSE Frozen[i]]
  <2>1. by_index \subseteq DOMAIN rgn
    BY DEF TableInv, TablesConsistent
  <2>2. \A i \in by_index : rgn'[i] = rgn[i]
    BY <1>2, <2>1 DEF AddRegion
  <2>3. rgn'[next_index] = [name |-> n, req |-> q, enable |-> on, error |-> "none"]
    BY DEF AddRegion
  <2>4. by_index' = by_index \cup {next_index}
    BY DEF AddRegion
  <2> QED BY <1>2, <2>2, <2>3, <2>4 DEF Frozen
<1>4. Table!Freeze(w, on)
  BY <1>3, FrozenDomain DEF Table!Freeze, AddRegion
<1> HIDE DEF w
<1> QED BY <1>1, <1>4 DEF Table!Next

\* dropping regions drops them from the table that is left of them
LEMMA DropIsUnfreeze ==
  ASSUME TableInv, NEW S, Drop(S)
  PROVE  Table!Unfreeze(S \cap by_index)
<1>1. by_index' = by_index \ S /\ \A i \in by_index' : rgn'[i] = rgn[i]
  BY DEF Drop, Keep, TableInv, TablesConsistent
<1>2. Frozen' = [i \in by_index \ S |-> Frozen[i]]
  BY <1>1 DEF Frozen
<1>3. by_index \ S = DOMAIN Frozen \ (S \cap by_index)
  BY FrozenDomain
<1> QED BY <1>2, <1>3 DEF Table!Unfreeze, Drop

LEMMA ClearIsUnfreeze ==
  ASSUME TableInv, UnfreezeAll
  PROVE  Table!Unfreeze(DOMAIN Frozen)
<1>1. Frozen' = [i \in {} |-> Frozen[i]]
  BY DEF Frozen, UnfreezeAll
<1>2. DOMAIN Frozen \ DOMAIN Frozen = {}
  OBVIOUS
<1> QED BY <1>1, <1>2 DEF Table!Unfreeze, UnfreezeAll

LEMMA SwitchIsSwitch ==
  ASSUME TableInv, NEW S, NEW b \in BOOLEAN, Switch(S, b)
  PROVE  Table!Switch(S \cap by_index, b)
<1>1. by_index' = by_index /\ by_index \subseteq DOMAIN rgn
  BY DEF Switch, TableInv, TablesConsistent
<1>2. ASSUME NEW i \in by_index
      PROVE  /\ rgn'[i].name = rgn[i].name /\ rgn'[i].req = rgn[i].req
             /\ rgn'[i].enable = IF i \in S THEN b ELSE rgn[i].enable
  <2>1. rgn[i] \in RegionType
    BY <1>1 DEF TableInv, TableTypeOK, Object
  <2>2. rgn'[i] = IF i \in S THEN [rgn[i] EXCEPT !.enable = b] ELSE rgn[i]
    BY <1>1 DEF Switch
  <2> QED BY <2>1, <2>2 DEF RegionType
<1>3. \A i \in by_index : Frozen'[i] = IF i \in S \cap by_index
                                     THEN [Frozen[i] EXCEPT !.on = b] ELSE Frozen[i]
  BY <1>1, <1>2, FrozenDomain, FrozenDomainPrimed DEF What
<1>4. Frozen' = [i \in by_index |-> Frozen'[i]]
  BY <1>1 DEF Frozen
<1> QED BY <1>3, <1>4, FrozenDomain DEF Table!Switch, Switch

(***************************************************************************)
(* What the arguments select.                                              *)
(***************************************************************************)
LEMMA NamedSelects ==
  ASSUME TableInv, NEW t \in Tokens, Named(t) # {}
  PROVE  Named(t) \cap by_index \in Table!Selections
<1>1. PICK i \in by_index : rgn[i].name = t
  BY DEF Named, TableInv, TablesConsistent
<1>2. Named(t) \cap by_index = Table!SameName(i)
  BY <1>1, FrozenDomain DEF Named, Table!SameName, What, TableInv, TablesConsistent
<1>3. i \in DOMAIN Frozen
  BY FrozenDomain
<1> QED BY <1>2, <1>3 DEF Table!Selections

LEMMA AtSelects ==
  ASSUME TableInv, NEW t \in Tokens, At(t) \cap by_index # {}
  PROVE  At(t) \cap by_index \in Table!Selections
<1>1. PICK i \in by_index : rgn[i].req.addr = AddrOf[t]
  BY DEF At
<1>2. At(t) \cap by_index = Table!SameAddr(i)
  BY <1>1, FrozenDomain DEF At, Table!SameAddr, What, TableInv, TablesConsistent
<1>3. i \in DOMAIN Frozen
  BY FrozenDomain
<1> QED BY <1>2, <1>3 DEF Table!Selections

LEMMA IndexSelects ==
  ASSUME NEW i \in by_index
  PROVE  {i} \cap by_index \in Table!Selections
<1>1. {i} \cap by_index = {i} /\ i \in DOMAIN Frozen
  BY FrozenDomain
<1> QED BY <1>1 DEF Table!Selections

LEMMA AllSelects == DOMAIN Frozen \in Table!Selections
BY DEF Table!Selections

(***************************************************************************)
(* The steps.                                                              *)
(***************************************************************************)
LEMMA CommandsRefine ==
  ASSUME RInv,
         \/ \E n \in Names, q \in Requests, on \in BOOLEAN : Freeze(n, q, on)
         \/ FreezeInPlace
         \/ \E t \in Tokens : UnfreezeByName(t) \/ UnfreezeByAddr(t) \/ UnfreezeByIndex(t)
         \/ UnfreezeAll
         \/ \E t \in Tokens, b \in BOOLEAN :
              EnableByName(t, b) \/ EnableByAddr(t, b) \/ EnableByIndex(t, b)
         \/ \E b \in BOOLEAN : EnableAll(b)
  PROVE  [Table!Next]_(Table!vars)
<1>0. TableInv
  BY DEF RInv, IInv
<1>1. ASSUME NEW n \in Names, NEW q \in Requests, NEW on \in BOOLEAN, Freeze(n, q, on)
      PROVE  Table!Next
  BY <1>0, <1>1, AddIsFreeze DEF Freeze
<1>2. ASSUME FreezeInPlace PROVE Table!Next
  BY <1>0, <1>2, AddIsFreeze DEF FreezeInPlace, RInv, CopyAsked
<1>3. ASSUME NEW t \in Tokens, UnfreezeByName(t) PROVE Table!Next
  BY <1>0, <1>3, DropIsUnfreeze, NamedSelects DEF UnfreezeByName, Table!Next
<1>4. ASSUME NEW t \in Tokens, UnfreezeByAddr(t) PROVE [Table!Next]_(Table!vars)
  <2>1. Drop(At(t))
    BY <1>4 DEF UnfreezeByAddr
  <2>2. CASE At(t) \cap by_index # {}
    BY <1>0, <2>1, <2>2, DropIsUnfreeze, AtSelects DEF Table!Next
  <2>3. CASE At(t) \cap by_index = {}
    <3>1. by_index' = by_index /\ \A i \in by_index : rgn'[i] = rgn[i]
      BY <1>0, <2>1, <2>3 DEF Drop, Keep, TableInv, TablesConsistent
    <3> QED BY <2>1, <3>1, FrozenSame DEF Drop
  <2> QED BY <2>2, <2>3
<1>5. ASSUME NEW t \in Tokens, UnfreezeByIndex(t) PROVE Table!Next
  BY <1>0, <1>5, DropIsUnfreeze, IndexSelects DEF UnfreezeByIndex, Table!Next
<1>6. ASSUME UnfreezeAll PROVE Table!Next
  BY <1>0, <1>6, ClearIsUnfreeze, AllSelects DEF Table!Next
<1>7. ASSUME NEW t \in Tokens, NEW b \in BOOLEAN, EnableByName(t, b) PROVE Table!Next
  <2>1. Named(t) # {} /\ Switch(Named(t), b)
    BY <1>7 DEF EnableByName, Differs
  <2> QED BY <1>0, <2>1, SwitchIsSwitch, NamedSelects DEF Table!Next
<1>8. ASSUME NEW t \in Tokens, NEW b \in BOOLEAN, EnableByAddr(t, b)
      PROVE  [Table!Next]_(Table!vars)
  <2>1. Switch(At(t), b)
    BY <1>8 DEF EnableByAddr
  <2>2. CASE At(t) \cap by_index # {}
    BY <1>0, <2>1, <2>2, SwitchIsSwitch, AtSelects DEF Table!Next
  <2>3. CASE At(t) \cap by_index = {}
    <3>1. by_index' = by_index /\ \A i \in by_index : rgn'[i] = rgn[i]
      BY <1>0, <2>1, <2>3 DEF Switch, TableInv, TablesConsistent
    <3> QED BY <2>1, <3>1, FrozenSame DEF Switch
  <2> QED BY <2>2, <2>3
<1>9. ASSUME NEW t \in Tokens, NEW b \in BOOLEAN, EnableByIndex(t, b) PROVE Table!Next
  BY <1>0, <1>9, SwitchIsSwitch, IndexSelects DEF EnableByIndex, Table!Next
<1>10. ASSUME NEW b \in BOOLEAN, EnableAll(b) PROVE Table!Next
  <2>1. by_index \cap by_index = DOMAIN Frozen
    BY FrozenDomain
  <2> QED BY <1>0, <1>10, <2>1, SwitchIsSwitch, AllSelects DEF EnableAll, Table!Next
<1> QED
  BY <1>1, <1>2, <1>3, <1>4, <1>5, <1>6, <1>7, <1>8, <1>9, <1>10

\* the writer records errors, and nothing else of a region
LEMMA WriterRefines ==
  ASSUME RInv, Writer
  PROVE  UNCHANGED Table!vars
<1>1. UNCHANGED <<by_index, next_index>>
  BY DEF Writer, CheckExit, Acquire, EndPass, Wake, WritePlain, ReadArray, Poke, tables
<1>2. UNCHANGED rgn \/ \E i \in todo, e \in Errors : Held /\ SetError(i, e)
  <2>1. CASE CheckExit \/ Acquire \/ EndPass \/ Wake
    BY <2>1 DEF CheckExit, Acquire, EndPass, Wake, tables
  <2>2. ASSUME NEW i \in todo, WritePlain(i)
        PROVE  \E e \in Errors : Held /\ SetError(i, e)
    BY <2>2 DEF WritePlain, Errors, Held
  <2>3. ASSUME NEW i \in todo, ReadArray(i)
        PROVE  UNCHANGED rgn \/ \E e \in Errors : Held /\ SetError(i, e)
    BY <2>3 DEF ReadArray, Errors, Held
  <2>4. ASSUME NEW i \in todo, Poke(i)
        PROVE  UNCHANGED rgn \/ \E e \in Errors : Held /\ SetError(i, e)
    BY <2>4 DEF Poke, Errors, Held
  <2> QED BY <2>1, <2>2, <2>3, <2>4 DEF Writer
<1>3. CASE UNCHANGED rgn
  BY <1>1, <1>3, FrozenSame
<1>4. ASSUME NEW i \in todo, NEW e \in Errors, Held, SetError(i, e)
      PROVE  UNCHANGED Table!vars
  <2>1. \A j \in by_index : j \in DOMAIN rgn /\ rgn[j] \in RegionType
    BY DEF RInv, IInv, TableInv, TableTypeOK, TablesConsistent, Object
  <2>2. \A j \in by_index : rgn'[j] = IF j = i THEN [rgn[j] EXCEPT !.error = e] ELSE rgn[j]
    BY <1>4, <2>1 DEF SetError
  <2>3. \A j \in by_index : /\ rgn'[j].name = rgn[j].name
                           /\ rgn'[j].req = rgn[j].req
                           /\ rgn'[j].enable = rgn[j].enable
    BY <2>1, <2>2 DEF RegionType
  <2> QED BY <1>1, <2>3, FrozenSame
<1> QED BY <1>2, <1>3, <1>4

\* what leaves the tables alone leaves Frozen alone
LEMMA OthersRefine ==
  ASSUME UNCHANGED tables
  PROVE  UNCHANGED Table!vars
<1>1. UNCHANGED <<rgn, by_index, next_index>>
  BY DEF tables
<1> QED BY <1>1, FrozenSame

LEMMA StepRefines == RInv /\ [Next]_vars => [Table!Next]_(Table!vars)
<1> SUFFICES ASSUME RInv, [Next]_vars PROVE [Table!Next]_(Table!vars)
  OBVIOUS
<1>1. CASE Writer
  BY <1>1, WriterRefines
<1>2. ASSUME \/ \E n \in Names, c \in CopyRequests, on \in BOOLEAN : CopyInPlace(n, c, on)
             \/ \E p \in Procs \cup {NoTask} : Attach(p)
             \/ Quit \/ Join \/ Exited
             \/ \E p \in Procs, a \in Addrs, v \in TargetBytes : TargetStore(p, a, v)
             \/ \E p \in Procs, S \in Pages : TargetRemap(p, S)
             \/ UNCHANGED vars
      PROVE  [Table!Next]_(Table!vars)
  <2>1. UNCHANGED tables
    BY <1>2 DEF CopyInPlace, Attach, Quit, Join, Exited, TargetStore, TargetRemap, vars
  <2> QED BY <2>1, OthersRefine
<1> QED BY <1>1, <1>2, CommandsRefine DEF Next

(***************************************************************************)
(* What freeze +s adds.                                                    *)
(***************************************************************************)
LEMMA CopyStaysAsked == RInv /\ [Next]_vars => CopyAsked'
<1> SUFFICES ASSUME RInv, [Next]_vars, shell' = "copying"
             PROVE  copy'.name \in Names /\ copy'.on \in BOOLEAN /\ copy'.req \in CopiedRequests
  BY DEF CopyAsked
<1>1. ASSUME NEW n \in Names, NEW c \in CopyRequests, NEW on \in BOOLEAN, CopyInPlace(n, c, on)
      PROVE  copy'.name \in Names /\ copy'.on \in BOOLEAN /\ copy'.req \in CopiedRequests
  <2> DEFINE d == [k \in 1..c[2] |-> mem[task][c[1] + k - 1]]
  <2>1. /\ task \in Procs /\ Extent(c[1], c[2]) \subseteq Addrs
        /\ c[1] \in Nat /\ c[2] \in Nat
    BY <1>1, ConstantsAssumption DEF CopyInPlace, Accessible, RInv, IInv, ThreadTypeOK, MemoryTypeOK
  <2>2. d \in [1..c[2] -> Byte]
    <3> SUFFICES ASSUME NEW k \in 1..c[2] PROVE mem[task][c[1] + k - 1] \in Byte
      OBVIOUS
    <3>1. c[1] + k - 1 \in Extent(c[1], c[2])
      BY <2>1 DEF Extent
    <3> QED BY <2>1, <3>1 DEF RInv, IInv, MemoryTypeOK
  <2>3. copy' = [name |-> n, on |-> on, req |-> InPlace(c, d)]
    BY <1>1 DEF CopyInPlace
  <2> HIDE DEF d
  <2> QED BY <2>2, <2>3 DEF CopiedRequests
<1>2. CASE \A n \in Names, c \in CopyRequests, on \in BOOLEAN : ~CopyInPlace(n, c, on)
  <2>1. UNCHANGED <<shell, copy>>
    <3>1. CASE Writer
      BY <3>1 DEF Writer, CheckExit, Acquire, EndPass, Wake, WritePlain, ReadArray, Poke
    <3>2. CASE FreezeInPlace \/ Quit \/ Join
      BY <3>2 DEF FreezeInPlace, Quit, Join
    <3>3. CASE ~Writer /\ ~(FreezeInPlace \/ Quit \/ Join)
      BY <1>2, <3>3 DEF Next, Freeze, UnfreezeByName, UnfreezeByAddr, UnfreezeByIndex, UnfreezeAll,
         EnableByName, EnableByAddr, EnableByIndex, EnableAll, Command, Attach, Exited,
         TargetStore, TargetRemap, vars
    <3> QED BY <3>1, <3>2, <3>3
  <2> QED BY <2>1 DEF RInv, CopyAsked
<1> QED BY <1>1, <1>2

LEMMA InitRInv == Init => RInv
<1>1. Init => CopyAsked
  BY DEF Init, CopyAsked
<1> QED BY <1>1, InitIInv DEF RInv

\* The freezer implements FrozenRegions for every set of requests, names and tokens: a
\* command adds one region, or removes or switches exactly those of one name, one address
\* or one index, or all (add_region, unfreeze_*, enable_* and disable_*).
THEOREM TableRefined == Spec => TableImplemented
<1>1. RInv /\ [Next]_vars => RInv'
  BY NextIInv, CopyStaysAsked DEF RInv
<1> QED BY <1>1, InitRInv, InitTable, StepRefines, PTL DEF Spec, TableImplemented, Table!Spec
=============================================================================
