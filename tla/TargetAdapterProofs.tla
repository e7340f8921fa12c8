------------------------ MODULE TargetAdapterProofs ------------------------
(***************************************************************************)
(* For every address space, every target and every list of results: a walk  *)
(* over memory that changes under it collects regions whose ends ascend,    *)
(* and a walk over a paused target returns what is there and leaves it so.  *)
(*                                                                         *)
(* What is inductive of every walk is WalkedUp: the ends of the regions     *)
(* collected so far are at or below the cursor, and below it while a region *)
(* is at hand, which is the one that ends at the cursor.                    *)
(***************************************************************************)
EXTENDS TargetAdapter, Lemmas, SequenceTheorems, TLAPS

Region == [addr: Space, size: 1..N, prot: Protections, read: BOOLEAN]

AtHand == pc = "read" \/ (pc \in {"lookup", "protect"} /\ setting.why # "access")

\* what the parts of a call are while it lasts
InCall ==
  /\ found \in Seq(Region)
  /\ AtHand => region \in Region
  /\ pc = "protect" => seen \in Region
  /\ pc = "idle" => it = 1

WalkedUp ==
  /\ \A i \in DOMAIN found : EndAddr(found[i]) <= cursor
  /\ AtHand => /\ EndAddr(region) = cursor
               /\ \A i \in DOMAIN found : EndAddr(found[i]) < cursor

IInv == TypeOK /\ InCall /\ EndsAscend /\ WalkedUp

(***************************************************************************)
(* The kernel.                                                             *)
(***************************************************************************)
LEMMA RegionsFromType ==
  ASSUME page \in [Space -> Mappings \cup {Gone}], NEW addr \in Nat, NEW r \in RegionsFrom(addr)
  PROVE  r \in Region /\ addr < EndAddr(r) /\ EndAddr(r) <= N
<1>1. PICK a \in Space, b \in 1..N :
        /\ r = [addr |-> a, size |-> b - a, prot |-> page[a].prot, read |-> FALSE]
        /\ a < b /\ page[a] # Gone /\ addr < b
  BY DEF RegionsFrom, IsRegion
<1>2. page[a].prot \in Protections
  BY <1>1 DEF Mappings
<1>3. b - a \in 1..N
  BY <1>1, AdapterAssumption DEF Space
<1>4. a + (b - a) = b
  BY <1>1, AdapterAssumption DEF Space
<1> QED BY <1>1, <1>2, <1>3, <1>4, AdapterAssumption DEF Region, EndAddr

LEMMA ProtectedType ==
  ASSUME page \in [Space -> Mappings \cup {Gone}], NEW r, NEW prot \in Protections,
         MayProtect(r, prot)
  PROVE  Protected(r, prot) \in [Space -> Mappings \cup {Gone}]
<1>1. ASSUME NEW p \in Extent(r), p \in Space
      PROVE  [page[p] EXCEPT !.prot = prot] \in Mappings
  <2>1. page[p] \in Mappings
    BY <1>1 DEF MayProtect, Mapped
  <2> QED BY <2>1 DEF Mappings
<1> QED BY <1>1 DEF Protected


(***************************************************************************)
(* The steps that end a call, and those that begin one.                    *)
(***************************************************************************)
\* a command that returns leaves nothing behind
LEMMA IdleIInv ==
  ASSUME IInv, Idle, page' \in [Space -> Mappings \cup {Gone}]
  PROVE  IInv'
<1> USE DEF Idle
<1>1. TypeOK'
  <2>1. before' \in [Space -> Mappings \cup {Gone}]
    BY DEF NoMap
  <2>2. setting' \in [why: {"none", "unprotect", "restore", "access"}, addr: Space, prot: Protections]
    BY AdapterAssumption DEF NoSetting, Space, Protections
  <2>3. cursor' \in 0..N /\ targets' \in Seq(Space) /\ it' \in 1..(Len(targets') + 1)
    BY AdapterAssumption
  <2>4. paused' \in BOOLEAN
    BY Zenon
  <2> QED BY <2>1, <2>2, <2>3, <2>4 DEF TypeOK
<1> QED BY <1>1 DEF IInv, InCall, AtHand, EndsAscend, WalkedUp

\* a region that goes into the result is the one at hand, or the one just met
LEMMA StoreFound ==
  ASSUME IInv, NEW r \in Region, Store(r),
         \A i \in DOMAIN found : EndAddr(found[i]) < EndAddr(r)
  PROVE  /\ found' \in Seq(Region)
         /\ \A i \in DOMAIN found' : EndAddr(found'[i]) <= EndAddr(r)
         /\ EndsAscend'
<1>1. /\ found' \in Seq(Region)
      /\ Len(found') = Len(found) + 1
      /\ \A i \in 1..Len(found) : found'[i] = found[i]
      /\ found'[Len(found) + 1] = r
  BY AppendProperties DEF IInv, InCall, Store
<1>2. /\ found \in Seq(Region) /\ DOMAIN found = 1..Len(found)
      /\ DOMAIN found' = 1..Len(found')
  BY <1>1 DEF IInv, InCall
<1>3. ASSUME NEW i \in DOMAIN found' PROVE EndAddr(found'[i]) \in Int
  <2>1. found'[i] \in Region
    BY <1>1, <1>2
  <2> QED BY <2>1, AdapterAssumption DEF EndAddr, Region, Space
<1>4. \A i \in DOMAIN found' : i < Len(found') => EndAddr(found'[i]) < EndAddr(r)
  BY <1>1, <1>2
<1>5. \A i \in DOMAIN found' : EndAddr(found'[i]) <= EndAddr(r)
  BY <1>1, <1>2, <1>3, <1>4
<1>6. EndsAscend'
  <2> SUFFICES ASSUME NEW i \in DOMAIN found', NEW j \in DOMAIN found', i < j
               PROVE  EndAddr(found'[i]) < EndAddr(found'[j])
    BY DEF EndsAscend, EndAddr
  <2>1. CASE j = Len(found')
    BY <1>1, <1>2, <1>4, <2>1
  <2>2. CASE j # Len(found')
    <3>1. i \in DOMAIN found /\ j \in DOMAIN found
      BY <1>1, <1>2, <2>2
    <3> QED BY <1>1, <1>2, <3>1 DEF IInv, EndsAscend
  <2> QED BY <2>1, <2>2
<1> QED BY <1>1, <1>5, <1>6

LEMMA FoundType ==
  ASSUME found \in Seq(Region)
  PROVE  \A i \in DOMAIN found : RegionsHave(found[i])
<1> SUFFICES ASSUME NEW i \in DOMAIN found PROVE RegionsHave(found[i])
  OBVIOUS
<1>1. found[i] \in Region
  OBVIOUS
<1> QED BY <1>1 DEF RegionsHave, Region

\* the region at hand goes into the result, and the walk goes on
LEMMA StoreIInv ==
  ASSUME IInv, page' \in [Space -> Mappings \cup {Gone}], UNCHANGED walk,
         NEW r \in Region, EndAddr(r) = cursor, Store(r),
         \A i \in DOMAIN found : EndAddr(found[i]) < EndAddr(r)
  PROVE  IInv'
<1>1. /\ found' \in Seq(Region) /\ EndsAscend'
      /\ \A i \in DOMAIN found' : EndAddr(found'[i]) <= cursor
  BY StoreFound
<1>2. \A i \in DOMAIN found' : RegionsHave(found'[i]) /\ EndAddr(found'[i]) <= N
  <2> SUFFICES ASSUME NEW i \in DOMAIN found' 
               PROVE  RegionsHave(found'[i]) /\ EndAddr(found'[i]) <= N
    OBVIOUS
  <2>1. found'[i] \in Region
    BY <1>1
  <2>2. EndAddr(found'[i]) \in Int /\ cursor \in Int /\ cursor <= N
    BY <2>1, AdapterAssumption DEF EndAddr, Region, Space, IInv, TypeOK
  <2> QED BY <1>1, <2>1, <2>2, AdapterAssumption DEF RegionsHave, Region
<1>3. TypeOK'
  <2>1. setting' \in [why: {"none", "unprotect", "restore", "access"}, addr: Space, prot: Protections]
    BY AdapterAssumption DEF Store, NoSetting, Space, Protections
  <2> QED BY <1>2, <2>1 DEF IInv, TypeOK, Store, walk, RegionsHave, EndAddr
<1> QED BY <1>1, <1>3 DEF IInv, InCall, AtHand, WalkedUp, Store, walk, EndAddr

\* the end of a region just met is above all that was collected
LEMMA MetAbove ==
  ASSUME IInv, pc = "next", NEW r \in RegionsFrom(cursor)
  PROVE  /\ r \in Region /\ EndAddr(r) \in 0..N
         /\ \A i \in DOMAIN found : EndAddr(found[i]) < EndAddr(r)
<1>1. cursor \in Nat /\ N \in Nat
  BY AdapterAssumption DEF IInv, TypeOK
<1>2. r \in Region /\ cursor < EndAddr(r) /\ EndAddr(r) <= N
  BY <1>1, RegionsFromType DEF IInv, TypeOK
<1>3. EndAddr(r) \in Int
  BY <1>2, <1>1 DEF EndAddr, Region, Space
<1>4. ASSUME NEW i \in DOMAIN found PROVE EndAddr(found[i]) < EndAddr(r)
  <2>1. EndAddr(found[i]) \in Int
    <3>1. found[i] \in Region
      BY DEF IInv, InCall
    <3> QED BY <1>1, <3>1 DEF EndAddr, Region, Space
  <2>2. EndAddr(found[i]) <= cursor
    BY DEF IInv, WalkedUp
  <2> QED BY <1>1, <1>2, <1>3, <2>1, <2>2
<1> QED BY <1>1, <1>2, <1>3, <1>4

\* a call of set_protection or of read for the region just met
LEMMA CallIInv ==
  ASSUME IInv, UNCHANGED <<page, paused, job, targets, before, found>>,
         it' \in 1..(Len(targets) + 1),
         NEW r \in Region, cursor' = EndAddr(r), EndAddr(r) \in 0..N,
         \A i \in DOMAIN found : EndAddr(found[i]) < EndAddr(r),
         region' = r, seen' \in Region \cup {NoRegion},
         setting' \in [why: {"none", "unprotect", "restore", "access"}, addr: Space, prot: Protections],
         pc' \in {"lookup", "read"}
  PROVE  IInv'
<1>1. TypeOK'
  <2>1. RegionsHave(region') /\ (RegionsHave(seen') \/ seen' = NoRegion)
    BY DEF RegionsHave, Region
  <2> QED BY <2>1 DEF IInv, TypeOK, NoRegion, RegionsHave, EndAddr
<1>2. InCall'
  BY DEF IInv, InCall
<1>3. \A i \in DOMAIN found : EndAddr(found[i]) <= EndAddr(r)
  <2> SUFFICES ASSUME NEW i \in DOMAIN found PROVE EndAddr(found[i]) <= EndAddr(r)
    OBVIOUS
  <2>1. EndAddr(found[i]) \in Int /\ EndAddr(r) \in Int
    <3>1. found[i] \in Region
      BY DEF IInv, InCall
    <3> QED BY <3>1, AdapterAssumption DEF EndAddr, Region, Space
  <2> QED BY <2>1
<1>4. WalkedUp'
  BY <1>3 DEF WalkedUp, AtHand, EndAddr
<1> QED BY <1>1, <1>2, <1>4 DEF IInv, EndsAscend, EndAddr

\* what read(Region&) begins for the region just met
LEMMA ReadOfIInv ==
  ASSUME IInv, pc = "next", NEW r \in RegionsFrom(cursor), ReadOf(r), cursor' = EndAddr(r),
         it' \in 1..(Len(targets) + 1), UNCHANGED <<page, paused, job, targets, before>>
  PROVE  IInv'
<1>1. /\ r \in Region /\ EndAddr(r) \in 0..N
      /\ \A i \in DOMAIN found : EndAddr(found[i]) < EndAddr(r)
  BY MetAbove
<1>2. CASE "r" \in r.prot
  <2>1. /\ pc' = "read" /\ region' = r /\ UNCHANGED <<setting, seen, found>>
    BY <1>2 DEF ReadOf
  <2>2. seen' \in Region \cup {NoRegion}
    BY <2>1 DEF IInv, TypeOK, RegionsHave, Region
  <2>3. setting' \in [why: {"none", "unprotect", "restore", "access"}, addr: Space, prot: Protections]
    BY <2>1 DEF IInv, TypeOK
  <2> QED BY <1>1, <2>1, <2>2, <2>3, CallIInv
<1>3. CASE "r" \notin r.prot
  <2>1. setting' \in [why: {"none", "unprotect", "restore", "access"}, addr: Space, prot: Protections]
    BY <1>1, <1>3 DEF ReadOf, Call, Region, Protections
  <2>2. /\ pc' = "lookup" /\ region' = r /\ UNCHANGED found
        /\ seen' \in Region \cup {NoRegion}
    BY <1>3 DEF ReadOf, Call
  <2> QED BY <1>1, <2>1, <2>2, CallIInv
<1> QED BY <1>2, <1>3

(***************************************************************************)
(* The steps.                                                              *)
(***************************************************************************)
LEMMA StartIInv ==
  ASSUME IInv,
         \/ \E kind \in {"list", "all", "targets"}, t \in Targets \cup {<<>>}, b \in BOOLEAN :
              StartWalk(kind, t, b)
         \/ \E addr \in Space, prot \in Rights : StartAccess(addr, prot)
  PROVE  IInv'
<1>1. ASSUME NEW kind \in {"list", "all", "targets"}, NEW t \in Targets \cup {<<>>},
             NEW b \in BOOLEAN, StartWalk(kind, t, b)
      PROVE  IInv'
  <2>1. before' \in [Space -> Mappings \cup {Gone}]
    BY <1>1 DEF StartWalk, IInv, TypeOK, NoMap
  <2>2. targets' \in Seq(Space)
    <3>1. targets' = t
      BY <1>1 DEF StartWalk
    <3>2. <<>> \in Seq(Space) /\ \A u \in Targets : u \in Seq(Space)
      BY AdapterAssumption
    <3> QED BY <3>1, <3>2
  <2>3. it' \in 1..(Len(targets') + 1)
    <3>1. it' = 1
      BY <1>1 DEF StartWalk, IInv, InCall
    <3> QED BY <2>2, <3>1
  <2>4. paused' \in BOOLEAN
    BY <1>1, Zenon DEF StartWalk
  <2>5. TypeOK'
    BY <1>1, <2>1, <2>2, <2>3, <2>4 DEF StartWalk, IInv, TypeOK, RegionsHave, EndAddr
  <2> QED BY <1>1, <2>5 DEF StartWalk, IInv, InCall, AtHand, EndsAscend, WalkedUp
<1>2. ASSUME NEW addr \in Space, NEW prot \in Rights, StartAccess(addr, prot)
      PROVE  IInv'
  <2>1. setting' \in [why: {"none", "unprotect", "restore", "access"}, addr: Space, prot: Protections]
    BY <1>2, AdapterAssumption DEF StartAccess
  <2>2. TypeOK'
    BY <1>2, <2>1 DEF StartAccess, IInv, TypeOK, RegionsHave, EndAddr
  <2>3. setting'.why = "access"
    BY <1>2 DEF StartAccess
  <2> QED BY <1>2, <2>2, <2>3 DEF StartAccess, IInv, InCall, AtHand, EndsAscend, WalkedUp
<1> QED BY <1>1, <1>2

\* a region that is passed over, or stored without being read
LEMMA AdvanceIInv ==
  ASSUME IInv, UNCHANGED <<page, paused, job, targets, before>>,
         it' \in 1..(Len(targets) + 1), cursor' \in 0..N, pc = "next", pc' = "next",
         found' \in Seq(Region), EndsAscend',
         \A i \in DOMAIN found' : EndAddr(found'[i]) <= cursor',
         RegionsHave(region') \/ region' = NoRegion,
         RegionsHave(seen') \/ seen' = NoRegion,
         setting' \in [why: {"none", "unprotect", "restore", "access"}, addr: Space, prot: Protections]
  PROVE  IInv'
<1>1. \A i \in DOMAIN found' : RegionsHave(found'[i]) /\ EndAddr(found'[i]) <= N
  <2> SUFFICES ASSUME NEW i \in DOMAIN found'
               PROVE  RegionsHave(found'[i]) /\ EndAddr(found'[i]) <= N
    OBVIOUS
  <2>1. found'[i] \in Region
    OBVIOUS
  <2>2. EndAddr(found'[i]) \in Int
    BY <2>1, AdapterAssumption DEF EndAddr, Region, Space
  <2> QED BY <2>1, <2>2, AdapterAssumption DEF RegionsHave, Region
<1>2. TypeOK'
  BY <1>1 DEF IInv, TypeOK, RegionsHave, EndAddr, NoRegion
<1> QED BY <1>2 DEF IInv, InCall, AtHand, WalkedUp, EndAddr

LEMMA StoreMet ==
  ASSUME IInv, UNCHANGED <<page, paused, job, targets, before, it>>, pc = "next",
         NEW r \in Region, cursor' = EndAddr(r), EndAddr(r) \in 0..N, Store(r),
         \A i \in DOMAIN found : EndAddr(found[i]) < EndAddr(r)
  PROVE  IInv'
<1>1. /\ found' \in Seq(Region) /\ EndsAscend'
      /\ \A i \in DOMAIN found' : EndAddr(found'[i]) <= cursor'
  BY StoreFound
<1>2. setting' \in [why: {"none", "unprotect", "restore", "access"}, addr: Space, prot: Protections]
  BY AdapterAssumption DEF Store, NoSetting, Space, Protections
<1>3. pc' = "next" /\ region' = NoRegion /\ seen' = NoRegion /\ it' \in 1..(Len(targets) + 1)
  BY DEF Store, IInv, TypeOK
<1> QED BY <1>1, <1>2, <1>3, AdvanceIInv

LEMMA SkipIInv ==
  ASSUME IInv, UNCHANGED <<page, paused, job, targets, before>>, pc = "next",
         it' \in 1..(Len(targets) + 1),
         NEW r \in Region, cursor' = EndAddr(r), EndAddr(r) \in 0..N, Skip,
         \A i \in DOMAIN found : EndAddr(found[i]) < EndAddr(r)
  PROVE  IInv'
<1>1. \A i \in DOMAIN found' : EndAddr(found'[i]) <= cursor'
  <2> SUFFICES ASSUME NEW i \in DOMAIN found PROVE EndAddr(found[i]) <= EndAddr(r)
    BY DEF Skip
  <2>1. found[i] \in Region
    BY DEF IInv, InCall
  <2>2. EndAddr(found[i]) \in Int
    BY <2>1, AdapterAssumption DEF EndAddr, Region, Space
  <2> QED BY <2>2
<1>2. found' \in Seq(Region) /\ EndsAscend'
  BY DEF Skip, IInv, InCall, EndsAscend, EndAddr
<1>3. /\ RegionsHave(region') \/ region' = NoRegion
      /\ RegionsHave(seen') \/ seen' = NoRegion
      /\ setting' \in [why: {"none", "unprotect", "restore", "access"}, addr: Space, prot: Protections]
      /\ pc' = "next"
  BY DEF Skip, IInv, TypeOK
<1> QED BY <1>1, <1>2, <1>3, AdvanceIInv

LEMMA ThrowIInv ==
  ASSUME IInv, pc \in {"lookup", "protect"}, Throw, page' \in [Space -> Mappings \cup {Gone}]
  PROVE  IInv'
<1>1. CASE setting.why = "access" /\ Idle
  BY <1>1, IdleIInv
<1>2. CASE setting.why # "access" /\ Store(region) /\ UNCHANGED walk
  <2>1. region \in Region /\ EndAddr(region) = cursor
        /\ \A i \in DOMAIN found : EndAddr(found[i]) < EndAddr(region)
    BY <1>2 DEF IInv, InCall, AtHand, WalkedUp
  <2> QED BY <1>2, <2>1, StoreIInv
<1> QED BY <1>1, <1>2 DEF Throw

LEMMA LookUpIInv ==
  ASSUME IInv, LookUp
  PROVE  IInv'
<1>1. ASSUME NEW r \in RegionsFrom(setting.addr), seen' = r, pc' = "protect",
             UNCHANGED <<walk, region, setting, found, page>>
      PROVE  IInv'
  <2>1. setting.addr \in Nat
    BY AdapterAssumption DEF IInv, TypeOK, Space
  <2>2. r \in Region
    BY <2>1, RegionsFromType DEF IInv, TypeOK
  <2>3. pc = "lookup"
    BY DEF LookUp
  <2>4. TypeOK'
    BY <1>1, <2>2 DEF IInv, TypeOK, walk, RegionsHave, Region, EndAddr, NoRegion
  <2> QED BY <1>1, <2>2, <2>3, <2>4 DEF IInv, InCall, AtHand, EndsAscend, WalkedUp, walk, EndAddr
<1>2. CASE Throw /\ UNCHANGED page
  BY <1>2, ThrowIInv DEF LookUp, IInv, TypeOK
<1> QED BY <1>1, <1>2 DEF LookUp

LEMMA ProtectIInv ==
  ASSUME IInv, Protect
  PROVE  IInv'
<1>1. page' \in [Space -> Mappings \cup {Gone}]
  BY ProtectedType DEF Protect, IInv, TypeOK
<1>2. CASE setting.why = "access" /\ Idle
  BY <1>1, <1>2, IdleIInv
<1>3. CASE setting.why = "unprotect"
  <2>1. /\ pc' = "read" /\ setting' = NoSetting /\ seen' = NoRegion
        /\ UNCHANGED <<walk, region, found>>
    BY <1>3 DEF Protect
  <2>2. AtHand
    BY <1>3 DEF Protect, AtHand
  <2>3. setting' \in [why: {"none", "unprotect", "restore", "access"}, addr: Space, prot: Protections]
    BY <2>1, AdapterAssumption DEF NoSetting, Space, Protections
  <2>4. TypeOK'
    BY <1>1, <2>1, <2>3 DEF IInv, TypeOK, walk, RegionsHave, EndAddr, NoRegion
  <2> QED BY <2>1, <2>2, <2>4 DEF IInv, InCall, AtHand, EndsAscend, WalkedUp, walk, EndAddr
<1>4. CASE setting.why = "restore"
  <2>1. region \in Region /\ EndAddr(region) = cursor
        /\ \A i \in DOMAIN found : EndAddr(found[i]) < EndAddr(region)
    BY <1>4 DEF Protect, IInv, InCall, AtHand, WalkedUp
  <2> QED BY <1>1, <1>4, <2>1, StoreIInv DEF Protect
<1> QED BY <1>2, <1>3, <1>4 DEF Protect

LEMMA ReadIInv ==
  ASSUME IInv, Read
  PROVE  IInv'
<1>1. /\ region \in Region /\ EndAddr(region) = cursor
      /\ \A i \in DOMAIN found : EndAddr(found[i]) < EndAddr(region)
  BY DEF Read, IInv, InCall, AtHand, WalkedUp
<1>2. ASSUME NEW b \in BOOLEAN
      PROVE  /\ [region EXCEPT !.read = b] \in Region
             /\ EndAddr([region EXCEPT !.read = b]) = EndAddr(region)
  BY <1>1 DEF Region, EndAddr
<1>3. CASE CanRead(region) /\ "r" \notin region.prot
  <2> DEFINE r == [region EXCEPT !.read = TRUE]
  <2>1. /\ r \in Region /\ EndAddr(r) = cursor /\ cursor \in 0..N
        /\ \A i \in DOMAIN found : EndAddr(found[i]) < EndAddr(r)
    BY <1>1, <1>2 DEF IInv, TypeOK
  <2>2. /\ pc' = "lookup" /\ region' = r /\ seen' = NoRegion /\ UNCHANGED <<found, page, walk>>
        /\ setting' = [why |-> "restore", addr |-> r.addr, prot |-> region.prot]
    BY <1>3 DEF Read, Call
  <2>3. setting' \in [why: {"none", "unprotect", "restore", "access"}, addr: Space, prot: Protections]
    BY <1>1, <2>1, <2>2 DEF Region
  <2>4. it' \in 1..(Len(targets) + 1) /\ cursor' = EndAddr(r)
        /\ UNCHANGED <<page, paused, job, targets, before, found>>
    BY <2>1, <2>2 DEF walk, IInv, TypeOK
  <2> HIDE DEF r
  <2> QED BY <2>1, <2>2, <2>3, <2>4, CallIInv
<1>4. CASE ~(CanRead(region) /\ "r" \notin region.prot)
  <2>1. Store([region EXCEPT !.read = CanRead(region)]) /\ UNCHANGED <<page, walk>>
    BY <1>4 DEF Read
  <2>2. CanRead(region) \in BOOLEAN
    BY Zenon DEF CanRead
  <2>3. page' \in [Space -> Mappings \cup {Gone}] /\ UNCHANGED walk
    BY <2>1 DEF IInv, TypeOK
  <2> QED BY <1>1, <1>2, <2>1, <2>2, <2>3, StoreIInv
<1> QED BY <1>3, <1>4

LEMMA NextRegionIInv ==
  ASSUME IInv, NextRegion
  PROVE  IInv'
<1>1. PICK r \in RegionsFrom(cursor) :
        /\ cursor' = EndAddr(r)
        /\ \/ job = "list" /\ Store(r) /\ UNCHANGED it
           \/ job = "all" /\ ReadOf(r) /\ UNCHANGED it
           \/ job = "targets" /\ NextTargetRegion(r)
  BY DEF NextRegion, CursorAfter
<1>2. pc = "next" /\ UNCHANGED <<page, paused, job, targets, before>>
  BY DEF NextRegion
<1>3. /\ r \in Region /\ EndAddr(r) \in 0..N
      /\ \A i \in DOMAIN found : EndAddr(found[i]) < EndAddr(r)
  BY <1>2, MetAbove
<1>4. CASE Store(r) /\ UNCHANGED it
  BY <1>1, <1>2, <1>3, <1>4, StoreMet
<1>5. CASE ReadOf(r) /\ UNCHANGED it
  BY <1>1, <1>2, <1>5, ReadOfIInv DEF IInv, TypeOK
<1>6. CASE NextTargetRegion(r)
  <2>1. it' \in 1..(Len(targets) + 1)
    BY <1>6 DEF NextTargetRegion, FirstFrom, IInv, TypeOK
  <2>2. CASE ReadOf(r)
    BY <1>1, <1>2, <2>1, <2>2, ReadOfIInv
  <2>3. CASE Skip
    BY <1>1, <1>2, <1>3, <2>1, <2>3, SkipIInv
  <2> QED BY <1>6, <2>2, <2>3 DEF NextTargetRegion
<1> QED BY <1>1, <1>4, <1>5, <1>6

LEMMA WorkingIInv ==
  ASSUME IInv, Working
  PROVE  IInv'
<1>1. CASE NextRegion
  BY <1>1, NextRegionIInv
<1>2. CASE Finish
  BY <1>2, IdleIInv DEF Finish, IInv, TypeOK
<1>3. CASE LookUp
  BY <1>3, LookUpIInv
<1>4. CASE ProtectFails
  BY <1>4, ThrowIInv DEF ProtectFails, IInv, TypeOK
<1>5. CASE Protect
  BY <1>5, ProtectIInv
<1>6. CASE Read
  BY <1>6, ReadIInv
<1> QED BY <1>1, <1>2, <1>3, <1>4, <1>5, <1>6 DEF Working

(***************************************************************************)
(* The theorems.                                                           *)
(***************************************************************************)
LEMMA InitIInv == Init => IInv
<1> SUFFICES ASSUME Init PROVE IInv
  OBVIOUS
<1>1. TypeOK
  <2>1. before \in [Space -> Mappings \cup {Gone}]
    BY DEF Init, NoMap
  <2>2. setting \in [why: {"none", "unprotect", "restore", "access"}, addr: Space, prot: Protections]
    BY AdapterAssumption DEF Init, NoSetting, Space, Protections
  <2>3. cursor \in 0..N /\ targets \in Seq(Space) /\ it \in 1..(Len(targets) + 1)
    BY AdapterAssumption DEF Init
  <2>4. paused \in BOOLEAN
    BY Zenon DEF Init
  <2> QED BY <2>1, <2>2, <2>3, <2>4 DEF Init, TypeOK
<1> QED BY <1>1 DEF Init, IInv, InCall, AtHand, EndsAscend, WalkedUp

LEMMA StepIInv == IInv /\ [Next]_vars => IInv'
<1> SUFFICES ASSUME IInv, [Next]_vars PROVE IInv'
  OBVIOUS
<1>1. ASSUME NEW b \in BOOLEAN, NEW kind \in {"list", "all"}, StartWalk(kind, <<>>, b)
      PROVE  IInv'
  BY <1>1, StartIInv
<1>2. ASSUME NEW b \in BOOLEAN, NEW t \in Targets, StartWalk("targets", t, b)
      PROVE  IInv'
  BY <1>2, StartIInv
<1>3. ASSUME NEW addr \in Space, NEW prot \in Rights, StartAccess(addr, prot)
      PROVE  IInv'
  BY <1>3, StartIInv
<1>4. CASE Working
  BY <1>4, WorkingIInv
<1>5. CASE TargetRuns
  <2>1. page' \in [Space -> Mappings \cup {Gone}]
    <3>1. PICK p \in Space : \E m \in Choices[p] : page' = [page EXCEPT ![p] = m]
      BY <1>5 DEF TargetRuns
    <3>2. Choices[p] \subseteq Mappings \cup {Gone}
      BY AdapterAssumption
    <3> QED BY <3>1, <3>2 DEF IInv, TypeOK
  <2> QED BY <1>5, <2>1 DEF TargetRuns, IInv, TypeOK, InCall, AtHand, EndsAscend, WalkedUp,
          walk, RegionsHave, EndAddr
<1>6. CASE UNCHANGED vars
  BY <1>6 DEF vars, IInv, TypeOK, InCall, AtHand, EndsAscend, WalkedUp, RegionsHave, EndAddr
<1> QED BY <1>1, <1>2, <1>3, <1>4, <1>5, <1>6 DEF Next

\* Every reachable state satisfies the inductive invariant: the walks of
\* ProcessMemoryAdapter and what they call.
THEOREM Inductive == Spec => []IInv
BY InitIInv, StepIInv, PTL DEF Spec

\* The variables keep their types, and a region of the result lies in the address space,
\* whatever the target does (get_region, get_all_regions, get_target_regions).
THEOREM TypeCorrect == Spec => []TypeOK
<1>1. IInv => TypeOK
  BY DEF IInv
<1> QED BY <1>1, Inductive, PTL

\* In every address space and for every target the collected ends ascend strictly, so that
\* a walk is no longer than the address space (get_all_regions, get_target_regions).
THEOREM EndsKeepAscending == Spec => []EndsAscend
<1>1. IInv => EndsAscend
  BY DEF IInv
<1> QED BY <1>1, Inductive, PTL

(***************************************************************************)
(* A paused target whose objects are protected uniformly.  Its map differs  *)
(* from the one at the start of the walk in whole regions only, which were  *)
(* made readable: so it has the same borders, set_protection finds the      *)
(* region it was called for, and the result is the map of the start.        *)
(***************************************************************************)
Raised(m) == [m EXCEPT !.prot = @ \cup {"r"}]

Same(p) == page[p] = before[p]
MadeReadable(p) ==
  before[p] # Gone /\ "r" \notin before[p].prot /\ page[p] = Raised(before[p])

Drifted == \A p \in Space : Same(p) \/ MadeReadable(p)

\* neighbours that were alike are alike
Even ==
  \A p \in Space : p + 1 \in Space /\ before[p] = before[p + 1] => page[p] = page[p + 1]

Border(a) == a > 0 /\ a < N => before[a - 1] # before[a]

WasRegion(r) == IsRegion(before, r.addr, EndAddr(r)) /\ r.prot = before[r.addr].prot

\* a region without a result in it comes last
Beyond(r) == it > Len(targets) /\ \A k \in DOMAIN targets : targets[k] < r.addr

Wanted(p) == before[p] # Gone /\ (job = "targets" => p \in {targets[k] : k \in DOMAIN targets})

FoundExact ==
  \A i \in DOMAIN found :
    LET r == found[i] IN
    /\ WasRegion(r) /\ r.read = (job # "list" /\ Open(before, r))
    /\ job = "targets" /\ ~HasTarget(r) => Beyond(r) /\ i = Len(found)

FoundApart ==
  /\ \A i, j \in DOMAIN found : i < j => EndAddr(found[i]) <= found[j].addr
  /\ AtHand => \A i \in DOMAIN found : EndAddr(found[i]) <= region.addr

FoundAll ==
  \A p \in Space : Wanted(p) /\ p < cursor =>
    \/ \E i \in DOMAIN found : p \in Extent(found[i])
    \/ AtHand /\ p \in Extent(region)

\* what differs belongs to a region whose read failed, or to the one at hand
Explained ==
  \A p \in Space : ~Same(p) =>
    \/ \E i \in DOMAIN found : p \in Extent(found[i]) /\ ~found[i].read
    \/ AtHand /\ p \in Extent(region)

Passed == \A k \in DOMAIN targets : k < it => targets[k] < cursor

\* the region at hand, between the calls of read(Region&) and set_protection
CallExact ==
  AtHand =>
    /\ job # "list" /\ WasRegion(region)
    /\ job = "targets" => \A i \in DOMAIN found : HasTarget(found[i])
    /\ job = "targets" /\ ~HasTarget(region) => Beyond(region)
    /\ pc = "read" =>
         IF "r" \in region.prot THEN \A p \in Extent(region) : Same(p)
         ELSE \A p \in Extent(region) : MadeReadable(p) /\ before[p].obj \notin Guarded
    /\ pc # "read" =>
         /\ setting.addr = region.addr /\ "r" \notin region.prot
         /\ \/ /\ setting.why = "unprotect" /\ setting.prot = region.prot \cup {"r"}
               /\ \A p \in Extent(region) : Same(p)
               /\ region.read = FALSE
            \/ /\ setting.why = "restore" /\ setting.prot = region.prot
               /\ \A p \in Extent(region) : MadeReadable(p)
               /\ region.read = TRUE /\ Open(before, region)
    /\ pc = "protect" => seen.addr = region.addr /\ seen.size = region.size

Steady == paused /\ Uniform(before)

Ascends == targets # <<>> => targets \in Targets

Exact ==
  /\ Ascends /\ Drifted /\ Even /\ Border(cursor)
  /\ FoundExact /\ FoundApart /\ FoundAll /\ Explained /\ Passed /\ CallExact

\* between two commands nothing is left over, and access runs under no PauseGuard
Ready ==
  /\ pc = "idle" => ~paused /\ cursor = 0 /\ found = <<>> /\ it = 1
  /\ paused => job \in {"list", "all", "targets"}
  /\ paused /\ pc \in {"lookup", "protect"} => setting.why # "access"

WalkInv == Ready /\ (Steady => Exact)

(***************************************************************************)
(* The kernel, and a target of which only whole regions have changed.      *)
(***************************************************************************)
LEMMA SpaceFacts == N \in Nat \ {0} /\ Space = 0..(N - 1)
BY AdapterAssumption DEF Space

\* two regions of a map that share a page are one
LEMMA RegionsApart ==
  ASSUME NEW m, NEW a \in Space, NEW b \in 1..N, NEW c \in Space, NEW d \in 1..N,
         IsRegion(m, a, b), IsRegion(m, c, d), NEW p \in Space,
         a <= p, p < b, c <= p, p < d
  PROVE  a = c /\ b = d
<1>1. N \in Nat \ {0} /\ a \in Nat /\ b \in Nat /\ c \in Nat /\ d \in Nat /\ p \in Nat
  BY SpaceFacts
<1>2. ASSUME NEW s \in Nat, NEW e \in Nat, IsRegion(m, s, e)
      PROVE  /\ \A q \in Nat : s <= q /\ q < e => m[q] = m[s]
             /\ s > 0 => m[s - 1] # m[s]
             /\ e < N => m[e] # m[s]
  <2>1. \A q \in s..(e - 1) : m[q] = m[s]
    BY <1>2 DEF IsRegion
  <2> QED BY <1>1, <1>2, <2>1 DEF IsRegion
<1>3. m[a] = m[p] /\ m[c] = m[p]
  BY <1>1, <1>2
<1>4. ASSUME a < c PROVE FALSE
  <2>1. c - 1 \in Nat /\ a <= c - 1 /\ c - 1 < b
    BY <1>1, <1>4
  <2>2. m[c - 1] = m[a] /\ m[c - 1] # m[c]
    BY <1>1, <1>2, <1>4, <2>1
  <2> QED BY <1>3, <2>2
<1>5. ASSUME c < a PROVE FALSE
  <2>1. a - 1 \in Nat /\ c <= a - 1 /\ a - 1 < d
    BY <1>1, <1>5
  <2>2. m[a - 1] = m[c] /\ m[a - 1] # m[a]
    BY <1>1, <1>2, <1>5, <2>1
  <2> QED BY <1>3, <2>2
<1>6. ASSUME b < d PROVE FALSE
  <2>1. m[b] = m[c] /\ m[b] # m[a]
    BY <1>1, <1>2, <1>6
  <2> QED BY <1>3, <2>1
<1>7. ASSUME d < b PROVE FALSE
  <2>1. m[d] = m[a] /\ m[d] # m[c]
    BY <1>1, <1>2, <1>7
  <2> QED BY <1>3, <2>1
<1> QED BY <1>1, <1>4, <1>5, <1>6, <1>7

\* what mach_vm_region returns
LEMMA RegionsFromFacts ==
  ASSUME NEW addr \in Nat, NEW r \in RegionsFrom(addr)
  PROVE  /\ r.addr \in Space /\ EndAddr(r) \in 1..N /\ r.size = EndAddr(r) - r.addr
         /\ r.prot = page[r.addr].prot /\ r.read = FALSE
         /\ IsRegion(page, r.addr, EndAddr(r)) /\ addr < EndAddr(r)
         /\ \A p \in addr..(r.addr - 1) : page[p] = Gone
<1>1. PICK a \in Space, b \in 1..N :
        /\ r = [addr |-> a, size |-> b - a, prot |-> page[a].prot, read |-> FALSE]
        /\ IsRegion(page, a, b) /\ addr < b
        /\ \A p \in addr..(a - 1) : page[p] = Gone
  BY DEF RegionsFrom
<1>2. r.addr = a /\ EndAddr(r) = b /\ r.size = b - a
  BY <1>1, SpaceFacts DEF EndAddr
<1> QED BY <1>1, <1>2

\* a region at an address is the one that is returned for it
LEMMA RegionThere ==
  ASSUME NEW a \in Space, NEW b \in 1..N, IsRegion(page, a, b)
  PROVE  /\ RegionsFrom(a) # {}
         /\ \A r \in RegionsFrom(a) : r.addr = a /\ r.size = b - a
<1>1. N \in Nat \ {0} /\ a \in Nat /\ b \in Nat /\ a < b /\ page[a] # Gone
  BY SpaceFacts DEF IsRegion
<1>2. RegionsFrom(a) # {}
  <2>1. <<a, b>> \in {f \in Space \X (1..N) :
                        /\ IsRegion(page, f[1], f[2]) /\ a < f[2]
                        /\ \A p \in a..(f[1] - 1) : page[p] = Gone}
    <3>1. a..(a - 1) = {}
      BY <1>1
    <3> QED BY <1>1, <3>1
  <2> QED BY <2>1 DEF RegionsFrom
<1>3. ASSUME NEW r \in RegionsFrom(a) PROVE r.addr = a /\ r.size = b - a
  <2>1. /\ r.addr \in Space /\ EndAddr(r) \in 1..N /\ r.size = EndAddr(r) - r.addr
        /\ IsRegion(page, r.addr, EndAddr(r)) /\ a < EndAddr(r)
        /\ \A p \in a..(r.addr - 1) : page[p] = Gone
    BY <1>1, RegionsFromFacts
  <2>2. r.addr <= a
    BY <1>1, <2>1, SpaceFacts
  <2>3. PICK c \in Space, d \in 1..N : c = r.addr /\ d = EndAddr(r)
    BY <2>1
  <2>4. IsRegion(page, c, d) /\ c <= a /\ a < d /\ a <= a /\ a < b
    BY <1>1, <2>1, <2>2, <2>3
  <2>5. a = c /\ b = d
    BY <2>4, RegionsApart
  <2> QED BY <2>1, <2>3, <2>5
<1> QED BY <1>2, <1>3

\* the walk finds no region any more only when nothing is mapped from the cursor on
LEMMA NothingLeft ==
  ASSUME NEW c \in Nat, RegionsFrom(c) = {}, c > 0 /\ c < N => page[c - 1] # page[c],
         NEW p \in Space, c <= p
  PROVE  page[p] = Gone
<1> SUFFICES ASSUME page[p] # Gone PROVE FALSE
  OBVIOUS
<1>1. N \in Nat \ {0} /\ p \in Nat /\ p < N
  BY SpaceFacts
<1>2. PICK a \in Nat : /\ c <= a /\ a < N /\ page[a] # Gone
                       /\ \A q \in Nat : c <= q /\ q < a => page[q] = Gone
  <2> DEFINE S == {q \in Nat : c <= q /\ q < N /\ page[q] # Gone}
  <2>1. S \in SUBSET Nat /\ p \in S
    BY <1>1
  <2>2. PICK a \in S : \A q \in S : a <= q
    BY <2>1, LeastNat
  <2>3. ASSUME NEW q \in Nat, c <= q, q < a PROVE page[q] = Gone
    BY <1>1, <2>2, <2>3
  <2> QED BY <2>2, <2>3
<1>3. PICK b \in Nat : /\ a < b /\ b <= N /\ (b < N => page[b] # page[a])
                       /\ \A q \in Nat : a <= q /\ q < b => page[q] = page[a]
  <2> DEFINE S == {q \in Nat : a < q /\ q <= N /\ (q < N => page[q] # page[a])}
  <2>1. S \in SUBSET Nat /\ N \in S
    BY <1>1, <1>2
  <2>2. PICK b \in S : \A q \in S : b <= q
    BY <2>1, LeastNat
  <2>3. ASSUME NEW q \in Nat, a <= q, q < b PROVE page[q] = page[a]
    BY <1>1, <1>2, <2>2, <2>3
  <2> QED BY <2>2, <2>3
<1>4. a > 0 => page[a - 1] # page[a]
  <2>1. CASE a = c
    BY <1>2, <2>1
  <2>2. CASE a # c /\ a > 0
    <3>1. a - 1 \in Nat /\ c <= a - 1 /\ a - 1 < a
      BY <1>2, <2>2
    <3> QED BY <1>2, <3>1
  <2> QED BY <2>1, <2>2
<1>5. IsRegion(page, a, b)
  BY <1>1, <1>2, <1>3, <1>4 DEF IsRegion
<1>6. <<a, b>> \in {f \in Space \X (1..N) :
                      /\ IsRegion(page, f[1], f[2]) /\ c < f[2]
                      /\ \A q \in c..(f[1] - 1) : page[q] = Gone}
  <2>1. a \in Space /\ b \in 1..N /\ c < b
    BY <1>1, <1>2, <1>3, SpaceFacts
  <2>2. \A q \in c..(a - 1) : page[q] = Gone
    BY <1>2
  <2> QED BY <1>5, <2>1, <2>2
<1> QED BY <1>6 DEF RegionsFrom

Maps == [Space -> Mappings \cup {Gone}]

LEMMA RaisedFacts ==
  ASSUME NEW m \in Mappings
  PROVE  /\ Raised(m) \in Mappings /\ Raised(m) # Gone
         /\ Raised(m).obj = m.obj /\ Raised(m).prot = m.prot \cup {"r"}
<1>1. PICK o \in Objects, pr \in Protections : m = [obj |-> o, prot |-> pr]
  BY DEF Mappings
<1>2. Raised(m) = [obj |-> o, prot |-> pr \cup {"r"}] /\ pr \cup {"r"} \in Protections
  BY <1>1 DEF Raised, Protections
<1>3. Raised(m) \in Mappings
  BY <1>2 DEF Mappings
<1> QED BY <1>1, <1>2, <1>3, AdapterAssumption

\* pages that have become alike were alike
LEMMA AlikeBefore ==
  ASSUME page \in Maps, before \in Maps, Drifted, Uniform(before),
         NEW p \in Space, NEW q \in Space, page[p] = page[q]
  PROVE  before[p] = before[q]
<1>1. ASSUME NEW s \in Space, MadeReadable(s)
      PROVE  /\ before[s] \in Mappings /\ "r" \notin before[s].prot
             /\ page[s] \in Mappings /\ page[s].obj = before[s].obj /\ "r" \in page[s].prot
             /\ page[s] # Gone
  <2>1. before[s] \in Mappings /\ "r" \notin before[s].prot /\ page[s] = Raised(before[s])
    BY <1>1 DEF MadeReadable, Maps
  <2> QED BY <2>1, RaisedFacts
<1>2. ASSUME NEW s \in Space, NEW t \in Space, before[s] \in Mappings, before[t] \in Mappings,
             before[s].obj = before[t].obj
      PROVE  before[s] = before[t]
  <2>1. before[s].prot = before[t].prot
    BY <1>2, AdapterAssumption DEF Uniform
  <2> QED BY <1>2, <2>1 DEF Mappings
<1>3. CASE Same(p) /\ Same(q)
  BY <1>3 DEF Same
<1>4. ASSUME NEW s \in Space, NEW t \in Space, page[s] = page[t], Same(s), MadeReadable(t)
      PROVE  FALSE
  <2>1. before[s] = page[t]
    BY <1>4 DEF Same
  <2>2. before[s] \in Mappings /\ before[s].obj = before[t].obj /\ "r" \in before[s].prot
    BY <1>1, <1>4, <2>1
  <2> QED BY <1>1, <1>2, <1>4, <2>2
<1>5. CASE MadeReadable(p) /\ MadeReadable(q)
  BY <1>1, <1>2, <1>5
<1> QED BY <1>3, <1>4, <1>5 DEF Drifted

\* a region of the map as it is, is one of the map as it was
LEMMA RegionBefore ==
  ASSUME page \in Maps, before \in Maps, Drifted, Even, Uniform(before),
         NEW a \in Space, NEW b \in 1..N, IsRegion(page, a, b)
  PROVE  IsRegion(before, a, b)
<1>1. N \in Nat \ {0} /\ a \in Nat /\ b \in Nat /\ a < b /\ page[a] # Gone
      /\ \A p \in Nat : p \in Space <=> p < N
  BY SpaceFacts DEF IsRegion
<1>2. before[a] # Gone
  <2>1. Same(a) \/ before[a] # Gone
    BY DEF Drifted, MadeReadable
  <2> QED BY <1>1, <2>1 DEF Same
<1>3. ASSUME NEW p \in a..(b - 1) PROVE before[p] = before[a]
  <2>1. p \in Space /\ page[p] = page[a]
    BY <1>1 DEF IsRegion
  <2> QED BY <2>1, AlikeBefore
<1>4. ASSUME a > 0 PROVE before[a - 1] # before[a]
  <2>1. a - 1 \in Space /\ (a - 1) + 1 = a /\ page[a - 1] # page[a]
    BY <1>1, <1>4 DEF IsRegion
  <2> QED BY <2>1 DEF Even
<1>5. ASSUME b < N PROVE before[b] # before[a]
  <2>1. b - 1 \in Space /\ (b - 1) + 1 = b /\ b \in Space /\ b - 1 \in a..(b - 1)
    BY <1>1, <1>5
  <2>2. page[b] # page[a] /\ page[b - 1] = page[a]
    BY <1>5, <2>1 DEF IsRegion
  <2>3. before[b - 1] # before[b]
    BY <2>1, <2>2 DEF Even
  <2> QED BY <1>3, <2>1, <2>3
<1> QED BY <1>1, <1>2, <1>3, <1>4, <1>5 DEF IsRegion

\* and a region of the map as it was is still one, if all of it has changed or none
LEMMA RegionStill ==
  ASSUME page \in Maps, before \in Maps, Drifted, Uniform(before),
         NEW a \in Space, NEW b \in 1..N, IsRegion(before, a, b),
         \/ \A p \in a..(b - 1) : Same(p)
         \/ \A p \in a..(b - 1) : MadeReadable(p)
  PROVE  IsRegion(page, a, b)
<1>1. N \in Nat \ {0} /\ a \in Nat /\ b \in Nat /\ a < b /\ before[a] # Gone
      /\ a \in a..(b - 1) /\ b - 1 \in a..(b - 1)
  BY SpaceFacts DEF IsRegion
<1>2. \A p \in a..(b - 1) : before[p] = before[a]
  BY DEF IsRegion
<1>3. \A p \in a..(b - 1) : page[p] = page[a]
  BY <1>1, <1>2 DEF Same, MadeReadable
<1>4. page[a] # Gone
  <2>1. CASE Same(a)
    BY <1>1, <2>1 DEF Same
  <2>2. CASE MadeReadable(a)
    <3>1. before[a] \in Mappings /\ page[a] = Raised(before[a])
      BY <2>2 DEF MadeReadable, Maps
    <3> QED BY <3>1, RaisedFacts
  <2> QED BY <1>1, <2>1, <2>2
<1>5. ASSUME a > 0 PROVE page[a - 1] # page[a]
  <2>1. a - 1 \in Space /\ before[a - 1] # before[a]
    BY <1>1, <1>5, SpaceFacts DEF IsRegion
  <2> QED BY <2>1, AlikeBefore
<1>6. ASSUME b < N PROVE page[b] # page[a]
  <2>1. b \in Space /\ before[b] # before[a]
    BY <1>1, <1>6, SpaceFacts DEF IsRegion
  <2> QED BY <2>1, AlikeBefore
<1> QED BY <1>1, <1>3, <1>4, <1>5, <1>6 DEF IsRegion

(***************************************************************************)
(* The walk over such a target.                                            *)
(***************************************************************************)
LEMMA WalkTypes ==
  ASSUME IInv
  PROVE  /\ page \in Maps /\ before \in Maps /\ cursor \in 0..N
         /\ found \in Seq(Region) /\ Len(found) \in Nat /\ DOMAIN found = 1..Len(found)
         /\ \A i \in DOMAIN found :
              /\ found[i] \in Region /\ found[i].addr \in Nat /\ EndAddr(found[i]) \in Nat
              /\ EndAddr(found[i]) <= cursor
         /\ AtHand => /\ region \in Region /\ region.addr \in Space
                      /\ EndAddr(region) = cursor /\ cursor \in 1..N
         /\ targets \in Seq(Space) /\ Len(targets) \in Nat /\ DOMAIN targets = 1..Len(targets)
         /\ it \in 1..(Len(targets) + 1)
<1>1. /\ page \in Maps /\ before \in Maps /\ cursor \in 0..N
      /\ targets \in Seq(Space) /\ it \in 1..(Len(targets) + 1)
      /\ found \in Seq(Region)
  BY DEF IInv, TypeOK, InCall, Maps
<1>2. ASSUME NEW r \in Region
      PROVE  r.addr \in Space /\ r.addr \in Nat /\ EndAddr(r) \in Nat \ {0}
  BY SpaceFacts DEF Region, EndAddr
<1>3. /\ Len(found) \in Nat /\ DOMAIN found = 1..Len(found)
      /\ Len(targets) \in Nat /\ DOMAIN targets = 1..Len(targets)
  BY <1>1
<1>4. ASSUME NEW i \in DOMAIN found
      PROVE  /\ found[i] \in Region /\ found[i].addr \in Nat /\ EndAddr(found[i]) \in Nat
             /\ EndAddr(found[i]) <= cursor
  <2>1. found[i] \in Region
    BY <1>1
  <2> QED BY <1>2, <2>1 DEF IInv, WalkedUp
<1>5. ASSUME AtHand
      PROVE  region \in Region /\ region.addr \in Space /\ EndAddr(region) = cursor
             /\ cursor \in 1..N
  <2>1. region \in Region /\ EndAddr(region) = cursor
    BY <1>5 DEF IInv, InCall, WalkedUp
  <2> QED BY <1>1, <1>2, <2>1, SpaceFacts
<1> QED BY <1>1, <1>3, <1>4, <1>5

\* what a page in a region is
LEMMA ExtentFacts ==
  ASSUME NEW r \in Region
  PROVE  /\ r.addr \in Space /\ EndAddr(r) \in Nat /\ r.addr < EndAddr(r)
         /\ Extent(r) = r.addr .. (EndAddr(r) - 1)
         /\ \A p \in Nat : p \in Extent(r) <=> r.addr <= p /\ p < EndAddr(r)
<1>1. r.addr \in Space /\ r.addr \in Nat /\ r.size \in Nat \ {0}
  BY SpaceFacts DEF Region
<1> QED BY <1>1 DEF Extent, EndAddr

\* after a region of the map as it was, another begins
LEMMA RegionBorder ==
  ASSUME NEW r \in Region, WasRegion(r)
  PROVE  Border(EndAddr(r))
<1>1. /\ r.addr \in Nat /\ EndAddr(r) \in Nat /\ r.addr < EndAddr(r)
      /\ EndAddr(r) - 1 \in r.addr .. (EndAddr(r) - 1)
  BY ExtentFacts, SpaceFacts
<1>2. before[EndAddr(r) - 1] = before[r.addr]
  BY <1>1 DEF WasRegion, IsRegion
<1> QED BY <1>2 DEF Border, WasRegion, IsRegion

\* memwatch has changed nothing from the cursor on
LEMMA AheadSame ==
  ASSUME IInv, Explained, NEW p \in Space, cursor <= p
  PROVE  Same(p)
<1>1. p \in Nat /\ cursor \in Nat
  BY WalkTypes, SpaceFacts
<1>2. ASSUME NEW i \in DOMAIN found PROVE p \notin Extent(found[i])
  BY <1>1, WalkTypes, ExtentFacts
<1>3. ASSUME AtHand PROVE p \notin Extent(region)
  <2>1. region \in Region /\ EndAddr(region) = cursor
    BY <1>3, WalkTypes
  <2> QED BY <1>1, <2>1, ExtentFacts
<1> QED BY <1>2, <1>3 DEF Explained

\* the region the walk comes to
LEMMA MetFacts ==
  ASSUME IInv, Exact, Uniform(before), pc = "next", NEW r \in RegionsFrom(cursor)
  PROVE  /\ r \in Region /\ WasRegion(r) /\ r.read = FALSE
         /\ cursor <= r.addr /\ EndAddr(r) \in 1..N
         /\ \A p \in Extent(r) : Same(p)
         /\ \A p \in cursor..(r.addr - 1) : before[p] = Gone
         /\ \A i \in DOMAIN found : EndAddr(found[i]) <= r.addr
<1>0. /\ page \in Maps /\ before \in Maps /\ cursor \in Nat /\ cursor <= N
      /\ Drifted /\ Even /\ Border(cursor) /\ Explained
  BY WalkTypes, SpaceFacts DEF Exact
<1>1. r \in Region
  BY MetAbove
<1>2. /\ r.addr \in Space /\ EndAddr(r) \in 1..N /\ r.prot = page[r.addr].prot
      /\ r.read = FALSE /\ IsRegion(page, r.addr, EndAddr(r)) /\ cursor < EndAddr(r)
      /\ \A p \in cursor..(r.addr - 1) : page[p] = Gone
  BY <1>0, RegionsFromFacts
<1>3. IsRegion(before, r.addr, EndAddr(r))
  BY <1>0, <1>2, RegionBefore
<1>4. cursor <= r.addr
  <2> SUFFICES ASSUME r.addr < cursor PROVE FALSE
    BY <1>0, <1>2, SpaceFacts
  <2>1. /\ cursor - 1 \in r.addr .. (EndAddr(r) - 1) /\ cursor \in r.addr .. (EndAddr(r) - 1)
        /\ cursor > 0 /\ cursor < N
    BY <1>0, <1>2, SpaceFacts
  <2>2. before[cursor - 1] = before[cursor]
    BY <1>3, <2>1 DEF IsRegion
  <2> QED BY <1>0, <2>1, <2>2 DEF Border
<1>5. ASSUME NEW p \in Nat, cursor <= p, p < N PROVE Same(p)
  BY <1>0, <1>5, AheadSame, SpaceFacts
<1>6. \A p \in Extent(r) : Same(p)
  <2>1. \A p \in Extent(r) : p \in Nat /\ cursor <= p /\ p < N
    BY <1>0, <1>1, <1>2, <1>4, ExtentFacts, SpaceFacts
  <2> QED BY <1>5, <2>1
<1>7. \A p \in cursor..(r.addr - 1) : before[p] = Gone
  <2>1. \A p \in cursor..(r.addr - 1) : p \in Nat /\ cursor <= p /\ p < N
    BY <1>0, <1>2, SpaceFacts
  <2> QED BY <1>2, <1>5, <2>1 DEF Same
<1>8. WasRegion(r)
  <2>1. r.addr \in Extent(r)
    BY <1>1, ExtentFacts, SpaceFacts
  <2>2. page[r.addr] = before[r.addr]
    BY <1>6, <2>1 DEF Same
  <2> QED BY <1>2, <1>3, <2>2 DEF WasRegion
<1>9. \A i \in DOMAIN found : EndAddr(found[i]) <= r.addr
  BY <1>0, <1>2, <1>4, WalkTypes, SpaceFacts
<1> QED BY <1>1, <1>2, <1>4, <1>6, <1>7, <1>8, <1>9

(***************************************************************************)
(* A region goes into the result, or is at hand after the step.            *)
(***************************************************************************)
LEMMA HistoryStays ==
  ASSUME UNCHANGED <<before, job, targets>>
  PROVE  /\ \A r : /\ WasRegion(r)' <=> WasRegion(r)
                   /\ Open(before, r)' <=> Open(before, r)
                   /\ HasTarget(r)' <=> HasTarget(r)
         /\ \A p : Wanted(p)' <=> Wanted(p)
         /\ \A a : Border(a)' <=> Border(a)
BY DEF WasRegion, IsRegion, EndAddr, Open, Extent, HasTarget, Wanted, Border

\* the region r comes after all that was found, and nothing wanted lies in between
NextInOrder(r) ==
  /\ WasRegion(r)
  /\ \A i \in DOMAIN found : EndAddr(found[i]) <= r.addr
  /\ job = "targets" => \A i \in DOMAIN found : HasTarget(found[i])
  /\ \A p \in Space : Wanted(p) /\ p < EndAddr(r) =>
       (\E i \in DOMAIN found : p \in Extent(found[i])) \/ p \in Extent(r)

\* after the step, r lies beyond all results
PassedBy(r) == it' > Len(targets) /\ \A k \in DOMAIN targets : targets[k] < r.addr

LEMMA StoreExact ==
  ASSUME IInv, Exact, NEW r \in Region, Store(r), NextInOrder(r),
         UNCHANGED <<before, job, targets>>, cursor' = EndAddr(r),
         r.read = (job # "list" /\ Open(before, r)),
         job = "targets" /\ ~HasTarget(r) => PassedBy(r),
         \A p \in Space : page'[p] # before[p] =>
           \/ \E i \in DOMAIN found : p \in Extent(found[i]) /\ ~found[i].read
           \/ p \in Extent(r) /\ ~r.read,
         Drifted', Even', Passed'
  PROVE  Exact'
<1> DEFINE n == Len(found)
<1>1. n \in Nat /\ DOMAIN found = 1..n /\ found \in Seq(Region)
  BY WalkTypes
<1>2. /\ DOMAIN found' = 1..(n + 1) /\ Len(found') = n + 1
      /\ \A i \in DOMAIN found : found'[i] = found[i] /\ i \in DOMAIN found'
      /\ found'[n + 1] = r /\ n + 1 \in DOMAIN found'
  <2>1. found' = Append(found, r)
    BY DEF Store
  <2>2. /\ found' \in Seq(Region) /\ Len(found') = n + 1
        /\ \A i \in 1..n : found'[i] = found[i]
        /\ found'[n + 1] = r
    BY <1>1, <2>1, AppendProperties
  <2> QED BY <1>1, <2>2
<1> HIDE DEF n
<1>3. ~AtHand'
  BY DEF Store, AtHand
<1>4. \A i \in DOMAIN found' : i \in DOMAIN found \/ i = n + 1
  BY <1>1, <1>2
<1>5. FoundExact'
  <2> SUFFICES ASSUME NEW i \in DOMAIN found'
               PROVE  /\ WasRegion(found'[i])
                      /\ found'[i].read = (job # "list" /\ Open(before, found'[i]))
                      /\ job = "targets" /\ ~HasTarget(found'[i]) =>
                           PassedBy(found'[i]) /\ i = Len(found')
    <3>1. ASSUME NEW i \in DOMAIN found', PassedBy(found'[i]) PROVE Beyond(found[i])'
      BY <3>1 DEF Beyond, PassedBy
    <3> QED BY <3>1, HistoryStays DEF FoundExact
  <2>1. CASE i \in DOMAIN found
    <3>1. found'[i] = found[i]
      BY <1>2, <2>1
    <3> QED BY <2>1, <3>1 DEF Exact, FoundExact, NextInOrder
  <2>2. CASE i = n + 1
    <3>1. found'[i] = r
      BY <1>2, <2>2
    <3> QED BY <1>2, <2>2, <3>1 DEF NextInOrder
  <2> QED BY <1>4, <2>1, <2>2
<1>6. FoundApart'
  <2>1. ASSUME NEW i \in DOMAIN found', NEW j \in DOMAIN found', i < j
        PROVE  EndAddr(found'[i]) <= found'[j].addr
    <3>1. i \in DOMAIN found
      BY <1>1, <1>2, <2>1
    <3>2. CASE j \in DOMAIN found
      BY <1>2, <2>1, <3>1, <3>2 DEF Exact, FoundApart
    <3>3. CASE j = n + 1
      BY <1>2, <3>1, <3>3 DEF NextInOrder
    <3> QED BY <1>4, <3>2, <3>3
  <2> QED BY <1>3, <2>1 DEF FoundApart, EndAddr
<1>7. FoundAll'
  <2> SUFFICES ASSUME NEW p \in Space, Wanted(p), p < EndAddr(r)
               PROVE  \E i \in DOMAIN found' : p \in Extent(found'[i])
    BY HistoryStays DEF FoundAll, Extent
  <2>1. CASE \E i \in DOMAIN found : p \in Extent(found[i])
    BY <1>2, <2>1
  <2>2. CASE p \in Extent(r)
    BY <1>2, <2>2
  <2> QED BY <2>1, <2>2 DEF NextInOrder
<1>8. Explained'
  <2> SUFFICES ASSUME NEW p \in Space, page'[p] # before[p]
               PROVE  \E i \in DOMAIN found' : p \in Extent(found'[i]) /\ ~found'[i].read
    BY DEF Explained, Same, Extent
  <2>1. CASE \E i \in DOMAIN found : p \in Extent(found[i]) /\ ~found[i].read
    BY <1>2, <2>1
  <2>2. CASE p \in Extent(r) /\ ~r.read
    BY <1>2, <2>2
  <2> QED BY <2>1, <2>2
<1>9. Border(cursor)'
  <2>1. Border(EndAddr(r))
    BY RegionBorder DEF NextInOrder
  <2> QED BY <2>1 DEF Border
<1> QED BY <1>3, <1>5, <1>6, <1>7, <1>8, <1>9 DEF Exact, CallExact, Ascends

LEMMA HandExact ==
  ASSUME IInv, Exact, NEW r \in Region, region' = r, AtHand', NextInOrder(r),
         UNCHANGED <<before, job, targets, found>>, cursor' = EndAddr(r),
         \A p \in Space : page'[p] # before[p] =>
           \/ \E i \in DOMAIN found : p \in Extent(found[i]) /\ ~found[i].read
           \/ p \in Extent(r),
         Drifted', Even', Passed', CallExact'
  PROVE  Exact'
<1>1. FoundExact'
  <2> SUFFICES ASSUME NEW i \in DOMAIN found
               PROVE  /\ WasRegion(found[i])
                      /\ found[i].read = (job # "list" /\ Open(before, found[i]))
                      /\ job = "targets" => HasTarget(found[i])
    BY HistoryStays DEF FoundExact
  <2> QED BY DEF Exact, FoundExact, NextInOrder
<1>2. FoundApart'
  BY DEF Exact, FoundApart, NextInOrder, EndAddr
<1>3. FoundAll'
  <2> SUFFICES ASSUME NEW p \in Space, Wanted(p), p < EndAddr(r)
               PROVE  (\E i \in DOMAIN found : p \in Extent(found[i])) \/ p \in Extent(r)
    BY HistoryStays DEF FoundAll, Extent
  <2> QED BY DEF NextInOrder
<1>4. Explained'
  <2> SUFFICES ASSUME NEW p \in Space, page'[p] # before[p]
               PROVE  \/ \E i \in DOMAIN found : p \in Extent(found[i]) /\ ~found[i].read
                      \/ p \in Extent(r)
    BY DEF Explained, Same, Extent
  <2> QED OBVIOUS
<1>5. Border(cursor)'
  <2>1. Border(EndAddr(r))
    BY RegionBorder DEF NextInOrder
  <2> QED BY <2>1 DEF Border
<1> QED BY <1>1, <1>2, <1>3, <1>4, <1>5 DEF Exact, Ascends

(***************************************************************************)
(* The steps of the walk.                                                  *)
(***************************************************************************)
\* a page of the region at hand
LEMMA HandPages ==
  ASSUME IInv, NEW r \in Region, WasRegion(r), EndAddr(r) <= N, NEW p \in Extent(r)
  PROVE  /\ p \in Space /\ before[p] \in Mappings /\ before[p] # Gone
         /\ before[p] = before[r.addr] /\ before[p].prot = r.prot
         /\ Same(p) => page[p] = before[p]
         /\ MadeReadable(p) =>
              /\ page[p] = Raised(before[p]) /\ page[p] \in Mappings /\ page[p] # Gone
              /\ page[p].obj = before[p].obj /\ page[p].prot = r.prot \cup {"r"}
<1>1. p \in Space /\ p \in r.addr .. (EndAddr(r) - 1) /\ r.addr \in Space
  BY ExtentFacts, SpaceFacts
<1>2. before[p] = before[r.addr] /\ before[r.addr] # Gone /\ r.prot = before[r.addr].prot
  BY <1>1 DEF WasRegion, IsRegion
<1>3. before[p] \in Mappings
  BY <1>1, <1>2, WalkTypes DEF Maps
<1> QED BY <1>1, <1>2, <1>3, RaisedFacts DEF Same, MadeReadable

\* read(Region&) begins for the region the walk has come to
LEMMA ReadOfExact ==
  ASSUME IInv, Exact, Uniform(before), pc = "next", NEW r \in RegionsFrom(cursor), ReadOf(r),
         cursor' = EndAddr(r), UNCHANGED <<page, before, job, targets>>, NextInOrder(r),
         job # "list", job = "targets" /\ ~HasTarget(r) => PassedBy(r), Passed'
  PROVE  Exact'
<1>1. r \in Region /\ WasRegion(r) /\ r.read = FALSE /\ \A p \in Extent(r) : Same(p)
  BY MetFacts
<1>2. region' = r /\ found' = found
  BY DEF ReadOf, Call
<1>3. /\ \A p \in Extent(r) : Same(p)'
      /\ Drifted' /\ Even'
  BY <1>1 DEF Exact, Drifted, Even, Same, MadeReadable
<1>4. AtHand'
  BY DEF ReadOf, Call, AtHand
<1>5. CallExact'
  <2>1. /\ WasRegion(r)'
        /\ job' # "list" /\ (job' = "targets" => \A i \in DOMAIN found : HasTarget(found[i]))
        /\ job' = "targets" /\ ~HasTarget(r)' => PassedBy(r)
    BY <1>1, HistoryStays DEF NextInOrder
  <2>2. /\ WasRegion(region)'
        /\ job' = "targets" => \A i \in DOMAIN found' : HasTarget(found[i])'
        /\ job' = "targets" /\ ~HasTarget(region)' => Beyond(region)'
    BY <1>2, <2>1 DEF WasRegion, IsRegion, EndAddr, HasTarget, Extent, PassedBy, Beyond
  <2>3. CASE "r" \in r.prot
    <3>1. pc' = "read" /\ region' = r
      BY <2>3 DEF ReadOf
    <3>2. \A p \in Extent(region') : Same(p)'
      BY <1>2, <1>3
    <3> QED BY <2>1, <2>2, <2>3, <3>1, <3>2 DEF CallExact, Extent
  <2>4. CASE "r" \notin r.prot
    <3>1. /\ pc' = "lookup" /\ region' = r
          /\ setting' = [why |-> "unprotect", addr |-> r.addr, prot |-> r.prot \cup {"r"}]
      BY <2>4 DEF ReadOf, Call
    <3>2. \A p \in Extent(region') : Same(p)'
      BY <1>2, <1>3
    <3> QED BY <1>1, <2>1, <2>2, <2>4, <3>1, <3>2 DEF CallExact, Extent
  <2> QED BY <2>3, <2>4
<1>6. \A p \in Space : page'[p] # before[p] =>
        \/ \E i \in DOMAIN found : p \in Extent(found[i]) /\ ~found[i].read
        \/ p \in Extent(r)
  BY DEF Exact, Explained, AtHand, Same
<1> QED BY <1>1, <1>2, <1>3, <1>4, <1>5, <1>6, HandExact

LEMMA NextRegionExact ==
  ASSUME IInv, Exact, Uniform(before), NextRegion
  PROVE  Exact'
<1>1. PICK r \in RegionsFrom(cursor) :
        /\ cursor' = EndAddr(r)
        /\ \/ job = "list" /\ Store(r) /\ UNCHANGED it
           \/ job = "all" /\ ReadOf(r) /\ UNCHANGED it
           \/ job = "targets" /\ NextTargetRegion(r)
  BY DEF NextRegion, CursorAfter
<1>2. /\ pc = "next" /\ ~AtHand /\ UNCHANGED <<page, before, job, targets>>
      /\ job = "targets" => ~(it > Len(targets))
  BY DEF NextRegion, WalkOver, AtHand
<1>3. /\ r \in Region /\ WasRegion(r) /\ r.read = FALSE /\ cursor <= r.addr
      /\ \A p \in cursor..(r.addr - 1) : before[p] = Gone
      /\ \A i \in DOMAIN found : EndAddr(found[i]) <= r.addr
  BY <1>2, MetFacts
<1>4. cursor \in Nat /\ r.addr \in Nat /\ EndAddr(r) \in Nat /\ r.addr < EndAddr(r)
  BY <1>3, WalkTypes, ExtentFacts, SpaceFacts
<1>5. NextInOrder(r)
  <2>1. ASSUME NEW p \in Space, Wanted(p), p < EndAddr(r)
        PROVE  (\E i \in DOMAIN found : p \in Extent(found[i])) \/ p \in Extent(r)
    <3>1. p \in Nat
      BY SpaceFacts
    <3>2. CASE p < cursor
      BY <1>2, <2>1, <3>2 DEF Exact, FoundAll
    <3>3. CASE ~(p < cursor) /\ p < r.addr
      <4>1. p \in cursor..(r.addr - 1)
        BY <1>4, <3>1, <3>3
      <4> QED BY <1>3, <2>1, <4>1 DEF Wanted
    <3>4. CASE ~(p < r.addr)
      BY <1>3, <1>4, <2>1, <3>1, <3>4, ExtentFacts
    <3> QED BY <3>2, <3>3, <3>4
  <2>2. ASSUME job = "targets", NEW i \in DOMAIN found PROVE HasTarget(found[i])
    BY <1>2, <2>2 DEF Exact, FoundExact, Beyond
  <2> QED BY <1>3, <2>1, <2>2 DEF NextInOrder
<1>6. \A k \in DOMAIN targets : targets[k] \in Nat /\ k \in Nat
  BY WalkTypes, SpaceFacts
<1>7. ASSUME UNCHANGED it PROVE Passed'
  <2>1. \A k \in DOMAIN targets : k < it => targets[k] < EndAddr(r)
    BY <1>3, <1>4, <1>6 DEF Exact, Passed
  <2> QED BY <1>1, <1>2, <1>7, <2>1 DEF Passed
<1>8. Drifted' /\ Even'
  BY <1>2 DEF Exact, Drifted, Even, Same, MadeReadable
<1>9. CASE job = "list" /\ Store(r) /\ UNCHANGED it
  <2>1. \A p \in Space : page'[p] # before[p] =>
          \/ \E i \in DOMAIN found : p \in Extent(found[i]) /\ ~found[i].read
          \/ p \in Extent(r) /\ ~r.read
    BY <1>2 DEF Exact, Explained, Same
  <2>2. r.read = (job # "list" /\ Open(before, r))
    BY <1>3, <1>9
  <2>3. job = "targets" /\ ~HasTarget(r) => PassedBy(r)
    BY <1>9
  <2>4. Store(r) /\ Passed' /\ cursor' = EndAddr(r)
    BY <1>1, <1>7, <1>9
  <2> QED BY <1>2, <1>3, <1>5, <1>8, <2>1, <2>2, <2>3, <2>4, StoreExact
<1>10. CASE job = "all" /\ ReadOf(r) /\ UNCHANGED it
  <2>1. job # "list" /\ (job = "targets" /\ ~HasTarget(r) => PassedBy(r)) /\ Passed'
    BY <1>7, <1>10
  <2> QED BY <1>1, <1>2, <1>5, <1>10, <2>1, ReadOfExact
<1>11. CASE job = "targets" /\ NextTargetRegion(r)
  <2>1. /\ it' \in it..(Len(targets) + 1)
        /\ \A j \in it..(it' - 1) : targets[j] < r.addr
        /\ it' <= Len(targets) => targets[it'] >= r.addr
        /\ IF it' > Len(targets) THEN ReadOf(r) \/ Skip
           ELSE IF targets[it'] < EndAddr(r) THEN ReadOf(r) ELSE Skip
    BY <1>11 DEF NextTargetRegion, FirstFrom
  <2>2. it \in Nat /\ Len(targets) \in Nat /\ it' \in Nat /\ DOMAIN targets = 1..Len(targets)
    BY <2>1, WalkTypes
  <2>3. ASSUME NEW k \in DOMAIN targets, k < it' PROVE targets[k] < r.addr
    <3>1. CASE k < it
      BY <1>3, <1>4, <1>6, <3>1 DEF Exact, Passed
    <3>2. CASE ~(k < it)
      <4>1. k \in it..(it' - 1)
        BY <1>6, <2>2, <2>3, <3>2
      <4> QED BY <2>1, <4>1
    <3> QED BY <3>1, <3>2
  <2>4. Passed'
    <3>1. \A k \in DOMAIN targets : k < it' => targets[k] < EndAddr(r)
      BY <1>4, <1>6, <2>3
    <3> QED BY <1>1, <1>2, <3>1 DEF Passed
  <2>5. CASE ReadOf(r)
    <3>1. ASSUME ~HasTarget(r) PROVE PassedBy(r)
      <4>1. CASE it' > Len(targets)
        BY <1>6, <2>2, <2>3, <4>1 DEF PassedBy
      <4>2. CASE ~(it' > Len(targets))
        <5>1. it' \in DOMAIN targets
          BY <2>1, <2>2, <4>2, WalkTypes
        <5>2. CASE targets[it'] < EndAddr(r)
          <6>1. targets[it'] \in Extent(r)
            BY <1>3, <1>6, <2>1, <2>2, <4>2, <5>1, <5>2, ExtentFacts
          <6> QED BY <3>1, <5>1, <6>1 DEF HasTarget
        <5>3. CASE ~(targets[it'] < EndAddr(r))
          <6>1. Skip
            BY <2>1, <4>2, <5>3
          <6> QED BY <1>2, <2>5, <6>1 DEF Skip, ReadOf, Call
        <5> QED BY <5>2, <5>3
      <4> QED BY <4>1, <4>2
    <3> QED BY <1>1, <1>2, <1>5, <1>11, <2>4, <2>5, <3>1, ReadOfExact
  <2>6. CASE Skip
    <3>1. /\ pc' = pc /\ found' = found /\ ~AtHand'
      BY <1>2, <2>6 DEF Skip, AtHand
    <3>2. ASSUME NEW k \in DOMAIN targets PROVE targets[k] \notin Extent(r)
      <4> SUFFICES ASSUME targets[k] \in Extent(r) PROVE FALSE
        OBVIOUS
      <4>1. r.addr <= targets[k] /\ targets[k] < EndAddr(r)
        BY <1>3, <1>6, ExtentFacts
      <4>2. ~(k < it') /\ it' <= Len(targets) /\ it' \in DOMAIN targets
        BY <1>4, <1>6, <2>1, <2>2, <2>3, <4>1, WalkTypes
      <4>3. targets[it'] <= targets[k]
        <5>1. CASE it' = k
          BY <1>6, <5>1
        <5>2. CASE it' # k
          <6>1. it' < k
            BY <1>6, <2>2, <4>2, <5>2
          <6>2. targets \in Targets
            BY <4>2 DEF Exact, Ascends
          <6> QED BY <1>6, <4>2, <6>1, <6>2, AdapterAssumption
        <5> QED BY <5>1, <5>2
      <4>4. targets[it'] < EndAddr(r)
        BY <1>4, <1>6, <4>1, <4>2, <4>3
      <4>5. ReadOf(r)
        BY <2>1, <2>2, <4>2, <4>4
      <4> QED BY <1>2, <3>1, <4>5 DEF ReadOf, Call
    <3>3. FoundExact'
      <4> SUFFICES ASSUME NEW i \in DOMAIN found
                   PROVE  /\ WasRegion(found[i])
                          /\ found[i].read = (job # "list" /\ Open(before, found[i]))
                          /\ job = "targets" => HasTarget(found[i])
        BY <1>2, <3>1, HistoryStays DEF FoundExact
      <4> QED BY <1>5 DEF Exact, FoundExact, NextInOrder
    <3>4. FoundApart'
      BY <3>1 DEF Exact, FoundApart, EndAddr
    <3>5. FoundAll'
      <4> SUFFICES ASSUME NEW p \in Space, Wanted(p), p < EndAddr(r)
                   PROVE  \E i \in DOMAIN found : p \in Extent(found[i])
        BY <1>1, <1>2, <3>1, HistoryStays DEF FoundAll, Extent
      <4>1. p \notin Extent(r)
        BY <1>11, <3>2 DEF Wanted
      <4> QED BY <1>5, <4>1 DEF NextInOrder
    <3>6. Explained'
      BY <1>2, <3>1 DEF Exact, Explained, Same, Extent
    <3>7. Border(cursor)'
      <4>1. Border(EndAddr(r))
        BY <1>3, RegionBorder
      <4> QED BY <1>1, <1>2, <4>1 DEF Border
    <3>8. CallExact'
      BY <3>1 DEF CallExact
    <3>9. Ascends'
      BY <1>2 DEF Exact, Ascends
    <3> QED BY <1>8, <2>4, <3>3, <3>4, <3>5, <3>6, <3>7, <3>8, <3>9 DEF Exact
  <2> QED BY <2>1, <2>2, <2>5, <2>6
<1> QED BY <1>1, <1>9, <1>10, <1>11

\* the region at hand was the next in order when the walk came to it
LEMMA HandInOrder ==
  ASSUME IInv, Exact, AtHand
  PROVE  NextInOrder(region) /\ region \in Region /\ EndAddr(region) = cursor /\ EndAddr(region) \in 1..N
<1>1. region \in Region /\ EndAddr(region) = cursor /\ cursor \in 1..N
  BY WalkTypes
<1>2. NextInOrder(region)
  BY <1>1 DEF Exact, CallExact, FoundApart, FoundAll, NextInOrder
<1> QED BY <1>1, <1>2

\* set_protection finds the region it was called for
LEMMA LookUpFinds ==
  ASSUME IInv, Exact, Uniform(before), pc = "lookup", AtHand
  PROVE  /\ RegionsFrom(setting.addr) # {}
         /\ \A r \in RegionsFrom(setting.addr) :
              r.addr = region.addr /\ r.size = region.size
<1>1. /\ region \in Region /\ EndAddr(region) \in 1..N /\ WasRegion(region)
      /\ setting.addr = region.addr
      /\ \/ \A p \in Extent(region) : Same(p)
         \/ \A p \in Extent(region) : MadeReadable(p)
  BY HandInOrder DEF Exact, CallExact
<1>2. PICK a \in Space, b \in 1..N : a = region.addr /\ b = EndAddr(region)
  BY <1>1, ExtentFacts
<1>3. Extent(region) = a..(b - 1) /\ b - a = region.size
  BY <1>1, <1>2, ExtentFacts, SpaceFacts DEF EndAddr, Region
<1>4. IsRegion(page, a, b)
  <2>1. /\ page \in Maps /\ before \in Maps /\ Drifted
        /\ IsRegion(before, a, b)
        /\ \/ \A p \in a..(b - 1) : Same(p)
           \/ \A p \in a..(b - 1) : MadeReadable(p)
    BY <1>1, <1>2, <1>3, WalkTypes DEF Exact, WasRegion
  <2> QED BY <2>1, RegionStill
<1>5. /\ RegionsFrom(a) # {}
      /\ \A r \in RegionsFrom(a) : r.addr = a /\ r.size = b - a
  BY <1>4, RegionThere
<1> QED BY <1>1, <1>2, <1>3, <1>5

\* the map has not changed, and the region at hand is still at hand or goes into the result
LEMMA HandUnchanged ==
  ASSUME IInv, Exact, AtHand, UNCHANGED <<page, before, walk>>
  PROVE  /\ Drifted' /\ Even' /\ Passed'
         /\ UNCHANGED <<before, job, targets>> /\ cursor' = EndAddr(region)
         /\ \A p \in Space : page'[p] # before[p] =>
              \/ \E i \in DOMAIN found : p \in Extent(found[i]) /\ ~found[i].read
              \/ p \in Extent(region)
BY HandInOrder DEF Exact, Drifted, Even, Passed, Explained, Same, MadeReadable, walk

LEMMA LookUpExact ==
  ASSUME IInv, Exact, Uniform(before), LookUp, setting.why # "access"
  PROVE  Exact'
<1>1. pc = "lookup" /\ AtHand
  BY DEF LookUp, AtHand
<1>2. PICK r \in RegionsFrom(setting.addr) :
        /\ seen' = r /\ pc' = "protect" /\ UNCHANGED <<walk, region, setting, found, page>>
  BY <1>1, LookUpFinds DEF LookUp
<1>3. r.addr = region.addr /\ r.size = region.size
  BY <1>1, LookUpFinds
<1>4. AtHand' /\ region' = region /\ found' = found
  BY <1>2 DEF AtHand
<1>5. UNCHANGED <<page, before, walk, job, targets, it>>
  BY <1>2 DEF walk
<1>6. NextInOrder(region) /\ region \in Region
  BY <1>1, HandInOrder
<1>7. CallExact'
  <2>1. /\ WasRegion(region)' <=> WasRegion(region)
        /\ HasTarget(region)' <=> HasTarget(region)
        /\ Beyond(region)' <=> Beyond(region)
        /\ Open(before, region)' <=> Open(before, region)
        /\ \A i \in DOMAIN found : HasTarget(found[i])' <=> HasTarget(found[i])
        /\ \A p : (Same(p)' <=> Same(p)) /\ (MadeReadable(p)' <=> MadeReadable(p))
        /\ Extent(region)' = Extent(region)
    BY <1>4, <1>5 DEF WasRegion, IsRegion, EndAddr, HasTarget, Beyond, Open, Extent, Same,
          MadeReadable
  <2>2. /\ job # "list" /\ WasRegion(region)
        /\ job = "targets" => \A i \in DOMAIN found : HasTarget(found[i])
        /\ job = "targets" /\ ~HasTarget(region) => Beyond(region)
        /\ setting.addr = region.addr /\ "r" \notin region.prot
        /\ \/ /\ setting.why = "unprotect" /\ setting.prot = region.prot \cup {"r"}
              /\ \A p \in Extent(region) : Same(p)
              /\ region.read = FALSE
           \/ /\ setting.why = "restore" /\ setting.prot = region.prot
              /\ \A p \in Extent(region) : MadeReadable(p)
              /\ region.read = TRUE /\ Open(before, region)
    BY <1>1 DEF Exact, CallExact
  <2>3. /\ job' # "list" /\ WasRegion(region)'
        /\ job' = "targets" => \A i \in DOMAIN found' : HasTarget(found[i])'
        /\ job' = "targets" /\ ~HasTarget(region)' => Beyond(region)'
    BY <1>4, <1>5, <2>1, <2>2
  <2>4. /\ setting' = setting /\ region' = region /\ pc' = "protect"
        /\ seen'.addr = region.addr /\ seen'.size = region.size
    BY <1>2, <1>3
  <2> QED BY <2>1, <2>2, <2>3, <2>4 DEF CallExact
<1> QED BY <1>1, <1>4, <1>5, <1>6, <1>7, HandUnchanged, HandExact

\* the region set_protection is about to change is the one at hand
LEMMA SeenIsHand ==
  ASSUME IInv, Exact, pc = "protect", AtHand
  PROVE  /\ Extent(seen) = Extent(region)
         /\ \A prot : Protected(seen, prot) = Protected(region, prot)
BY DEF Exact, CallExact, Extent, Protected

LEMMA ProtectFailsExact ==
  ASSUME IInv, Exact, Uniform(before), ProtectFails, setting.why # "access"
  PROVE  Exact'
<1>1. pc = "protect" /\ AtHand /\ UNCHANGED <<page, walk>> /\ Store(region)
  BY DEF ProtectFails, AtHand, Throw
<1>2. /\ region \in Region /\ WasRegion(region) /\ EndAddr(region) <= N /\ NextInOrder(region)
  BY <1>1, HandInOrder, SpaceFacts DEF NextInOrder
<1>3. PICK p \in Extent(region) :
        ~(Mapped(p) /\ ("r" \in setting.prot => page[p].obj \notin Guarded))
  BY <1>1, SeenIsHand DEF ProtectFails, MayProtect
<1>4. /\ p \in Space /\ before[p] # Gone /\ before[p].prot = region.prot
      /\ Same(p) => page[p] = before[p]
      /\ MadeReadable(p) => page[p] # Gone
  BY <1>2, HandPages
<1>5. setting.why = "unprotect" /\ region.read = FALSE /\ Same(p) /\ "r" \notin region.prot
  <2>1. CASE setting.why = "restore"
    <3>1. "r" \notin setting.prot /\ MadeReadable(p)
      BY <1>1, <2>1 DEF Exact, CallExact
    <3> QED BY <1>3, <1>4, <3>1 DEF Mapped
  <2>2. CASE setting.why # "restore"
    BY <1>1, <2>2 DEF Exact, CallExact
  <2> QED BY <2>1, <2>2
<1>6. ~Open(before, region)
  BY <1>3, <1>4, <1>5 DEF Mapped, Open
<1>7. region.read = (job # "list" /\ Open(before, region))
  BY <1>5, <1>6
<1>8. job = "targets" /\ ~HasTarget(region) => PassedBy(region)
  BY <1>1 DEF Exact, CallExact, Beyond, PassedBy, walk
<1>9. UNCHANGED <<page, before, walk>>
  BY <1>1 DEF walk
<1>10. \A q \in Space : page'[q] # before[q] =>
         \/ \E i \in DOMAIN found : q \in Extent(found[i]) /\ ~found[i].read
         \/ q \in Extent(region) /\ ~region.read
  BY <1>1, <1>5, <1>9, HandUnchanged
<1> QED BY <1>1, <1>2, <1>7, <1>8, <1>9, <1>10, HandUnchanged, StoreExact

\* set_protection changes the whole region at hand, and nothing else
LEMMA ProtectPages ==
  ASSUME IInv, Exact, Uniform(before), Protect, setting.why # "access"
  PROVE  /\ UNCHANGED <<before, walk, job, targets, it>>
         /\ \A p \in Space : p \notin Extent(region) => page'[p] = page[p]
         /\ \A p \in Extent(region) :
              /\ setting.why = "unprotect" =>
                   page'[p] = Raised(before[p]) /\ before[p].obj \notin Guarded
              /\ setting.why = "restore" => page'[p] = before[p]
<1>1. pc = "protect" /\ AtHand
  BY DEF Protect, AtHand
<1>2. /\ region \in Region /\ WasRegion(region) /\ EndAddr(region) <= N
  BY <1>1, HandInOrder, SpaceFacts DEF NextInOrder
<1>3. page' = Protected(region, setting.prot) /\ UNCHANGED <<before, walk, job, targets, it>>
  BY <1>1, SeenIsHand DEF Protect, Store, walk
<1>4. \A p \in Space : p \notin Extent(region) => page'[p] = page[p]
  BY <1>3 DEF Protected
<1>5. ASSUME NEW p \in Extent(region)
      PROVE  /\ setting.why = "unprotect" =>
                  page'[p] = Raised(before[p]) /\ before[p].obj \notin Guarded
             /\ setting.why = "restore" => page'[p] = before[p]
  <2>1. /\ p \in Space /\ before[p] \in Mappings /\ before[p].prot = region.prot
        /\ Same(p) => page[p] = before[p]
        /\ MadeReadable(p) => page[p] = Raised(before[p])
    BY <1>2, HandPages
  <2>2. page'[p] = [page[p] EXCEPT !.prot = setting.prot]
    BY <1>3, <2>1 DEF Protected
  <2>3. PICK o \in Objects, pr \in Protections : before[p] = [obj |-> o, prot |-> pr]
    BY <2>1 DEF Mappings
  <2>4. pr = region.prot /\ before[p].obj = o
    BY <2>1, <2>3
  <2>5. Raised(before[p]) = [obj |-> o, prot |-> pr \cup {"r"}]
    BY <2>3 DEF Raised
  <2>6. ASSUME setting.why = "unprotect"
        PROVE  page'[p] = Raised(before[p]) /\ before[p].obj \notin Guarded
    <3>1. Same(p) /\ setting.prot = region.prot \cup {"r"}
      BY <1>1, <2>6 DEF Exact, CallExact
    <3>2. page'[p] = [obj |-> o, prot |-> pr \cup {"r"}]
      BY <2>1, <2>2, <2>3, <2>4, <3>1
    <3>3. MayProtect(seen, setting.prot) /\ Extent(seen) = Extent(region)
      BY <1>1, SeenIsHand DEF Protect
    <3>4. page[p].obj \notin Guarded
      BY <3>1, <3>3 DEF MayProtect
    <3> QED BY <2>1, <2>5, <3>1, <3>2, <3>4
  <2>7. ASSUME setting.why = "restore" PROVE page'[p] = before[p]
    <3>1. MadeReadable(p) /\ setting.prot = region.prot
      BY <1>1, <2>7 DEF Exact, CallExact
    <3>2. page[p] = [obj |-> o, prot |-> pr \cup {"r"}]
      BY <2>1, <2>5, <3>1
    <3>3. page'[p] = [obj |-> o, prot |-> pr]
      BY <2>2, <2>4, <3>1, <3>2
    <3> QED BY <2>3, <3>3
  <2> QED BY <2>6, <2>7
<1> QED BY <1>3, <1>4, <1>5

LEMMA ProtectExact ==
  ASSUME IInv, Exact, Uniform(before), Protect, setting.why # "access"
  PROVE  Exact'
<1>1. pc = "protect" /\ AtHand /\ setting.why \in {"unprotect", "restore"}
  BY DEF Protect, AtHand, Exact, CallExact
<1>2. /\ region \in Region /\ WasRegion(region) /\ EndAddr(region) \in 1..N
      /\ NextInOrder(region) /\ EndAddr(region) = cursor
  BY <1>1, HandInOrder, SpaceFacts DEF NextInOrder
<1>3. /\ UNCHANGED <<before, walk, job, targets, it>> /\ cursor' = EndAddr(region)
      /\ \A p \in Space : p \notin Extent(region) => page'[p] = page[p]
  BY <1>2, ProtectPages DEF walk
<1>4. \A p \in Extent(region) : p \in Space /\ before[p] # Gone /\ before[p].prot = region.prot
  BY <1>2, HandPages, SpaceFacts
<1>5. "r" \notin region.prot
  BY <1>1 DEF Exact, CallExact
<1>6. \A p \in Extent(region) :
        /\ setting.why = "unprotect" => MadeReadable(p)' /\ before[p].obj \notin Guarded
        /\ setting.why = "restore" => Same(p)'
  BY <1>3, <1>4, <1>5, ProtectPages DEF MadeReadable, Same
<1>7. Drifted'
  <2> SUFFICES ASSUME NEW p \in Space PROVE Same(p)' \/ MadeReadable(p)'
    BY DEF Drifted
  <2>1. CASE p \in Extent(region)
    BY <1>1, <1>6, <2>1
  <2>2. CASE p \notin Extent(region)
    BY <1>3, <2>2 DEF Exact, Drifted, Same, MadeReadable
  <2> QED BY <2>1, <2>2
<1>8. Even'
  <2> SUFFICES ASSUME NEW p \in Space, p + 1 \in Space, before[p] = before[p + 1]
               PROVE  page'[p] = page'[p + 1]
    BY <1>3 DEF Even
  <2>1. p \in Extent(region) <=> p + 1 \in Extent(region)
    <3>1. /\ p \in Nat /\ p + 1 \in Nat /\ region.addr \in Nat /\ EndAddr(region) \in Nat
          /\ Extent(region) = region.addr .. (EndAddr(region) - 1) /\ N \in Nat
          /\ region.addr < EndAddr(region) /\ p + 1 < N
      BY <1>2, ExtentFacts, SpaceFacts
    <3>2. \A q \in Extent(region) : before[q] = before[region.addr]
      BY <1>2, <3>1 DEF WasRegion, IsRegion
    <3>3. CASE p \in Extent(region) /\ p + 1 \notin Extent(region)
      <4>1. p + 1 = EndAddr(region) /\ EndAddr(region) < N
        BY <3>1, <3>3
      <4>2. before[EndAddr(region)] # before[region.addr]
        BY <1>2, <4>1 DEF WasRegion, IsRegion
      <4> QED BY <3>2, <3>3, <4>1, <4>2
    <3>4. CASE p \notin Extent(region) /\ p + 1 \in Extent(region)
      <4>1. p + 1 = region.addr /\ p = region.addr - 1 /\ region.addr > 0
        BY <3>1, <3>4
      <4>2. before[region.addr - 1] # before[region.addr]
        BY <1>2, <4>1 DEF WasRegion, IsRegion
      <4> QED BY <4>1, <4>2
    <3> QED BY <3>3, <3>4
  <2>2. CASE p \in Extent(region)
    <3>1. p + 1 \in Extent(region)
      BY <2>1, <2>2
    <3>2. /\ page'[p] = Raised(before[p]) \/ page'[p] = before[p]
          /\ setting.why = "unprotect" =>
               page'[p] = Raised(before[p]) /\ page'[p + 1] = Raised(before[p + 1])
          /\ setting.why = "restore" =>
               page'[p] = before[p] /\ page'[p + 1] = before[p + 1]
      BY <1>1, <2>2, <3>1, ProtectPages
    <3> QED BY <1>1, <3>2
  <2>3. CASE p \notin Extent(region)
    <3>1. page'[p] = page[p] /\ page'[p + 1] = page[p + 1]
      BY <1>3, <2>1, <2>3
    <3> QED BY <3>1 DEF Exact, Even
  <2> QED BY <2>2, <2>3
<1>9. Passed'
  BY <1>3 DEF Exact, Passed, walk
<1>10. \A p \in Space : page'[p] # before[p] /\ p \notin Extent(region) =>
         \E i \in DOMAIN found : p \in Extent(found[i]) /\ ~found[i].read
  BY <1>3 DEF Exact, Explained, Same
<1>11. job # "list" /\ (job = "targets" /\ ~HasTarget(region) => PassedBy(region))
  BY <1>1, <1>3 DEF Exact, CallExact, Beyond, PassedBy
<1>12. CASE setting.why = "unprotect"
  <2>1. /\ pc' = "read" /\ region' = region /\ found' = found /\ AtHand'
    BY <1>12 DEF Protect, AtHand
  <2>2. CallExact'
    <3>1. /\ \A p \in Extent(region) : MadeReadable(p)' /\ before'[p].obj \notin Guarded
      BY <1>3, <1>6, <1>12
    <3>2. /\ WasRegion(region)' /\ Extent(region)' = Extent(region)
          /\ job' = "targets" => \A i \in DOMAIN found' : HasTarget(found[i])'
          /\ job' = "targets" /\ ~HasTarget(region)' => Beyond(region)'
      <4>1. /\ WasRegion(region)' <=> WasRegion(region)
            /\ HasTarget(region)' <=> HasTarget(region)
            /\ \A i \in DOMAIN found : HasTarget(found[i])' <=> HasTarget(found[i])
            /\ PassedBy(region) => Beyond(region)'
            /\ Extent(region)' = Extent(region)
        BY <1>3, <2>1 DEF WasRegion, IsRegion, EndAddr, HasTarget, Beyond, PassedBy, Extent
      <4> QED BY <1>2, <1>3, <1>11, <2>1, <4>1 DEF NextInOrder
    <3> QED BY <1>3, <1>5, <1>11, <2>1, <3>1, <3>2 DEF CallExact
  <2>3. \A p \in Space : page'[p] # before[p] =>
          \/ \E i \in DOMAIN found : p \in Extent(found[i]) /\ ~found[i].read
          \/ p \in Extent(region)
    BY <1>10
  <2> QED BY <1>2, <1>3, <1>7, <1>8, <1>9, <2>1, <2>2, <2>3, HandExact
<1>13. CASE setting.why = "restore"
  <2>1. Store(region) /\ region.read = TRUE /\ Open(before, region)
    BY <1>1, <1>13 DEF Protect, Exact, CallExact
  <2>2. region.read = (job # "list" /\ Open(before, region))
    BY <1>11, <2>1
  <2>3. \A p \in Space : page'[p] # before[p] =>
          \/ \E i \in DOMAIN found : p \in Extent(found[i]) /\ ~found[i].read
          \/ p \in Extent(region) /\ ~region.read
    BY <1>3, <1>6, <1>10, <1>13 DEF Same
  <2> QED BY <1>2, <1>3, <1>7, <1>8, <1>9, <1>11, <2>1, <2>2, <2>3, StoreExact
<1> QED BY <1>1, <1>12, <1>13

\* a read succeeds when the pages can be got at, since they have been made readable
LEMMA CanReadIfOpen ==
  ASSUME IInv, Exact, pc = "read"
  PROVE  CanRead(region) <=> Open(before, region)
<1>1. AtHand
  BY DEF AtHand
<1>2. /\ region \in Region /\ WasRegion(region) /\ EndAddr(region) <= N
  BY <1>1, HandInOrder, SpaceFacts DEF NextInOrder
<1>3. ASSUME NEW p \in Extent(region)
      PROVE  /\ Mapped(p) /\ "r" \in page[p].prot /\ page[p].obj = before[p].obj
             /\ "r" \in before[p].prot \/ before[p].obj \notin Guarded
  <2>1. /\ p \in Space /\ before[p] # Gone /\ before[p].prot = region.prot
        /\ Same(p) => page[p] = before[p]
        /\ MadeReadable(p) =>
             page[p] # Gone /\ page[p].obj = before[p].obj /\ page[p].prot = region.prot \cup {"r"}
    BY <1>2, HandPages
  <2>2. CASE "r" \in region.prot
    <3>1. Same(p)
      BY <1>1, <2>2 DEF Exact, CallExact
    <3> QED BY <2>1, <2>2, <3>1 DEF Mapped
  <2>3. CASE "r" \notin region.prot
    <3>1. MadeReadable(p) /\ before[p].obj \notin Guarded
      BY <1>1, <2>3 DEF Exact, CallExact
    <3> QED BY <2>1, <3>1 DEF Mapped
  <2> QED BY <2>2, <2>3
<1> QED BY <1>3 DEF CanRead, Open

\* what is said of a region depends on where it is and how it was protected
LEMMA SamePlace ==
  ASSUME NEW q, q.addr = region.addr, q.size = region.size, q.prot = region.prot
  PROVE  /\ Extent(q) = Extent(region) /\ EndAddr(q) = EndAddr(region)
         /\ WasRegion(q) <=> WasRegion(region)
         /\ NextInOrder(q) <=> NextInOrder(region)
         /\ HasTarget(q) <=> HasTarget(region)
         /\ Beyond(q) <=> Beyond(region)
         /\ Open(before, q) <=> Open(before, region)
<1>1. Extent(q) = Extent(region) /\ EndAddr(q) = EndAddr(region)
  BY DEF Extent, EndAddr
<1>2. WasRegion(q) <=> WasRegion(region)
  BY <1>1 DEF WasRegion
<1>3. NextInOrder(q) <=> NextInOrder(region)
  BY <1>1, <1>2 DEF NextInOrder
<1> QED BY <1>1, <1>2, <1>3 DEF HasTarget, Beyond, Open

LEMMA ReadExact ==
  ASSUME IInv, Exact, Uniform(before), Read
  PROVE  Exact'
<1>1. pc = "read" /\ AtHand /\ UNCHANGED <<page, walk>>
  BY DEF Read, AtHand
<1>2. /\ region \in Region /\ WasRegion(region) /\ EndAddr(region) = cursor
      /\ NextInOrder(region)
  BY <1>1, HandInOrder DEF NextInOrder
<1>3. /\ Drifted' /\ Even' /\ Passed'
      /\ UNCHANGED <<before, job, targets, it>> /\ cursor' = EndAddr(region)
      /\ \A p \in Space : page'[p] # before[p] =>
           \/ \E i \in DOMAIN found : p \in Extent(found[i]) /\ ~found[i].read
           \/ p \in Extent(region)
  <2>1. UNCHANGED <<page, before, walk, it>>
    BY <1>1 DEF walk
  <2> QED BY <1>1, <2>1, HandUnchanged
<1>4. job # "list" /\ (job = "targets" /\ ~HasTarget(region) => Beyond(region))
  BY <1>1 DEF Exact, CallExact
<1>5. ASSUME NEW b \in BOOLEAN
      PROVE  \E q \in Region : /\ q = [region EXCEPT !.read = b]
                               /\ q.addr = region.addr /\ q.size = region.size
                               /\ q.prot = region.prot /\ q.read = b
  <2>1. [region EXCEPT !.read = b] \in Region
    BY <1>2 DEF Region
  <2>2. PICK q \in Region : q = [region EXCEPT !.read = b]
    BY <2>1
  <2>3. q.addr = region.addr /\ q.size = region.size /\ q.prot = region.prot /\ q.read = b
    BY <1>2, <2>2 DEF Region
  <2> QED BY <2>2, <2>3
<1>6. CASE CanRead(region) /\ "r" \notin region.prot
  <2>1. PICK q \in Region :
          /\ q = [region EXCEPT !.read = TRUE]
          /\ q.addr = region.addr /\ q.size = region.size
          /\ q.prot = region.prot /\ q.read = TRUE
    BY <1>5
  <2>2. /\ pc' = "lookup" /\ region' = q /\ found' = found
        /\ setting' = [why |-> "restore", addr |-> region.addr, prot |-> region.prot]
    BY <1>6, <2>1 DEF Read, Call
  <2>3. AtHand'
    BY <2>2 DEF AtHand
  <2>4. /\ Extent(q) = Extent(region) /\ EndAddr(q) = EndAddr(region) /\ NextInOrder(q)
        /\ WasRegion(q) /\ Open(before, q)
        /\ job = "targets" /\ ~HasTarget(q) => Beyond(q)
    BY <1>1, <1>2, <1>4, <1>6, <2>1, SamePlace, CanReadIfOpen
  <2>5. \A p \in Extent(q) : MadeReadable(p)
    BY <1>1, <1>6, <2>4 DEF Exact, CallExact
  <2>6. CallExact'
    <3>1. /\ WasRegion(region)' /\ Open(before, region)'
          /\ job' = "targets" => \A i \in DOMAIN found' : HasTarget(found[i])'
          /\ job' = "targets" /\ ~HasTarget(region)' => Beyond(region)'
          /\ \A p \in Extent(region)' : MadeReadable(p)'
      <4>1. /\ WasRegion(region)' <=> WasRegion(q)
            /\ Open(before, region)' <=> Open(before, q)
            /\ HasTarget(region)' <=> HasTarget(q)
            /\ Beyond(region)' <=> Beyond(q)
            /\ \A i \in DOMAIN found : HasTarget(found[i])' <=> HasTarget(found[i])
            /\ Extent(region)' = Extent(q)
            /\ \A p : MadeReadable(p)' <=> MadeReadable(p)
        BY <1>1, <1>3, <2>2 DEF WasRegion, IsRegion, EndAddr, HasTarget, Beyond, Open, Extent,
              MadeReadable
      <4> QED BY <1>3, <2>2, <2>4, <2>5, <4>1 DEF NextInOrder
    <3> QED BY <1>3, <1>4, <1>6, <2>1, <2>2, <3>1 DEF CallExact
  <2> QED BY <1>3, <2>2, <2>3, <2>4, <2>6, HandExact
<1>7. CASE ~(CanRead(region) /\ "r" \notin region.prot)
  <2>1. PICK b \in BOOLEAN : b = CanRead(region)
    BY Zenon DEF CanRead
  <2>2. PICK q \in Region :
          /\ q = [region EXCEPT !.read = b]
          /\ q.addr = region.addr /\ q.size = region.size
          /\ q.prot = region.prot /\ q.read = b
    BY <1>5
  <2>3. Store(q)
    BY <1>7, <2>1, <2>2 DEF Read
  <2>4. /\ Extent(q) = Extent(region) /\ EndAddr(q) = EndAddr(region) /\ NextInOrder(q)
        /\ job = "targets" /\ ~HasTarget(q) => PassedBy(q)
        /\ b <=> Open(before, q)
    <3>1. job = "targets" /\ ~HasTarget(q) => Beyond(q)
      BY <1>4, <2>2, SamePlace
    <3>2. Beyond(q) => PassedBy(q)
      BY <1>3 DEF Beyond, PassedBy
    <3> QED BY <1>1, <1>2, <2>1, <2>2, <3>1, <3>2, SamePlace, CanReadIfOpen
  <2>5. q.read = (job # "list" /\ Open(before, q))
    BY <1>4, <2>2, <2>4
  <2>6. \A p \in Space : page'[p] # before[p] =>
          \/ \E i \in DOMAIN found : p \in Extent(found[i]) /\ ~found[i].read
          \/ p \in Extent(q) /\ ~q.read
    <3> SUFFICES ASSUME NEW p \in Space, page'[p] # before[p], p \in Extent(region)
                 PROVE  ~q.read
      BY <1>3, <2>4
    <3>1. ~Same(p)
      BY <1>1 DEF Same
    <3>2. "r" \notin region.prot
      BY <1>1, <3>1 DEF Exact, CallExact
    <3> QED BY <1>7, <2>1, <2>2, <3>2
  <2> QED BY <1>3, <2>3, <2>4, <2>5, <2>6, StoreExact
<1> QED BY <1>6, <1>7

(***************************************************************************)
(* Every step.                                                             *)
(***************************************************************************)
LEMMA ReadyStays ==
  ASSUME IInv, Ready, [Next]_vars
  PROVE  Ready'
<1>1. ASSUME NEW b \in BOOLEAN, NEW kind \in {"list", "all", "targets"}, NEW t,
             StartWalk(kind, t, b)
      PROVE  Ready'
  BY <1>1 DEF StartWalk, Ready
<1>2. ASSUME NEW addr \in Space, NEW prot \in Rights, StartAccess(addr, prot)
      PROVE  Ready'
  BY <1>2 DEF StartAccess, Ready
<1>3. CASE Idle
  BY <1>3 DEF Idle, Ready
<1>4. CASE NextRegion
  <2>1. pc = "next" /\ UNCHANGED <<paused, job>>
    BY <1>4 DEF NextRegion
  <2>2. pc' \in {"next", "read"} \/ (pc' = "lookup" /\ setting'.why = "unprotect")
    BY <1>4, <2>1 DEF NextRegion, NextTargetRegion, ReadOf, Call, Store, Skip
  <2> QED BY <2>1, <2>2 DEF Ready
<1>5. ASSUME UNCHANGED walk, Store(region) PROVE Ready'
  BY <1>5 DEF Store, Ready, walk
<1>6. CASE LookUp
  <2>1. CASE Throw
    BY <1>3, <1>5, <2>1 DEF Throw
  <2>2. CASE pc' = "protect" /\ UNCHANGED <<walk, setting>>
    BY <1>6, <2>2 DEF LookUp, Ready, walk
  <2> QED BY <1>6, <2>1, <2>2 DEF LookUp
<1>7. CASE ProtectFails
  BY <1>3, <1>5, <1>7 DEF ProtectFails, Throw
<1>8. CASE Protect
  <2>1. CASE setting.why = "unprotect"
    BY <1>8, <2>1 DEF Protect, Ready, walk
  <2> QED BY <1>3, <1>5, <1>8, <2>1 DEF Protect
<1>9. CASE Read
  BY <1>9 DEF Read, Call, Store, Ready, walk
<1>10. CASE TargetRuns
  BY <1>10 DEF TargetRuns, Ready, walk
<1>11. CASE UNCHANGED vars
  BY <1>11 DEF vars, Ready
<1>12. CASE Finish
  BY <1>3, <1>12 DEF Finish
<1> QED
  BY <1>1, <1>2, <1>4, <1>6, <1>7, <1>8, <1>9, <1>10, <1>11, <1>12 DEF Next, Working

\* a walk begins with the map as it is
LEMMA StartExact ==
  ASSUME IInv, Ready, NEW kind \in {"list", "all", "targets"}, NEW t \in Targets \cup {<<>>},
         StartWalk(kind, t, TRUE)
  PROVE  Exact'
<1>1. /\ pc' = "next" /\ targets' = t /\ page' = page /\ before' = page
      /\ cursor' = 0 /\ found' = <<>> /\ it' = 1
  BY DEF StartWalk, Ready
<1>2. \A p : Same(p)'
  BY <1>1 DEF Same
<1>3. Drifted' /\ Even' /\ Explained' /\ Ascends' /\ CallExact'
  BY <1>1, <1>2 DEF Drifted, Even, Explained, Ascends, CallExact, AtHand, Same
<1>4. FoundExact' /\ FoundApart'
  BY <1>1 DEF FoundExact, FoundApart, AtHand
<1>5. FoundAll' /\ Border(cursor)'
  BY <1>1, SpaceFacts DEF FoundAll, Border
<1>6. Passed'
  <2>1. <<>> \in Seq(Space) /\ \A u \in Targets : u \in Seq(Space)
    BY AdapterAssumption
  <2>2. t \in Seq(Space)
    BY <2>1
  <2>3. \A k \in DOMAIN t : ~(k < 1)
    BY <2>2
  <2> QED BY <1>1, <2>3 DEF Passed
<1> QED BY <1>3, <1>4, <1>5, <1>6 DEF Exact

LEMMA StepWalkInv == IInv /\ WalkInv /\ [Next]_vars => WalkInv'
<1> SUFFICES ASSUME IInv, WalkInv, [Next]_vars, Steady' PROVE Exact'
  BY ReadyStays DEF WalkInv
<1>0. Ready /\ paused' /\ Uniform(before)'
  BY DEF WalkInv, Steady
<1>1. ASSUME NEW b \in BOOLEAN, NEW kind \in {"list", "all", "targets"},
             NEW t \in Targets \cup {<<>>}, StartWalk(kind, t, b)
      PROVE  Exact'
  <2>1. b = TRUE
    BY <1>0, <1>1 DEF StartWalk
  <2> QED BY <1>0, <1>1, <2>1, StartExact
<1>2. ASSUME NEW addr \in Space, NEW prot \in Rights, StartAccess(addr, prot)
      PROVE  Exact'
  BY <1>0, <1>2 DEF StartAccess, Ready
<1>3. ~Idle
  BY <1>0 DEF Idle
<1>4. ASSUME UNCHANGED <<paused, before>>
      PROVE  Exact /\ Uniform(before) /\ paused
  BY <1>0, <1>4 DEF WalkInv, Steady, Uniform
<1>5. CASE NextRegion
  BY <1>4, <1>5, NextRegionExact DEF NextRegion
<1>6. CASE LookUp
  <2>1. UNCHANGED <<paused, before>> /\ pc = "lookup"
    BY <1>3, <1>6 DEF LookUp, Throw, walk
  <2> QED BY <1>0, <1>4, <1>6, <2>1, LookUpExact DEF Ready
<1>7. CASE ProtectFails
  <2>1. UNCHANGED <<paused, before>> /\ pc = "protect"
    BY <1>3, <1>7 DEF ProtectFails, Throw, walk
  <2> QED BY <1>0, <1>4, <1>7, <2>1, ProtectFailsExact DEF Ready
<1>8. CASE Protect
  <2>1. UNCHANGED <<paused, before>> /\ pc = "protect"
    BY <1>3, <1>8 DEF Protect, walk
  <2> QED BY <1>0, <1>4, <1>8, <2>1, ProtectExact DEF Ready
<1>9. CASE Read
  <2>1. UNCHANGED <<paused, before>>
    BY <1>9 DEF Read, walk
  <2> QED BY <1>4, <1>9, <2>1, ReadExact
<1>10. CASE TargetRuns
  BY <1>0, <1>10 DEF TargetRuns, walk
<1>11. CASE UNCHANGED vars
  <2>1. Exact
    BY <1>4, <1>11 DEF vars
  <2> QED BY <1>11, <2>1 DEF vars, Exact, Drifted, Even, Border, FoundExact, FoundApart, FoundAll,
          Explained, Passed, CallExact, Ascends, Same, MadeReadable, WasRegion, IsRegion, EndAddr,
          Beyond, Wanted, HasTarget, Open, Extent, AtHand
<1>12. CASE Finish
  BY <1>3, <1>12 DEF Finish
<1> QED
  BY <1>1, <1>2, <1>5, <1>6, <1>7, <1>8, <1>9, <1>10, <1>11, <1>12 DEF Next, Working

LEMMA InitWalkInv == Init => WalkInv
BY DEF Init, WalkInv, Ready, Steady

\* Every reachable state of a walk under a PauseGuard satisfies the invariant of the map
\* that is uniform, whatever ran before it (get_all_regions, get_target_regions, read).
THEOREM WalkInductive == Spec => []WalkInv
BY Inductive, InitWalkInv, StepWalkInv, PTL DEF Spec

\* For every address space, map, kind of object and list of results: the walk of a paused
\* target returns the regions that were there, each once and in order, with the data that
\* can be had (get_all_regions, get_target_regions).
THEOREM WalksAreExact == Spec => PausedWalkExact
<1>1. ASSUME IInv, WalkInv, Finish, paused, Uniform(before)
      PROVE  /\ \A i \in DOMAIN found :
                  LET r == found[i] IN
                  /\ IsRegion(before, r.addr, EndAddr(r)) /\ r.prot = before[r.addr].prot
                  /\ r.read = (job # "list" /\ Open(before, r))
                  /\ job = "targets" /\ ~HasTarget(r) =>
                       i = Len(found) /\ \A k \in DOMAIN targets : targets[k] < r.addr
             /\ \A i, j \in DOMAIN found : i < j => EndAddr(found[i]) <= found[j].addr
             /\ \A p \in Space :
                  before[p] # Gone
                  /\ (job = "targets" => p \in {targets[k] : k \in DOMAIN targets}) =>
                    \E i \in DOMAIN found : p \in Extent(found[i])
  <2>1. Exact /\ pc = "next" /\ ~AtHand /\ WalkOver
    BY <1>1 DEF WalkInv, Steady, Finish, AtHand
  <2>2. ASSUME NEW p \in Space, Wanted(p) PROVE \E i \in DOMAIN found : p \in Extent(found[i])
    <3>1. p \in Nat /\ cursor \in Nat
      BY <1>1, WalkTypes, SpaceFacts
    <3>2. CASE p < cursor
      BY <2>1, <2>2, <3>2 DEF Exact, FoundAll
    <3>3. ASSUME cursor <= p PROVE FALSE
      <4>1. CASE RegionsFrom(cursor) = {}
        <5>1. Same(p) /\ before[p] # Gone
          BY <1>1, <2>1, <2>2, <3>3, AheadSame DEF Exact, Wanted
        <5>2. cursor > 0 /\ cursor < N => page[cursor - 1] # page[cursor]
          <6>1. ASSUME cursor > 0, cursor < N, page[cursor - 1] = page[cursor] PROVE FALSE
            <7>1. cursor - 1 \in Space /\ cursor \in Space
              BY <3>1, <6>1, SpaceFacts
            <7>2. before[cursor - 1] = before[cursor]
              BY <1>1, <2>1, <6>1, <7>1, WalkTypes, AlikeBefore DEF Exact
            <7> QED BY <2>1, <6>1, <7>2 DEF Exact, Border
          <6> QED BY <6>1
        <5>3. page[p] = Gone
          BY <3>1, <3>3, <4>1, <5>2, NothingLeft
        <5> QED BY <5>1, <5>3 DEF Same
      <4>2. CASE job = "targets" /\ it > Len(targets)
        <5>1. PICK k \in DOMAIN targets : p = targets[k]
          BY <2>2, <4>2 DEF Wanted
        <5>2. k < it
          BY <1>1, <4>2, WalkTypes
        <5>3. p < cursor
          BY <2>1, <5>1, <5>2 DEF Exact, Passed
        <5> QED BY <3>1, <3>3, <5>3
      <4> QED BY <2>1, <4>1, <4>2 DEF WalkOver
    <3> QED BY <3>1, <3>2, <3>3
  <2>3. \A p \in Space :
          before[p] # Gone
          /\ (job = "targets" => p \in {targets[k] : k \in DOMAIN targets}) =>
            \E i \in DOMAIN found : p \in Extent(found[i])
    BY <2>2 DEF Wanted
  <2> QED BY <2>1, <2>3 DEF Exact, FoundExact, FoundApart, WasRegion, Beyond
<1>2. IInv /\ WalkInv /\ [Next]_vars =>
        [Finish /\ paused /\ Uniform(before) =>
           /\ \A i \in DOMAIN found :
                LET r == found[i] IN
                /\ IsRegion(before, r.addr, EndAddr(r)) /\ r.prot = before[r.addr].prot
                /\ r.read = (job # "list" /\ Open(before, r))
                /\ job = "targets" /\ ~HasTarget(r) =>
                     i = Len(found) /\ \A k \in DOMAIN targets : targets[k] < r.addr
           /\ \A i, j \in DOMAIN found : i < j => EndAddr(found[i]) <= found[j].addr
           /\ \A p \in Space :
                before[p] # Gone
                /\ (job = "targets" => p \in {targets[k] : k \in DOMAIN targets}) =>
                  \E i \in DOMAIN found : p \in Extent(found[i])]_vars
  BY <1>1
<1> QED BY <1>2, Inductive, WalkInductive, PTL DEF Spec, PausedWalkExact

\* For every such target, the walk takes no right from a page, and leaves one behind only in
\* a region whose read failed (read(Region&), set_protection).
THEOREM NothingTaken == Spec => ReadingTakesNothing
<1>1. ASSUME IInv, WalkInv, Finish, paused, Uniform(before)
      PROVE  \A p \in Space :
               \/ page[p] = before[p]
               \/ /\ page[p] = [before[p] EXCEPT !.prot = @ \cup {"r"}]
                  /\ \E i \in DOMAIN found : p \in Extent(found[i]) /\ ~found[i].read
  <2>1. Exact /\ ~AtHand
    BY <1>1 DEF WalkInv, Steady, Finish, AtHand
  <2> QED BY <2>1 DEF Exact, Drifted, Explained, Same, MadeReadable, Raised
<1>2. IInv /\ WalkInv /\ [Next]_vars =>
        [Finish /\ paused /\ Uniform(before) =>
           \A p \in Space :
             \/ page[p] = before[p]
             \/ /\ page[p] = [before[p] EXCEPT !.prot = @ \cup {"r"}]
                /\ \E i \in DOMAIN found : p \in Extent(found[i]) /\ ~found[i].read]_vars
  BY <1>1
<1> QED BY <1>2, Inductive, WalkInductive, PTL DEF Spec, ReadingTakesNothing
=============================================================================
