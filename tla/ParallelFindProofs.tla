------------------------- MODULE ParallelFindProofs -------------------------
(***************************************************************************)
(* For every number of workers and every snapshot: no region is scanned     *)
(* twice, what is found lies in the snapshot, and signal_all never meets a   *)
(* Signalable that is gone.                                                 *)
(*                                                                         *)
(* What is inductive is Owned: the worker whose exchange found a region     *)
(* unclaimed is the only one that scans it or has matches in it.            *)
(***************************************************************************)
EXTENDS ParallelFind, Lemmas, FiniteSetTheorems, TLAPS

\* who scans a region, and who has found something in it, has claimed it
Owned ==
  \A w \in Workers :
    /\ wpc[w] \in {"scan", "page"} => claimed[x[w]] = w
    /\ \A m \in found[w] : claimed[m[1]] = w

\* what is scanned or found is a hit of a readable region
Sound ==
  \A w \in Workers :
    /\ wpc[w] \in {"scan", "page"} => regions[x[w]].readable
    /\ \A m \in found[w] : regions[m[1]].readable /\ m[2] \in regions[m[1]].hits

\* the regions are those of the snapshot
FromSnapshot == \A k \in Index : \E j \in Index : regions[k] = Snapshot[j]

IInv == TypeOK /\ RegisteredLive /\ Owned /\ Sound /\ FromSnapshot

LEMMA SnapshotType == \A k \in Index : Snapshot[k] \in RegionType
BY FindAssumption DEF Index

LEMMA SortedType ==
  ASSUME NEW s \in Sorted
  PROVE  s \in [Index -> RegionType] /\ \A k \in Index : \E j \in Index : s[k] = Snapshot[j]
<1>1. PICK p \in [Index -> Index] : s = [k \in Index |-> Snapshot[p[k]]]
  BY DEF Sorted
<1> QED BY <1>1, SnapshotType

LEMMA InitIInv == Init => IInv
<1> SUFFICES ASSUME Init PROVE IInv
  OBVIOUS
<1>1. regions \in [Index -> RegionType] /\ FromSnapshot
  BY SortedType DEF Init, FromSnapshot
<1>2. Len(Snapshot) \in Nat
  BY FindAssumption
<1>3. TypeOK
  <2>1. /\ claimed \in [Index -> Workers \cup {Nobody}]
        /\ wpc \in [Workers -> WorkerPCs] /\ y \in [Workers -> Nat]
        /\ found \in [Workers -> SUBSET (Index \X Nat)]
        /\ find_results \subseteq Nat
        /\ \A w \in Workers : wpc[w] \notin {"scan", "page"}
    BY DEF Init, WorkerPCs
  <2>2. x \in [Workers -> 1..(Len(Snapshot) + 1)]
    BY <1>2 DEF Init
  <2>3. /\ searched_size \in Nat /\ main \in {"spawn", "poll", "join", "done", "killed"}
        /\ holder \in Workers \cup {Nobody} /\ registered \subseteq Workers
        /\ handler \in Workers \cup {Main, Nobody}
        /\ recent \in 0..2 /\ signals \in 0..MaxSignals
    BY FindAssumption DEF Init
  <2>4. signaled \in [Workers -> BOOLEAN] /\ same_second \in BOOLEAN
    BY Zenon DEF Init
  <2> QED BY <1>1, <2>1, <2>2, <2>3, <2>4 DEF TypeOK
<1>4. RegisteredLive
  BY FindAssumption DEF Init, RegisteredLive
<1>5. Owned /\ Sound
  BY DEF Init, Owned, Sound
<1> QED BY <1>1, <1>3, <1>4, <1>5 DEF IInv

(***************************************************************************)
(* Types.                                                                  *)
(***************************************************************************)
LEMMA NextRegionType ==
  ASSUME NEW w \in Workers, x[w] \in Index, NextRegion(w),
         x \in [Workers -> 1..(Len(Snapshot) + 1)], y \in [Workers -> Nat]
  PROVE  x' \in [Workers -> 1..(Len(Snapshot) + 1)] /\ y' \in [Workers -> Nat]
<1>1. x[w] + 1 \in 1..(Len(Snapshot) + 1)
  BY FindAssumption DEF Index
<1>2. x' = [x EXCEPT ![w] = x[w] + 1] /\ y' = [y EXCEPT ![w] = 0]
  BY DEF NextRegion
<1> QED BY <1>1, <1>2

LEMMA WorkerType ==
  ASSUME IInv, NEW w \in Workers, Worker(w)
  PROVE  TypeOK'
<1> USE DEF IInv, TypeOK, WorkerPCs, sig, Runs, Goto
<1>0. Len(Snapshot) \in Nat /\ Page \in Nat
  BY FindAssumption
<1>1. CASE LockSignalables(w)
  BY <1>1 DEF LockSignalables
<1>2. CASE Register(w)
  BY <1>2 DEF Register
<1>3. CASE Unregister(w)
  BY <1>3 DEF Unregister
<1>4. CASE SkipClaimed(w)
  <2>1. x' \in [Workers -> 1..(Len(Snapshot) + 1)] /\ y' \in [Workers -> Nat]
    BY <1>4, NextRegionType DEF SkipClaimed
  <2>2. \A v \in Workers : wpc'[v] \in {"scan", "page"} => x'[v] \in Index
    BY <1>4 DEF SkipClaimed, NextRegion
  <2> QED BY <1>4, <2>1, <2>2 DEF SkipClaimed
<1>5. CASE Claim(w)
  <2>1. x' \in [Workers -> 1..(Len(Snapshot) + 1)] /\ y' \in [Workers -> Nat]
    <3>1. CASE regions[x[w]].readable
      BY <1>5, <3>1 DEF Claim
    <3>2. CASE ~regions[x[w]].readable
      <4>1. NextRegion(w) /\ x[w] \in Index
        BY <1>5, <3>2 DEF Claim
      <4> QED BY <4>1, NextRegionType
    <3> QED BY <3>1, <3>2
  <2>2. \A v \in Workers : wpc'[v] \in {"scan", "page"} => x'[v] \in Index
    BY <1>5 DEF Claim, NextRegion
  <2>3. claimed' \in [Index -> Workers \cup {Nobody}] /\ wpc' \in [Workers -> WorkerPCs]
    BY <1>5 DEF Claim
  <2> QED BY <1>5, <2>1, <2>2, <2>3 DEF Claim
<1>6. CASE EnterPage(w)
  <2>1. searched_size' \in Nat
    BY <1>0, <1>6 DEF EnterPage
  <2> QED BY <1>6, <2>1 DEF EnterPage
<1>7. CASE MatchPage(w)
  <2> DEFINE here == {o \in regions[x[w]].hits : y[w] <= o /\ o < y[w] + Page}
  <2>1. x[w] \in Index /\ regions[x[w]].hits \subseteq Nat
    BY <1>7 DEF MatchPage, RegionType
  <2>2. found' \in [Workers -> SUBSET (Index \X Nat)]
    <3>1. {<<x[w], o>> : o \in here} \in SUBSET (Index \X Nat)
      BY <2>1
    <3>2. found' = [found EXCEPT ![w] = found[w] \cup {<<x[w], o>> : o \in here}]
      BY <1>7 DEF MatchPage
    <3> HIDE DEF here
    <3> QED BY <3>1, <3>2
  <2>3. y' \in [Workers -> Nat]
    BY <1>0, <1>7 DEF MatchPage
  <2>4. /\ wpc' \in [Workers -> WorkerPCs]
        /\ \A v \in Workers : wpc'[v] \in {"scan", "page"} => x'[v] \in Index
    BY <1>7 DEF MatchPage
  <2> HIDE DEF here
  <2> QED BY <1>7, <2>2, <2>3, <2>4 DEF MatchPage
<1>8. CASE LeaveRegion(w)
  <2>1. x' \in [Workers -> 1..(Len(Snapshot) + 1)] /\ y' \in [Workers -> Nat]
    BY <1>8, NextRegionType DEF LeaveRegion
  <2>2. \A v \in Workers : wpc'[v] \in {"scan", "page"} => x'[v] \in Index
    BY <1>8 DEF LeaveRegion, NextRegion
  <2> QED BY <1>8, <2>1, <2>2 DEF LeaveRegion
<1>9. CASE NoMoreRegions(w)
  BY <1>9 DEF NoMoreRegions
<1> QED
  BY <1>1, <1>2, <1>3, <1>4, <1>5, <1>6, <1>7, <1>8, <1>9 DEF Worker

Others == Shell \/ Tick \/ SignalAll \/ Idle \/ \E t \in HandlerThreads : Interrupt(t)

LEMMA OthersType ==
  ASSUME IInv, Others
  PROVE  TypeOK'
<1> USE DEF IInv, TypeOK, WorkerPCs, sig, pool, Runs, Goto
<1>1. CASE Spawn
  BY <1>1 DEF Spawn
<1>2. CASE AllSpawned \/ AllSearched
  BY <1>2 DEF AllSpawned, AllSearched
<1>3. CASE Poll \/ Idle
  BY <1>3 DEF Poll, Idle, vars
<1>4. CASE Collect
  <2>1. ASSUME NEW w \in Workers, NEW m \in found[w]
        PROVE  regions[m[1]].addr + m[2] \in Nat
    <3>1. m[1] \in Index /\ m[2] \in Nat
      OBVIOUS
    <3>2. regions[m[1]].addr \in Nat
      BY <3>1 DEF RegionType
    <3> QED BY <3>1, <3>2
  <2>2. find_results' \subseteq Nat
    BY <1>4, <2>1 DEF Collect
  <2> QED BY <1>4, <2>2 DEF Collect
<1>5. CASE Tick
  BY <1>5 DEF Tick
<1>6. CASE SignalAll
  <2>1. signaled' \in [Workers -> BOOLEAN]
    BY <1>6, Zenon DEF SignalAll
  <2> QED BY <1>6, <2>1 DEF SignalAll
<1>7. ASSUME NEW t \in HandlerThreads, Interrupt(t) PROVE TypeOK'
  <2>1. signals' \in 0..MaxSignals /\ recent' \in 0..2
    BY <1>7, FindAssumption DEF Interrupt
  <2>2. handler' \in Workers \cup {Main, Nobody} /\ same_second' \in BOOLEAN
    BY <1>7, FindAssumption DEF Interrupt
  <2>3. main' \in {"spawn", "poll", "join", "done", "killed"}
    BY <1>7 DEF Interrupt
  <2> QED BY <1>7, <2>1, <2>2, <2>3 DEF Interrupt
<1> QED
  BY <1>1, <1>2, <1>3, <1>4, <1>5, <1>6, <1>7 DEF Others, Shell

(***************************************************************************)
(* Signalable: who is registered, and who holds the lock.                  *)
(***************************************************************************)
LEMMA WorkerRegistered ==
  ASSUME IInv, NEW w \in Workers, Worker(w)
  PROVE  RegisteredLive'
<1> USE FindAssumption DEF IInv, TypeOK, RegisteredLive, Goto
<1>1. CASE LockSignalables(w)
  BY <1>1 DEF LockSignalables
<1>2. CASE Register(w)
  BY <1>2 DEF Register
<1>3. CASE Unregister(w)
  BY <1>3 DEF Unregister
<1>4. CASE SkipClaimed(w)
  BY <1>4 DEF SkipClaimed
<1>9. CASE Claim(w)
  <2>1. registered' = registered /\ holder' = holder
    BY <1>9 DEF Claim
  <2>2. \/ wpc' = wpc
        \/ wpc[w] = "claim" /\ wpc' = [wpc EXCEPT ![w] = "scan"]
    BY <1>9 DEF Claim
  <2> QED BY <2>1, <2>2
<1>5. CASE EnterPage(w)
  BY <1>5 DEF EnterPage
<1>7. CASE MatchPage(w)
  BY <1>7 DEF MatchPage
<1>8. CASE LeaveRegion(w)
  BY <1>8 DEF LeaveRegion
<1>6. CASE NoMoreRegions(w)
  BY <1>6 DEF NoMoreRegions
<1> QED
  BY <1>1, <1>2, <1>3, <1>4, <1>5, <1>6, <1>7, <1>8, <1>9 DEF Worker

LEMMA OthersRegistered ==
  ASSUME IInv, Others
  PROVE  RegisteredLive'
<1> USE DEF IInv, TypeOK, RegisteredLive, pool, sig
<1>1. CASE Spawn
  BY <1>1, FindAssumption DEF Spawn, Goto
<1>2. CASE AllSpawned \/ Poll \/ AllSearched \/ Collect
  BY <1>2 DEF AllSpawned, Poll, AllSearched, Collect, vars
<1>3. CASE Tick \/ SignalAll
  BY <1>3 DEF Tick, SignalAll
<1>5. CASE Idle
  BY <1>5 DEF Idle, vars
<1>4. ASSUME NEW t \in HandlerThreads, Interrupt(t) PROVE RegisteredLive'
  BY <1>4 DEF Interrupt
<1> QED
  BY <1>1, <1>2, <1>3, <1>4, <1>5 DEF Others, Shell

(***************************************************************************)
(* Claims.                                                                 *)
(***************************************************************************)
LEMMA WorkerOwned ==
  ASSUME IInv, NEW w \in Workers, Worker(w)
  PROVE  Owned' /\ Sound'
<1> USE DEF IInv, TypeOK, Goto, NextRegion, Owned, Sound
<1>1. CASE LockSignalables(w) \/ Register(w) \/ Unregister(w)
  BY <1>1 DEF LockSignalables, Register, Unregister
<1>2. CASE SkipClaimed(w)
  BY <1>2 DEF SkipClaimed
<1>3. CASE Claim(w)
  <2>1. x[w] \in Index /\ claimed[x[w]] = Nobody /\ claimed' = [claimed EXCEPT ![x[w]] = w]
    BY <1>3 DEF Claim
  <2>2. \A v \in Workers : \A m \in found[v] : m[1] # x[w]
    BY <2>1, FindAssumption
  <2>3. \A v \in Workers : \A m \in found'[v] : claimed'[m[1]] = v
    BY <1>3, <2>1, <2>2 DEF Claim
  <2>4. \A v \in Workers : wpc'[v] \in {"scan", "page"} =>
           claimed'[x'[v]] = v /\ regions'[x'[v]].readable
    <3> SUFFICES ASSUME NEW v \in Workers, wpc'[v] \in {"scan", "page"}
                 PROVE  claimed'[x'[v]] = v /\ regions'[x'[v]].readable
      OBVIOUS
    <3>1. CASE v = w
      BY <1>3, <2>1, <3>1 DEF Claim
    <3>2. CASE v # w
      <4>1. wpc[v] \in {"scan", "page"} /\ x'[v] = x[v]
        BY <1>3, <3>2 DEF Claim
      <4>2. x[v] # x[w]
        BY <2>1, <4>1, FindAssumption
      <4> QED BY <1>3, <2>1, <4>1, <4>2 DEF Claim
    <3> QED BY <3>1, <3>2
  <2> QED BY <1>3, <2>3, <2>4 DEF Claim
<1>4. CASE EnterPage(w)
  BY <1>4 DEF EnterPage
<1>6. CASE LeaveRegion(w)
  BY <1>6 DEF LeaveRegion
<1>7. CASE NoMoreRegions(w)
  BY <1>7 DEF NoMoreRegions
<1>5. CASE MatchPage(w)
  <2> DEFINE here == {o \in regions[x[w]].hits : y[w] <= o /\ o < y[w] + Page}
  <2>1. claimed[x[w]] = w /\ regions[x[w]].readable
    BY <1>5 DEF MatchPage
  <2>2. ASSUME NEW v \in Workers, NEW m \in found'[v]
        PROVE  \/ m \in found[v]
               \/ v = w /\ m[1] = x[w] /\ m[2] \in regions[x[w]].hits
    <3>1. found' = [found EXCEPT ![w] = found[w] \cup {<<x[w], o>> : o \in here}]
      BY <1>5 DEF MatchPage
    <3>2. here \subseteq regions[x[w]].hits
      OBVIOUS
    <3> HIDE DEF here
    <3>3. CASE v = w
      BY <2>2, <3>1, <3>2, <3>3
    <3>4. CASE v # w
      BY <2>2, <3>1, <3>4
    <3> QED BY <3>3, <3>4
  <2>3. \A v \in Workers : \A m \in found'[v] :
          /\ claimed[m[1]] = v
          /\ regions[m[1]].readable /\ m[2] \in regions[m[1]].hits
    BY <2>1, <2>2
  <2> HIDE DEF here
  <2> QED BY <1>5, <2>3 DEF MatchPage
<1> QED
  BY <1>1, <1>2, <1>3, <1>4, <1>5, <1>6, <1>7 DEF Worker

LEMMA OthersOwned ==
  ASSUME IInv, Others
  PROVE  Owned' /\ Sound'
<1> USE DEF IInv, TypeOK, Owned, Sound, pool, sig
<1>1. CASE Spawn
  BY <1>1 DEF Spawn, Goto
<1>2. CASE AllSpawned \/ Poll \/ AllSearched \/ Collect
  BY <1>2 DEF AllSpawned, Poll, AllSearched, Collect, vars
<1>3. CASE Tick \/ SignalAll
  BY <1>3 DEF Tick, SignalAll
<1>5. CASE Idle
  BY <1>5 DEF Idle, vars
<1>4. ASSUME NEW t \in HandlerThreads, Interrupt(t) PROVE Owned' /\ Sound'
  BY <1>4 DEF Interrupt
<1> QED
  BY <1>1, <1>2, <1>3, <1>4, <1>5 DEF Others, Shell

(***************************************************************************)
(* Sums.                                                                   *)
(***************************************************************************)
\* s[k] is the sum of the first k numbers
Prefixes(s, f, n) ==
  /\ s \in [0..n -> Nat] /\ s[0] = 0 /\ s[n] = SumTo(f, n)
  /\ \A k \in 0..(n - 1) : s[k + 1] = s[k] + f[k + 1]

LEMMA SumPrefixes ==
  ASSUME NEW n \in Nat, NEW f, f \in [1..n -> Nat]
  PROVE  \E s : Prefixes(s, f, n)
<1> DEFINE step == [k \in 1..n |-> [sum \in Nat |-> sum + f[k]]]
           s == CHOOSE g : g = [k \in 0..n |-> IF k = 0 THEN 0 ELSE g[k - 1] + f[k]]
<1>1. step \in Steps(n, Nat)
  BY DEF Steps
<1>2. PICK t : Computes(t, n, Nat, 0, step)
  <2> HIDE DEF step
  <2> QED BY <1>1, Recursion
<1>3. \A k \in 1..n : t[k] = t[k - 1] + f[k]
  <2> TAKE k \in 1..n
  <2>1. t[k - 1] \in Nat
    BY <1>2 DEF Computes
  <2>2. step[k][t[k - 1]] = t[k - 1] + f[k]
    BY <2>1
  <2> QED BY <1>2, <2>2 DEF Computes
<1>4. t = [k \in 0..n |-> IF k = 0 THEN 0 ELSE t[k - 1] + f[k]]
  <2> HIDE DEF step
  <2> QED BY <1>2, <1>3 DEF Computes
<1>5. s = [k \in 0..n |-> IF k = 0 THEN 0 ELSE s[k - 1] + f[k]]
  BY <1>4
<1>6. SumTo(f, n) = s[n]
  BY DEF SumTo
<1> HIDE DEF s, step
<1>7. s[0] = 0 /\ \A k \in 1..n : s[k] = s[k - 1] + f[k]
  BY <1>5
<1> DEFINE S == {k \in 0..n : s[k] \in Nat}
<1>8. 0 \in S
  BY <1>7
<1>9. \A k \in 0..(n - 1) : k \in S => k + 1 \in S
  <2> SUFFICES ASSUME NEW k \in 0..(n - 1), s[k] \in Nat PROVE k + 1 \in 0..n /\ s[k + 1] \in Nat
    OBVIOUS
  <2>1. k + 1 \in 1..n /\ (k + 1) - 1 = k
    OBVIOUS
  <2> QED BY <1>7, <2>1
<1> HIDE DEF S
<1>10. 0..n \subseteq S
  BY <1>8, <1>9, UpTo
<1>11. s \in [0..n -> Nat]
  BY <1>5, <1>10 DEF S
<1>12. \A k \in 0..(n - 1) : k + 1 \in 1..n /\ (k + 1) - 1 = k
  OBVIOUS
<1> QED BY <1>6, <1>7, <1>11, <1>12 DEF Prefixes

LEMMA SumOfZeros ==
  ASSUME NEW n \in Nat
  PROVE  SumTo([k \in 1..n |-> 0], n) = 0
<1> DEFINE f == [k \in 1..n |-> 0]
<1>1. f \in [1..n -> Nat]
  OBVIOUS
<1>2. \A k \in 1..n : f[k] = 0
  OBVIOUS
<1> HIDE DEF f
<1>3. PICK s : Prefixes(s, f, n)
  BY <1>1, SumPrefixes
<1> DEFINE S == {k \in 0..n : s[k] = 0}
<1>4. 0 \in S /\ \A k \in 0..(n - 1) : k \in S => k + 1 \in S
  <2>1. ASSUME NEW k \in 0..(n - 1), s[k] = 0 PROVE k + 1 \in S
    <3>1. k + 1 \in 0..n /\ k + 1 \in 1..n
      OBVIOUS
    <3> QED BY <1>2, <1>3, <2>1, <3>1 DEF Prefixes
  <2> QED BY <1>3, <2>1 DEF Prefixes
<1> HIDE DEF S
<1>5. 0..n \subseteq S
  BY <1>4, UpTo
<1>6. n \in S
  BY <1>5
<1> QED BY <1>3, <1>6 DEF Prefixes, f, S

\* g is f but for one number, which is v more
Raised(g, f, n, i, v) ==
  /\ f \in [1..n -> Nat] /\ g \in [1..n -> Nat]
  /\ \A k \in 1..n : g[k] = IF k = i THEN f[k] + v ELSE f[k]

LEMMA SumGrows ==
  ASSUME NEW n \in Nat, NEW f, NEW g, NEW i \in 1..n, NEW v \in Nat, Raised(g, f, n, i, v)
  PROVE  SumTo(g, n) = SumTo(f, n) + v
<1>1. /\ f \in [1..n -> Nat] /\ g \in [1..n -> Nat]
      /\ \A k \in 1..n : g[k] = IF k = i THEN f[k] + v ELSE f[k]
  BY DEF Raised
<1>2. PICK s : Prefixes(s, f, n)
  BY <1>1, SumPrefixes
<1>3. PICK t : Prefixes(t, g, n)
  BY <1>1, SumPrefixes
<1> DEFINE S == {k \in 0..n : t[k] = IF k < i THEN s[k] ELSE s[k] + v}
<1>4. 0 \in S
  BY <1>2, <1>3 DEF Prefixes
<1>5. \A k \in 0..(n - 1) : k \in S => k + 1 \in S
  <2> SUFFICES ASSUME NEW k \in 0..(n - 1), t[k] = IF k < i THEN s[k] ELSE s[k] + v
               PROVE  k + 1 \in 0..n /\ t[k + 1] = IF k + 1 < i THEN s[k + 1] ELSE s[k + 1] + v
    OBVIOUS
  <2>1. k \in 0..n /\ k + 1 \in 0..n /\ k + 1 \in 1..n
    OBVIOUS
  <2>2. s[k + 1] = s[k] + f[k + 1] /\ t[k + 1] = t[k] + g[k + 1] /\ s[k] \in Nat
    BY <1>2, <1>3, <2>1 DEF Prefixes
  <2>3. f[k + 1] \in Nat /\ g[k + 1] = IF k + 1 = i THEN f[k + 1] + v ELSE f[k + 1]
    BY <1>1, <2>1
  <2>4. CASE k < i
    BY <2>1, <2>2, <2>3, <2>4
  <2>5. CASE ~(k < i)
    BY <2>1, <2>2, <2>3, <2>5
  <2> QED BY <2>4, <2>5
<1> HIDE DEF S
<1>6. 0..n \subseteq S
  BY <1>4, <1>5, UpTo
<1>7. n \in S /\ ~(n < i)
  BY <1>6
<1> QED BY <1>2, <1>3, <1>7 DEF Prefixes, S

\* numbers within their limits, whose sum reaches that of the limits, are at their limits
Within(f, g, n) ==
  f \in [1..n -> Nat] /\ g \in [1..n -> Nat] /\ \A k \in 1..n : f[k] <= g[k]

LEMMA SumReached ==
  ASSUME NEW n \in Nat, NEW f, NEW g, Within(f, g, n), SumTo(f, n) >= SumTo(g, n)
  PROVE  \A k \in 1..n : f[k] = g[k]
<1> USE DEF Within
<1> SUFFICES ASSUME NEW i \in 1..n, f[i] # g[i] PROVE FALSE
  OBVIOUS
<1>1. PICK s : Prefixes(s, f, n)
  BY SumPrefixes
<1>2. PICK t : Prefixes(t, g, n)
  BY SumPrefixes
<1> DEFINE S == {k \in 0..n : IF k < i THEN s[k] <= t[k] ELSE s[k] < t[k]}
<1>3. 0 \in S
  BY <1>1, <1>2 DEF Prefixes
<1>4. \A k \in 0..(n - 1) : k \in S => k + 1 \in S
  <2> SUFFICES ASSUME NEW k \in 0..(n - 1), IF k < i THEN s[k] <= t[k] ELSE s[k] < t[k]
               PROVE  k + 1 \in 0..n /\ IF k + 1 < i THEN s[k + 1] <= t[k + 1]
                                        ELSE s[k + 1] < t[k + 1]
    OBVIOUS
  <2>1. k \in 0..n /\ k + 1 \in 0..n /\ k + 1 \in 1..n
    OBVIOUS
  <2>2. /\ s[k + 1] = s[k] + f[k + 1] /\ t[k + 1] = t[k] + g[k + 1]
        /\ s[k] \in Nat /\ t[k] \in Nat
    BY <1>1, <1>2, <2>1 DEF Prefixes
  <2>3. f[k + 1] \in Nat /\ g[k + 1] \in Nat /\ f[k + 1] <= g[k + 1] /\ f[i] < g[i]
    BY <2>1
  <2> QED BY <2>1, <2>2, <2>3
<1> HIDE DEF S
<1>5. 0..n \subseteq S
  BY <1>3, <1>4, UpTo
<1>6. s[n] < t[n] /\ s[n] \in Nat /\ t[n] \in Nat
  BY <1>1, <1>2, <1>5 DEF Prefixes, S
<1> QED BY <1>1, <1>2, <1>6 DEF Prefixes

(***************************************************************************)
(* What searched_size counts.  A worker counts a page before it compares    *)
(* it, and never more than the region has; so when the count has reached    *)
(* the total, no worker can have stopped early, and every page has been     *)
(* compared once the worker that counted it has ended.                      *)
(***************************************************************************)
WholePages == {i * Page : i \in Nat}

\* offset o is still to be compared by a worker that has counted its page
AtPage(w, k, o) == wpc[w] = "page" /\ x[w] = k /\ y[w] <= o

\* searched_size is what has been counted of each region, and what has been counted of
\* a region has been compared
Counts(c) ==
  /\ c \in [Index -> Nat]
  /\ searched_size = SumTo(c, Len(Snapshot))
  /\ \A k \in Index :
       /\ c[k] <= DataLen(regions[k])
       /\ claimed[k] = Nobody => c[k] = 0
       /\ claimed[k] # Nobody => \A o \in regions[k].hits :
            o < c[k] => <<k, o>> \in found[claimed[k]] \/ AtPage(claimed[k], k, o)
  /\ \A w \in Workers :
       /\ wpc[w] = "scan" => c[x[w]] = y[w]
       /\ wpc[w] = "page" => c[x[w]] = y[w] + Page

Counted == \E c : Counts(c)

CursorsWhole ==
  \A w \in Workers : y[w] \in WholePages /\ (wpc[w] \notin {"scan", "page"} => y[w] = 0)

\* no region of the snapshot is lost when they are sorted
AllThere == \A j \in Index : \E k \in Index : regions[k] = Snapshot[j]

Ending ==
  /\ main \in {"join", "done"} => searched_size >= TotalSize
  /\ main = "done" => (\A w \in Workers : wpc[w] = "gone") /\ find_results = Matches

Progress == Counted /\ CursorsWhole /\ AllThere /\ Ending

LEMMA PagesStep ==
  ASSUME NEW a \in WholePages
  PROVE  /\ a \in Nat /\ a + Page \in WholePages /\ 0 \in WholePages
         /\ \A b \in WholePages : a < b => a + Page <= b
<1>0. Page \in Nat \ {0}
  BY FindAssumption
<1>1. PICK i \in Nat : a = i * Page
  BY DEF WholePages
<1>2. a + Page = (i + 1) * Page /\ i + 1 \in Nat /\ 0 = 0 * Page
  BY <1>0, <1>1
<1>3. ASSUME NEW j \in Nat, a < j * Page PROVE a + Page <= j * Page
  <2>1. i < j
    BY <1>0, <1>1, <1>3
  <2>2. (i + 1) * Page <= j * Page
    BY <1>0, <2>1
  <2> QED BY <1>2, <2>2
<1>4. a \in Nat
  BY <1>0, <1>1
<1>5. a + Page \in WholePages /\ 0 \in WholePages
  BY <1>2 DEF WholePages
<1>6. \A b \in WholePages : a < b => a + Page <= b
  BY <1>3 DEF WholePages
<1> QED BY <1>4, <1>5, <1>6

\* the length of a region that has been read is a multiple of Page that its hits end before
LEMMA RegionWhole ==
  ASSUME IInv, NEW k \in Index
  PROVE  /\ regions[k] \in RegionType /\ DataLen(regions[k]) \in Nat
         /\ regions[k].readable =>
              /\ DataLen(regions[k]) \in WholePages
              /\ regions[k].hits \subseteq Nat
              /\ Last(regions[k]) \in Nat /\ Last(regions[k]) < DataLen(regions[k])
              /\ \A o \in regions[k].hits : o < DataLen(regions[k])
<1>1. PICK j \in Index : regions[k] = Snapshot[j]
  BY DEF IInv, FromSnapshot
<1>2. regions[k] \in RegionType
  BY DEF IInv, TypeOK
<1>3. CASE regions[k].readable
  <2> DEFINE r == regions[k]
  <2>1. /\ DataSize <= r.size /\ r.size % Page = 0 /\ r.hits \subseteq 0..(r.size - DataSize)
        /\ Page \in Nat \ {0} /\ DataSize \in Nat \ {0}
    BY <1>1, <1>3, FindAssumption
  <2>2. r.size \in Nat \ {0} /\ DataLen(r) = r.size
    BY <1>2, <1>3 DEF RegionType, DataLen
  <2> HIDE DEF r
  <2>3. r.size = (r.size \div Page) * Page /\ r.size \div Page \in Nat
    BY <2>1, <2>2
  <2>4. r.size \in WholePages
    BY <2>3 DEF WholePages
  <2>5. Last(r) \in Nat /\ Last(r) < r.size /\ \A o \in r.hits : o \in Nat /\ o < r.size
    BY <2>1, <2>2 DEF Last
  <2> QED BY <1>2, <2>2, <2>4, <2>5 DEF r
<1>4. CASE ~regions[k].readable
  BY <1>2, <1>4 DEF DataLen
<1> QED BY <1>2, <1>3, <1>4

LEMMA RegionsStay == [Next]_vars => UNCHANGED regions
BY DEF Next, Worker, LockSignalables, Register, Unregister, SkipClaimed, Claim, EnterPage,
   MatchPage, LeaveRegion, NoMoreRegions, Shell, Spawn, AllSpawned, Poll, AllSearched,
   Collect, Tick, SignalAll, Idle, Interrupt, vars

LEMMA TotalInt == IInv => TotalSize \in Nat
<1> SUFFICES ASSUME IInv PROVE TotalSize \in Nat
  OBVIOUS
<1> PICK g : g = [k \in Index |-> DataLen(regions[k])]
  OBVIOUS
<1>1. g \in [1..Len(Snapshot) -> Nat] /\ Len(Snapshot) \in Nat
  BY RegionWhole, FindAssumption DEF Index
<1>2. PICK s : Prefixes(s, g, Len(Snapshot))
  BY <1>1, SumPrefixes
<1> QED BY <1>1, <1>2 DEF Prefixes, TotalSize

LEMMA InitProgress == Init => Progress
<1> SUFFICES ASSUME Init PROVE Progress
  OBVIOUS
<1>0. Len(Snapshot) \in Nat
  BY FindAssumption
<1>1. IInv
  BY InitIInv
<1>2. Counted
  <2> DEFINE c == [k \in Index |-> 0]
  <2>1. c \in [Index -> Nat] /\ \A k \in Index : c[k] = 0
    OBVIOUS
  <2>2. searched_size = SumTo(c, Len(Snapshot))
    BY <1>0, SumOfZeros DEF Init, Index
  <2> HIDE DEF c
  <2>3. \A k \in Index : c[k] <= DataLen(regions[k])
    BY <1>1, <2>1, RegionWhole
  <2>4. Counts(c)
    BY <2>1, <2>2, <2>3 DEF Counts, Init
  <2> QED BY <2>4 DEF Counted
<1>3. CursorsWhole
  <2>1. 0 = 0 * Page
    BY FindAssumption
  <2>2. 0 \in WholePages
    BY <2>1 DEF WholePages
  <2> QED BY <2>2 DEF Init, CursorsWhole
<1>4. AllThere
  <2>1. PICK p \in [Index -> Index] :
          /\ \A i, j \in Index : p[i] = p[j] => i = j
          /\ regions = [k \in Index |-> Snapshot[p[k]]]
    BY DEF Init, Sorted
  <2>2. IsFiniteSet(Index)
    BY <1>0, FS_Interval DEF Index
  <2>3. p \in Injection(Index, Index)
    BY <2>1 DEF Injection, IsInjective
  <2>4. p \in Surjection(Index, Index)
    BY <2>2, <2>3, FS_Injection
  <2> QED BY <2>1, <2>4 DEF AllThere, Surjection
<1>5. Ending
  BY DEF Init, Ending
<1> QED BY <1>2, <1>3, <1>4, <1>5 DEF Progress

\* the workers' steps that count nothing and compare nothing
LEMMA CountsKept ==
  ASSUME IInv, NEW c, Counts(c), UNCHANGED <<regions, claimed, searched_size, found>>,
         \A w \in Workers :
           \/ wpc'[w] = wpc[w] /\ x'[w] = x[w] /\ y'[w] = y[w]
           \/ wpc[w] \notin {"scan", "page"} /\ wpc'[w] \notin {"scan", "page"}
  PROVE  Counts(c)'
<1>1. ASSUME NEW w \in Workers
      PROVE  /\ wpc'[w] = "scan" => c[x'[w]] = y'[w]
             /\ wpc'[w] = "page" => c[x'[w]] = y'[w] + Page
             /\ \A k \in Index, o \in Nat : AtPage(w, k, o) => AtPage(w, k, o)'
  BY DEF Counts, AtPage
<1>2. \A k \in Index : claimed[k] # Nobody => claimed[k] \in Workers
  BY DEF IInv, TypeOK
<1>3. \A k \in Index : \A o \in regions[k].hits : o \in Nat
  BY DEF IInv, TypeOK, RegionType
<1>4. ASSUME NEW k \in Index
      PROVE  /\ c[k] <= DataLen(regions[k])'
             /\ claimed'[k] = Nobody => c[k] = 0
             /\ claimed'[k] # Nobody => \A o \in regions'[k].hits :
                  o < c[k] => <<k, o>> \in found'[claimed'[k]] \/ AtPage(claimed[k], k, o)'
  BY <1>1, <1>2, <1>3 DEF Counts, DataLen
<1> QED BY <1>1, <1>4 DEF Counts

LEMMA WorkerCounted ==
  ASSUME IInv, CursorsWhole, NEW c, Counts(c), NEW w \in Workers, Worker(w)
  PROVE  Counted'
<1>0. /\ wpc \in [Workers -> WorkerPCs] /\ x \in [Workers -> 1..(Len(Snapshot) + 1)]
      /\ y \in [Workers -> Nat] /\ found \in [Workers -> SUBSET (Index \X Nat)]
      /\ claimed \in [Index -> Workers \cup {Nobody}] /\ Nobody \notin Workers
      /\ c \in [Index -> Nat] /\ searched_size = SumTo(c, Len(Snapshot))
      /\ Page \in Nat \ {0} /\ Len(Snapshot) \in Nat
  BY FindAssumption DEF IInv, TypeOK, Counts
<1>a. \A k \in Index :
        /\ c[k] <= DataLen(regions[k])
        /\ claimed[k] = Nobody => c[k] = 0
        /\ claimed[k] # Nobody => \A o \in regions[k].hits :
             o < c[k] => <<k, o>> \in found[claimed[k]] \/ AtPage(claimed[k], k, o)
  BY DEF Counts
<1>b. \A v \in Workers :
        /\ wpc[v] = "scan" => c[x[v]] = y[v]
        /\ wpc[v] = "page" => c[x[v]] = y[v] + Page
        /\ wpc[v] \in {"scan", "page"} => x[v] \in Index /\ claimed[x[v]] = v
  BY DEF IInv, TypeOK, Owned, Counts
<1>c. \A k \in Index : regions[k].hits \subseteq Nat
  BY DEF IInv, TypeOK, RegionType
<1>1. CASE LockSignalables(w) \/ Register(w) \/ Unregister(w) \/ NoMoreRegions(w)
  <2>1. /\ UNCHANGED <<regions, claimed, searched_size, found, x, y>>
        /\ wpc[w] \notin {"scan", "page"}
        /\ \E l \in WorkerPCs \ {"scan", "page"} : wpc' = [wpc EXCEPT ![w] = l]
    BY <1>1 DEF LockSignalables, Register, Unregister, NoMoreRegions, Goto, WorkerPCs
  <2>2. Counts(c)'
    BY <1>0, <2>1, CountsKept
  <2> QED BY <2>2 DEF Counted
<1>2. CASE SkipClaimed(w)
  <2>1. Counts(c)'
    BY <1>0, <1>2, CountsKept DEF SkipClaimed, NextRegion
  <2> QED BY <2>1 DEF Counted
<1>3. CASE Claim(w)
  <2>1. /\ wpc[w] = "claim" /\ x[w] \in Index /\ claimed[x[w]] = Nobody
        /\ claimed' = [claimed EXCEPT ![x[w]] = w]
        /\ UNCHANGED <<regions, searched_size, found>>
        /\ \A v \in Workers : v # w => wpc'[v] = wpc[v] /\ x'[v] = x[v] /\ y'[v] = y[v]
        /\ wpc'[w] # "page" /\ (wpc'[w] = "scan" => x'[w] = x[w] /\ y'[w] = y[w])
    BY <1>0, <1>3 DEF Claim, NextRegion
  <2>2. c[x[w]] = 0 /\ y[w] = 0
    BY <1>a, <2>1 DEF CursorsWhole
  <2>3. ASSUME NEW k \in Index
        PROVE  /\ c[k] <= DataLen(regions[k])'
               /\ claimed'[k] = Nobody => c[k] = 0
               /\ claimed'[k] # Nobody => \A o \in regions'[k].hits :
                    o < c[k] => <<k, o>> \in found'[claimed'[k]] \/ AtPage(claimed[k], k, o)'
    <3>1. DataLen(regions[k])' = DataLen(regions[k]) /\ regions' = regions /\ found' = found
      BY <2>1 DEF DataLen
    <3>2. CASE k = x[w]
      <4>1. claimed'[k] = w /\ \A o \in regions[k].hits : ~(o < c[k])
        BY <1>0, <1>c, <2>1, <2>2, <3>2
      <4> QED BY <1>0, <1>a, <3>1, <4>1
    <3>3. CASE k # x[w]
      <4>1. claimed'[k] = claimed[k]
        BY <1>0, <2>1, <3>3
      <4>2. claimed[k] \in Workers => \A o \in Nat : AtPage(claimed[k], k, o) => AtPage(claimed[k], k, o)'
        BY <2>1, <4>1 DEF AtPage
      <4> QED BY <1>0, <1>a, <1>c, <3>1, <4>1, <4>2
    <3> QED BY <3>2, <3>3
  <2>4. \A v \in Workers :
          /\ wpc'[v] = "scan" => c[x'[v]] = y'[v]
          /\ wpc'[v] = "page" => c[x'[v]] = y'[v] + Page
    BY <1>b, <2>1, <2>2
  <2>5. Counts(c)'
    BY <1>0, <2>1, <2>3, <2>4 DEF Counts
  <2> QED BY <2>5 DEF Counted
<1>4. CASE EnterPage(w)
  <2> DEFINE here == x[w]
  <2>1. /\ wpc[w] = "scan" /\ wpc' = [wpc EXCEPT ![w] = "page"]
        /\ y[w] <= Last(regions[here]) /\ searched_size' = searched_size + Page
        /\ UNCHANGED <<regions, claimed, found, x, y>>
    BY <1>4 DEF EnterPage, Goto
  <2>2. here \in Index /\ claimed[here] = w /\ c[here] = y[w]
    BY <1>b, <2>1
  <2> PICK d : d = [c EXCEPT ![here] = @ + Page]
    OBVIOUS
  <2>3. /\ d \in [Index -> Nat]
        /\ \A k \in Index : d[k] = IF k = here THEN c[k] + Page ELSE c[k]
    BY <1>0, <2>2
  <2>4. searched_size' = SumTo(d, Len(Snapshot))
    <3>1. here \in 1..Len(Snapshot) /\ Raised(d, c, Len(Snapshot), here, Page)
      BY <1>0, <2>2, <2>3 DEF Index, Raised
    <3> HIDE DEF here
    <3>2. SumTo(d, Len(Snapshot)) = SumTo(c, Len(Snapshot)) + Page
      BY <1>0, <3>1, SumGrows
    <3> QED BY <1>0, <2>1, <3>2
  <2>5. y[w] + Page <= DataLen(regions[here])
    <3>1. regions[here].readable
      BY <2>1 DEF IInv, Sound
    <3>2. y[w] \in WholePages /\ y[w] \in Nat
      BY <1>0 DEF CursorsWhole
    <3>3. y[w] < DataLen(regions[here]) /\ DataLen(regions[here]) \in WholePages
      BY <2>1, <2>2, <3>1, <3>2, RegionWhole
    <3> QED BY <3>2, <3>3, PagesStep
  <2>6. ASSUME NEW k \in Index
        PROVE  /\ d[k] <= DataLen(regions[k])'
               /\ claimed'[k] = Nobody => d[k] = 0
               /\ claimed'[k] # Nobody => \A o \in regions'[k].hits :
                    o < d[k] => <<k, o>> \in found'[claimed'[k]] \/ AtPage(claimed[k], k, o)'
    <3>1. /\ DataLen(regions[k])' = DataLen(regions[k])
          /\ regions' = regions /\ found' = found /\ claimed' = claimed
      BY <2>1 DEF DataLen
    <3>2. CASE k = here
      <4>1. claimed[k] = w /\ d[k] = y[w] + Page /\ c[k] = y[w]
        BY <2>2, <2>3, <3>2
      <4>2. \A o \in Nat : AtPage(w, k, o)' <=> y[w] <= o
        BY <1>0, <2>1, <3>2 DEF AtPage
      <4>3. \A o \in Nat : ~AtPage(w, k, o)
        BY <2>1 DEF AtPage
      <4>4. ASSUME NEW o \in regions[k].hits, o < d[k]
            PROVE  <<k, o>> \in found[w] \/ AtPage(w, k, o)'
        <5>1. o \in Nat /\ y[w] \in Nat
          BY <1>0, <1>c
        <5>2. CASE o < y[w]
          BY <1>0, <1>a, <4>1, <4>3, <5>1, <5>2
        <5>3. CASE ~(o < y[w])
          BY <4>2, <5>1, <5>3
        <5> QED BY <5>2, <5>3
      <4>5. \A o : AtPage(claimed[k], k, o)' <=> AtPage(w, k, o)'
        BY <2>1, <4>1 DEF AtPage
      <4> QED BY <1>0, <2>5, <3>1, <3>2, <4>1, <4>4, <4>5
    <3>3. CASE k # here
      <4>1. d[k] = c[k]
        BY <2>3, <3>3
      <4>2. claimed[k] \in Workers => \A o \in Nat : AtPage(claimed[k], k, o) => AtPage(claimed[k], k, o)'
        BY <1>0, <2>1 DEF AtPage
      <4> QED BY <1>0, <1>a, <1>c, <3>1, <4>1, <4>2
    <3> QED BY <3>2, <3>3
  <2>7. ASSUME NEW v \in Workers
        PROVE  /\ wpc'[v] = "scan" => d[x'[v]] = y'[v]
               /\ wpc'[v] = "page" => d[x'[v]] = y'[v] + Page
    <3>1. CASE v = w
      BY <1>0, <2>1, <2>2, <2>3, <3>1
    <3>2. CASE v # w
      <4>1. wpc'[v] = wpc[v] /\ x'[v] = x[v] /\ y'[v] = y[v]
        BY <1>0, <2>1, <3>2
      <4>2. wpc[v] \in {"scan", "page"} => x[v] \in Index /\ x[v] # here
        BY <1>b, <2>2, <3>2
      <4> QED BY <1>b, <2>3, <4>1, <4>2
    <3> QED BY <3>1, <3>2
  <2>8. Counts(d)'
    BY <2>3, <2>4, <2>6, <2>7 DEF Counts
  <2> QED BY <2>8 DEF Counted
<1>5. CASE MatchPage(w)
  <2> DEFINE here == {o \in regions[x[w]].hits : y[w] <= o /\ o < y[w] + Page}
  <2>1. /\ wpc[w] = "page" /\ wpc' = [wpc EXCEPT ![w] = "scan"]
        /\ found' = [found EXCEPT ![w] = found[w] \cup {<<x[w], o>> : o \in here}]
        /\ y' = [y EXCEPT ![w] = y[w] + Page]
        /\ UNCHANGED <<regions, claimed, searched_size, x>>
    BY <1>5 DEF MatchPage, Goto
  <2>2. x[w] \in Index /\ claimed[x[w]] = w /\ c[x[w]] = y[w] + Page
    BY <1>b, <2>1
  <2>3. \A o \in here : <<x[w], o>> \in found'[w]
    <3> HIDE DEF here
    <3> QED BY <1>0, <2>1
  <2>4. \A v \in Workers : found[v] \subseteq found'[v]
    <3> HIDE DEF here
    <3> QED BY <1>0, <2>1
  <2>5. \A o \in regions[x[w]].hits : y[w] <= o /\ o < y[w] + Page => o \in here
    OBVIOUS
  <2>6. /\ \A v \in Workers : v # w => wpc'[v] = wpc[v] /\ y'[v] = y[v]
        /\ wpc'[w] = "scan" /\ y'[w] = y[w] + Page
        /\ regions' = regions /\ claimed' = claimed /\ x' = x /\ searched_size' = searched_size
    <3> HIDE DEF here
    <3> QED BY <1>0, <2>1
  <2> HIDE DEF here
  <2>7. ASSUME NEW k \in Index
        PROVE  /\ c[k] <= DataLen(regions[k])'
               /\ claimed'[k] = Nobody => c[k] = 0
               /\ claimed'[k] # Nobody => \A o \in regions'[k].hits :
                    o < c[k] => <<k, o>> \in found'[claimed'[k]] \/ AtPage(claimed[k], k, o)'
    <3>1. DataLen(regions[k])' = DataLen(regions[k])
      BY <2>6 DEF DataLen
    <3>2. ASSUME NEW o \in regions[k].hits, claimed[k] # Nobody, o < c[k]
          PROVE  <<k, o>> \in found'[claimed[k]] \/ AtPage(claimed[k], k, o)'
      <4>1. claimed[k] \in Workers
        BY <1>0, <3>2
      <4>2. CASE <<k, o>> \in found[claimed[k]]
        BY <2>4, <4>1, <4>2
      <4>3. CASE AtPage(claimed[k], k, o) /\ claimed[k] = w
        <5>1. k = x[w] /\ y[w] <= o /\ o < y[w] + Page
          BY <2>2, <3>2, <4>3 DEF AtPage
        <5>2. <<k, o>> \in found'[w]
          BY <2>3, <2>5, <5>1
        <5> QED BY <4>3, <5>2
      <4>4. CASE AtPage(claimed[k], k, o) /\ claimed[k] # w
        BY <2>6, <4>1, <4>4 DEF AtPage
      <4> QED BY <1>a, <3>2, <4>2, <4>3, <4>4
    <3> QED BY <1>a, <2>6, <3>1, <3>2
  <2>8. \A v \in Workers :
          /\ wpc'[v] = "scan" => c[x'[v]] = y'[v]
          /\ wpc'[v] = "page" => c[x'[v]] = y'[v] + Page
    BY <1>b, <2>2, <2>6
  <2>9. Counts(c)'
    BY <1>0, <2>6, <2>7, <2>8 DEF Counts
  <2> QED BY <2>9 DEF Counted
<1>6. CASE LeaveRegion(w)
  <2>1. /\ wpc[w] = "scan" /\ wpc'[w] = "claim"
        /\ \A v \in Workers : v # w => wpc'[v] = wpc[v] /\ x'[v] = x[v] /\ y'[v] = y[v]
        /\ regions' = regions /\ claimed' = claimed /\ searched_size' = searched_size
        /\ found' = found
    BY <1>0, <1>6 DEF LeaveRegion, NextRegion
  <2>2. ASSUME NEW k \in Index, NEW o \in Nat, claimed[k] \in Workers, AtPage(claimed[k], k, o)
        PROVE  AtPage(claimed[k], k, o)'
    BY <2>1, <2>2 DEF AtPage
  <2>3. \A k \in Index : DataLen(regions[k])' = DataLen(regions[k])
    BY <2>1 DEF DataLen
  <2>4. \A v \in Workers :
          /\ wpc'[v] = "scan" => c[x'[v]] = y'[v]
          /\ wpc'[v] = "page" => c[x'[v]] = y'[v] + Page
    BY <1>b, <2>1
  <2>5. ASSUME NEW k \in Index
        PROVE  /\ c[k] <= DataLen(regions[k])'
               /\ claimed'[k] = Nobody => c[k] = 0
               /\ claimed'[k] # Nobody => \A o \in regions'[k].hits :
                    o < c[k] => <<k, o>> \in found'[claimed'[k]] \/ AtPage(claimed[k], k, o)'
    BY <1>0, <1>a, <1>c, <2>1, <2>2, <2>3
  <2>6. Counts(c)'
    BY <1>0, <2>1, <2>4, <2>5 DEF Counts
  <2> QED BY <2>6 DEF Counted
<1> QED
  BY <1>1, <1>2, <1>3, <1>4, <1>5, <1>6 DEF Worker

LEMMA OthersCounted ==
  ASSUME IInv, CursorsWhole, NEW c, Counts(c), Others
  PROVE  Counts(c)' /\ CursorsWhole'
<1>1. CASE Spawn
  <2>1. PICK w \in Workers : wpc[w] = "unborn" /\ wpc' = [wpc EXCEPT ![w] = "born"]
    BY <1>1 DEF Spawn, Goto
  <2>2. /\ UNCHANGED <<regions, claimed, searched_size, found, x, y>>
        /\ wpc \in [Workers -> WorkerPCs]
    BY <1>1 DEF Spawn, IInv, TypeOK
  <2> QED BY <2>1, <2>2, CountsKept DEF CursorsWhole
<1>2. CASE ~Spawn
  <2>1. UNCHANGED <<regions, pool>>
    BY <1>2 DEF Others, Shell, AllSpawned, Poll, AllSearched, Collect, Tick, SignalAll, Idle,
                Interrupt, vars
  <2>2. UNCHANGED <<regions, claimed, searched_size, found, wpc, x, y>>
    BY <2>1 DEF pool
  <2> QED BY <2>2, CountsKept DEF CursorsWhole
<1> QED BY <1>1, <1>2

LEMMA WorkerCursors ==
  ASSUME IInv, CursorsWhole, NEW w \in Workers, Worker(w)
  PROVE  CursorsWhole'
<1>0. wpc \in [Workers -> WorkerPCs] /\ y \in [Workers -> Nat]
  BY DEF IInv, TypeOK
<1>1. \A v \in Workers : v # w => wpc'[v] = wpc[v] /\ y'[v] = y[v]
  BY <1>0 DEF Worker, LockSignalables, Register, Unregister, SkipClaimed, Claim, EnterPage,
     MatchPage, LeaveRegion, NoMoreRegions, NextRegion, Goto
<1>2. y'[w] \in WholePages
  <2>1. y'[w] \in {0, y[w], y[w] + Page}
    BY <1>0 DEF Worker, LockSignalables, Register, Unregister, SkipClaimed, Claim, EnterPage,
       MatchPage, LeaveRegion, NoMoreRegions, NextRegion, Goto
  <2>2. y[w] \in WholePages
    BY DEF CursorsWhole
  <2> QED BY <2>1, <2>2, PagesStep
<1>3. wpc'[w] \notin {"scan", "page"} => y'[w] = 0
  <2>1. CASE LockSignalables(w) \/ Register(w) \/ Unregister(w) \/ NoMoreRegions(w)
    <3>1. y' = y /\ wpc[w] \notin {"scan", "page"}
      BY <2>1 DEF LockSignalables, Register, Unregister, NoMoreRegions, Goto
    <3> QED BY <3>1 DEF CursorsWhole
  <2>2. CASE SkipClaimed(w) \/ LeaveRegion(w)
    BY <1>0, <2>2 DEF SkipClaimed, LeaveRegion, NextRegion
  <2>3. CASE Claim(w)
    BY <1>0, <2>3 DEF Claim, NextRegion
  <2>4. CASE EnterPage(w) \/ MatchPage(w)
    BY <1>0, <2>4 DEF EnterPage, MatchPage, Goto
  <2> QED BY <2>1, <2>2, <2>3, <2>4 DEF Worker
<1> QED BY <1>1, <1>2, <1>3 DEF CursorsWhole

\* when everything has been counted and every worker has ended, everything is found
LEMMA AllFound ==
  ASSUME IInv, AllThere, NEW c, Counts(c), searched_size >= TotalSize,
         \A w \in Workers : wpc[w] = "gone"
  PROVE  {regions[m[1]].addr + m[2] : m \in UNION {found[w] : w \in Workers}} = Matches
<1> DEFINE merged == {regions[m[1]].addr + m[2] : m \in UNION {found[w] : w \in Workers}}
<1>1. merged \subseteq Matches
  <2> SUFFICES ASSUME NEW w \in Workers, NEW m \in found[w]
               PROVE  regions[m[1]].addr + m[2] \in Matches
    OBVIOUS
  <2>1. m[1] \in Index /\ regions[m[1]].readable /\ m[2] \in regions[m[1]].hits
    BY DEF IInv, TypeOK, Sound
  <2>2. PICK j \in Index : regions[m[1]] = Snapshot[j]
    BY <2>1 DEF IInv, FromSnapshot
  <2> QED BY <2>1, <2>2 DEF Matches
<1>2. \A k \in Index : c[k] = DataLen(regions[k])
  <2> PICK g : g = [k \in Index |-> DataLen(regions[k])]
    OBVIOUS
  <2>1. g \in [1..Len(Snapshot) -> Nat] /\ \A k \in 1..Len(Snapshot) : g[k] = DataLen(regions[k])
    BY RegionWhole DEF Index
  <2>2. c \in [1..Len(Snapshot) -> Nat] /\ \A k \in 1..Len(Snapshot) : c[k] <= g[k]
    BY <2>1 DEF Counts, Index
  <2>3. SumTo(c, Len(Snapshot)) >= SumTo(g, Len(Snapshot))
    BY DEF Counts, TotalSize
  <2>4. Len(Snapshot) \in Nat /\ Within(c, g, Len(Snapshot))
    BY <2>1, <2>2, FindAssumption DEF Within
  <2>5. \A k \in 1..Len(Snapshot) : c[k] = g[k]
    BY <2>3, <2>4, SumReached
  <2> QED BY <2>1, <2>5 DEF Index
<1>3. Matches \subseteq merged
  <2> SUFFICES ASSUME NEW j \in Index, Snapshot[j].readable, NEW o \in Snapshot[j].hits
               PROVE  Snapshot[j].addr + o \in merged
    BY DEF Matches
  <2>1. PICK k \in Index : regions[k] = Snapshot[j]
    BY DEF AllThere
  <2>2. o \in regions[k].hits /\ o \in Nat /\ o < c[k]
    BY <1>2, <2>1, RegionWhole
  <2>3. claimed[k] # Nobody /\ claimed[k] \in Workers
    BY <2>2 DEF Counts, IInv, TypeOK
  <2>4. ~AtPage(claimed[k], k, o)
    BY <2>3 DEF AtPage
  <2>5. <<k, o>> \in found[claimed[k]]
    BY <2>2, <2>3, <2>4 DEF Counts
  <2>6. <<k, o>> \in UNION {found[w] : w \in Workers} /\ <<k, o>>[1] = k /\ <<k, o>>[2] = o
    BY <2>3, <2>5
  <2> QED BY <2>1, <2>6
<1> QED BY <1>1, <1>3

LEMMA StepEnding ==
  ASSUME IInv, Progress, Next
  PROVE  Ending'
<1>0. TotalSize' = TotalSize /\ regions' = regions
  BY RegionsStay DEF TotalSize
<1>1. ASSUME NEW w \in Workers, Worker(w) PROVE Ending'
  <2>1. main' = main /\ find_results' = find_results /\ wpc[w] # "gone"
    BY <1>1 DEF Worker, LockSignalables, Register, Unregister, SkipClaimed, Claim, EnterPage,
       MatchPage, LeaveRegion, NoMoreRegions, Goto
  <2>2. searched_size' \in {searched_size, searched_size + Page}
    BY <1>1 DEF Worker, LockSignalables, Register, Unregister, SkipClaimed, Claim, EnterPage,
       MatchPage, LeaveRegion, NoMoreRegions
  <2>3. searched_size \in Nat /\ Page \in Nat /\ TotalSize \in Int
    BY TotalInt, FindAssumption DEF IInv, TypeOK
  <2> QED BY <1>0, <2>1, <2>2, <2>3 DEF Progress, Ending
<1>2. CASE Collect
  <2>1. /\ \A w \in Workers : wpc'[w] = "gone" /\ wpc[w] = "gone"
        /\ main = "join" /\ searched_size' = searched_size
        /\ find_results' = {regions[m[1]].addr + m[2] : m \in UNION {found[w] : w \in Workers}}
    BY <1>2 DEF Collect, pool
  <2>2. searched_size >= TotalSize
    BY <2>1 DEF Progress, Ending
  <2>3. PICK c : Counts(c)
    BY DEF Progress, Counted
  <2>4. find_results' = Matches
    BY <2>1, <2>2, <2>3, AllFound DEF Progress
  <2> QED BY <1>0, <2>1, <2>2, <2>4 DEF Ending
<1>3. CASE AllSearched
  BY <1>0, <1>3 DEF AllSearched, Ending, pool
<1>4. CASE Spawn
  BY <1>4 DEF Spawn, Ending
<1>5. CASE AllSpawned \/ Poll \/ Tick \/ SignalAll \/ Idle \/ \E t \in HandlerThreads : Interrupt(t)
  <2>1. /\ searched_size' = searched_size /\ find_results' = find_results /\ wpc' = wpc
        /\ main' = main \/ main' \in {"poll", "killed"}
    BY <1>5 DEF AllSpawned, Poll, Tick, SignalAll, Idle, Interrupt, vars, pool
  <2> QED BY <1>0, <2>1 DEF Progress, Ending
<1> QED BY <1>1, <1>2, <1>3, <1>4, <1>5 DEF Next, Shell

LEMMA StepProgress == IInv /\ Progress /\ [Next]_vars => Progress'
<1> SUFFICES ASSUME IInv, Progress, [Next]_vars PROVE Progress'
  OBVIOUS
<1> PICK c : Counts(c)
  BY DEF Progress, Counted
<1>1. AllThere'
  BY RegionsStay DEF Progress, AllThere
<1>2. CASE Next
  <2>1. Ending'
    BY <1>2, StepEnding
  <2>2. ASSUME NEW w \in Workers, Worker(w) PROVE Progress'
    BY <1>1, <2>1, <2>2, WorkerCounted, WorkerCursors DEF Progress
  <2>3. CASE Others
    BY <1>1, <2>1, <2>3, OthersCounted DEF Progress, Counted
  <2> QED BY <1>2, <2>2, <2>3 DEF Next, Others
<1>3. CASE UNCHANGED vars
  <2>1. /\ UNCHANGED <<regions, claimed, searched_size, found, wpc, x, y, main, find_results>>
    BY <1>3 DEF vars, pool
  <2>2. Counts(c)' /\ CursorsWhole'
    BY <2>1, CountsKept DEF CursorsWhole, Progress
  <2>3. Ending'
    BY <2>1 DEF Ending, Progress, TotalSize
  <2> QED BY <1>1, <2>2, <2>3 DEF Progress, Counted
<1> QED BY <1>2, <1>3

(***************************************************************************)
(* The theorems.                                                           *)
(***************************************************************************)
LEMMA StepIInv == IInv /\ [Next]_vars => IInv'
<1> SUFFICES ASSUME IInv, [Next]_vars PROVE IInv'
  OBVIOUS
<1>1. FromSnapshot'
  BY RegionsStay DEF IInv, FromSnapshot
<1>2. ASSUME NEW w \in Workers, Worker(w) PROVE IInv'
  BY <1>1, <1>2, WorkerType, WorkerRegistered, WorkerOwned DEF IInv
<1>3. CASE Others
  BY <1>1, <1>3, OthersType, OthersRegistered, OthersOwned DEF IInv
<1>4. CASE UNCHANGED vars
  BY <1>4 DEF IInv, TypeOK, RegisteredLive, Owned, Sound, FromSnapshot, vars, pool, sig
<1> QED BY <1>2, <1>3, <1>4 DEF Next, Others

\* Every reachable state satisfies the inductive invariant: command_find, its workers
\* and the SIGINT handler.
THEOREM Inductive == Spec => []IInv
BY InitIInv, StepIInv, PTL DEF Spec

\* The variables keep their types, and a scanning worker is inside the list of regions
\* (the worker's loops in command_find).
THEOREM TypeCorrect == Spec => []TypeOK
<1>1. IInv => TypeOK
  BY DEF IInv
<1> QED BY <1>1, Inductive, PTL

\* Two workers never scan one region and never report one match, for any number of
\* workers and regions (the exchange on regions_claimed in command_find).
THEOREM NoMatchTwice == Spec => []EachMatchOnce
<1>1. IInv => EachMatchOnce
  BY FindAssumption DEF IInv, TypeOK, Owned, EachMatchOnce
<1> QED BY <1>1, Inductive, PTL

\* A Signalable is in all_signalables exactly between its constructor and its
\* destructor, so that signal_all never touches one that is gone.
THEOREM SignalableLives == Spec => []RegisteredLive
<1>1. IInv => RegisteredLive
  BY DEF IInv
<1> QED BY <1>1, Inductive, PTL

\* Whenever the workers' results are looked at, and however they were interrupted, each
\* is a match of the snapshot (the comparisons in command_find).
FoundAreMatches ==
  \A w \in Workers : \A m \in found[w] : regions[m[1]].addr + m[2] \in Matches

\* A worker reports only matches: what it has found is always inside the snapshot, in a
\* region whose data was read (command_find).
THEOREM NothingElseFound == Spec => []FoundAreMatches
<1>1. IInv => FoundAreMatches
  <2> SUFFICES ASSUME IInv, NEW w \in Workers, NEW m \in found[w]
               PROVE  regions[m[1]].addr + m[2] \in Matches
    BY DEF FoundAreMatches
  <2>1. m[1] \in Index /\ regions[m[1]].readable /\ m[2] \in regions[m[1]].hits
    BY DEF IInv, TypeOK, Sound
  <2>2. PICK j \in Index : regions[m[1]] = Snapshot[j]
    BY <2>1 DEF IInv, FromSnapshot
  <2>3. Snapshot[j].addr + m[2] \in {Snapshot[j].addr + o : o \in Snapshot[j].hits}
    BY <2>1, <2>2
  <2> QED BY <2>1, <2>2, <2>3 DEF Matches
<1> QED BY <1>1, Inductive, PTL

\* However the count of searched bytes stands, it is what the workers have counted of each
\* region, and what they have counted of a region they have compared (command_find).
THEOREM CountIsWork == Spec => []Progress
BY Inductive, InitProgress, StepProgress, PTL DEF Spec

\* For any number of workers and any snapshot, a find that returns has found every match
\* and nothing else, also when ^C was pressed: the poll loop lets no partial result out
\* (command_find).
THEOREM DoneIsComplete == Spec => []DoneMeansComplete
<1>1. Progress => DoneMeansComplete
  BY DEF Progress, Ending, DoneMeansComplete
<1> QED BY <1>1, CountIsWork, PTL
=============================================================================
