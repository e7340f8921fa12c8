---------------------------- MODULE ParallelFind ----------------------------
(***************************************************************************)
(* The find command: worker threads that share the regions of one memory   *)
(* snapshot, the main thread that watches their progress, and ^C, which is *)
(* meant to cancel them through Signalable.                                *)
(*                                                                         *)
(* Sizes and offsets are in arbitrary units; Page is the 0x1000 at which a *)
(* worker counts its progress and looks for the signal.  What a region     *)
(* holds is reduced to the offsets at which the data (under its mask)      *)
(* occurs.  The target maps whole pages.  The data is no longer than any   *)
(* readable region: beyond that `region.size - data.size()' wraps and the  *)
(* scan leaves the buffer.                                                 *)
(***************************************************************************)
EXTENDS Integers, FiniteSets, Sequences

CONSTANTS
  Workers,         \* hardware_concurrency() threads
  Main,            \* the shell thread
  Nobody,
  Snapshot,        \* sequence of regions [addr, size, readable, hits]
  Page,            \* 0x1000
  DataSize,        \* length of the data to find
  HandlerThreads,  \* threads the system may run the SIGINT handler on
  MaxSignals       \* bound on the number of ^C

Index == 1..Len(Snapshot)

DataLen(r) == IF r.readable THEN r.size ELSE 0

RegionType ==
  [addr: Nat, size: Nat \ {0}, readable: BOOLEAN, hits: SUBSET Nat]

ASSUME FindAssumption ==
  /\ Nobody \notin Workers /\ Main \notin Workers /\ Main # Nobody
  /\ Page \in Nat \ {0} /\ DataSize \in Nat \ {0}
  /\ Snapshot \in Seq(RegionType)
  /\ \A k \in Index :
       LET r == Snapshot[k] IN
       r.readable => /\ DataSize <= r.size /\ r.size % Page = 0
                     /\ r.hits \subseteq 0..(r.size - DataSize)
  /\ HandlerThreads \subseteq Workers \cup {Main}
  /\ MaxSignals \in Nat

VARIABLES
  regions,       \* the snapshot, sorted by size
  claimed,       \* per region: the worker whose exchange found it unclaimed
  searched_size,
  main,          \* the shell thread: "spawn", "poll", "join", "done"; "killed" by exit(0)
  wpc,           \* program counter of every worker
  x, y,          \* the loop variables of every worker
  found,         \* thread_results of every worker, as <<region, offset>>
  find_results,
  holder,        \* the worker that holds Signalable::lock
  registered,    \* Signalable::all_signalables, by owning worker
  signaled,      \* the flag of every worker's Signalable
  handler,       \* the thread the SIGINT handler is running on
  recent,        \* recent_cancel_count
  same_second,   \* recent_cancel_time == time(NULL)
  signals        \* number of ^C so far

pool == <<claimed, searched_size, wpc, x, y, found>>
sig == <<handler, recent, same_second, signals>>
vars == <<regions, pool, main, find_results, holder, registered, signaled, sig>>

SumTo(f, n) ==
  LET upTo[k \in 0..n] == IF k = 0 THEN 0 ELSE upTo[k - 1] + f[k] IN upTo[n]

\* mutant: regions without data count too
TotalSizeOfAll == SumTo([k \in Index |-> regions[k].size], Len(Snapshot))

TotalSize == SumTo([k \in Index |-> DataLen(regions[k])], Len(Snapshot))

Last(r) == r.size - DataSize

(***************************************************************************)
(* sort() by descending data size; it is not stable.                       *)
(***************************************************************************)
Sorted ==
  {[k \in Index |-> Snapshot[p[k]]] :
     p \in {q \in [Index -> Index] :
              /\ \A i, j \in Index : q[i] = q[j] => i = j
              /\ \A i, j \in Index :
                   i < j => DataLen(Snapshot[q[i]]) >= DataLen(Snapshot[q[j]])}}

Init ==
  /\ regions \in Sorted
  /\ claimed = [k \in Index |-> Nobody]
  /\ searched_size = 0
  /\ main = "spawn"
  /\ wpc = [w \in Workers |-> "unborn"]
  /\ x = [w \in Workers |-> 1]
  /\ y = [w \in Workers |-> 0]
  /\ found = [w \in Workers |-> {}]
  /\ find_results = {}
  /\ holder = Nobody /\ registered = {} /\ signaled = [w \in Workers |-> FALSE]
  /\ handler = Nobody /\ recent = 0 /\ same_second = FALSE /\ signals = 0

----------------------------------------------------------------------------
(* Worker threads. *)

\* a thread runs its own code unless the handler has interrupted it
Runs(t) == handler # t /\ main # "killed"

Goto(w, from, to) == wpc[w] = from /\ wpc' = [wpc EXCEPT ![w] = to]

\* constructor and destructor of Signalable: take the lock, edit the set
LockSignalables(w) ==
  /\ Runs(w) /\ holder = Nobody
  /\ \/ Goto(w, "born", "registering")
     \/ Goto(w, "leaving", "unregistering")
  /\ holder' = w
  /\ UNCHANGED <<regions, claimed, searched_size, x, y, found, main,
                 find_results, registered, signaled, sig>>

\* mutant: the lock is not released
RegisterKeepsLock(w) ==
  /\ Runs(w)
  /\ Goto(w, "registering", "claim")
  /\ registered' = registered \cup {w}
  /\ UNCHANGED <<regions, claimed, searched_size, x, y, found, main,
                 find_results, holder, signaled, sig>>

Register(w) ==
  /\ Runs(w)
  /\ Goto(w, "registering", "claim")
  /\ registered' = registered \cup {w}
  /\ holder' = Nobody
  /\ UNCHANGED <<regions, claimed, searched_size, x, y, found, main,
                 find_results, signaled, sig>>

\* mutant: the destructor does not erase
UnregisterNothing(w) ==
  /\ Runs(w)
  /\ Goto(w, "unregistering", "gone")
  /\ holder' = Nobody
  /\ UNCHANGED <<regions, claimed, searched_size, x, y, found, main,
                 find_results, registered, signaled, sig>>

Unregister(w) ==
  /\ Runs(w)
  /\ Goto(w, "unregistering", "gone")
  /\ registered' = registered \ {w}
  /\ holder' = Nobody
  /\ UNCHANGED <<regions, claimed, searched_size, x, y, found, main,
                 find_results, signaled, sig>>

NextRegion(w) == x' = [x EXCEPT ![w] = @ + 1] /\ y' = [y EXCEPT ![w] = 0]

\* regions_claimed[x].exchange(true) found true
SkipClaimed(w) ==
  /\ Runs(w)
  /\ wpc[w] = "claim" /\ x[w] \in Index /\ claimed[x[w]] # Nobody
  /\ NextRegion(w)
  /\ UNCHANGED <<regions, claimed, searched_size, wpc, found, main,
                 find_results, holder, registered, signaled, sig>>

\* mutant: the claim is read and never set
ClaimUnset(w) ==
  /\ Runs(w)
  /\ wpc[w] = "claim" /\ x[w] \in Index /\ claimed[x[w]] = Nobody
  /\ IF regions[x[w]].readable
     THEN wpc' = [wpc EXCEPT ![w] = "scan"] /\ UNCHANGED <<x, y>>
     ELSE NextRegion(w) /\ UNCHANGED wpc
  /\ UNCHANGED <<regions, claimed, searched_size, found, main, find_results,
                 holder, registered, signaled, sig>>

\* regions_claimed[x].exchange(true) found false; a region without data is
\* claimed and left
Claim(w) ==
  /\ Runs(w)
  /\ wpc[w] = "claim" /\ x[w] \in Index /\ claimed[x[w]] = Nobody
  /\ claimed' = [claimed EXCEPT ![x[w]] = w]
  /\ IF regions[x[w]].readable
     THEN wpc' = [wpc EXCEPT ![w] = "scan"] /\ UNCHANGED <<x, y>>
     ELSE NextRegion(w) /\ UNCHANGED wpc
  /\ UNCHANGED <<regions, searched_size, found, main, find_results, holder,
                 registered, signaled, sig>>

\* at a multiple of Page the worker looks for the signal and counts the page
\* it is about to compare
EnterPage(w) ==
  /\ Runs(w)
  /\ Goto(w, "scan", "page")
  /\ y[w] <= Last(regions[x[w]]) /\ ~signaled[w]
  /\ searched_size' = searched_size + Page
  /\ UNCHANGED <<regions, claimed, x, y, found, main, find_results, holder,
                 registered, signaled, sig>>

\* the comparisons up to the next multiple of Page
MatchPage(w) ==
  LET here == {o \in regions[x[w]].hits : y[w] <= o /\ o < y[w] + Page} IN
  /\ Runs(w)
  /\ Goto(w, "page", "scan")
  /\ found' = [found EXCEPT ![w] = @ \cup {<<x[w], o>> : o \in here}]
  /\ y' = [y EXCEPT ![w] = @ + Page]
  /\ UNCHANGED <<regions, claimed, searched_size, x, main, find_results, holder,
                 registered, signaled, sig>>

\* the end of the region, or the break of a signaled worker
LeaveRegion(w) ==
  /\ Runs(w)
  /\ wpc[w] = "scan"
  /\ y[w] > Last(regions[x[w]]) \/ signaled[w]
  /\ wpc' = [wpc EXCEPT ![w] = "claim"]
  /\ NextRegion(w)
  /\ UNCHANGED <<regions, claimed, searched_size, found, main, find_results,
                 holder, registered, signaled, sig>>

NoMoreRegions(w) ==
  /\ Runs(w)
  /\ x[w] > Len(Snapshot)
  /\ Goto(w, "claim", "leaving")
  /\ UNCHANGED <<regions, claimed, searched_size, x, y, found, main,
                 find_results, holder, registered, signaled, sig>>

Worker(w) ==
  \/ LockSignalables(w) \/ Register(w) \/ Unregister(w)
  \/ SkipClaimed(w) \/ Claim(w) \/ EnterPage(w) \/ MatchPage(w)
  \/ LeaveRegion(w) \/ NoMoreRegions(w)

----------------------------------------------------------------------------
(* The shell thread. *)

Spawn ==
  /\ Runs(Main) /\ main = "spawn"
  /\ \E w \in Workers : Goto(w, "unborn", "born")
  /\ UNCHANGED <<regions, claimed, searched_size, x, y, found, main,
                 find_results, holder, registered, signaled, sig>>

AllSpawned ==
  /\ Runs(Main) /\ main = "spawn"
  /\ \A w \in Workers : wpc[w] # "unborn"
  /\ main' = "poll"
  /\ UNCHANGED <<regions, pool, find_results, holder, registered, signaled, sig>>

\* while (searched_size < total_size) usleep(1000000)
AllSearched ==
  /\ Runs(Main) /\ main = "poll"
  /\ searched_size >= TotalSize
  /\ main' = "join"
  /\ UNCHANGED <<regions, pool, find_results, holder, registered, signaled, sig>>

Poll ==
  /\ Runs(Main) /\ main = "poll"
  /\ searched_size < TotalSize
  /\ UNCHANGED vars

\* mutant: the results are merged before the threads have ended
CollectUnjoined ==
  /\ Runs(Main) /\ main = "join"
  /\ main' = "done"
  /\ find_results' = {regions[m[1]].addr + m[2] : m \in UNION {found[w] : w \in Workers}}
  /\ UNCHANGED <<regions, pool, holder, registered, signaled, sig>>

\* every thread joined; the results are merged and sorted
Collect ==
  /\ Runs(Main) /\ main = "join"
  /\ \A w \in Workers : wpc[w] = "gone"
  /\ main' = "done"
  /\ find_results' = {regions[m[1]].addr + m[2] : m \in UNION {found[w] : w \in Workers}}
  /\ UNCHANGED <<regions, pool, holder, registered, signaled, sig>>

Shell == Spawn \/ AllSpawned \/ Poll \/ AllSearched \/ Collect

----------------------------------------------------------------------------
(* ^C: sigint_handler of Main.cc and Signalable::signal_all. *)

\* the second in which the last ^C was counted is over
Tick ==
  /\ same_second /\ main # "killed"
  /\ same_second' = FALSE
  /\ UNCHANGED <<regions, pool, main, find_results, holder, registered, signaled,
                 handler, recent, signals>>

Live == {Main} \cup {w \in Workers : wpc[w] \notin {"unborn", "gone"}}

\* mutant: one more ^C before the exit
InterruptOnceMore(t) ==
  /\ handler = Nobody /\ main # "killed" /\ t \in Live
  /\ signals < MaxSignals
  /\ signals' = signals + 1
  /\ IF ~same_second
     THEN same_second' = TRUE /\ recent' = 0 /\ handler' = t /\ UNCHANGED main
     ELSE IF recent > 2
          THEN main' = "killed" /\ UNCHANGED <<same_second, recent, handler>>
          ELSE recent' = recent + 1 /\ handler' = t /\ UNCHANGED <<same_second, main>>
  /\ UNCHANGED <<regions, pool, find_results, holder, registered, signaled>>

\* the handler starts on thread t; the fourth ^C of one second exits at once
Interrupt(t) ==
  /\ handler = Nobody /\ main # "killed" /\ t \in Live
  /\ signals < MaxSignals
  /\ signals' = signals + 1
  /\ IF ~same_second
     THEN same_second' = TRUE /\ recent' = 0 /\ handler' = t /\ UNCHANGED main
     ELSE IF recent > 1
          THEN main' = "killed" /\ UNCHANGED <<same_second, recent, handler>>
          ELSE recent' = recent + 1 /\ handler' = t /\ UNCHANGED <<same_second, main>>
  /\ UNCHANGED <<regions, pool, find_results, holder, registered, signaled>>

\* signal_all under the shared lock, then the handler returns
SignalAll ==
  /\ handler # Nobody /\ holder = Nobody /\ main # "killed"
  /\ signaled' = [w \in Workers |-> signaled[w] \/ w \in registered]
  /\ handler' = Nobody
  /\ UNCHANGED <<regions, pool, main, find_results, holder, registered, recent,
                 same_second, signals>>

\* back at the prompt, or exited
Idle ==
  /\ main \in {"done", "killed"}
  /\ UNCHANGED vars

Next ==
  \/ \E w \in Workers : Worker(w)
  \/ Shell
  \/ Tick \/ SignalAll \/ Idle
  \/ \E t \in HandlerThreads : Interrupt(t)

Spec == Init /\ [][Next]_vars

\* threads are scheduled and a handler that can finish does; nobody has to
\* press ^C and no second has to end
Fairness ==
  /\ \A w \in Workers : WF_vars(Worker(w))
  /\ WF_vars(Shell)
  /\ WF_vars(SignalAll)

FairSpec == Spec /\ Fairness
----------------------------------------------------------------------------
(* Properties. *)

WorkerPCs ==
  {"unborn", "born", "registering", "claim", "scan", "page", "leaving",
   "unregistering", "gone"}

\* Every variable has its type, and a scanning worker is inside the list.
TypeOK ==
  /\ regions \in [Index -> RegionType]
  /\ claimed \in [Index -> Workers \cup {Nobody}]
  /\ searched_size \in Nat
  /\ main \in {"spawn", "poll", "join", "done", "killed"}
  /\ wpc \in [Workers -> WorkerPCs]
  /\ x \in [Workers -> 1..(Len(Snapshot) + 1)]
  /\ y \in [Workers -> Nat]
  /\ found \in [Workers -> SUBSET (Index \X Nat)]
  /\ find_results \subseteq Nat
  /\ holder \in Workers \cup {Nobody}
  /\ registered \subseteq Workers
  /\ signaled \in [Workers -> BOOLEAN]
  /\ handler \in Workers \cup {Main, Nobody}
  /\ recent \in 0..2 /\ same_second \in BOOLEAN /\ signals \in 0..MaxSignals
  /\ \A w \in Workers : wpc[w] \in {"scan", "page"} => x[w] \in Index

\* No region is scanned by two workers, so no match is reported twice (the
\* exchange on regions_claimed in command_find).
EachMatchOnce ==
  \A v, w \in Workers : v # w =>
    /\ found[v] \cap found[w] = {}
    /\ {wpc[v], wpc[w]} \subseteq {"scan", "page"} => x[v] # x[w]

Matches ==
  UNION {{Snapshot[k].addr + o : o \in Snapshot[k].hits} :
           k \in {j \in Index : Snapshot[j].readable}}

\* A find that returns has found every match and nothing else, even when ^C was
\* pressed: a worker that stopped early leaves searched_size short, so the poll
\* loop never lets the partial results out (command_find, README `find').
DoneMeansComplete == main = "done" => find_results = Matches

\* A Signalable is registered exactly while its worker is between constructor
\* and destructor: signal_all never touches a destroyed object.
RegisteredLive ==
  /\ registered = {w \in Workers : wpc[w] \in {"claim", "scan", "page", "leaving", "unregistering"}}
  /\ \A w \in Workers : holder = w <=> wpc[w] \in {"registering", "unregistering"}

\* Unless ^C is pressed, find returns: every page is counted and every thread ends
\* (command_find, poll loop and joins).
FindReturns == <>(main = "done" \/ signals > 0)

\* ^C cancels the operation that is running: the find returns to the prompt
\* (Main.cc, comment on sigint_handler).
CancelReturns ==
  (\E w \in Workers : signaled[w]) ~> (main \in {"done", "killed"})

\* The signal handler returns: whatever the workers do with Signalable's lock, the
\* interrupted thread runs again (Signalable::signal_all, called by sigint_handler).
HandlerFinishes == handler # Nobody ~> (handler = Nobody \/ main = "killed")
=============================================================================
