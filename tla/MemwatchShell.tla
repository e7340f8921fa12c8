---------------------------- MODULE MemwatchShell ----------------------------
(***************************************************************************)
(* The life of memwatch: main() chooses a process, the shell runs commands  *)
(* from its prompt or from the command line, and ends.  A command is known  *)
(* here by its shape only: what it pauses, whether watch repeats it, and    *)
(* what it changes of the state below.  What the commands do to searches,   *)
(* frozen regions and the target's memory is in the other modules.          *)
(*                                                                         *)
(* Beside the main thread run the processes, which may die at any moment,   *)
(* and the SIGINT handler, which the system runs on some thread that it     *)
(* interrupts; main is one of them.                                        *)
(***************************************************************************)
EXTENDS Integers, FiniteSets

CONSTANTS
  Procs,          \* processes memwatch may be attached to; memwatch is not one
  NoTask,         \* the task port after task_for_pid has failed
  Threads,        \* threads of memwatch that take the signal; may contain "main"
  Words,          \* what the user may type for a process
  Leading,        \* word -> the process whose pid its leading digits are, or NoTask
  Matching,       \* word -> the processes whose names contain it
  MaxPauses,      \* bound: pause commands in force
  MaxCommands     \* bound: commands given on the command line

(***************************************************************************)
(* Shapes: plain   touches no process (state, data, frozen, delete, undo)   *)
(*         guarded one PauseGuard around the access (list, dump, find,      *)
(*                 search, set, write, freeze +s)                           *)
(*         read    a loop with a Signalable and a PauseGuard in each round  *)
(*         results a loop with a Signalable, pausing nothing                *)
(***************************************************************************)
Loops == {"read", "results"}
Shapes == {"plain", "guarded", "pause", "resume", "signal", "attach", "quit", "toggle"} \cup Loops

ASSUME ShellAssumption ==
  /\ NoTask \notin Procs
  /\ Leading \in [Words -> Procs \cup {NoTask}]
  /\ Matching \in [Words -> SUBSET Procs]
  /\ MaxPauses \in Nat /\ MaxCommands \in Nat

VARIABLES
  pc,             \* of the main thread
  shape, watched, \* the command it runs, and whether watch runs it
  failed,         \* it has ended in an exception
  watch, run, interactive, pause_target,
  left,           \* commands left on the command line
  holding,        \* the PauseGuard in scope has an adapter
  task, pid,      \* the attached process, and the one the shell names
  alive, suspend, \* per process
  mine,           \* history: pauses less resumes of the user, per process
  registered,     \* the command's Signalable is in all_signalables
  signaled,
  handler,        \* per thread: "none", "called" or "locked"
  same_second, recent_cancel_count

command == <<shape, watched, failed>>
shell == <<watch, run, interactive, pause_target, left>>
attached == <<task, pid>>
processes == <<alive, suspend, mine>>
cancel == <<registered, signaled>>
signal == <<handler, same_second, recent_cancel_count>>
vars == <<pc, command, shell, holding, attached, processes, cancel, signal>>

Ended == {"exited", "aborted", "killed"}

\* the handler runs on top of the thread it has interrupted
MainRuns == pc \notin Ended /\ ("main" \in Threads => handler["main"] = "none")

\* unique_lock in the constructor and destructor of Signalable: once it is asked for,
\* shared_mutex lets no new shared_lock in, and waits for those there are
MainAsksForLock == pc \in {"constructing", "destructing"}
HandlerHoldsLock == \E t \in Threads : handler[t] = "locked"

Reachable == task # NoTask /\ alive[task]

Go(label) == pc' = label
Only(label) == Go(label) /\ UNCHANGED <<command, holding, attached, processes, cancel>>

----------------------------------------------------------------------------
(* main(): choosing a process. *)

Init ==
  /\ pc = "launch"
  /\ shape = "plain" /\ watched = FALSE /\ failed = FALSE
  /\ watch = FALSE /\ run = TRUE
  /\ interactive \in BOOLEAN /\ pause_target \in BOOLEAN
  /\ left \in 0..MaxCommands
  /\ interactive <=> left = 0
  /\ holding = FALSE
  /\ task = NoTask /\ pid = NoTask
  /\ alive = [p \in Procs |-> TRUE]
  /\ suspend = [p \in Procs |-> 0] /\ mine = [p \in Procs |-> 0]
  /\ registered = FALSE /\ signaled = FALSE
  /\ handler = [t \in Threads |-> "none"]
  /\ same_second = FALSE /\ recent_cancel_count = 0

\* leading digits win over a name; several matches are put to the user
Chosen(word) ==
  IF Leading[word] # NoTask THEN {Leading[word]} ELSE {p \in Matching[word] : alive[p]}

\* the constructor: task_for_pid, then name_for_pid
Launch ==
  /\ pc = "launch" /\ MainRuns
  /\ \E word \in Words : \E p \in Chosen(word) :
       \/ task' = p /\ pid' = p /\ alive[p] /\ Go("prompt")
       \/ UNCHANGED attached /\ Go(IF interactive THEN "exited" ELSE "aborted")
  /\ UNCHANGED <<command, shell, holding, processes, cancel, signal>>

LaunchFails ==
  /\ pc = "launch" /\ MainRuns
  /\ Only("exited") /\ UNCHANGED <<shell, signal>>

----------------------------------------------------------------------------
(* execute_commands, or the loop over the commands in main(). *)

FirstLabel(s) == IF s \in Loops THEN "construct" ELSE IF s = "guarded" THEN "pausing" ELSE "body"

StartCommand ==
  /\ pc = "prompt" /\ MainRuns
  /\ IF interactive THEN run /\ UNCHANGED left ELSE left > 0 /\ left' = left - 1
  /\ \E s \in Shapes, w \in BOOLEAN :
       /\ s = "pause" /\ Reachable => suspend[task] < MaxPauses
       /\ shape' = s /\ watched' = w /\ failed' = FALSE
       /\ watch' = w
       \* results asks for the interactive mode before anything else
       /\ Go(IF s = "results" /\ ~interactive THEN "throw" ELSE FirstLabel(s))
  /\ UNCHANGED <<run, interactive, pause_target, holding, attached, processes, cancel, signal>>

\* an exception is caught in execute_command
Throw ==
  /\ pc = "throw" /\ MainRuns
  /\ failed' = TRUE /\ Go("return")
  /\ UNCHANGED <<shape, watched, shell, holding, attached, processes, cancel, signal>>

NoCommand == shape' = "plain" /\ watched' = FALSE /\ failed' = FALSE

\* mutant: watch dispatches its command itself, and an exception skips the reset
ReturnKeepsWatch ==
  /\ pc = "return" /\ MainRuns
  /\ watch' = (watched /\ failed)
  /\ Go(IF failed /\ ~watched /\ ~interactive THEN "exited" ELSE "prompt")
  /\ NoCommand
  /\ UNCHANGED <<run, interactive, pause_target, left, holding, attached, processes,
                 cancel, signal>>

\* command_watch drops the result of the command it runs, so that only a failure of
\* a command that is not watched ends the loop in main()
Return ==
  /\ pc = "return" /\ MainRuns
  /\ watch' = FALSE
  /\ Go(IF failed /\ ~watched /\ ~interactive THEN "exited" ELSE "prompt")
  /\ NoCommand
  /\ UNCHANGED <<run, interactive, pause_target, left, holding, attached, processes,
                 cancel, signal>>

\* mutant: the interactive loop does not ask for quit
LeaveAtEnd ==
  /\ pc = "prompt" /\ MainRuns
  /\ ~interactive /\ left = 0
  /\ Only("exited") /\ UNCHANGED <<shell, signal>>

\* quit, or no more commands; the loop in main() does not ask for quit
Leave ==
  /\ pc = "prompt" /\ MainRuns
  /\ IF interactive THEN ~run ELSE left = 0
  /\ Only("exited") /\ UNCHANGED <<shell, signal>>

\* ctrl+d
EndOfInput ==
  /\ pc = "prompt" /\ MainRuns
  /\ interactive /\ run
  /\ Only("exited") /\ UNCHANGED <<shell, signal>>

----------------------------------------------------------------------------
(* PauseGuard. *)

\* task_suspend, or an exception out of the constructor: read and write print it
Pausing ==
  /\ pc = "pausing" /\ MainRuns
  /\ IF pause_target /\ Reachable
     THEN holding' = TRUE /\ suspend' = [suspend EXCEPT ![task] = @ + 1]
     ELSE holding' = FALSE /\ UNCHANGED suspend
  /\ pc' \in IF ~pause_target \/ Reachable THEN {"body"}
            ELSE IF shape \in Loops THEN {"sleep"} ELSE {"throw", "return"}
  /\ UNCHANGED <<command, shell, attached, alive, mine, cancel, signal>>

\* mutant: an exception skips the resume
ResumingUnlessFailed ==
  /\ pc = "resuming" /\ MainRuns
  /\ holding' = FALSE
  /\ suspend' = IF holding /\ Reachable /\ ~failed THEN [suspend EXCEPT ![task] = @ - 1] ELSE suspend
  /\ Go(IF shape \in Loops THEN "sleep" ELSE "return")
  /\ UNCHANGED <<command, shell, attached, alive, mine, cancel, signal>>

\* task_resume in a destructor: its exception ends the program
Resuming ==
  /\ pc = "resuming" /\ MainRuns
  /\ holding' = FALSE
  /\ suspend' = IF holding /\ Reachable THEN [suspend EXCEPT ![task] = @ - 1] ELSE suspend
  /\ Go(IF holding /\ ~Reachable THEN "aborted" ELSE IF shape \in Loops THEN "sleep" ELSE "return")
  /\ UNCHANGED <<command, shell, attached, alive, mine, cancel, signal>>

----------------------------------------------------------------------------
(* The commands. *)

Body == pc = "body" /\ MainRuns

\* whatever a guarded command or a round of read meets, its guard is left
GuardedBody ==
  /\ Body /\ shape \in {"guarded", "read"}
  /\ failed' \in (IF shape = "read" THEN {FALSE} ELSE BOOLEAN)
  /\ Go("resuming")
  /\ UNCHANGED <<shape, watched, shell, holding, attached, processes, cancel, signal>>

ResultsBody ==
  /\ Body /\ shape = "results"
  /\ Only("sleep") /\ UNCHANGED <<shell, signal>>

PlainBody ==
  /\ Body /\ shape = "plain"
  /\ \E label \in {"return", "throw"} : Only(label)
  /\ UNCHANGED <<shell, signal>>

\* state pause_target
ToggleBody ==
  /\ Body /\ shape = "toggle"
  /\ pause_target' \in BOOLEAN /\ Only("return")
  /\ UNCHANGED <<watch, run, interactive, left, signal>>

\* quit, and state run
QuitBody ==
  /\ Body /\ shape = "quit"
  /\ run' = FALSE /\ Only("return")
  /\ UNCHANGED <<watch, interactive, pause_target, left, signal>>

PauseBody ==
  /\ Body /\ shape = "pause"
  /\ \/ /\ Reachable
        /\ suspend' = [suspend EXCEPT ![task] = @ + 1]
        /\ mine' = [mine EXCEPT ![task] = @ + 1]
        /\ Go("return")
     \/ ~Reachable /\ Go("throw") /\ UNCHANGED <<suspend, mine>>
  /\ UNCHANGED <<command, shell, holding, attached, alive, cancel, signal>>

\* a process that is not suspended cannot be resumed
ResumeBody ==
  /\ Body /\ shape = "resume"
  /\ IF Reachable /\ suspend[task] > 0
     THEN /\ suspend' = [suspend EXCEPT ![task] = @ - 1]
          /\ mine' = [mine EXCEPT ![task] = @ - 1]
          /\ Go("return")
     ELSE Go("throw") /\ UNCHANGED <<suspend, mine>>
  /\ UNCHANGED <<command, shell, holding, attached, alive, cancel, signal>>

\* kill(2) on the process the shell names, which may end it
SignalBody ==
  /\ Body /\ shape = "signal"
  /\ IF pid # NoTask /\ alive[pid]
     THEN alive' \in {alive, [alive EXCEPT ![pid] = FALSE]} /\ Go("return")
     ELSE UNCHANGED alive /\ Go("throw")
  /\ UNCHANGED <<command, shell, holding, attached, suspend, mine, cancel, signal>>

\* the pid and the name are stored before task_for_pid, which may fail
AttachBody ==
  /\ Body /\ shape = "attach"
  /\ \/ \E word \in Words : \E p \in Chosen(word) :
          /\ alive[p] /\ pid' = p
          /\ \/ task' = p /\ Go("return")
             \/ task' = NoTask /\ Go("throw")
     \/ UNCHANGED attached /\ Go("throw")
  /\ UNCHANGED <<command, shell, holding, processes, cancel, signal>>

----------------------------------------------------------------------------
(* The loops: do ... while (this->watch && !s.is_signaled()).  Nothing but   *)
(* the sleep of a second is between two rounds.                             *)

Construct ==
  /\ pc = "construct" /\ MainRuns
  /\ Only("constructing") /\ UNCHANGED <<shell, signal>>

Constructed ==
  /\ pc = "constructing" /\ MainRuns /\ ~HandlerHoldsLock
  /\ registered' = TRUE /\ signaled' = FALSE
  /\ Go(IF shape = "read" THEN "pausing" ELSE "body")
  /\ UNCHANGED <<command, shell, holding, attached, processes, signal>>

\* mutant: the loop does not look at the Signalable
SleepUnsignaled ==
  /\ pc = "sleep" /\ MainRuns
  /\ Only(IF ~watch THEN "destruct" ELSE IF shape = "read" THEN "pausing" ELSE "body")
  /\ UNCHANGED <<shell, signal>>

Sleep ==
  /\ pc = "sleep" /\ MainRuns
  /\ Only(IF ~watch \/ signaled THEN "destruct"
          ELSE IF shape = "read" THEN "pausing" ELSE "body")
  /\ UNCHANGED <<shell, signal>>

Destruct ==
  /\ pc = "destruct" /\ MainRuns
  /\ Only("destructing") /\ UNCHANGED <<shell, signal>>

Destructed ==
  /\ pc = "destructing" /\ MainRuns /\ ~HandlerHoldsLock
  /\ registered' = FALSE /\ signaled' = FALSE
  /\ Go("return")
  /\ UNCHANGED <<command, shell, holding, attached, processes, signal>>

----------------------------------------------------------------------------
(* ^C: sigint_handler, and Signalable::signal_all. *)

Still == UNCHANGED <<command, shell, holding, attached, processes>>

\* mutant: the count is compared after it has been incremented
InterruptOnceMore(t) ==
  /\ pc \notin Ended /\ handler[t] = "none"
  /\ IF same_second /\ recent_cancel_count > 2
     THEN Go("killed") /\ UNCHANGED signal
     ELSE /\ handler' = [handler EXCEPT ![t] = "called"]
          /\ recent_cancel_count' = IF same_second THEN recent_cancel_count + 1 ELSE 0
          /\ same_second' = TRUE
          /\ UNCHANGED pc
  /\ UNCHANGED cancel /\ Still

\* the fourth within a second ends the program: exit(0), from wherever main is
Interrupt(t) ==
  /\ pc \notin Ended /\ handler[t] = "none"
  /\ IF same_second /\ recent_cancel_count > 1
     THEN Go("killed") /\ UNCHANGED signal
     ELSE /\ handler' = [handler EXCEPT ![t] = "called"]
          /\ recent_cancel_count' = IF same_second THEN recent_cancel_count + 1 ELSE 0
          /\ same_second' = TRUE
          /\ UNCHANGED pc
  /\ UNCHANGED cancel /\ Still

HandlerLocks(t) ==
  /\ pc \notin Ended /\ handler[t] = "called" /\ ~MainAsksForLock
  /\ handler' = [handler EXCEPT ![t] = "locked"]
  /\ UNCHANGED <<pc, cancel, same_second, recent_cancel_count>> /\ Still

HandlerSignals(t) ==
  /\ pc \notin Ended /\ handler[t] = "locked"
  /\ handler' = [handler EXCEPT ![t] = "none"]
  /\ signaled' = registered
  /\ UNCHANGED <<pc, registered, same_second, recent_cancel_count>> /\ Still

SecondPasses ==
  /\ pc \notin Ended /\ same_second
  /\ same_second' = FALSE
  /\ UNCHANGED <<pc, cancel, handler, recent_cancel_count>> /\ Still

Dies(p) ==
  /\ pc \notin Ended /\ alive[p]
  /\ alive' = [alive EXCEPT ![p] = FALSE]
  /\ UNCHANGED <<pc, command, shell, holding, attached, suspend, mine, cancel, signal>>

Over == pc \in Ended /\ UNCHANGED vars

----------------------------------------------------------------------------

Main ==
  \/ Launch \/ LaunchFails
  \/ Leave \/ Throw \/ Return
  \/ Pausing \/ Resuming
  \/ GuardedBody \/ ResultsBody \/ PlainBody \/ ToggleBody \/ QuitBody
  \/ PauseBody \/ ResumeBody \/ SignalBody \/ AttachBody
  \/ Construct \/ Constructed \/ Sleep \/ Destruct \/ Destructed

Next ==
  \/ Main \/ StartCommand \/ EndOfInput
  \/ \E t \in Threads : Interrupt(t) \/ HandlerLocks(t) \/ HandlerSignals(t)
  \/ SecondPasses
  \/ \E p \in Procs : Dies(p)
  \/ Over

(***************************************************************************)
(* Every thread runs: the user need not type anything, and need not stop    *)
(* pressing ^C, which interrupts main again and again, but each time only   *)
(* for a while: SF_vars(Main).                                              *)
(***************************************************************************)
Spec ==
  /\ Init /\ [][Next]_vars
  /\ SF_vars(Main)
  /\ \A t \in Threads : WF_vars(HandlerLocks(t)) /\ WF_vars(HandlerSignals(t))

----------------------------------------------------------------------------
(* Properties. *)

Labels ==
  {"launch", "prompt", "construct", "constructing", "pausing", "body", "resuming",
   "sleep", "destruct", "destructing", "throw", "return"} \cup Ended

\* Every variable has its type; the handler never counts past the cancellation that
\* ends the program (sigint_handler), and no pause is undone twice (PauseGuard, resume).
TypeOK ==
  /\ pc \in Labels
  /\ shape \in Shapes /\ watched \in BOOLEAN /\ failed \in BOOLEAN
  /\ watch \in BOOLEAN /\ run \in BOOLEAN
  /\ interactive \in BOOLEAN /\ pause_target \in BOOLEAN
  /\ left \in 0..MaxCommands
  /\ holding \in BOOLEAN
  /\ task \in Procs \cup {NoTask} /\ pid \in Procs \cup {NoTask}
  /\ alive \in [Procs -> BOOLEAN]
  /\ suspend \in [Procs -> Nat] /\ mine \in [Procs -> Nat]
  /\ registered \in BOOLEAN /\ signaled \in BOOLEAN
  /\ handler \in [Threads -> {"none", "called", "locked"}]
  /\ same_second \in BOOLEAN /\ recent_cancel_count \in 0..2

\* However a command ends, by its last line, an exception, ^C or the death of its
\* process, every process that lives is suspended exactly as often as the user has
\* asked for, and once more while a PauseGuard of this command is in scope.
PausesBalanced ==
  \A p \in Procs : alive[p] =>
    suspend[p] = mine[p] + IF holding /\ p = task THEN 1 ELSE 0

\* Nothing of a command outlives it: at the prompt watch is off again, no PauseGuard
\* is in scope and no Signalable is registered, so that ^C there cancels nothing.
PromptClean ==
  pc \in {"prompt", "exited"} => ~watch /\ ~holding /\ ~registered

\* main waits for the handler on top of it, which waits for the lock main is at
Deadlocked ==
  "main" \in Threads /\ handler["main"] = "called" /\ MainAsksForLock

\* ^C ends a watched read or results, on whichever thread the handler runs, unless it
\* has interrupted main inside the constructor or destructor of its Signalable.
WatchStops ==
  (registered /\ watch /\ \E t \in Threads : handler[t] = "called")
    ~> (~registered \/ pc \in Ended \/ Deadlocked)

\* quit, also under watch and with ^C pressed meanwhile, ends an interactive session.
QuitExits ==
  (interactive /\ ~run) ~> (pc \in Ended \/ Deadlocked)

=============================================================================
