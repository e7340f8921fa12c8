------------------------ MODULE MemwatchShellProofs ------------------------
(***************************************************************************)
(* For every set of processes, threads and names and for every bound: a     *)
(* command never leaves a process paused, watch on, a PauseGuard in scope   *)
(* or a Signalable registered, however it ends.                             *)
(*                                                                         *)
(* What is inductive is PausesBalanced together with Control, which says    *)
(* where in a command a PauseGuard and a Signalable may be.                 *)
(***************************************************************************)
EXTENDS MemwatchShell, TLAPS

\* where the main thread is, against what is in scope there
Control ==
  /\ pc \in {"launch", "prompt", "exited"} => ~watch
  /\ pc \in {"pausing", "resuming"} => shape \in {"guarded", "read"}
  /\ pc \in {"construct", "constructing", "sleep"} => shape \in Loops
  /\ holding => /\ pc \in {"body", "resuming", "killed"}
                /\ pc = "body" => shape \in {"guarded", "read"}
                /\ task \in Procs
  /\ registered => /\ shape \in Loops
                   /\ pc \in {"pausing", "body", "resuming", "sleep", "destruct",
                              "destructing", "aborted", "killed"}

IInv == TypeOK /\ PausesBalanced /\ Control

LEMMA InitIInv == Init => IInv
<1> SUFFICES ASSUME Init PROVE IInv
  OBVIOUS
<1>1. TypeOK
  <2>1. /\ suspend \in [Procs -> Nat] /\ mine \in [Procs -> Nat]
        /\ alive \in [Procs -> BOOLEAN]
        /\ handler \in [Threads -> {"none", "called", "locked"}]
    BY DEF Init
  <2>2. pc \in Labels /\ shape \in Shapes
    BY DEF Init, Labels, Shapes
  <2>3. /\ left \in 0..MaxCommands
        /\ task \in Procs \cup {NoTask} /\ pid \in Procs \cup {NoTask}
        /\ recent_cancel_count \in 0..2
    BY DEF Init
  <2>4. /\ watched \in BOOLEAN /\ failed \in BOOLEAN /\ watch \in BOOLEAN /\ run \in BOOLEAN
        /\ interactive \in BOOLEAN /\ pause_target \in BOOLEAN /\ holding \in BOOLEAN
        /\ registered \in BOOLEAN /\ signaled \in BOOLEAN /\ same_second \in BOOLEAN
    BY Zenon DEF Init
  <2> QED BY <2>1, <2>2, <2>3, <2>4 DEF TypeOK
<1>2. PausesBalanced
  BY DEF Init, PausesBalanced
<1>3. Control
  BY DEF Init, Control
<1> QED BY <1>1, <1>2, <1>3 DEF IInv

(***************************************************************************)
(* Types.                                                                  *)
(***************************************************************************)
LEMMA ChosenType ==
  ASSUME NEW word \in Words, NEW p \in Chosen(word)
  PROVE  p \in Procs
BY ShellAssumption DEF Chosen

\* the variables of one component, and the types they keep when nothing of it changes
CommandType == shape \in Shapes /\ watched \in BOOLEAN /\ failed \in BOOLEAN
ShellType == /\ watch \in BOOLEAN /\ run \in BOOLEAN
             /\ interactive \in BOOLEAN /\ pause_target \in BOOLEAN
             /\ left \in 0..MaxCommands
AttachedType == task \in Procs \cup {NoTask} /\ pid \in Procs \cup {NoTask}
ProcessesType == /\ alive \in [Procs -> BOOLEAN]
                 /\ suspend \in [Procs -> Nat] /\ mine \in [Procs -> Nat]
CancelType == registered \in BOOLEAN /\ signaled \in BOOLEAN
SignalType == /\ handler \in [Threads -> {"none", "called", "locked"}]
              /\ same_second \in BOOLEAN /\ recent_cancel_count \in 0..2

LEMMA TypeParts ==
  TypeOK <=> /\ pc \in Labels /\ holding \in BOOLEAN
             /\ CommandType /\ ShellType /\ AttachedType /\ ProcessesType
             /\ CancelType /\ SignalType
BY DEF TypeOK, CommandType, ShellType, AttachedType, ProcessesType, CancelType, SignalType

LEMMA TypePartsNext ==
  TypeOK' <=> /\ pc' \in Labels /\ holding' \in BOOLEAN
              /\ CommandType' /\ ShellType' /\ AttachedType' /\ ProcessesType'
              /\ CancelType' /\ SignalType'
BY DEF TypeOK, CommandType, ShellType, AttachedType, ProcessesType, CancelType, SignalType

LEMMA PartsKept ==
  /\ CommandType /\ UNCHANGED command => CommandType'
  /\ ShellType /\ UNCHANGED shell => ShellType'
  /\ AttachedType /\ UNCHANGED attached => AttachedType'
  /\ ProcessesType /\ UNCHANGED processes => ProcessesType'
  /\ CancelType /\ UNCHANGED cancel => CancelType'
  /\ SignalType /\ UNCHANGED signal => SignalType'
<1>1. CommandType /\ UNCHANGED command => CommandType'
  BY DEF CommandType, command
<1>2. ShellType /\ UNCHANGED shell => ShellType'
  BY DEF ShellType, shell
<1>3. AttachedType /\ UNCHANGED attached => AttachedType'
  BY DEF AttachedType, attached
<1>4. ProcessesType /\ UNCHANGED processes => ProcessesType'
  BY DEF ProcessesType, processes
<1>5. CancelType /\ UNCHANGED cancel => CancelType'
  BY DEF CancelType, cancel
<1>6. SignalType /\ UNCHANGED signal => SignalType'
  BY DEF SignalType, signal
<1> QED BY <1>1, <1>2, <1>3, <1>4, <1>5, <1>6

LEMMA MainType ==
  ASSUME IInv, Main
  PROVE  TypeOK'
<1>0. /\ pc \in Labels /\ holding \in BOOLEAN
      /\ CommandType /\ ShellType /\ AttachedType /\ ProcessesType /\ CancelType /\ SignalType
  BY TypeParts DEF IInv
<1> USE <1>0, TypePartsNext, PartsKept DEF Go, Only
<1>1. CASE Launch
  <2>1. AttachedType'
    BY <1>1, ChosenType DEF Launch, AttachedType, attached
  <2>2. pc' \in Labels
    BY <1>1 DEF Launch, Labels, Ended
  <2> QED BY <1>1, <2>1, <2>2 DEF Launch
<1>2. CASE LaunchFails
  BY <1>2 DEF LaunchFails, Labels, Ended
<1>3. CASE Leave
  BY <1>3 DEF Leave, Labels, Ended
<1>4. CASE Throw
  BY <1>4 DEF Throw, CommandType, Labels
<1>5. CASE Return
  <2>1. CommandType'
    BY <1>5 DEF Return, NoCommand, CommandType, Shapes
  <2>2. ShellType'
    BY <1>5 DEF Return, ShellType
  <2>3. pc' \in Labels
    BY <1>5 DEF Return, Labels, Ended
  <2> QED BY <1>5, <2>1, <2>2, <2>3 DEF Return
<1>6. CASE Pausing
  <2>1. ProcessesType'
    BY <1>6 DEF Pausing, Reachable, ProcessesType, AttachedType
  <2>2. holding' \in BOOLEAN
    BY <1>6 DEF Pausing
  <2>3. pc' \in Labels
    BY <1>6 DEF Pausing, Labels
  <2> QED BY <1>6, <2>1, <2>2, <2>3 DEF Pausing
<1>7. CASE Resuming
  <2>1. ProcessesType'
    <3>1. CASE holding /\ Reachable
      <4>1. task \in Procs /\ suspend[task] = mine[task] + 1
        BY <3>1 DEF IInv, Control, PausesBalanced, Reachable
      <4> QED BY <1>7, <3>1, <4>1 DEF Resuming, ProcessesType
    <3>2. CASE ~(holding /\ Reachable)
      BY <1>7, <3>2 DEF Resuming, ProcessesType
    <3> QED BY <3>1, <3>2
  <2>2. pc' \in Labels
    BY <1>7 DEF Resuming, Labels, Ended
  <2> QED BY <1>7, <2>1, <2>2 DEF Resuming
<1>8. CASE GuardedBody
  <2>1. CommandType'
    BY <1>8 DEF GuardedBody, CommandType
  <2> QED BY <1>8, <2>1 DEF GuardedBody, Labels
<1>9. CASE ResultsBody
  BY <1>9 DEF ResultsBody, Labels
<1>10. CASE PlainBody
  BY <1>10 DEF PlainBody, Labels
<1>11. CASE ToggleBody
  <2>1. ShellType'
    BY <1>11 DEF ToggleBody, ShellType
  <2> QED BY <1>11, <2>1 DEF ToggleBody, Labels
<1>12. CASE QuitBody
  <2>1. ShellType'
    BY <1>12 DEF QuitBody, ShellType
  <2> QED BY <1>12, <2>1 DEF QuitBody, Labels
<1>13. CASE PauseBody
  <2>1. ProcessesType'
    BY <1>13 DEF PauseBody, Reachable, ProcessesType, AttachedType
  <2>2. pc' \in Labels
    BY <1>13 DEF PauseBody, Labels
  <2> QED BY <1>13, <2>1, <2>2 DEF PauseBody
<1>14. CASE ResumeBody
  <2>1. ProcessesType'
    <3>1. CASE Reachable /\ suspend[task] > 0
      <4>1. ~holding /\ task \in Procs
        BY <1>14, <3>1 DEF ResumeBody, Body, IInv, Control, Reachable, AttachedType
      <4>2. suspend[task] = mine[task]
        BY <3>1, <4>1 DEF IInv, PausesBalanced, Reachable, ProcessesType
      <4> QED BY <1>14, <3>1, <4>1, <4>2 DEF ResumeBody, ProcessesType
    <3>2. CASE ~(Reachable /\ suspend[task] > 0)
      BY <1>14, <3>2 DEF ResumeBody, ProcessesType
    <3> QED BY <3>1, <3>2
  <2>2. pc' \in Labels
    BY <1>14 DEF ResumeBody, Labels
  <2> QED BY <1>14, <2>1, <2>2 DEF ResumeBody
<1>15. CASE SignalBody
  <2>1. alive' \in [Procs -> BOOLEAN]
    BY <1>15 DEF SignalBody, ProcessesType
  <2>2. ProcessesType'
    BY <1>15, <2>1 DEF SignalBody, ProcessesType
  <2>3. pc' \in Labels
    BY <1>15 DEF SignalBody, Labels
  <2> QED BY <1>15, <2>2, <2>3 DEF SignalBody
<1>16. CASE AttachBody
  <2>1. AttachedType'
    BY <1>16, ChosenType DEF AttachBody, AttachedType, attached
  <2>2. pc' \in Labels
    BY <1>16 DEF AttachBody, Labels
  <2> QED BY <1>16, <2>1, <2>2 DEF AttachBody
<1>17. CASE Construct
  BY <1>17 DEF Construct, Labels
<1>18. CASE Constructed
  <2>1. CancelType'
    BY <1>18 DEF Constructed, CancelType
  <2> QED BY <1>18, <2>1 DEF Constructed, Labels
<1>19. CASE Sleep
  BY <1>19 DEF Sleep, Labels
<1>20. CASE Destruct
  BY <1>20 DEF Destruct, Labels
<1>21. CASE Destructed
  <2>1. CancelType'
    BY <1>21 DEF Destructed, CancelType
  <2> QED BY <1>21, <2>1 DEF Destructed, Labels
<1> QED
  BY <1>1, <1>2, <1>3, <1>4, <1>5, <1>6, <1>7, <1>8, <1>9, <1>10, <1>11, <1>12, <1>13,
     <1>14, <1>15, <1>16, <1>17, <1>18, <1>19, <1>20, <1>21 DEF Main

LEMMA OtherType ==
  ASSUME IInv, Next, ~Main
  PROVE  TypeOK'
<1> USE DEF IInv, TypeOK, Go, Only, Still, command, shell, attached, processes, cancel, signal
<1> USE DEF Labels, Ended
<1>1. CASE StartCommand
  <2> PICK x \in Shapes, w \in BOOLEAN :
         /\ shape' = x /\ watched' = w /\ failed' = FALSE /\ watch' = w
         /\ pc' = IF x = "results" /\ ~interactive THEN "throw" ELSE FirstLabel(x)
    BY <1>1 DEF StartCommand
  <2>1. pc' \in Labels
    BY DEF FirstLabel
  <2>2. left' \in 0..MaxCommands
    <3>1. CASE interactive
      BY <1>1, <3>1 DEF StartCommand
    <3>2. CASE ~interactive
      <4>1. left > 0 /\ left' = left - 1
        BY <1>1, <3>2, Zenon DEF StartCommand
      <4> QED BY <4>1, ShellAssumption
    <3> QED BY <3>1, <3>2
  <2>3. watched' \in BOOLEAN /\ watch' \in BOOLEAN /\ failed' \in BOOLEAN
    OBVIOUS
  <2> QED BY <1>1, <2>1, <2>2, <2>3 DEF StartCommand
<1>2. CASE EndOfInput
  BY <1>2 DEF EndOfInput
<1>3. ASSUME NEW t \in Threads, Interrupt(t) PROVE TypeOK'
  <2>1. recent_cancel_count' \in 0..2
    BY <1>3 DEF Interrupt
  <2>2. handler' \in [Threads -> {"none", "called", "locked"}] /\ pc' \in Labels
    BY <1>3 DEF Interrupt
  <2>3. same_second' \in BOOLEAN
    BY <1>3 DEF Interrupt
  <2> QED BY <1>3, <2>1, <2>2, <2>3 DEF Interrupt
<1>4. ASSUME NEW t \in Threads, HandlerLocks(t) PROVE TypeOK'
  BY <1>4 DEF HandlerLocks
<1>5. ASSUME NEW t \in Threads, HandlerSignals(t) PROVE TypeOK'
  BY <1>5 DEF HandlerSignals
<1>6. CASE SecondPasses
  <2>1. same_second' \in BOOLEAN
    BY <1>6 DEF SecondPasses
  <2> QED BY <1>6, <2>1 DEF SecondPasses
<1>7. ASSUME NEW p \in Procs, Dies(p) PROVE TypeOK'
  BY <1>7 DEF Dies
<1>8. CASE Over
  BY <1>8 DEF Over, vars
<1> QED
  BY <1>1, <1>2, <1>3, <1>4, <1>5, <1>6, <1>7, <1>8 DEF Next

(***************************************************************************)
(* Where a PauseGuard and a Signalable may be.                             *)
(***************************************************************************)
LEMMA MainControl ==
  ASSUME IInv, Main
  PROVE  Control'
<1> USE DEF IInv, Control, Go, Only, command, shell, attached, processes, cancel, signal
<1> USE DEF Loops
<1>1. CASE Launch
  BY <1>1 DEF Launch
<1>2. CASE LaunchFails
  BY <1>2 DEF LaunchFails
<1>3. CASE Leave
  BY <1>3 DEF Leave
<1>4. CASE Throw
  BY <1>4 DEF Throw
<1>5. CASE Return
  BY <1>5 DEF Return, NoCommand
<1>6. CASE Pausing
  BY <1>6 DEF Pausing, Reachable, TypeOK
<1>7. CASE Resuming
  BY <1>7 DEF Resuming
<1>8. CASE GuardedBody
  BY <1>8 DEF GuardedBody, Body
<1>9. CASE ResultsBody
  BY <1>9 DEF ResultsBody, Body
<1>10. CASE PlainBody
  BY <1>10 DEF PlainBody, Body
<1>11. CASE ToggleBody
  BY <1>11 DEF ToggleBody, Body
<1>12. CASE QuitBody
  BY <1>12 DEF QuitBody, Body
<1>13. CASE PauseBody
  BY <1>13 DEF PauseBody, Body
<1>14. CASE ResumeBody
  BY <1>14 DEF ResumeBody, Body
<1>15. CASE SignalBody
  BY <1>15 DEF SignalBody, Body
<1>16. CASE AttachBody
  BY <1>16 DEF AttachBody, Body
<1>17. CASE Construct
  BY <1>17 DEF Construct
<1>18. CASE Constructed
  BY <1>18 DEF Constructed
<1>19. CASE Sleep
  BY <1>19 DEF Sleep
<1>20. CASE Destruct
  BY <1>20 DEF Destruct
<1>21. CASE Destructed
  BY <1>21 DEF Destructed
<1> QED
  BY <1>1, <1>2, <1>3, <1>4, <1>5, <1>6, <1>7, <1>8, <1>9, <1>10, <1>11, <1>12, <1>13,
     <1>14, <1>15, <1>16, <1>17, <1>18, <1>19, <1>20, <1>21 DEF Main

LEMMA OtherControl ==
  ASSUME IInv, Next, ~Main
  PROVE  Control'
<1> USE DEF IInv, Control, Go, Only, Still, command, shell, attached, processes, cancel, signal
<1> USE DEF Ended
<1>1. CASE StartCommand
  BY <1>1 DEF StartCommand, FirstLabel
<1>2. CASE EndOfInput
  BY <1>2 DEF EndOfInput
<1>3. ASSUME NEW t \in Threads, Interrupt(t) PROVE Control'
  BY <1>3 DEF Interrupt
<1>4. ASSUME NEW t \in Threads, HandlerLocks(t) PROVE Control'
  BY <1>4 DEF HandlerLocks
<1>5. ASSUME NEW t \in Threads, HandlerSignals(t) PROVE Control'
  BY <1>5 DEF HandlerSignals
<1>6. CASE SecondPasses
  BY <1>6 DEF SecondPasses
<1>7. ASSUME NEW p \in Procs, Dies(p) PROVE Control'
  BY <1>7 DEF Dies
<1>8. CASE Over
  BY <1>8 DEF Over, vars
<1> QED
  BY <1>1, <1>2, <1>3, <1>4, <1>5, <1>6, <1>7, <1>8 DEF Next

(***************************************************************************)
(* The balance of the suspend counts: six actions disturb it.              *)
(***************************************************************************)
LEMMA BalanceKept ==
  ASSUME PausesBalanced, UNCHANGED <<suspend, mine, alive, holding, task>>
  PROVE  PausesBalanced'
BY DEF PausesBalanced

LEMMA StepBalanced ==
  ASSUME IInv, Next
  PROVE  PausesBalanced'
<1> USE DEF IInv, TypeOK, Go, Only, Still, command, attached, processes
<1>1. CASE Pausing
  <2>1. ~holding
    BY <1>1 DEF Pausing, Control
  <2> QED BY <1>1, <2>1 DEF Pausing, PausesBalanced, Reachable
<1>2. CASE Resuming
  <2>1. CASE holding /\ Reachable
    BY <1>2, <2>1 DEF Resuming, PausesBalanced, Reachable
  <2>2. CASE ~holding
    BY <1>2, <2>2 DEF Resuming, PausesBalanced
  <2>3. CASE holding /\ ~Reachable
    <3>1. task \in Procs /\ task # NoTask
      BY <2>3, ShellAssumption DEF Control
    <3>2. ~alive[task]
      BY <2>3, <3>1 DEF Reachable
    <3> QED BY <1>2, <2>3, <3>2 DEF Resuming, PausesBalanced
  <2> QED BY <2>1, <2>2, <2>3
<1>3. CASE PauseBody
  <2>1. ~holding
    BY <1>3 DEF PauseBody, Body, Control
  <2> QED BY <1>3, <2>1 DEF PauseBody, Body, PausesBalanced, Reachable
<1>4. CASE ResumeBody
  <2>1. ~holding
    BY <1>4 DEF ResumeBody, Body, Control
  <2> QED BY <1>4, <2>1 DEF ResumeBody, Body, PausesBalanced, Reachable
<1>5. CASE SignalBody
  BY <1>5 DEF SignalBody, Body, PausesBalanced
<1>6. ASSUME NEW p \in Procs, Dies(p) PROVE PausesBalanced'
  BY <1>6 DEF Dies, PausesBalanced
<1>7. CASE Launch \/ AttachBody
  <2>1. ~holding
    BY <1>7 DEF Launch, AttachBody, Body, Control
  <2>2. holding' = holding /\ UNCHANGED <<alive, suspend, mine>>
    BY <1>7 DEF Launch, AttachBody, Body
  <2> QED BY <2>1, <2>2 DEF PausesBalanced
<1>8. CASE LaunchFails \/ Leave \/ Throw \/ Return
  BY <1>8, BalanceKept DEF LaunchFails, Leave, Throw, Return
<1>9. CASE GuardedBody \/ ResultsBody \/ PlainBody \/ ToggleBody \/ QuitBody
  BY <1>9, BalanceKept DEF GuardedBody, ResultsBody, PlainBody, ToggleBody, QuitBody, Body
<1>10. CASE Construct \/ Constructed \/ Sleep \/ Destruct \/ Destructed
  BY <1>10, BalanceKept DEF Construct, Constructed, Sleep, Destruct, Destructed
<1>11. CASE StartCommand \/ EndOfInput \/ SecondPasses \/ Over
  BY <1>11, BalanceKept DEF StartCommand, EndOfInput, SecondPasses, Over, vars
<1>12. ASSUME NEW t \in Threads, Interrupt(t) \/ HandlerLocks(t) \/ HandlerSignals(t)
       PROVE  PausesBalanced'
  BY <1>12, BalanceKept DEF Interrupt, HandlerLocks, HandlerSignals
<1> QED
  BY <1>1, <1>2, <1>3, <1>4, <1>5, <1>6, <1>7, <1>8, <1>9, <1>10, <1>11, <1>12
  DEF Next, Main

(***************************************************************************)
(* The theorems.                                                           *)
(***************************************************************************)
LEMMA StepIInv == IInv /\ [Next]_vars => IInv'
<1> SUFFICES ASSUME IInv, [Next]_vars PROVE IInv'
  OBVIOUS
<1>1. CASE Next
  <2>1. TypeOK'
    BY <1>1, MainType, OtherType
  <2>2. Control'
    BY <1>1, MainControl, OtherControl
  <2>3. PausesBalanced'
    BY <1>1, StepBalanced
  <2> QED BY <2>1, <2>2, <2>3 DEF IInv
<1>2. CASE UNCHANGED vars
  BY <1>2 DEF IInv, TypeOK, PausesBalanced, Control, vars, command, shell, attached,
     processes, cancel, signal
<1> QED BY <1>1, <1>2

\* Every reachable state satisfies the inductive invariant: the life of a command in
\* execute_command and the commands it runs.
THEOREM Inductive == Spec => []IInv
BY InitIInv, StepIInv, PTL DEF Spec

\* The variables keep their types; in particular no pause is ever undone twice
\* (pause, resume, PauseGuard), and the ^C counter stays within its bound.
THEOREM TypeCorrect == Spec => []TypeOK
<1>1. IInv => TypeOK
  BY DEF IInv
<1> QED BY <1>1, Inductive, PTL

\* However a command ends, a process that lives is suspended as often as the user has
\* asked for, plus once while a PauseGuard is in scope (PauseGuard, command_pause,
\* command_resume, command_attach).
THEOREM PausesStayBalanced == Spec => []PausesBalanced
<1>1. IInv => PausesBalanced
  BY DEF IInv
<1> QED BY <1>1, Inductive, PTL

\* At the prompt watch is off, no PauseGuard is in scope and no Signalable is
\* registered (execute_command, command_watch, command_read, command_results).
THEOREM PromptStaysClean == Spec => []PromptClean
<1>1. IInv => PromptClean
  BY DEF IInv, Control, PromptClean, TypeOK
<1> QED BY <1>1, Inductive, PTL

=============================================================================
