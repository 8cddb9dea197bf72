------------------------------- MODULE MCTasks -------------------------------
(***************************************************************************)
(* Safety and liveness are checked together: a behaviour chooses at its    *)
(* start whether its writes may fail.  Without faults every task makes one *)
(* attempt and two processes may stop, so that a stop may hit the recovery *)
(* from another; with faults a task makes two attempts and one may stop.   *)
(***************************************************************************)
EXTENDS MCWebTasks

VARIABLE sound   \* no write of this behaviour fails

MCOneAttempt == [c \in Campaigns |-> 1]

Sound == INSTANCE WebTasks WITH Faults <- FALSE, Attempts <- MCOneAttempt
Faulty == INSTANCE WebTasks WITH MaxStops <- 1

EitherInit == Init /\ sound \in BOOLEAN

EitherNext ==
    /\ IF sound THEN Sound!Next ELSE Faulty!Next
    /\ UNCHANGED sound

EitherSpec ==
    /\ EitherInit
    /\ [][EitherNext]_<<vars, sound>>
    /\ Sound!Fairness

-----------------------------------------------------------------------------
(* Liveness is promised only where no write of the journal fails.            *)

\* Every task that is accepted ends in the journal: by its thread, or by the
\* recovery of a later process (TasksEnd).
EveryTaskEnds == sound => Sound!TasksEnd

\* Every run a web campaign saves is listed under its campaign in the end
\* (RunsAreFiled).
EveryRunFiled == sound => Sound!RunsAreFiled

\* The execution slot of a process is not held for ever (SlotsAreFreed).
SlotIsFreed == sound => Sound!SlotsAreFreed
=============================================================================
