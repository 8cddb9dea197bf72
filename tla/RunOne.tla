------------------------------- MODULE RunOne -------------------------------
(***************************************************************************)
(* ExperimentRunner.run_one with a classical solver: a problem object is   *)
(* solved, and the run is saved with a snapshot of the problem, which the  *)
(* store loads before it accepts the run.  The problem comes from a        *)
(* generator, from explicit data or from a document.                       *)
(*                                                                         *)
(* The call of the solver is ClassicalSearch; the comparison with a stored *)
(* optimum and the tables of the store are in RunHistory.                  *)
(***************************************************************************)
EXTENDS ClassicalSearch, Documents

CONSTANT Sources   \* the problem objects a run may be started with

VARIABLES
    instance,   \* the problem object
    record      \* the saved run, Refused when the store does not take it

runVars == <<vars, instance, record>>

\* What the store may hold about a run of the problem object i.
Records(i) ==
    [snapshot : {ToDocument(i)},
     outcome : {Failure} \cup [status : {"success"}, solution : Solutions(i.data), objective : Int]]

ASSUME RunAssumption ==
    /\ Nothing # Refused
    /\ \A i \in Sources :
          /\ i.data \in Problems
          /\ IsInstance(i)
          /\ i # Refused
          /\ Nothing \notin Records(i) /\ Refused \notin Records(i)

RunInit ==
    /\ instance \in Sources
    /\ problem = instance.data
    /\ Init
    /\ record = Nothing

Step == Next /\ UNCHANGED <<instance, record>>

\* A call that raised is recorded as a failure.
Outcome == IF phase = "returned" THEN result ELSE Failure

Save ==
    /\ phase \in {"returned", "raised"} /\ record = Nothing
    /\ record' = IF Loaded(ToDocument(instance)) = Refused THEN Refused
                 ELSE [snapshot |-> ToDocument(instance), outcome |-> Outcome]
    /\ UNCHANGED <<vars, instance>>

RunNext == Step \/ Save

RunSpec == RunInit /\ [][RunNext]_runVars

-----------------------------------------------------------------------------
\* An id names one problem, whoever wrote it: two problems with the same id are
\* solved alike, also when one was loaded from a document that was changed by hand
\* (identity_payload, from_dict).  A run of a problem that came from a document is
\* saved, and every saved run holds: its snapshot loads as the problem that was
\* solved, and its solution has the objective that is recorded
\* (experiments/storage.py:106, 337-345).
RecordHolds ==
    /\ phase = "called" =>
          \A other \in Sources : other.problem_id = instance.problem_id => other.data = problem
    /\ record = Refused => \A d \in {ToDocument(i) : i \in Sources} : Loaded(d) # instance
    /\ record \notin {Nothing, Refused} =>
          LET again == Loaded(record.snapshot)
          IN  /\ again # Refused
              /\ again.problem_id = instance.problem_id
              /\ record.outcome.status = "success" =>
                    /\ Feasible(again.data, record.outcome.solution)
                    /\ Value(again.data, record.outcome.solution) = record.outcome.objective

\* The comment in run_one (experiments/runner.py:85): "Every solver failure must become
\* a durable record."  Whatever problem object is solved, the store takes its run.
EveryRunIsRecorded == record # Refused
=============================================================================
