------------------------------- MODULE Pairing -------------------------------
(***************************************************************************)
(* What the analysis makes of a selection of recorded runs                 *)
(* (analysis/paired.py, the qualities of analysis/operations.py): the      *)
(* reference optimum of a problem, the gap of a run against it, the pairs  *)
(* of runs of one benchmark execution and repeat, and the conditions under *)
(* which the expectations of two quantum runs are compared.                *)
(*                                                                         *)
(* A run is a record of                                                    *)
(*   id, problem, solver   as stored,                                      *)
(*   execution   the benchmark it belongs to (benchmark_id): a campaign    *)
(*               and a position in it; << >> for a single run,             *)
(*   repeat      its index in the benchmark, Nothing for a single run and  *)
(*               for records older than the index,                         *)
(*   seed, controls, candidates   the configuration; controls stands for   *)
(*               p, optimizer_trials, shots and warmup, Nothing when the   *)
(*               record lacks one of them; candidates is the sequence of   *)
(*               vectors, << >> when there is none,                        *)
(*   status      "success", "failed" or "unavailable",                     *)
(*   objective   what the problem makes of the solution, Nothing without   *)
(*               a feasible one.                                           *)
(* Durations, precision and the tables are left out.                       *)
(***************************************************************************)
EXTENDS Integers, FiniteSets

CONSTANTS Nothing,  \* Python's None
          Sense     \* problem -> "maximize" or "minimize"

Quantum == {"qaoa", "cudaq-cpu", "cudaq-gpu"}

\* The members of a set that has only one.
Sole(S) == {x \in S : S = {x}}

Of(problem, S) == {run \in S : run.problem = problem}

-----------------------------------------------------------------------------
(* References and gaps. *)

\* Seeded bug: whatever was observed counts as an optimum.
ReferencesObserved(problem, S) ==
    {run.objective : run \in {x \in Of(problem, S) : x.objective # Nothing}}

\* The objectives of the feasible exact runs of a problem in the selection.
References(problem, S) ==
    {run.objective : run \in {x \in Of(problem, S) :
                                 x.solver = "exact" /\ x.objective # Nothing}}

\* The optimum; Nothing when there is no exact run, or two disagree.
Reference(problem, S) ==
    LET optimum == Sole(References(problem, S))
    IN  IF optimum # {} THEN CHOOSE v \in optimum : TRUE ELSE Nothing

AbsoluteGap(best, objective, sense) ==
    LET gap == IF sense = "maximize" THEN best - objective ELSE objective - best
    IN  IF gap > 0 THEN gap ELSE 0

\* The gap of a run against the reference of the selection, or Nothing.
Gap(run, S) ==
    IF run.objective # Nothing /\ Reference(run.problem, S) # Nothing
    THEN AbsoluteGap(Reference(run.problem, S), run.objective, Sense[run.problem])
    ELSE Nothing

\* The runs of a group of S that are rated, and those rated as optimal.
Rated(G, S) ==
    {run \in G : run.objective # Nothing /\ Reference(run.problem, S) # Nothing}
AtOptimum(G, S) ==
    {run \in Rated(G, S) : run.objective = Reference(run.problem, S)}

-----------------------------------------------------------------------------
(* Pairs. *)

\* Seeded bug: the seed decides also where the repeat is recorded.
LabelBySeed(run) == <<"seed", run.seed>>

\* The repeat a run belongs to within its execution.
Label(run) ==
    IF run.repeat # Nothing THEN <<"repeat", run.repeat>> ELSE <<"seed", run.seed>>

\* Where a run of an execution is filed; a single run is filed nowhere.
Key(run) == [problem |-> run.problem, execution |-> run.execution, label |-> Label(run)]

Paired(S) == {run \in S : run.execution # << >>}

Keys(S) == {Key(run) : run \in Paired(S)}

Slot(key, solver, S) == {run \in Paired(S) : Key(run) = key /\ run.solver = solver}

\* The solvers an execution ran on a problem, as far as the selection shows.
Expected(key, S) ==
    {run.solver : run \in {x \in Paired(S) : x.problem = key.problem
                                              /\ x.execution = key.execution}}

\* Two solvers of an execution, in alphabetical order.
SolverOrder == <<"cudaq-cpu", "cudaq-gpu", "exact", "heuristic", "qaoa">>
SolverPairs ==
    {<<SolverOrder[x[1]], SolverOrder[x[2]]>> :
        x \in {y \in (1 .. 5) \X (1 .. 5) : y[1] < y[2]}}

\* One entry for every slot and every two solvers of its execution; a side has
\* no run when the slot is empty or ambiguous.
PairsOf(key, S) ==
    {[key |-> key, solvers |-> two,
      left |-> Sole(Slot(key, two[1], S)), right |-> Sole(Slot(key, two[2], S))] :
        two \in SolverPairs \cap (Expected(key, S) \X Expected(key, S))}

Pairs(S) == UNION {PairsOf(key, S) : key \in Keys(S)}

Complete(S) == {pair \in Pairs(S) : pair.left # {} /\ pair.right # {}}

\* By how much the left run of a pair is better, or Nothing.
Improvement(left, right) ==
    IF left.objective # Nothing /\ right.objective # Nothing
    THEN IF Sense[left.problem] = "minimize"
         THEN right.objective - left.objective
         ELSE left.objective - right.objective
    ELSE Nothing

-----------------------------------------------------------------------------
(* When the candidate expectations of a pair are compared. *)

Recorded(run) == run.candidates # << >> /\ run.controls # Nothing

SameControls(left, right) ==
    /\ left.candidates = right.candidates
    /\ left.seed = right.seed
    /\ left.controls = right.controls

Numerical(left, right) ==
    CASE ~ (left.status = "success" /\ right.status = "success") -> "unsuccessful"
      [] ~ (left.solver \in Quantum /\ right.solver \in Quantum) -> "classical"
      [] ~ (Recorded(left) /\ Recorded(right)) -> "incomplete"
      [] SameControls(left, right) -> "matched"
      [] OTHER -> "unmatched"
=============================================================================
