------------------------------ MODULE Analysis ------------------------------
(***************************************************************************)
(* What analyze_runs makes of a selection of runs (analysis/operations.py, *)
(* comparison_view.py, metrics.py): the runs a query applies to, their     *)
(* groups, the quality of a group, and the three comparisons of solvers    *)
(* that are made of groups.                                                *)
(*                                                                         *)
(* A query says by which fields runs are grouped, whether failed and       *)
(* unavailable ones take part, and which values some fields must have.     *)
(* Statistics of times, samples and resources are left out, and so are the *)
(* means: what a mean is taken over is modelled, not its value.            *)
(***************************************************************************)
EXTENDS Pairing

Default == {"problem", "solver"}   \* by which reports group

Everything(group_by) ==
    [group_by |-> group_by, include_failed |-> TRUE, include_unavailable |-> TRUE,
     filters |-> << >>]

Filtered(S, filters) == {run \in S : \A field \in DOMAIN filters : run[field] = filters[field]}

Applicable(S, query) ==
    {run \in Filtered(S, query.filters) :
        /\ run.status = "failed" => query.include_failed
        /\ run.status = "unavailable" => query.include_unavailable}

GroupKey(run, group_by) == [field \in group_by |-> run[field]]

\* Without a field to group by there is one group, also of no runs.
Groups(S, query) ==
    LET applicable == Applicable(S, query)
        keys == IF query.group_by = {} THEN {<< >>}
                ELSE {GroupKey(run, query.group_by) : run \in applicable}
    IN  {[key |-> key,
          runs |-> {run \in applicable : GroupKey(run, query.group_by) = key}] : key \in keys}

-----------------------------------------------------------------------------
(* The quality of a group among the applicable runs. *)

Observed(G) == {run \in G : run.objective # Nothing}

\* Seeded bug: there is only one sense.
Maximize(G) == "maximize"

\* A group of problems of both senses counts as one of maximization.
DominantSense(G) ==
    LET only == Sole({Sense[run.problem] : run \in G})
    IN  IF only # {} THEN CHOOSE sense \in only : TRUE ELSE "maximize"

BestObjective(G) ==
    LET values == {run.objective : run \in Observed(G)}
    IN  IF values = {} THEN Nothing
        ELSE CHOOSE v \in values : \A w \in values :
                IF DominantSense(Observed(G)) = "maximize" THEN v >= w ELSE v <= w

\* The gap in percent is not defined against an optimum of zero.
HasRelativeGap(best, objective) == best # 0 \/ objective = best

\* Seeded bug: a group is compared with the exact runs in it.
QualityWithin(G, applicable) ==
    [best_objective |-> BestObjective(G), rated |-> Rated(G, G), at_optimum |-> AtOptimum(G, G)]

\* The runs the optimum rate is taken over, and those that attain the optimum.
Quality(G, applicable) ==
    [best_objective |-> BestObjective(G),
     rated |-> Rated(G, applicable), at_optimum |-> AtOptimum(G, applicable)]

\* The runs the mean gap is taken over.
GapRuns(G, applicable) ==
    {run \in Rated(G, applicable) :
        HasRelativeGap(Reference(run.problem, applicable), run.objective)}

-----------------------------------------------------------------------------
(* Comparisons.  A group takes part when its key has a problem and a solver; of
   several groups of one solver the last in the text order of their keys stays,
   which is left open here. *)

Compared(groups) == {g \in groups : Default \subseteq DOMAIN g.key}
ProblemsOf(groups) == {g.key.problem : g \in Compared(groups)}
SolversOf(problem, groups) ==
    {g.key.solver : g \in {x \in Compared(groups) : x.key.problem = problem}}
LastGroup(problem, solver, groups) ==
    CHOOSE g \in Compared(groups) : g.key.problem = problem /\ g.key.solver = solver

Row(problem, solvers, groups, applicable) ==
    [problem |-> problem,
     of |-> [solver \in solvers |->
                LET group == LastGroup(problem, solver, groups)
                IN  [objective |-> BestObjective(group.runs), run_ids |-> group.runs,
                     gap_over |-> GapRuns(group.runs, applicable)]]]

\* One row for every problem that has a group of exact runs, whatever came of them;
\* a warning for one that has quantum runs and no exact ones.
ClassicalVsQuantum(groups, applicable) ==
    {Row(p, SolversOf(p, groups), groups, applicable) :
        p \in {x \in ProblemsOf(groups) : "exact" \in SolversOf(x, groups)}}

WithoutBaseline(groups) ==
    {p \in ProblemsOf(groups) : /\ "exact" \notin SolversOf(p, groups)
                                /\ SolversOf(p, groups) \cap Quantum # {}}

QiskitVsCudaq(groups, applicable) ==
    {Row(p, SolversOf(p, groups) \cap Quantum, groups, applicable) :
        p \in {x \in ProblemsOf(groups) : Cardinality(SolversOf(x, groups) \cap Quantum) >= 2}}

GpuVsCpu(groups, applicable) ==
    LET two == {"cudaq-cpu", "cudaq-gpu"}
    IN  {Row(p, two, groups, applicable) :
            p \in {x \in ProblemsOf(groups) : two \subseteq SolversOf(x, groups)}}

-----------------------------------------------------------------------------
(* The comparison page: the runs of one problem of the selection, together and by
   configuration.  Seeds and candidates do not tell configurations apart. *)

Configuration(run) ==
    [solver |-> run.solver, controls |-> run.controls, execution |-> run.execution]

Summary(G, S) ==
    [valid |-> Observed(G), excluded |-> G \ Observed(G),
     reference_comparable |-> Rated(G, S), optimum_achieved |-> AtOptimum(G, S)]

Buckets(problem, S) ==
    {{run \in Of(problem, S) : Configuration(run) = c} :
        c \in {Configuration(run) : run \in Of(problem, S)}}
=============================================================================
