------------------------------ MODULE Campaign ------------------------------
(***************************************************************************)
(* Campaigns from their definition to their recorded runs                  *)
(* (campaigns/model.py, runner.py, and benchmark,                 *)
(* _matched_repeat_configs and reproduce of experiments/runner.py): the    *)
(* matrix of sizes, seeds, solvers and repeats, the settings each attempt  *)
(* gets, and the records that the analysis of Pairing later selects from.  *)
(*                                                                         *)
(* How a run is saved, compared with a stored optimum and filed is the     *)
(* subject of RunHistory and WebTasks; here an attempt is one step.        *)
(***************************************************************************)
EXTENDS Pairing, Sequences

CONSTANTS
    Processes,       \* the campaigns that are run
    Definitions,     \* process -> the definitions it may have
    Supports,        \* solver -> the families it supports
    Generated,       \* family, size and seed -> problem
    Objectives,      \* problem -> the objectives of its feasible solutions
    Controls,        \* complete valid settings of a quantum solver
    Resolved,        \* what a definition may say of them -> the same with the
                     \* defaults filled in, Unusable when refused
    Unusable,
    Fits,            \* the supplied candidate vectors and the controls they fit
    Circumstances,   \* definition -> where it is run: what is installed (quantum
                     \* solvers and "numpy") and the older records
    MaxRuns,         \* run limit without the override
    MaxSelection,    \* how many runs an analysis reads at most
    MaxReproductions  \* definition -> how often runs are reproduced beside it

VARIABLES definition, installed,   \* chosen once
          pc,          \* submitted, problems, benchmark or how the campaign ended
          at,          \* position in the list of problems
          remaining,   \* attempts of the current benchmark still to make
          summary,     \* status_summary
          saved        \* the recorded runs

vars == <<definition, installed, pc, at, remaining, summary, saved>>

SolverNames == {"exact", "heuristic"} \cup Quantum
Statuses == {"success", "failed", "unavailable", "skipped"}

-----------------------------------------------------------------------------
(* The definition. *)

Unrepeated(s) == s # <<>> /\ \A i, j \in DOMAIN s : s[i] = s[j] => i = j

\* What __post_init__ demands.
Valid(d) ==
    /\ d.sizes \in Seq(Nat \ {0}) /\ Unrepeated(d.sizes)
    /\ d.seeds \in Seq(Nat) /\ Unrepeated(d.seeds)
    /\ d.solvers \in Seq(SolverNames) /\ Unrepeated(d.solvers)
    /\ d.repeats \in Nat \ {0}

ProblemCount(d) == Len(d.sizes) * Len(d.seeds)
Requested(d) == ProblemCount(d) * Len(d.solvers) * d.repeats

\* The k-th problem: sizes in the outer loop, problem seeds in the inner one.
ProblemAt(d, k) ==
    Generated[d.family, d.sizes[((k - 1) \div Len(d.seeds)) + 1],
                        d.seeds[((k - 1) % Len(d.seeds)) + 1]]

Runnable(d) == {i \in DOMAIN d.solvers : d.family \in Supports[d.solvers[i]]}

-----------------------------------------------------------------------------
(* The settings of an attempt. *)

Seed(d, solver) == IF d.seed[solver] # Nothing THEN d.seed[solver] ELSE d.base

\* The quantum solvers of a benchmark in the order of the definition.
Matched(d) == {i \in Runnable(d) : d.solvers[i] \in Quantum}
Lead(d) == d.solvers[CHOOSE i \in Matched(d) : \A j \in Matched(d) : i <= j]
IsMatched(d, solver) == solver \in Quantum /\ Cardinality(Matched(d)) >= 2

\* Seeded bug: seeds are not compared.
ContradictoryButSeeds(d) ==
    /\ Cardinality(Matched(d)) >= 2
    /\ \/ Resolved[d.given[Lead(d)]] = Unusable
       \/ \E i \in Matched(d) :
             \/ Resolved[d.given[d.solvers[i]]] # Resolved[d.given[Lead(d)]]
             \/ d.supplied[d.solvers[i]] # d.supplied[Lead(d)]
       \/ /\ d.supplied[Lead(d)] # << >>
          /\ <<d.supplied[Lead(d)], Resolved[d.given[Lead(d)]]>> \notin Fits

\* Two or more quantum solvers must be given the same settings.
Contradictory(d) ==
    /\ Cardinality(Matched(d)) >= 2
    /\ \/ Resolved[d.given[Lead(d)]] = Unusable
       \/ \E i \in Matched(d) :
             \/ Resolved[d.given[d.solvers[i]]] # Resolved[d.given[Lead(d)]]
             \/ Seed(d, d.solvers[i]) # Seed(d, Lead(d))
             \/ d.supplied[d.solvers[i]] # d.supplied[Lead(d)]
       \/ /\ d.supplied[Lead(d)] # << >>
          /\ <<d.supplied[Lead(d)], Resolved[d.given[Lead(d)]]>> \notin Fits

\* Without vectors in the definition they are generated, which needs NumPy.
Candidates(d, repeat) ==
    IF d.supplied[Lead(d)] # << >> THEN d.supplied[Lead(d)]
    ELSE <<Resolved[d.given[Lead(d)]], Seed(d, Lead(d)) + repeat>>

CanMatch(d) == d.supplied[Lead(d)] # << >> \/ "numpy" \in installed

\* A solver's own settings, recorded as the definition has them; it will find
\* out itself when they are not usable.
OwnControls(d, solver) ==
    LET resolved == Resolved[d.given[solver]]
        fits == d.supplied[solver] = << >> \/ <<d.supplied[solver], resolved>> \in Fits
    IN  CASE resolved = Unusable \/ ~ fits -> Unusable
          [] d.given[solver] = resolved -> resolved
          [] OTHER -> Nothing

OwnSetting(d, solver, repeat) ==
    [seed |-> Seed(d, solver) + repeat,
     controls |-> OwnControls(d, solver),
     candidates |-> d.supplied[solver]]

\* Seeded bug: every solver keeps its own settings.
SettingUnmatched(d, solver, repeat) == OwnSetting(d, solver, repeat)

Setting(d, solver, repeat) ==
    IF IsMatched(d, solver) /\ CanMatch(d)
    THEN [seed |-> Seed(d, Lead(d)) + repeat,
          controls |-> Resolved[d.given[Lead(d)]],
          candidates |-> Candidates(d, repeat)]
    ELSE OwnSetting(d, solver, repeat)

-----------------------------------------------------------------------------
(* Results of a solver and records of runs. *)

Best(problem) ==
    {v \in Objectives[problem] : \A w \in Objectives[problem] :
        IF Sense[problem] = "maximize" THEN v >= w ELSE v <= w}
Optimum(problem) == CHOOSE v \in Best(problem) : TRUE

Success(values) == {[status |-> "success", objective |-> v] : v \in values}
Without(status) == [status |-> status, objective |-> Nothing]

\* A quantum solver needs its library, and NumPy to generate candidates; Qiskit's
\* circuits need NumPy in any case.
Able(solver, setting) ==
    /\ solver \in installed
    /\ "numpy" \in installed \/ (solver # "qaoa" /\ setting.candidates # << >>)

\* What a call may report; it may fail in any case.
Results(solver, problem, setting) ==
    {Without("failed")} \cup
    CASE solver = "exact" -> Success(Best(problem))
      [] solver = "heuristic" -> Success(Objectives[problem])
      [] solver \in Quantum /\ setting.controls # Unusable ->
            {Without("unavailable")} \cup
            (IF Able(solver, setting) THEN Success(Objectives[problem]) ELSE {})
      [] OTHER -> {}

NewId(by) == [by |-> by, number |-> Cardinality({run \in saved : run.id.by = by})]

Record(id, problem, solver, execution, repeat, setting, result) ==
    [id |-> id, problem |-> problem, solver |-> solver,
     execution |-> execution, repeat |-> repeat,
     seed |-> setting.seed, controls |-> setting.controls,
     candidates |-> setting.candidates,
     status |-> result.status, objective |-> result.objective]

-----------------------------------------------------------------------------
Init ==
    /\ definition \in [Processes -> UNION {Definitions[c] : c \in Processes}]
    /\ \A c \in Processes : definition[c] \in Definitions[c]
    /\ \E where \in UNION {Circumstances[definition[c]] : c \in Processes} :
          /\ \A c \in Processes : where \in Circumstances[definition[c]]
          /\ installed = where.installed /\ saved = where.saved
    /\ pc = [c \in Processes |-> "submitted"]
    /\ at = [c \in Processes |-> 1]
    /\ remaining = [c \in Processes |-> {}]
    /\ summary = [c \in Processes |-> [s \in Statuses |-> 0]]

chosen == <<definition, installed>>

ExceedsLimit(c) == Requested(definition[c]) > MaxRuns

\* More runs than the limit and no --override-max-runs: nothing is executed.
Refuse(c) ==
    /\ pc[c] = "submitted" /\ ExceedsLimit(c)
    /\ pc' = [pc EXCEPT ![c] = "refused"]
    /\ UNCHANGED <<chosen, at, remaining, summary, saved>>

Begin(c) ==
    /\ pc[c] = "submitted"
    /\ \E override_max_runs \in BOOLEAN : override_max_runs \/ ~ ExceedsLimit(c)
    /\ pc' = [pc EXCEPT ![c] = "problems"]
    /\ UNCHANGED <<chosen, at, remaining, summary, saved>>

\* Seeded bug: a skipped solver is counted once, not once per repeat.
SkippedOnce(d) == Cardinality((DOMAIN d.solvers) \ Runnable(d))

\* The next problem; solvers that do not support the family are skipped, and
\* a problem that none supports is passed over.
SkippedRuns(d) == Cardinality((DOMAIN d.solvers) \ Runnable(d)) * d.repeats

AtProblem(c) == pc[c] = "problems" /\ at[c] <= ProblemCount(definition[c])

CountSkipped(c) ==
    summary' = [summary EXCEPT ![c]["skipped"] = @ + SkippedRuns(definition[c])]

PassOver(c) ==
    /\ AtProblem(c)
    /\ Runnable(definition[c]) = {}
    /\ CountSkipped(c)
    /\ at' = [at EXCEPT ![c] = @ + 1]
    /\ UNCHANGED <<chosen, pc, remaining, saved>>

\* benchmark prepares the settings of all repeats before the first attempt.
Attempts(d) == Runnable(d) \X (0 .. d.repeats - 1)

Contradict(c) ==
    /\ AtProblem(c)
    /\ Runnable(definition[c]) # {}
    /\ Contradictory(definition[c])
    /\ CountSkipped(c)
    /\ pc' = [pc EXCEPT ![c] = "failed"]
    /\ UNCHANGED <<chosen, at, remaining, saved>>

Benchmark(c) ==
    /\ AtProblem(c)
    /\ Runnable(definition[c]) # {}
    /\ ~ Contradictory(definition[c])
    /\ CountSkipped(c)
    /\ pc' = [pc EXCEPT ![c] = "benchmark"]
    /\ remaining' = [remaining EXCEPT ![c] = Attempts(definition[c])]
    /\ UNCHANGED <<chosen, at, saved>>

\* Solvers in the outer loop, repeats in the inner one.
IsFirst(a, attempts) ==
    \A b \in attempts : a[1] < b[1] \/ (a[1] = b[1] /\ a[2] <= b[2])

Attempt(c) ==
    /\ pc[c] = "benchmark"
    /\ \E next \in remaining[c] :
          LET d == definition[c]
              solver == d.solvers[next[1]]
              problem == ProblemAt(d, at[c])
              setting == Setting(d, solver, next[2])
          IN  /\ IsFirst(next, remaining[c])
              /\ \E result \in Results(solver, problem, setting) :
                    /\ saved' = saved \cup
                          {Record(NewId(c), problem, solver, <<c, at[c]>>, next[2],
                                  setting, result)}
                    /\ summary' = [summary EXCEPT ![c][result.status] = @ + 1]
                    /\ remaining' = [remaining EXCEPT ![c] = @ \ {next}]
    /\ UNCHANGED <<chosen, pc, at>>

\* Seeded bug: the position is not moved, and the problem is run again.
NextProblemAgain(c) ==
    /\ pc[c] = "benchmark" /\ remaining[c] = {}
    /\ pc' = [pc EXCEPT ![c] = "problems"]
    /\ UNCHANGED <<chosen, at, remaining, summary, saved>>

NextProblem(c) ==
    /\ pc[c] = "benchmark" /\ remaining[c] = {}
    /\ pc' = [pc EXCEPT ![c] = "problems"]
    /\ at' = [at EXCEPT ![c] = @ + 1]
    /\ UNCHANGED <<chosen, remaining, summary, saved>>

Finish(c) ==
    /\ pc[c] = "problems" /\ ~ AtProblem(c)
    /\ pc' = [pc EXCEPT ![c] = "done"]
    /\ UNCHANGED <<chosen, at, remaining, summary, saved>>

\* should_abort answers yes, between two attempts or two problems.
Abort(c) ==
    /\ pc[c] = "benchmark" \/ AtProblem(c)
    /\ pc' = [pc EXCEPT ![c] = "aborted"]
    /\ UNCHANGED <<chosen, at, remaining, summary, saved>>

\* Any recorded run is solved again, with its own settings, outside any benchmark.
Reproduce(run) ==
    /\ \A c \in Processes : NewId("rerun").number < MaxReproductions[definition[c]]
    /\ \E result \in Results(run.solver, run.problem, run) :
          saved' = saved \cup {Record(NewId("rerun"), run.problem, run.solver,
                                      << >>, Nothing, run, result)}
    /\ UNCHANGED <<chosen, pc, at, remaining, summary>>

Next ==
    \/ \E c \in Processes :
          \/ Refuse(c) \/ Begin(c) \/ PassOver(c) \/ Contradict(c) \/ Benchmark(c)
          \/ Attempt(c) \/ NextProblem(c) \/ Finish(c) \/ Abort(c)
    \/ \E run \in saved : Reproduce(run)

Spec == Init /\ [][Next]_vars

-----------------------------------------------------------------------------
(* What is assumed of the constants. *)

\* A record older than the campaigns: no repeat index, another benchmark.
OldRun(run) ==
    /\ run.repeat = Nothing /\ run.id.by \notin Processes
    /\ run.execution = << >> \/ run.execution \notin Processes \X Nat
    /\ run.problem \in DOMAIN Objectives /\ run.solver \in SolverNames
    /\ run.status \in Statuses \ {"skipped"}
    /\ run.objective # Nothing =>
          /\ run.status = "success"
          /\ run.objective \in IF run.solver = "exact" THEN Best(run.problem)
                                                       ELSE Objectives[run.problem]

\* Definitions are valid and their problems known; older records are finitely many;
\* objectives are maximized or minimized, numbers, and if there are any one is
\* best; None is no value.
ASSUME CampaignAssumption ==
    /\ \A c \in Processes : \A d \in Definitions[c] :
          /\ Valid(d)
          /\ \A k \in 1 .. ProblemCount(d) : ProblemAt(d, k) \in DOMAIN Objectives
          /\ \A s \in SolverNames : d.given[s] \in DOMAIN Resolved
    /\ Resolved \in [DOMAIN Resolved -> Controls \cup {Unusable}]
    /\ \A p \in DOMAIN Objectives :
          /\ Sense[p] \in {"maximize", "minimize"}
          /\ \A v \in Objectives[p] : v \in Int
          /\ Objectives[p] # {} => Best(p) # {}
          /\ Nothing \notin Objectives[p]
    /\ \A c \in Processes : \A d \in Definitions[c] :
          \A where \in Circumstances[d] :
             IsFiniteSet(where.saved) /\ \A run \in where.saved : OldRun(run)
    /\ "rerun" \notin Processes
    /\ Nothing \notin Nat /\ Nothing \notin Controls /\ Unusable \notin Controls

-----------------------------------------------------------------------------
(* Properties. *)

\* Every variable keeps its type; positions and attempts stay in the matrix.
TypeOK ==
    /\ at \in [Processes -> Nat]
    /\ remaining \in [Processes -> SUBSET (Nat \X Nat)]
    /\ summary \in [Processes -> [Statuses -> Nat]]
    /\ pc \in [Processes -> {"submitted", "problems", "benchmark",
                             "refused", "failed", "aborted", "done"}]
    /\ \A c \in Processes :
          /\ at[c] \in 1 .. ProblemCount(definition[c]) + 1
          /\ remaining[c] \subseteq
                (DOMAIN definition[c].solvers) \X (0 .. definition[c].repeats - 1)
    /\ IsFiniteSet(saved)
    /\ \A run \in saved :
          /\ run.status \in Statuses \ {"skipped"}
          /\ run.objective # Nothing => run.status = "success"

\* The windows an analysis may be made of (the limit of query_runs).
Selections == {S \in SUBSET saved : Cardinality(S) <= MaxSelection}

\* Whatever runs are selected, two of them are a pair exactly when they are runs
\* of two solvers on one problem in one execution and one repeat; without a
\* repeat index the seed decides, if it is not ambiguous (paired.py, documented
\* in docs/scientific-benchmarks.md).
Alone(run, S) ==
    \A other \in S : /\ other.problem = run.problem /\ other.execution = run.execution
                     /\ other.repeat = Nothing
                     /\ other.solver = run.solver /\ other.seed = run.seed
                     => other = run

BelongTogether(l, r, S) ==
    /\ l.problem = r.problem /\ l.execution = r.execution /\ l.execution # << >>
    /\ \/ l.repeat # Nothing /\ l.repeat = r.repeat
       \/ /\ l.repeat = Nothing /\ r.repeat = Nothing /\ l.seed = r.seed
          /\ Alone(l, S) /\ Alone(r, S)

PairsAreTheSlots ==
    \A S \in Selections :
        LET sides == {<<pair.left, pair.right>> : pair \in Complete(S)}
        IN  \A l, r \in S : <<{l}, {r}>> \in sides
            <=> (<<l.solver, r.solver>> \in SolverPairs /\ BelongTogether(l, r, S))

\* Two successful quantum runs of one repeat of a benchmark were made with the
\* same candidates, seed and controls, all of them recorded, so that their
\* expectations are compared (_matched_repeat_configs, _numerical_comparison).
ControlsMatch ==
    \A l, r \in saved :
        (/\ l.repeat # Nothing /\ l.repeat = r.repeat /\ l.execution = r.execution
         /\ {l.solver, r.solver} \subseteq Quantum
         /\ l.solver # r.solver /\ l.status = "success" /\ r.status = "success")
        => Numerical(l, r) = "matched"

\* No attempt is made with other settings than the definition gives its solver:
\* matching fills in what was left open, and replaces nothing.
SettingsAreKept ==
    \A run \in saved : run.repeat # Nothing =>
        LET d == definition[run.execution[1]]
            given == Resolved[d.given[run.solver]]
        IN  /\ run.seed = Seed(d, run.solver) + run.repeat
            /\ run.controls \in Controls => run.controls = given
            /\ d.supplied[run.solver] # << >> =>
                  run.candidates = d.supplied[run.solver]

\* Whatever runs are selected, a gap is the true distance to the optimum, the
\* improvement of a pair is the difference of the two distances, and a run is
\* rated optimal only when it is (paired.py, operations.py).
Distance(run) ==
    IF Sense[run.problem] = "maximize" THEN Optimum(run.problem) - run.objective
                                       ELSE run.objective - Optimum(run.problem)

QualityIsTrue ==
    \A S \in Selections :
        /\ \A run \in S : Gap(run, S) # Nothing => Gap(run, S) = Distance(run)
        /\ \A pair \in Complete(S) : \A l \in pair.left, r \in pair.right :
              Improvement(l, r) # Nothing => Improvement(l, r) = Distance(r) - Distance(l)
        /\ AtOptimum(S, S) = {run \in Rated(S, S) : Distance(run) = 0}

RunsOf(c) == {run \in saved : run.id.by = c}

\* A campaign that is done has run or skipped every element of its matrix once
\* and counted it; one that is refused or contradicts itself has run nothing.  At
\* any time the status summary of an execution is that of the runs it has made
\* (campaigns/runner.py:104-110, 152-156, 188-198).
Counted(c) == summary[c]["success"] + summary[c]["failed"]
              + summary[c]["unavailable"] + summary[c]["skipped"]

CampaignIsComplete ==
    \A c \in Processes :
        LET d == definition[c]
        IN  /\ pc[c] = "done" =>
                 /\ Counted(c) = Requested(d)
                 /\ Cardinality(RunsOf(c)) + summary[c]["skipped"] = Requested(d)
                 /\ \A k \in 1 .. ProblemCount(d), i \in Runnable(d), r \in 0 .. d.repeats - 1 :
                       \E run \in RunsOf(c) :
                          /\ run.execution = <<c, k>> /\ run.problem = ProblemAt(d, k)
                          /\ run.solver = d.solvers[i] /\ run.repeat = r
            /\ pc[c] \in {"refused", "failed"} => RunsOf(c) = {}
            /\ \A s \in Statuses \ {"skipped"} :
                  Cardinality({run \in RunsOf(c) : run.status = s}) = summary[c][s]

\* The inductive invariant behind the properties.  A run with a repeat index lies
\* in the matrix of a campaign that does not contradict itself, has the settings
\* of its place, and its place is not among those still to be run; no two runs
\* have one place; a result is honest about its problem and backend.
Filed(run) ==
    LET c == run.execution[1]
        d == definition[c]
        setting == Setting(d, run.solver, run.repeat)
    IN  /\ run.execution \in Processes \X Nat
        /\ run.repeat \in 0 .. d.repeats - 1
        /\ ~ Contradictory(d)
        /\ run.seed = setting.seed /\ run.controls = setting.controls
        /\ run.candidates = setting.candidates
        /\ run.execution[2] <= at[c]
        /\ run.execution[2] = at[c] => pc[c] \notin {"submitted", "problems"}
        /\ \E i \in Runnable(d) :
              /\ run.solver = d.solvers[i]
              /\ run.execution[2] = at[c] /\ pc[c] = "benchmark" =>
                    <<i, run.repeat>> \notin remaining[c]

Honest(run) ==
    /\ run.problem \in DOMAIN Objectives /\ run.solver \in SolverNames
    /\ run.objective # Nothing =>
          run.objective \in IF run.solver = "exact" THEN Best(run.problem)
                                                    ELSE Objectives[run.problem]
    /\ run.repeat # Nothing /\ run.solver \in Quantum /\ run.status = "success" =>
          run.controls # Unusable /\ Able(run.solver, run)

SamePlace(l, r) == l.execution = r.execution /\ l.repeat = r.repeat /\ l.solver = r.solver

Underway(c) ==
    /\ definition[c] \in Definitions[c]
    /\ pc[c] = "benchmark" =>
          /\ at[c] <= ProblemCount(definition[c])
          /\ ~ Contradictory(definition[c])
          /\ remaining[c] \subseteq Attempts(definition[c])

CampaignCore ==
    /\ TypeOK
    /\ \A c \in Processes : Underway(c)
    /\ \A run \in saved : Honest(run) /\ (run.repeat # Nothing => Filed(run))
    /\ \A l, r \in saved : l.repeat # Nothing /\ SamePlace(l, r) => l = r

\* The runs of a campaign are those of its matrix, counted by their status.
Accounted(c) ==
    LET d == definition[c]
        runs == RunsOf(c)
    IN  /\ IsFiniteSet(runs)
        /\ \A run \in runs :
              /\ run.repeat # Nothing /\ run.execution[1] = c
              /\ run.execution[2] \in 1 .. ProblemCount(d)
              /\ run.problem = ProblemAt(d, run.execution[2])
        /\ \A s \in Statuses \ {"skipped"} :
              Cardinality({run \in runs : run.status = s}) = summary[c][s]
        /\ Cardinality(runs) = summary[c]["success"] + summary[c]["failed"]
                               + summary[c]["unavailable"]

\* What n problems come to: the runs that are recorded or left to make, and those
\* that are skipped.
RunnableRuns(d) == Cardinality(Runnable(d)) * d.repeats

ComesTo(c, n) ==
    /\ Cardinality(RunsOf(c)) + Cardinality(remaining[c]) = n * RunnableRuns(definition[c])
    /\ summary[c]["skipped"] = n * SkippedRuns(definition[c])

\* Where a campaign is tells how many runs it has.
Progress(c) ==
    LET d == definition[c]
        count == ProblemCount(d)
    IN  /\ pc[c] # "benchmark" /\ pc[c] # "aborted" => remaining[c] = {}
        /\ pc[c] = "submitted" => at[c] = 1 /\ ComesTo(c, 0)
        /\ pc[c] = "refused" => at[c] = 1 /\ ComesTo(c, 0) /\ ExceedsLimit(c)
        /\ pc[c] = "problems" => ComesTo(c, at[c] - 1)
        /\ pc[c] = "benchmark" => ComesTo(c, at[c])
        /\ pc[c] = "done" => at[c] = count + 1 /\ ComesTo(c, count)
        /\ pc[c] = "failed" => Contradictory(d) /\ summary[c]["skipped"] = at[c] * SkippedRuns(d)
        /\ pc[c] = "aborted" =>
              /\ at[c] <= count
              /\ ComesTo(c, at[c]) \/ (ComesTo(c, at[c] - 1) /\ remaining[c] = {})

\* Every place that a campaign has passed has its run.
HasRun(c, k, i, r) ==
    \E run \in RunsOf(c) :
        /\ run.execution = <<c, k>> /\ run.problem = ProblemAt(definition[c], k)
        /\ run.solver = definition[c].solvers[i] /\ run.repeat = r

Covered(c) ==
    pc[c] \in {"problems", "benchmark", "done"} =>
        \A k \in 1 .. at[c], i \in Runnable(definition[c]), r \in 0 .. definition[c].repeats - 1 :
            k < at[c] \/ (pc[c] = "benchmark" /\ <<i, r>> \notin remaining[c])
            => HasRun(c, k, i, r)

CampaignInv ==
    /\ CampaignCore
    /\ \A c \in Processes : Accounted(c) /\ Progress(c) /\ Covered(c)
=============================================================================
