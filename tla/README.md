# A verification project for VariaQ

VariaQ runs combinatorial optimization experiments with classical and simulated
quantum solvers, keeps every run in one SQLite database, and offers a command
line and a local web interface on top. This directory holds TLA+ models of the
parts where a wrong order of steps, a crash, or a wrong sign would corrupt the
evidence without any test noticing, the TLC runs that check them on small
instances, and proofs for every value of the constants.

Paths below are relative to `src/src/variaq/` unless they start with `docs/`.

## The system

| component | state it keeps | operations | talks to |
|---|---|---|---|
| web task manager (`web/tasks.py`) | `_current`, `_thread`, the task objects; one mutex | `bind`, `start`, `start_reproduction`, the worker thread, `close` | journal, campaign runner through the service |
| task journal (`web/task_journal.py`) | table `web_tasks`; the OS lock on `<db>.web-worker.lock` | `__init__` (lock, reconcile), `save`, `get`, `close` | campaign store, table `runs` |
| campaign runner (`campaigns/runner.py`) | a list of runs and counts per status | `run` | experiment runner, campaign store, problem files |
| campaign store (`campaigns/store.py`) | tables `campaigns`, `campaign_runs` | `save_campaign`, `record_run`, queries | SQLite |
| experiment runner (`experiments/runner.py`) | solver invocation counters | `run_one`, `benchmark`, `reproduce` | solvers, experiment store |
| experiment store (`experiments/storage.py`) | tables `problems`, `runs` | `save`, `get`, `exact_objective`, queries | SQLite |
| problems (`problems/`) | immutable instances | `evaluate`, generators, constructors, `identity_payload`, `to_dict`, `from_dict`, files | - |
| lowering and BQM (`lower.py`, `bqm.py`) | none (pure) | `lower_problem`, `energy`, `validate`, `decode_solution` | problems |
| classical solvers (`solvers/exact.py`, `solvers/heuristic.py`) | search state per call | `solve` | problems |
| QAOA solvers (`solvers/qaoa_shared.py`, `qiskit_qaoa.py`, `cudaq_qaoa.py`) | search state per call | parameter search, sampling, Ising conversion | lowering |
| analysis (`analysis/`) | none | `analyze_runs` (groups, quality, comparisons), `paired_analysis`, `comparison_view` | both stores |
| reports (`analysis/reports.py`) | report files, one report to an id | `generate_report`, `export_report` | analysis, file system |
| plan and capabilities (`campaigns/plan.py`, `capabilities.py`) | none | `CampaignPlan.build`, `gather_capabilities` | installed libraries |
| services, command line, web routes | none of their own | one call each into the above; `compare` and `create_report` read evidence and export it | everything |

Two kinds of process write to one database file: server processes
(`variaq web`), of which several may be started on one database, and
command-line jobs (`variaq campaign run`, `solve`, `benchmark`), which know
nothing of the worker lock. Within the server that executes there are request
handlers and one daemon thread per accepted task, which share the manager's
mutex but drop it between any two steps. Every write of the database is a
transaction of its own, so a process can stop between any two of them.

### What is hard, and what makes each component correct

* *Tasks and journal.* Interleaving of handlers, the worker thread, a second
  server and command-line jobs; a stop between the save of a run, its membership
  row, the progress row and the outcome. Correct means: one execution at a time,
  no request executed twice, no row left `running` by a stopped process, counts
  and memberships that agree with the saved runs after recovery.
* *Campaign and experiment runner.* One step of several failing; references that
  change while runs are compared with them. Correct means: one durable record per
  attempt, in the order of the matrix, each compared with a reference that was
  stored before it.
* *Stores.* Check-then-insert by concurrent processes. Correct means: append
  only, a run's problem is the stored one, a reference that is unambiguous.
* *Problem documents.* An id that is computed in one place and checked in another,
  after numbers were converted. Correct means: an id names one problem, and what the
  program wrote it can read, or the run made with it is lost.
* *Lowering.* Penalty weights, offsets, signs, and the change from bits to spins.
  Correct means: the energy of a feasible assignment is its objective (or grows
  with it), every infeasible one is worse than the best feasible one, and all
  backends see the same energy.
* *Local search and enumeration.* Termination, ties, feasibility of every
  accepted move, sense of optimization.
* *QAOA search.* Answers of a backend that are not numbers, samples in any order,
  both senses. Correct means: what is reported is the best feasible sample,
  in whatever order the samples came.
* *Matched settings, analysis.* The same candidates for every matched solver; pairs
  that never mix instances, seeds or statuses; groups that are rated by the right
  optimum wherever the selection has it; comparisons that leave no run out.
* *Plan.* It is computed by other code than executes the campaign. Correct means: what
  it announced is what a finished campaign has.
* *Reports.* Several files, written in place one after the other, by several processes,
  from records that are still growing; an export can stop anywhere or be refused midway.
  Correct means: all files under one id are of one evidence, an export that ends well
  leaves a whole report, and nothing is overwritten unasked.

`PROJECT.json` lists the hazards with their lines and the properties that cover
them.

## The modules

In the order of importance; the first seven are done.

1. **Tasks and recovery** - `TaskLedger` (what the web promises), `WebTasks`
   (processes, threads, journal, recovery), `MCWebTasks`, `MCTasks`, `WebTasksProofs`.
   `WebTasks` implements `TaskLedger`, model-checked and proved.
2. **The history of runs** - `RunLog` (what the history promises: an append-only log),
   `RunHistory` (campaigns, reruns, benchmarks and single runs that share one
   database), `MCRunHistory`, `RunHistoryProofs`. `RunHistory` implements `RunLog`,
   model-checked and proved.
3. **Lowering and QAOA** - `Families` (the four families and their evaluation),
   `Lowering` (the binary quadratic model and its spin form), `QaoaInputs` (what a call is given),
   `QaoaSearch` (one call of a QAOA solver, over any problem and any energy), `QaoaProblems` (lowered
   problems as inputs), `QaoaSolver` (the search over them), `QaoaCatalogue` (small problems), `MCQaoa`,
   `QaoaSearchProofs`, `QaoaSolverProofs`.
4. **Classical search** - `ClassicalSearch` (one call of the exact or the heuristic
   solver over `Families`), `Documents` (generators, constructors, identity, documents),
   `RunOne` (a problem from any of these, solved by `ClassicalSearch`, its run saved with a
   snapshot; extends both), `MCSearch`, `ClassicalSearchProofs`, `RunOneProofs`. `MCSolvers`
   extends both 3 and 4, whose search modules share no name, and checks the calls of either.
5. **Campaigns and paired analysis** - `Pairing` (references, gaps and pairs of a
   selection of runs), `Campaign` (definition, matrix, matched settings, attempts,
   reruns; extends `Pairing`), `CampaignProofs`.
6. **Plan and grouped analysis** - `Plan` (what is announced of a campaign; extends
   `Campaign`), `Analysis` (queries, groups, quality, comparisons; extends `Pairing`).
7. **Reports** - `Reports` (exporters and report files next to running campaigns; extends
   `Plan` and `Analysis`), `MCCampaign`, `ReportsProofs`.
8. Planned: the order of ids in a document. The digest sorts candidates, tasks and nodes, a
   solution is a tuple in the order of the document, so a stored solution has its
   meaning only with the snapshot of its own run.

## How the models correspond to the code

### TaskLedger and WebTasks

`TaskLedger` is what `docs/web-ui.md` promises: a request is absent, open or
ended; one slot; attempts are saved only by the request in the slot. Four
actions: accept, attempt, release, end.

`WebTasks` models `web/tasks.py` and `web/task_journal.py` completely, and of the
campaign code what they call. One action is one critical section of the manager's
mutex or one SQLite transaction.

| state | code |
|---|---|
| `journal` | table `web_tasks`; a row is its status, its count and whether it points at a run |
| `campaigns`, `saved`, `member` | tables `campaigns`, `runs`, `campaign_runs`; the n-th run of an owner is the number n |
| `lock` | the `flock` on `<db>.web-worker.lock` |
| `proc`, `orphans`, `seen` | how far `TaskJournal.__init__` and `reconcile` are, and what they have read |
| `current`, `latest` | `CampaignTaskManager._current`, `_thread` |
| `thread` | the worker thread of each request and the `CampaignTask` it owns |
| `launches`, `stops` | history: threads started per request; stops of a server (bounded) |
| `job` | a `variaq campaign run` from the command line |

`BindExecutor`/`BindObserver`, `ReadOrphans`, `Repair`, `RepairConflict`,
`ReadTasks` and `MarkTasks` are the start of a server, split where `reconcile`
really splits: the orphans are read before the first INSERT opens a transaction,
and without orphans the task rows are read before the first UPDATE opens one.
`StartCampaign`, `StartReproduction` and `Launch` are a request: the thread is
created after the mutex is given up. `Begin`, `SaveCampaign`, `Attempt`,
`FileRun`, `SaveProgress`, `Complete`, `Fail`, `SaveOutcome` are the thread, with
`BeginFault` and `OutcomeFault` for a journal write that raises. `Close`, `Crash`
and `Exit` end a process. The `Job...` actions are the command line.

### RunHistory

`RunHistory` models the executor side of the same database: any number of
processes, each with a plan (a sequence of problem and solver) and a kind -
`campaign` (files for problems, compare and save per attempt), `benchmark`
(execute all, then compare all, then save all) or `single`. A campaign first enters its
definition (`LookUpCampaign`, `EnterCampaign`, `CampaignConflict`: `save_campaign`, whose
SELECT, like that of the save of a run, is outside the transaction of its INSERT); a
rerun has the id of the campaign it repeats and finds it there.

| state | code |
|---|---|
| `campaigns` | table `campaigns`: who entered an id |
| `artifact` | `problems_dir/<problem_id>.json`: none, partial (created, not written), whole |
| `stored`, `runs` | tables `problems` and `runs`, the latter in the order of insertion |
| `pc`, `next` | how far the process is in `benchmark`/`run_one`/`save` and in its plan |
| `pending` | executed and not saved: `pending` of `benchmark`, `run` of the others |
| `found` | `existing` in `ExperimentStore.save` |

A problem stands for its id, a digest of its definition, and has a set of
objectives of feasible solutions with its optimum. `Outcomes` says what a solver
call can leave: enumeration the optimum or a failure (budget), another solver
any solution, an infeasible one or a failure. A gap is reduced to undefined, zero
or positive, which is what its reader needs. `Compare` and `LookUp`/`Insert` are
separate because `exact_objective` and `save` are separate transactions, and
`LookUp` is separate from `Insert` because the SELECT of `save` runs before the
transaction that the first INSERT opens. `InsertConflict` is the primary key of
`problems`.

`RunLog` is the abstract history: a log of records, the campaigns that are entered, the
processes that have ended well. Its two actions are `Enter`, once for an id, and
`Record`, which appends the first attempt of a plan that is not in the log and changes
nothing before it. `RunHistory` implements it with `log <- runs`: files, lookups,
pending results, conflicts and stops are stutters.

### Families, Lowering, QaoaSearch and QaoaSolver

`Families` and `Lowering` are pure. A problem is a record of its family; a solution is the set of
the variables that are 1, and a variable of a one-hot family is a pair, where the
code joins the two names into one. (Names that collide, like a task `a_b` with a
resource `c` and a task `a` with a resource `b_c`, are refused by `validate_bqm`;
pairs cannot collide.) Coefficients are integers in quarters (`Unit`): the penalty
of a partition has a half, the spin form divides by four, and both are exact.
Floating-point rounding is not modelled.

`QaoaSearch` is `solve` of a QAOA solver with `run_shared_parameter_search`.

| state | code |
|---|---|
| `input`, `call` | the problem and the settings: trials, shots, warm-up |
| `stage` | called, search, sample, judge, returned, raised |
| `warmed`, `expectations`, `candidate` | the warm-up evaluation (its value is dropped), `expectations`, `best_index` |
| `counts`, `pending` | `sample_counts`, and what is left of the loop over it |
| `feasible`, `infeasible` | `best_feasible_solution`, `best_infeasible_solution` |
| `judged` | `feasible_count`, `infeasible_count` |
| `answer` | what `solve` returns |

The backend is external: `Evaluate` takes any number or one that is not finite,
`Sample` any tally of the requested draws, `BackendFails` stands for a missing
dependency or target, an exception and an empty tally. `Judge` takes the samples
in any order. The running best of the infeasible samples is the one of *lowest*
energy for both senses, as `qaoa_shared.py:281` has it and
`docs/quantum-optimization.md:59` says; for a maximization that is the worst one.
The limit on the bytes of a statevector is implied by the one on variables, unless
a request lowers it, and is not kept apart.

`QaoaInputs` declares what the search may be given; `QaoaProblems` defines it by `Lowering`, and the
configurations bind the one to the other (`Bits <- BasisStates` and so on). `BindingAssumption`, which TLC
evaluates, says that the two agree, and `DocumentAssumption` that every document is a
validated one (`Validated`: finitely many names, numbers for coefficients). `QaoaCatalogue` numbers the
documents (a state then holds a number, not a record) and tabulates objective and energy of the admitted
ones. `QaoaSolver` puts search and problems together and states what lowering, observable and
circuit owe each other. Sums are written with `SumOver`, of a function over a set, throughout; `Halves`,
`Quarters` and `OfSpins` are the steps of the conversion to spins.

The energy of a partition is not its cut: every cut edge is counted from both sides and the weight of every
edge is added, although a comment says that the two are equal (`lower.py:293-294`, finding
`partition_energy`). `EnergyIsObjective` therefore states equality of the other families, and of all four that
the energy puts feasible solutions in the order of their objectives.

### ClassicalSearch

`ClassicalSearch` is `solve` of the exact and of the heuristic solver, over the
problems of `Families`. A node, task or candidate is the number of its place in the
document, because the solvers break ties by places.

| state | code |
|---|---|
| `problem`, `request` | the arguments: a state limit, or restarts and passes |
| `phase` | called, enumerate, restart, descend, compare, returned, raised |
| `remaining` | the states the loop of `_enumerate` has not reached |
| `restart`, `pass` | the counters of the two loops of the local search |
| `current`, `tracked` | `current` and `current_objective` |
| `best` | `best_solution` of either solver |
| `ends` | history: where the restarts ended |
| `result` | what `solve` returns |

`Visit` takes the state of lowest number. `BeginRestart` takes the greedy solution
or any bits at all, which stands for the generator of random numbers; the greedy
subset may order equal densities in any way, as the shuffle does. `Pass` is
`_best_move` with `_apply_move`: the moves of a family, what each of them
*evaluates* and what it *leads to*, which differ for a partition. `_best_partition_move`
probes in place and undoes by writing back the part it computed as the old one, so a
sweep leaves every node in exactly one part, even when nothing is chosen (`Swept`,
`Relocations`, `Settled`). `UnconstrainedNeverFails` depends on it.

Met on the way, and not contradicted by a document: a cut accepts flips that gain
nothing, so a pass rarely runs out of moves before `max_passes`; the other families
move to the best feasible neighbour even when it is worse, and only the end of a
restart is compared, so a restart can end below its start; a start that is not
feasible is left only if a single move repairs it.

### Documents and RunOne

`Documents` is pure: a recipe (the parameters of `generate`, with any numbers the
generator may draw) or explicit data gives instances, none when `__post_init__`
refuses; `ToDocument` and `Loaded` are `to_dict` and `problem_from_dict`. An instance is
a record of `Families` with its id, the fields whose numbers are Python integers, and
the edges of a partition that are written against the order of their ends (only a
document made by hand has them). A digest is its payload, so it has no collisions.
`Converted` is what `from_dict` does to numbers: all become floats.

`RunOne` is `ExperimentRunner.run_one` around a call of `ClassicalSearch`: `RunInit`
takes any instance, `Step` is a step of the solver, `Save` is `ExperimentStore.save`,
which loads the snapshot first (`storage.py:106`) and raises when it cannot. A call
that raised is saved as a failure.

Not every run is saved, which `docs/problem-families.md:104` ("two semantically identical problems
produce the same ID") and `experiments/runner.py:85` ("Every solver failure must
become a durable record.") promise: finding `record` (`EveryRunIsRecorded`). With an integer in a field for
floats, as in a campaign whose generator parameters have `"budget": 5`, the solver
executes its first attempt, and `save` refuses it with "Problem ID does not match content",
because the id was taken of `5` and the snapshot loads `5.0`
(`campaigns/runner.py:41-47`, `problems/subset_selection.py:186-188`); `from_data` and
`from_score_matrix` do the same with integer scores. `RecordHolds` is what holds all the same: a
problem that came from a document has its runs saved, and whatever is saved can be loaded and is true. A partition's
document may say `maximize`: its `from_dict` does not look, and it is minimized.

### Pairing and Campaign

`Pairing` is pure: the operators of `analysis/paired.py` over a set of records. A
record keeps what the analysis reads; the optional settings `p`,
`optimizer_trials`, `shots` and `warmup` are one value, `Nothing` when one of them
is not recorded, and candidate vectors are a sequence, `<< >>` for none. Runs are a
set and an id is who made the run and a number. `Sole` is the test for a slot, or a set
of references, with exactly one element. Problems are their ids, so two
snapshots of one id do not conflict (a case the code refuses to pair).

`Campaign` is `CampaignRunner.run` with `ExperimentRunner.benchmark` and
`reproduce`, for any number of campaigns on one store.

| state | code |
|---|---|
| `definition`, `installed` | the campaign's arguments; the libraries that can be imported |
| `pc`, `at` | the loops over sizes and seeds of `run`, as one position in their product |
| `remaining` | the loops of `benchmark` over solvers and repeats |
| `summary` | `summary_statuses`; `aborted` is a `pc` of its own |
| `saved` | the recorded runs, with older ones from the start |

`Resolved` is `common_qaoa_parameters` (defaults filled in, or refused), `Fits` the
check of supplied vectors, `Generated` the generators. `Contradictory` holds the
refusals of `_matched_repeat_configs` and `Setting` what it gives an attempt;
without NumPy, and without supplied vectors, it leaves every solver its own
settings. A benchmark computes all settings before its first attempt; they depend
on the definition only, so the model computes them where they are used, and
`Contradict` fails the campaign before anything of the problem is run. `Results`
lets any call fail, lets the exact solver return an optimum only (shown in `solvers`),
and needs a library for a quantum success. The execution of a record is the
campaign and its position, which stands for the `benchmark_id` made there.

`CampaignIsComplete` is about one execution, whose result has its own status summary and run ids. The
campaign store counts by `campaign_id`, which all executions of a definition share
(`campaigns/store.py:66-84`, `152-163`, `199-211`): its statistics include reruns, as
`docs/benchmarking-ui.md:11-14` says, and are not modelled.

The selections of the properties are *all* sets of recorded runs up to
`MaxSelection`, which covers the filters and windows of `services.compare` and
more.

### Plan and Analysis

Both are pure. `Plan` is `CampaignPlan.build` over a definition and the libraries that
can be imported: how many runs each solver is asked for, why they would come to
nothing, and the warnings. `PlanIsHonoured` compares it with what the campaign then
does, on a machine that stays as it is.

`Analysis` is `analyze_runs` without its statistics: the runs a query applies to, their
groups, what a group's best objective, optimum rate and mean gap are taken *over*,
and the three comparisons made of groups, of which the last of one problem and solver
stays (`LastGroup` leaves the choice open); `Configuration`, `Buckets` and `Summary` are
the comparison page (`comparison_view.py`). A query is its fields, its two switches and
its filters (`Filtered`); `Queries` of a selection are those of the reports, and one for every solver,
problem and status that a run of it has.

Met on the way, and not contradicted by a document: a group whose problems have both
senses is rated as one of maximization; a mean gap leaves out the runs whose gap is
undefined against an optimum of zero, while the optimum rate counts them; a *failed*
exact run is enough to suppress the warning that there is no exact baseline, and the
row then has an empty exact side; the plan's warning that QAOA runs "will be recorded as
unavailable" (`plan.py:123`) is given as well for a family they are skipped for; CUDA-Q
without NumPy is announced as available, and its runs then are not; `variaq analyze runs`
without ids reads the last 1000 runs.

### Reports

`Reports` adds exporters to `Campaign`: requests of the comparison page, of the report page
or the command, with or without `--overwrite`. A step of a campaign or of an exporter is
a step of the whole.

| state | code |
|---|---|
| `files` | the report directory: (report id, name) to the runs and the time a file was made of, or torn |
| `export[x].pc` | `look`: the JSON test of `compare`; `check`: `_safe_path`; `open`, `close`: one file being written |
| `export[x].id`, `.runs`, `.generated_at` | the `ReportArtifact` |
| `export[x].next` | the file of `export_report` that is next |
| `export[x].found`, `.alone` | history, for the properties: files there at the start; whether anybody else wrote this report meanwhile |

The id is a digest of query and analysis, both functions of who asks and of the runs. `Start`
reads the evidence (a report: all of the campaign so far; a comparison: any part of
it), `Look` is `services.py:310-314`, `Check`, `Open` and `Close` are each file. A stop, or a
write that fails, can come at any point and leaves a torn file that is there.

Met on the way: a torn JSON file makes every later comparison export of the same evidence fail
(`json.loads` raises) until a report command overwrites it; two comparison exports
that start together with no JSON file yet can leave JSON and Markdown of different
times, and each other's files are torn meanwhile, so `ReportIsWhole` speaks of exports that
were alone; a refused export leaves the files it wrote before the one that was
there.

Definitions marked "Seeded bug" in these modules are not part of the
specifications: they are mistakes a maintainer could make, kept to show that the
properties notice them (`PROJECT.json`, "mutants").

## What the runs check

| run | question | result |
|---|---|---|
| `tasks` | two servers, a campaign, a reproduction and a job, in behaviours in which any journal or membership write may fail and in others in which none does: six safety properties, the inductive `SlotInv` (with the types) and the refinement of `TaskLedger`; where no write fails, every task ends in the journal, every run is filed, the slot is freed | holds |
| `history` | a campaign (two problems), its rerun, and a benchmark (heuristic before exact) on one database, each stoppable anywhere: references, gaps, evidence, the inductive `HistoryInv` and the refinement of `RunLog` | holds |
| `solvers` | a QAOA call on some 230 small problems of all families, any backend: the best feasible sample is reported, and the lowering is exact, has feasible optima and an exact spin form. An exact or heuristic run on some 400 others, generated, built from data or loaded: the best that was considered is returned, the exact result is an optimum, passes keep feasibility and never lose a cut, problems without constraints never fail, and a saved run holds for the problem its id names | holds |
| `campaign` | campaigns with agreeing, contradictory and incomplete settings, missing libraries, skips, aborts, reruns and older records: settings, counts, the plan, what an analysis of any selection makes of them, and the report files two exporters write from them | holds |
| `late_thread` | is a reconciling process alone? | refuted |
| `stuck_task` | does a persistence failure terminate the task? | refuted |
| `save_conflict` | is every executed attempt saved by a process that was not stopped? | refuted |
| `artifact` | is a campaign never refused by the file of its own problem? | refuted |
| `phase` | does the cost layer turn states of equal energy alike? | refuted |
| `partition_energy` | is the energy of a partition its cut? | refuted |
| `record` | is every run that was executed saved, if only as a failure? | refuted |
| `heuristic_sense` | does a pass move to the best neighbour in the sense of the problem? | refuted |

Two more things `tasks` shows without a run of their own, as the documents leave
room for them: a server that starts between a command-line job's save of a run and
its membership row files the run itself, and the job dies on the primary key
(`JobConflict`); a membership that cannot be written ends the task one saved run
ahead of its count (`Fail` while filing).

The refuted ones state what a document or comment of the repository says;
`PROJECT.json` "findings" quotes it and names the line that breaks it.

*Bounds.* Two servers are enough for one to start while another drains. `MCTasks` chooses at
the start of a behaviour whether writes may fail (`sound`). If none does, two stops are possible, so that each server,
or one twice, can stop (recovery of recovery needs two), and a campaign makes one attempt; if they may,
one stop is, and a campaign makes two attempts: a first, a last and a state between them. All of it at
once is too large to be checked with liveness; the safety properties are proved for all
these numbers. One reproduction and one campaign compete for the slot. In `history` the
benchmark executes its heuristic attempt before the exact one, the campaign and its
rerun add stored exact results of the same problem at any moment, race for the same id and
the same files, and move to a second problem. One
problem is maximized with optimum 2, the other minimized with optimum 1; problems with
one optimum value are representative because a
result is only ever compared with it. `CampaignSymmetry` exchanges the campaign and its rerun,
which have one kind, plan and id; no property and no fairness tells them apart. A
single run, an optimum of zero and further attempts on one problem of a campaign are left to the
proofs, which cover every kind, plan and number. The only counter with an artificial
bound in `tasks` is `stops`; everything else ends by itself. `MCSolvers` chooses what kind of solver is
called, and the variables of the other kind rest. In a QAOA call two candidates and two draws
give ties, a better and a worse one, and pairs of a feasible and an infeasible
sample; requests of zero are refused. The problems are every weighted graph on
three nodes (cut and bipartition), one task with three resources and two tasks with
two, with negative scores, demands of one and two and a prohibited pair, every
score and interaction of three candidates from small sets, in both senses, and
for each kind some with an inequality bound, which is refused. `MaxVariables` is 4
instead of 18, so that one problem is too large. A wrong sign, factor or constant
of the lowering shows on these; that a penalty is large enough for all sizes is
not shown.

A classical run starts from one of 421 instances: built from data (with an edge twice,
a loop, an edge out of range), generated by twelve recipes, some of which nothing comes
from, or loaded from the document of one of these, as it is, with its schema, sense or
bound changed by hand, or with edges turned; fifty have integers. Two restarts are a greedy and a random one, and
three passes give a first, a middle and a last one; every weight, score, interaction
and bound of three nodes or candidates from small sets gives ties, negative
objectives, infeasible starts and problems without a feasible solution. State limits of
0, 8 and 64 refuse, admit some and admit all.

In `campaign` one process runs one of thirteen definitions, of up to four attempts:
one and two problems, two repeats, seeds of a solver's own, a problem that two
seeds generate, solvers that are skipped, every way to contradict, and settings that
no solver accepts. Three older records (two of them in one slot) come on top of the two executions of
one problem, and one rerun on top of the others, of an older record as well. Selections of three runs hold a pair and a run that makes
it ambiguous, or a pair and its exact reference; no definition of `Pairing` looks at
more than two runs and one reference. Several campaigns on one store are left to the proofs,
which hold for any number. `MaxReproductions`, of
each definition, is an artificial bound, like `MaxStops`; `Circumstances` are the
libraries and older records a definition is run with (libraries only where it has a
quantum solver). Reports are made (`Exported`) of one definition, an exact solver twice:
its campaign is exported after one run, after two, and in between. Two
exporters, which are symmetric, make all kinds of requests, one each, so that an export
meets a running or a stopped one, with another evidence or the same. Of the five tables a
report may have one is written: a check, an open and
a close of a first, a middle and a last file. More exporters, requests and tables are left to the
proofs.

*Deadlock* is not checked (`CHECK_DEADLOCK FALSE`): the systems really stop. When
all requests are ended, the servers are down or idle and the bound of stops is
used up, or all plans are done, a call has returned or raised, or a campaign has ended, nothing is left to do. That nothing stops early
is what the liveness properties of `tasks` say.

*Fairness* (`FairSpec`): weak fairness of each worker thread (the operating
system schedules it, and a solver call returns), of the start of each server
process (a supervisor or a user starts it again) and of the exit of a closed one.
Requests, stops, faults and jobs have none: nothing in the code makes them
happen. A thread whose process is gone has no enabled step, so fairness of
`Work` demands nothing of it. The first `SaveOutcome` or `Begin` that raises breaks liveness, which is
finding `stuck_task`; the liveness properties therefore speak of the behaviours without
faults (`sound`) only.

## What is proved

The proofs hold for all values of the constants that satisfy the named
assumptions; TLC evaluates these in every run. Every safety and action property of the
runs that pass is a theorem; the runs show them on small instances. The assumptions:

* `ConstantsAssumption`, `RunHistoryAssumption`, `CampaignAssumption`, `ReportAssumption`: what the
  sets are, that request keys, owners and `Nobody` are distinct, that plans are not empty, that a
  benchmark has one problem, that definitions are valid, that a problem's optimum is one of
  its objectives and beaten by none, that the older records of a store have no repeat index, and
  that a report has no two files of one name.
* `SearchAssumption`, `DocumentAssumption`, `BindingAssumption`: bounds are natural numbers, the backend
  answers numbers or one value that is none, the problems are validated, and the search runs over
  their lowering.
* `ClassicalAssumption`, `RunAssumption`: problems are validated, nodes and parts are numbered in the
  order that ties are broken by (`ArePlaces`), and what is run is a problem object (`IsInstance`), named by
  the digest of its content.

* `WebTasksProofs`: `TypeCorrect`; `SlotInvariance`, the inductive invariant
  `SlotInv`; from it `OneAtATime` (`SingleExecution`) and `NeverRepeated`
  (`ExecutedOnce`); `RecoveryCorrect` and what follows from it, `NothingIsLeftOpen` (`NoGhostTask`),
  `ProgressIsHonest` (`ProgressWithinOne`), `NoRunIsLost` (`UnfiledRunIsNewest`) and
  `ResultIsKept` (`ReproductionKeepsResult`); `LedgerImplemented`, `Spec => ImplementsLedger`.
  `SingleExecution` is not inductive: that two threads never occupy slots in two
  processes depends on the occupant being the current task of the process that
  owns the OS lock, which in turn depends on `close()` refusing to give up the
  lock while a task is active, and on the rows a recovering process has read still
  being there. `SlotInv` says exactly that. `ThreadMoves` shows once that a living
  thread's step preserves it; the other actions follow one by one. None of the four facts about
  recovery is inductive either, as a row, a count, a membership and a run are written in four
  transactions and a process can end between any two. `RecoveryCore` says for each request how
  far its row may be behind its runs at every step of its thread (`ProgressOf`), for each
  campaign which run may be unfiled (`FilingOf`), and for each process and request what is true of the rows it
  has read but not yet written (`RecoveryOf`). For the
  refinement, `SlotIsOccupant` makes the CHOOSE in the mapping of the slot
  determined, and every action then is a ledger step or a stutter.
* `RunHistoryProofs`: `HistoryCorrect`, that types and `HistoryCore` are invariant
  (saved and pending results are honest about the optimum, a stored reference is
  among the runs before them, a live process holds only results of its current
  problem); from it `HistoryTyped`, `EarlierReference` (`ReferenceIsEarlier`) and
  `TrueGap` (`GapIsTrue`). `GapIsTrue` alone is not inductive: a gap is computed from
  results that are not saved yet and from runs that others saved, so both have to
  be honest, and a benchmark has to be known to hold results of one problem.
  `StoredObjective` and `ReferenceIsOptimal` are about the two sources of a
  reference, `HistoryGrows`, `StillBacked`, `StillHonest` about an append-only
  sequence, `ProcessMoves` about a process that changes only its own state.
  `HistoryInvariance` adds `LogCore`, what the refinement needs: the attempts a live
  process has saved are those before the first one it holds, and what it holds are
  consecutive. `LogImplemented` is `Spec => ImplementsLog`: an insert appends exactly
  the first attempt that is missing, an entry is made once, everything else is a stutter. A
  process that is not live keeps what it saved but no more order, hence the invariant is
  about live ones. `EvidenceCorrect` adds `EvidenceCore`: until a process ends well, what supports the reference of
  each of its runs is saved or still in its hands, and its own runs stay where they are; from it
  `EvidenceIsSaved` (`EvidenceIsComplete`).

* `QaoaSearchProofs`: `SearchCorrect`, the inductive invariant `SearchInv`
  (which `solvers` checks, with the types): each running best is the best of the samples
  judged so far, the choice is the first best candidate, and nothing is reported
  before the last sample. From it `SearchTyped`, `BestSampleReported`
  (`ReportedIsBestSample`) and, for a lowering whose states of best energy are
  best feasible solutions (`FaithfulLowering`), `OptimumReported`. `ReportedIsBestSample` speaks of
  the end only, hence the invariant about the loop; `Transitive` is where the sense
  of the problem enters.

* `QaoaSolverProofs`: the lowering, for problems of every size. The first part is about sums: that
  a sum does not depend on the order its elements are taken in (`SumPick`), that sums can be added, scaled,
  compared, exchanged and taken over another set (`SumPlus`, `SumTimes`, `SumMonotone`,
  `SumExchange`, `SumReindexed`), each by well-founded induction on the subsets of the set.
  `ObservableIsEnergy` is that the conversion to spins keeps the energy of any model with even linear and
  fourfold quadratic coefficients (in units), and `LoweredIsModel` that every lowered model is one; together
  `LoweredObservable` (`HamiltonianIsEnergy`). `CutEnergy`, `ScoreEnergy` and `SquaredEnergy` give the
  energy of the three building blocks of a model, a cut, scores and a squared constraint;
  `AssignmentEnergy` and `PartitionEnergy` put them together, and `LoweredObjective` (`EnergyIsObjective`)
  follows, as the squares vanish on feasible solutions and a partition's copies of an edge are
  cut twice or not at all (`FeasibleCut`); `GrowsWithObjective` is the order of the energies. `LoweredOptimum` (`OptimumIsFeasible`) goes by exchange. `GapStep`: one
  more variable changes the squared gap of its own row by an odd number, `2q + 1`, and no other. `CostStep` and
  `PartitionMoves` compare that with the penalty: the score of one pair is at most `LargestScore`, one bit cuts
  or joins at most the weight at its node (`LiftedCutStep`, where weights have to be positive), and the penalty of
  a square exceeds both. A row that is too long, or too
  short, is therefore improved by one variable; if all rows are right and a pair is prohibited, the row of a feasible
  solution has a pair to exchange it with, and two scores cannot outweigh `ProhibitedPenalty` (`AssignmentImproves`,
  `PartitionImproves`). With `LoweringIsFaithful` the hypothesis of `OptimumReported` is gone: `LoweredOptimumReported`.

* `ClassicalSearchProofs`: `SearchInvHolds`, the inductive invariant: where each loop stands and what is left of it
  (`Standing`), what the passes keep - on a cut the objective carried along is the true one, and from the second
  pass on a partition has one part for each node (`Climbing`) -, the incumbent is the best considered, and a
  call that ended did so for a reason (`Ended`). From it `SearchTypeOK`, `KeepsTheBest` (`IncumbentIsBest`), `ReturnsAnOptimum`
  (`ExactIsOptimal`; that half of the cuts is enough needs that a cut and its complement are worth the
  same), `EndsWithASuccess` (`UnconstrainedNeverFails`), `StaysFeasible` (`FeasibilityIsKept`) and `NeverLosesACut`
  (`CutClimbs`).

* `RunOneProofs`: `IdentityIsFaithful`, `DocumentsRoundTrip`, `LoadedIsAnInstance` and `GeneratedAreInstances` about the
  operators of `Documents`; `RunIsACall`, so that the theorems of `ClassicalSearchProofs` hold within runs; and
  `RecordsHold` (`RecordHolds`), from the invariant `RunInv`, that a record is that of the call that ended.

* `CampaignProofs`: `Invariance`, the inductive invariant `CampaignInv`: a run with a
  repeat index lies in the matrix of a campaign that does not contradict itself, has
  the settings of its place, is alone there, and its place is not among those still
  to be run; a result is honest about its problem and backend. From it `Types`,
  `SettingsKept`, `MatchedControls`, `TrueQuality` and `PairsAreSlots`, the last two
  for every set of recorded runs. That a place is never run twice needs the
  attempts still to be made in the invariant (`PlaceIsFree`), and that every recorded place
  lies behind its campaign (`Advances`, `StillFiled`). `MatchedControls` needs the
  honesty of a success about its libraries: without NumPy a matched solver has its own
  settings and could differ, but then it cannot succeed without vectors of its own.
  `CampaignIsComplete` and `PlanIsHonoured` count: the invariant also says that what a campaign has executed,
  skipped and left to run adds up to the places behind it, so that one that is done has come to
  the end of its matrix (`CompleteCampaign`); per solver the sums are those of the plan (`HonouredPlan`).
  Assumed: definitions are valid, objectives are numbers with an optimum, older
  records have no repeat index and belong to no execution of these campaigns.

* `ReportsProofs`: `ReportsOnlyRead`, that every behaviour is one of `Campaign` as far
  as campaigns are concerned; `EvidenceIsInvariant` and `ReportInvariance`, the inductive invariant
  `ReportInv`: exports and files cite recorded runs, a whole file is of the runs its
  report is named after, a command that does not overwrite is about to write none of
  the files it found, and an export that is alone has written what it says. From them
  `Reproducible` (`ReportsAreReproducible`), `NothingOverwritten` and `WholeReports`
  (`ReportIsWhole`), for any number of exporters, campaigns, runs and tables. The
  properties are not inductive: that files of one id agree is so because the id
  determines the runs, also while a file is torn; and that a report leaves out no older run
  needs the numbers of runs to grow with the records (`Numbered`), which is a fact about
  the campaign and not about the exporter.

  `TrueComparisons` (`ComparisonsAreTrue`) is about `Analysis`: for any selection of recorded runs, from the
  honesty of recorded results that `CampaignInv` has.

Only model-checked: liveness (`EveryTaskEnds`, `EveryRunFiled`, `SlotIsFreed`; the prover does not reason about
fairness), and the eight runs that show a violation, which need no proof. Not proved is anything about
the phases of the circuit beyond the finding of `phase`. Induction over data is out of the prover's reach as a schema; where
a proof above speaks of sums or counts of any size it goes by well-founded induction over a set of subsets,
which is a set and no schema.

## Not modelled, and why

* Item 8 of the modules above, for now.
* In `Analysis`: means, medians, timing, resources, samples and scaling points of a group;
  filters on other fields than a record has. In `Plan`: the number of binary
  variables and the warning made of it; a machine that changes before the
  campaign runs. In `Reports`: plots, symbolic links, listings and the reading of reports; which formats a command
  asks for, beyond those of its kind of request; and `NothingIsOverwritten` is about the files that
  were there when a command started: one that another command creates between the check for it and its
  opening is overwritten (`analysis/reports.py:49-52`, `94-99`), as both steps of the model allow.
* Two decisions of the server that no document settles: a request key ignores the override of
  the run limit (`web/tasks.py:107`), so a campaign that failed on the limit is answered with
  its ended task; and a server that started as an observer never asks for the
  lock again (`web/task_journal.py:34`).
* In `RunHistory` a second process that starts the same new campaign at the same time ends with
  `IntegrityError` (`CampaignConflict`), before it has executed anything; no run shows
  it as a finding, as nothing is lost.
* In `Lowering`: that every infeasible assignment is worse than *any* feasible one,
  as `bqm.py:22-24` says. The penalty only has to keep the optimum feasible
  (`OptimumIsFeasible`): with one task and resources of scores -2, 2 and 2 the penalty is
  5, and the infeasible choice of the last two (4 - 5) beats the feasible first (-2).
* In `Documents`: the order of ids (plan item 8), bounds that are not integers, missing
  keys of a document, an edge twice in a document, and the metadata `generation`.
* In `Campaign`: what happens within an attempt (saved and filed in `WebTasks`,
  compared in `RunHistory`), a generator that refuses a later size after an earlier one was
  executed (the campaign then fails with the runs it has), the statistics of the store over all executions, `variaq benchmark` outside campaigns, an
  abort signal that is withdrawn again, precision and time measurements of a pair.
* Amplitudes, simulators and floating point in `solvers/qiskit_qaoa.py` and
  `cudaq_qaoa.py`: numerical and external; of the circuit only the phases of the
  cost layer are modelled. Tables, pages, HTTP routing, argument parsing and listings:
  formatting and I/O without state.
* In `WebTasks`: SQLite's busy timeout (a lock that is not obtained is a write
  that raises), the summary text of a task, and the run limit of a campaign
  (an attempt that fails).
* In `ClassicalSearch`: floating-point drift of `current_objective` (values are
  integers, so `CutClimbs` would not notice rounding), times and counts of passes, and the cost floor of 1e-9 in the greedy
  subset, which is a thousandth of the smallest cost here.
* In `RunHistory`: id collisions (ids are uuids and digests), the campaign's
  memberships (in `WebTasks`), `should_abort`, ratio and normalized score, and
  a corrupted database.
