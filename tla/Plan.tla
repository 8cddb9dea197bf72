-------------------------------- MODULE Plan --------------------------------
(***************************************************************************)
(* The plan of a campaign (campaigns/plan.py): what `campaign plan` and    *)
(* the web page predict before anything is executed, from the definition   *)
(* and the capabilities of the machine.  The machine is taken to stay as   *)
(* it is until the campaign has ended.                                     *)
(***************************************************************************)
EXTENDS Campaign

\* Seeded bug: both targets of CUDA-Q are asked for a GPU.
AvailableWithGpu(solver) ==
    CASE solver \notin Quantum -> TRUE
      [] solver = "qaoa" -> {"qaoa", "numpy"} \subseteq installed
      [] OTHER -> "cudaq-gpu" \in installed

\* Classical solvers always are; a quantum one when its library can be loaded.
\* The library of qaoa includes NumPy, of which CUDA-Q's lookup knows nothing.
Available(solver) ==
    CASE solver \notin Quantum -> TRUE
      [] solver = "qaoa" -> {"qaoa", "numpy"} \subseteq installed
      [] OTHER -> solver \in installed

RunsPerSolver(d) == ProblemCount(d) * d.repeats

\* Of every solver of the definition: how many runs it is asked for, and why they
\* would come to nothing; an unsupported family is the first reason looked for.
Breakdown(d) ==
    [i \in DOMAIN d.solvers |->
        [solver |-> d.solvers[i], requested |-> RunsPerSolver(d),
         unavailable |-> IF d.family \notin Supports[d.solvers[i]] THEN "family"
                         ELSE IF ~ Available(d.solvers[i]) THEN "machine"
                         ELSE "no"]]

EstimatedQuantumRuns(d) ==
    Cardinality({i \in DOMAIN d.solvers : d.solvers[i] \in Quantum}) * RunsPerSolver(d)

ExceedsDefaultMax(d) == Requested(d) > MaxRuns

\* "No quantum backend appears available; QAOA runs will be recorded as unavailable."
WarnsOfNoBackend(d) ==
    /\ EstimatedQuantumRuns(d) > 0
    /\ \A i \in DOMAIN d.solvers : d.solvers[i] \in Quantum => ~ Available(d.solvers[i])

-----------------------------------------------------------------------------
(* What becomes of it. *)

RunsBy(c, solver) == {run \in RunsOf(c) : run.solver = solver}

\* A campaign that ends well has for every solver the number of runs the plan
\* announced, recorded or skipped; what it announced as impossible has come to
\* nothing; a warning of no backend leaves no quantum run successful; and a campaign
\* that is refused was announced as exceeding the limit.
PlanIsHonoured ==
    \A c \in Processes :
        LET d == definition[c]
            entries == Breakdown(d)
        IN  /\ \A i \in DOMAIN entries :
                  LET entry == entries[i]
                      runs == RunsBy(c, entry.solver)
                  IN  /\ entry.unavailable = "family" => runs = {}
                      /\ entry.unavailable = "machine" =>
                            \A run \in runs : run.status # "success"
                      /\ pc[c] = "done" /\ entry.unavailable # "family" =>
                            Cardinality(runs) = entry.requested
            /\ pc[c] = "done" =>
                  summary[c]["skipped"] =
                      RunsPerSolver(d) * Cardinality(
                          {i \in DOMAIN entries : entries[i].unavailable = "family"})
            /\ pc[c] = "done" /\ WarnsOfNoBackend(d) =>
                  \A run \in RunsOf(c) : run.solver \in Quantum => run.status # "success"
            /\ pc[c] = "refused" => ExceedsDefaultMax(d)
=============================================================================
