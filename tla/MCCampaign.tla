----------------------------- MODULE MCCampaign -----------------------------
(***************************************************************************)
(* Campaigns of up to six attempts for model checking.                     *)
(***************************************************************************)
EXTENDS Reports, TLC

CONSTANTS c1,     \* a campaign
          e1, e2  \* exporters

Define(family, seeds, solvers, repeats, seed, given, supplied) ==
    [family |-> family, sizes |-> <<2>>, seeds |-> seeds, solvers |-> solvers,
     repeats |-> repeats, base |-> 0,
     seed |-> seed @@ [s \in SolverNames |-> Nothing],
     given |-> given @@ [s \in SolverNames |-> "nothing"],
     supplied |-> supplied @@ [s \in SolverNames |-> << >>]]

None == << >>   \* no entries

\* Solvers with seeds of their own, so that equal seeds are not equal repeats.
Mixed == Define("maxcut", <<1>>, <<"exact", "heuristic">>, 2,
                "heuristic" :> 1, None, None)
\* Two generator seeds that give the same problem: two executions of it.
Twice == Define("maxcut", <<1, 2>>, <<"heuristic", "exact">>, 1, None, None, None)
\* Solvers that are skipped, next to others and alone; the second problem has no
\* feasible solution.
Partition == Define("graph-partition", <<1, 3>>, <<"heuristic", "qaoa", "exact">>, 1,
                    None, None, None)
PassedOver == Define("graph-partition", <<1>>, <<"qaoa">>, 2, None, None, None)

Backends(repeats, seed, given, supplied) ==
    Define("assignment", <<1>>, <<"qaoa", "cudaq-cpu">>, repeats, seed, given, supplied)

Agreeing ==
    {Backends(2, None, "qaoa" :> "short", None),
     Backends(1, "qaoa" :> 1 @@ "cudaq-cpu" :> 1, None,
              "qaoa" :> <<"vectors">> @@ "cudaq-cpu" :> <<"vectors">>)}
Disagreeing ==
    {Backends(1, "qaoa" :> 1, None, None),
     Backends(1, None, "qaoa" :> "long", None),
     Backends(1, None, None, "cudaq-cpu" :> <<"vectors">>),
     Backends(1, None, "qaoa" :> "long" @@ "cudaq-cpu" :> "long",
              "qaoa" :> <<"vectors">> @@ "cudaq-cpu" :> <<"vectors">>),
     Backends(1, None, "qaoa" :> "zero" @@ "cudaq-cpu" :> "zero", None)}

\* One quantum solver: its settings are not looked at before its attempt.
Single == Define("maxcut", <<1>>, <<"qaoa", "heuristic">>, 1, None, "qaoa" :> "zero", None)

\* The evidence of reports: two runs, one after the other; one of the five tables.
Exporting == Define("maxcut", <<1>>, <<"exact">>, 2, None, None, None)
MCExported == {<<Exporting, {}>>}
ExporterSymmetry == Permutations(Exporters)
MCTables == [asker \in {"comparison", "page"} |-> <<"groups">>]

MCDefinitions ==
    [c \in Processes |->
        {Mixed, Twice, Exporting, Partition, PassedOver, Single} \cup Agreeing \cup Disagreeing]

MCMaxReproductions ==
    [d \in UNION {MCDefinitions[c] : c \in Processes} |-> IF d \in {Exporting, Twice} THEN 0 ELSE 1]

MCSupports ==
    [s \in SolverNames |->
        {"maxcut", "assignment", "subset-selection"} \cup
        (IF s \in Quantum THEN {} ELSE {"graph-partition"})]
MCGenerated ==
    [x \in {"maxcut", "assignment", "graph-partition"} \X {2} \X (1 .. 3) |->
        CASE x[1] = "maxcut" -> "cut"
          [] x[1] = "assignment" -> "tasks"
          [] x[3] = 1 -> "partition"
          [] OTHER -> "infeasible"]
MCSense == "cut" :> "maximize" @@ "tasks" :> "maximize" @@ "partition" :> "minimize"
           @@ "infeasible" :> "minimize"
MCObjectives == "cut" :> {1, 2} @@ "tasks" :> {1} @@ "partition" :> {0, 1}
                @@ "infeasible" :> {}

MCControls == {"short", "long"}
MCResolved == "nothing" :> "short" @@ "short" :> "short" @@ "long" :> "long" @@ "zero" :> Unusable
MCFits == {<<<<"vectors">>, "short">>}
\* Older records: one execution by seed, with an ambiguous slot, and a single run.
Old(number, solver, execution, seed, objective) ==
    [id |-> [by |-> "old", number |-> number], problem |-> "cut", solver |-> solver,
     execution |-> execution, repeat |-> Nothing, seed |-> seed,
     controls |-> Nothing, candidates |-> << >>,
     status |-> "success", objective |-> objective]
Older ==
    {Old(0, "exact", <<"old", 1>>, 0, 2), Old(1, "heuristic", <<"old", 1>>, 0, 1),
     Old(2, "heuristic", <<"old", 1>>, 0, 2)}

\* The machine matters for quantum solvers, and older records where there are few
\* others of their problem.
IsQuantum(d) == \E i \in DOMAIN d.solvers : d.solvers[i] \in Quantum
MCCircumstances ==
    [d \in UNION {MCDefinitions[c] : c \in Processes} |->
        [installed : IF IsQuantum(d) THEN {{"numpy"}, {"qaoa", "cudaq-cpu"},
                                       {"numpy", "qaoa", "cudaq-cpu"}} ELSE {{}},
         saved : CASE d = Twice -> {{}, Older}
                   [] d = Single -> {{}, {Old(0, "exact", <<"old", 1>>, 0, 2)}}
                   [] OTHER -> {{}}]]
=====
