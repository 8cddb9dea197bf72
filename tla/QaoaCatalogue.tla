---------------------------- MODULE QaoaCatalogue ----------------------------
(***************************************************************************)
(* Small problems of every family for model checking.                      *)
(***************************************************************************)
EXTENDS QaoaProblems

CONSTANTS A, B, C, D, E   \* nodes, tasks, resources, candidates

WeightedEdges(nodes, weights) == UNION {[edges -> weights] : edges \in SUBSET Pairs(nodes)}

SmallCuts ==
    {[family |-> "maxcut", sense |-> "maximize", nodes |-> {A, B, C}, weight |-> w] :
        w \in WeightedEdges({A, B, C}, 1..2)}

\* One node more than the simulator of the runs takes.
LargeCut ==
    {[family |-> "maxcut", sense |-> "maximize", nodes |-> {A, B, C, D, E},
      weight |-> [e \in {{A, B}} |-> 1]]}

BothSenses == {"maximize", "minimize"}

TaskProblems(senses, tasks, resources, scores, demands, prohibitions, capacities) ==
    {[family |-> "assignment", sense |-> sense, tasks |-> tasks, resources |-> resources,
      score |-> score, demand |-> demand, prohibited |-> prohibited, capacity |-> capacity] :
        sense \in senses, score \in [tasks \X resources -> scores],
        demand \in [tasks -> demands], prohibited \in prohibitions,
        capacity \in [resources -> capacities]}

\* Some of these have no feasible solution, some no allowed pair to spare.
OneTask   == TaskProblems(BothSenses, {A}, {B, C, D}, {-2, 2}, {1, 2}, {{}, {<<A, B>>}}, {None})
TwoTasks  == TaskProblems({"maximize"}, {A, B}, {C, D}, {-1, 2}, {1}, {{<<A, C>>}}, {None})
Capacious == TaskProblems({"maximize"}, {A}, {B, C}, {1}, {1}, {{}}, {0, 1, None})

SubsetProblems(scores, interactions, budgets, minima, maxima) ==
    {[family |-> "subset-selection", sense |-> sense, candidates |-> {A, B, C},
      score |-> score, cost |-> [c \in {A, B, C} |-> 1], interaction |-> interaction,
      budget |-> budget, minimum |-> minimum, maximum |-> maximum] :
        sense \in BothSenses, score \in [{A, B, C} -> scores],
        interaction \in interactions, budget \in budgets,
        minimum \in minima, maximum \in maxima}

Interactions == WeightedEdges({A, B}, {-3, 2})
UnboundedSubsets  == SubsetProblems({-1, 2}, Interactions, {None}, {None}, {None})
BoundedSubsets == SubsetProblems({1}, {<<>>}, {2, None}, {1, None}, {1, None})

Bisections(bounds) ==
    {[family |-> "graph-partition", sense |-> "minimize", nodes |-> {A, B, C},
      weight |-> w, parts |-> {0, 1}, minimum |-> bound, maximum |-> None] :
        w \in WeightedEdges({A, B, C}, 1..2), bound \in bounds}

Enumerated(S) == FoldSet(LAMBDA p, docs : Append(docs, p), <<>>, {p \in S : WellFormed(p)})

\* The documents, numbered, and what the search reads of the admitted ones: both
\* are computed once.
Catalogue ==
    Enumerated(SmallCuts \cup LargeCut) \o Enumerated(OneTask)
    \o Enumerated(TwoTasks \cup Capacious) \o Enumerated(UnboundedSubsets)
    \o Enumerated(BoundedSubsets) \o Enumerated(Bisections({None, 1}))

MCInputs     == DOMAIN Catalogue
MCDocument(id) == Catalogue[id]

Judgement ==
    [id \in MCInputs |->
        IF Admissible(id)
        THEN [x \in Solutions(Catalogue[id]) |->
                 [meets  |-> Feasible(Catalogue[id], x),
                  value  |-> Value(Catalogue[id], x),
                  energy |-> LoweredEnergy(id, x)]]
        ELSE <<>>]

MCMeets(id, x)     == Judgement[id][x].meets
MCObjective(id, x) == Judgement[id][x].value
MCEnergy(id, x)    == Judgement[id][x].energy
=============================================================================
