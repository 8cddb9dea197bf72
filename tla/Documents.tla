------------------------------ MODULE Documents ------------------------------
(***************************************************************************)
(* Where problems come from and what is written about them                 *)
(* (problems/*.py): the generators, the constructors from explicit data,   *)
(* the identity of a problem, its document and the loading of a document.  *)
(*                                                                         *)
(* An instance is a problem object of the process.  It keeps what the      *)
(* identity is sensitive to besides the mathematics: the numbers of which  *)
(* fields are Python integers, so that JSON has 5 and not 5.0, and the     *)
(* edges of a partition whose second end sorts before the first.  A digest *)
(* is modelled by the payload it is taken of.                              *)
(***************************************************************************)
EXTENDS Families, Sequences

CONSTANTS
    Scores, Costs, Weights,   \* what the random numbers of a generator may be
    Refused                   \* ValidationError

\* Seeded bug: the identity forgets an optional bound.
SubsetIdentityWithoutMaximum(p) ==
    <<p.candidates, p.score, p.cost, p.budget, p.minimum, p.interaction, p.sense>>

CutIdentity(p) == <<p.nodes, p.weight>>

AssignmentIdentity(p) ==
    <<p.tasks, p.resources, p.score, p.prohibited, p.capacity, p.demand, p.sense>>

SubsetIdentity(p) ==
    <<p.candidates, p.score, p.cost, p.budget, p.minimum, p.maximum, p.interaction, p.sense>>

PartitionIdentity(p) == <<p.nodes, p.weight, Cardinality(p.parts), p.minimum, p.maximum, p.sense>>

\* content_id of identity_payload: integers and turned edges look different in JSON.
Identity(p, integers, turned) ==
    <<p.family, integers, turned,
      CASE p.family = "maxcut"           -> CutIdentity(p)
        [] p.family = "assignment"       -> AssignmentIdentity(p)
        [] p.family = "subset-selection" -> SubsetIdentity(p)
        [] p.family = "graph-partition"  -> PartitionIdentity(p)>>

\* What cls(...) makes of its arguments: one instance, or none.
Instances(p, integers) ==
    IF WellFormed(p)
    THEN {[data |-> p, integers |-> integers, turned |-> {},
           problem_id |-> Identity(p, integers, {})]}
    ELSE {}

-----------------------------------------------------------------------------
(* The generators.  A recipe holds the parameters of one of them.            *)

\* What is drawn with a probability of 0, 1 or something between.
Drawn(S, probability) ==
    CASE probability = "0"       -> {{}}
      [] probability = "1"       -> {S}
      [] probability = "between" -> SUBSET S

Cut(nodes, weight) ==
    [family |-> "maxcut", sense |-> "maximize", nodes |-> nodes, weight |-> weight]

Partition(nodes, weight, parts, minimum, maximum) ==
    [family |-> "graph-partition", sense |-> "minimize", nodes |-> nodes, weight |-> weight,
     parts |-> parts, minimum |-> minimum, maximum |-> maximum]

Assignment(sense, tasks, resources, score, demand, prohibited, capacity) ==
    [family |-> "assignment", sense |-> sense, tasks |-> tasks, resources |-> resources,
     score |-> score, demand |-> demand, prohibited |-> prohibited, capacity |-> capacity]

Selection(sense, candidates, score, cost, interaction, budget, minimum, maximum) ==
    [family |-> "subset-selection", sense |-> sense, candidates |-> candidates, score |-> score,
     cost |-> cost, interaction |-> interaction, budget |-> budget,
     minimum |-> minimum, maximum |-> maximum]

Places(count) == 0 .. count - 1

GeneratedCuts(r) ==
    UNION {Instances(Cut(Places(r.size), [e \in edges |-> 1]), {}) :
              edges \in Drawn(Pairs(Places(r.size)), r.probability)}

AtLeastOne(n) == IF n < 1 THEN 1 ELSE n

GeneratedAssignments(r) ==
    LET all == Places(r.size) \X Places(r.resources)
        capacity == IF r.capacity = None THEN None ELSE AtLeastOne(r.capacity)
    IN  UNION {Instances(Assignment(r.sense, Places(r.size), Places(r.resources), score,
                                    [t \in Places(r.size) |-> AtLeastOne(r.demand)], prohibited,
                                    [k \in Places(r.resources) |-> capacity]), {}) :
                 score \in [all -> Scores], prohibited \in Drawn(all, r.probability)}

\* The budget is taken as it is: the JSON of a campaign may have an integer.
GeneratedSubsets(r) ==
    LET interactions == UNION {[drawn -> Scores] :
                                 drawn \in Drawn(Pairs(Places(r.size)), r.probability)}
    IN  UNION {Instances(Selection(r.sense, Places(r.size), score, cost, interaction,
                                   r.budget, r.minimum, r.maximum), r.integers) :
                 score \in [Places(r.size) -> Scores], cost \in [Places(r.size) -> Costs],
                 interaction \in interactions}

GeneratedPartitions(r) ==
    IF r.parts > r.size THEN {}
    ELSE UNION {UNION {Instances(Partition(Places(r.size), weight, Places(r.parts),
                                           r.minimum, r.maximum), {}) :
                         weight \in [edges -> Weights]} :
                  edges \in Drawn(Pairs(Places(r.size)), r.probability)}

Generated(r) ==
    CASE r.family = "maxcut"           -> GeneratedCuts(r)
      [] r.family = "assignment"       -> GeneratedAssignments(r)
      [] r.family = "subset-selection" -> GeneratedSubsets(r)
      [] r.family = "graph-partition"  -> GeneratedPartitions(r)

-----------------------------------------------------------------------------
(* The constructors from explicit data.                                      *)

Ends(edge) == {edge[1], edge[2]}

\* An edge without a weight has weight 1.
WeightOf(edge) == IF Len(edge) = 3 THEN edge[3] ELSE 1

Distinct(edges) ==
    \A i, j \in DOMAIN edges : Ends(edges[i]) = Ends(edges[j]) => i = j

\* Both from_edges sort the ends of an edge and convert its weight.
WeightsOf(edges) ==
    [e \in {Ends(edges[i]) : i \in DOMAIN edges} |->
        WeightOf(edges[CHOOSE i \in DOMAIN edges : Ends(edges[i]) = e])]

CutsFromEdges(nodes, edges) ==
    IF Distinct(edges) THEN Instances(Cut(nodes, WeightsOf(edges)), {}) ELSE {}

PartitionsFromEdges(nodes, edges, parts, minimum, maximum) ==
    IF Distinct(edges)
    THEN Instances(Partition(nodes, WeightsOf(edges), parts, minimum, maximum), {})
    ELSE {}

\* What is missing in a table of capacities or demands.
Filled(table, S, default) == [x \in S |-> IF x \in DOMAIN table THEN table[x] ELSE default]

AssignmentsFromScores(p, integers) ==
    Instances([p EXCEPT !.capacity = Filled(@, p.resources, None),
                        !.demand = Filled(@, p.tasks, 1)], integers)

SubsetsFromData(p, integers) ==
    Instances([p EXCEPT !.cost = IF @ = None THEN Filled(<<>>, p.candidates, 1) ELSE @],
              integers)

-----------------------------------------------------------------------------
(* Documents.                                                                *)

\* to_dict, and the digest as its name.
ToDocument(i) ==
    [schema_version |-> 1, problem_id |-> i.problem_id,
     data |-> i.data, integers |-> i.integers, turned |-> i.turned]

\* from_dict converts numbers to float, so that none is an integer any more; a
\* partition is minimized whatever its document says.
Converted(d) ==
    IF d.data.family = "graph-partition" THEN [d.data EXCEPT !.sense = "minimize"] ELSE d.data

Acceptable(d) ==
    /\ d.schema_version = 1
    /\ WellFormed(Converted(d))
    /\ d.data.family # "graph-partition" => d.turned = {}
    /\ d.problem_id = Identity(Converted(d), {}, d.turned)

\* problem_from_dict of a document.
Loaded(d) ==
    IF Acceptable(d)
    THEN [data |-> Converted(d), integers |-> {}, turned |-> d.turned, problem_id |-> d.problem_id]
    ELSE Refused

-----------------------------------------------------------------------------
(* Problem objects.                                                          *)

\* The parts of a partition are the numbers below their count.
Canonical(p) ==
    CASE p.family = "maxcut" -> p = Cut(p.nodes, p.weight)
      [] p.family = "assignment" ->
            p = Assignment(p.sense, p.tasks, p.resources, p.score, p.demand, p.prohibited,
                           p.capacity)
      [] p.family = "subset-selection" ->
            p = Selection(p.sense, p.candidates, p.score, p.cost, p.interaction,
                          p.budget, p.minimum, p.maximum)
      [] p.family = "graph-partition" ->
            /\ p = Partition(p.nodes, p.weight, p.parts, p.minimum, p.maximum)
            /\ p.parts = Places(Cardinality(p.parts))

\* A problem object, however it was made: its data are validated, and its name is
\* its identity.
IsInstance(i) ==
    /\ i = [data |-> i.data, integers |-> i.integers, turned |-> i.turned,
            problem_id |-> Identity(i.data, i.integers, i.turned)]
    /\ i.data.family \in {"maxcut", "assignment", "subset-selection", "graph-partition"}
    /\ Canonical(i.data)
    /\ WellFormed(i.data)
    /\ i.data.family # "graph-partition" => i.turned = {}
=============================================================================
