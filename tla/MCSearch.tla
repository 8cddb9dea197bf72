------------------------------ MODULE MCSearch ------------------------------
(***************************************************************************)
(* Small problems of every family for the classical solvers: generated,    *)
(* built from data, and loaded from documents that were written by the     *)
(* program or by hand.                                                     *)
(***************************************************************************)
EXTENDS RunOne, SequencesExt

Weighted(nodes, weights) == UNION {[edges -> weights] : edges \in SUBSET Pairs(nodes)}

MCScores == {-1, 2}

Senses == {"maximize", "minimize"}

\* A table of weights as a list of edges, the larger end first.
Listed(weight) == SetToSeq({<<Max(e), Min(e), weight[e]>> : e \in DOMAIN weight})

Square == <<<<0, 1, 2>>, <<1, 2>>, <<2, 3>>, <<3, 0>>>>

\* Among them a list with an edge twice, a loop, and an edge out of range.
MaxCuts ==
    UNION {CutsFromEdges(0..2, Listed(w)) : w \in Weighted(0..2, 1..2)}
    \cup CutsFromEdges(0..3, Square)
    \cup UNION {CutsFromEdges(0..2, edges) :
                  edges \in {<<<<0, 1>>, <<1, 0>>>>, <<<<1, 1>>>>, <<<<2, 3>>>>}}

\* Two tasks and two resources, with room for both, for one or for none, and
\* with a pair that is prohibited.
Assignments ==
    UNION {AssignmentsFromScores(
             [family |-> "assignment", sense |-> sense, tasks |-> 0..1, resources |-> 0..1,
              score |-> score, demand |-> demand, prohibited |-> prohibited,
              capacity |-> capacity], {}) :
        sense \in Senses, score \in [{<<0, 0>>, <<1, 1>>} -> {-1, 2}],
        demand \in {<<>>, [t \in {1} |-> 2]},
        prohibited \in {{}, {<<0, 0>>}},
        capacity \in {<<>>, [r \in 0..1 |-> r + 1]}}

\* One task that swaps among three resources, scored with floats or integers.
SingleTasks ==
    UNION {AssignmentsFromScores(
             [family |-> "assignment", sense |-> sense, tasks |-> {0}, resources |-> 0..2,
              score |-> [k \in {0} \X (0..2) |-> k[2]], demand |-> <<>>,
              prohibited |-> {}, capacity |-> <<>>], integers) :
        sense \in Senses, integers \in {{}, {"score"}}}

Subsets ==
    UNION {SubsetsFromData(
             [family |-> "subset-selection", sense |-> sense, candidates |-> 0..2,
              score |-> score, cost |-> [c \in 0..2 |-> c], interaction |-> interaction,
              budget |-> bounds[1], minimum |-> bounds[2], maximum |-> bounds[3]], {}) :
        sense \in Senses, score \in [0..2 -> {-1, 2}],
        interaction \in {<<>>, [e \in {{0, 1}} |-> -3]},
        bounds \in {<<None, None, None>>, <<2, None, None>>, <<None, 1, 2>>, <<0, 2, None>>}}

Partitions ==
    UNION {PartitionsFromEdges(0..2, Listed(w), 0..1, bounds[1], bounds[2]) :
        w \in Weighted(0..2, {1}), bounds \in {<<None, None>>, <<1, None>>, <<None, 2>>}}
    \cup PartitionsFromEdges(0..1, <<<<0, 1>>>>, 0..2, None, None)

Explicit == MaxCuts \cup Assignments \cup SingleTasks \cup Subsets \cup Partitions

\* Recipes, some of which no problem comes from.
Recipes ==
    {[family |-> "maxcut", size |-> n, probability |-> q] : n \in {0, 2}, q \in {"0", "1"}}
    \cup
    {[family |-> "assignment", size |-> 1, resources |-> 2, capacity |-> capacity,
      demand |-> demand, probability |-> "between", sense |-> "minimize"] :
        capacity \in {None, 0}, demand \in {0, 2}}
    \cup
    {[family |-> "subset-selection", size |-> 2, budget |-> bounds[1], minimum |-> bounds[2],
      maximum |-> bounds[3], integers |-> bounds[4], probability |-> "between",
      sense |-> "maximize"] :
        bounds \in {<<2, None, 1, {}>>, <<2, None, 1, {"budget"}>>, <<None, 2, 1, {}>>}}
    \cup
    {[family |-> "graph-partition", size |-> 2, parts |-> parts, minimum |-> 1,
      maximum |-> None, probability |-> "between"] : parts \in 2..3}

Made == Explicit \cup UNION {Generated(r) : r \in Recipes}

\* Documents the program wrote, as they are and with a field changed by hand.
Changed(d) ==
    {[d EXCEPT !.schema_version = 2]}
    \cup {[d EXCEPT !.data.sense = sense] : sense \in Senses}
    \cup (IF d.data.family \in {"subset-selection", "graph-partition"}
          THEN {[d EXCEPT !.data.maximum = bound] : bound \in {None, 2}} ELSE {})

Written == {ToDocument(i) : i \in Made}

\* A partition whose edges are written by hand, in the other direction.
ByHand ==
    {[schema_version |-> 1, data |-> i.data, integers |-> {}, turned |-> DOMAIN i.data.weight,
      problem_id |-> Identity(i.data, {}, DOMAIN i.data.weight)] :
        i \in {j \in Partitions : j.data.minimum = 1}}

Read == {Loaded(d) : d \in Written \cup UNION {Changed(d) : d \in Written} \cup ByHand}

MCSources == {i \in Made \cup Read : i # Refused}

MCProblems == {i.data : i \in MCSources}
=============================================================================
