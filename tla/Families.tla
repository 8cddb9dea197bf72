------------------------------ MODULE Families ------------------------------
(***************************************************************************)
(* The four problem families: which documents are well-formed, which       *)
(* solutions are feasible, and what they are worth.                        *)
(*                                                                         *)
(* A problem is a record whose fields are those of its family; a solution  *)
(* is the set of binary variables that are 1.  A variable of a family with *)
(* a one-hot encoding is the pair it stands for, where the code writes the *)
(* pair into a name.                                                       *)
(***************************************************************************)
EXTENDS Integers, FiniteSets, FiniteSetsExt

CONSTANT None   \* an optional bound that is not given

Pairs(S) == {{a, b} : a, b \in S} \ {{a} : a \in S}

\* The sum of the values of f on S, and of all its values.
SumOver(f, S) == MapThenSumSet(LAMBDA k : f[k], S)

Total(f) == SumOver(f, DOMAIN f)

Within(n, low, high) == (low # None => n >= low) /\ (high # None => n <= high)

WellFormedCut(p) ==
    /\ p.sense = "maximize"
    /\ p.nodes # {}
    /\ \A e \in DOMAIN p.weight : e \in Pairs(p.nodes) /\ p.weight[e] > 0

TotalDemand(p) == Total(p.demand)

FiniteCapacities(p) == {r \in p.resources : p.capacity[r] # None}

WellFormedAssignment(p) ==
    /\ p.tasks # {} /\ p.resources # {}
    /\ \A t \in p.tasks : p.demand[t] >= 1
    /\ \A r \in FiniteCapacities(p) : p.capacity[r] >= 0
    /\ DOMAIN p.score \cup p.prohibited \subseteq p.tasks \X p.resources
    /\ FiniteCapacities(p) # {} =>
          TotalDemand(p) <= SumOver(p.capacity, FiniteCapacities(p))

WellFormedSubset(p) ==
    /\ p.candidates # {}
    /\ DOMAIN p.score = p.candidates /\ DOMAIN p.cost = p.candidates
    /\ \A c \in p.candidates : p.cost[c] >= 0
    /\ DOMAIN p.interaction \subseteq Pairs(p.candidates)
    /\ \A bound \in {p.budget, p.minimum, p.maximum} : Within(0, None, bound)
    /\ p.minimum # None => Within(p.minimum, None, p.maximum)
    /\ p.minimum = Cardinality(p.candidates) => Within(Total(p.cost), None, p.budget)

WellFormedPartition(p) ==
    /\ p.sense = "minimize"
    /\ p.nodes # {}
    /\ Cardinality(p.parts) >= 2
    /\ \A e \in DOMAIN p.weight : e \in Pairs(p.nodes) /\ p.weight[e] > 0
    /\ \A bound \in {p.minimum, p.maximum} : Within(0, None, bound)
    /\ p.minimum # None =>
          /\ p.minimum * Cardinality(p.parts) <= Cardinality(p.nodes)
          /\ Within(p.minimum, None, p.maximum)
    /\ p.maximum # None => p.maximum * Cardinality(p.parts) >= Cardinality(p.nodes)

WellFormed(p) ==
    CASE p.family = "maxcut"           -> WellFormedCut(p)
      [] p.family = "assignment"       -> WellFormedAssignment(p)
      [] p.family = "subset-selection" -> WellFormedSubset(p)
      [] p.family = "graph-partition"  -> WellFormedPartition(p)

Variables(p) ==
    CASE p.family = "maxcut"           -> p.nodes
      [] p.family = "assignment"       -> p.tasks \X p.resources
      [] p.family = "subset-selection" -> p.candidates
      [] p.family = "graph-partition"  -> p.nodes \X p.parts

Solutions(p) == SUBSET Variables(p)

\* The second components that the solution x pairs with a, and the first ones
\* it pairs with b: the resources of a task, the tasks of a resource.
Row(x, a) == {v[2] : v \in {w \in x : w[1] = a}}
Column(x, b) == {v[1] : v \in {w \in x : w[2] = b}}

FeasibleAssignment(p, x) ==
    /\ x \cap p.prohibited = {}
    /\ \A t \in p.tasks : Cardinality(Row(x, t)) = p.demand[t]
    /\ \A r \in p.resources : Within(Cardinality(Column(x, r)), None, p.capacity[r])

FeasibleSubset(p, x) ==
    /\ Within(Cardinality(x), p.minimum, p.maximum)
    /\ Within(SumOver(p.cost, x), None, p.budget)

FeasiblePartition(p, x) ==
    /\ \A n \in p.nodes : Cardinality(Row(x, n)) = 1
    /\ \A k \in p.parts : Within(Cardinality(Column(x, k)), p.minimum, p.maximum)

Feasible(p, x) ==
    CASE p.family = "maxcut"           -> TRUE
      [] p.family = "assignment"       -> FeasibleAssignment(p, x)
      [] p.family = "subset-selection" -> FeasibleSubset(p, x)
      [] p.family = "graph-partition"  -> FeasiblePartition(p, x)

\* The ends of an edge have different bits.
Separated(e, x) == \E u, v \in e : u \in x /\ v \notin x

\* The weight of the edges that are cut.
CutValue(p, cut) == SumOver(p.weight, cut)

ScoreValue(p, x) == SumOver(p.score, x \cap DOMAIN p.score)

InteractionValue(p, x) ==
    SumOver(p.interaction, {e \in DOMAIN p.interaction : e \subseteq x})

\* The objective that evaluate() reports for a feasible solution.
Value(p, x) ==
    CASE p.family = "maxcut" -> CutValue(p, {e \in DOMAIN p.weight : Separated(e, x)})
      [] p.family = "assignment" -> ScoreValue(p, x)
      [] p.family = "subset-selection" -> ScoreValue(p, x) + InteractionValue(p, x)
      [] p.family = "graph-partition" ->
            CutValue(p, {e \in DOMAIN p.weight :
                           \E u, v \in e : Row(x, u) # Row(x, v)})

=============================================================================
