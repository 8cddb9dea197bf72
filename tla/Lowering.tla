------------------------------ MODULE Lowering ------------------------------
(***************************************************************************)
(* The lowering of the problem families to a binary quadratic model (QUBO) *)
(* that the quantum backends consume, and their view of that model.        *)
(*                                                                         *)
(* Coefficients are in quarters (Unit), so that the penalty margin of one  *)
(* half and the divisions by four of the conversion to spins are exact.    *)
(***************************************************************************)
EXTENDS Families

Unit == 4

Abs(n) == IF n < 0 THEN -n ELSE n

(***************************************************************************)
(* The binary quadratic model.                                             *)
(***************************************************************************)
QuadraticEnergy(b, x) ==
    b.offset + SumOver(b.linear, x) + SumOver(b.quadratic, Pairs(x))

\* The model of a weighted cut: an edge whose ends have different bits
\* contributes its weight.
CutModel(vars, weight) ==
    [linear    |-> [v \in vars |-> Unit * SumOver(weight, {e \in DOMAIN weight : v \in e})],
     quadratic |-> [e \in Pairs(vars) |->
                       IF e \in DOMAIN weight THEN -2 * Unit * weight[e] ELSE 0],
     offset    |-> 0]

\* The model of separate scores and of scores of pairs.
ScoreModel(vars, score, interaction) ==
    [linear    |-> [v \in vars |-> IF v \in DOMAIN score THEN Unit * score[v] ELSE 0],
     quadratic |-> [e \in Pairs(vars) |->
                       IF e \in DOMAIN interaction THEN Unit * interaction[e] ELSE 0],
     offset    |-> 0]

\* Seeded bug: the constant of the square is dropped.
AddWithoutConstant(b, force, target) ==
    LET groups == DOMAIN target
    IN  [linear    |-> [v \in DOMAIN b.linear |-> b.linear[v] +
                           force * SumOver([g \in groups |-> 1 - 2 * target[g]],
                                           {g \in groups : v \in g})],
         quadratic |-> [e \in DOMAIN b.quadratic |->
                           b.quadratic[e] + 2 * force * Cardinality({g \in groups : e \subseteq g})],
         offset    |-> b.offset]

\* b plus force * (|x \cap g| - target[g])^2 for every group g of variables.
AddSquaredConstraints(b, force, target) ==
    LET groups == DOMAIN target
    IN  [linear    |-> [v \in DOMAIN b.linear |-> b.linear[v] +
                           force * SumOver([g \in groups |-> 1 - 2 * target[g]],
                                           {g \in groups : v \in g})],
         quadratic |-> [e \in DOMAIN b.quadratic |->
                           b.quadratic[e] + 2 * force * Cardinality({g \in groups : e \subseteq g})],
         offset    |-> b.offset + force * Total([g \in groups |-> target[g] * target[g]])]

\* Seeded bug: penalties are added whatever the sense.
AlwaysAdded(p) == 1

PenaltySign(p) == IF p.sense = "minimize" THEN 1 ELSE -1

LargestScore(p) == Max({0} \cup {Abs(p.score[v]) : v \in DOMAIN p.score})

AssignmentPenalty(p) ==
    Unit * Max({1, 2 * Cardinality(p.tasks) * LargestScore(p) + 1})

\* Seeded bug: a prohibited pair costs no more than the pair it could replace.
ProhibitedByScore(p) == Unit * LargestScore(p)

ProhibitedPenalty(p) == 2 * Unit * LargestScore(p) + AssignmentPenalty(p)

AssignmentModel(p) ==
    LET vars == Variables(p)
        groups == {{t} \X p.resources : t \in p.tasks}
        Demand(g) == p.demand[(CHOOSE v \in g : TRUE)[1]]
        model == AddSquaredConstraints(ScoreModel(vars, p.score, <<>>),
                                       PenaltySign(p) * AssignmentPenalty(p),
                                       [g \in groups |-> Demand(g)])
    IN  [model EXCEPT !.linear = [v \in vars |-> @[v] +
            IF v \in p.prohibited THEN PenaltySign(p) * ProhibitedPenalty(p) ELSE 0]]

LargestIncidence(p) ==
    Max({SumOver(p.weight, {e \in DOMAIN p.weight : n \in e}) : n \in p.nodes})

PartitionPenalty(p) == Max({Unit, 2 * Unit * LargestIncidence(p) + Unit \div 2})

\* An edge of the graph gives one edge between the bits of each part.
PartitionModel(p) ==
    LET Lifted(e, k) == {<<n, k>> : n \in e}
        lifted == {Lifted(e, k) : e \in DOMAIN p.weight, k \in p.parts}
        edges == [l \in lifted |-> p.weight[{v[1] : v \in l}]]
        cut == CutModel(Variables(p), edges)
        groups == {{n} \X p.parts : n \in p.nodes}
    IN  AddSquaredConstraints([cut EXCEPT !.offset = Unit * Total(p.weight)],
                              PenaltySign(p) * PartitionPenalty(p),
                              [g \in groups |-> 1])

\* The inequality constraints that have no lowering.
Lowers(p) ==
    CASE p.family = "maxcut"           -> TRUE
      [] p.family = "assignment"       -> FiniteCapacities(p) = {}
      [] p.family = "subset-selection" -> {p.budget, p.minimum, p.maximum} = {None}
      [] p.family = "graph-partition"  -> {p.minimum, p.maximum} = {None}

Lower(p) ==
    CASE p.family = "maxcut"           -> CutModel(p.nodes, p.weight)
      [] p.family = "assignment"       -> AssignmentModel(p)
      [] p.family = "subset-selection" -> ScoreModel(p.candidates, p.score, p.interaction)
      [] p.family = "graph-partition"  -> PartitionModel(p)

(***************************************************************************)
(* The quantum backends' view of a model: spins +1 (bit 0) and -1 (bit 1). *)
(***************************************************************************)
Spin(x, v) == IF v \in x THEN -1 ELSE 1

SpinPair(x, e) == LET v == CHOOSE u \in e : TRUE
                  IN  Spin(x, v) * Spin(x, CHOOSE u \in e : u # v)

Halves(b) == [v \in DOMAIN b.linear |-> b.linear[v] \div 2]
Quarters(b) == [e \in DOMAIN b.quadratic |-> b.quadratic[e] \div 4]

\* Seeded bug: the spins' fields leave out the share of the quadratic terms.
HamiltonianWithoutShare(b) ==
    [field    |-> [v \in DOMAIN b.linear |-> -Halves(b)[v]],
     coupling |-> Quarters(b),
     constant |-> b.offset + Total(Halves(b)) + Total(Quarters(b))]

\* The coefficients of the CUDA-Q observable, in quarters.
Hamiltonian(b) ==
    [field    |-> [v \in DOMAIN b.linear |-> -Halves(b)[v] -
                      SumOver(Quarters(b), {e \in DOMAIN b.quadratic : v \in e})],
     coupling |-> Quarters(b),
     constant |-> b.offset + Total(Halves(b)) + Total(Quarters(b))]

\* What coefficients of spins and of pairs of spins give for a basis state.
OfSpins(field, coupling, x) ==
    Total([v \in DOMAIN field |-> field[v] * Spin(x, v)])
    + Total([e \in DOMAIN coupling |-> coupling[e] * SpinPair(x, e)])

\* What the observable, with the constant added, gives for a basis state.
Observed(h, x) == h.constant + OfSpins(h.field, h.coupling, x)

\* The phase, per unit of the layer's gamma, that the cost layer of the circuit
\* gives a basis state: RZ(t) turns spin s by -t*s/2, RZZ(t) turns a pair by
\* -t*s*s'/2, and the angles are -gamma times the model's coefficients.
CircuitPhase(b, x) == OfSpins(b.linear, b.quadratic, x) \div 2

=============================================================================
