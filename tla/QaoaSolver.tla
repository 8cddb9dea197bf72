----------------------------- MODULE QaoaSolver -----------------------------
(***************************************************************************)
(* The QAOA solvers: the shared search over problems that are lowered to a *)
(* binary quadratic model, and what the lowering, the observable and the   *)
(* circuit owe each other.                                                 *)
(***************************************************************************)
EXTENDS QaoaSearch, QaoaProblems

(***************************************************************************)
(* Properties of the lowering, stated of the problem a call is given.      *)
(***************************************************************************)
document == Document(input)

\* The energy is the objective of a feasible solution, except for a partition (see
\* PartitionEnergyIsObjective), and for every family it puts the feasible solutions
\* in the order of their objectives (lower.py:8-24).
EnergyIsObjective ==
    stage = "called" /\ Lowers(document) =>
        LET model == Lower(document)
            feasible_solutions == {x \in Solutions(document) : Feasible(document, x)}
        IN  /\ document.family # "graph-partition" =>
                  \A x \in feasible_solutions :
                     QuadraticEnergy(model, x) = Unit * Value(document, x)
            /\ \A x, y \in feasible_solutions :
                  QuadraticEnergy(model, x) < QuadraticEnergy(model, y)
                     <=> Value(document, x) < Value(document, y)

\* The comment in _graph_partition_lower (lower.py:293-294): "BQM energy equals
\* source objective (minimize cut)."
PartitionEnergyIsObjective ==
    stage = "called" /\ Lowers(document) /\ document.family = "graph-partition" =>
        \A x \in Solutions(document) : Feasible(document, x) =>
           QuadraticEnergy(Lower(document), x) = Unit * Value(document, x)

\* The penalties are large enough: when a problem has a feasible solution, every
\* state of best energy is one.
OptimumIsFeasible ==
    stage = "called" /\ Lowers(document) =>
        LET model == Lower(document)
            energy == [x \in Solutions(document) |-> QuadraticEnergy(model, x)]
            IsOptimum(x) == \A y \in Solutions(document) : ~Surpasses(energy[y], energy[x])
        IN  (\E x \in Solutions(document) : Feasible(document, x)) =>
               \A x \in Solutions(document) : IsOptimum(x) => Feasible(document, x)

\* The conversion to spins is exact: the observable the CUDA-Q backend measures,
\* with its constant, gives every basis state the energy that the Qiskit backend
\* computes from the bits.
HamiltonianIsEnergy ==
    stage = "called" /\ Lowers(document) =>
        LET model == Lower(document)
            observable == Hamiltonian(model)
        IN  \A x \in Solutions(document) : Observed(observable, x) = QuadraticEnergy(model, x)

\* The comment in build_circuit (qiskit_qaoa.py:64-66): the cost layer equals
\* exp(-i gamma C) up to a global phase, so that states of equal energy turn by
\* equal phases.
CostLayerIsCost ==
    stage = "called" /\ Lowers(document) =>
        LET model == Lower(document)
        IN  \A x, y \in Solutions(document) :
               QuadraticEnergy(model, x) = QuadraticEnergy(model, y) =>
                   CircuitPhase(model, x) = CircuitPhase(model, y)
=============================================================================
