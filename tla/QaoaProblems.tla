---------------------------- MODULE QaoaProblems ----------------------------
(***************************************************************************)
(* The problems of a QAOA solver: a document of any family, lowered to a   *)
(* binary quadratic model.  A configuration binds the parameters of        *)
(* QaoaInputs to the definitions of this module.                           *)
(***************************************************************************)
EXTENDS QaoaInputs, Lowering

CONSTANTS
    Document(_),    \* the document of a problem identifier
    MaxVariables    \* of the statevector simulators

SupportedFamilies == {"maxcut", "assignment", "subset-selection"}

Maximizing(p) == Document(p).sense = "maximize"

Admissible(p) ==
    /\ Document(p).family \in SupportedFamilies
    /\ Lowers(Document(p))
    /\ Cardinality(Variables(Document(p))) <= MaxVariables

\* As an enumerated set, which TLC can compare with Unset.
BasisStates(p) == {x : x \in Solutions(Document(p))}

LoweredEnergy(p, x) == QuadraticEnergy(Lower(Document(p)), x)

\* A validated problem: finitely many names, and numbers for coefficients.
Numbers(f) == f \in [DOMAIN f -> Int]

Validated(d) ==
    /\ d.family \in {"maxcut", "assignment", "subset-selection", "graph-partition"}
    /\ d.sense \in {"maximize", "minimize"}
    /\ WellFormed(d)
    /\ IsFiniteSet(Variables(d))
    /\ d.family \in {"maxcut", "graph-partition"} => Numbers(d.weight)
    /\ d.family = "graph-partition" => IsFiniteSet(d.nodes) /\ IsFiniteSet(d.parts)
    /\ d.family \in {"assignment", "subset-selection"} => Numbers(d.score)
    /\ d.family = "assignment" =>
          /\ IsFiniteSet(d.tasks) /\ IsFiniteSet(d.resources)
          /\ Numbers(d.demand) /\ DOMAIN d.demand = d.tasks
    /\ d.family = "subset-selection" => Numbers(d.interaction)

ASSUME DocumentAssumption == \A p \in Inputs : Validated(Document(p))

\* The parameters of the search are bound to the definitions above.
ASSUME BindingAssumption ==
    \A p \in Inputs :
        /\ Bits(p) = BasisStates(p)
        /\ Maximizes(p) = Maximizing(p)
        /\ Accepted(p) = Admissible(p)
        /\ Accepted(p) => \A x \in Bits(p) :
              /\ Meets(p, x) = Feasible(Document(p), x)
              /\ Objective(p, x) = Value(Document(p), x)
              /\ Energy(p, x) = LoweredEnergy(p, x)
=============================================================================
