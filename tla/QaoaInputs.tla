----------------------------- MODULE QaoaInputs -----------------------------
(***************************************************************************)
(* What a QAOA solver may be given and its backend may answer: the         *)
(* parameters of QaoaSearch, which knows nothing else of a problem.        *)
(***************************************************************************)
EXTENDS Integers, Sequences, FiniteSets, Functions

CONSTANTS
    Inputs,             \* the problems a solver may be given
    Bits(_),            \* the basis states of a problem
    Maximizes(_),       \* the sense of a problem
    Accepted(_),        \* family supported, lowered, within the simulator's limit
    Meets(_, _),        \* a basis state decodes to a feasible solution
    Objective(_, _),    \* ... and the objective of that solution
    Energy(_, _),       \* the energy of a basis state in the lowered model
    TrialCounts, ShotCounts,
    Expectations,       \* the numbers the backend may answer
    NotANumber,         \* an infinite or undefined expectation
    Unset               \* a value that is not there yet

ASSUME SearchAssumption ==
    /\ TrialCounts \subseteq Nat /\ ShotCounts \subseteq Nat
    /\ Expectations \subseteq Int /\ NotANumber \notin Int /\ Unset \notin Nat
    /\ \A p \in Inputs :
          /\ Maximizes(p) \in BOOLEAN
          /\ Accepted(p) \in BOOLEAN
          /\ Unset \notin Bits(p)
          /\ Accepted(p) => \A x \in Bits(p) : /\ Meets(p, x) \in BOOLEAN
                                               /\ Objective(p, x) \in Int
                                               /\ Energy(p, x) \in Int
=============================================================================
