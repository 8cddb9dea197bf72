----------------------------- MODULE QaoaSearch -----------------------------
(***************************************************************************)
(* One call of a QAOA solver: refuse what cannot be lowered or simulated,  *)
(* evaluate every candidate parameter vector on the backend, sample the    *)
(* circuit of the best one, and report the best feasible sample.           *)
(*                                                                         *)
(* The backend is external: it answers every expectation and every draw as *)
(* it likes, may answer a value that is not a number, or no samples at     *)
(* all, or raise.  The problem and its surrogate energy are parameters.    *)
(***************************************************************************)
EXTENDS QaoaInputs

Calls == [trials : TrialCounts, shots : ShotCounts, warmup : BOOLEAN]

VARIABLES
    input, call,        \* the problem and the settings of the call
    stage,              \* where the call stands
    warmed,             \* the warm-up evaluation is done
    expectations,       \* the expectations of the candidates so far
    candidate,          \* the index of the chosen candidate
    counts,             \* how often each basis state was sampled
    pending,            \* the sampled states that are still to be judged
    feasible,           \* the best feasible sample so far
    infeasible,         \* the infeasible sample of least energy so far
    judged,             \* how many feasible and infeasible draws were seen
    answer              \* what the call returns

qaoaVars == <<input, call, stage, warmed, expectations, candidate, counts, pending,
              feasible, infeasible, judged, answer>>

given     == <<input, call>>
search    == <<warmed, expectations, candidate>>
selection == <<pending, feasible, infeasible, judged>>

NoDraws == [feasible |-> 0, infeasible |-> 0]

NoAnswer == [status |-> Unset, solution |-> Unset, objective |-> Unset]

Surpasses(a, b) == IF Maximizes(input) THEN a > b ELSE a < b

QaoaInit ==
    /\ input \in Inputs
    /\ call \in Calls
    /\ stage = "called"
    /\ warmed = FALSE
    /\ expectations = <<>>
    /\ candidate = Unset
    /\ counts = <<>>
    /\ pending = {}
    /\ feasible = Unset
    /\ infeasible = Unset
    /\ judged = NoDraws
    /\ answer = NoAnswer

Executable == Accepted(input) /\ call.trials >= 1 /\ call.shots >= 1

StartSearch ==
    /\ stage = "called"
    /\ Executable
    /\ stage' = "search"
    /\ UNCHANGED <<given, search, counts, selection, answer>>

\* A call ends without a result.
Raise ==
    /\ stage' = "raised"
    /\ UNCHANGED <<given, search, counts, selection, answer>>

RefuseCall == stage = "called" /\ ~Executable /\ Raise

\* The backend is missing, raises, or returns no samples.
BackendFails == stage \in {"called", "search", "sample"} /\ Executable /\ Raise

Warm ==
    /\ stage = "search"
    /\ call.warmup /\ ~warmed
    /\ warmed' = TRUE
    /\ UNCHANGED <<given, stage, expectations, candidate, counts, selection, answer>>

\* Only a finite expectation is kept.
Evaluate ==
    /\ stage = "search"
    /\ call.warmup => warmed
    /\ Len(expectations) < call.trials
    /\ \E e \in Expectations \cup {NotANumber} :
          \/ /\ e # NotANumber
             /\ expectations' = Append(expectations, e)
             /\ UNCHANGED <<given, stage, warmed, candidate, counts, selection, answer>>
          \/ e = NotANumber /\ Raise

\* The first of the best candidates, in the sense of the problem.
IsBestIndex(i) ==
    \A j \in DOMAIN expectations \ {i} :
        \/ Surpasses(expectations[i], expectations[j])
        \/ expectations[i] = expectations[j] /\ i < j

Choose ==
    /\ stage = "search"
    /\ call.trials = Len(expectations)
    /\ \E i \in DOMAIN expectations : IsBestIndex(i) /\ candidate' = i
    /\ stage' = "sample"
    /\ UNCHANGED <<given, warmed, expectations, counts, selection, answer>>

Tally(draws) ==
    [x \in Range(draws) |-> Cardinality({i \in DOMAIN draws : draws[i] = x})]

Sample ==
    /\ stage = "sample"
    /\ \E draws \in [1..call.shots -> Bits(input)] : counts' = Tally(draws)
    /\ pending' = DOMAIN counts'
    /\ stage' = "judge"
    /\ UNCHANGED <<given, search, feasible, infeasible, judged, answer>>

\* Seeded bug: feasible samples are compared as if every problem maximized.
JudgeAsMaximum(x) ==
    /\ Meets(input, x)
    /\ judged' = [judged EXCEPT !.feasible = @ + counts[x]]
    /\ feasible' = IF \/ feasible = Unset
                      \/ Objective(input, x) > Objective(input, feasible)
                   THEN x ELSE feasible
    /\ UNCHANGED infeasible

JudgeFeasible(x) ==
    /\ Meets(input, x)
    /\ judged' = [judged EXCEPT !.feasible = @ + counts[x]]
    /\ feasible' = IF \/ feasible = Unset
                      \/ Surpasses(Objective(input, x), Objective(input, feasible))
                   THEN x ELSE feasible
    /\ UNCHANGED infeasible

\* Seeded bug: the last infeasible sample replaces the best one.
JudgeLatest(x) ==
    /\ ~Meets(input, x)
    /\ judged' = [judged EXCEPT !.infeasible = @ + counts[x]]
    /\ infeasible' = x
    /\ UNCHANGED feasible

JudgeInfeasible(x) ==
    /\ ~Meets(input, x)
    /\ judged' = [judged EXCEPT !.infeasible = @ + counts[x]]
    /\ infeasible' = IF \/ infeasible = Unset
                        \/ Energy(input, x) < Energy(input, infeasible)
                     THEN x ELSE infeasible
    /\ UNCHANGED feasible

\* The samples are judged in the order of a dictionary the backend filled.
Judge ==
    /\ stage = "judge"
    /\ \E x \in pending :
          /\ JudgeFeasible(x) \/ JudgeInfeasible(x)
          /\ pending' = pending \ {x}
    /\ UNCHANGED <<given, stage, search, counts, answer>>

Answer ==
    IF feasible = Unset
    THEN [status |-> "failed", solution |-> Unset, objective |-> Unset]
    ELSE [status |-> "success", solution |-> feasible,
          objective |-> Objective(input, feasible)]

ReturnBest ==
    /\ stage = "judge"
    /\ pending = {}
    /\ answer' = Answer
    /\ stage' = "returned"
    /\ UNCHANGED <<given, search, counts, selection>>

QaoaNext == \/ StartSearch \/ RefuseCall \/ BackendFails \/ Warm \/ Evaluate
        \/ Choose \/ Sample \/ Judge \/ ReturnBest

QaoaSpec == QaoaInit /\ [][QaoaNext]_qaoaVars

(***************************************************************************)
(* Properties.                                                             *)
(***************************************************************************)
Stages == {"called", "search", "sample", "judge", "returned", "raised"}

\* Every variable of the search has a value of the kind the code gives it; only
\* finite expectations are kept, and they never outnumber the candidates.
QaoaTypeOK ==
    /\ input \in Inputs /\ call \in Calls
    /\ stage \in Stages
    /\ warmed \in BOOLEAN
    /\ expectations \in Seq(Expectations) /\ Len(expectations) <= call.trials
    /\ candidate = Unset \/ candidate \in DOMAIN expectations
    /\ DOMAIN counts \subseteq Bits(input) /\ pending \subseteq DOMAIN counts
    /\ \A x \in DOMAIN counts : counts[x] \in Nat
    /\ feasible \in Bits(input) \cup {Unset}
    /\ infeasible \in Bits(input) \cup {Unset}
    /\ judged \in [feasible : Nat, infeasible : Nat]

Judged == DOMAIN counts \ pending

BestFeasible ==
    /\ feasible = Unset => \A y \in Judged : ~Meets(input, y)
    /\ feasible # Unset =>
          /\ feasible \in Judged /\ Meets(input, feasible)
          /\ \A y \in Judged :
                Meets(input, y) => ~Surpasses(Objective(input, y), Objective(input, feasible))

LeastInfeasible ==
    /\ infeasible = Unset => \A y \in Judged : Meets(input, y)
    /\ infeasible # Unset =>
          /\ infeasible \in Judged /\ ~Meets(input, infeasible)
          /\ \A y \in Judged :
                ~Meets(input, y) => Energy(input, infeasible) <= Energy(input, y)

\* What the loops of the search maintain: the choice is the first best of the
\* candidates, all of them evaluated and the warm-up done, and each running best
\* is the best of the samples judged so far.
SearchCore ==
    /\ stage \in {"search", "sample", "judge", "returned"} => Executable
    /\ stage \in {"called", "search"} => candidate = Unset
    /\ expectations # <<>> => (call.warmup => warmed)
    /\ candidate # Unset => Len(expectations) = call.trials /\ IsBestIndex(candidate)
    /\ stage \in {"sample", "judge", "returned"} => candidate # Unset
    /\ stage \notin {"judge", "returned"} => DOMAIN counts = {}
    /\ BestFeasible
    /\ LeastInfeasible
    /\ stage = "returned" => pending = {} /\ answer = Answer
    /\ stage # "returned" => answer = NoAnswer

SearchInv == QaoaTypeOK /\ SearchCore

\* run_shared_parameter_search returns the best feasible sample: a returned
\* solution was sampled, is feasible and is beaten by no feasible sample, in
\* whatever order the samples come; without one the call reports a failure and no
\* solution; and a call that raises reports nothing.
ReportedIsBestSample ==
    /\ stage = "returned" =>
          \/ /\ answer.status = "success"
             /\ answer.solution \in DOMAIN counts
             /\ Meets(input, answer.solution)
             /\ answer.objective = Objective(input, answer.solution)
             /\ \A y \in DOMAIN counts :
                   Meets(input, y) => ~Surpasses(Objective(input, y), answer.objective)
          \/ /\ answer.status = "failed"
             /\ answer.solution = Unset
             /\ \A y \in DOMAIN counts : ~Meets(input, y)
    /\ stage # "returned" => answer = NoAnswer

\* The lowered energy only guides the search, yet drawing one of its optima is
\* enough: if a state of best energy is among the samples, and the problem has
\* a feasible solution, the call returns an optimum of the problem itself.
SampledOptimumIsReported ==
    /\ stage = "returned"
    /\ \E x \in Bits(input) : Meets(input, x)
    /\ \E x \in DOMAIN counts : \A y \in Bits(input) :
          ~Surpasses(Energy(input, y), Energy(input, x))
    => /\ answer.status = "success"
       /\ \A y \in Bits(input) :
             Meets(input, y) => ~Surpasses(Objective(input, y), answer.objective)

=============================================================================
