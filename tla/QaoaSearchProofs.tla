-------------------------- MODULE QaoaSearchProofs --------------------------
(***************************************************************************)
(* For every set of problems, every backend and every number of candidates *)
(* and draws: the search keeps its types, and what it reports is the best  *)
(* feasible sample.  The inductive invariant says what each of the two     *)
(* loops has established.                                                  *)
(***************************************************************************)
EXTENDS QaoaSearch, FiniteSetTheorems, TLAPS

\* The assumption, for one basis state of an admitted problem.
LEMMA Judgement ==
    ASSUME NEW p \in Inputs, Accepted(p), NEW x \in Bits(p)
    PROVE  /\ Meets(p, x) \in BOOLEAN
           /\ Objective(p, x) \in Int
           /\ Energy(p, x) \in Int
  BY SearchAssumption

\* A tally counts, for basis states that were drawn, a natural number of draws.
LEMMA TallyType ==
    ASSUME NEW n \in Nat, NEW S, NEW draws \in [1..n -> S]
    PROVE  /\ DOMAIN Tally(draws) \subseteq S
           /\ \A x \in DOMAIN Tally(draws) : Tally(draws)[x] \in Nat
<1>1. DOMAIN Tally(draws) = Range(draws)
  BY DEF Tally
<1>2. Range(draws) \subseteq S
  BY DEF Range
<1>3. ASSUME NEW x \in Range(draws)
      PROVE  Cardinality({i \in DOMAIN draws : draws[i] = x}) \in Nat
  <2>1. IsFiniteSet(1..n)
    BY FS_Interval
  <2>2. IsFiniteSet({i \in DOMAIN draws : draws[i] = x})
    BY <2>1, FS_Subset
  <2> QED
    BY <2>2, FS_CardinalityType
<1> QED
  BY <1>1, <1>2, <1>3 DEF Tally

\* The call starts in the invariant.
LEMMA Initially == QaoaInit => SearchInv
<1> SUFFICES ASSUME QaoaInit PROVE SearchInv
  OBVIOUS
<1>1. DOMAIN counts = {}
  BY DEF QaoaInit
<1>2. expectations \in Seq(Expectations) /\ Len(expectations) = 0
  BY DEF QaoaInit
<1>3. call.trials \in Nat
  BY SearchAssumption DEF QaoaInit, Calls
<1>4. QaoaTypeOK
  <2>1. candidate = Unset /\ feasible = Unset /\ infeasible = Unset /\ pending = {}
    BY DEF QaoaInit
  <2>2. input \in Inputs /\ call \in Calls /\ stage \in Stages /\ warmed \in BOOLEAN
    BY DEF QaoaInit, Stages
  <2>3. judged \in [feasible : Nat, infeasible : Nat]
    BY DEF QaoaInit, NoDraws
  <2> QED
    BY <1>1, <1>2, <1>3, <2>1, <2>2, <2>3 DEF QaoaTypeOK
<1>5. SearchCore
  BY <1>1 DEF QaoaInit, SearchCore, BestFeasible, LeastInfeasible, Judged, NoAnswer
<1> QED
  BY <1>4, <1>5 DEF SearchInv

\* A call that raises keeps what it had established.
LEMMA RaiseStep ==
    ASSUME SearchInv, Raise, stage \in {"called", "search", "sample"}
    PROVE  SearchInv'
  BY DEF SearchInv, QaoaTypeOK, SearchCore, BestFeasible, LeastInfeasible, Judged, Stages, Raise,
         given, search, selection, IsBestIndex, Surpasses, Executable, Answer, NoAnswer


\* One step of the search of the candidates keeps them well typed; no choice is
\* made before the last one is evaluated.
LEMMA StartSearchStep == SearchInv /\ StartSearch => SearchInv'
  BY DEF SearchInv, QaoaTypeOK, SearchCore, BestFeasible, LeastInfeasible, Judged, Stages, StartSearch,
         given, search, selection, IsBestIndex, Surpasses, Executable, Answer, NoAnswer

LEMMA WarmStep == SearchInv /\ Warm => SearchInv'
  BY DEF SearchInv, QaoaTypeOK, SearchCore, BestFeasible, LeastInfeasible, Judged, Stages, Warm,
         given, search, selection, IsBestIndex, Surpasses, Executable, Answer, NoAnswer

LEMMA EvaluateStep == SearchInv /\ Evaluate => SearchInv'
<1> SUFFICES ASSUME SearchInv, Evaluate PROVE SearchInv'
  OBVIOUS
<1>1. CASE Raise
  BY <1>1, RaiseStep DEF Evaluate
<1>2. ASSUME NEW e \in Expectations,
             expectations' = Append(expectations, e),
             UNCHANGED <<given, stage, warmed, candidate, counts, selection, answer>>
      PROVE  SearchInv'
  <2>1. call.trials \in Nat
    BY SearchAssumption DEF SearchInv, QaoaTypeOK, Calls
  <2>2. expectations \in Seq(Expectations) /\ Len(expectations) < call.trials
    BY DEF SearchInv, QaoaTypeOK, Evaluate
  <2>3. expectations' \in Seq(Expectations) /\ Len(expectations') <= call.trials
    BY <1>2, <2>1, <2>2
  <2>4. candidate = Unset /\ stage = "search"
    BY DEF SearchInv, SearchCore, Evaluate
  <2>5. QaoaTypeOK'
    BY <1>2, <2>3, <2>4 DEF SearchInv, QaoaTypeOK, given, selection
  <2>6. SearchCore'
    <3>1. call.warmup => warmed
      BY DEF Evaluate
    <3> QED
      BY <1>2, <2>4, <3>1 DEF SearchInv, SearchCore, BestFeasible, LeastInfeasible, Judged, given,
                          selection, Surpasses, Executable
  <2> QED
    BY <2>5, <2>6 DEF SearchInv
<1> QED
  BY <1>1, <1>2 DEF Evaluate

LEMMA ChooseStep == SearchInv /\ Choose => SearchInv'
<1> SUFFICES ASSUME SearchInv, Choose PROVE SearchInv'
  OBVIOUS
<1>1. PICK i \in DOMAIN expectations : IsBestIndex(i) /\ candidate' = i
  BY DEF Choose
<1>2. /\ UNCHANGED <<given, warmed, expectations, counts, selection, answer>>
      /\ stage = "search" /\ stage' = "sample"
      /\ Len(expectations) = call.trials
  BY DEF Choose
<1>3. QaoaTypeOK'
  BY <1>1, <1>2 DEF SearchInv, QaoaTypeOK, Stages, given, selection
<1>4. IsBestIndex(candidate)'
  BY <1>1, <1>2 DEF IsBestIndex, Surpasses, given
<1>5. candidate' # Unset
  BY <1>1, <1>3, SearchAssumption DEF SearchInv, QaoaTypeOK
<1>6. BestFeasible' /\ LeastInfeasible'
  BY <1>2 DEF SearchInv, SearchCore, BestFeasible, LeastInfeasible, Judged, given, selection, Surpasses
<1>7. SearchCore'
  BY <1>2, <1>4, <1>5, <1>6 DEF SearchInv, SearchCore, Executable, given, selection
<1> QED
  BY <1>3, <1>7 DEF SearchInv

\* The samples replace the empty tally, and none of them is judged yet.
LEMMA SampleStep == SearchInv /\ Sample => SearchInv'
<1> SUFFICES ASSUME SearchInv, Sample PROVE SearchInv'
  OBVIOUS
<1>1. /\ UNCHANGED <<given, search, feasible, infeasible, judged, answer>>
      /\ stage = "sample" /\ stage' = "judge" /\ pending' = DOMAIN counts'
  BY DEF Sample
<1>2. PICK draws \in [1..call.shots -> Bits(input)] : counts' = Tally(draws)
  BY DEF Sample
<1>3. call.shots \in Nat
  BY SearchAssumption DEF SearchInv, QaoaTypeOK, Calls
<1>4. /\ DOMAIN counts' \subseteq Bits(input)
      /\ \A x \in DOMAIN counts' : counts'[x] \in Nat
  BY <1>2, <1>3, TallyType
<1>5. QaoaTypeOK'
  BY <1>1, <1>4 DEF SearchInv, QaoaTypeOK, Stages, given, search
<1>6. feasible = Unset /\ infeasible = Unset
  BY <1>1 DEF SearchInv, SearchCore, BestFeasible, LeastInfeasible, Judged
<1>7. Judged' = {}
  BY <1>1 DEF Judged
<1>8. BestFeasible' /\ LeastInfeasible'
  BY <1>1, <1>6, <1>7 DEF BestFeasible, LeastInfeasible
<1>9. SearchCore'
  BY <1>1, <1>8 DEF SearchInv, SearchCore, IsBestIndex, Surpasses, Executable, given, search
<1> QED
  BY <1>5, <1>9 DEF SearchInv

\* Judging one more sample keeps both running bests; the comparison is the one of
\* the problem's sense, so that "not beaten" is transitive.
LEMMA Transitive ==
    ASSUME NEW a \in Int, NEW b \in Int, NEW c \in Int, Surpasses(a, b), ~Surpasses(c, b)
    PROVE  ~Surpasses(c, a)
  BY DEF Surpasses

LEMMA JudgeStep == SearchInv /\ Judge => SearchInv'
<1> SUFFICES ASSUME SearchInv, Judge PROVE SearchInv'
  OBVIOUS
<1>1. /\ UNCHANGED <<given, stage, search, counts, answer>>
      /\ stage = "judge"
  BY DEF Judge
<1>2. PICK x \in pending :
         /\ JudgeFeasible(x) \/ JudgeInfeasible(x)
         /\ pending' = pending \ {x}
  BY DEF Judge
<1>3. /\ input \in Inputs /\ Accepted(input) /\ Unset \notin Bits(input)
      /\ x \in Bits(input) /\ counts[x] \in Nat
  BY <1>1, SearchAssumption DEF SearchInv, QaoaTypeOK, SearchCore, Executable
<1>4. /\ Judged' = Judged \cup {x} /\ x \notin Judged
      /\ Judged \subseteq Bits(input)
  BY <1>1, <1>2 DEF Judged, SearchInv, QaoaTypeOK
<1>5. \A y \in Bits(input) : /\ Meets(input, y) \in BOOLEAN
                               /\ Objective(input, y) \in Int
                               /\ Energy(input, y) \in Int
  BY <1>3, SearchAssumption
<1>6. QaoaTypeOK'
  <2>1. judged' \in [feasible : Nat, infeasible : Nat]
    BY <1>2, <1>3 DEF SearchInv, QaoaTypeOK, JudgeFeasible, JudgeInfeasible
  <2>2. /\ feasible' \in Bits(input) \cup {Unset}
        /\ infeasible' \in Bits(input) \cup {Unset}
    BY <1>2, <1>3 DEF SearchInv, QaoaTypeOK, JudgeFeasible, JudgeInfeasible
  <2> QED
    BY <1>1, <1>2, <2>1, <2>2 DEF SearchInv, QaoaTypeOK, given, search
<1>7. BestFeasible'
  <2>1. CASE JudgeInfeasible(x)
    BY <1>1, <1>4, <2>1
    DEF SearchInv, SearchCore, BestFeasible, JudgeInfeasible, Surpasses, given
  <2>2. CASE JudgeFeasible(x) /\ feasible = Unset
    <3>1. feasible' = x /\ Meets(input, x)
      BY <2>2 DEF JudgeFeasible
    <3>2. \A y \in Judged : ~Meets(input, y)
      BY <2>2 DEF SearchInv, SearchCore, BestFeasible
    <3>3. ~Surpasses(Objective(input, x), Objective(input, x))
      BY <1>3, <1>5 DEF Surpasses
    <3> QED
      BY <1>1, <1>3, <1>4, <3>1, <3>2, <3>3 DEF BestFeasible, Surpasses, given
  <2>3. CASE JudgeFeasible(x) /\ feasible # Unset
    <3>1. /\ feasible \in Judged /\ Meets(input, feasible)
          /\ \A y \in Judged :
                Meets(input, y) => ~Surpasses(Objective(input, y), Objective(input, feasible))
      BY <2>3 DEF SearchInv, SearchCore, BestFeasible
    <3>2. CASE Surpasses(Objective(input, x), Objective(input, feasible))
      <4>1. feasible' = x /\ Meets(input, x)
        BY <2>3, <3>2 DEF JudgeFeasible
      <4>2. ASSUME NEW y \in Judged \cup {x}, Meets(input, y)
            PROVE  ~Surpasses(Objective(input, y), Objective(input, x))
        BY <1>3, <1>4, <1>5, <3>1, <3>2, <4>2, Transitive DEF Surpasses
      <4> QED
        BY <1>1, <1>3, <1>4, <4>1, <4>2 DEF BestFeasible, Surpasses, given
    <3>3. CASE ~Surpasses(Objective(input, x), Objective(input, feasible))
      <4>1. feasible' = feasible
        BY <2>3, <3>3 DEF JudgeFeasible
      <4> QED
        BY <1>1, <1>4, <2>3, <3>1, <3>3, <4>1 DEF BestFeasible, Surpasses, given
    <3> QED
      BY <3>2, <3>3
  <2> QED
    BY <1>2, <2>1, <2>2, <2>3
<1>8. LeastInfeasible'
  <2>1. CASE JudgeFeasible(x)
    BY <1>1, <1>4, <2>1 DEF SearchInv, SearchCore, LeastInfeasible, JudgeFeasible, given
  <2>2. CASE JudgeInfeasible(x) /\ infeasible = Unset
    BY <1>1, <1>3, <1>4, <1>5, <2>2
    DEF SearchInv, SearchCore, LeastInfeasible, JudgeInfeasible, given
  <2>3. CASE JudgeInfeasible(x) /\ infeasible # Unset
    <3>1. /\ infeasible \in Judged /\ ~Meets(input, infeasible)
          /\ \A y \in Judged :
                ~Meets(input, y) => Energy(input, infeasible) <= Energy(input, y)
      BY <2>3 DEF SearchInv, SearchCore, LeastInfeasible
    <3>2. /\ infeasible' \in {x, infeasible} /\ ~Meets(input, x)
          /\ Energy(input, infeasible') <= Energy(input, x)
          /\ Energy(input, infeasible') <= Energy(input, infeasible)
      BY <1>3, <1>4, <1>5, <2>3, <3>1 DEF JudgeInfeasible
    <3>3. ASSUME NEW y \in Judged \cup {x}, ~Meets(input, y)
          PROVE  Energy(input, infeasible') <= Energy(input, y)
      BY <1>3, <1>4, <1>5, <3>1, <3>2, <3>3
    <3> QED
      BY <1>1, <1>3, <1>4, <3>1, <3>2, <3>3, <2>3 DEF LeastInfeasible, given
  <2> QED
    BY <1>2, <2>1, <2>2, <2>3
<1>9. SearchCore'
  BY <1>1, <1>7, <1>8 DEF SearchInv, SearchCore, IsBestIndex, Surpasses, Executable, given, search
<1> QED
  BY <1>6, <1>9 DEF SearchInv

\* What is reported is read off the running best, when no sample is left.
LEMMA ReturnBestStep == SearchInv /\ ReturnBest => SearchInv'
<1> SUFFICES ASSUME SearchInv, ReturnBest PROVE SearchInv'
  OBVIOUS
<1>1. QaoaTypeOK'
  BY DEF SearchInv, QaoaTypeOK, ReturnBest, Stages, given, search, selection
<1>2. SearchCore'
  BY DEF SearchInv, SearchCore, ReturnBest, BestFeasible, LeastInfeasible, Judged, IsBestIndex,
         Surpasses, Executable, Answer, given, search, selection
<1> QED
  BY <1>1, <1>2 DEF SearchInv

\* What the two loops of the search maintain: the first best candidate is chosen,
\* and each running best is the best of the samples judged so far.
THEOREM SearchCorrect == QaoaSpec => []SearchInv
<1>1. SearchInv /\ UNCHANGED qaoaVars => SearchInv'
  BY DEF SearchInv, QaoaTypeOK, SearchCore, BestFeasible, LeastInfeasible, Judged, IsBestIndex, Surpasses,
         Executable, Answer, qaoaVars
<1>2. SearchInv /\ [QaoaNext]_qaoaVars => SearchInv'
  <2> SUFFICES ASSUME SearchInv, QaoaNext PROVE SearchInv'
    BY <1>1
  <2>1. CASE StartSearch
    BY <2>1, StartSearchStep
  <2>2. CASE RefuseCall
    BY <2>2, RaiseStep DEF RefuseCall
  <2>3. CASE BackendFails
    BY <2>3, RaiseStep DEF BackendFails
  <2>4. CASE Warm
    BY <2>4, WarmStep
  <2>5. CASE Evaluate
    BY <2>5, EvaluateStep
  <2>6. CASE Choose
    BY <2>6, ChooseStep
  <2>7. CASE Sample
    BY <2>7, SampleStep
  <2>8. CASE Judge
    BY <2>8, JudgeStep
  <2>9. CASE ReturnBest
    BY <2>9, ReturnBestStep
  <2> QED
    BY <2>1, <2>2, <2>3, <2>4, <2>5, <2>6, <2>7, <2>8, <2>9 DEF QaoaNext
<1> QED
  BY <1>2, Initially, PTL DEF QaoaSpec

\* The fields of the search have the types the code gives them.
THEOREM SearchTyped == QaoaSpec => []QaoaTypeOK
<1>1. SearchInv => QaoaTypeOK
  BY DEF SearchInv
<1> QED
  BY <1>1, SearchCorrect, PTL

\* Whatever the backend answers and in whatever order its samples are judged, a
\* returned solution is the best feasible sample, a failure means that there is
\* none, and a call that raised reports nothing.
THEOREM BestSampleReported == QaoaSpec => []ReportedIsBestSample
<1>1. SearchInv => ReportedIsBestSample
  <2> SUFFICES ASSUME SearchInv PROVE ReportedIsBestSample
    OBVIOUS
  <2>1. stage # "returned" => answer = NoAnswer
    BY DEF SearchInv, SearchCore
  <2>2. ASSUME stage = "returned" PROVE Judged = DOMAIN counts /\ answer = Answer
    BY <2>2 DEF SearchInv, SearchCore, Judged
  <2>3. ASSUME stage = "returned", feasible = Unset
        PROVE  /\ answer.status = "failed" /\ answer.solution = Unset
               /\ \A y \in DOMAIN counts : ~Meets(input, y)
    BY <2>2, <2>3 DEF SearchInv, SearchCore, BestFeasible, Answer
  <2>4. ASSUME stage = "returned", feasible # Unset
        PROVE  /\ answer.status = "success" /\ answer.solution = feasible
               /\ answer.objective = Objective(input, feasible)
               /\ feasible \in DOMAIN counts /\ Meets(input, feasible)
               /\ \A y \in DOMAIN counts :
                     Meets(input, y) =>
                        ~Surpasses(Objective(input, y), Objective(input, feasible))
    BY <2>2, <2>4 DEF SearchInv, SearchCore, BestFeasible, Answer
  <2> QED
    BY <2>1, <2>3, <2>4 DEF ReportedIsBestSample
<1> QED
  BY <1>1, SearchCorrect, PTL

Beats(p, a, b) == IF Maximizes(p) THEN a > b ELSE a < b

\* What the search relies on from a lowering: a state of best energy is a best
\* feasible solution, when there is a feasible one.
FaithfulLowering ==
    \A p \in Inputs : \A x, z \in Bits(p) :
        /\ Accepted(p) /\ Meets(p, z)
        /\ \A y \in Bits(p) : ~Beats(p, Energy(p, y), Energy(p, x))
        => /\ Meets(p, x)
           /\ \A y \in Bits(p) :
                 Meets(p, y) => ~Beats(p, Objective(p, y), Objective(p, x))

\* A search over a faithful lowering that draws a state of best energy returns an
\* optimum of the problem itself.
THEOREM OptimumReported ==
    ASSUME FaithfulLowering
    PROVE  QaoaSpec => []SampledOptimumIsReported
<1>1. SearchInv /\ ReportedIsBestSample => SampledOptimumIsReported
  <2> SUFFICES ASSUME SearchInv, ReportedIsBestSample, stage = "returned",
                      NEW z \in Bits(input), Meets(input, z),
                      NEW x \in DOMAIN counts,
                      \A y \in Bits(input) : ~Surpasses(Energy(input, y), Energy(input, x))
               PROVE  /\ answer.status = "success"
                      /\ \A y \in Bits(input) :
                            Meets(input, y) =>
                               ~Surpasses(Objective(input, y), answer.objective)
    BY DEF SampledOptimumIsReported
  <2>1. /\ input \in Inputs /\ Accepted(input) /\ x \in Bits(input)
        /\ DOMAIN counts \subseteq Bits(input)
    BY DEF SearchInv, QaoaTypeOK, SearchCore, Executable
  <2>2. \A a, b : Surpasses(a, b) <=> Beats(input, a, b)
    BY DEF Surpasses, Beats
  <2>3. /\ Meets(input, x)
        /\ \A y \in Bits(input) :
              Meets(input, y) => ~Surpasses(Objective(input, y), Objective(input, x))
    BY <2>1, <2>2, FaithfulLowering DEF FaithfulLowering
  <2>4. /\ answer.status = "success"
        /\ answer.solution \in Bits(input)
        /\ answer.objective = Objective(input, answer.solution)
        /\ ~Surpasses(Objective(input, x), answer.objective)
    BY <2>1, <2>3 DEF ReportedIsBestSample
  <2>5. ASSUME NEW y \in Bits(input), Meets(input, y)
        PROVE  ~Surpasses(Objective(input, y), answer.objective)
    <3>1. /\ Objective(input, x) \in Int /\ Objective(input, y) \in Int
          /\ answer.objective \in Int
      BY <2>1, <2>4, SearchAssumption
    <3>2. ~Surpasses(Objective(input, y), Objective(input, x))
      BY <2>3, <2>5
    <3> QED
      BY <2>4, <3>1, <3>2 DEF Surpasses
  <2> QED
    BY <2>4, <2>5
<1> QED
  BY <1>1, SearchCorrect, BestSampleReported, PTL

=============================================================================
