--------------------------- MODULE CampaignProofs ---------------------------
(***************************************************************************)
(* Proofs about Campaign and Pairing, for every set of campaigns,          *)
(* definitions, older records and selections.                              *)
(***************************************************************************)
EXTENDS Plan, FiniteSetTheorems, TLAPS

\* What the assumptions say of a definition that was chosen.
LEMMA DefinitionType ==
    ASSUME NEW c \in Processes, NEW d \in Definitions[c]
    PROVE  /\ Len(d.sizes) \in Nat /\ Len(d.seeds) \in Nat /\ Len(d.solvers) \in Nat
           /\ ProblemCount(d) \in Nat
           /\ DOMAIN d.solvers = 1 .. Len(d.solvers)
           /\ d.repeats \in Nat \ {0}
           /\ Runnable(d) \subseteq DOMAIN d.solvers
           /\ \A i \in DOMAIN d.solvers : d.solvers[i] \in SolverNames
           /\ \A i, j \in DOMAIN d.solvers : d.solvers[i] = d.solvers[j] => i = j
           /\ Attempts(d) \subseteq (DOMAIN d.solvers) \X (0 .. d.repeats - 1)
<1>1. Valid(d)
  BY CampaignAssumption
<1>2. /\ d.sizes \in Seq(Nat \ {0}) /\ d.seeds \in Seq(Nat) /\ d.solvers \in Seq(SolverNames)
      /\ d.repeats \in Nat \ {0} /\ Unrepeated(d.solvers)
  BY <1>1 DEF Valid
<1>3. Len(d.sizes) \in Nat /\ Len(d.seeds) \in Nat /\ Len(d.solvers) \in Nat
  BY <1>2
<1>4. ProblemCount(d) \in Nat
  <2>1. \A m, n \in Nat : m * n \in Nat
    OBVIOUS
  <2> QED BY <1>3, <2>1 DEF ProblemCount
<1>5. /\ DOMAIN d.solvers = 1 .. Len(d.solvers)
      /\ \A i \in DOMAIN d.solvers : d.solvers[i] \in SolverNames
  BY <1>2
<1>6. \A i, j \in DOMAIN d.solvers : d.solvers[i] = d.solvers[j] => i = j
  BY <1>2 DEF Unrepeated
<1>7. /\ Runnable(d) \subseteq DOMAIN d.solvers
      /\ Attempts(d) \subseteq (DOMAIN d.solvers) \X (0 .. d.repeats - 1)
  BY DEF Runnable, Attempts
<1> QED BY <1>2, <1>3, <1>4, <1>5, <1>6, <1>7

\* The optimum of a problem is the only best objective.
LEMMA OptimumIsBest ==
    ASSUME NEW p \in DOMAIN Objectives, Objectives[p] # {}
    PROVE  /\ Optimum(p) \in Objectives[p] /\ Optimum(p) \in Int
           /\ \A v \in Best(p) : v = Optimum(p)
           /\ \A v \in Objectives[p] :
                 IF Sense[p] = "maximize" THEN Optimum(p) >= v ELSE Optimum(p) <= v
<1>1. Best(p) # {} /\ \A v \in Objectives[p] : v \in Int
  BY CampaignAssumption
<1>2. Optimum(p) \in Best(p)
  BY <1>1 DEF Optimum
<1>3. /\ Optimum(p) \in Objectives[p]
      /\ \A w \in Objectives[p] :
            IF Sense[p] = "maximize" THEN Optimum(p) >= w ELSE Optimum(p) <= w
  BY <1>2 DEF Best
<1>4. ASSUME NEW v \in Best(p) PROVE v = Optimum(p)
  <2>1. /\ v \in Objectives[p]
        /\ \A w \in Objectives[p] : IF Sense[p] = "maximize" THEN v >= w ELSE v <= w
    BY DEF Best
  <2>2. v \in Int /\ Optimum(p) \in Int
    BY <1>1, <1>3, <2>1
  <2>3. CASE Sense[p] = "maximize"
    BY <1>3, <2>1, <2>2, <2>3
  <2>4. CASE Sense[p] # "maximize"
    BY <1>3, <2>1, <2>2, <2>4
  <2> QED BY <2>3, <2>4
<1> QED BY <1>1, <1>3, <1>4

\* What a solver call returns is honest about the problem and the backend.
LEMMA ResultIsHonest ==
    ASSUME NEW problem \in DOMAIN Objectives, NEW solver \in SolverNames, NEW setting,
           NEW result \in Results(solver, problem, setting)
    PROVE  /\ result.status \in Statuses \ {"skipped"}
           /\ result.objective # Nothing =>
                 /\ result.status = "success"
                 /\ result.objective \in IF solver = "exact" THEN Best(problem)
                                                             ELSE Objectives[problem]
           /\ solver \in Quantum /\ result.status = "success" =>
                 setting.controls # Unusable /\ Able(solver, setting)
<1>1. /\ Quantum \cap {"exact", "heuristic"} = {}
      /\ solver \in {"exact", "heuristic"} \/ solver \in Quantum
  BY DEF SolverNames, Quantum
<1>2. CASE solver = "exact"
  <2>1. \/ result = Without("failed")
        \/ \E v \in Best(problem) : result = [status |-> "success", objective |-> v]
    BY <1>1, <1>2 DEF Results, Success
  <2> QED BY <1>1, <1>2, <2>1 DEF Without, Statuses
<1>3. CASE solver = "heuristic"
  <2>1. \/ result = Without("failed")
        \/ \E v \in Objectives[problem] : result = [status |-> "success", objective |-> v]
    BY <1>1, <1>3 DEF Results, Success
  <2> QED BY <1>1, <1>3, <2>1 DEF Without, Statuses
<1>4. CASE solver \in Quantum
  <2>1. \/ result = Without("failed") \/ result = Without("unavailable")
        \/ /\ setting.controls # Unusable /\ Able(solver, setting)
           /\ \E v \in Objectives[problem] : result = [status |-> "success", objective |-> v]
    BY <1>1, <1>4 DEF Results, Success
  <2> QED BY <1>1, <1>4, <2>1 DEF Without, Statuses
<1> QED BY <1>1, <1>2, <1>3, <1>4

-----------------------------------------------------------------------------
(* The inductive invariant. *)

\* A step of a process: what was recorded at a position stays behind it.
Advances(c) ==
    /\ at'[c] \in {at[c], at[c] + 1}
    /\ at'[c] = at[c] =>
          \/ pc'[c] \in {"refused", "failed", "aborted", "done"}
          \/ pc'[c] = pc[c] /\ remaining'[c] \subseteq remaining[c]
          \/ pc[c] \in {"submitted", "problems"}

\* The places of the recorded runs stay theirs.
LEMMA StillFiled ==
    ASSUME CampaignCore, UNCHANGED chosen, \A c \in Processes : Advances(c),
           NEW run \in saved, run.repeat # Nothing
    PROVE  Filed(run)'
<1> DEFINE c == run.execution[1]
           k == run.execution[2]
           d == definition[c]
<1>1. /\ definition' = definition /\ installed' = installed
      /\ Filed(run)
  BY DEF CampaignCore, chosen
<1>2. /\ run.execution \in Processes \X Nat
      /\ run.repeat \in 0 .. d.repeats - 1
      /\ ~ Contradictory(d)
      /\ run.seed = Setting(d, run.solver, run.repeat).seed
      /\ run.controls = Setting(d, run.solver, run.repeat).controls
      /\ run.candidates = Setting(d, run.solver, run.repeat).candidates
      /\ k <= at[c]
      /\ k = at[c] => pc[c] \notin {"submitted", "problems"}
  BY <1>1 DEF Filed
<1>3. PICK i \in Runnable(d) :
         /\ run.solver = d.solvers[i]
         /\ k = at[c] /\ pc[c] = "benchmark" => <<i, run.repeat>> \notin remaining[c]
  BY <1>1 DEF Filed
<1>4. c \in Processes /\ k \in Nat /\ at[c] \in Nat
  BY <1>2 DEF CampaignCore, TypeOK
<1>5. Advances(c)
  BY <1>4
<1>6. /\ k <= at'[c]
      /\ k = at'[c] => pc'[c] \notin {"submitted", "problems"}
      /\ k = at'[c] /\ pc'[c] = "benchmark" => <<i, run.repeat>> \notin remaining'[c]
  BY <1>2, <1>3, <1>4, <1>5 DEF Advances
<1>7. Setting(d, run.solver, run.repeat)' = Setting(d, run.solver, run.repeat)
  BY <1>1 DEF Setting, CanMatch
<1> QED
  BY <1>1, <1>2, <1>3, <1>6, <1>7 DEF Filed

\* A result stays honest.
LEMMA StillHonest ==
    ASSUME CampaignCore, UNCHANGED chosen, NEW run \in saved
    PROVE  Honest(run)'
BY DEF CampaignCore, Honest, Able, chosen

\* A step that records nothing.
LEMMA QuietStep ==
    ASSUME CampaignCore, UNCHANGED <<chosen, saved>>, \A c \in Processes : Advances(c),
           TypeOK', \A c \in Processes : Underway(c)'
    PROVE  CampaignCore'
<1>1. UNCHANGED chosen /\ saved' = saved
  OBVIOUS
<1>2. \A run \in saved' : Honest(run)' /\ (run.repeat # Nothing => Filed(run)')
  BY <1>1, StillFiled, StillHonest
<1>3. \A l, r \in saved' : l.repeat # Nothing /\ SamePlace(l, r) => l = r
  BY <1>1 DEF CampaignCore
<1> QED
  BY <1>2, <1>3 DEF CampaignCore

LEMMA InitHolds == Init => CampaignCore
<1> SUFFICES ASSUME Init PROVE CampaignCore
  OBVIOUS
<1>1. \A c \in Processes : definition[c] \in Definitions[c] /\ ProblemCount(definition[c]) \in Nat
  BY DefinitionType DEF Init
<1>2. IsFiniteSet(saved) /\ \A run \in saved : OldRun(run)
  BY CampaignAssumption DEF Init
<1>3. TypeOK
  BY <1>1, <1>2 DEF Init, TypeOK, OldRun
<1>4. \A c \in Processes : Underway(c)
  BY <1>1 DEF Init, Underway
<1>5. \A run \in saved : Honest(run) /\ run.repeat = Nothing
  BY <1>2 DEF OldRun, Honest
<1> QED
  BY <1>3, <1>4, <1>5 DEF CampaignCore

\* What the invariant says of one process.
LEMMA ProcessType ==
    ASSUME CampaignCore, NEW c \in Processes
    PROVE  /\ definition[c] \in Definitions[c]
           /\ ProblemCount(definition[c]) \in Nat
           /\ at[c] \in Nat /\ at[c] \in 1 .. ProblemCount(definition[c]) + 1
           /\ remaining[c] \subseteq
                 (DOMAIN definition[c].solvers) \X (0 .. definition[c].repeats - 1)
<1>1. definition[c] \in Definitions[c]
  BY DEF CampaignCore, Underway
<1> QED
  BY <1>1, DefinitionType DEF CampaignCore, TypeOK

\* Skipped runs are counted in whole numbers.
LEMMA SkippedType ==
    ASSUME CampaignCore, NEW c \in Processes
    PROVE  SkippedRuns(definition[c]) \in Nat
<1>1. definition[c] \in Definitions[c]
  BY ProcessType
<1>2. /\ DOMAIN definition[c].solvers = 1 .. Len(definition[c].solvers)
      /\ Len(definition[c].solvers) \in Nat
      /\ definition[c].repeats \in Nat
  BY <1>1, DefinitionType
<1>3. IsFiniteSet(DOMAIN definition[c].solvers)
  BY <1>2, FS_Interval
<1>4. Cardinality((DOMAIN definition[c].solvers) \ Runnable(definition[c])) \in Nat
  BY <1>3, FS_Difference, FS_CardinalityType
<1>5. \A m, k \in Nat : m * k \in Nat
  OBVIOUS
<1> QED
  BY <1>2, <1>4, <1>5 DEF SkippedRuns

\* A process that only changes where it is.
LEMMA MovesAlone ==
    ASSUME CampaignCore, NEW c \in Processes, UNCHANGED <<chosen, saved, remaining>>,
           summary' = summary \/ CountSkipped(c),
           NEW q \in {"problems", "refused", "failed", "aborted", "done"},
           pc' = [pc EXCEPT ![c] = q],
           NEW n \in Nat, at' = [at EXCEPT ![c] = n],
           n \in {at[c], at[c] + 1}, n \in 1 .. ProblemCount(definition[c]) + 1,
           n = at[c] => q # "problems" \/ pc[c] = "submitted"
    PROVE  CampaignCore'
<1>1. /\ definition' = definition /\ installed' = installed
      /\ saved' = saved /\ remaining' = remaining
  BY DEF chosen
<1>2. /\ at' \in [Processes -> Nat] /\ at'[c] = n
      /\ \A e \in Processes \ {c} : at'[e] = at[e]
      /\ pc' \in [Processes -> {"submitted", "problems", "benchmark",
                                "refused", "failed", "aborted", "done"}]
      /\ pc'[c] = q
      /\ \A e \in Processes \ {c} : pc'[e] = pc[e]
  BY DEF CampaignCore, TypeOK
<1>3. SkippedRuns(definition[c]) \in Nat
  BY SkippedType
<1>4. summary' \in [Processes -> [Statuses -> Nat]]
  BY <1>3 DEF CampaignCore, TypeOK, CountSkipped, Statuses
<1>5. TypeOK'
  BY <1>1, <1>2, <1>4 DEF CampaignCore, TypeOK
<1>6. \A e \in Processes : Advances(e)
  BY <1>1, <1>2 DEF Advances
<1>7. \A e \in Processes : Underway(e)'
  BY <1>1, <1>2 DEF CampaignCore, Underway
<1> QED
  BY <1>1, <1>5, <1>6, <1>7, QuietStep

LEMMA BenchmarkHolds ==
    ASSUME CampaignCore, NEW c \in Processes, Benchmark(c)
    PROVE  CampaignCore'
<1>1. /\ definition' = definition /\ installed' = installed /\ at' = at /\ saved' = saved
      /\ pc[c] = "problems" /\ at[c] <= ProblemCount(definition[c])
      /\ ~ Contradictory(definition[c])
      /\ pc' = [pc EXCEPT ![c] = "benchmark"]
      /\ remaining' = [remaining EXCEPT ![c] = Attempts(definition[c])]
      /\ CountSkipped(c)
  BY DEF Benchmark, AtProblem, chosen
<1>2. /\ definition[c] \in Definitions[c]
      /\ Attempts(definition[c]) \subseteq
            (DOMAIN definition[c].solvers) \X (0 .. definition[c].repeats - 1)
      /\ DOMAIN definition[c].solvers = 1 .. Len(definition[c].solvers)
      /\ Len(definition[c].solvers) \in Nat /\ definition[c].repeats \in Nat
  BY ProcessType, DefinitionType
<1>3. Attempts(definition[c]) \in SUBSET (Nat \X Nat)
  BY <1>2
<1>4. summary' \in [Processes -> [Statuses -> Nat]]
  BY <1>1, SkippedType DEF CampaignCore, TypeOK, CountSkipped, Statuses
<1>5. TypeOK'
  BY <1>1, <1>2, <1>3, <1>4 DEF CampaignCore, TypeOK
<1>6. \A e \in Processes : Advances(e)
  BY <1>1 DEF CampaignCore, TypeOK, Advances
<1>7. \A e \in Processes : Underway(e)'
  BY <1>1 DEF CampaignCore, TypeOK, Underway
<1> QED
  BY <1>1, <1>5, <1>6, <1>7, QuietStep DEF chosen

\* The record of an attempt has the settings of its place.
LEMMA RecordIsFiled ==
    ASSUME CampaignCore, NEW c \in Processes, pc[c] = "benchmark", NEW next \in remaining[c],
           NEW id, NEW problem, NEW result, NEW run,
           run = Record(id, problem, definition[c].solvers[next[1]], <<c, at[c]>>, next[2],
                        Setting(definition[c], definition[c].solvers[next[1]], next[2]), result),
           UNCHANGED <<chosen, pc, at>>,
           remaining' = [remaining EXCEPT ![c] = @ \ {next}]
    PROVE  Filed(run)'
<1> DEFINE d == definition[c]
<1>1. /\ definition' = definition /\ installed' = installed /\ pc' = pc /\ at' = at
      /\ remaining'[c] = remaining[c] \ {next}
  BY DEF CampaignCore, TypeOK, chosen
<1>2. /\ run.execution = <<c, at[c]>> /\ run.repeat = next[2]
      /\ run.solver = d.solvers[next[1]]
  BY DEF Record
<1>3. /\ run.seed = Setting(d, run.solver, run.repeat).seed
      /\ run.controls = Setting(d, run.solver, run.repeat).controls
      /\ run.candidates = Setting(d, run.solver, run.repeat).candidates
  BY <1>2 DEF Record
<1>4. /\ ~ Contradictory(d) /\ next \in Attempts(d) /\ at[c] \in Nat
  BY ProcessType DEF CampaignCore, Underway
<1>5. next[1] \in Runnable(d) /\ next[2] \in 0 .. d.repeats - 1 /\ next = <<next[1], next[2]>>
  BY <1>4 DEF Attempts
<1>6. Setting(d, run.solver, run.repeat)' = Setting(d, run.solver, run.repeat)
  BY <1>1 DEF Setting, CanMatch
<1>7. /\ run.execution[1] = c /\ run.execution[2] = at[c]
      /\ run.execution \in Processes \X Nat
  <2>1. at[c] \in Nat
    BY <1>4
  <2>2. <<c, at[c]>> \in Processes \X Nat
    BY <2>1, Zenon
  <2>3. run.execution = <<c, at[c]>>
    BY <1>2
  <2> QED BY <2>2, <2>3
<1>8. <<next[1], run.repeat>> \notin remaining'[c]
  BY <1>1, <1>2, <1>5
<1>9. at'[c] = at[c] /\ pc'[c] = "benchmark"
  BY <1>1
<1>10. ~ Contradictory(d)'
  BY <1>1, <1>4
<1>11. \E i \in Runnable(d)' :
          /\ run.solver = definition'[c].solvers[i]
          /\ run.execution[2] = at'[c] /\ pc'[c] = "benchmark" =>
                <<i, run.repeat>> \notin remaining'[c]
  <2>1. next[1] \in Runnable(d)'
    BY <1>1, <1>5
  <2> QED BY <1>1, <1>2, <1>8, <2>1
<1>12. run.repeat \in 0 .. definition'[c].repeats - 1
  BY <1>1, <1>2, <1>5
<1>13. /\ run.execution[2] <= at'[c]
       /\ run.execution[2] = at'[c] => pc'[c] \notin {"submitted", "problems"}
  BY <1>4, <1>7, <1>9
<1> QED
  BY <1>3, <1>6, <1>7, <1>10, <1>11, <1>12, <1>13 DEF Filed

\* No recorded run has the place of an attempt that is still to be made.
LEMMA PlaceIsFree ==
    ASSUME CampaignCore, NEW c \in Processes, pc[c] = "benchmark", NEW next \in remaining[c],
           NEW run \in saved, run.repeat # Nothing,
           run.execution = <<c, at[c]>>, run.repeat = next[2]
    PROVE  run.solver # definition[c].solvers[next[1]]
<1>1. /\ definition[c] \in Definitions[c] /\ next \in Attempts(definition[c])
      /\ Filed(run)
  BY DEF CampaignCore, Underway
<1>2. PICK i \in Runnable(definition[c]) :
         /\ run.solver = definition[c].solvers[i]
         /\ <<i, run.repeat>> \notin remaining[c]
  BY <1>1 DEF Filed
<1>3. /\ next = <<next[1], next[2]>>
      /\ next[1] \in DOMAIN definition[c].solvers /\ i \in DOMAIN definition[c].solvers
  BY <1>1, <1>2, DefinitionType DEF Attempts
<1>4. i # next[1]
  BY <1>2, <1>3
<1> QED
  BY <1>1, <1>2, <1>3, <1>4, DefinitionType

\* An attempt reports of its problem and backend what the call did.
LEMMA RecordIsHonest ==
    ASSUME NEW problem \in DOMAIN Objectives, NEW solver \in SolverNames, NEW setting,
           NEW result \in Results(solver, problem, setting),
           NEW id, NEW execution, NEW repeat
    PROVE  Honest(Record(id, problem, solver, execution, repeat, setting, result))
<1>1. /\ result.objective # Nothing =>
            result.objective \in IF solver = "exact" THEN Best(problem)
                                                     ELSE Objectives[problem]
      /\ solver \in Quantum /\ result.status = "success" =>
            setting.controls # Unusable /\ Able(solver, setting)
  BY ResultIsHonest
<1> QED
  BY <1>1 DEF Honest, Record, Able

LEMMA AttemptHolds ==
    ASSUME CampaignCore, NEW c \in Processes, Attempt(c)
    PROVE  CampaignCore'
<1> DEFINE d == definition[c]
           problem == ProblemAt(d, at[c])
<1>1. /\ definition' = definition /\ installed' = installed /\ pc' = pc /\ at' = at
      /\ pc[c] = "benchmark"
  BY DEF Attempt, chosen
<1>2. PICK next \in remaining[c] :
         \E result \in Results(d.solvers[next[1]], problem, Setting(d, d.solvers[next[1]], next[2])) :
            /\ saved' = saved \cup {Record(NewId(c), problem, d.solvers[next[1]], <<c, at[c]>>,
                                 next[2], Setting(d, d.solvers[next[1]], next[2]), result)}
            /\ summary' = [summary EXCEPT ![c][result.status] = @ + 1]
            /\ remaining' = [remaining EXCEPT ![c] = @ \ {next}]
  BY DEF Attempt
<1> DEFINE solver == d.solvers[next[1]]
           setting == Setting(d, solver, next[2])
<1>3. PICK result \in Results(solver, problem, setting) :
         /\ saved' = saved \cup {Record(NewId(c), problem, solver, <<c, at[c]>>, next[2],
                                        setting, result)}
         /\ summary' = [summary EXCEPT ![c][result.status] = @ + 1]
         /\ remaining' = [remaining EXCEPT ![c] = @ \ {next}]
  BY <1>2
<1>4. PICK new : new = Record(NewId(c), problem, solver, <<c, at[c]>>, next[2], setting, result)
  OBVIOUS
<1>5. /\ d \in Definitions[c] /\ next \in Attempts(d)
      /\ at[c] \in 1 .. ProblemCount(d)
  BY <1>1, ProcessType DEF CampaignCore, Underway
<1>6. /\ problem \in DOMAIN Objectives
      /\ solver \in SolverNames
  BY <1>5, CampaignAssumption, DefinitionType DEF Attempts
<1>7. /\ new.status = result.status /\ new.objective = result.objective
      /\ new.execution = <<c, at[c]>> /\ new.repeat = next[2] /\ new.solver = solver
  BY <1>4 DEF Record
<1>8. Filed(new)'
  <2>1. UNCHANGED <<chosen, pc, at>>
    BY <1>1 DEF chosen
  <2> QED BY <1>1, <1>3, <1>4, <2>1, RecordIsFiled
<1>9. Honest(new)'
  <2>1. Honest(new)
    BY <1>6, <1>4, RecordIsHonest
  <2> QED BY <1>1, <2>1 DEF Honest, Able
<1>10. \A e \in Processes : Advances(e)
  BY <1>1, <1>3 DEF CampaignCore, TypeOK, Advances
<1>11. \A run \in saved' : Honest(run)' /\ (run.repeat # Nothing => Filed(run)')
  <2>1. UNCHANGED chosen /\ saved' = saved \cup {new}
    BY <1>1, <1>3, <1>4 DEF chosen
  <2> QED BY <1>8, <1>9, <1>10, <2>1, StillFiled, StillHonest
<1>12. \A l, r \in saved' : l.repeat # Nothing /\ SamePlace(l, r) => l = r
  <2>1. \A l, r \in saved : l.repeat # Nothing /\ SamePlace(l, r) => l = r
    BY DEF CampaignCore
  <2>2. \A run \in saved : run.repeat # Nothing => ~ SamePlace(run, new) /\ ~ SamePlace(new, run)
    BY <1>1, <1>7, PlaceIsFree DEF SamePlace
  <2>3. \A run \in saved : SamePlace(new, run) => new.repeat = run.repeat
    BY DEF SamePlace
  <2> QED BY <1>3, <1>4, <2>1, <2>2, <2>3
<1>13. TypeOK'
  <2>1. /\ result.status \in Statuses \ {"skipped"}
        /\ result.objective # Nothing => result.status = "success"
    BY <1>6, ResultIsHonest
  <2>2. summary' \in [Processes -> [Statuses -> Nat]]
    BY <1>3, <2>1 DEF CampaignCore, TypeOK
  <2>3. \A run \in saved' : /\ run.status \in Statuses \ {"skipped"}
                            /\ run.objective # Nothing => run.status = "success"
    BY <1>3, <1>7, <1>4, <2>1 DEF CampaignCore, TypeOK
  <2>4. /\ remaining' \in [Processes -> SUBSET (Nat \X Nat)]
        /\ \A e \in Processes : remaining'[e] \subseteq remaining[e]
    BY <1>3 DEF CampaignCore, TypeOK
  <2>5. IsFiniteSet(saved')
    BY <1>3, FS_AddElement DEF CampaignCore, TypeOK
  <2> QED BY <1>1, <2>2, <2>3, <2>4, <2>5 DEF CampaignCore, TypeOK
<1>14. \A e \in Processes : Underway(e)'
  BY <1>1, <1>3 DEF CampaignCore, TypeOK, Underway
<1> QED
  BY <1>11, <1>12, <1>13, <1>14 DEF CampaignCore

LEMMA ReproduceHolds ==
    ASSUME CampaignCore, NEW run \in saved, Reproduce(run)
    PROVE  CampaignCore'
<1>1. PICK result \in Results(run.solver, run.problem, run) :
         saved' = saved \cup {Record(NewId("rerun"), run.problem, run.solver,
                                    << >>, Nothing, run, result)}
  BY DEF Reproduce
<1>2. PICK new : new = Record(NewId("rerun"), run.problem, run.solver,
                              << >>, Nothing, run, result)
  OBVIOUS
<1>3. /\ UNCHANGED chosen /\ pc' = pc /\ at' = at /\ remaining' = remaining
      /\ summary' = summary /\ definition' = definition /\ installed' = installed
      /\ saved' = saved \cup {new}
  BY <1>1, <1>2 DEF Reproduce, chosen
<1>4. run.problem \in DOMAIN Objectives /\ run.solver \in SolverNames
  BY DEF CampaignCore, Honest
<1>5. new.repeat = Nothing /\ new.status = result.status /\ new.objective = result.objective
  BY <1>2 DEF Record
<1>6. Honest(new)'
  <2>1. Honest(new)
    BY <1>2, <1>4, RecordIsHonest
  <2> QED BY <1>3, <2>1 DEF Honest, Able
<1>7. \A e \in Processes : Advances(e)
  BY <1>3 DEF CampaignCore, TypeOK, Advances
<1>8. \A r \in saved' : Honest(r)' /\ (r.repeat # Nothing => Filed(r)')
  BY <1>3, <1>5, <1>6, <1>7, StillFiled, StillHonest
<1>9. \A l, r \in saved' : l.repeat # Nothing /\ SamePlace(l, r) => l = r
  <2>1. \A l, r \in saved : l.repeat # Nothing /\ SamePlace(l, r) => l = r
    BY DEF CampaignCore
  <2> QED BY <1>3, <1>5, <2>1 DEF SamePlace
<1>10. TypeOK'
  <2>1. /\ result.status \in Statuses \ {"skipped"}
        /\ result.objective # Nothing => result.status = "success"
    BY <1>4, ResultIsHonest
  <2>2. \A r \in saved' : /\ r.status \in Statuses \ {"skipped"}
                          /\ r.objective # Nothing => r.status = "success"
    BY <1>3, <1>5, <2>1 DEF CampaignCore, TypeOK
  <2>3. IsFiniteSet(saved')
    BY <1>3, FS_AddElement DEF CampaignCore, TypeOK
  <2> QED BY <1>3, <2>2, <2>3 DEF CampaignCore, TypeOK
<1>11. \A e \in Processes : Underway(e)'
  BY <1>3 DEF CampaignCore, Underway
<1> QED
  BY <1>8, <1>9, <1>10, <1>11 DEF CampaignCore

LEMMA StepHolds == CampaignCore /\ [Next]_vars => CampaignCore'
<1> SUFFICES ASSUME CampaignCore, [Next]_vars PROVE CampaignCore'
  OBVIOUS
<1>1. CASE UNCHANGED vars
  <2>1. UNCHANGED <<chosen, saved>>
    BY <1>1 DEF vars, chosen
  <2>2. \A e \in Processes : Advances(e)
    BY <1>1 DEF vars, Advances, CampaignCore, TypeOK
  <2>3. TypeOK' /\ \A e \in Processes : Underway(e)'
    BY <1>1 DEF vars, CampaignCore, TypeOK, Underway
  <2> QED BY <2>1, <2>2, <2>3, QuietStep
<1>2. ASSUME NEW c \in Processes PROVE
         Refuse(c) \/ Begin(c) \/ PassOver(c) \/ Contradict(c) \/ NextProblem(c)
         \/ Finish(c) \/ Abort(c) => CampaignCore'
  <2>1. /\ at[c] \in Nat /\ at[c] \in 1 .. ProblemCount(definition[c]) + 1
        /\ ProblemCount(definition[c]) \in Nat
        /\ pc[c] = "benchmark" => at[c] <= ProblemCount(definition[c])
        /\ at = [at EXCEPT ![c] = at[c]] /\ pc = [pc EXCEPT ![c] = pc[c]]
    BY ProcessType DEF CampaignCore, TypeOK, Underway
  <2>2. CASE Refuse(c)
    BY <2>1, <2>2, MovesAlone DEF Refuse
  <2>3. CASE Begin(c)
    BY <2>1, <2>3, MovesAlone DEF Begin
  <2>4. CASE PassOver(c)
    <3>1. at[c] + 1 \in Nat /\ at[c] + 1 \in 1 .. ProblemCount(definition[c]) + 1
      BY <2>1, <2>4 DEF PassOver, AtProblem
    <3>2. /\ pc' = [pc EXCEPT ![c] = "problems"] /\ at' = [at EXCEPT ![c] = at[c] + 1]
          /\ CountSkipped(c) /\ UNCHANGED <<chosen, saved, remaining>>
      BY <2>1, <2>4 DEF PassOver, AtProblem
    <3>3. at[c] + 1 # at[c]
      BY <2>1
    <3> QED BY <3>1, <3>2, <3>3, MovesAlone
  <2>5. CASE Contradict(c)
    BY <2>1, <2>5, MovesAlone DEF Contradict
  <2>6. CASE NextProblem(c)
    <3>1. /\ at[c] + 1 \in Nat /\ at[c] + 1 \in 1 .. ProblemCount(definition[c]) + 1
          /\ at[c] + 1 # at[c]
      BY <2>1, <2>6 DEF NextProblem
    <3>2. /\ pc' = [pc EXCEPT ![c] = "problems"] /\ at' = [at EXCEPT ![c] = at[c] + 1]
          /\ summary' = summary /\ UNCHANGED <<chosen, saved, remaining>>
      BY <2>6 DEF NextProblem
    <3> QED BY <3>1, <3>2, MovesAlone
  <2>7. CASE Finish(c)
    BY <2>1, <2>7, MovesAlone DEF Finish
  <2>8. CASE Abort(c)
    BY <2>1, <2>8, MovesAlone DEF Abort
  <2> QED BY <2>2, <2>3, <2>4, <2>5, <2>6, <2>7, <2>8
<1>3. CASE Next
  BY <1>2, <1>3, BenchmarkHolds, AttemptHolds, ReproduceHolds DEF Next
<1> QED BY <1>1, <1>3

-----------------------------------------------------------------------------
(* The matrix of a campaign. *)

\* How many runs the places of one problem are.
LEMMA MatrixSizes ==
    ASSUME NEW c \in Processes, NEW d \in Definitions[c]
    PROVE  /\ IsFiniteSet(Attempts(d)) /\ Cardinality(Attempts(d)) = RunnableRuns(d)
           /\ RunnableRuns(d) \in Nat /\ SkippedRuns(d) \in Nat
           /\ RunnableRuns(d) + SkippedRuns(d) >= 1
           /\ ProblemCount(d) \in Nat \ {0}
           /\ Requested(d) = ProblemCount(d) * (RunnableRuns(d) + SkippedRuns(d))
           /\ Runnable(d) = {} => RunnableRuns(d) = 0
<1> DEFINE all == DOMAIN d.solvers
           asked == Cardinality(Runnable(d))
           left == Cardinality(all \ Runnable(d))
           n == Len(d.solvers)
           p == Len(d.sizes)
           q == Len(d.seeds)
           r == d.repeats
<1>1. /\ p \in Nat /\ q \in Nat /\ n \in Nat /\ r \in Nat \ {0} /\ all = 1 .. n
      /\ Runnable(d) \subseteq all
  BY DefinitionType
<1>2. p # 0 /\ q # 0 /\ n # 0
  <2>1. Valid(d)
    BY CampaignAssumption
  <2>2. d.sizes \in Seq(Nat \ {0}) /\ d.seeds \in Seq(Nat) /\ d.solvers \in Seq(SolverNames)
    BY <2>1 DEF Valid
  <2>3. d.sizes # << >> /\ d.seeds # << >> /\ d.solvers # << >>
    BY <2>1 DEF Valid, Unrepeated
  <2> QED BY <2>2, <2>3
<1>3. IsFiniteSet(all) /\ Cardinality(all) = n
  BY <1>1, <1>2, FS_Interval
<1>4. IsFiniteSet(Runnable(d)) /\ asked \in Nat
  <2>1. IsFiniteSet(all) /\ Runnable(d) \subseteq all
    BY <1>1, <1>3, Zenon
  <2> HIDE DEF all
  <2>2. IsFiniteSet(Runnable(d))
    BY <2>1, FS_Subset
  <2> QED BY <2>2, FS_CardinalityType
<1>5. left \in Nat /\ asked + left = n
  <2>1. all \cap Runnable(d) = Runnable(d)
    BY <1>1
  <2>2. IsFiniteSet(all \ Runnable(d)) /\ left = n - asked
    <3> DEFINE some == Runnable(d)
    <3>1. all \cap some = some /\ asked = Cardinality(some) /\ left = Cardinality(all \ some)
      BY <2>1
    <3> HIDE DEF some, all
    <3>2. /\ IsFiniteSet(all \ some)
          /\ Cardinality(all \ some) = Cardinality(all) - Cardinality(all \cap some)
      BY <1>3, FS_Difference
    <3>3. left = n - asked
      BY <1>3, <3>1, <3>2
    <3> QED BY <3>2, <3>3 DEF some
  <2>3. left \in Nat
    BY <2>2, FS_CardinalityType
  <2> QED BY <1>1, <1>4, <2>2, <2>3
<1>6. IsFiniteSet(0 .. r - 1) /\ Cardinality(0 .. r - 1) = r
  <2>1. 0 \in Int /\ r - 1 \in Int /\ ~ (0 > r - 1) /\ (r - 1) - 0 + 1 = r
    BY <1>1
  <2> QED BY <2>1, FS_Interval
<1>7. IsFiniteSet(Attempts(d)) /\ Cardinality(Attempts(d)) = RunnableRuns(d)
  BY <1>4, <1>6, FS_Product DEF Attempts, RunnableRuns
<1>8. RunnableRuns(d) = asked * r /\ SkippedRuns(d) = left * r
  BY DEF RunnableRuns, SkippedRuns
<1>9. \A a, b \in Nat : a * b \in Nat
  OBVIOUS
<1>10. RunnableRuns(d) \in Nat /\ SkippedRuns(d) \in Nat
  BY <1>1, <1>4, <1>5, <1>8, <1>9
<1>11. RunnableRuns(d) + SkippedRuns(d) = n * r
  <2>1. \A a, b, x \in Nat : a * x + b * x = (a + b) * x
    OBVIOUS
  <2> QED BY <1>1, <1>4, <1>5, <1>8, <2>1
<1>12. \A a, b \in Nat : a # 0 /\ b # 0 => a * b # 0
  OBVIOUS
<1>13. RunnableRuns(d) + SkippedRuns(d) >= 1
  <2>1. n * r # 0
    BY <1>1, <1>2, <1>12
  <2> QED BY <1>10, <1>11, <2>1
<1>14. ProblemCount(d) \in Nat \ {0}
  BY <1>1, <1>2, <1>9, <1>12 DEF ProblemCount
<1>15. Requested(d) = ProblemCount(d) * (RunnableRuns(d) + SkippedRuns(d))
  <2>1. \A a, b, x \in Nat : a * b * x = a * (b * x)
    OBVIOUS
  <2>2. Requested(d) = ProblemCount(d) * n * r
    BY DEF Requested
  <2> QED BY <1>1, <1>11, <1>14, <2>1, <2>2
<1>16. Runnable(d) = {} => RunnableRuns(d) = 0
  <2>1. \A x \in Nat : 0 * x = 0
    OBVIOUS
  <2> QED BY <1>1, <1>8, <2>1, FS_EmptySet
<1> QED
  BY <1>7, <1>10, <1>13, <1>14, <1>15, <1>16

Ordered(c) == Accounted(c) /\ Progress(c) /\ Covered(c)

\* What these say in the types of one process.
LEMMA CountType ==
    ASSUME CampaignCore, NEW c \in Processes, Accounted(c)
    PROVE  /\ IsFiniteSet(RunsOf(c)) /\ Cardinality(RunsOf(c)) \in Nat
           /\ IsFiniteSet(remaining[c]) /\ Cardinality(remaining[c]) \in Nat
           /\ \A s \in Statuses : summary[c][s] \in Nat
<1> DEFINE d == definition[c]
<1>1. IsFiniteSet(RunsOf(c)) /\ Cardinality(RunsOf(c)) \in Nat
  BY FS_CardinalityType DEF Accounted
<1>2. /\ remaining[c] \subseteq (DOMAIN d.solvers) \X (0 .. d.repeats - 1)
      /\ DOMAIN d.solvers = 1 .. Len(d.solvers) /\ Len(d.solvers) \in Nat /\ d.repeats \in Nat
  BY ProcessType, DefinitionType
<1>3. IsFiniteSet(1 .. Len(d.solvers)) /\ IsFiniteSet(0 .. d.repeats - 1)
  <2>1. 1 \in Int /\ 0 \in Int /\ Len(d.solvers) \in Int /\ d.repeats - 1 \in Int
    BY <1>2
  <2> QED BY <2>1, FS_Interval
<1>4. IsFiniteSet((DOMAIN d.solvers) \X (0 .. d.repeats - 1))
  BY <1>2, <1>3, FS_Product
<1>5. IsFiniteSet(remaining[c]) /\ Cardinality(remaining[c]) \in Nat
  BY <1>2, <1>4, FS_Subset, FS_CardinalityType
<1>6. \A s \in Statuses : summary[c][s] \in Nat
  BY DEF CampaignCore, TypeOK
<1> QED BY <1>1, <1>5, <1>6

\* A process that is not moved.
LEMMA NotMoved ==
    ASSUME NEW c \in Processes, Ordered(c), definition' = definition, RunsOf(c)' = RunsOf(c),
           pc'[c] = pc[c], at'[c] = at[c], remaining'[c] = remaining[c],
           summary'[c] = summary[c]
    PROVE  Ordered(c)'
<1>1. Accounted(c)'
  BY DEF Ordered, Accounted
<1>2. Progress(c)'
  BY DEF Ordered, Progress, ComesTo, ExceedsLimit
<1>3. Covered(c)'
  BY DEF Ordered, Covered, HasRun
<1> QED BY <1>1, <1>2, <1>3 DEF Ordered

LEMMA InitMatrix == Init => \A c \in Processes : Ordered(c)
<1> SUFFICES ASSUME Init, NEW c \in Processes PROVE Ordered(c)
  OBVIOUS
<1> DEFINE d == definition[c]
<1>1. /\ d \in Definitions[c] /\ pc[c] = "submitted" /\ at[c] = 1 /\ remaining[c] = {}
      /\ \A s \in Statuses : summary[c][s] = 0
  BY DEF Init
<1>2. RunsOf(c) = {}
  <2>1. \A run \in saved : OldRun(run)
    BY CampaignAssumption DEF Init
  <2> QED BY <2>1 DEF RunsOf, OldRun
<1>3. IsFiniteSet({}) /\ Cardinality({}) = 0
  BY FS_EmptySet
<1>4. {run \in RunsOf(c) : FALSE} = {} /\ \A s : {run \in RunsOf(c) : run.status = s} = {}
  BY <1>2
<1>5. Accounted(c)
  BY <1>1, <1>2, <1>3, <1>4 DEF Accounted, Statuses
<1>6. ComesTo(c, 0)
  <2>1. RunnableRuns(d) \in Nat /\ SkippedRuns(d) \in Nat
    BY <1>1, MatrixSizes
  <2>2. 0 * RunnableRuns(d) = 0 /\ 0 * SkippedRuns(d) = 0
    BY <2>1
  <2> QED BY <1>1, <1>2, <1>3, <2>2 DEF ComesTo, Statuses
<1>7. Progress(c)
  BY <1>1, <1>6 DEF Progress
<1>8. Covered(c)
  <2>1. \A k \in 1 .. at[c] : ~ (k < at[c])
    BY <1>1
  <2> QED BY <1>1, <2>1 DEF Covered
<1> QED BY <1>5, <1>7, <1>8 DEF Ordered

\* A process that moves and records nothing keeps its accounts.
LEMMA StillAccounted ==
    ASSUME CampaignCore, NEW c \in Processes, Accounted(c), definition' = definition,
           saved' = saved, summary' = summary \/ CountSkipped(c)
    PROVE  /\ Accounted(c)' /\ RunsOf(c)' = RunsOf(c)
           /\ summary' = summary => summary'[c]["skipped"] = summary[c]["skipped"]
           /\ CountSkipped(c) =>
                 summary'[c]["skipped"] = summary[c]["skipped"] + SkippedRuns(definition[c])
<1>1. RunsOf(c)' = RunsOf(c)
  BY DEF RunsOf
<1>2. /\ \A s \in Statuses \ {"skipped"} : summary'[c][s] = summary[c][s]
      /\ summary' = summary => summary'[c]["skipped"] = summary[c]["skipped"]
      /\ CountSkipped(c) =>
            summary'[c]["skipped"] = summary[c]["skipped"] + SkippedRuns(definition[c])
  BY DEF CampaignCore, TypeOK, CountSkipped, Statuses
<1>3. Accounted(c)'
  <2>1. \A s \in Statuses \ {"skipped"} :
           Cardinality({run \in RunsOf(c)' : run.status = s}) = summary'[c][s]
    BY <1>1, <1>2 DEF Accounted
  <2>2. /\ summary'[c]["success"] = summary[c]["success"]
        /\ summary'[c]["failed"] = summary[c]["failed"]
        /\ summary'[c]["unavailable"] = summary[c]["unavailable"]
    BY <1>2 DEF Statuses
  <2> QED BY <1>1, <2>1, <2>2 DEF Accounted
<1> QED BY <1>1, <1>2, <1>3

\* One more problem.
LEMMA OneMore ==
    ASSUME NEW n \in Nat, NEW m \in Nat
    PROVE  (n + 1) * m = n * m + m /\ (n + 1) - 1 = n /\ (n - 1) + 1 = n
OBVIOUS

\* No run of a campaign that contradicts itself, or that has just begun, exists.
LEMMA NoneRecorded ==
    ASSUME CampaignCore, NEW c \in Processes, Accounted(c),
           Contradictory(definition[c]) \/ (at[c] = 1 /\ pc[c] \in {"submitted", "problems"})
    PROVE  RunsOf(c) = {}
<1> SUFFICES ASSUME NEW run \in RunsOf(c) PROVE FALSE
  OBVIOUS
<1>1. /\ run \in saved /\ run.repeat # Nothing /\ run.execution[1] = c
      /\ run.execution[2] \in 1 .. ProblemCount(definition[c])
  BY DEF Accounted, RunsOf
<1>2. Filed(run)
  BY <1>1 DEF CampaignCore
<1>3. /\ ~ Contradictory(definition[c]) /\ run.execution[2] <= at[c]
      /\ run.execution[2] = at[c] => pc[c] \notin {"submitted", "problems"}
  BY <1>1, <1>2 DEF Filed
<1>4. ProblemCount(definition[c]) \in Nat /\ at[c] \in Nat
  BY ProcessType
<1> QED BY <1>1, <1>3, <1>4

\* The moves that record nothing.
LEMMA MovesInOrder ==
    ASSUME CampaignCore, NEW c \in Processes, Ordered(c),
           Refuse(c) \/ Begin(c) \/ PassOver(c) \/ Contradict(c) \/ Benchmark(c)
           \/ NextProblem(c) \/ Finish(c) \/ Abort(c)
    PROVE  Ordered(c)'
<1> DEFINE d == definition[c]
           m == RunnableRuns(d)
           k == SkippedRuns(d)
           n == at[c]
           runs == Cardinality(RunsOf(c))
<1>1. /\ definition' = definition /\ saved' = saved
      /\ summary' = summary \/ CountSkipped(c)
  BY DEF Refuse, Begin, PassOver, Contradict, Benchmark, NextProblem, Finish, Abort, chosen
<1>2. /\ d \in Definitions[c] /\ ProblemCount(d) \in Nat /\ n \in Nat /\ n >= 1
      /\ n <= ProblemCount(d) + 1
      /\ pc[c] = "benchmark" => n <= ProblemCount(d)
  BY ProcessType DEF CampaignCore, Underway
<1>3. /\ m \in Nat /\ k \in Nat /\ Cardinality(Attempts(d)) = m
      /\ Runnable(d) = {} => m = 0
  BY <1>2, MatrixSizes
<1>4. /\ Accounted(c)' /\ RunsOf(c)' = RunsOf(c)
      /\ summary' = summary => summary'[c]["skipped"] = summary[c]["skipped"]
      /\ CountSkipped(c) => summary'[c]["skipped"] = summary[c]["skipped"] + k
  BY <1>1, StillAccounted DEF Ordered
<1>5. Cardinality({}) = 0
  BY FS_EmptySet
<1>6. /\ n - 1 \in Nat /\ n * m = (n - 1) * m + m /\ n * k = (n - 1) * k + k
      /\ (n + 1) - 1 = n /\ (n - 1) + 1 = n
  <2>1. n - 1 \in Nat /\ (n - 1) + 1 = n /\ (n + 1) - 1 = n
    BY <1>2
  <2> QED BY <1>3, <2>1, OneMore
<1>7. /\ runs \in Nat /\ Cardinality(remaining[c]) \in Nat
      /\ summary[c]["skipped"] \in Nat
  BY CountType DEF Ordered, Statuses
<1>8. /\ Progress(c) /\ Covered(c)
      /\ pc \in [Processes -> {"submitted", "problems", "benchmark",
                               "refused", "failed", "aborted", "done"}]
      /\ at \in [Processes -> Nat] /\ remaining \in [Processes -> SUBSET (Nat \X Nat)]
  BY DEF Ordered, CampaignCore, TypeOK
<1>9. /\ ComesTo(c, 0) => runs + Cardinality(remaining[c]) = 0 /\ summary[c]["skipped"] = 0
      /\ ComesTo(c, n - 1) =>
            /\ runs + Cardinality(remaining[c]) = (n - 1) * m
            /\ summary[c]["skipped"] = (n - 1) * k
  <2>1. 0 * m = 0 /\ 0 * k = 0
    BY <1>3
  <2> QED BY <2>1 DEF ComesTo
<1>10. CASE Refuse(c)
  <2>1. /\ pc[c] = "submitted" /\ ExceedsLimit(c) /\ pc'[c] = "refused" /\ at'[c] = at[c]
        /\ remaining'[c] = remaining[c] /\ summary'[c] = summary[c]
    BY <1>8, <1>10 DEF Refuse
  <2>2. at[c] = 1 /\ ComesTo(c, 0) /\ remaining[c] = {}
    BY <1>8, <2>1 DEF Progress
  <2>3. ComesTo(c, 0)' /\ ExceedsLimit(c)'
    BY <1>1, <1>4, <2>1, <2>2 DEF ComesTo, ExceedsLimit
  <2>4. Progress(c)'
    BY <2>1, <2>2, <2>3 DEF Progress
  <2>5. Covered(c)'
    BY <2>1 DEF Covered
  <2> QED BY <1>4, <2>4, <2>5 DEF Ordered
<1>11. CASE Begin(c)
  <2>1. /\ pc[c] = "submitted" /\ pc'[c] = "problems" /\ at'[c] = at[c]
        /\ remaining'[c] = remaining[c] /\ summary'[c] = summary[c]
    BY <1>8, <1>11 DEF Begin
  <2>2. at[c] = 1 /\ ComesTo(c, 0) /\ remaining[c] = {}
    BY <1>8, <2>1 DEF Progress
  <2>3. ComesTo(c, 0)' /\ at'[c] = 1
    BY <1>1, <1>4, <2>1, <2>2 DEF ComesTo
  <2>4. Progress(c)'
    BY <2>1, <2>2, <2>3 DEF Progress
  <2>5. \A e \in 1 .. at'[c] : ~ (e < at'[c])
    BY <2>3
  <2>6. Covered(c)'
    BY <2>1, <2>5 DEF Covered
  <2> QED BY <1>4, <2>4, <2>6 DEF Ordered
<1>12. CASE PassOver(c)
  <2>1. /\ pc[c] = "problems" /\ pc'[c] = "problems" /\ at'[c] = n + 1
        /\ remaining'[c] = remaining[c] /\ summary'[c]["skipped"] = summary[c]["skipped"] + k
        /\ Runnable(d) = {} /\ n <= ProblemCount(d)
    BY <1>4, <1>8, <1>12 DEF PassOver, AtProblem
  <2>2. ComesTo(c, n - 1) /\ remaining[c] = {}
    BY <1>8, <2>1 DEF Progress
  <2>3. /\ runs + Cardinality(remaining[c]) = n * m
        /\ summary'[c]["skipped"] = n * k
    BY <1>3, <1>6, <1>7, <1>9, <2>1, <2>2
  <2>4. ComesTo(c, at[c] - 1)'
    BY <1>1, <1>4, <1>6, <2>1, <2>3 DEF ComesTo
  <2>5. Progress(c)'
    BY <2>1, <2>2, <2>4 DEF Progress
  <2>6. Covered(c)'
    BY <1>1, <2>1 DEF Covered
  <2> QED BY <1>4, <2>5, <2>6 DEF Ordered
<1>13. CASE Contradict(c)
  <2>1. /\ pc[c] = "problems" /\ pc'[c] = "failed" /\ at'[c] = n
        /\ remaining'[c] = remaining[c] /\ summary'[c]["skipped"] = summary[c]["skipped"] + k
        /\ Contradictory(d)
    BY <1>4, <1>8, <1>13 DEF Contradict, AtProblem
  <2>2. ComesTo(c, n - 1) /\ remaining[c] = {}
    BY <1>8, <2>1 DEF Progress
  <2>3. summary'[c]["skipped"] = n * k
    BY <1>3, <1>6, <1>7, <1>9, <2>1, <2>2
  <2>4. /\ Contradictory(definition'[c])
        /\ summary'[c]["skipped"] = at'[c] * SkippedRuns(definition'[c])
    BY <1>1, <2>1, <2>3
  <2>5. Progress(c)'
    BY <2>1, <2>2, <2>4 DEF Progress
  <2>6. Covered(c)'
    BY <2>1 DEF Covered
  <2> QED BY <1>4, <2>5, <2>6 DEF Ordered
<1>14. CASE Benchmark(c)
  <2>1. /\ pc[c] = "problems" /\ pc'[c] = "benchmark" /\ at'[c] = n
        /\ remaining'[c] = Attempts(d) /\ summary'[c]["skipped"] = summary[c]["skipped"] + k
    BY <1>4, <1>8, <1>14 DEF Benchmark, AtProblem
  <2>2. ComesTo(c, n - 1) /\ remaining[c] = {}
    BY <1>8, <2>1 DEF Progress
  <2>3. /\ runs + Cardinality(Attempts(d)) = n * m
        /\ summary'[c]["skipped"] = n * k
    BY <1>3, <1>5, <1>6, <1>7, <1>9, <2>1, <2>2
  <2>4. ComesTo(c, at[c])'
    BY <1>1, <1>4, <2>1, <2>3 DEF ComesTo
  <2>5. Progress(c)'
    BY <2>1, <2>4 DEF Progress
  <2>6. \A i \in Runnable(d), r \in 0 .. d.repeats - 1 : <<i, r>> \in Attempts(d)
    BY DEF Attempts
  <2>7. \A e, i, r : HasRun(c, e, i, r) => HasRun(c, e, i, r)'
    BY <1>1, <1>4 DEF HasRun
  <2>8. Covered(c)'
    BY <1>1, <1>8, <2>1, <2>6, <2>7 DEF Covered
  <2> QED BY <1>4, <2>5, <2>8 DEF Ordered
<1>15. CASE NextProblem(c)
  <2>1. /\ pc[c] = "benchmark" /\ pc'[c] = "problems" /\ at'[c] = n + 1
        /\ remaining'[c] = remaining[c] /\ summary'[c]["skipped"] = summary[c]["skipped"]
        /\ remaining[c] = {}
    BY <1>4, <1>8, <1>15 DEF NextProblem
  <2>2. ComesTo(c, n)
    BY <1>8, <2>1 DEF Progress
  <2>3. ComesTo(c, at[c] - 1)'
    BY <1>1, <1>4, <1>6, <2>1, <2>2 DEF ComesTo
  <2>4. Progress(c)'
    BY <2>1, <2>3 DEF Progress
  <2>5. \A e, i, r : HasRun(c, e, i, r) => HasRun(c, e, i, r)'
    BY <1>1, <1>4 DEF HasRun
  <2>6. \A e \in 1 .. at'[c] : e < at'[c] => e \in 1 .. n
    BY <1>2, <2>1
  <2>7. Covered(c)'
    BY <1>1, <1>8, <2>1, <2>5, <2>6 DEF Covered
  <2> QED BY <1>4, <2>4, <2>7 DEF Ordered
<1>16. CASE Finish(c)
  <2>1. /\ pc[c] = "problems" /\ pc'[c] = "done" /\ at'[c] = n
        /\ remaining'[c] = remaining[c] /\ summary'[c]["skipped"] = summary[c]["skipped"]
        /\ ~ (n <= ProblemCount(d))
    BY <1>4, <1>8, <1>16 DEF Finish, AtProblem
  <2>2. n = ProblemCount(d) + 1 /\ n - 1 = ProblemCount(d)
    BY <1>2, <2>1
  <2>3. ComesTo(c, n - 1) /\ remaining[c] = {}
    BY <1>8, <2>1 DEF Progress
  <2>4. (at[c] = ProblemCount(definition[c]) + 1 /\ ComesTo(c, ProblemCount(definition[c])))'
    BY <1>1, <1>4, <2>1, <2>2, <2>3 DEF ComesTo
  <2>5. Progress(c)'
    BY <2>1, <2>3, <2>4 DEF Progress
  <2>6. \A e, i, r : HasRun(c, e, i, r) => HasRun(c, e, i, r)'
    BY <1>1, <1>4 DEF HasRun
  <2>7. Covered(c)'
    BY <1>1, <1>8, <2>1, <2>6 DEF Covered
  <2> QED BY <1>4, <2>5, <2>7 DEF Ordered
<1>17. CASE Abort(c)
  <2>1. /\ pc'[c] = "aborted" /\ at'[c] = n
        /\ remaining'[c] = remaining[c] /\ summary'[c]["skipped"] = summary[c]["skipped"]
        /\ pc[c] = "benchmark" \/ (pc[c] = "problems" /\ n <= ProblemCount(d))
    BY <1>4, <1>8, <1>17 DEF Abort, AtProblem
  <2>2. n <= ProblemCount(d)
    BY <1>2, <2>1
  <2>3. ComesTo(c, n) \/ (ComesTo(c, n - 1) /\ remaining[c] = {})
    BY <1>8, <2>1 DEF Progress
  <2>4. (ComesTo(c, at[c]) \/ (ComesTo(c, at[c] - 1) /\ remaining[c] = {}))'
    BY <1>1, <1>4, <2>1, <2>3 DEF ComesTo
  <2>5. (at[c] <= ProblemCount(definition[c]))'
    BY <1>1, <2>1, <2>2
  <2>6. Progress(c)'
    BY <2>1, <2>4, <2>5 DEF Progress
  <2>7. Covered(c)'
    BY <2>1 DEF Covered
  <2> QED BY <1>4, <2>6, <2>7 DEF Ordered
<1> QED
  BY <1>10, <1>11, <1>12, <1>13, <1>14, <1>15, <1>16, <1>17

\* One record more, of a place that had none.
LEMMA OneRecord ==
    ASSUME CampaignCore, NEW c \in Processes, Accounted(c),
           NEW new, new \notin RunsOf(c), new.status \in Statuses \ {"skipped"},
           new.repeat # Nothing, new.execution[1] = c,
           new.execution[2] \in 1 .. ProblemCount(definition[c]),
           new.problem = ProblemAt(definition[c], new.execution[2]),
           definition' = definition, RunsOf(c)' = RunsOf(c) \cup {new},
           summary' = [summary EXCEPT ![c][new.status] = @ + 1]
    PROVE  /\ Accounted(c)'
           /\ Cardinality(RunsOf(c)') = Cardinality(RunsOf(c)) + 1
           /\ summary'[c]["skipped"] = summary[c]["skipped"]
<1> DEFINE runs == RunsOf(c)
           Now(s) == {run \in runs : run.status = s}
           Then(s) == {run \in RunsOf(c)' : run.status = s}
<1>1. /\ \A s \in Statuses : summary[c][s] \in Nat
      /\ IsFiniteSet(runs) /\ Cardinality(runs) \in Nat
  BY CountType
<1>2. /\ summary'[c][new.status] = summary[c][new.status] + 1
      /\ \A s \in Statuses \ {new.status} : summary'[c][s] = summary[c][s]
  BY DEF CampaignCore, TypeOK
<1>3. IsFiniteSet(RunsOf(c)') /\ Cardinality(RunsOf(c)') = Cardinality(runs) + 1
  BY <1>1, FS_AddElement
<1>4. ASSUME NEW s \in Statuses \ {"skipped"}
      PROVE  Cardinality(Then(s)) = summary'[c][s]
  <2>1. Cardinality(Now(s)) = summary[c][s] /\ Now(s) \in SUBSET runs
    BY DEF Accounted
  <2>2. IsFiniteSet(Now(s))
    BY <1>1, <2>1, FS_Subset
  <2>3. CASE s = new.status
    <3>1. Then(s) = Now(s) \cup {new} /\ new \notin Now(s)
      BY <2>3
    <3>2. Cardinality(Now(s) \cup {new}) = Cardinality(Now(s)) + 1
      BY <2>2, <3>1, FS_AddElement
    <3> HIDE DEF Then, Now
    <3>3. Cardinality(Then(s)) = summary[c][s] + 1
      BY <2>1, <3>1, <3>2
    <3> QED BY <1>2, <2>3, <3>3
  <2>4. CASE s # new.status
    <3>1. Then(s) = Now(s)
      BY <2>4
    <3> HIDE DEF Then, Now
    <3>2. Cardinality(Then(s)) = summary[c][s]
      BY <2>1, <3>1
    <3> QED BY <1>2, <2>4, <3>2
  <2> QED BY <2>3, <2>4
<1>5. Cardinality(RunsOf(c)') = summary'[c]["success"] + summary'[c]["failed"]
                                + summary'[c]["unavailable"]
  <2>1. Cardinality(runs) = summary[c]["success"] + summary[c]["failed"]
                            + summary[c]["unavailable"]
    BY DEF Accounted
  <2>2. new.status \in {"success", "failed", "unavailable"}
    BY DEF Statuses
  <2>3. /\ summary[c]["success"] \in Nat /\ summary[c]["failed"] \in Nat
        /\ summary[c]["unavailable"] \in Nat
    BY <1>1 DEF Statuses
  <2> QED BY <1>2, <1>3, <2>1, <2>2, <2>3 DEF Statuses
<1>6. \A run \in RunsOf(c)' :
         /\ run.repeat # Nothing /\ run.execution[1] = c
         /\ run.execution[2] \in 1 .. ProblemCount(definition[c])
         /\ run.problem = ProblemAt(definition[c], run.execution[2])
  BY DEF Accounted
<1>7. Accounted(c)'
  BY <1>3, <1>4, <1>5, <1>6 DEF Accounted
<1>8. summary'[c]["skipped"] = summary[c]["skipped"]
  BY <1>2 DEF Statuses
<1> QED BY <1>3, <1>7, <1>8

LEMMA AttemptInOrder ==
    ASSUME CampaignCore, NEW c \in Processes, Ordered(c), Attempt(c)
    PROVE  /\ Ordered(c)'
           /\ \A e \in Processes \ {c} : RunsOf(e)' = RunsOf(e)
<1> DEFINE d == definition[c]
           problem == ProblemAt(d, at[c])
<1>1. /\ definition' = definition /\ pc' = pc /\ at' = at /\ pc[c] = "benchmark"
  BY DEF Attempt, chosen
<1>2. PICK next \in remaining[c] :
         \E result \in Results(d.solvers[next[1]], problem, Setting(d, d.solvers[next[1]], next[2])) :
            /\ saved' = saved \cup {Record(NewId(c), problem, d.solvers[next[1]], <<c, at[c]>>,
                                 next[2], Setting(d, d.solvers[next[1]], next[2]), result)}
            /\ summary' = [summary EXCEPT ![c][result.status] = @ + 1]
            /\ remaining' = [remaining EXCEPT ![c] = @ \ {next}]
  BY DEF Attempt
<1> DEFINE solver == d.solvers[next[1]]
           setting == Setting(d, solver, next[2])
<1>3. PICK result \in Results(solver, problem, setting) :
         /\ saved' = saved \cup {Record(NewId(c), problem, solver, <<c, at[c]>>, next[2],
                                        setting, result)}
         /\ summary' = [summary EXCEPT ![c][result.status] = @ + 1]
         /\ remaining' = [remaining EXCEPT ![c] = @ \ {next}]
  BY <1>2
<1>4. PICK new : new = Record(NewId(c), problem, solver, <<c, at[c]>>, next[2], setting, result)
  OBVIOUS
<1>5. /\ d \in Definitions[c] /\ next \in Attempts(d)
      /\ at[c] \in 1 .. ProblemCount(d) /\ at[c] \in Nat
  BY <1>1, ProcessType DEF CampaignCore, Underway
<1>6. /\ problem \in DOMAIN Objectives /\ solver \in SolverNames
      /\ next = <<next[1], next[2]>> /\ next[1] \in Runnable(d) /\ next[2] \in 0 .. d.repeats - 1
      /\ d.repeats \in Nat
  BY <1>5, CampaignAssumption, DefinitionType DEF Attempts
<1>7. /\ new.id.by = c /\ new.status = result.status /\ new.execution = <<c, at[c]>>
      /\ new.repeat = next[2] /\ new.solver = solver /\ new.problem = problem
  BY <1>4 DEF Record, NewId
<1>8. new.repeat # Nothing
  BY <1>6, <1>7, CampaignAssumption
<1>9. new \notin saved
  <2>1. SUFFICES ASSUME new \in saved PROVE FALSE
    OBVIOUS
  <2>2. new.solver # d.solvers[next[1]]
    BY <1>1, <1>7, <1>8, <2>1, PlaceIsFree
  <2> QED BY <1>7, <2>2
<1>10. /\ RunsOf(c)' = RunsOf(c) \cup {new} /\ new \notin RunsOf(c)
       /\ \A e \in Processes \ {c} : RunsOf(e)' = RunsOf(e)
  <2>1. saved' = saved \cup {new}
    BY <1>3, <1>4
  <2> QED BY <1>7, <1>9, <2>1 DEF RunsOf
<1>11. result.status \in Statuses \ {"skipped"}
  BY <1>6, ResultIsHonest
<1>12. /\ Accounted(c)'
       /\ Cardinality(RunsOf(c)') = Cardinality(RunsOf(c)) + 1
       /\ summary'[c]["skipped"] = summary[c]["skipped"]
  <2>1. /\ new.execution[1] = c /\ new.execution[2] = at[c]
    BY <1>7
  <2>2. Accounted(c)
    BY DEF Ordered
  <2>3. summary' = [summary EXCEPT ![c][new.status] = @ + 1]
    BY <1>3, <1>7
  <2>4. new.status \in Statuses \ {"skipped"}
    BY <1>7, <1>11
  <2> HIDE DEF problem, solver, setting
  <2>5. new.problem = ProblemAt(definition[c], new.execution[2])
    BY <1>7, <2>1 DEF problem
  <2>6. new.execution[2] \in 1 .. ProblemCount(definition[c])
    BY <1>5, <2>1
  <2> QED BY <1>1, <1>8, <1>10, <2>1, <2>2, <2>3, <2>4, <2>5, <2>6, OneRecord
<1>13. remaining'[c] = remaining[c] \ {next}
  BY <1>3 DEF CampaignCore, TypeOK
<1>14. Cardinality(remaining'[c]) = Cardinality(remaining[c]) - 1
  <2>1. IsFiniteSet(remaining[c])
    BY CountType DEF Ordered
  <2> QED BY <1>13, <2>1, FS_RemoveElement
<1>15. Progress(c)'
  <2>1. ComesTo(c, at[c])
    BY <1>1 DEF Ordered, Progress
  <2>2. Cardinality(RunsOf(c)) \in Nat /\ Cardinality(remaining[c]) \in Nat
    BY CountType DEF Ordered
  <2>3. Cardinality(RunsOf(c)') + Cardinality(remaining'[c])
        = Cardinality(RunsOf(c)) + Cardinality(remaining[c])
    BY <1>12, <1>14, <2>2
  <2>4. ComesTo(c, at[c])'
    BY <1>1, <1>12, <2>1, <2>3 DEF ComesTo
  <2> QED BY <1>1, <2>4 DEF Progress
<1>16. Covered(c)'
  <2>1. \A e, i, r : HasRun(c, e, i, r) => HasRun(c, e, i, r)'
    BY <1>1, <1>10 DEF HasRun
  <2>2. HasRun(c, at[c], next[1], next[2])'
    <3>1. new \in RunsOf(c)'
      BY <1>10
    <3>2. /\ new.execution = <<c, at'[c]>> /\ new.problem = ProblemAt(definition'[c], at'[c])
          /\ new.solver = definition'[c].solvers[next[1]] /\ new.repeat = next[2]
      BY <1>1, <1>7
    <3> QED BY <3>1, <3>2 DEF HasRun
  <2>3. ASSUME NEW e \in 1 .. at'[c], NEW i \in Runnable(d), NEW r \in 0 .. d.repeats - 1,
               e < at'[c] \/ <<i, r>> \notin remaining'[c]
        PROVE  HasRun(c, e, i, r)'
    <3>1. CASE e < at[c] \/ <<i, r>> \notin remaining[c]
      <4>1. HasRun(c, e, i, r)
        BY <1>1, <2>3, <3>1 DEF Ordered, Covered
      <4> QED BY <2>1, <4>1
    <3>2. CASE ~ (e < at[c]) /\ <<i, r>> \in remaining[c]
      <4>1. <<i, r>> = next /\ e = at[c]
        BY <1>1, <1>5, <1>13, <2>3, <3>2
      <4>2. i = next[1] /\ r = next[2]
        BY <4>1
      <4> QED BY <1>1, <2>2, <4>1, <4>2 DEF HasRun
    <3> QED BY <3>1, <3>2
  <2> QED BY <1>1, <2>3 DEF Covered
<1> QED
  BY <1>10, <1>12, <1>15, <1>16 DEF Ordered

LEMMA ReproduceInOrder ==
    ASSUME CampaignCore, NEW run \in saved, Reproduce(run), NEW c \in Processes, Ordered(c)
    PROVE  Ordered(c)'
<1>1. PICK result \in Results(run.solver, run.problem, run) :
         saved' = saved \cup {Record(NewId("rerun"), run.problem, run.solver,
                                    << >>, Nothing, run, result)}
  BY DEF Reproduce
<1>2. PICK new : new = Record(NewId("rerun"), run.problem, run.solver,
                              << >>, Nothing, run, result)
  OBVIOUS
<1>3. new.id.by = "rerun" /\ saved' = saved \cup {new}
  BY <1>1, <1>2 DEF Record, NewId
<1>4. RunsOf(c)' = RunsOf(c)
  BY <1>3, CampaignAssumption DEF RunsOf
<1> QED
  BY <1>4, NotMoved DEF Reproduce, chosen

\* A process other than the one that moves is not moved.
LEMMA OthersStay ==
    ASSUME CampaignCore, NEW c \in Processes, NEW e \in Processes \ {c},
           \/ Refuse(c) \/ Begin(c) \/ PassOver(c) \/ Contradict(c) \/ Benchmark(c)
           \/ NextProblem(c) \/ Finish(c) \/ Abort(c) \/ Attempt(c)
    PROVE  /\ definition' = definition
           /\ pc'[e] = pc[e] /\ at'[e] = at[e] /\ remaining'[e] = remaining[e]
           /\ summary'[e] = summary[e]
BY DEF CampaignCore, TypeOK, Refuse, Begin, PassOver, Contradict, Benchmark, NextProblem,
       Finish, Abort, Attempt, CountSkipped, chosen

LEMMA StepInOrder ==
    ASSUME CampaignInv, [Next]_vars
    PROVE  \A c \in Processes : Ordered(c)'
<1>1. CampaignCore /\ \A c \in Processes : Ordered(c)
  BY DEF CampaignInv, Ordered
<1>2. CASE UNCHANGED vars
  <2>1. definition' = definition /\ \A c \in Processes : RunsOf(c)' = RunsOf(c)
    BY <1>2 DEF vars, RunsOf
  <2> QED BY <1>1, <1>2, <2>1, NotMoved DEF vars
<1>3. ASSUME NEW c \in Processes,
             \/ Refuse(c) \/ Begin(c) \/ PassOver(c) \/ Contradict(c) \/ Benchmark(c)
             \/ NextProblem(c) \/ Finish(c) \/ Abort(c)
      PROVE  \A e \in Processes : Ordered(e)'
  <2>1. \A e \in Processes : RunsOf(e)' = RunsOf(e)
    BY <1>3 DEF Refuse, Begin, PassOver, Contradict, Benchmark, NextProblem, Finish, Abort, RunsOf
  <2>2. \A e \in Processes \ {c} : Ordered(e)'
    BY <1>1, <1>3, <2>1, OthersStay, NotMoved
  <2>3. Ordered(c)'
    BY <1>1, <1>3, MovesInOrder
  <2> QED BY <2>2, <2>3
<1>4. ASSUME NEW c \in Processes, Attempt(c)
      PROVE  \A e \in Processes : Ordered(e)'
  <2>1. Ordered(c)' /\ \A e \in Processes \ {c} : RunsOf(e)' = RunsOf(e)
    BY <1>1, <1>4, AttemptInOrder
  <2>2. \A e \in Processes \ {c} : Ordered(e)'
    BY <1>1, <1>4, <2>1, OthersStay, NotMoved
  <2> QED BY <2>1, <2>2
<1>5. ASSUME NEW run \in saved, Reproduce(run)
      PROVE  \A c \in Processes : Ordered(c)'
  BY <1>1, <1>5, ReproduceInOrder
<1> QED BY <1>2, <1>3, <1>4, <1>5 DEF Next

\* The definitions are chosen once, and every run of a campaign is a run of its
\* matrix; where the campaign is tells how many of them there are.
THEOREM Invariance == Spec => []CampaignInv
<1>1. Init => CampaignInv
  BY InitHolds, InitMatrix DEF CampaignInv, Ordered
<1>2. CampaignInv /\ [Next]_vars => CampaignInv'
  <2>1. CampaignInv /\ [Next]_vars => CampaignCore'
    BY StepHolds DEF CampaignInv
  <2>2. CampaignInv /\ [Next]_vars => (\A c \in Processes : Ordered(c))'
    BY StepInOrder
  <2> QED BY <2>1, <2>2 DEF CampaignInv, Ordered
<1> QED BY <1>1, <1>2, PTL DEF Spec

LEMMA CoreHolds == Spec => []CampaignCore
<1>1. CampaignInv => CampaignCore
  BY DEF CampaignInv
<1> QED BY <1>1, Invariance, PTL

-----------------------------------------------------------------------------
(* What follows from the invariant. *)

THEOREM Types == Spec => []TypeOK
<1>1. CampaignCore => TypeOK
  BY DEF CampaignCore
<1> QED BY <1>1, CoreHolds, PTL

\* Every recorded run has the settings that the definition gives its solver,
\* whatever was matched with whatever.
LEMMA InvKeepsSettings == CampaignCore => SettingsAreKept
<1> SUFFICES ASSUME CampaignCore, NEW run \in saved, run.repeat # Nothing
             PROVE  LET d == definition[run.execution[1]]
                    IN  /\ run.seed = Seed(d, run.solver) + run.repeat
                        /\ run.controls \in Controls => run.controls = Resolved[d.given[run.solver]]
                        /\ d.supplied[run.solver] # << >> =>
                              run.candidates = d.supplied[run.solver]
  BY DEF SettingsAreKept
<1> DEFINE d == definition[run.execution[1]]
<1>1. /\ ~ Contradictory(d)
      /\ run.seed = Setting(d, run.solver, run.repeat).seed
      /\ run.controls = Setting(d, run.solver, run.repeat).controls
      /\ run.candidates = Setting(d, run.solver, run.repeat).candidates
  BY DEF CampaignCore, Filed
<1>2. PICK i \in Runnable(d) : run.solver = d.solvers[i]
  BY DEF CampaignCore, Filed
<1> HIDE DEF d
<1>3. CASE IsMatched(d, run.solver) /\ CanMatch(d)
  <2>1. Cardinality(Matched(d)) >= 2 /\ i \in Matched(d)
    BY <1>2, <1>3 DEF IsMatched, Matched
  <2>2. /\ Resolved[d.given[run.solver]] = Resolved[d.given[Lead(d)]]
        /\ Seed(d, run.solver) = Seed(d, Lead(d))
        /\ d.supplied[run.solver] = d.supplied[Lead(d)]
    BY <1>1, <1>2, <2>1 DEF Contradictory
  <2> QED BY <1>1, <1>3, <2>2 DEF Setting, Candidates, d
<1>4. CASE ~ (IsMatched(d, run.solver) /\ CanMatch(d))
  <2>1. /\ run.seed = Seed(d, run.solver) + run.repeat
        /\ run.controls = OwnControls(d, run.solver)
        /\ run.candidates = d.supplied[run.solver]
    BY <1>1, <1>4 DEF Setting, OwnSetting
  <2>2. OwnControls(d, run.solver) \in {Unusable, Nothing, Resolved[d.given[run.solver]]}
    BY DEF OwnControls
  <2> QED BY <2>1, <2>2, CampaignAssumption DEF d
<1> QED BY <1>3, <1>4

\* Matching fills in what a definition leaves open and replaces nothing.
THEOREM SettingsKept == Spec => []SettingsAreKept
BY InvKeepsSettings, CoreHolds, PTL

\* A successful quantum run of a benchmark with a second quantum solver has the
\* settings that its repeat has for all of them.
LEMMA IsGivenTheMatched ==
    ASSUME CampaignCore, NEW run \in saved, run.repeat # Nothing, run.solver \in Quantum,
           run.status = "success", NEW d, d = definition[run.execution[1]],
           Cardinality(Matched(d)) >= 2
    PROVE  /\ run.seed = Seed(d, Lead(d)) + run.repeat
           /\ run.controls = Resolved[d.given[Lead(d)]]
           /\ run.candidates = Candidates(d, run.repeat)
           /\ Recorded(run)
<1>1. /\ ~ Contradictory(d)
      /\ run.seed = Setting(d, run.solver, run.repeat).seed
      /\ run.controls = Setting(d, run.solver, run.repeat).controls
      /\ run.candidates = Setting(d, run.solver, run.repeat).candidates
  BY DEF CampaignCore, Filed
<1>2. PICK i \in Runnable(d) : run.solver = d.solvers[i]
  BY DEF CampaignCore, Filed
<1>3. /\ Resolved[d.given[run.solver]] = Resolved[d.given[Lead(d)]]
      /\ d.supplied[run.solver] = d.supplied[Lead(d)]
  <2>1. i \in Matched(d)
    BY <1>2 DEF Matched
  <2> QED BY <1>1, <1>2, <2>1 DEF Contradictory
<1>4. run.controls # Unusable /\ (run.candidates # << >> \/ "numpy" \in installed)
  BY DEF CampaignCore, Honest, Able
<1>5. CanMatch(d)
  <2> SUFFICES ASSUME ~ CanMatch(d) PROVE FALSE
    OBVIOUS
  <2>1. run.candidates = d.supplied[run.solver]
    BY <1>1 DEF Setting, OwnSetting
  <2> QED BY <1>3, <1>4, <2>1 DEF CanMatch
<1>6. /\ run.seed = Seed(d, Lead(d)) + run.repeat
      /\ run.controls = Resolved[d.given[Lead(d)]]
      /\ run.candidates = Candidates(d, run.repeat)
  BY <1>1, <1>5 DEF Setting, IsMatched
<1>7. run.candidates # << >>
  BY <1>6 DEF Candidates
<1>8. run.controls # Nothing
  <2>1. run.execution[1] \in Processes /\ run.solver \in SolverNames
    BY DEF CampaignCore, Filed, Honest
  <2>2. d.given[run.solver] \in DOMAIN Resolved
    BY <2>1, ProcessType, CampaignAssumption
  <2>3. run.controls \in Controls
    BY <1>3, <1>4, <1>6, <2>2, CampaignAssumption
  <2> QED BY <2>3, CampaignAssumption
<1> QED BY <1>6, <1>7, <1>8 DEF Recorded

LEMMA InvMatchesControls == CampaignCore => ControlsMatch
<1> SUFFICES ASSUME CampaignCore, NEW l \in saved, NEW r \in saved,
                    l.repeat # Nothing, l.repeat = r.repeat, l.execution = r.execution,
                    {l.solver, r.solver} \subseteq Quantum, l.solver # r.solver,
                    l.status = "success", r.status = "success"
             PROVE  Numerical(l, r) = "matched"
  BY DEF ControlsMatch
<1> DEFINE d == definition[l.execution[1]]
<1>1. PICK i \in Runnable(d) : l.solver = d.solvers[i]
  BY DEF CampaignCore, Filed
<1>2. PICK j \in Runnable(d) : r.solver = d.solvers[j]
  BY DEF CampaignCore, Filed
<1>3. Cardinality(Matched(d)) >= 2
  <2>1. l.execution[1] \in Processes
    BY DEF CampaignCore, Filed
  <2>2. /\ Matched(d) \subseteq 1 .. Len(d.solvers) /\ Len(d.solvers) \in Nat
    BY <2>1, ProcessType, DefinitionType DEF Matched
  <2>3. IsFiniteSet(Matched(d))
    <3>1. IsFiniteSet(1 .. Len(d.solvers))
      BY <2>2, FS_Interval
    <3> QED BY <2>2, <3>1, FS_Subset
  <2>4. i # j /\ {i} \cup {j} \subseteq Matched(d)
    BY <1>1, <1>2 DEF Matched
  <2>5. IsFiniteSet({i}) /\ Cardinality({i}) = 1
    BY FS_Singleton
  <2>6. Cardinality({i} \cup {j}) = 2
    <3>1. j \notin {i}
      BY <2>4
    <3>2. Cardinality({i} \cup {j}) = Cardinality({i}) + 1
      BY <2>5, <3>1, FS_AddElement
    <3> QED BY <2>5, <3>2
  <2>7. Cardinality({i} \cup {j}) <= Cardinality(Matched(d))
    BY <2>3, <2>4, FS_Subset
  <2> QED BY <2>3, <2>6, <2>7, FS_CardinalityType
<1>4. Recorded(l) /\ Recorded(r) /\ SameControls(l, r)
  BY <1>3, IsGivenTheMatched DEF SameControls
<1> QED BY <1>4 DEF Numerical

\* Successful quantum runs of one repeat are compared under equal settings.
THEOREM MatchedControls == Spec => []ControlsMatch
BY InvMatchesControls, CoreHolds, PTL

-----------------------------------------------------------------------------
(* What the analysis makes of it. *)

\* The reference of a selection is the optimum of its problem.
LEMMA ReferenceIsOptimum ==
    ASSUME CampaignCore, NEW S \in SUBSET saved, NEW p, Reference(p, S) # Nothing
    PROVE  Objectives[p] # {} /\ Reference(p, S) = Optimum(p)
<1>1. Reference(p, S) \in References(p, S)
  <2>1. Sole(References(p, S)) # {} /\ Reference(p, S) \in Sole(References(p, S))
    BY DEF Reference
  <2> QED BY <2>1 DEF Sole
<1>2. PICK run \in S : /\ run.problem = p /\ run.solver = "exact"
                      /\ run.objective # Nothing /\ Reference(p, S) = run.objective
  BY <1>1 DEF References, Of
<1>3. p \in DOMAIN Objectives /\ Reference(p, S) \in Best(p)
  BY <1>2 DEF CampaignCore, Honest
<1>4. Objectives[p] # {}
  BY <1>3 DEF Best
<1> QED BY <1>3, <1>4, OptimumIsBest

\* An objective is a number, at its distance from the optimum.
LEMMA ObjectiveType ==
    ASSUME CampaignCore, NEW run \in saved, run.objective # Nothing
    PROVE  /\ run.problem \in DOMAIN Objectives /\ Objectives[run.problem] # {}
           /\ run.objective \in Int /\ Optimum(run.problem) \in Int
           /\ Distance(run) \in Int /\ Distance(run) >= 0
           /\ Sense[run.problem] \in {"maximize", "minimize"}
<1>1. run.problem \in DOMAIN Objectives /\ run.objective \in Objectives[run.problem]
  BY DEF CampaignCore, Honest, Best
<1>2. /\ run.objective \in Int /\ Objectives[run.problem] # {}
      /\ Sense[run.problem] \in {"maximize", "minimize"}
  BY <1>1, CampaignAssumption
<1>3. /\ Optimum(run.problem) \in Int
      /\ IF Sense[run.problem] = "maximize" THEN Optimum(run.problem) >= run.objective
                                            ELSE Optimum(run.problem) <= run.objective
  BY <1>1, <1>2, OptimumIsBest
<1>4. CASE Sense[run.problem] = "maximize"
  BY <1>1, <1>2, <1>3, <1>4 DEF Distance
<1>5. CASE Sense[run.problem] # "maximize"
  BY <1>1, <1>2, <1>3, <1>5 DEF Distance
<1> QED BY <1>4, <1>5

LEMMA InvGivesQuality == CampaignCore => QualityIsTrue
<1> SUFFICES ASSUME CampaignCore, NEW S \in Selections
             PROVE  /\ \A run \in S : Gap(run, S) # Nothing => Gap(run, S) = Distance(run)
                    /\ \A pair \in Complete(S) : \A l \in pair.left, r \in pair.right :
                          Improvement(l, r) # Nothing =>
                             Improvement(l, r) = Distance(r) - Distance(l)
                    /\ AtOptimum(S, S) = {run \in Rated(S, S) : Distance(run) = 0}
  BY DEF QualityIsTrue
<1>1. S \in SUBSET saved
  BY DEF Selections
<1>2. ASSUME NEW run \in S, Gap(run, S) # Nothing
      PROVE  Gap(run, S) = Distance(run)
  <2>1. run.objective # Nothing /\ Reference(run.problem, S) # Nothing
    BY <1>2 DEF Gap
  <2>2. Reference(run.problem, S) = Optimum(run.problem)
    BY <1>1, <2>1, ReferenceIsOptimum
  <2>3. Gap(run, S) = AbsoluteGap(Optimum(run.problem), run.objective, Sense[run.problem])
    BY <2>1, <2>2 DEF Gap
  <2>4. Distance(run) \in Int /\ Distance(run) >= 0
    BY <1>1, <2>1, ObjectiveType
  <2> QED BY <2>3, <2>4 DEF AbsoluteGap, Distance
<1>3. ASSUME NEW pair \in Complete(S), NEW l \in pair.left, NEW r \in pair.right,
             Improvement(l, r) # Nothing
      PROVE  Improvement(l, r) = Distance(r) - Distance(l)
  <2>1. PICK key \in Keys(S) : pair \in PairsOf(key, S)
    BY DEF Complete, Pairs
  <2>2. PICK two \in SolverPairs : /\ pair.left = Sole(Slot(key, two[1], S))
                                  /\ pair.right = Sole(Slot(key, two[2], S))
    BY <2>1 DEF PairsOf
  <2>3. /\ l \in S /\ r \in S /\ Key(l) = key /\ Key(r) = key
    BY <2>2 DEF Sole, Slot, Paired
  <2>4. l.problem = r.problem
    BY <2>3 DEF Key
  <2>5. l.objective # Nothing /\ r.objective # Nothing
    BY <1>3 DEF Improvement
  <2>6. /\ l.objective \in Int /\ r.objective \in Int /\ Optimum(l.problem) \in Int
        /\ Sense[l.problem] \in {"maximize", "minimize"}
    BY <1>1, <2>3, <2>5, ObjectiveType
  <2>7. CASE Sense[l.problem] = "maximize"
    BY <2>4, <2>5, <2>6, <2>7 DEF Improvement, Distance
  <2>8. CASE Sense[l.problem] = "minimize"
    BY <2>4, <2>5, <2>6, <2>8 DEF Improvement, Distance
  <2> QED BY <2>6, <2>7, <2>8
<1>4. AtOptimum(S, S) = {run \in Rated(S, S) : Distance(run) = 0}
  <2>1. ASSUME NEW run \in Rated(S, S)
        PROVE  run.objective = Reference(run.problem, S) <=> Distance(run) = 0
    <3>1. /\ run \in saved /\ run.objective # Nothing
          /\ Reference(run.problem, S) = Optimum(run.problem)
      BY <1>1, ReferenceIsOptimum DEF Rated
    <3>2. run.objective \in Int /\ Optimum(run.problem) \in Int
      BY <3>1, ObjectiveType
    <3> QED BY <3>1, <3>2 DEF Distance
  <2> QED BY <2>1 DEF AtOptimum
<1> QED BY <1>2, <1>3, <1>4

\* Whatever runs an analysis reads, its gaps, improvements and optimality counts
\* are those of the problems themselves.
THEOREM TrueQuality == Spec => []QualityIsTrue
BY InvGivesQuality, CoreHolds, PTL

\* Two runs have one label when their repeats, or for want of them their seeds,
\* are the same.
LEMMA SameLabel ==
    ASSUME NEW l, NEW r
    PROVE  Label(l) = Label(r) <=>
              \/ l.repeat # Nothing /\ l.repeat = r.repeat
              \/ l.repeat = Nothing /\ r.repeat = Nothing /\ l.seed = r.seed
BY DEF Label

\* The runs of a selection that share a slot with one of its runs.
LEMMA SlotMates ==
    ASSUME CampaignCore, NEW S \in SUBSET saved, NEW run \in S, run.execution # << >>
    PROVE  Slot(Key(run), run.solver, S) = {run}
              <=> (run.repeat = Nothing => Alone(run, S))
<1>1. run \in Slot(Key(run), run.solver, S)
  BY DEF Slot, Paired
<1>2. ASSUME NEW other \in S
      PROVE  other \in Slot(Key(run), run.solver, S) <=>
                /\ other.problem = run.problem /\ other.execution = run.execution
                /\ other.solver = run.solver /\ Label(other) = Label(run)
  BY DEF Slot, Paired, Key
<1>3. CASE run.repeat # Nothing
  <2>1. ASSUME NEW other \in Slot(Key(run), run.solver, S) PROVE other = run
    <3>1. other \in S
      BY DEF Slot, Paired
    <3>2. SamePlace(run, other)
      BY <1>2, <1>3, <3>1, SameLabel DEF SamePlace
    <3> QED BY <1>3, <3>1, <3>2 DEF CampaignCore
  <2> QED BY <1>1, <1>3, <2>1
<1>4. CASE run.repeat = Nothing
  <2>1. ASSUME NEW other \in S
        PROVE  other \in Slot(Key(run), run.solver, S) <=>
                  /\ other.problem = run.problem /\ other.execution = run.execution
                  /\ other.repeat = Nothing
                  /\ other.solver = run.solver /\ other.seed = run.seed
    BY <1>2, <1>4, SameLabel
  <2>2. Slot(Key(run), run.solver, S) \subseteq S
    BY DEF Slot, Paired
  <2> QED BY <1>1, <1>4, <2>1, <2>2 DEF Alone
<1> QED BY <1>3, <1>4

LEMMA InvFormsPairs == CampaignCore => PairsAreTheSlots
<1> SUFFICES ASSUME CampaignCore, NEW S \in Selections, NEW l \in S, NEW r \in S
             PROVE  <<{l}, {r}>> \in {<<pair.left, pair.right>> : pair \in Complete(S)}
                    <=> (<<l.solver, r.solver>> \in SolverPairs /\ BelongTogether(l, r, S))
  BY DEF PairsAreTheSlots
<1>1. S \in SUBSET saved
  BY DEF Selections
<1>2. ASSUME NEW pair \in Complete(S), pair.left = {l}, pair.right = {r}
      PROVE  <<l.solver, r.solver>> \in SolverPairs /\ BelongTogether(l, r, S)
  <2>1. PICK key \in Keys(S) : pair \in PairsOf(key, S)
    BY DEF Complete, Pairs
  <2>2. PICK two \in SolverPairs : /\ pair.left = Sole(Slot(key, two[1], S))
                                  /\ pair.right = Sole(Slot(key, two[2], S))
    BY <2>1 DEF PairsOf
  <2>3. /\ Slot(key, two[1], S) = {l} /\ Slot(key, two[2], S) = {r}
    BY <1>2, <2>2 DEF Sole
  <2>4. /\ Key(l) = key /\ l.solver = two[1] /\ l.execution # << >>
        /\ Key(r) = key /\ r.solver = two[2] /\ r.execution # << >>
    BY <2>3 DEF Slot, Paired
  <2>5. <<l.solver, r.solver>> \in SolverPairs
    <3>1. two = <<two[1], two[2]>>
      BY DEF SolverPairs
    <3> QED BY <2>4, <3>1
  <2>6. /\ l.problem = r.problem /\ l.execution = r.execution /\ Label(l) = Label(r)
    BY <2>4 DEF Key
  <2>7. /\ l.repeat = Nothing => Alone(l, S)
        /\ r.repeat = Nothing => Alone(r, S)
    BY <1>1, <2>3, <2>4, SlotMates
  <2> QED BY <2>4, <2>5, <2>6, <2>7, SameLabel DEF BelongTogether
<1>3. ASSUME <<l.solver, r.solver>> \in SolverPairs, BelongTogether(l, r, S)
      PROVE  \E pair \in Complete(S) : pair.left = {l} /\ pair.right = {r}
  <2>1. /\ l.execution # << >> /\ r.execution # << >>
        /\ l.problem = r.problem /\ l.execution = r.execution /\ Label(l) = Label(r)
        /\ l.repeat = Nothing => Alone(l, S)
        /\ r.repeat = Nothing => Alone(r, S)
    BY <1>3, SameLabel DEF BelongTogether
  <2>2. Key(l) = Key(r) /\ Key(l) \in Keys(S)
    BY <2>1 DEF Key, Keys, Paired
  <2>3. Slot(Key(l), l.solver, S) = {l} /\ Slot(Key(l), r.solver, S) = {r}
    BY <1>1, <2>1, <2>2, SlotMates
  <2>4. l.solver \in Expected(Key(l), S) /\ r.solver \in Expected(Key(l), S)
    BY <2>1 DEF Expected, Paired, Key
  <2>5. PICK pair : pair = [key |-> Key(l), solvers |-> <<l.solver, r.solver>>,
                            left |-> Sole(Slot(Key(l), l.solver, S)),
                            right |-> Sole(Slot(Key(l), r.solver, S))]
    OBVIOUS
  <2>6. pair \in PairsOf(Key(l), S)
    <3>1. <<l.solver, r.solver>> \in
              SolverPairs \cap (Expected(Key(l), S) \X Expected(Key(l), S))
      BY <1>3, <2>4
    <3> QED BY <2>5, <3>1 DEF PairsOf
  <2>7. pair.left = {l} /\ pair.right = {r}
    BY <2>3, <2>5 DEF Sole
  <2> QED BY <2>2, <2>6, <2>7 DEF Pairs, Complete
<1> QED BY <1>2, <1>3

\* Two runs of a selection are a pair exactly when they are runs of two solvers
\* in one repeat of one execution, whatever else was selected.
THEOREM PairsAreSlots == Spec => []PairsAreTheSlots
BY InvFormsPairs, CoreHolds, PTL

-----------------------------------------------------------------------------
(* The matrix is complete, and the plan of it honoured. *)

RunPlaces(d) == (1 .. ProblemCount(d)) \X (0 .. d.repeats - 1)

\* The runs of one solver have places of their own, one of every problem and repeat.
LEMMA SolverPlaces ==
    ASSUME CampaignInv, NEW c \in Processes, NEW solver
    PROVE  /\ IsFiniteSet(RunsBy(c, solver))
           /\ Cardinality(RunsBy(c, solver)) <= ProblemCount(definition[c]) * definition[c].repeats
           /\ \A i \in Runnable(definition[c]) :
                 pc[c] = "done" /\ solver = definition[c].solvers[i] =>
                    Cardinality(RunsBy(c, solver))
                       = ProblemCount(definition[c]) * definition[c].repeats
<1> DEFINE d == definition[c]
           runs == RunsBy(c, solver)
           f == [run \in runs |-> <<run.execution[2], run.repeat>>]
<1>1. /\ CampaignCore /\ Accounted(c) /\ Progress(c) /\ Covered(c)
      /\ d \in Definitions[c] /\ ProblemCount(d) \in Nat /\ d.repeats \in Nat \ {0}
      /\ at[c] \in Nat
  <2>1. CampaignCore
    BY DEF CampaignInv
  <2> QED BY <2>1, ProcessType, DefinitionType DEF CampaignInv
<1>2. IsFiniteSet(RunPlaces(d)) /\ Cardinality(RunPlaces(d)) = ProblemCount(d) * d.repeats
  <2>1. /\ 1 \in Int /\ ProblemCount(d) \in Int /\ 0 \in Int /\ d.repeats - 1 \in Int
        /\ (d.repeats - 1) - 0 + 1 = d.repeats /\ ~ (0 > d.repeats - 1)
        /\ ProblemCount(d) - 1 + 1 = ProblemCount(d)
        /\ 1 > ProblemCount(d) => ProblemCount(d) = 0
    BY <1>1
  <2>2. /\ IsFiniteSet(1 .. ProblemCount(d)) /\ Cardinality(1 .. ProblemCount(d)) = ProblemCount(d)
        /\ IsFiniteSet(0 .. d.repeats - 1) /\ Cardinality(0 .. d.repeats - 1) = d.repeats
    BY <2>1, FS_Interval
  <2> DEFINE positions == 1 .. ProblemCount(d)
             repeats == 0 .. d.repeats - 1
  <2> HIDE DEF positions, repeats
  <2>3. /\ IsFiniteSet(positions) /\ Cardinality(positions) = ProblemCount(d)
        /\ IsFiniteSet(repeats) /\ Cardinality(repeats) = d.repeats
    BY <2>2 DEF positions, repeats
  <2>4. /\ IsFiniteSet(positions \X repeats)
        /\ Cardinality(positions \X repeats) = Cardinality(positions) * Cardinality(repeats)
    BY <2>3, FS_Product
  <2>5. RunPlaces(d) = positions \X repeats
    BY DEF RunPlaces, positions, repeats
  <2> QED BY <2>3, <2>4, <2>5
<1>3. ASSUME NEW run \in runs
      PROVE  /\ run \in saved /\ run.solver = solver /\ run.repeat # Nothing
             /\ run.execution = <<c, run.execution[2]>>
             /\ run.execution[2] \in 1 .. ProblemCount(d)
             /\ run.repeat \in 0 .. d.repeats - 1
  <2>1. /\ run \in saved /\ run.solver = solver /\ run.repeat # Nothing /\ run.execution[1] = c
        /\ run.execution[2] \in 1 .. ProblemCount(d)
    BY <1>1 DEF RunsBy, RunsOf, Accounted
  <2>2. run.execution \in Processes \X Nat /\ run.repeat \in 0 .. d.repeats - 1
    BY <1>1, <2>1 DEF CampaignCore, Filed
  <2> QED BY <2>1, <2>2
<1>4. f \in Injection(runs, RunPlaces(d))
  <2>1. f \in [runs -> RunPlaces(d)]
    BY <1>3 DEF RunPlaces
  <2>2. ASSUME NEW l \in runs, NEW r \in runs, f[l] = f[r] PROVE l = r
    <3>1. l.execution[2] = r.execution[2] /\ l.repeat = r.repeat
      BY <2>2
    <3>2. SamePlace(l, r)
      BY <1>3, <3>1 DEF SamePlace
    <3> QED BY <1>1, <1>3, <3>2 DEF CampaignCore
  <2> HIDE DEF f
  <2> QED BY <2>1, <2>2 DEF Injection, IsInjective
<1>5. /\ IsFiniteSet(runs) /\ Cardinality(runs) <= Cardinality(RunPlaces(d))
      /\ f \in Surjection(runs, RunPlaces(d)) => Cardinality(runs) = Cardinality(RunPlaces(d))
  <2> HIDE DEF f, runs
  <2> QED BY <1>2, <1>4, FS_Injection
<1>6. ASSUME NEW i \in Runnable(d), pc[c] = "done", solver = d.solvers[i]
      PROVE  f \in Surjection(runs, RunPlaces(d))
  <2>1. ASSUME NEW place \in RunPlaces(d) PROVE \E run \in runs : f[run] = place
    <3>1. /\ place = <<place[1], place[2]>> /\ place[1] \in 1 .. ProblemCount(d)
          /\ place[2] \in 0 .. d.repeats - 1
      BY DEF RunPlaces
    <3>2. at[c] = ProblemCount(d) + 1
      BY <1>1, <1>6 DEF Progress
    <3>3. place[1] \in 1 .. at[c] /\ place[1] < at[c]
      BY <1>1, <3>1, <3>2
    <3>4. HasRun(c, place[1], i, place[2])
      BY <1>1, <1>6, <3>1, <3>3 DEF Covered
    <3>5. PICK run \in RunsOf(c) : /\ run.execution = <<c, place[1]>> /\ run.solver = solver
                                   /\ run.repeat = place[2]
      BY <1>6, <3>4 DEF HasRun
    <3>6. run \in runs
      BY <3>5 DEF RunsBy
    <3>7. f[run] = <<place[1], place[2]>>
      BY <3>5, <3>6
    <3> QED BY <3>1, <3>6, <3>7
  <2>2. f \in [runs -> RunPlaces(d)]
    BY <1>4 DEF Injection
  <2> HIDE DEF f
  <2> QED BY <2>1, <2>2 DEF Surjection
<1> QED BY <1>2, <1>5, <1>6

\* What a campaign has counted.
LEMMA DoneIsCounted ==
    ASSUME CampaignInv, NEW c \in Processes, pc[c] = "done"
    PROVE  /\ Counted(c) = Requested(definition[c])
           /\ Cardinality(RunsOf(c)) + summary[c]["skipped"] = Requested(definition[c])
           /\ summary[c]["skipped"] = ProblemCount(definition[c]) * SkippedRuns(definition[c])
<1> DEFINE d == definition[c]
           m == RunnableRuns(d)
           k == SkippedRuns(d)
           count == ProblemCount(d)
<1>1. CampaignCore /\ Accounted(c) /\ Progress(c) /\ d \in Definitions[c]
  <2>1. CampaignCore
    BY DEF CampaignInv
  <2> QED BY <2>1, ProcessType DEF CampaignInv
<1>2. /\ Requested(d) = count * (m + k) /\ m \in Nat /\ k \in Nat /\ count \in Nat \ {0}
  BY <1>1, MatrixSizes
<1>3. ComesTo(c, count) /\ remaining[c] = {}
  BY <1>1 DEF Progress
<1>4. Cardinality(RunsOf(c)) = count * m /\ summary[c]["skipped"] = count * k
  <2>1. Cardinality({}) = 0
    BY FS_EmptySet
  <2>2. Cardinality(RunsOf(c)) + 0 = count * m /\ summary[c]["skipped"] = count * k
    BY <1>3, <2>1 DEF ComesTo
  <2>3. Cardinality(RunsOf(c)) \in Nat
    BY <1>1, CountType
  <2> QED BY <2>2, <2>3
<1>5. count * (m + k) = count * m + count * k
  BY <1>2
<1>6. Counted(c) = Cardinality(RunsOf(c)) + summary[c]["skipped"]
  BY <1>1 DEF Accounted, Counted
<1> QED BY <1>2, <1>4, <1>5, <1>6

LEMMA InvIsComplete == CampaignInv => CampaignIsComplete
<1> SUFFICES ASSUME CampaignInv, NEW c \in Processes
             PROVE  LET d == definition[c]
                    IN  /\ pc[c] = "done" =>
                             /\ Counted(c) = Requested(d)
                             /\ Cardinality(RunsOf(c)) + summary[c]["skipped"] = Requested(d)
                             /\ \A k \in 1 .. ProblemCount(d), i \in Runnable(d),
                                   r \in 0 .. d.repeats - 1 : HasRun(c, k, i, r)
                        /\ pc[c] \in {"refused", "failed"} => RunsOf(c) = {}
                        /\ \A s \in Statuses \ {"skipped"} :
                              Cardinality({run \in RunsOf(c) : run.status = s}) = summary[c][s]
  BY DEF CampaignIsComplete, HasRun
<1> DEFINE d == definition[c]
<1>1. /\ CampaignCore /\ Accounted(c) /\ Progress(c) /\ Covered(c) /\ d \in Definitions[c]
  <2>1. CampaignCore
    BY DEF CampaignInv
  <2> QED BY <2>1, ProcessType DEF CampaignInv
<1>2. ProblemCount(d) \in Nat /\ Cardinality(RunsOf(c)) \in Nat
  BY <1>1, ProcessType, CountType
<1>3. pc[c] = "done" =>
         \A k \in 1 .. ProblemCount(d), i \in Runnable(d), r \in 0 .. d.repeats - 1 :
            HasRun(c, k, i, r)
  <2> SUFFICES ASSUME pc[c] = "done", NEW k \in 1 .. ProblemCount(d), NEW i \in Runnable(d),
                      NEW r \in 0 .. d.repeats - 1
               PROVE  HasRun(c, k, i, r)
    OBVIOUS
  <2>1. at[c] = ProblemCount(d) + 1
    BY <1>1 DEF Progress
  <2>2. k \in 1 .. at[c] /\ k < at[c]
    BY <1>2, <2>1
  <2> QED BY <1>1, <2>2 DEF Covered
<1>4. pc[c] \in {"refused", "failed"} => RunsOf(c) = {}
  <2>1. CASE pc[c] = "failed"
    BY <1>1, <2>1, NoneRecorded DEF Progress
  <2>2. CASE pc[c] = "refused"
    <3>1. ComesTo(c, 0) /\ remaining[c] = {}
      BY <1>1, <2>2 DEF Progress
    <3>2. Cardinality({}) = 0 /\ RunnableRuns(d) \in Nat
      BY <1>1, MatrixSizes, FS_EmptySet
    <3>3. Cardinality(RunsOf(c)) = 0
      BY <1>2, <3>1, <3>2 DEF ComesTo
    <3> QED BY <1>1, <3>3, CountType, FS_EmptySet
  <2> QED BY <2>1, <2>2
<1>5. \A s \in Statuses \ {"skipped"} :
         Cardinality({run \in RunsOf(c) : run.status = s}) = summary[c][s]
  BY <1>1 DEF Accounted
<1> QED BY <1>3, <1>4, <1>5, DoneIsCounted

\* A campaign that is done has run or skipped every element of its matrix once and
\* counted it, one that was refused or contradicts itself has run nothing, and the
\* summary of an execution is that of the runs it has made.
THEOREM CompleteCampaign == Spec => []CampaignIsComplete
BY InvIsComplete, Invariance, PTL

\* An unavailable backend has no success.
LEMMA UnavailableFails ==
    ASSUME CampaignInv, NEW c \in Processes, NEW run \in RunsOf(c), run.solver \in SolverNames,
           ~ Available(run.solver)
    PROVE  run.status # "success"
<1>1. run \in saved /\ run.repeat # Nothing /\ CampaignCore
  BY DEF CampaignInv, Accounted, RunsOf
<1>2. run.solver \in Quantum
  BY DEF Available, Quantum
<1>3. run.status = "success" => Able(run.solver, run)
  BY <1>1, <1>2 DEF CampaignCore, Honest
<1>4. ~ Able(run.solver, run)
  BY <1>2 DEF Able, Available
<1> QED BY <1>3, <1>4

LEMMA InvHonoursPlan == CampaignInv => PlanIsHonoured
<1> SUFFICES ASSUME CampaignInv, NEW c \in Processes
             PROVE  LET d == definition[c]
                        entries == Breakdown(d)
                    IN  /\ \A i \in DOMAIN entries :
                              LET entry == entries[i]
                                  runs == RunsBy(c, entry.solver)
                              IN  /\ entry.unavailable = "family" => runs = {}
                                  /\ entry.unavailable = "machine" =>
                                        \A run \in runs : run.status # "success"
                                  /\ pc[c] = "done" /\ entry.unavailable # "family" =>
                                        Cardinality(runs) = entry.requested
                        /\ pc[c] = "done" =>
                              summary[c]["skipped"] =
                                  RunsPerSolver(d) * Cardinality(
                                      {i \in DOMAIN entries : entries[i].unavailable = "family"})
                        /\ pc[c] = "done" /\ WarnsOfNoBackend(d) =>
                              \A run \in RunsOf(c) : run.solver \in Quantum => run.status # "success"
                        /\ pc[c] = "refused" => ExceedsDefaultMax(d)
  BY DEF PlanIsHonoured
<1> DEFINE d == definition[c]
           entries == Breakdown(d)
<1>1. /\ CampaignCore /\ Accounted(c) /\ Progress(c) /\ d \in Definitions[c]
  <2>1. CampaignCore
    BY DEF CampaignInv
  <2> QED BY <2>1, ProcessType DEF CampaignInv
<1>2. /\ DOMAIN entries = DOMAIN d.solvers
      /\ Runnable(d) \subseteq DOMAIN d.solvers
      /\ \A i \in DOMAIN d.solvers : d.solvers[i] \in SolverNames
      /\ \A i, j \in DOMAIN d.solvers : d.solvers[i] = d.solvers[j] => i = j
      /\ ProblemCount(d) \in Nat /\ d.repeats \in Nat
  BY <1>1, DefinitionType DEF Breakdown
<1>3. ASSUME NEW i \in DOMAIN d.solvers
      PROVE  /\ entries[i].solver = d.solvers[i]
             /\ entries[i].requested = ProblemCount(d) * d.repeats
             /\ entries[i].unavailable = "family" <=> i \notin Runnable(d)
             /\ entries[i].unavailable = "machine" => ~ Available(d.solvers[i])
  BY DEF Breakdown, RunsPerSolver, Runnable
<1>4. ASSUME NEW run \in RunsOf(c)
      PROVE  \E i \in Runnable(d) : run.solver = d.solvers[i]
  <2>1. run \in saved /\ run.repeat # Nothing /\ run.execution[1] = c
    BY <1>1 DEF Accounted, RunsOf
  <2>2. Filed(run)
    BY <1>1, <2>1 DEF CampaignCore
  <2> QED BY <2>1, <2>2 DEF Filed
<1>5. ASSUME NEW i \in DOMAIN d.solvers
      PROVE  LET entry == entries[i]
                 runs == RunsBy(c, entry.solver)
             IN  /\ entry.unavailable = "family" => runs = {}
                 /\ entry.unavailable = "machine" => \A run \in runs : run.status # "success"
                 /\ pc[c] = "done" /\ entry.unavailable # "family" =>
                       Cardinality(runs) = entry.requested
  <2> HIDE DEF entries
  <2>1. entries[i].unavailable = "family" => RunsBy(c, entries[i].solver) = {}
    BY <1>2, <1>3, <1>4 DEF RunsBy
  <2>2. entries[i].unavailable = "machine" =>
           \A run \in RunsBy(c, entries[i].solver) : run.status # "success"
    BY <1>2, <1>3, UnavailableFails DEF RunsBy
  <2>3. pc[c] = "done" /\ entries[i].unavailable # "family" =>
           Cardinality(RunsBy(c, entries[i].solver)) = entries[i].requested
    BY <1>3, SolverPlaces
  <2> QED BY <2>1, <2>2, <2>3
<1>6. pc[c] = "done" =>
         summary[c]["skipped"] =
            RunsPerSolver(d) * Cardinality({i \in DOMAIN entries : entries[i].unavailable = "family"})
  <2>1. {i \in DOMAIN entries : entries[i].unavailable = "family"} = (DOMAIN d.solvers) \ Runnable(d)
    <3> HIDE DEF entries
    <3> QED BY <1>2, <1>3
  <2> DEFINE none == Cardinality((DOMAIN d.solvers) \ Runnable(d))
  <2>2. none \in Nat
    <3>1. DOMAIN d.solvers = 1 .. Len(d.solvers) /\ Len(d.solvers) \in Nat
      BY <1>1, DefinitionType
    <3>2. 1 \in Int /\ Len(d.solvers) \in Int
      BY <3>1
    <3>3. IsFiniteSet(DOMAIN d.solvers)
      BY <3>1, <3>2, FS_Interval
    <3> QED BY <3>3, FS_Difference, FS_CardinalityType
  <2>3. \A a, b, x \in Nat : a * (b * x) = (a * x) * b
    OBVIOUS
  <2>4. ProblemCount(d) * (none * d.repeats) = (ProblemCount(d) * d.repeats) * none
    BY <1>2, <2>2, <2>3
  <2>5. pc[c] = "done" => summary[c]["skipped"] = ProblemCount(d) * (none * d.repeats)
    BY DoneIsCounted DEF SkippedRuns
  <2> HIDE DEF entries
  <2> QED BY <2>1, <2>4, <2>5 DEF RunsPerSolver
<1>7. WarnsOfNoBackend(d) =>
         \A run \in RunsOf(c) : run.solver \in Quantum => run.status # "success"
  <2> SUFFICES ASSUME WarnsOfNoBackend(d), NEW run \in RunsOf(c), run.solver \in Quantum
               PROVE  run.status # "success"
    OBVIOUS
  <2>1. PICK i \in Runnable(d) : run.solver = d.solvers[i]
    BY <1>4
  <2>2. ~ Available(run.solver) /\ run.solver \in SolverNames
    BY <1>2, <2>1 DEF WarnsOfNoBackend
  <2> QED BY <2>2, UnavailableFails
<1>8. pc[c] = "refused" => ExceedsDefaultMax(d)
  BY <1>1 DEF Progress, ExceedsLimit, ExceedsDefaultMax
<1> HIDE DEF entries
<1> QED BY <1>2, <1>5, <1>6, <1>7, <1>8 DEF entries

\* What the plan announces of a campaign is what becomes of it.
THEOREM HonouredPlan == Spec => []PlanIsHonoured
BY InvHonoursPlan, Invariance, PTL
=============================================================================
