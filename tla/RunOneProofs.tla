---------------------------- MODULE RunOneProofs ----------------------------
(***************************************************************************)
(* For every set of problem objects: the id of a problem names one         *)
(* problem, a document that is written and loaded is the same problem      *)
(* again, and what a saved run records of a classical solver is true of    *)
(* the problem in its snapshot.                                            *)
(***************************************************************************)
EXTENDS RunOne, ClassicalSearchProofs

-----------------------------------------------------------------------------
(***************************************************************************)
(* Identities and documents.                                               *)
(***************************************************************************)
LEMMA IdentityParts ==
    ASSUME NEW p, NEW q, NEW f, NEW g, NEW t, NEW u, Identity(p, f, t) = Identity(q, g, u)
    PROVE  /\ p.family = q.family /\ f = g /\ t = u
           /\ p.family = "maxcut" => CutIdentity(p) = CutIdentity(q)
           /\ p.family = "assignment" => AssignmentIdentity(p) = AssignmentIdentity(q)
           /\ p.family = "subset-selection" => SubsetIdentity(p) = SubsetIdentity(q)
           /\ p.family = "graph-partition" => PartitionIdentity(p) = PartitionIdentity(q)
<1>1. p.family = q.family /\ f = g /\ t = u
  BY DEF Identity
<1>2. p.family = "maxcut" => CutIdentity(p) = CutIdentity(q)
  BY <1>1 DEF Identity
<1>3. p.family = "assignment" => AssignmentIdentity(p) = AssignmentIdentity(q)
  BY <1>1 DEF Identity
<1>4. p.family = "subset-selection" => SubsetIdentity(p) = SubsetIdentity(q)
  BY <1>1 DEF Identity
<1>5. p.family = "graph-partition" => PartitionIdentity(p) = PartitionIdentity(q)
  BY <1>1 DEF Identity
<1> QED
  BY <1>1, <1>2, <1>3, <1>4, <1>5

\* Two problem objects with the same id are the same problem, and their numbers
\* and edges are written alike.
THEOREM IdentityIsFaithful ==
    ASSUME NEW i, NEW j, IsInstance(i), IsInstance(j), i.problem_id = j.problem_id
    PROVE  i = j
<1> DEFINE p == i.data
           q == j.data
<1>1. /\ i = [data |-> p, integers |-> i.integers, turned |-> i.turned,
              problem_id |-> Identity(p, i.integers, i.turned)]
      /\ j = [data |-> q, integers |-> j.integers, turned |-> j.turned,
              problem_id |-> Identity(q, j.integers, j.turned)]
      /\ Canonical(p) /\ Canonical(q)
      /\ p.family \in {"maxcut", "assignment", "subset-selection", "graph-partition"}
  BY DEF IsInstance
<1> HIDE DEF p, q
<1>2. Identity(p, i.integers, i.turned) = Identity(q, j.integers, j.turned)
  <2>1. i.problem_id = Identity(p, i.integers, i.turned) /\ j.problem_id = Identity(q, j.integers, j.turned)
    BY <1>1
  <2> QED
    BY <2>1
<1>3. p.family = q.family /\ i.integers = j.integers /\ i.turned = j.turned
  BY <1>2, IdentityParts
<1>4. p = q
  <2>1. CASE p.family = "maxcut"
    <3>1. p.nodes = q.nodes /\ p.weight = q.weight
      BY <1>2, <2>1, IdentityParts DEF CutIdentity
    <3> QED
      BY <1>1, <1>3, <2>1, <3>1 DEF Canonical
  <2>2. CASE p.family = "assignment"
    <3>1. /\ p.tasks = q.tasks /\ p.resources = q.resources /\ p.score = q.score
          /\ p.prohibited = q.prohibited /\ p.capacity = q.capacity /\ p.demand = q.demand
          /\ p.sense = q.sense
      BY <1>2, <2>2, IdentityParts DEF AssignmentIdentity
    <3> QED
      BY <1>1, <1>3, <2>2, <3>1 DEF Canonical
  <2>3. CASE p.family = "subset-selection"
    <3>1. /\ p.candidates = q.candidates /\ p.score = q.score /\ p.cost = q.cost
          /\ p.budget = q.budget /\ p.minimum = q.minimum /\ p.maximum = q.maximum
          /\ p.interaction = q.interaction /\ p.sense = q.sense
      BY <1>2, <2>3, IdentityParts DEF SubsetIdentity
    <3> QED
      BY <1>1, <1>3, <2>3, <3>1 DEF Canonical
  <2>4. CASE p.family = "graph-partition"
    <3>1. /\ p.nodes = q.nodes /\ p.weight = q.weight /\ Cardinality(p.parts) = Cardinality(q.parts)
          /\ p.minimum = q.minimum /\ p.maximum = q.maximum
      BY <1>2, <2>4, IdentityParts DEF PartitionIdentity
    <3>2. p.parts = q.parts
      BY <1>1, <1>3, <2>4, <3>1 DEF Canonical
    <3> QED
      BY <1>1, <1>3, <2>4, <3>1, <3>2 DEF Canonical
  <2> QED
    BY <1>1, <2>1, <2>2, <2>3, <2>4
<1> QED
  BY <1>1, <1>3, <1>4

\* A document that the program wrote loads exactly when no number in it is an
\* integer where the loader has a float, and then it is the same problem object.
THEOREM DocumentsRoundTrip ==
    ASSUME NEW i, IsInstance(i)
    PROVE  Loaded(ToDocument(i)) = IF i.integers = {} THEN i ELSE Refused
<1> DEFINE d == ToDocument(i)
<1>1. /\ i = [data |-> i.data, integers |-> i.integers, turned |-> i.turned,
              problem_id |-> Identity(i.data, i.integers, i.turned)]
      /\ Canonical(i.data) /\ WellFormed(i.data)
      /\ i.data.family # "graph-partition" => i.turned = {}
  BY DEF IsInstance
<1>2. /\ d.schema_version = 1 /\ d.problem_id = i.problem_id /\ d.data = i.data
      /\ d.integers = i.integers /\ d.turned = i.turned
  BY DEF ToDocument
<1>3. i.problem_id = Identity(i.data, i.integers, i.turned)
  BY <1>1
<1> HIDE DEF d
<1>4. Converted(d) = i.data
  <2>1. CASE i.data.family = "graph-partition"
    <3>1. i.data = Partition(i.data.nodes, i.data.weight, i.data.parts, i.data.minimum, i.data.maximum)
      BY <1>1, <2>1 DEF Canonical
    <3>2. [i.data EXCEPT !.sense = "minimize"] = i.data
      BY <3>1 DEF Partition
    <3> QED
      BY <1>2, <2>1, <3>2 DEF Converted
  <2>2. CASE i.data.family # "graph-partition"
    BY <1>2, <2>2 DEF Converted
  <2> QED
    BY <2>1, <2>2
<1>5. d.problem_id = Identity(Converted(d), {}, d.turned) <=> i.integers = {}
  BY <1>2, <1>3, <1>4, IdentityParts
<1>6. Acceptable(d) <=> i.integers = {}
  BY <1>1, <1>2, <1>4, <1>5 DEF Acceptable
<1>7. i.integers = {} => Loaded(d) = i
  BY <1>1, <1>2, <1>3, <1>4, <1>6 DEF Loaded
<1>8. i.integers # {} => Loaded(d) = Refused
  BY <1>6 DEF Loaded
<1> QED
  BY <1>7, <1>8 DEF d

\* What a constructor makes of canonical data is a problem object.
LEMMA MadeIsAnInstance ==
    ASSUME NEW p, Canonical(p), NEW integers, NEW i \in Instances(p, integers),
           p.family \in {"maxcut", "assignment", "subset-selection", "graph-partition"}
    PROVE  IsInstance(i)
<1>1. WellFormed(p) /\ i = [data |-> p, integers |-> integers, turned |-> {},
                            problem_id |-> Identity(p, integers, {})]
  BY DEF Instances
<1>2. i.data = p /\ i.integers = integers /\ i.turned = {}
  BY <1>1
<1> QED
  BY <1>1, <1>2 DEF IsInstance

LEMMA CountOfPlaces ==
    ASSUME NEW n \in Nat
    PROVE  Places(n) = Places(Cardinality(Places(n)))
<1>1. Cardinality(0..(n - 1)) = IF 0 > n - 1 THEN 0 ELSE (n - 1) - 0 + 1
  BY FS_Interval
<1>2. Cardinality(0..(n - 1)) = n
  BY <1>1
<1> QED
  BY <1>2 DEF Places

LEMMA CutIsCanonical ==
    ASSUME NEW nodes, NEW weight
    PROVE  Canonical(Cut(nodes, weight)) /\ Cut(nodes, weight).family = "maxcut"
  BY DEF Canonical, Cut

LEMMA PartitionIsCanonical ==
    ASSUME NEW nodes, NEW weight, NEW count \in Nat, NEW low, NEW high
    PROVE  /\ Canonical(Partition(nodes, weight, Places(count), low, high))
           /\ Partition(nodes, weight, Places(count), low, high).family = "graph-partition"
<1> DEFINE p == Partition(nodes, weight, Places(count), low, high)
<1>1. /\ p.family = "graph-partition" /\ p.nodes = nodes /\ p.weight = weight
      /\ p.parts = Places(count) /\ p.minimum = low /\ p.maximum = high
  BY DEF Partition
<1>2. p.parts = Places(Cardinality(p.parts))
  BY <1>1, CountOfPlaces
<1>3. p = Partition(p.nodes, p.weight, p.parts, p.minimum, p.maximum)
  BY <1>1
<1> HIDE DEF p
<1>4. Canonical(p)
  BY <1>1, <1>2, <1>3 DEF Canonical
<1> QED
  BY <1>1, <1>4 DEF p

LEMMA AssignmentIsCanonical ==
    ASSUME NEW sense, NEW tasks, NEW resources, NEW score, NEW demand, NEW prohibited, NEW capacity
    PROVE  LET p == Assignment(sense, tasks, resources, score, demand, prohibited, capacity)
           IN  Canonical(p) /\ p.family = "assignment"
<1> DEFINE p == Assignment(sense, tasks, resources, score, demand, prohibited, capacity)
<1>1. /\ p.family = "assignment" /\ p.sense = sense /\ p.tasks = tasks /\ p.resources = resources
      /\ p.score = score /\ p.demand = demand /\ p.prohibited = prohibited /\ p.capacity = capacity
  BY DEF Assignment
<1>2. p = Assignment(p.sense, p.tasks, p.resources, p.score, p.demand, p.prohibited, p.capacity)
  BY <1>1
<1> HIDE DEF p
<1>3. Canonical(p)
  BY <1>1, <1>2 DEF Canonical
<1> QED
  BY <1>1, <1>3 DEF p

LEMMA SelectionIsCanonical ==
    ASSUME NEW sense, NEW candidates, NEW score, NEW cost, NEW interaction,
           NEW budget, NEW minimum, NEW maximum
    PROVE  LET p == Selection(sense, candidates, score, cost, interaction, budget, minimum, maximum)
           IN  Canonical(p) /\ p.family = "subset-selection"
<1> DEFINE p == Selection(sense, candidates, score, cost, interaction, budget, minimum, maximum)
<1>1. /\ p.family = "subset-selection" /\ p.sense = sense /\ p.candidates = candidates
      /\ p.score = score /\ p.cost = cost /\ p.interaction = interaction
      /\ p.budget = budget /\ p.minimum = minimum /\ p.maximum = maximum
  BY DEF Selection
<1>2. p = Selection(p.sense, p.candidates, p.score, p.cost, p.interaction,
                    p.budget, p.minimum, p.maximum)
  BY <1>1
<1> HIDE DEF p
<1>3. Canonical(p)
  BY <1>1, <1>2 DEF Canonical
<1> QED
  BY <1>1, <1>3 DEF p

\* Whatever the random draws of a generator are, what it returns is a problem
\* object: its data are valid and its name is its identity.
THEOREM GeneratedAreInstances ==
    ASSUME NEW r, r.family \in {"maxcut", "assignment", "subset-selection", "graph-partition"},
           r.family = "graph-partition" => r.parts \in Nat,
           NEW i \in Generated(r)
    PROVE  IsInstance(i)
<1>1. CASE r.family = "maxcut"
  <2>1. i \in GeneratedCuts(r)
    BY <1>1 DEF Generated
  <2>2. PICK weight : i \in Instances(Cut(Places(r.size), weight), {})
    BY <2>1 DEF GeneratedCuts
  <2> QED
    BY <2>2, CutIsCanonical, MadeIsAnInstance
<1>2. CASE r.family = "assignment"
  <2>1. i \in GeneratedAssignments(r)
    BY <1>2 DEF Generated
  <2>2. PICK score, demand, prohibited, capacity :
               i \in Instances(Assignment(r.sense, Places(r.size), Places(r.resources), score,
                                         demand, prohibited, capacity), {})
    BY <2>1 DEF GeneratedAssignments
  <2> QED
    BY <2>2, AssignmentIsCanonical, MadeIsAnInstance
<1>3. CASE r.family = "subset-selection"
  <2>1. i \in GeneratedSubsets(r)
    BY <1>3 DEF Generated
  <2>2. PICK score, cost, interaction :
               i \in Instances(Selection(r.sense, Places(r.size), score, cost, interaction,
                                        r.budget, r.minimum, r.maximum), r.integers)
    BY <2>1 DEF GeneratedSubsets
  <2> QED
    BY <2>2, SelectionIsCanonical, MadeIsAnInstance
<1>4. CASE r.family = "graph-partition"
  <2>1. i \in GeneratedPartitions(r)
    BY <1>4 DEF Generated
  <2>2. PICK weight :
               i \in Instances(Partition(Places(r.size), weight, Places(r.parts),
                                        r.minimum, r.maximum), {})
    BY <2>1 DEF GeneratedPartitions
  <2> QED
    BY <1>4, <2>2, PartitionIsCanonical, MadeIsAnInstance
<1> QED
  BY <1>1, <1>2, <1>3, <1>4

\* What is loaded from a document with canonical data is a problem object, also
\* when the document was changed by hand.
THEOREM LoadedIsAnInstance ==
    ASSUME NEW d, Loaded(d) # Refused, Canonical(Converted(d)),
           Converted(d).family \in {"maxcut", "assignment", "subset-selection", "graph-partition"}
    PROVE  IsInstance(Loaded(d))
<1>1. Acceptable(d)
  BY DEF Loaded
<1>2. /\ Loaded(d) = [data |-> Converted(d), integers |-> {}, turned |-> d.turned,
                      problem_id |-> d.problem_id]
      /\ WellFormed(Converted(d)) /\ d.problem_id = Identity(Converted(d), {}, d.turned)
      /\ d.data.family # "graph-partition" => d.turned = {}
  BY <1>1 DEF Loaded, Acceptable
<1>3. Converted(d).family # "graph-partition" => d.data.family # "graph-partition"
  <2>1. d.data.family = "graph-partition" /\ Canonical(Converted(d)) => Converted(d).family = "graph-partition"
    <3>1. ASSUME d.data.family = "graph-partition"
          PROVE  Converted(d).family = "graph-partition"
      BY <3>1 DEF Converted
    <3> QED
      BY <3>1
  <2> QED
    BY <2>1
<1> QED
  BY <1>2, <1>3 DEF IsInstance

-----------------------------------------------------------------------------
(***************************************************************************)
(* A run.                                                                  *)
(***************************************************************************)
\* A record is written after the call has ended, of what the call returned.
RunInv ==
    /\ SearchInv
    /\ instance \in Sources
    /\ problem = instance.data
    /\ record # Nothing =>
          /\ phase \in {"returned", "raised"}
          /\ record = IF Loaded(ToDocument(instance)) = Refused THEN Refused
                      ELSE [snapshot |-> ToDocument(instance), outcome |-> Outcome]

LEMMA RunInitially == RunInit => RunInv
  BY Initially DEF RunInit, RunInv

\* A call that has ended takes no step any more.
LEMMA EndedIsFinal == Next => phase \notin {"returned", "raised"}
  BY DEF Next, Refuse, Prepare, Visit, Conclude, BeginRestart, Pass, OutOfPasses, Compare, Report

LEMMA SearchStep == SearchInv /\ [Next]_vars => SearchInv'
  BY RefuseStep, PrepareStep, VisitStep, ConcludeStep, BeginRestartStep, PassStep,
     OutOfPassesStep, CompareStep, ReportStep, StutterStep DEF Next

LEMMA RunStep == RunInv /\ [RunNext]_runVars => RunInv'
<1> SUFFICES ASSUME RunInv, [RunNext]_runVars PROVE RunInv'
  OBVIOUS
<1>1. SearchInv'
  BY SearchStep DEF RunInv, RunNext, Step, Save, runVars
<1>2. UNCHANGED <<problem, instance>>
  BY DEF RunNext, Step, Save, runVars, vars, Next, Refuse, Prepare, Visit, Conclude,
         BeginRestart, Pass, OutOfPasses, Compare, Report, arguments
<1>3. CASE Step
  <2>1. record = Nothing /\ record' = Nothing
    BY <1>3, EndedIsFinal DEF Step, RunInv
  <2> QED
    BY <1>1, <1>2, <2>1 DEF RunInv
<1>4. CASE Save
  BY <1>1, <1>2, <1>4 DEF Save, RunInv, Outcome, vars
<1>5. CASE UNCHANGED runVars
  BY <1>1, <1>2, <1>5 DEF runVars, vars, RunInv, Outcome
<1> QED
  BY <1>3, <1>4, <1>5 DEF RunNext

THEOREM RunInvHolds == RunSpec => []RunInv
  BY RunInitially, RunStep, PTL DEF RunSpec

\* What a call returns: a failure, or a feasible solution with its objective.
LEMMA OutcomeHolds ==
    ASSUME RunInv, phase \in {"returned", "raised"}
    PROVE  \/ Outcome = Failure
           \/ /\ Outcome = Success
              /\ best \in Solutions(problem) /\ Feasible(problem, best)
              /\ Value(problem, best) \in Int
<1>1. CASE phase = "raised"
  BY <1>1 DEF Outcome
<1>2. CASE phase = "returned"
  <2>1. result = IF best = Nothing THEN Failure ELSE Success
    BY <1>2 DEF RunInv, SearchInv, Ended
  <2>2. best # Nothing => best \in Solutions(problem) /\ Feasible(problem, best)
    BY <1>2 DEF RunInv, SearchInv, TypeOK, IncumbentIsBest
  <2>3. problem \in Problems
    BY DEF RunInv, SearchInv, TypeOK
  <2> QED
    BY <1>2, <2>1, <2>2, <2>3, Judgement DEF Outcome
<1> QED
  BY <1>1, <1>2

\* Of every run of a classical solver: an id names one problem, the run of a problem
\* that came from a document is saved, and whatever is saved loads as the problem that
\* was solved, with a feasible solution of the objective that is recorded.
THEOREM RecordsHold == RunSpec => []RecordHolds
<1>1. RunInv => RecordHolds
  <2> SUFFICES ASSUME RunInv PROVE RecordHolds
    OBVIOUS
  <2>1. IsInstance(instance) /\ instance # Refused /\ problem = instance.data
    BY RunAssumption DEF RunInv
  <2>2. \A other \in Sources : other.problem_id = instance.problem_id => other.data = problem
    BY <2>1, IdentityIsFaithful, RunAssumption
  <2>3. Loaded(ToDocument(instance)) = IF instance.integers = {} THEN instance ELSE Refused
    BY <2>1, DocumentsRoundTrip
  <2>4. ASSUME Loaded(ToDocument(instance)) = Refused, NEW i \in Sources,
               Loaded(ToDocument(i)) = instance
        PROVE  FALSE
    <3>1. Loaded(ToDocument(i)) = IF i.integers = {} THEN i ELSE Refused
      BY RunAssumption, DocumentsRoundTrip
    <3>2. i = instance
      BY <2>1, <2>4, <3>1
    <3> QED
      BY <2>1, <2>4, <3>2
  <2>5. CASE record = Nothing
    BY <2>2, <2>5, RunAssumption DEF RecordHolds
  <2>6. CASE record # Nothing
    <3>1. /\ phase \in {"returned", "raised"}
          /\ record = IF Loaded(ToDocument(instance)) = Refused THEN Refused
                      ELSE [snapshot |-> ToDocument(instance), outcome |-> Outcome]
      BY <2>6 DEF RunInv
    <3> DEFINE saved == [snapshot |-> ToDocument(instance), outcome |-> Outcome]
    <3>2. \/ Outcome = Failure
          \/ /\ Outcome = Success
             /\ best \in Solutions(problem) /\ Feasible(problem, best)
             /\ Value(problem, best) \in Int
      BY <3>1, OutcomeHolds
    <3>3. Outcome \in {Failure} \cup [status : {"success"}, solution : Solutions(problem), objective : Int]
      BY <3>2 DEF Success
    <3>4. saved \in Records(instance)
      BY <2>1, <3>3 DEF Records
    <3>5. saved # Refused
      BY <3>4, RunAssumption DEF RunInv
    <3>6. ASSUME record = Refused
          PROVE  \A d \in {ToDocument(i) : i \in Sources} : Loaded(d) # instance
      BY <2>4, <3>1, <3>5, <3>6
    <3>7. ASSUME record # Refused
          PROVE  LET again == Loaded(record.snapshot)
                 IN  /\ again # Refused
                     /\ again.problem_id = instance.problem_id
                     /\ record.outcome.status = "success" =>
                           /\ Feasible(again.data, record.outcome.solution)
                           /\ Value(again.data, record.outcome.solution) = record.outcome.objective
      <4>1. record.snapshot = ToDocument(instance) /\ record.outcome = Outcome
        BY <3>1, <3>7
      <4>2. Loaded(record.snapshot) = instance
        BY <2>3, <3>1, <3>7, <4>1
      <4>3. Outcome.status = "success" =>
               Feasible(problem, Outcome.solution) /\ Value(problem, Outcome.solution) = Outcome.objective
        BY <3>2 DEF Failure, Success
      <4> QED
        BY <2>1, <4>1, <4>2, <4>3
    <3> QED
      BY <2>2, <3>6, <3>7 DEF RecordHolds
  <2> QED
    BY <2>5, <2>6
<1> QED
  BY <1>1, RunInvHolds, PTL

\* A run is a call of the solver and one more step: what is proved of every call
\* holds in every run.
THEOREM RunIsACall == RunSpec => Spec
<1>1. RunInit => Init
  BY DEF RunInit
<1>2. [RunNext]_runVars => [Next]_vars
  BY DEF RunNext, Step, Save, runVars
<1> QED
  BY <1>1, <1>2, PTL DEF RunSpec, Spec
=============================================================================
