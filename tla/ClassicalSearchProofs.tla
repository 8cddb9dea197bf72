------------------------ MODULE ClassicalSearchProofs ------------------------
(***************************************************************************)
(* For every set of problems and all bounds: what the exact solver returns *)
(* is an optimum, the heuristic one keeps the best of its restarts, and no *)
(* pass of it leaves the feasible solutions.  The inductive invariant says *)
(* what the two loops have established when they stand where they stand.   *)
(***************************************************************************)
EXTENDS ClassicalSearch, FiniteSetTheorems, WellFoundedInduction, TLAPS

\* The assumption, for one solution of a problem.
LEMMA Judgement ==
    ASSUME NEW p \in Problems, NEW x \in Solutions(p)
    PROVE  /\ x # Nothing
           /\ Feasible(p, x) \in BOOLEAN
           /\ Value(p, x) \in Int
  BY ClassicalAssumption

LEMMA Families4 ==
    ASSUME NEW p \in Problems
    PROVE  /\ p.family \in {"maxcut", "assignment", "subset-selection", "graph-partition"}
           /\ p.sense \in {"maximize", "minimize"}
           /\ p.family = "maxcut" => p.sense = "maximize"
  BY ClassicalAssumption

-----------------------------------------------------------------------------
(***************************************************************************)
(* Solutions and moves.                                                    *)
(***************************************************************************)
\* A part of a set that is not the whole of another part is below it.
LEMMA StrictlyWithin ==
    ASSUME NEW S, NEW A \in SUBSET S, NEW B \in SUBSET S, A \subseteq B, A # B
    PROVE  <<A, B>> \in StrictSubsetOrdering(S)
<1>1. <<A, B>> \in (SUBSET S) \X (SUBSET S)
  OBVIOUS
<1>2. <<A, B>>[1] = A /\ <<A, B>>[2] = B
  OBVIOUS
<1> QED
  BY <1>1, <1>2 DEF StrictSubsetOrdering

\* A set of natural numbers that ends somewhere has a least element.
LEMMA LeastOfPlaces ==
    ASSUME NEW n \in Int, NEW S \in SUBSET (0..n), S # {}
    PROVE  Min(S) \in S
<1> DEFINE Up(k) == {i \in S : i <= k}
           Ups == {Up(k) : k \in S}
<1>1. IsFiniteSet(0..n)
  BY FS_Interval
<1>2. IsFiniteSet(S)
  BY <1>1, FS_Subset
<1>3. Ups \subseteq FiniteSubsetsOf(S)
  BY <1>2, FS_Subset DEF FiniteSubsetsOf
<1>4. PICK T \in Ups : \A U \in Ups : <<U, T>> \notin StrictSubsetOrdering(S)
  <2>1. IsWellFoundedOn(StrictSubsetOrdering(S), FiniteSubsetsOf(S))
    BY FS_StrictSubsetOrderingWellFounded
  <2>2. Ups # {}
    OBVIOUS
  <2>3. \E T \in Ups : \A U \in Ups : ~(<<U, T>> \in StrictSubsetOrdering(S))
    BY <1>3, <2>1, <2>2, WFMin
  <2> QED
    BY <2>3
<1>5. PICK k \in S : T = Up(k)
  BY <1>4
<1>6. ASSUME NEW j \in S, j < k
      PROVE  FALSE
  <2>1. Up(j) \in Ups /\ Up(j) \subseteq S /\ Up(k) \subseteq S
    BY <1>6
  <2>2. Up(j) \subseteq Up(k) /\ k \in Up(k) /\ k \notin Up(j)
    <3>1. S \subseteq Int /\ j \in Int /\ k \in Int
      OBVIOUS
    <3>2. \A i \in S : i <= j => i <= k
      BY <1>6, <3>1
    <3>3. k <= k /\ ~(k <= j)
      BY <1>6, <3>1
    <3> QED
      BY <3>2, <3>3, Zenon
  <2>3. Up(j) # Up(k)
    BY <2>2
  <2>4. <<Up(j), Up(k)>> \in StrictSubsetOrdering(S)
    BY <2>1, <2>2, <2>3, StrictlyWithin
  <2> QED
    BY <1>4, <1>5, <2>1, <2>4
<1>7. \A j \in S : k <= j
  BY <1>6
<1> QED
  BY <1>7 DEF Min

\* The nodes and parts of a partition are numbers, and every node has a home.
LEMMA PlacesAreNumbers ==
    ASSUME NEW p \in Problems, p.family = "graph-partition"
    PROVE  p.nodes \subseteq Int /\ p.parts \subseteq Int
<1>1. ArePlaces(p.nodes) /\ ArePlaces(p.parts)
  BY ClassicalAssumption
<1>2. Cardinality(p.nodes) \in Nat /\ Cardinality(p.parts) \in Nat
  BY <1>1, FS_CardinalityType DEF ArePlaces
<1> QED
  BY <1>1, <1>2 DEF ArePlaces

LEMMA HomeIsAPart ==
    ASSUME NEW p \in Problems, p.family = "graph-partition",
           NEW x \in Solutions(p), NEW n \in p.nodes
    PROVE  Home(p, x, n) \in p.parts
<1>1. ArePlaces(p.parts) /\ Cardinality(p.parts) >= 2
  BY ClassicalAssumption DEF WellFormed, WellFormedPartition
<1>2. Cardinality(p.parts) \in Nat /\ p.parts = 0..(Cardinality(p.parts) - 1)
  BY <1>1, FS_CardinalityType DEF ArePlaces
<1>3. Row(x, n) \subseteq p.parts
  BY DEF Row, Solutions, Variables
<1>4. 0 \in p.parts
  BY <1>1, <1>2
<1>5. CASE Row(x, n) # {}
  <2> DEFINE high == Cardinality(p.parts) - 1
  <2>1. high \in Int /\ Row(x, n) \in SUBSET (0..high)
    BY <1>2, <1>3
  <2>2. Min(Row(x, n)) \in Row(x, n)
    BY <1>5, <2>1, LeastOfPlaces
  <2> QED
    BY <1>3, <1>5, <2>2 DEF Home
<1> QED
  BY <1>4, <1>5 DEF Home

\* What the moves of a pass lead to is a solution, and so is where it settles.
LEMMA SweptIsASolution ==
    ASSUME NEW p \in Problems, p.family = "graph-partition", NEW x \in Solutions(p),
           NEW N \in SUBSET p.nodes
    PROVE  Swept(p, x, N) \in Solutions(p)
<1>1. Variables(p) = p.nodes \X p.parts
  BY DEF Variables
<1>2. \A n \in N : <<n, Home(p, x, n)>> \in p.nodes \X p.parts
  BY HomeIsAPart
<1> QED
  BY <1>1, <1>2 DEF Swept, Solutions

\* A swap is evaluated on the solution it leads to.
LEMMA SwapShape ==
    ASSUME NEW p, NEW x, NEW m \in Swaps(p, x)
    PROVE  /\ m.probe = m.next
           /\ \E key \in p.tasks \X p.resources \X p.resources :
                 m.next = (x \ {<<key[1], key[3]>>}) \cup {<<key[1], key[2]>>}
<1> DEFINE y(key) == (x \ {<<key[1], key[3]>>}) \cup {<<key[1], key[2]>>}
<1>1. PICK key \in {k \in p.tasks \X p.resources \X p.resources :
                      /\ <<k[1], k[2]>> \notin x \cup p.prohibited
                      /\ <<k[1], k[3]>> \in x} : m = Move(key, y(key), y(key))
  BY Zenon DEF Swaps
<1> HIDE DEF y
<1>2. m.probe = y(key) /\ m.next = y(key)
  BY <1>1 DEF Move
<1> QED
  BY <1>2, Zenon DEF y

\* A relocation is evaluated while the sweep is at its node, and leads to the
\* solution after the sweep.
Later(p, x, key) ==
    {v \in x : v[1] > key[1] \/ (v[1] = key[1] /\ v[2] > key[2] /\ v[2] # Home(p, x, key[1]))}

IsRelocation(p, x, m, key) ==
    /\ m.probe = Swept(p, x, {n \in p.nodes : n < key[1]}) \cup {key} \cup Later(p, x, key)
    /\ m.next = Swept(p, x, p.nodes \ {key[1]}) \cup {key}

LEMMA RelocationShape ==
    ASSUME NEW p, NEW x, NEW m \in Relocations(p, x)
    PROVE  \E key \in p.nodes \X p.parts : IsRelocation(p, x, m, key)
<1> DEFINE probe(key) ==
             Swept(p, x, {n \in p.nodes : n < key[1]}) \cup {key} \cup Later(p, x, key)
           next(key) == Swept(p, x, p.nodes \ {key[1]}) \cup {key}
<1>1. PICK key \in {v \in p.nodes \X p.parts : v[2] # Home(p, x, v[1])} :
             m = Move(key, probe(key), next(key))
  BY Zenon DEF Relocations, Later
<1> HIDE DEF probe, next
<1>2. m.probe = probe(key) /\ m.next = next(key)
  BY <1>1 DEF Move
<1> QED
  BY <1>1, <1>2, Zenon DEF probe, next, IsRelocation

LEMMA MovesAreSolutions ==
    ASSUME NEW p \in Problems, NEW x \in Solutions(p), NEW m \in Moves(p, x)
    PROVE  m.next \in Solutions(p)
<1>1. CASE p.family \in {"maxcut", "subset-selection"}
  <2>1. m \in Flips(p, x)
    BY <1>1 DEF Moves
  <2>2. PICK v \in Variables(p) : m.next = Difference(x, {v})
    BY <2>1 DEF Flips, Move
  <2> QED
    BY <2>2 DEF Difference, Solutions
<1>2. CASE p.family = "assignment"
  <2>1. m \in Swaps(p, x)
    BY <1>2 DEF Moves
  <2>2. PICK key \in p.tasks \X p.resources \X p.resources :
               m.next = (x \ {<<key[1], key[3]>>}) \cup {<<key[1], key[2]>>}
    BY <2>1, SwapShape
  <2>3. <<key[1], key[2]>> \in p.tasks \X p.resources
    OBVIOUS
  <2> QED
    BY <1>2, <2>2, <2>3 DEF Solutions, Variables
<1>3. CASE p.family = "graph-partition"
  <2>1. m \in Relocations(p, x)
    BY <1>3 DEF Moves
  <2>2. PICK key \in p.nodes \X p.parts :
               m.next = Swept(p, x, p.nodes \ {key[1]}) \cup {key}
    <3>1. PICK key \in p.nodes \X p.parts : IsRelocation(p, x, m, key)
      BY <2>1, RelocationShape
    <3> QED
      BY <3>1 DEF IsRelocation
  <2>3. Swept(p, x, p.nodes \ {key[1]}) \in Solutions(p)
    BY <1>3, SweptIsASolution
  <2> QED
    BY <1>3, <2>2, <2>3 DEF Solutions, Variables
<1> QED
  BY <1>1, <1>2, <1>3, Families4

\* A restart begins with a solution: the greedy one, or a random one.
LEMMA InitialIsASolution ==
    ASSUME NEW p \in Problems, NEW i, NEW x \in InitialSolutions(p, i)
    PROVE  x \in Solutions(p)
<1>1. CASE i # 0
  BY <1>1 DEF InitialSolutions
<1>2. CASE i = 0
  <2>1. x \in GreedySolutions(p)
    BY <1>2 DEF InitialSolutions
  <2>2. CASE p.family = "maxcut"
    BY <2>1, <2>2 DEF GreedySolutions, Alternating, Solutions, Variables
  <2>3. CASE p.family \in {"assignment", "subset-selection"}
    BY <2>1, <2>3 DEF GreedySolutions
  <2>4. CASE p.family = "graph-partition"
    <3>1. x = RoundRobin(p)
      BY <2>1, <2>4 DEF GreedySolutions
    <3>2. /\ Cardinality(p.parts) \in Nat /\ Cardinality(p.parts) >= 2
          /\ p.parts = 0..(Cardinality(p.parts) - 1)
      BY <2>4, ClassicalAssumption, FS_CardinalityType DEF ArePlaces, WellFormed, WellFormedPartition
    <3>3. p.nodes \subseteq Int
      BY <2>4, ClassicalAssumption, FS_CardinalityType DEF ArePlaces
    <3>4. \A n \in p.nodes : n % Cardinality(p.parts) \in p.parts
      BY <3>2, <3>3
    <3> QED
      BY <2>4, <3>1, <3>4 DEF RoundRobin, Solutions, Variables
  <2> QED
    BY <2>2, <2>3, <2>4, Families4
<1> QED
  BY <1>1, <1>2

\* A flip is evaluated on the solution it leads to.
LEMMA FlipShape ==
    ASSUME NEW p, NEW x, NEW m \in Flips(p, x)
    PROVE  m.probe = m.next
<1>1. PICK v \in Variables(p) : m = Move(<<v>>, Difference(x, {v}), Difference(x, {v}))
  BY Zenon DEF Flips
<1> QED
  BY <1>1 DEF Move

\* Sweeping a node leaves it in one part.
LEMMA SweptRow ==
    ASSUME NEW p, NEW x, NEW N, NEW n
    PROVE  /\ n \in N => Row(Swept(p, x, N), n) = {Home(p, x, n)}
           /\ n \notin N => Row(Swept(p, x, N), n) = {}
<1>1. \A v \in Swept(p, x, N) : v[1] \in N /\ v[2] = Home(p, x, v[1])
  BY DEF Swept
<1>2. n \in N => <<n, Home(p, x, n)>> \in Swept(p, x, N)
  BY DEF Swept
<1>3. \A e : e \in Row(Swept(p, x, N), n) => n \in N /\ e = Home(p, x, n)
  BY <1>1 DEF Row
<1>4. n \in N => Home(p, x, n) \in Row(Swept(p, x, N), n)
  <2>1. <<n, Home(p, x, n)>>[1] = n /\ <<n, Home(p, x, n)>>[2] = Home(p, x, n)
    OBVIOUS
  <2> QED
    BY <1>2, <2>1 DEF Row
<1> QED
  BY <1>3, <1>4

\* After the first sweep over a partition every node is in one part.
LEMMA SettledInOnePart ==
    ASSUME NEW p, NEW x, NEW n \in p.nodes
    PROVE  Cardinality(Row(Swept(p, x, p.nodes), n)) = 1
<1>1. Row(Swept(p, x, p.nodes), n) = {Home(p, x, n)}
  BY SweptRow
<1> QED
  BY <1>1, FS_Singleton

LEMMA RelocatedInOnePart ==
    ASSUME NEW p, NEW x, NEW m \in Relocations(p, x), NEW n \in p.nodes
    PROVE  Cardinality(Row(m.next, n)) = 1
<1>1. PICK key \in p.nodes \X p.parts : IsRelocation(p, x, m, key)
  BY RelocationShape
<1>2. Row(m.next, n) = Row(Swept(p, x, p.nodes \ {key[1]}), n) \cup Row({key}, n)
  BY <1>1 DEF Row, IsRelocation
<1>3. Row({key}, n) = IF key[1] = n THEN {key[2]} ELSE {}
  BY DEF Row
<1>4. Row(m.next, n) = IF key[1] = n THEN {key[2]} ELSE {Home(p, x, n)}
  BY <1>2, <1>3, SweptRow
<1> QED
  BY <1>4, FS_Singleton

\* A feasible partition is as a sweep leaves it, and then a relocation is
\* evaluated on the solution it leads to.
LEMMA FeasibleIsSwept ==
    ASSUME NEW p \in Problems, p.family = "graph-partition",
           NEW x \in Solutions(p), Feasible(p, x)
    PROVE  /\ \A n \in p.nodes : Row(x, n) = {Home(p, x, n)}
           /\ x = Swept(p, x, p.nodes)
<1>1. x \subseteq p.nodes \X p.parts
  BY DEF Solutions, Variables
<1>2. IsFiniteSet(p.parts)
  BY ClassicalAssumption DEF ArePlaces
<1>3. ASSUME NEW n \in p.nodes
      PROVE  Row(x, n) = {Home(p, x, n)}
  <2>1. Cardinality(Row(x, n)) = 1
    BY DEF Feasible, FeasiblePartition
  <2>2. Row(x, n) \subseteq p.parts
    BY <1>1 DEF Row
  <2>3. PICK k : Row(x, n) = {k}
    BY <1>2, <2>1, <2>2, FS_Subset, FS_Singleton
  <2>4. k \in Int
    BY <2>2, <2>3, PlacesAreNumbers
  <2>5. Min({k}) = k
    BY <2>4 DEF Min
  <2> QED
    BY <2>3, <2>5 DEF Home
<1>4. ASSUME NEW v \in x
      PROVE  v \in Swept(p, x, p.nodes)
  <2>1. v[1] \in p.nodes /\ v = <<v[1], v[2]>> /\ v[2] \in Row(x, v[1])
    BY <1>1 DEF Row
  <2>2. v = <<v[1], Home(p, x, v[1])>>
    BY <1>3, <2>1
  <2> QED
    BY <2>1, <2>2 DEF Swept
<1>5. ASSUME NEW n \in p.nodes
      PROVE  <<n, Home(p, x, n)>> \in x
  <2>1. Home(p, x, n) \in Row(x, n)
    BY <1>3
  <2>2. PICK v \in x : v[1] = n /\ v[2] = Home(p, x, n)
    BY <2>1 DEF Row
  <2>3. v = <<v[1], v[2]>>
    BY <1>1
  <2> QED
    BY <2>2, <2>3
<1> QED
  BY <1>3, <1>4, <1>5 DEF Swept

LEMMA RelocationOfFeasible ==
    ASSUME NEW p \in Problems, p.family = "graph-partition",
           NEW x \in Solutions(p), Feasible(p, x), NEW m \in Relocations(p, x)
    PROVE  m.probe = m.next
<1>1. PICK key \in p.nodes \X p.parts : IsRelocation(p, x, m, key)
  BY RelocationShape
<1>2. p.nodes \subseteq Int /\ key[1] \in p.nodes
  BY PlacesAreNumbers
<1>3. Later(p, x, key) = Swept(p, x, {i \in p.nodes : i > key[1]})
  <2>1. \A v \in x : v[1] \in p.nodes /\ v = <<v[1], Home(p, x, v[1])>> /\ v[2] = Home(p, x, v[1])
    BY FeasibleIsSwept DEF Swept
  <2>2. \A n \in p.nodes : <<n, Home(p, x, n)>> \in x
    BY FeasibleIsSwept DEF Swept
  <2> QED
    BY <2>1, <2>2 DEF Later, Swept
<1>4. \A i \in p.nodes : i # key[1] <=> i < key[1] \/ i > key[1]
  BY <1>2
<1>5. Swept(p, x, p.nodes \ {key[1]}) =
         Swept(p, x, {i \in p.nodes : i < key[1]}) \cup Swept(p, x, {i \in p.nodes : i > key[1]})
  BY <1>4 DEF Swept
<1> QED
  BY <1>1, <1>3, <1>5 DEF IsRelocation

-----------------------------------------------------------------------------
(***************************************************************************)
(* The inductive invariant.                                                *)
(***************************************************************************)
OnePart(x) == \A n \in problem.nodes : Cardinality(Row(x, n)) = 1

\* Which loop a phase belongs to, and how far its counters are.
Standing ==
    /\ phase = "enumerate" => request.solver = "exact"
    /\ phase \in {"restart", "descend", "compare"} => request.solver = "heuristic"
    /\ phase \notin {"called", "raised"} => Valid
    /\ phase = "called" => remaining = {} /\ ends = {} /\ best = Nothing /\ restart = 0
    /\ phase \in {"descend", "compare"} => restart < request.restarts
    /\ request.solver = "exact" => remaining \subseteq States(problem)
    /\ restart # 0 => ends # {}

\* What a restart knows of the solution it stands on: the objective of a cut,
\* and one part per node after the first sweep over a partition.
Climbing ==
    /\ problem.family = "maxcut" /\ phase \in {"descend", "compare"} =>
          tracked = Value(problem, current)
    /\ problem.family = "graph-partition" =>
          /\ phase = "descend" /\ pass # 0 => OnePart(current)
          /\ phase = "compare" => OnePart(current)
          /\ \A y \in ends : OnePart(y)

\* Why a call has ended.
Ended ==
    /\ phase = "returned" =>
          /\ result = IF best = Nothing THEN Failure ELSE Success
          /\ request.solver = "exact" => best # Nothing /\ remaining = {}
          /\ request.solver = "heuristic" => restart = request.restarts
    /\ phase = "raised" /\ Valid =>
          request.solver = "exact" /\ \A y \in States(problem) : ~Feasible(problem, y)

SearchInv == TypeOK /\ Standing /\ Climbing /\ IncumbentIsBest /\ Ended

LEMMA RequestType ==
    ASSUME NEW r \in Requests
    PROVE  /\ r.solver \in {"exact", "heuristic"}
           /\ r.solver = "heuristic" => r.restarts \in Nat /\ r.passes \in Nat
  BY ClassicalAssumption DEF Requests

LEMMA StatesAreSolutions ==
    ASSUME NEW p
    PROVE  States(p) \subseteq Solutions(p)
  BY DEF States

\* Betterness is a strict order of the objectives.
LEMMA BetterIsAnOrder ==
    ASSUME NEW a \in Int, NEW b \in Int, NEW c \in Int
    PROVE  /\ ~Better(a, a)
           /\ Better(a, b) => ~Better(b, a)
           /\ Better(a, b) /\ ~Better(c, b) => ~Better(c, a)
           /\ ~Better(a, b) /\ ~Better(b, a) => a = b
  BY DEF Better

\* Of the solutions in S, b is the best feasible one.
IsBestOf(b, S) ==
    /\ b = Nothing => \A y \in S : ~Feasible(problem, y)
    /\ b # Nothing =>
          /\ b \in S /\ Feasible(problem, b)
          /\ \A y \in S : Feasible(problem, y) => ~Better(Value(problem, y), Value(problem, b))

\* One more solution replaces the best one when it does not lose to it, and may
\* be passed over when it does not beat it.
LEMMA OneMoreSolution ==
    ASSUME problem \in Problems, NEW S \in SUBSET Solutions(problem), NEW b, IsBestOf(b, S),
           NEW x \in Solutions(problem), NEW c,
           \/ /\ c = x /\ Feasible(problem, x)
              /\ b # Nothing => ~Better(Value(problem, b), Value(problem, x))
           \/ /\ c = b
              /\ Feasible(problem, x) =>
                    b # Nothing /\ ~Better(Value(problem, x), Value(problem, b))
    PROVE  IsBestOf(c, S \cup {x})
<1>1. \A y \in Solutions(problem) : y # Nothing /\ Value(problem, y) \in Int
  BY Judgement
<1>2. CASE c = b /\ (Feasible(problem, x) =>
                       b # Nothing /\ ~Better(Value(problem, x), Value(problem, b)))
  BY <1>2 DEF IsBestOf
<1>3. CASE /\ c = x /\ Feasible(problem, x)
           /\ b # Nothing => ~Better(Value(problem, b), Value(problem, x))
  <2>1. ASSUME NEW y \in S, Feasible(problem, y)
        PROVE  ~Better(Value(problem, y), Value(problem, x))
    <3>1. b # Nothing /\ b \in Solutions(problem) /\ ~Better(Value(problem, y), Value(problem, b))
      BY <2>1 DEF IsBestOf
    <3>2. ~Better(Value(problem, b), Value(problem, x))
      BY <1>3, <3>1
    <3> QED
      BY <1>1, <3>1, <3>2 DEF Better
  <2>2. ~Better(Value(problem, x), Value(problem, x))
    BY <1>1, BetterIsAnOrder
  <2> QED
    BY <1>1, <1>3, <2>1, <2>2 DEF IsBestOf
<1> QED
  BY <1>2, <1>3

LEMMA Initially == Init => SearchInv
<1> SUFFICES ASSUME Init PROVE SearchInv
  OBVIOUS
<1>1. {} \in Solutions(problem)
  BY DEF Solutions
<1>2. request.solver = "heuristic" => request.restarts \in Nat /\ request.passes \in Nat
  BY RequestType DEF Init
<1>3. TypeOK
  BY <1>1, <1>2 DEF Init, TypeOK, Phases
<1>4. Standing /\ Climbing /\ Ended
  BY DEF Init, Standing, Climbing, Ended
<1>5. IncumbentIsBest
  BY DEF Init, IncumbentIsBest, Considered
<1> QED
  BY <1>3, <1>4, <1>5 DEF SearchInv

LEMMA RefuseStep == SearchInv /\ Refuse => SearchInv'
<1> SUFFICES ASSUME SearchInv, Refuse PROVE SearchInv'
  OBVIOUS
<1>1. /\ UNCHANGED <<problem, request, remaining, restart, pass, current, tracked, best, ends, result>>
      /\ phase = "called" /\ phase' = "raised" /\ ~Valid /\ ~Valid'
  BY DEF Refuse, arguments, climb, Valid
<1>2. TypeOK' /\ Standing' /\ Climbing' /\ Ended' /\ IncumbentIsBest'
  BY <1>1 DEF SearchInv, TypeOK, Phases, Standing, Climbing, OnePart, Ended, IncumbentIsBest
<1> QED
  BY <1>2 DEF SearchInv

LEMMA PrepareStep == SearchInv /\ Prepare => SearchInv'
<1> SUFFICES ASSUME SearchInv, Prepare PROVE SearchInv'
  OBVIOUS
<1>1. /\ UNCHANGED <<problem, request, restart, pass, current, tracked, best, ends, result>>
      /\ phase = "called" /\ Valid /\ Valid'
  BY DEF Prepare, arguments, climb, Valid
<1>2. /\ remaining = {} /\ ends = {} /\ best = Nothing /\ restart = 0
      /\ problem \in Problems /\ request \in Requests
  BY <1>1 DEF SearchInv, Standing, TypeOK
<1>3. \/ request.solver = "exact" /\ phase' = "enumerate" /\ remaining' = States(problem)
      \/ request.solver = "heuristic" /\ phase' = "restart" /\ UNCHANGED remaining
  BY <1>2, RequestType DEF Prepare
<1>4. TypeOK'
  BY <1>1, <1>3, StatesAreSolutions DEF SearchInv, TypeOK, Phases
<1>5. Standing'
  BY <1>1, <1>2, <1>3 DEF Standing
<1>6. Climbing'
  BY <1>1, <1>2, <1>3 DEF Climbing
<1>7. IncumbentIsBest'
  BY <1>1, <1>2, <1>3 DEF IncumbentIsBest, Considered
<1>8. Ended'
  BY <1>3 DEF Ended
<1> QED
  BY <1>4, <1>5, <1>6, <1>7, <1>8 DEF SearchInv

LEMMA VisitStep == SearchInv /\ Visit => SearchInv'
<1> SUFFICES ASSUME SearchInv, Visit PROVE SearchInv'
  OBVIOUS
<1>1. /\ UNCHANGED <<problem, request, phase, restart, pass, current, tracked, ends, result>>
      /\ phase = "enumerate"
  BY DEF Visit, arguments, climb
<1>2. PICK x \in remaining :
            /\ remaining' = remaining \ {x}
            /\ best' = IF /\ Feasible(problem, x)
                          /\ best # Nothing => Better(Value(problem, x), Value(problem, best))
                       THEN x ELSE best
  BY DEF Visit
<1>3. /\ problem \in Problems /\ request.solver = "exact" /\ remaining \subseteq Solutions(problem)
      /\ best # Nothing => best \in Solutions(problem)
      /\ x \in Solutions(problem) /\ x # Nothing
  BY <1>1, Judgement DEF SearchInv, TypeOK, Standing
<1>4. TypeOK'
  BY <1>1, <1>2, <1>3 DEF SearchInv, TypeOK, Phases
<1>5. Standing' /\ Climbing' /\ Ended'
  <2>1. Standing'
    BY <1>1, <1>2 DEF SearchInv, Standing, Valid
  <2>2. Climbing'
    BY <1>1 DEF SearchInv, Climbing, OnePart
  <2>3. Ended'
    BY <1>1 DEF Ended
  <2> QED
    BY <2>1, <2>2, <2>3
<1>6. IncumbentIsBest'
  <2>1. Considered = States(problem) \ remaining /\ Considered' = States(problem) \ remaining'
    BY <1>1, <1>3 DEF Considered
  <2>2. Considered \subseteq Solutions(problem) /\ IsBestOf(best, Considered)
    BY <1>1, <2>1, StatesAreSolutions DEF SearchInv, IncumbentIsBest, IsBestOf
  <2>3. Considered' = Considered \cup {x}
    BY <1>2, <1>3, <2>1 DEF SearchInv, Standing
  <2>4. \/ /\ best' = x /\ Feasible(problem, x)
           /\ best # Nothing => ~Better(Value(problem, best), Value(problem, x))
        \/ /\ best' = best
           /\ Feasible(problem, x) =>
                 best # Nothing /\ ~Better(Value(problem, x), Value(problem, best))
    <3>1. best # Nothing => Value(problem, best) \in Int
      BY <1>3, Judgement
    <3>2. Value(problem, x) \in Int
      BY <1>3, Judgement
    <3>3. best # Nothing /\ Better(Value(problem, x), Value(problem, best)) =>
             ~Better(Value(problem, best), Value(problem, x))
      BY <3>1, <3>2, BetterIsAnOrder
    <3> QED
      BY <1>2, <3>3
  <2>5. IsBestOf(best', Considered')
    BY <1>3, <2>2, <2>3, <2>4, OneMoreSolution
  <2> QED
    BY <1>1, <2>5 DEF IncumbentIsBest, IsBestOf, Better
<1> QED
  BY <1>4, <1>5, <1>6 DEF SearchInv

LEMMA ConcludeStep == SearchInv /\ Conclude => SearchInv'
<1> SUFFICES ASSUME SearchInv, Conclude PROVE SearchInv'
  OBVIOUS
<1>1. /\ UNCHANGED <<problem, request, remaining, restart, pass, current, tracked, best, ends>>
      /\ phase = "enumerate" /\ remaining = {}
      /\ \/ best = Nothing /\ phase' = "raised" /\ UNCHANGED result
         \/ best # Nothing /\ phase' = "returned" /\ result' = Success
  BY DEF Conclude, arguments, climb
<1>2. request.solver = "exact" /\ Valid /\ Valid'
  BY <1>1 DEF SearchInv, Standing, Valid
<1>3. Considered = States(problem) /\ Considered' = States(problem)
  BY <1>1, <1>2 DEF Considered
<1>4. TypeOK'
  BY <1>1 DEF SearchInv, TypeOK, Phases
<1>5. Standing'
  BY <1>1, <1>2 DEF SearchInv, Standing
<1>6. Climbing'
  BY <1>1 DEF SearchInv, Climbing, OnePart
<1>7. IncumbentIsBest'
  BY <1>1, <1>3 DEF SearchInv, IncumbentIsBest, Better
<1>8. Ended'
  <2>1. Success' = Success /\ Failure' = Failure
    BY <1>1 DEF Success, Failure
  <2>2. CASE best = Nothing
    BY <1>1, <1>2, <1>3, <2>2 DEF SearchInv, IncumbentIsBest, Ended
  <2>3. CASE best # Nothing
    BY <1>1, <1>2, <2>1, <2>3 DEF Ended
  <2> QED
    BY <2>2, <2>3
<1> QED
  BY <1>4, <1>5, <1>6, <1>7, <1>8 DEF SearchInv

\* A step within the local search establishes no new end.
LEMMA SameEnds ==
    ASSUME SearchInv, request.solver = "heuristic", phase # "raised",
           UNCHANGED <<problem, request, remaining, best, ends>>
    PROVE  IncumbentIsBest'
  BY DEF SearchInv, IncumbentIsBest, Considered, Better

LEMMA BeginRestartStep == SearchInv /\ BeginRestart => SearchInv'
<1> SUFFICES ASSUME SearchInv, BeginRestart PROVE SearchInv'
  OBVIOUS
<1>1. /\ UNCHANGED <<problem, request, remaining, restart, best, ends, result>>
      /\ phase = "restart" /\ phase' = "descend" /\ pass' = 0 /\ restart < request.restarts
  BY DEF BeginRestart, arguments, AnotherRestart
<1>2. /\ current' \in InitialSolutions(problem, restart)
      /\ tracked' = IF problem.family = "maxcut" THEN Value(problem, current') ELSE Nothing
  BY DEF BeginRestart
<1>3. /\ problem \in Problems /\ request.solver = "heuristic"
      /\ request.restarts \in Nat /\ request.passes \in Nat
  BY <1>1, RequestType DEF SearchInv, TypeOK, Standing
<1>4. current' \in Solutions(problem) /\ Value(problem, current') \in Int
  BY <1>2, <1>3, InitialIsASolution, Judgement
<1>5. TypeOK'
  BY <1>1, <1>2, <1>3, <1>4 DEF SearchInv, TypeOK, Phases
<1>6. Standing'
  BY <1>1, <1>3 DEF SearchInv, Standing, Valid
<1>7. Climbing'
  BY <1>1, <1>2 DEF SearchInv, Climbing, OnePart
<1>8. Ended'
  BY <1>1 DEF Ended
<1>9. IncumbentIsBest'
  BY <1>1, <1>3, SameEnds
<1> QED
  BY <1>5, <1>6, <1>7, <1>8, <1>9 DEF SearchInv

\* What a move or a settling of one pass establishes.
LEMMA PassOutcome ==
    ASSUME SearchInv, Pass
    PROVE  /\ current' \in Solutions(problem)
           /\ tracked' \in Int \cup {Nothing}
           /\ problem.family = "maxcut" =>
                 tracked' = Value(problem, current') /\ Value(problem, current') >= tracked
           /\ problem.family = "graph-partition" =>
                 \A n \in problem.nodes : Cardinality(Row(current', n)) = 1
           /\ Feasible(problem, current) => Feasible(problem, current')
<1>1. /\ problem \in Problems /\ current \in Solutions(problem)
      /\ problem.family = "maxcut" => tracked = Value(problem, current)
      /\ tracked \in Int \cup {Nothing} /\ Value(problem, current) \in Int
  BY Judgement DEF SearchInv, TypeOK, Climbing, Pass
<1>2. ASSUME NEW m \in Admitted(problem, current), current' = m.next, tracked' = Track(m)
      PROVE  /\ current' \in Solutions(problem)
             /\ tracked' \in Int \cup {Nothing}
             /\ problem.family = "maxcut" =>
                   tracked' = Value(problem, current') /\ Value(problem, current') >= tracked
             /\ problem.family = "graph-partition" =>
                   \A n \in problem.nodes : Cardinality(Row(current', n)) = 1
             /\ Feasible(problem, current) => Feasible(problem, current')
  <2>1. /\ m \in Moves(problem, current) /\ Feasible(problem, m.probe)
        /\ problem.family = "maxcut" => Value(problem, m.probe) >= tracked
    BY DEF Admitted
  <2>2. current' \in Solutions(problem) /\ Value(problem, current') \in Int
    BY <1>1, <1>2, <2>1, MovesAreSolutions, Judgement
  <2>3. problem.family \in {"maxcut", "subset-selection"} => m.probe = m.next
    BY <2>1, FlipShape DEF Moves
  <2>4. problem.family = "assignment" => m.probe = m.next
    BY <2>1, SwapShape DEF Moves
  <2>5. problem.family = "graph-partition" => m \in Relocations(problem, current)
    BY <2>1 DEF Moves
  <2>6. problem.family = "maxcut" =>
           tracked' = Value(problem, current') /\ Value(problem, current') >= tracked
    BY <1>1, <1>2, <2>1, <2>2, <2>3 DEF Track
  <2>7. tracked' \in Int \cup {Nothing}
    BY <1>2, <2>2, <2>6 DEF Track
  <2>8. problem.family = "graph-partition" =>
           \A n \in problem.nodes : Cardinality(Row(current', n)) = 1
    BY <1>2, <2>5, RelocatedInOnePart
  <2>9. Feasible(problem, current) => Feasible(problem, current')
    <3>1. problem.family = "graph-partition" /\ Feasible(problem, current) => m.probe = m.next
      BY <1>1, <2>5, RelocationOfFeasible
    <3> QED
      BY <1>1, <1>2, <2>1, <2>3, <2>4, <3>1, Families4
  <2> QED
    BY <2>2, <2>6, <2>7, <2>8, <2>9
<1>3. ASSUME current' = Settled(problem, current), UNCHANGED tracked
      PROVE  /\ current' \in Solutions(problem)
             /\ tracked' \in Int \cup {Nothing}
             /\ problem.family = "maxcut" =>
                   tracked' = Value(problem, current') /\ Value(problem, current') >= tracked
             /\ problem.family = "graph-partition" =>
                   \A n \in problem.nodes : Cardinality(Row(current', n)) = 1
             /\ Feasible(problem, current) => Feasible(problem, current')
  <2>1. CASE problem.family # "graph-partition"
    <3>1. current' = current
      BY <1>3, <2>1 DEF Settled
    <3> QED
      BY <1>1, <1>3, <2>1, <3>1
  <2>2. CASE problem.family = "graph-partition"
    <3>1. current' = Swept(problem, current, problem.nodes)
      BY <1>3, <2>2 DEF Settled
    <3>2. current' \in Solutions(problem)
      BY <1>1, <2>2, <3>1, SweptIsASolution
    <3>3. \A n \in problem.nodes : Cardinality(Row(current', n)) = 1
      BY <3>1, SettledInOnePart
    <3>4. Feasible(problem, current) => current' = current
      BY <1>1, <2>2, <3>1, FeasibleIsSwept
    <3> QED
      BY <1>1, <1>3, <2>2, <3>2, <3>3, <3>4
  <2> QED
    BY <2>1, <2>2
<1> QED
  BY <1>2, <1>3 DEF Pass

LEMMA PassStep == SearchInv /\ Pass => SearchInv'
<1> SUFFICES ASSUME SearchInv, Pass PROVE SearchInv'
  OBVIOUS
<1>1. /\ UNCHANGED <<problem, request, remaining, restart, best, ends, result>>
      /\ phase = "descend" /\ phase' \in {"descend", "compare"}
      /\ pass < request.passes /\ pass' = pass + 1
  BY DEF Pass, arguments
<1>2. /\ request.solver = "heuristic" /\ request.restarts \in Nat /\ request.passes \in Nat
      /\ restart < request.restarts /\ Valid
  BY <1>1, RequestType DEF SearchInv, TypeOK, Standing
<1>3. TypeOK'
  BY <1>1, <1>2, PassOutcome DEF SearchInv, TypeOK, Phases
<1>4. Standing'
  BY <1>1, <1>2 DEF SearchInv, Standing, Valid
<1>5. Climbing'
  BY <1>1, PassOutcome DEF SearchInv, Climbing, OnePart
<1>6. Ended'
  BY <1>1 DEF Ended
<1>7. IncumbentIsBest'
  BY <1>1, <1>2, SameEnds
<1> QED
  BY <1>3, <1>4, <1>5, <1>6, <1>7 DEF SearchInv

LEMMA OutOfPassesStep == SearchInv /\ OutOfPasses => SearchInv'
<1> SUFFICES ASSUME SearchInv, OutOfPasses PROVE SearchInv'
  OBVIOUS
<1>1. /\ UNCHANGED <<problem, request, remaining, restart, pass, current, tracked, best, ends, result>>
      /\ phase = "descend" /\ phase' = "compare" /\ pass = request.passes
  BY DEF OutOfPasses, arguments, climb
<1>2. /\ request.solver = "heuristic" /\ restart < request.restarts /\ Valid
      /\ request.passes \in Nat
  BY <1>1, RequestType DEF SearchInv, TypeOK, Standing
<1>3. pass # 0
  BY <1>1, <1>2 DEF Valid
<1>4. TypeOK' /\ Ended'
  BY <1>1 DEF SearchInv, TypeOK, Phases, Ended
<1>5. Standing'
  BY <1>1, <1>2 DEF SearchInv, Standing, Valid
<1>6. Climbing'
  BY <1>1, <1>3 DEF SearchInv, Climbing, OnePart
<1>7. IncumbentIsBest'
  BY <1>1, <1>2, SameEnds
<1> QED
  BY <1>4, <1>5, <1>6, <1>7 DEF SearchInv

LEMMA CompareStep == SearchInv /\ Compare => SearchInv'
<1> SUFFICES ASSUME SearchInv, Compare PROVE SearchInv'
  OBVIOUS
<1>1. /\ UNCHANGED <<problem, request, remaining, pass, current, tracked, result>>
      /\ phase = "compare" /\ phase' = "restart" /\ restart' = restart + 1
      /\ ends' = ends \cup {current}
      /\ best' = IF Improves(current) THEN current ELSE best
  BY DEF Compare, arguments
<1>2. /\ request.solver = "heuristic" /\ request.restarts \in Nat
      /\ restart < request.restarts /\ Valid
      /\ problem \in Problems /\ current \in Solutions(problem) /\ current # Nothing
      /\ best # Nothing => best \in Solutions(problem)
      /\ ends \subseteq Solutions(problem) /\ restart \in Nat
  BY <1>1, RequestType, Judgement DEF SearchInv, TypeOK, Standing
<1>3. TypeOK'
  BY <1>1, <1>2 DEF SearchInv, TypeOK, Phases
<1>4. Standing'
  BY <1>1, <1>2 DEF SearchInv, Standing, Valid
<1>5. Climbing'
  BY <1>1 DEF SearchInv, Climbing, OnePart
<1>6. IncumbentIsBest'
  <2>1. Considered = ends /\ Considered' = ends \cup {current}
    BY <1>1, <1>2 DEF Considered
  <2>2. IsBestOf(best, ends)
    BY <1>1, <2>1 DEF SearchInv, IncumbentIsBest, IsBestOf
  <2>3. \/ /\ best' = current /\ Feasible(problem, current)
           /\ best # Nothing => ~Better(Value(problem, best), Value(problem, current))
        \/ /\ best' = best
           /\ Feasible(problem, current) =>
                 best # Nothing /\ ~Better(Value(problem, current), Value(problem, best))
    <3>1. Value(problem, current) \in Int /\ (best # Nothing => Value(problem, best) \in Int)
      BY <1>2, Judgement
    <3>2. best # Nothing /\ (\/ Better(Value(problem, current), Value(problem, best))
                            \/ Value(problem, current) = Value(problem, best)) =>
             ~Better(Value(problem, best), Value(problem, current))
      BY <3>1, BetterIsAnOrder
    <3> QED
      BY <1>1, <3>2 DEF Improves
  <2>4. IsBestOf(best', ends \cup {current})
    BY <1>2, <2>2, <2>3, OneMoreSolution
  <2> QED
    BY <1>1, <2>1, <2>4 DEF IncumbentIsBest, IsBestOf, Better
<1>7. Ended'
  BY <1>1 DEF Ended
<1> QED
  BY <1>3, <1>4, <1>5, <1>6, <1>7 DEF SearchInv

LEMMA ReportStep == SearchInv /\ Report => SearchInv'
<1> SUFFICES ASSUME SearchInv, Report PROVE SearchInv'
  OBVIOUS
<1>1. /\ UNCHANGED <<problem, request, remaining, restart, pass, current, tracked, best, ends>>
      /\ phase = "restart" /\ phase' = "returned" /\ restart = request.restarts
      /\ result' = IF best = Nothing THEN Failure ELSE Success
  BY DEF Report, arguments, climb
<1>2. request.solver = "heuristic" /\ Valid
  BY <1>1 DEF SearchInv, Standing
<1>3. TypeOK'
  BY <1>1 DEF SearchInv, TypeOK, Phases
<1>4. Standing'
  BY <1>1, <1>2 DEF SearchInv, Standing, Valid
<1>5. Climbing'
  BY <1>1 DEF SearchInv, Climbing, OnePart
<1>6. IncumbentIsBest'
  BY <1>1, <1>2, SameEnds
<1>7. Ended'
  BY <1>1, <1>2 DEF Ended, Success, Failure
<1> QED
  BY <1>3, <1>4, <1>5, <1>6, <1>7 DEF SearchInv

LEMMA StutterStep == SearchInv /\ UNCHANGED vars => SearchInv'
  BY DEF SearchInv, TypeOK, Phases, Standing, Valid, Climbing, OnePart, IncumbentIsBest,
         Considered, Better, Ended, Success, Failure, vars

\* The invariant holds throughout a call.
THEOREM SearchInvHolds == Spec => []SearchInv
<1>1. SearchInv /\ [Next]_vars => SearchInv'
  BY RefuseStep, PrepareStep, VisitStep, ConcludeStep, BeginRestartStep, PassStep,
     OutOfPassesStep, CompareStep, ReportStep, StutterStep DEF Next
<1> QED
  BY Initially, <1>1, PTL DEF Spec

-----------------------------------------------------------------------------
(***************************************************************************)
(* What the invariant says of a call.                                      *)
(***************************************************************************)
\* A cut and its mirror image separate the same edges, and one of the two leaves
\* node 0 in the first side.
LEMMA MirrorCut ==
    ASSUME NEW p \in Problems, p.family = "maxcut", NEW y \in Solutions(p)
    PROVE  /\ p.nodes \ y \in Solutions(p)
           /\ Value(p, p.nodes \ y) = Value(p, y)
           /\ y \in States(p) \/ p.nodes \ y \in States(p)
<1>1. y \subseteq p.nodes /\ p.nodes \ y \in Solutions(p)
  BY DEF Solutions, Variables
<1>2. \A e \in DOMAIN p.weight : e \subseteq p.nodes
  <2>1. \A e \in DOMAIN p.weight : e \in Pairs(p.nodes)
    BY ClassicalAssumption DEF WellFormed, WellFormedCut
  <2>2. \A e \in Pairs(p.nodes) : e \subseteq p.nodes
    BY DEF Pairs
  <2> QED
    BY <2>1, <2>2
<1>3. \A e \in DOMAIN p.weight : Separated(e, p.nodes \ y) <=> Separated(e, y)
  BY <1>1, <1>2 DEF Separated
<1>4. {e \in DOMAIN p.weight : Separated(e, p.nodes \ y)}
         = {e \in DOMAIN p.weight : Separated(e, y)}
  BY <1>3
<1>5. Value(p, p.nodes \ y) = Value(p, y)
  BY <1>4, Zenon DEF Value
<1>6. y \in States(p) \/ p.nodes \ y \in States(p)
  BY <1>1 DEF States
<1> QED
  BY <1>1, <1>5, <1>6

\* What is best among the states that are enumerated is best among all solutions.
LEMMA StatesSuffice ==
    ASSUME NEW p \in Problems, NEW y \in Solutions(p), Feasible(p, y)
    PROVE  \E z \in States(p) : Feasible(p, z) /\ Value(p, z) = Value(p, y)
<1>1. CASE p.family = "maxcut"
  <2>1. \A z : Feasible(p, z)
    BY <1>1 DEF Feasible
  <2> QED
    BY <1>1, <2>1, MirrorCut
<1>2. CASE p.family # "maxcut"
  BY <1>2 DEF States
<1> QED
  BY <1>1, <1>2

\* For every document and all bounds, a call keeps its types and its loops stay
\* within the bounds that were asked for.
THEOREM SearchTypeOK == Spec => []TypeOK
<1>1. SearchInv => TypeOK
  BY DEF SearchInv
<1> QED
  BY <1>1, SearchInvHolds, PTL

\* Both solvers keep the best of what they considered.
THEOREM KeepsTheBest == Spec => []IncumbentIsBest
<1>1. SearchInv => IncumbentIsBest
  BY DEF SearchInv
<1> QED
  BY <1>1, SearchInvHolds, PTL

\* The exact solver returns an optimum, also for cuts, of which it enumerates one
\* half; it raises after an enumeration only when nothing is feasible.
THEOREM ReturnsAnOptimum == Spec => []ExactIsOptimal
<1>1. SearchInv => ExactIsOptimal
  <2> SUFFICES ASSUME SearchInv, request.solver = "exact" PROVE
         /\ phase = "returned" =>
              /\ result.status = "success"
              /\ result.solution \in Solutions(problem) /\ Feasible(problem, result.solution)
              /\ result.objective = Value(problem, result.solution)
              /\ \A y \in Solutions(problem) :
                    Feasible(problem, y) => ~Better(Value(problem, y), result.objective)
         /\ phase = "raised" /\ Valid => \A y \in Solutions(problem) : ~Feasible(problem, y)
    BY DEF ExactIsOptimal
  <2>1. problem \in Problems
    BY DEF SearchInv, TypeOK
  <2>2. CASE phase = "returned"
    <3>1. best # Nothing /\ remaining = {} /\ result = Success
      BY <2>2 DEF SearchInv, Ended
    <3>2. /\ result.status = "success" /\ result.solution = best
          /\ result.objective = Value(problem, best)
      BY <3>1 DEF Success
    <3>3. best \in Solutions(problem) /\ Feasible(problem, best)
      BY <2>2, <3>1 DEF SearchInv, TypeOK, IncumbentIsBest
    <3>4. \A z \in States(problem) :
             Feasible(problem, z) => ~Better(Value(problem, z), Value(problem, best))
      BY <2>2, <3>1 DEF SearchInv, IncumbentIsBest, Considered
    <3>5. ASSUME NEW y \in Solutions(problem), Feasible(problem, y)
          PROVE  ~Better(Value(problem, y), Value(problem, best))
      <4>1. PICK z \in States(problem) : Feasible(problem, z) /\ Value(problem, z) = Value(problem, y)
        BY <2>1, <3>5, StatesSuffice
      <4> QED
        BY <3>4, <4>1 DEF Better
    <3> QED
      BY <2>2, <3>2, <3>3, <3>5
  <2>3. CASE phase = "raised" /\ Valid
    <3>1. \A z \in States(problem) : ~Feasible(problem, z)
      BY <2>3 DEF SearchInv, Ended
    <3>2. \A y \in Solutions(problem) : ~Feasible(problem, y)
      BY <2>1, <3>1, StatesSuffice
    <3> QED
      BY <2>3, <3>2
  <2> QED
    BY <2>2, <2>3
<1> QED
  BY <1>1, SearchInvHolds, PTL

\* Whatever random solutions the restarts begin with, the heuristic solver ends
\* with a success on a problem whose constraints its search repairs.
THEOREM EndsWithASuccess == Spec => []UnconstrainedNeverFails
<1>1. ASSUME SearchInv, Unconstrained(problem), NEW x \in Solutions(problem),
             problem.family = "graph-partition" => OnePart(x)
      PROVE  Feasible(problem, x)
  <2>1. CASE problem.family = "maxcut"
    BY <2>1 DEF Feasible
  <2>2. CASE problem.family = "subset-selection"
    BY <1>1, <2>2 DEF Feasible, FeasibleSubset, Unconstrained, Within
  <2>3. CASE problem.family = "graph-partition"
    BY <1>1, <2>3 DEF Feasible, FeasiblePartition, Unconstrained, Within, OnePart
  <2> QED
    BY <1>1, <2>1, <2>2, <2>3 DEF Unconstrained
<1>2. SearchInv => UnconstrainedNeverFails
  <2> SUFFICES ASSUME SearchInv, Unconstrained(problem)
               PROVE  /\ phase = "compare" => Feasible(problem, current)
                      /\ phase = "returned" => result.status = "success"
    BY DEF UnconstrainedNeverFails
  <2>1. phase = "compare" => Feasible(problem, current)
    BY <1>1 DEF SearchInv, TypeOK, Climbing
  <2>2. CASE phase = "returned"
    <3>1. best # Nothing
      <4>1. CASE request.solver = "exact"
        BY <2>2, <4>1 DEF SearchInv, Ended
      <4>2. CASE request.solver = "heuristic"
        <5>1. restart = request.restarts /\ request.restarts >= 1 /\ request.restarts \in Nat
          BY <2>2, <4>2, RequestType DEF SearchInv, TypeOK, Standing, Ended, Valid
        <5>2. PICK y \in ends : TRUE
          BY <5>1 DEF SearchInv, Standing
        <5>3. y \in Solutions(problem) /\ (problem.family = "graph-partition" => OnePart(y))
          BY DEF SearchInv, TypeOK, Climbing
        <5>4. Feasible(problem, y)
          BY <1>1, <5>3
        <5> QED
          BY <2>2, <4>2, <5>4 DEF SearchInv, IncumbentIsBest, Considered
      <4> QED
        BY <4>1, <4>2, RequestType DEF SearchInv, TypeOK
    <3> QED
      BY <2>2, <3>1 DEF SearchInv, Ended, Success
  <2> QED
    BY <2>1, <2>2
<1> QED
  BY <1>2, SearchInvHolds, PTL

\* No pass of the local search leaves the feasible solutions.
THEOREM StaysFeasible == Spec => FeasibilityIsKept
<1>1. SearchInv /\ [Next]_vars =>
         [phase = "descend" /\ Feasible(problem, current) => Feasible(problem, current')]_vars
  <2> SUFFICES ASSUME SearchInv, Next, phase = "descend", Feasible(problem, current)
               PROVE  Feasible(problem, current')
    OBVIOUS
  <2>1. Pass \/ OutOfPasses
    BY DEF Next, Refuse, Prepare, Visit, Conclude, BeginRestart, Compare, Report
  <2> QED
    BY <2>1, PassOutcome DEF OutOfPasses, climb
<1> QED
  BY <1>1, SearchInvHolds, PTL DEF Spec, FeasibilityIsKept

\* On a cut the search believes the objective it really has and never loses any.
THEOREM NeverLosesACut == Spec => CutClimbs
<1>1. SearchInv /\ [Next]_vars =>
         [problem.family = "maxcut" /\ phase = "descend" =>
            /\ tracked = Value(problem, current)
            /\ Value(problem, current') >= Value(problem, current)]_vars
  <2> SUFFICES ASSUME SearchInv, Next, problem.family = "maxcut", phase = "descend"
               PROVE  /\ tracked = Value(problem, current)
                      /\ Value(problem, current') >= Value(problem, current)
    OBVIOUS
  <2>1. Pass \/ OutOfPasses
    BY DEF Next, Refuse, Prepare, Visit, Conclude, BeginRestart, Compare, Report
  <2>2. tracked = Value(problem, current) /\ Value(problem, current) \in Int
    BY Judgement DEF SearchInv, Climbing, TypeOK
  <2>3. CASE Pass
    BY <2>2, <2>3, PassOutcome
  <2>4. CASE OutOfPasses
    BY <2>2, <2>4 DEF OutOfPasses, climb
  <2> QED
    BY <2>1, <2>2, <2>3, <2>4
<1> QED
  BY <1>1, SearchInvHolds, PTL DEF Spec, CutClimbs

=============================================================================
