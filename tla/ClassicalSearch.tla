--------------------------- MODULE ClassicalSearch ---------------------------
(***************************************************************************)
(* One call of a classical solver: the exact one enumerates every          *)
(* solution, the heuristic one restarts a local search several times and   *)
(* keeps the best end.                                                     *)
(*                                                                         *)
(* A node, task, resource, candidate or part is the number of its place in *)
(* the document: the solvers break ties by these places.                   *)
(***************************************************************************)
EXTENDS Families

CONSTANTS
    Problems,       \* the documents a solver may be given
    StateLimits,    \* guards of the enumeration
    RestartCounts,
    PassCounts,     \* bounds of the passes of one restart
    Nothing         \* a value that is not there yet

Requests ==
    [solver : {"exact"}, limit : StateLimits]
    \cup [solver : {"heuristic"}, restarts : RestartCounts, passes : PassCounts]

\* The places in a document with as many entries as S.
ArePlaces(S) == IsFiniteSet(S) /\ S = 0..(Cardinality(S) - 1)

ASSUME ClassicalAssumption ==
    /\ StateLimits \cup RestartCounts \cup PassCounts \subseteq Nat
    /\ Nothing \notin Int
    /\ \A p \in Problems :
          /\ p.family \in {"maxcut", "assignment", "subset-selection", "graph-partition"}
          /\ p.sense \in {"maximize", "minimize"}
          /\ p.family = "maxcut" => p.sense = "maximize"
          /\ WellFormed(p)
          /\ p.family \in {"maxcut", "graph-partition"} => ArePlaces(p.nodes)
          /\ p.family = "graph-partition" => ArePlaces(p.parts)
          /\ \A x \in Solutions(p) :
                /\ x # Nothing
                /\ Feasible(p, x) \in BOOLEAN
                /\ Value(p, x) \in Int

VARIABLES
    problem, request,   \* the arguments of the call
    phase,              \* where the call stands
    remaining,          \* the solutions that are not enumerated yet
    restart, pass,      \* the counters of the two loops of the local search
    current,            \* the solution the local search stands on
    tracked,            \* the objective it believes that solution has
    best,               \* the best solution so far
    ends,               \* history: where the restarts ended
    result              \* what the call returns

vars == <<problem, request, phase, remaining, restart, pass, current, tracked,
          best, ends, result>>

arguments == <<problem, request>>
climb     == <<restart, pass, current, tracked, ends>>

Unfinished == [status |-> Nothing, solution |-> Nothing, objective |-> Nothing]

Better(a, b) == IF problem.sense = "maximize" THEN a > b ELSE a < b

(***************************************************************************)
(* The order of variables, solutions and moves.                            *)
(***************************************************************************)
\* Keys are tuples of places, compared from the left.
Before(k, l) == \E i \in DOMAIN k : k[i] < l[i] /\ \A j \in 1..(i - 1) : k[j] = l[j]

OneHot == {"assignment", "graph-partition"}

Key(p, v) == IF p.family \in OneHot THEN v ELSE <<v>>

Difference(x, y) == (x \ y) \cup (y \ x)

\* As tuples of bits: y has the first bit that differs.
TupleBefore(p, x, y) ==
    \E v \in y \ x : \A w \in Difference(x, y) \ {v} : Before(Key(p, v), Key(p, w))

\* As numbers, the first variable being the lowest bit: y has the last one.
NumberBefore(p, x, y) ==
    \E v \in y \ x : \A w \in Difference(x, y) \ {v} : Before(Key(p, w), Key(p, v))

(***************************************************************************)
(* The exact solver.                                                       *)
(***************************************************************************)
\* Seeded bug: the symmetry of cuts is used for every family.
HalvedStates(p) ==
    {x \in Solutions(p) : \A v \in x : \E w \in Variables(p) : Before(Key(p, w), Key(p, v))}

\* Complementary cuts are equivalent: node 0 stays in the first side.
States(p) ==
    IF p.family = "maxcut" THEN {x \in Solutions(p) : 0 \notin x} ELSE Solutions(p)

(***************************************************************************)
(* The local search: where a restart begins.                               *)
(***************************************************************************)
Alternating(p) == {v \in p.nodes : v % 2 = 1}

ScoreOf(p, v) == IF v \in DOMAIN p.score THEN p.score[v] ELSE 0

\* Resources ranked for a task: best score first, then by place.
Ranked(p, t, r, s) ==
    LET a == ScoreOf(p, <<t, r>>)
        b == ScoreOf(p, <<t, s>>)
    IN  IF a = b THEN r < s ELSE (p.sense = "maximize") <=> (a > b)

\* Every task takes its best resources among those that still have room after
\* the tasks before it.
IsGreedyAssignment(p, x) ==
    \A t \in p.tasks :
        LET Load(r) == Cardinality({u \in Column(x, r) : u < t})
            open == {r \in p.resources : /\ <<t, r>> \notin p.prohibited
                                         /\ p.capacity[r] # None => Load(r) < p.capacity[r]}
            taken == Row(x, t)
        IN  /\ taken \subseteq open
            /\ Cardinality(taken) = Min({p.demand[t], Cardinality(open)})
            /\ \A r \in taken, s \in open \ taken : Ranked(p, t, r, s)

\* Candidates compared by score per cost.  A cost is at least 1e-9 there; here a
\* cost of zero counts as one Grain-th.
Grain == 1000

Denser(p, a, b) ==
    LET Weight(c) == IF p.cost[c] = 0 THEN 1 ELSE Grain * p.cost[c]
        left == p.score[a] * Weight(b)
        right == p.score[b] * Weight(a)
    IN  IF p.sense = "maximize" THEN left > right ELSE left < right

\* In some order of falling density (ties are shuffled), a candidate is selected
\* when the budget and the number of candidates before it leave room.
IsGreedySubset(p, x) ==
    \E place \in [p.candidates -> 1..Cardinality(p.candidates)] :
        /\ \A a, b \in p.candidates : a # b => place[a] # place[b]
        /\ \A a, b \in p.candidates : Denser(p, a, b) => place[a] < place[b]
        /\ \A c \in p.candidates :
              LET earlier == {d \in x : place[d] < place[c]}
                  spent == SumOver(p.cost, earlier)
              IN  c \in x <=> /\ Within(spent + p.cost[c], None, p.budget)
                              /\ p.maximum # None => Cardinality(earlier) < p.maximum

\* The smallest part takes the next node: the nodes go round.
RoundRobin(p) == {<<n, n % Cardinality(p.parts)>> : n \in p.nodes}

GreedySolutions(p) ==
    CASE p.family = "maxcut"           -> {Alternating(p)}
      [] p.family = "assignment"       -> {x \in Solutions(p) : IsGreedyAssignment(p, x)}
      [] p.family = "subset-selection" -> {x \in Solutions(p) : IsGreedySubset(p, x)}
      [] p.family = "graph-partition"  -> {RoundRobin(p)}

InitialSolutions(p, i) == IF i = 0 THEN GreedySolutions(p) ELSE Solutions(p)

(***************************************************************************)
(* The local search: the moves of a pass.  A move is the key by which ties *)
(* are broken, the solution that is evaluated and the one it leads to.     *)
(***************************************************************************)
Move(key, probe, next) == [key |-> key, probe |-> probe, next |-> next]

Flips(p, x) ==
    {LET y == Difference(x, {v}) IN Move(<<v>>, y, y) : v \in Variables(p)}

\* A task gives one of its resources for another one.
Swaps(p, x) ==
    {LET y == (x \ {<<key[1], key[3]>>}) \cup {<<key[1], key[2]>>} IN Move(key, y, y) :
        key \in {k \in p.tasks \X p.resources \X p.resources :
                   /\ <<k[1], k[2]>> \notin x \cup p.prohibited
                   /\ <<k[1], k[3]>> \in x}}

\* The first part of a node, or part 0 when it has none.
Home(p, x, n) == IF Row(x, n) = {} THEN 0 ELSE Min(Row(x, n))

\* Seeded bug: each probe is undone to what it found.
SweptAsFound(p, x, nodes) == {v \in x : v[1] \in nodes}

\* A sweep over the nodes undoes each probe by setting the old part and clearing
\* the new one: whatever it found, it leaves every node in one part.
Swept(p, x, nodes) == {<<n, Home(p, x, n)>> : n \in nodes}

\* Probing part k of node n: the nodes before n are swept, those after it are
\* not, and of n's own parts only the ones after k are left.
Relocations(p, x) ==
    {LET n == key[1]
         k == key[2]
         later == {v \in x : v[1] > n \/ (v[1] = n /\ v[2] > k /\ v[2] # Home(p, x, n))}
     IN  Move(key,
              Swept(p, x, {m \in p.nodes : m < n}) \cup {key} \cup later,
              Swept(p, x, p.nodes \ {n}) \cup {key}) :
        key \in {v \in p.nodes \X p.parts : v[2] # Home(p, x, v[1])}}

Moves(p, x) ==
    CASE p.family \in {"maxcut", "subset-selection"} -> Flips(p, x)
      [] p.family = "assignment"                     -> Swaps(p, x)
      [] p.family = "graph-partition"                -> Relocations(p, x)

\* Seeded bug: the probed solution is not required to be feasible.
AnyMoves(p, x) ==
    {m \in Moves(p, x) : p.family = "maxcut" => Value(p, m.probe) >= tracked}

\* A cut accepts what does not lose, the other families whatever is feasible.
Admitted(p, x) ==
    {m \in Moves(p, x) : /\ Feasible(p, m.probe)
                         /\ p.family = "maxcut" => Value(p, m.probe) >= tracked}

\* The swaps of an assignment are ranked by score whatever its sense.
Preferred(p, a, b) == IF p.family = "assignment" THEN a > b ELSE Better(a, b)

IsChosen(p, m, moves) ==
    \A o \in moves \ {m} :
        \/ Preferred(p, Value(p, m.probe), Value(p, o.probe))
        \/ Value(p, m.probe) = Value(p, o.probe) /\ Before(m.key, o.key)

\* What a pass without a move leaves behind.
Settled(p, x) == IF p.family = "graph-partition" THEN Swept(p, x, p.nodes) ELSE x

(***************************************************************************)
(* The steps of a call.                                                    *)
(***************************************************************************)
Init ==
    /\ problem \in Problems
    /\ request \in Requests
    /\ phase = "called"
    /\ remaining = {}
    /\ restart = 0 /\ pass = 0
    /\ current = {}
    /\ tracked = Nothing
    /\ best = Nothing
    /\ ends = {}
    /\ result = Unfinished

Valid ==
    IF request.solver = "exact"
    THEN /\ request.limit >= 1
         /\ Cardinality(Variables(problem)) <= 63
         /\ 2 ^ Cardinality(Variables(problem)) <= request.limit
    ELSE request.restarts >= 1 /\ request.passes >= 1

Refuse ==
    /\ phase = "called"
    /\ ~Valid
    /\ phase' = "raised"
    /\ UNCHANGED <<arguments, remaining, climb, best, result>>

Prepare ==
    /\ phase = "called"
    /\ Valid
    /\ IF request.solver = "exact"
       THEN phase' = "enumerate" /\ remaining' = States(problem)
       ELSE phase' = "restart" /\ UNCHANGED remaining
    /\ UNCHANGED <<arguments, climb, best, result>>

\* Solutions are visited in the order of their numbers.
Visit ==
    /\ phase = "enumerate"
    /\ \E x \in remaining :
          /\ \A y \in remaining \ {x} : NumberBefore(problem, x, y)
          /\ remaining' = remaining \ {x}
          /\ best' = IF /\ Feasible(problem, x)
                        /\ best # Nothing => Better(Value(problem, x), Value(problem, best))
                     THEN x ELSE best
    /\ UNCHANGED <<arguments, phase, climb, result>>

Success == [status |-> "success", solution |-> best, objective |-> Value(problem, best)]

Failure == [status |-> "failed", solution |-> Nothing, objective |-> Nothing]

\* An enumeration that found no feasible solution raises.
Conclude ==
    /\ phase = "enumerate"
    /\ remaining = {}
    /\ IF best = Nothing
       THEN phase' = "raised" /\ UNCHANGED result
       ELSE phase' = "returned" /\ result' = Success
    /\ UNCHANGED <<arguments, remaining, climb, best>>

\* Seeded bug: the loop over the restarts runs once too often.
AnotherRestartIncluded == restart <= request.restarts

AnotherRestart == restart < request.restarts

\* The objective matters to the moves of a cut only; what the other families add
\* up in its place is never read.
BeginRestart ==
    /\ phase = "restart"
    /\ AnotherRestart
    /\ \E x \in InitialSolutions(problem, restart) :
          /\ current' = x
          /\ tracked' = IF problem.family = "maxcut" THEN Value(problem, x) ELSE Nothing
    /\ pass' = 0
    /\ phase' = "descend"
    /\ UNCHANGED <<arguments, remaining, restart, best, ends, result>>

\* Seeded bug: the objective reached is added where its gain belongs.
TrackAbsolute(m) == IF problem.family = "maxcut" THEN tracked + Value(problem, m.probe) ELSE Nothing

Track(m) ==
    IF problem.family = "maxcut" THEN tracked + (Value(problem, m.probe) - tracked) ELSE Nothing

Pass ==
    /\ phase = "descend"
    /\ pass < request.passes
    /\ pass' = pass + 1
    /\ LET moves == Admitted(problem, current)
       IN  \/ \E m \in moves :
                 /\ IsChosen(problem, m, moves)
                 /\ current' = m.next
                 /\ tracked' = Track(m)
                 /\ UNCHANGED phase
           \/ /\ moves = {}
              /\ current' = Settled(problem, current)
              /\ phase' = "compare"
              /\ UNCHANGED tracked
    /\ UNCHANGED <<arguments, remaining, restart, best, ends, result>>

OutOfPasses ==
    /\ phase = "descend"
    /\ pass = request.passes
    /\ phase' = "compare"
    /\ UNCHANGED <<arguments, remaining, climb, best, result>>

\* Seeded bug: the ends of the restarts are compared as if all maximized.
ImprovesAsMaximum(x) ==
    /\ Feasible(problem, x)
    /\ best # Nothing => Value(problem, x) > Value(problem, best)

\* The end of a restart replaces a worse one, or an equal one of a later tuple.
Improves(x) ==
    /\ Feasible(problem, x)
    /\ best # Nothing =>
          \/ Better(Value(problem, x), Value(problem, best))
          \/ Value(problem, x) = Value(problem, best) /\ TupleBefore(problem, x, best)

Compare ==
    /\ phase = "compare"
    /\ best' = IF Improves(current) THEN current ELSE best
    /\ ends' = ends \cup {current}
    /\ restart' = restart + 1
    /\ phase' = "restart"
    /\ UNCHANGED <<arguments, remaining, pass, current, tracked, result>>

Report ==
    /\ phase = "restart"
    /\ restart = request.restarts
    /\ result' = IF best = Nothing THEN Failure ELSE Success
    /\ phase' = "returned"
    /\ UNCHANGED <<arguments, remaining, climb, best>>

Next == \/ Refuse \/ Prepare \/ Visit \/ Conclude
        \/ BeginRestart \/ Pass \/ OutOfPasses \/ Compare \/ Report

Spec == Init /\ [][Next]_vars

(***************************************************************************)
(* Properties.                                                             *)
(***************************************************************************)
Phases == {"called", "enumerate", "restart", "descend", "compare", "returned", "raised"}

\* Every variable of a call has a value of the kind the code gives it, and the
\* loops stay within the bounds that were asked for.
TypeOK ==
    /\ problem \in Problems /\ request \in Requests
    /\ phase \in Phases
    /\ remaining \subseteq Solutions(problem)
    /\ restart \in Nat /\ pass \in Nat
    /\ request.solver = "heuristic" => restart <= request.restarts /\ pass <= request.passes
    /\ current \in Solutions(problem)
    /\ tracked \in Int \cup {Nothing}
    /\ best # Nothing => best \in Solutions(problem)
    /\ ends \subseteq Solutions(problem)

\* What the call has considered: the enumerated solutions, or the ends.
Considered ==
    IF request.solver = "exact"
    THEN IF phase = "called" THEN {} ELSE States(problem) \ remaining
    ELSE ends

\* Both loops keep the best of what they considered: a feasible solution that no
\* considered one beats in the sense of the problem, and nothing only while none
\* was feasible.
IncumbentIsBest ==
    phase # "raised" =>
        /\ best = Nothing => \A y \in Considered : ~Feasible(problem, y)
        /\ best # Nothing =>
              /\ best \in Considered /\ Feasible(problem, best)
              /\ \A y \in Considered :
                    Feasible(problem, y) => ~Better(Value(problem, y), Value(problem, best))

\* What the exact solver returns is an optimum of the problem (also for cuts, of
\* which it sees one half), and it raises after an enumeration only when nothing
\* is feasible.
ExactIsOptimal ==
    request.solver = "exact" =>
        /\ phase = "returned" =>
              /\ result.status = "success"
              /\ result.solution \in Solutions(problem) /\ Feasible(problem, result.solution)
              /\ result.objective = Value(problem, result.solution)
              /\ \A y \in Solutions(problem) :
                    Feasible(problem, y) => ~Better(Value(problem, y), result.objective)
        /\ phase = "raised" /\ Valid => \A y \in Solutions(problem) : ~Feasible(problem, y)

\* A pass never leaves the feasible solutions, although it probes in place and a
\* sweep over a partition rewrites the solution it stands on.
FeasibilityIsKept ==
    [][phase = "descend" /\ Feasible(problem, current) => Feasible(problem, current')]_vars

\* On a cut the search believes the objective its solution really has, and no
\* pass loses any of it.
CutClimbs ==
    [][problem.family = "maxcut" /\ phase = "descend" =>
          /\ tracked = Value(problem, current)
          /\ Value(problem, current') >= Value(problem, current)]_vars

\* Problems whose constraints the search repairs or does not have: cuts, free
\* subsets, and partitions without bounds.
Unconstrained(p) ==
    \/ p.family = "maxcut"
    \/ p.family = "subset-selection" /\ {p.budget, p.minimum, p.maximum} = {None}
    \/ p.family = "graph-partition" /\ {p.minimum, p.maximum} = {None}

\* The comment in solve() (heuristic.py:67) allows for a search without a
\* feasible end.  An unconstrained problem never has one, whatever random
\* solution a restart begins with: one sweep puts every node in one part.
UnconstrainedNeverFails ==
    /\ phase = "compare" /\ Unconstrained(problem) => Feasible(problem, current)
    /\ phase = "returned" /\ Unconstrained(problem) => result.status = "success"

\* docs/problem-families.md:111-114: the sense is used when "ranking solutions
\* during exact and heuristic search".  The move of a pass is then one that no
\* other admitted move beats in that sense.
RankedBySense ==
    phase = "descend" =>
        \A m \in Admitted(problem, current) :
            IsChosen(problem, m, Admitted(problem, current)) =>
                \A o \in Admitted(problem, current) :
                    ~Better(Value(problem, o.probe), Value(problem, m.probe))

=============================================================================
