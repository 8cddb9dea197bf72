----------------------------- MODULE RunHistory -----------------------------
(***************************************************************************)
(* The history of experiment runs (experiments/runner.py and storage.py)   *)
(* written by several processes at once: campaigns, benchmarks of one      *)
(* problem, and single runs or reproductions.                              *)
(*                                                                         *)
(* A campaign enters its definition in the table campaigns, once: a rerun  *)
(* has the same id and finds it there.                                     *)
(*                                                                         *)
(* A process executes the attempts of its plan one after the other,        *)
(* compares each result with a reference objective and saves it for good.  *)
(* A campaign and a single run compare and save every attempt before the   *)
(* next one starts; a benchmark executes all of them first.  The save      *)
(* looks the problem up and inserts it when it is missing: the lookup is   *)
(* not part of the transaction that the first INSERT opens.                *)
(*                                                                         *)
(* A problem stands for its id, which is a digest of its definition.       *)
(***************************************************************************)
EXTENDS Integers, Sequences, FiniteSets

CONSTANTS
    Processes,
    Problems,
    Plan,       \* of each process: the sequence of [problem, solver] it executes
    Kind,       \* "campaign", "benchmark" or "single"
    CampaignId, \* of each campaign: a digest of its definition
    Sense,      \* of each problem: "maximize" or "minimize"
    Objectives, \* of each problem: the objectives of its feasible solutions
    Optimum,    \* of each problem: what enumeration finds
    None

Better(p, a, b) == IF Sense[p] = "maximize" THEN a > b ELSE a < b

ASSUME RunHistoryAssumption ==
    /\ Plan \in [Processes -> Seq([problem : Problems, solver : {"exact", "other"}])]
    /\ \A e \in Processes : Plan[e] # << >>
    /\ Kind \in [Processes -> {"campaign", "benchmark", "single"}]
    /\ \A e \in Processes : Kind[e] = "benchmark" =>
          \A i, j \in DOMAIN Plan[e] : Plan[e][i].problem = Plan[e][j].problem
    /\ \A e, f \in Processes :
          Kind[e] = "campaign" /\ Kind[f] = "campaign" /\ CampaignId[e] = CampaignId[f]
             => Plan[e] = Plan[f]
    /\ Sense \in [Problems -> {"maximize", "minimize"}]
    /\ Objectives \in [Problems -> SUBSET Int]
    /\ \A p \in Problems : /\ Optimum[p] \in Objectives[p]
                           /\ \A x \in Objectives[p] : ~Better(p, x, Optimum[p])
    /\ \A p \in Problems : \A values \in (SUBSET Objectives[p]) \ {{}} :
          \E x \in values : \A y \in values : ~Better(p, y, x)  \* there are finitely many
    /\ None \notin Int /\ None \notin Processes

VARIABLES
    campaigns,  \* table campaigns: who entered the id, or None
    artifact,   \* problem files: none, partial (being written) or whole
    stored,     \* table problems
    runs,       \* table runs, in the order of insertion
    pc,         \* how far each process is
    next,       \* the attempt it executes next
    pending,    \* executed and not saved: results, then compared results
    found       \* what the save read from the table problems

vars == <<campaigns, artifact, stored, runs, pc, next, pending, found>>

-----------------------------------------------------------------------------
Campaigns == {CampaignId[e] : e \in {f \in Processes : Kind[f] = "campaign"}}

Sources == {"exact_optimum", "stored_exact_optimum", "best_observed_not_proven_optimal", "none"}

Run == [by : Processes, attempt : Nat, problem : Problems, solver : {"exact", "other"},
        status : {"success", "failed"}, objective : Int \cup {None},
        reference : Int \cup {None}, source : Sources,
        gap : {"none", "zero", "positive"}]

Live  == {"register", "enter", "open", "create", "truncate", "flush", "execute", "compare", "lookup", "insert"}
Ended == {"done", "refused", "rejected", "stopped"}

TypeOK ==
    /\ campaigns \in [Campaigns -> Processes \cup {None}]
    /\ artifact \in [Problems -> {"none", "partial", "whole"}]
    /\ stored \subseteq Problems
    /\ runs \in Seq(Run)
    /\ pc \in [Processes -> Live \cup Ended]
    /\ next \in [Processes -> Nat]
    /\ \A e \in Processes : next[e] \in 1..Len(Plan[e])
    /\ pending \in [Processes -> Seq(Run)]
    /\ found \in [Processes -> BOOLEAN]

\* A success without an objective is an infeasible solution.
Feasible(r) == r.status = "success" /\ r.objective # None

IsExact(r) == r.solver = "exact" /\ Feasible(r)

Best(p, values) == CHOOSE x \in values : \A y \in values : ~Better(p, y, x)

Init ==
    /\ campaigns = [id \in Campaigns |-> None]
    /\ artifact = [p \in Problems |-> "none"]
    /\ stored = {}
    /\ runs = << >>
    /\ pc = [e \in Processes |-> IF Kind[e] = "campaign" THEN "register" ELSE "execute"]
    /\ next = [e \in Processes |-> 1]
    /\ pending = [e \in Processes |-> << >>]
    /\ found = [e \in Processes |-> FALSE]

-----------------------------------------------------------------------------
(* save_campaign, which a campaign calls first.  As in the save of a run the      *)
(* lookup is not part of the transaction that the INSERT opens.                   *)

Goto(e, step) == pc' = [pc EXCEPT ![e] = step]

execution == <<artifact, stored, runs, next, pending, found>>

LookUpCampaign(e) ==
    /\ pc[e] = "register"
    /\ Goto(e, IF campaigns[CampaignId[e]] = None THEN "enter" ELSE "open")
    /\ UNCHANGED <<campaigns, execution>>

\* Seeded bug: the row is replaced.
EnterAnyway(e) ==
    /\ pc[e] = "enter"
    /\ campaigns' = [campaigns EXCEPT ![CampaignId[e]] = e]
    /\ Goto(e, "open")
    /\ UNCHANGED execution

EnterCampaign(e) ==
    /\ pc[e] = "enter"
    /\ campaigns[CampaignId[e]] = None
    /\ campaigns' = [campaigns EXCEPT ![CampaignId[e]] = e]
    /\ Goto(e, "open")
    /\ UNCHANGED execution

\* Another process entered it after the lookup: the primary key refuses the second row.
CampaignConflict(e) ==
    /\ pc[e] = "enter"
    /\ campaigns[CampaignId[e]] # None
    /\ Goto(e, "rejected")
    /\ UNCHANGED <<campaigns, execution>>

-----------------------------------------------------------------------------
(* The problem file, which a campaign checks or writes before it executes    *)

table == <<campaigns, stored, runs, next, pending, found>>

Current(e) == Plan[e][next[e]].problem

\* A file that is there must hold the same problem; one that is only half written
\* does not parse and the campaign ends.
OpenArtifact(e) ==
    /\ pc[e] = "open"
    /\ Goto(e, CASE artifact[Current(e)] = "none"    -> "create"
                 [] artifact[Current(e)] = "partial" -> "refused"
                 [] artifact[Current(e)] = "whole"   -> "execute")
    /\ UNCHANGED <<artifact, table>>

\* save_problem asks again and refuses to overwrite.
CreateArtifact(e) ==
    /\ pc[e] = "create"
    /\ Goto(e, IF artifact[Current(e)] = "none" THEN "truncate" ELSE "refused")
    /\ UNCHANGED <<artifact, table>>

\* write_text opens the file, which truncates it, and writes when it closes it.
TruncateArtifact(e) ==
    /\ pc[e] = "truncate"
    /\ artifact' = [artifact EXCEPT ![Current(e)] = "partial"]
    /\ Goto(e, "flush")
    /\ UNCHANGED table

FlushArtifact(e) ==
    /\ pc[e] = "flush"
    /\ artifact' = [artifact EXCEPT ![Current(e)] = "whole"]
    /\ Goto(e, "execute")
    /\ UNCHANGED table

-----------------------------------------------------------------------------
(* Attempts *)

\* What _execute makes of a solver call: enumeration finds the optimum or refuses,
\* another solver finds some solution, an infeasible one, or fails.
Outcomes(p, solver) ==
    IF solver = "exact"
    THEN {<<"success", Optimum[p]>>, <<"failed", None>>}
    ELSE ({"success"} \X (Objectives[p] \cup {None})) \cup {<<"failed", None>>}

Result(e, outcome) ==
    [by |-> e, attempt |-> next[e], problem |-> Current(e), solver |-> Plan[e][next[e]].solver,
     status |-> outcome[1], objective |-> outcome[2],
     reference |-> None, source |-> "none", gap |-> "none"]

Execute(e) ==
    /\ pc[e] = "execute"
    /\ \E outcome \in Outcomes(Current(e), Plan[e][next[e]].solver) :
          pending' = [pending EXCEPT ![e] = Append(@, Result(e, outcome))]
    /\ IF Kind[e] = "benchmark" /\ next[e] < Len(Plan[e])
       THEN next' = [next EXCEPT ![e] = @ + 1] /\ UNCHANGED pc
       ELSE Goto(e, "compare") /\ UNCHANGED next
    /\ UNCHANGED <<campaigns, artifact, stored, runs, found>>

\* Seeded bug: any successful run is taken for an exact one.
AnyObjective(p) ==
    LET objectives == {runs[i].objective :
                         i \in {j \in DOMAIN runs : Feasible(runs[j]) /\ runs[j].problem = p}}
    IN  IF Cardinality(objectives) = 1 THEN CHOOSE x \in objectives : TRUE ELSE None

\* Seeded bug: the query forgets the problem.
ForeignObjective(p) ==
    LET objectives == {runs[i].objective : i \in {j \in DOMAIN runs : IsExact(runs[j])}}
    IN  IF Cardinality(objectives) = 1 THEN CHOOSE x \in objectives : TRUE ELSE None

\* The stored exact objective of a problem, when there is just one.
ExactObjective(p) ==
    LET objectives == {runs[i].objective :
                         i \in {j \in DOMAIN runs : IsExact(runs[j]) /\ runs[j].problem = p}}
    IN  IF Cardinality(objectives) = 1 THEN CHOOSE x \in objectives : TRUE ELSE None

\* The reference of some results and where it comes from: an exact result among them,
\* a stored one, or, in a benchmark, the best that was observed.
Reference(e, results) ==
    LET p        == Current(e)
        exact    == {results[i].objective : i \in {j \in DOMAIN results : IsExact(results[j])}}
        observed == {results[i].objective : i \in {j \in DOMAIN results : Feasible(results[j])}}
    IN  CASE exact # {} -> <<Best(p, exact), "exact_optimum">>
          [] exact = {} /\ ExactObjective(p) # None -> <<ExactObjective(p), "stored_exact_optimum">>
          [] exact = {} /\ ExactObjective(p) = None /\ Kind[e] = "benchmark" /\ observed # {} ->
                <<Best(p, observed), "best_observed_not_proven_optimal">>
          [] OTHER -> <<None, "none">>

\* The gap in percent: its sign, clamped at zero, and undefined against a zero optimum.
GapOf(r, reference, source) ==
    IF ~Feasible(r) \/ reference = None \/ source \notin {"exact_optimum", "stored_exact_optimum"}
    THEN "none"
    ELSE IF reference = 0 /\ r.objective # 0 THEN "none"
    ELSE IF Better(r.problem, reference, r.objective) THEN "positive" ELSE "zero"

Compared(r, reference, source) ==
    [r EXCEPT !.reference = reference, !.source = source, !.gap = GapOf(r, reference, source)]

Compare(e) ==
    /\ pc[e] = "compare"
    /\ pending' = [pending EXCEPT ![e] =
                     [i \in DOMAIN @ |-> Compared(@[i], Reference(e, @)[1], Reference(e, @)[2])]]
    /\ Goto(e, "lookup")
    /\ UNCHANGED <<campaigns, artifact, stored, runs, next, found>>

-----------------------------------------------------------------------------
(* ExperimentStore.save *)

LookUp(e) ==
    /\ pc[e] = "lookup"
    /\ found' = [found EXCEPT ![e] = Current(e) \in stored]
    /\ Goto(e, "insert")
    /\ UNCHANGED <<campaigns, artifact, stored, runs, next, pending>>

\* After a save: the next result of a benchmark, the next attempt, or the end.
Proceed(e, rest) ==
    /\ pending' = [pending EXCEPT ![e] = rest]
    /\ IF rest # << >> THEN Goto(e, "lookup") /\ UNCHANGED next
       ELSE IF next[e] = Len(Plan[e]) THEN Goto(e, "done") /\ UNCHANGED next
       ELSE /\ next' = [next EXCEPT ![e] = @ + 1]
            /\ Goto(e, IF Kind[e] = "campaign" /\ Plan[e][next[e] + 1].problem # Current(e)
                       THEN "open" ELSE "execute")

\* Seeded bug: the results of a benchmark are saved from the last to the first.
InsertLast(e) ==
    /\ pc[e] = "insert"
    /\ found[e] \/ Current(e) \notin stored
    /\ stored' = stored \cup {Current(e)}
    /\ runs' = Append(runs, pending[e][Len(pending[e])])
    /\ Proceed(e, SubSeq(pending[e], 1, Len(pending[e]) - 1))
    /\ UNCHANGED <<campaigns, artifact, found>>

\* One transaction: the problem when the lookup missed it, and the run.
Insert(e) ==
    /\ pc[e] = "insert"
    /\ found[e] \/ Current(e) \notin stored
    /\ stored' = stored \cup {Current(e)}
    /\ runs' = Append(runs, Head(pending[e]))
    /\ Proceed(e, Tail(pending[e]))
    /\ UNCHANGED <<campaigns, artifact, found>>

\* Seeded bug: the conflict is swallowed and the run dropped.
ConflictSwallowed(e) ==
    /\ pc[e] = "insert"
    /\ ~found[e] /\ Current(e) \in stored
    /\ Proceed(e, Tail(pending[e]))
    /\ UNCHANGED <<campaigns, artifact, stored, runs, found>>

\* Another process inserted the problem after the lookup: its primary key refuses the
\* second row, the transaction rolls back and the exception ends the process.
InsertConflict(e) ==
    /\ pc[e] = "insert"
    /\ ~found[e] /\ Current(e) \in stored
    /\ Goto(e, "rejected")
    /\ UNCHANGED <<artifact, table>>

\* The process is killed, or something else it does raises.
Stop(e) ==
    /\ pc[e] \in Live
    /\ Goto(e, "stopped")
    /\ UNCHANGED <<artifact, table>>

-----------------------------------------------------------------------------
Next ==
    \E e \in Processes :
        \/ LookUpCampaign(e) \/ EnterCampaign(e) \/ CampaignConflict(e)
        \/ OpenArtifact(e) \/ CreateArtifact(e) \/ TruncateArtifact(e) \/ FlushArtifact(e)
        \/ Execute(e) \/ Compare(e)
        \/ LookUp(e) \/ Insert(e) \/ InsertConflict(e)
        \/ Stop(e)

Spec == Init /\ [][Next]_vars

-----------------------------------------------------------------------------
(* Safety *)

\* scientific-benchmarks.md: "Campaigns save each completed solver attempt before
\* starting the next"; its history is "append-only".  What the processes
\* save is a log of their plans: in order, nothing twice, left out or changed later,
\* each campaign entered before its first run and once, and a process that is done
\* has saved everything.
Log == INSTANCE RunLog WITH log <- runs, entered <- campaigns, complete <- {e \in Processes : pc[e] = "done"}

ImplementsLog == Log!Spec

\* A reference that a run calls stored is the objective of an exact run of the same
\* problem that was saved before it, however the processes interleave.
ReferenceIsEarlier ==
    \A n \in DOMAIN runs : runs[n].source = "stored_exact_optimum" =>
        \E m \in 1..(n - 1) : /\ IsExact(runs[m])
                              /\ runs[m].problem = runs[n].problem
                              /\ runs[m].objective = runs[n].reference

\* A recorded gap tells the truth about the optimum: zero exactly for optimal solutions,
\* whatever mixture of saved and pending results it was computed from.
GapIsTrue ==
    \A n \in DOMAIN runs : runs[n].gap # "none" =>
        (runs[n].gap = "zero" <=> runs[n].objective = Optimum[runs[n].problem])

\* A benchmark that ended well holds its own evidence: the result a reference was taken
\* from is one of its saved runs.
EvidenceIsComplete ==
    \A n \in DOMAIN runs :
        /\ pc[runs[n].by] = "done"
        /\ runs[n].source \in {"exact_optimum", "best_observed_not_proven_optimal"}
        => \E m \in DOMAIN runs : /\ runs[m].by = runs[n].by
                                  /\ runs[m].objective = runs[n].reference
                                  /\ runs[n].source = "exact_optimum" => IsExact(runs[m])

\* What a result says of itself: a feasible solution has one of the problem's objectives,
\* enumeration found the optimum, and a gap is zero exactly for optimal solutions.
Honest(r) ==
    /\ Feasible(r) => r.objective \in Objectives[r.problem]
    /\ IsExact(r) => r.objective = Optimum[r.problem]
    /\ r.gap # "none" => (r.gap = "zero" <=> r.objective = Optimum[r.problem])

\* The first n runs of a history hold the reference that a result calls stored.
Backed(r, history, n) ==
    r.source = "stored_exact_optimum" =>
        \E m \in 1..n : /\ IsExact(history[m])
                        /\ history[m].problem = r.problem
                        /\ history[m].objective = r.reference

\* The inductive core of the proofs: saved and pending results are honest and backed by
\* the runs before them, and a live process holds results of its current problem only.
HistoryCore ==
    /\ \A n \in DOMAIN runs : Honest(runs[n]) /\ Backed(runs[n], runs, n - 1)
    /\ \A e \in Processes :
          /\ \A i \in DOMAIN pending[e] :
                Honest(pending[e][i]) /\ Backed(pending[e][i], runs, Len(runs))
          /\ pc[e] \in Live => \A i \in DOMAIN pending[e] : pending[e][i].problem = Current(e)
          /\ pc[e] \in {"compare", "lookup", "insert"} => pending[e] # << >>
          /\ pc[e] \in {"register", "enter", "open", "create", "truncate", "flush", "execute"} /\ Kind[e] # "benchmark"
                => pending[e] = << >>

\* The first attempt of a process that is not saved.
First(e) ==
    (IF pc[e] \in {"compare", "lookup", "insert"} THEN next[e] + 1 ELSE next[e]) - Len(pending[e])

IsPlanned(r, e) ==
    /\ r.by = e /\ r.attempt \in DOMAIN Plan[e]
    /\ r.problem = Plan[e][r.attempt].problem /\ r.solver = Plan[e][r.attempt].solver

\* Why the runs are a log: what a live process has saved are the attempts before the
\* first it has not, what it holds are those from there on.
LogCore ==
    /\ \A n \in DOMAIN runs : IsPlanned(runs[n], runs[n].by)
    /\ \A e \in Processes :
          /\ pc[e] \in {"register", "enter"} => Kind[e] = "campaign"
          /\ Kind[e] = "campaign" /\ pc[e] \in Live \ {"register", "enter"}
                => campaigns[CampaignId[e]] # None
    /\ \A e \in Processes : pc[e] \in Live =>
          /\ \A i \in DOMAIN pending[e] :
                /\ IsPlanned(pending[e][i], e)
                /\ pending[e][i].attempt = First(e) + i - 1
          /\ First(e) >= 1
          /\ \A m \in DOMAIN Plan[e] :
                (\E n \in DOMAIN runs : runs[n].by = e /\ runs[n].attempt = m) <=> m < First(e)

\* A result that takes its reference from the results of its own process, and a result
\* that reference can be taken from.
Claims(r) == r.source \in {"exact_optimum", "best_observed_not_proven_optimal"}

Supports(x, r) == x.objective = r.reference /\ (r.source = "exact_optimum" => IsExact(x))

\* A process has that result: saved in the history, or in hand.
Supported(r, e, history, held) ==
    Claims(r) => \/ \E m \in DOMAIN history : history[m].by = e /\ Supports(history[m], r)
                 \/ \E i \in DOMAIN held : Supports(held[i], r)

\* Why the evidence is complete in the end: until then what is missing is in hand.
EvidenceCore ==
    \A e \in Processes :
        /\ pc[e] \in Live \cup {"done"} =>
              \A n \in DOMAIN runs : runs[n].by = e => Supported(runs[n], e, runs, pending[e])
        /\ pc[e] \in Live =>
              \A i \in DOMAIN pending[e] : Supported(pending[e][i], e, runs, pending[e])
        /\ pc[e] = "done" => pending[e] = << >>

HistoryInv == TypeOK /\ HistoryCore /\ LogCore /\ EvidenceCore

-----------------------------------------------------------------------------
(* What the documents say and the runs refute *)

\* "Every solver failure must become a durable record": a process that was not stopped
\* has saved every attempt it executed.
AttemptsAreKept ==
    \A e \in Processes : pc[e] = "rejected" => pending[e] = << >>

\* "Explicit CLI reruns still append a new execution": the file a campaign finds was
\* written by a campaign with the same problem, so it is not refused.
CampaignsAreNotRefused == \A e \in Processes : pc[e] # "refused"

=============================================================================
