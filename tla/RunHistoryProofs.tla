-------------------------- MODULE RunHistoryProofs --------------------------
(***************************************************************************)
(* Proofs about RunHistory, for every set of processes, plans and problems *)
(***************************************************************************)
EXTENDS RunHistory, FiniteSetTheorems, TLAPS

\* The problem a process works on and its solver are those of its plan.
LEMMA CurrentType ==
    ASSUME TypeOK, NEW e \in Processes
    PROVE  /\ Current(e) \in Problems
           /\ Plan[e][next[e]].solver \in {"exact", "other"}
           /\ next[e] \in Nat
           /\ Len(Plan[e]) \in Nat
<1> DEFINE Step == [problem : Problems, solver : {"exact", "other"}]
<1>1. Plan[e] \in Seq(Step)
  BY RunHistoryAssumption
<1>2. next[e] \in 1..Len(Plan[e]) /\ next[e] \in Nat
  BY DEF TypeOK
<1>3. Plan[e][next[e]] \in Step
  <2> HIDE DEF Step
  <2> QED BY <1>1, <1>2
<1> QED BY <1>1, <1>2, <1>3 DEF Current

\* What a solver call leaves is a result of the current attempt, not compared yet.
LEMMA ResultType ==
    ASSUME TypeOK, NEW e \in Processes,
           NEW outcome \in Outcomes(Current(e), Plan[e][next[e]].solver)
    PROVE  /\ Result(e, outcome) \in Run
           /\ Honest(Result(e, outcome))
           /\ Result(e, outcome).problem = Current(e)
           /\ Result(e, outcome).source = "none"
<1> DEFINE p == Current(e)
           solver == Plan[e][next[e]].solver
<1>1. p \in Problems /\ solver \in {"exact", "other"} /\ next[e] \in Nat
  BY CurrentType
<1>2. Optimum[p] \in Objectives[p] /\ Objectives[p] \subseteq Int
  BY <1>1, RunHistoryAssumption
<1>3. /\ outcome[1] \in {"success", "failed"}
      /\ outcome[2] \in Objectives[p] \cup {None}
      /\ solver = "exact" => outcome[2] \in {Optimum[p], None}
  BY <1>1, <1>2 DEF Outcomes
<1>4. Result(e, outcome) =
        [by |-> e, attempt |-> next[e], problem |-> p, solver |-> solver,
         status |-> outcome[1], objective |-> outcome[2],
         reference |-> None, source |-> "none", gap |-> "none"]
  BY DEF Result
<1> HIDE DEF p, solver
<1>5. Result(e, outcome) \in Run
  BY <1>1, <1>2, <1>3, <1>4 DEF Run, Sources
<1>6. Honest(Result(e, outcome))
  BY <1>3, <1>4 DEF Honest, IsExact, Feasible
<1> QED BY <1>4, <1>5, <1>6 DEF p

\* Stored exact objectives are optimal and are backed by the runs.
LEMMA StoredObjective ==
    ASSUME TypeOK, HistoryCore, NEW p \in Problems, ExactObjective(p) # None
    PROVE  /\ ExactObjective(p) = Optimum[p]
           /\ \E m \in 1..Len(runs) : /\ IsExact(runs[m]) /\ runs[m].problem = p
                                      /\ runs[m].objective = ExactObjective(p)
<1> DEFINE objectives == {runs[i].objective :
                            i \in {j \in DOMAIN runs : IsExact(runs[j]) /\ runs[j].problem = p}}
<1>1. ExactObjective(p) = IF Cardinality(objectives) = 1
                          THEN CHOOSE x \in objectives : TRUE ELSE None
  BY DEF ExactObjective
<1>2. Cardinality({}) = 0
  BY FS_EmptySet
<1>3. objectives # {} /\ ExactObjective(p) \in objectives
  BY <1>1, <1>2
<1>4. DOMAIN runs = 1..Len(runs)
  BY DEF TypeOK
<1>5. PICK m \in DOMAIN runs : IsExact(runs[m]) /\ runs[m].problem = p
                               /\ runs[m].objective = ExactObjective(p)
  BY <1>3
<1>6. Honest(runs[m])
  BY <1>5 DEF HistoryCore
<1> QED BY <1>4, <1>5, <1>6 DEF Honest

\* The reference of results of one problem: an exact one is the optimum, and one that is
\* called stored is in the runs.
LEMMA ReferenceIsOptimal ==
    ASSUME TypeOK, HistoryCore, NEW e \in Processes, NEW results \in Seq(Run),
           \A i \in DOMAIN results : Honest(results[i]) /\ results[i].problem = Current(e)
    PROVE  LET reference == Reference(e, results)[1]
               source    == Reference(e, results)[2]
           IN  /\ reference \in Int \cup {None}
               /\ source \in Sources
               /\ source \in {"exact_optimum", "stored_exact_optimum"} =>
                     reference = Optimum[Current(e)]
               /\ source = "stored_exact_optimum" =>
                     \E m \in 1..Len(runs) : /\ IsExact(runs[m])
                                             /\ runs[m].problem = Current(e)
                                             /\ runs[m].objective = reference
<1> DEFINE p        == Current(e)
           exact    == {results[i].objective : i \in {j \in DOMAIN results : IsExact(results[j])}}
           observed == {results[i].objective : i \in {j \in DOMAIN results : Feasible(results[j])}}
<1>1. p \in Problems
  BY CurrentType
<1>2. Optimum[p] \in Int /\ (\A x \in Objectives[p] : x \in Int)
  BY <1>1, RunHistoryAssumption
<1>3. \A x \in exact : x = Optimum[p]
  BY DEF Honest
<1>4. exact # {} => Best(p, exact) = Optimum[p]
  <2> SUFFICES ASSUME exact # {} PROVE Best(p, exact) = Optimum[p]
    OBVIOUS
  <2> HIDE DEF exact, p
  <2>1. ~Better(p, Optimum[p], Optimum[p])
    BY <1>2 DEF Better
  <2>2. \E x \in exact : \A y \in exact : ~Better(p, y, x)
    BY <1>3, <2>1
  <2>3. Best(p, exact) \in exact
    BY <2>2 DEF Best
  <2> QED BY <1>3, <2>3
<1>5. \A x \in observed : x \in Objectives[p]
  BY DEF Honest
<1>6. Reference(e, results) =
        CASE exact # {} -> <<Best(p, exact), "exact_optimum">>
          [] exact = {} /\ ExactObjective(p) # None -> <<ExactObjective(p), "stored_exact_optimum">>
          [] exact = {} /\ ExactObjective(p) = None /\ Kind[e] = "benchmark" /\ observed # {} ->
                <<Best(p, observed), "best_observed_not_proven_optimal">>
          [] OTHER -> <<None, "none">>
  BY DEF Reference
<1>7. observed # {} => Best(p, observed) \in Int
  <2>1. observed \in SUBSET Objectives[p]
    BY <1>5
  <2> HIDE DEF observed
  <2> SUFFICES ASSUME observed # {} PROVE Best(p, observed) \in Int
    OBVIOUS
  <2>2. \E x \in observed : \A y \in observed : ~Better(p, y, x)
    BY <2>1, <1>1, RunHistoryAssumption
  <2>3. Best(p, observed) \in observed
    BY <2>2 DEF Best
  <2> QED BY <2>1, <2>3, <1>2
<1>8. ExactObjective(p) # None =>
         /\ ExactObjective(p) = Optimum[p]
         /\ \E m \in 1..Len(runs) : /\ IsExact(runs[m]) /\ runs[m].problem = p
                                    /\ runs[m].objective = ExactObjective(p)
  BY <1>1, StoredObjective
<1> HIDE DEF p, exact, observed
<1>9. CASE exact # {}
  BY <1>9, <1>2, <1>4, <1>6 DEF Sources, p
<1>10. CASE exact = {} /\ ExactObjective(p) # None
  BY <1>10, <1>2, <1>6, <1>8 DEF Sources, p
<1>11. CASE exact = {} /\ ExactObjective(p) = None /\ Kind[e] = "benchmark" /\ observed # {}
  BY <1>11, <1>6, <1>7 DEF Sources, p
<1>12. CASE exact = {} /\ ExactObjective(p) = None /\ ~(Kind[e] = "benchmark" /\ observed # {})
  BY <1>12, <1>6 DEF Sources, p
<1> QED BY <1>9, <1>10, <1>11, <1>12

\* Comparing with such a reference keeps a result honest, and backed when it is stored.
LEMMA ComparedIsHonest ==
    ASSUME NEW r \in Run, Honest(r), NEW reference \in Int \cup {None}, NEW source \in Sources,
           source \in {"exact_optimum", "stored_exact_optimum"} => reference = Optimum[r.problem]
    PROVE  /\ Compared(r, reference, source) \in Run
           /\ Honest(Compared(r, reference, source))
           /\ Compared(r, reference, source).problem = r.problem
           /\ Compared(r, reference, source).source = source
           /\ Compared(r, reference, source).reference = reference
<1> DEFINE c == Compared(r, reference, source)
           g == GapOf(r, reference, source)
<1>1. g \in {"none", "zero", "positive"}
  BY DEF GapOf
<1>2. c = [r EXCEPT !.reference = reference, !.source = source, !.gap = g]
  BY DEF Compared
<1>3. r.problem \in Problems /\ r.objective \in Int \cup {None} /\ r.status \in {"success", "failed"}
  BY DEF Run
<1>4. /\ Optimum[r.problem] \in Int
      /\ \A x \in Objectives[r.problem] : x \in Int /\ ~Better(r.problem, x, Optimum[r.problem])
  BY <1>3, RunHistoryAssumption
<1>5. g # "none" => (g = "zero" <=> r.objective = Optimum[r.problem])
  <2> SUFFICES ASSUME g # "none" PROVE g = "zero" <=> r.objective = Optimum[r.problem]
    OBVIOUS
  <2>1. Feasible(r) /\ reference = Optimum[r.problem]
    BY DEF GapOf
  <2>2. r.objective \in Objectives[r.problem]
    BY <2>1 DEF Honest
  <2>3. g = IF Better(r.problem, reference, r.objective) THEN "positive" ELSE "zero"
    BY DEF GapOf
  <2> QED BY <2>1, <2>2, <2>3, <1>4 DEF Better
<1> HIDE DEF g
<1>6. /\ c \in Run /\ c.problem = r.problem /\ c.source = source /\ c.reference = reference
      /\ c.gap = g /\ c.objective = r.objective /\ c.status = r.status /\ c.solver = r.solver
  BY <1>1, <1>2 DEF Run
<1>7. Honest(c)
  <2> HIDE DEF c
  <2> QED BY <1>5, <1>6 DEF Honest, IsExact, Feasible
<1> QED BY <1>6, <1>7

\* A history that gains one run at most keeps the runs it had, in place.
LEMMA HistoryGrows ==
    ASSUME NEW old \in Seq(Run), NEW new,
           new = old \/ \E x \in Run : new = Append(old, x)
    PROVE  /\ new \in Seq(Run)
           /\ Len(old) \in Nat /\ DOMAIN old = 1..Len(old)
           /\ Len(new) \in Nat /\ DOMAIN new = 1..Len(new)
           /\ Len(old) <= Len(new)
           /\ \A m \in 1..Len(old) : new[m] = old[m]
<1>1. Len(old) \in Nat /\ DOMAIN old = 1..Len(old)
  OBVIOUS
<1>2. CASE new = old
  BY <1>1, <1>2
<1>3. CASE \E x \in Run : new = Append(old, x)
  <2>1. PICK x \in Run : new = Append(old, x)
    BY <1>3
  <2>2. /\ new \in Seq(Run)
        /\ Len(new) = Len(old) + 1
        /\ \A m \in 1..Len(old) : new[m] = old[m]
    BY <2>1
  <2> HIDE DEF Run
  <2>3. DOMAIN new = 1..Len(new)
    BY <2>2
  <2> QED BY <1>1, <2>2, <2>3
<1> QED BY <1>2, <1>3

\* What a history backs, one that grew from it backs.
LEMMA StillBacked ==
    ASSUME NEW old \in Seq(Run), NEW new,
           new = old \/ \E x \in Run : new = Append(old, x),
           NEW r, NEW n \in Nat, NEW k \in Nat, n <= k, n <= Len(old), Backed(r, old, n)
    PROVE  Backed(r, new, k)
<1>1. Len(old) \in Nat /\ \A m \in 1..Len(old) : new[m] = old[m]
  BY HistoryGrows
<1> SUFFICES ASSUME r.source = "stored_exact_optimum"
             PROVE  \E m \in 1..k : /\ IsExact(new[m])
                                    /\ new[m].problem = r.problem
                                    /\ new[m].objective = r.reference
  BY DEF Backed
<1>2. PICK m \in 1..n : /\ IsExact(old[m])
                        /\ old[m].problem = r.problem
                        /\ old[m].objective = r.reference
  BY DEF Backed
<1>3. new[m] = old[m] /\ m \in 1..k
  BY <1>1
<1> QED BY <1>2, <1>3

\* Positions in a history of k runs and the number of runs before them.
LEMMA Before ==
    ASSUME NEW k \in Nat
    PROVE  /\ k <= k /\ (k + 1) - 1 = k
           /\ \A m \in 1..k : m - 1 \in Nat /\ m - 1 <= m - 1 /\ m - 1 <= k
OBVIOUS

\* A history of honest, backed runs stays one when an honest, backed run is added.
LEMMA StillHonest ==
    ASSUME NEW old \in Seq(Run), NEW new,
           \A m \in DOMAIN old : Honest(old[m]) /\ Backed(old[m], old, m - 1),
           \/ new = old
           \/ \E x \in Run : new = Append(old, x) /\ Honest(x) /\ Backed(x, old, Len(old))
    PROVE  \A m \in DOMAIN new : Honest(new[m]) /\ Backed(new[m], new, m - 1)
<1>1. CASE new = old
  BY <1>1
<1>2. CASE \E x \in Run : new = Append(old, x) /\ Honest(x) /\ Backed(x, old, Len(old))
  <2>1. PICK x \in Run : new = Append(old, x) /\ Honest(x) /\ Backed(x, old, Len(old))
    BY <1>2
  <2>2. /\ Len(old) \in Nat /\ DOMAIN old = 1..Len(old) /\ DOMAIN new = 1..Len(new)
        /\ \A m \in 1..Len(old) : new[m] = old[m]
    BY <2>1, HistoryGrows
  <2>3. Len(new) = Len(old) + 1 /\ new[Len(old) + 1] = x
    BY <2>1
  <2>4. ASSUME NEW m \in 1..Len(old) PROVE Honest(new[m]) /\ Backed(new[m], new, m - 1)
    <3>1. Honest(old[m]) /\ Backed(old[m], old, m - 1)
      BY <2>2, <2>4
    <3>2. m - 1 \in Nat /\ m - 1 <= m - 1 /\ m - 1 <= Len(old)
      BY <2>2, <2>4, Before
    <3>3. Backed(old[m], new, m - 1)
      BY <2>1, <3>1, <3>2, StillBacked
    <3> QED BY <2>2, <2>4, <3>1, <3>3
  <2>5. Honest(new[Len(old) + 1]) /\ Backed(new[Len(old) + 1], new, (Len(old) + 1) - 1)
    <3>0. Len(old) <= Len(old)
      BY <2>2, Before
    <3>1. Backed(x, new, Len(old))
      BY <2>1, <2>2, <3>0, StillBacked
    <3>2. (Len(old) + 1) - 1 = Len(old)
      BY <2>2, Before
    <3> QED BY <2>1, <2>3, <3>1, <3>2
  <2>6. \A m \in DOMAIN new : m \in 1..Len(old) \/ m = Len(old) + 1
    BY <2>2, <2>3
  <2> QED BY <2>4, <2>5, <2>6
<1> QED BY <1>1, <1>2

\* A process goes to a step with some results in hand, and at most one run is added: the
\* invariant is kept when results and run are honest and backed.
LEMMA ProcessMoves ==
    ASSUME TypeOK, HistoryCore, NEW e \in Processes,
           NEW step \in Live \cup Ended, NEW n \in 1..Len(Plan[e]), NEW results \in Seq(Run),
           pc' = [pc EXCEPT ![e] = step],
           next' = [next EXCEPT ![e] = n],
           pending' = [pending EXCEPT ![e] = results],
           campaigns' \in [Campaigns -> Processes \cup {None}],
           artifact' \in [Problems -> {"none", "partial", "whole"}],
           stored' \subseteq Problems,
           found' \in [Processes -> BOOLEAN],
           \/ runs' = runs
           \/ \E x \in Run : runs' = Append(runs, x) /\ Honest(x) /\ Backed(x, runs, Len(runs)),
           \A i \in DOMAIN results : Honest(results[i]) /\ Backed(results[i], runs, Len(runs)),
           step \in Live => \A i \in DOMAIN results : results[i].problem = Plan[e][n].problem,
           step \in {"compare", "lookup", "insert"} => results # << >>,
           step \in {"register", "enter", "open", "create", "truncate", "flush", "execute"} /\ Kind[e] # "benchmark"
              => results = << >>
    PROVE  TypeOK' /\ HistoryCore'
<1>0. runs \in Seq(Run)
  BY DEF TypeOK
<1>1. /\ runs' = runs \/ \E x \in Run : runs' = Append(runs, x)
      /\ runs' \in Seq(Run) /\ Len(runs) \in Nat /\ Len(runs') \in Nat /\ Len(runs) <= Len(runs')
  BY <1>0, HistoryGrows
<1>2. n \in Nat
  OBVIOUS
<1>3. TypeOK'
  <2>1. \A f \in Processes : next'[f] \in 1..Len(Plan[f])
    BY DEF TypeOK
  <2>2. next' \in [Processes -> Nat]
    BY <1>2 DEF TypeOK
  <2>3. pc' \in [Processes -> Live \cup Ended] /\ pending' \in [Processes -> Seq(Run)]
    BY DEF TypeOK
  <2> QED BY <1>1, <2>1, <2>2, <2>3 DEF TypeOK
<1>5. \A m \in DOMAIN runs' : Honest(runs'[m]) /\ Backed(runs'[m], runs', m - 1)
  <2>1. \A m \in DOMAIN runs : Honest(runs[m]) /\ Backed(runs[m], runs, m - 1)
    BY DEF HistoryCore
  <2> QED BY <1>0, <2>1, StillHonest
<1>6. ASSUME NEW f \in Processes, NEW i \in DOMAIN pending'[f]
      PROVE  Honest(pending'[f][i]) /\ Backed(pending'[f][i], runs', Len(runs'))
  <2>1. pending'[f] = IF f = e THEN results ELSE pending[f]
    BY DEF TypeOK
  <2>2. Honest(pending'[f][i]) /\ Backed(pending'[f][i], runs, Len(runs))
    <3>1. CASE f = e
      <4>1. \A k \in DOMAIN results : Honest(results[k]) /\ Backed(results[k], runs, Len(runs))
        OBVIOUS
      <4> QED BY <1>6, <2>1, <3>1, <4>1
    <3>2. CASE f # e
      <4>1. i \in DOMAIN pending[f] /\ pending'[f][i] = pending[f][i]
        BY <1>6, <2>1, <3>2
      <4> QED BY <4>1 DEF HistoryCore
    <3> QED BY <3>1, <3>2
  <2>3. Len(runs) <= Len(runs)
    BY <1>1
  <2> QED BY <1>0, <1>1, <2>2, <2>3, StillBacked
<1>7. ASSUME NEW f \in Processes
      PROVE  /\ pc'[f] \in Live =>
                   \A i \in DOMAIN pending'[f] : pending'[f][i].problem = Plan[f][next'[f]].problem
             /\ pc'[f] \in {"compare", "lookup", "insert"} => pending'[f] # << >>
             /\ pc'[f] \in {"register", "enter", "open", "create", "truncate", "flush", "execute"}
                /\ Kind[f] # "benchmark" => pending'[f] = << >>
  BY <1>7 DEF HistoryCore, TypeOK, Current
<1> QED BY <1>3, <1>5, <1>6, <1>7 DEF HistoryCore, Current, Honest, Backed, IsExact, Feasible

\* A process that only goes to another step keeps the invariant when its results fit it.
LEMMA ProcessSteps ==
    ASSUME TypeOK, HistoryCore, NEW e \in Processes, NEW step \in Live \cup Ended,
           pc[e] \in Live, Goto(e, step), UNCHANGED <<runs, next, pending>>,
           campaigns' \in [Campaigns -> Processes \cup {None}],
           artifact' \in [Problems -> {"none", "partial", "whole"}],
           stored' \subseteq Problems,
           found' \in [Processes -> BOOLEAN],
           step \in {"compare", "lookup", "insert"} => pending[e] # << >>,
           step \in {"register", "enter", "open", "create", "truncate", "flush", "execute"} /\ Kind[e] # "benchmark"
              => pending[e] = << >>
    PROVE  TypeOK' /\ HistoryCore'
<1> DEFINE n       == next[e]
           results == pending[e]
<1>1. /\ n \in 1..Len(Plan[e]) /\ results \in Seq(Run)
      /\ next' = [next EXCEPT ![e] = n]
      /\ pending' = [pending EXCEPT ![e] = results]
  BY DEF TypeOK
<1>2. /\ \A i \in DOMAIN results : Honest(results[i]) /\ Backed(results[i], runs, Len(runs))
      /\ \A i \in DOMAIN results : results[i].problem = Plan[e][n].problem
  BY DEF HistoryCore, Current
<1>3. pc' = [pc EXCEPT ![e] = step] /\ runs' = runs
  BY DEF Goto
<1>4. /\ step \in {"compare", "lookup", "insert"} => results # << >>
      /\ step \in {"register", "enter", "open", "create", "truncate", "flush", "execute"} /\ Kind[e] # "benchmark"
              => results = << >>
  OBVIOUS
<1> HIDE DEF n, results
<1> QED BY <1>1, <1>2, <1>3, <1>4, ProcessMoves

\* The steps before the first attempt: the campaign and the problem file.
Opening(e) == \/ LookUpCampaign(e) \/ EnterCampaign(e) \/ CampaignConflict(e)
              \/ OpenArtifact(e) \/ CreateArtifact(e) \/ TruncateArtifact(e) \/ FlushArtifact(e)

LEMMA OpeningSteps ==
    ASSUME TypeOK, NEW e \in Processes, Opening(e)
    PROVE  /\ \E step \in {"enter", "open", "create", "truncate", "flush", "execute",
                           "refused", "rejected"} :
                 /\ Goto(e, step)
                 /\ step \in {"open", "create", "truncate", "flush", "execute"}
                       => \/ pc[e] \in {"open", "create", "truncate", "flush"}
                          \/ Kind[e] = "campaign" => campaigns'[CampaignId[e]] # None
                 /\ step = "enter" => pc[e] = "register"
           /\ pc[e] \in {"register", "enter", "open", "create", "truncate", "flush"}
           /\ artifact' \in [Problems -> {"none", "partial", "whole"}]
           /\ campaigns' \in [Campaigns -> Processes \cup {None}]
           /\ \A id \in Campaigns : campaigns[id] # None => campaigns'[id] = campaigns[id]
           /\ UNCHANGED <<stored, runs, next, pending, found>>
<1>1. artifact[Current(e)] \in {"none", "partial", "whole"} /\ Current(e) \in Problems
  BY CurrentType DEF TypeOK
<1>2. Kind[e] = "campaign" => CampaignId[e] \in Campaigns
  BY DEF Campaigns
<1>3. CASE LookUpCampaign(e)
  BY <1>3 DEF LookUpCampaign, execution, TypeOK
<1>4. CASE EnterCampaign(e)
  <2>1. /\ pc[e] = "enter" /\ Goto(e, "open") /\ campaigns[CampaignId[e]] = None
        /\ campaigns' = [campaigns EXCEPT ![CampaignId[e]] = e]
        /\ UNCHANGED <<artifact, stored, runs, next, pending, found>>
    BY <1>4 DEF EnterCampaign, execution
  <2>2. campaigns \in [Campaigns -> Processes \cup {None}] /\ None \notin Processes
        /\ artifact \in [Problems -> {"none", "partial", "whole"}]
    BY RunHistoryAssumption DEF TypeOK
  <2>3. /\ campaigns' \in [Campaigns -> Processes \cup {None}]
        /\ \A id \in Campaigns : campaigns[id] # None => campaigns'[id] = campaigns[id]
        /\ Kind[e] = "campaign" => campaigns'[CampaignId[e]] # None
    BY <1>2, <2>1, <2>2
  <2> QED BY <2>1, <2>2, <2>3
<1>5. CASE CampaignConflict(e)
  BY <1>5 DEF CampaignConflict, execution, TypeOK
<1>6. CASE OpenArtifact(e) \/ CreateArtifact(e) \/ TruncateArtifact(e) \/ FlushArtifact(e)
  BY <1>1, <1>6
  DEF OpenArtifact, CreateArtifact, TruncateArtifact, FlushArtifact, table, TypeOK
<1> QED BY <1>3, <1>4, <1>5, <1>6 DEF Opening

LEMMA OpeningKeeps ==
    ASSUME TypeOK, HistoryCore, NEW e \in Processes, Opening(e)
    PROVE  TypeOK' /\ HistoryCore'
<1>1. PICK step \in {"enter", "open", "create", "truncate", "flush", "execute",
                     "refused", "rejected"} : Goto(e, step)
  BY OpeningSteps
<1>2. /\ pc[e] \in {"register", "enter", "open", "create", "truncate", "flush"}
      /\ artifact' \in [Problems -> {"none", "partial", "whole"}]
      /\ campaigns' \in [Campaigns -> Processes \cup {None}]
      /\ UNCHANGED <<stored, runs, next, pending, found>>
  BY OpeningSteps
<1>3. step \in Live \cup Ended /\ pc[e] \in Live
  BY <1>1, <1>2 DEF Live, Ended
<1>4. Kind[e] # "benchmark" => pending[e] = << >>
  BY <1>2 DEF HistoryCore
<1>5. stored' \subseteq Problems /\ found' \in [Processes -> BOOLEAN]
  BY <1>2 DEF TypeOK
<1> QED BY <1>1, <1>2, <1>3, <1>4, <1>5, ProcessSteps

\* Executing an attempt adds a result of the problem that is not compared yet.
LEMMA ExecuteStep ==
    ASSUME TypeOK, HistoryCore, NEW e \in Processes, Execute(e)
    PROVE  TypeOK' /\ HistoryCore'
<1>1. PICK outcome \in Outcomes(Current(e), Plan[e][next[e]].solver) :
         pending' = [pending EXCEPT ![e] = Append(@, Result(e, outcome))]
  BY DEF Execute
<1> DEFINE x       == Result(e, outcome)
           results == Append(pending[e], x)
           n       == next'[e]
           step    == pc'[e]
<1>2. x \in Run /\ Honest(x) /\ x.problem = Current(e) /\ x.source = "none"
  BY <1>1, ResultType
<1>3. /\ pc[e] = "execute" /\ pending[e] \in Seq(Run) /\ next[e] \in 1..Len(Plan[e])
      /\ UNCHANGED <<campaigns, artifact, stored, runs, found>>
  BY DEF Execute, TypeOK
<1>4. /\ n \in 1..Len(Plan[e]) /\ next' = [next EXCEPT ![e] = n]
      /\ step \in {"execute", "compare"} /\ pc' = [pc EXCEPT ![e] = step]
      /\ step = "execute" => Kind[e] = "benchmark"
      /\ n # next[e] => Kind[e] = "benchmark"
  <2>1. CASE Kind[e] = "benchmark" /\ next[e] < Len(Plan[e])
    <3>1. next' = [next EXCEPT ![e] = @ + 1] /\ pc' = pc
      BY <2>1 DEF Execute
    <3> QED BY <1>3, <2>1, <3>1 DEF TypeOK
  <2>2. CASE ~(Kind[e] = "benchmark" /\ next[e] < Len(Plan[e]))
    <3>1. pc' = [pc EXCEPT ![e] = "compare"] /\ next' = next
      BY <2>2 DEF Execute, Goto
    <3> QED BY <1>3, <3>1 DEF TypeOK
  <2> QED BY <2>1, <2>2
<1>5. Plan[e][n].problem = Current(e)
  <2>1. DOMAIN Plan[e] = 1..Len(Plan[e])
    BY RunHistoryAssumption
  <2>2. CASE Kind[e] = "benchmark"
    <3>1. \A i, j \in DOMAIN Plan[e] : Plan[e][i].problem = Plan[e][j].problem
      BY <2>2, RunHistoryAssumption
    <3> QED BY <1>3, <1>4, <2>1, <3>1 DEF Current
  <2>3. CASE Kind[e] # "benchmark"
    BY <1>4, <2>3 DEF Current
  <2> QED BY <2>2, <2>3
<1>6. /\ results \in Seq(Run) /\ results # << >>
      /\ \A i \in DOMAIN results : \/ i \in DOMAIN pending[e] /\ results[i] = pending[e][i]
                                   \/ results[i] = x
  <2> HIDE DEF x
  <2>1. /\ results \in Seq(Run) /\ Len(results) = Len(pending[e]) + 1
        /\ Len(pending[e]) \in Nat /\ DOMAIN pending[e] = 1..Len(pending[e])
        /\ \A i \in 1..Len(pending[e]) : results[i] = pending[e][i]
        /\ results[Len(pending[e]) + 1] = x
    BY <1>2, <1>3
  <2>2. DOMAIN results = 1..Len(results)
    BY <2>1
  <2> QED BY <2>1, <2>2
<1>7. \A i \in DOMAIN pending[e] :
         /\ Honest(pending[e][i]) /\ Backed(pending[e][i], runs, Len(runs))
         /\ pending[e][i].problem = Current(e)
  BY <1>3 DEF HistoryCore, Live
<1>8. Backed(x, runs, Len(runs))
  BY <1>2 DEF Backed
<1>9. /\ \A i \in DOMAIN results : Honest(results[i]) /\ Backed(results[i], runs, Len(runs))
      /\ \A i \in DOMAIN results : results[i].problem = Plan[e][n].problem
  BY <1>2, <1>5, <1>6, <1>7, <1>8
<1>10. /\ pending' = [pending EXCEPT ![e] = results] /\ runs' = runs
       /\ campaigns' \in [Campaigns -> Processes \cup {None}]
       /\ artifact' \in [Problems -> {"none", "partial", "whole"}]
       /\ stored' \subseteq Problems /\ found' \in [Processes -> BOOLEAN]
       /\ step \in Live \cup Ended
  BY <1>1, <1>3, <1>4 DEF TypeOK, Live
<1> HIDE DEF x, results, n, step
<1> QED BY <1>4, <1>6, <1>9, <1>10, ProcessMoves

\* Comparing keeps the results honest, and backs those whose reference is stored.
LEMMA CompareStep ==
    ASSUME TypeOK, HistoryCore, NEW e \in Processes, Compare(e)
    PROVE  TypeOK' /\ HistoryCore'
<1> DEFINE old       == pending[e]
           reference == Reference(e, old)[1]
           source    == Reference(e, old)[2]
           results   == [i \in DOMAIN old |-> Compared(old[i], reference, source)]
           n         == next[e]
<1>1. /\ pc[e] = "compare" /\ old \in Seq(Run) /\ old # << >> /\ n \in 1..Len(Plan[e])
      /\ next' = [next EXCEPT ![e] = n] /\ pc' = [pc EXCEPT ![e] = "lookup"] /\ runs' = runs
      /\ pending' = [pending EXCEPT ![e] = results]
      /\ campaigns' \in [Campaigns -> Processes \cup {None}]
      /\ artifact' \in [Problems -> {"none", "partial", "whole"}]
      /\ stored' \subseteq Problems /\ found' \in [Processes -> BOOLEAN]
  BY DEF Compare, Goto, TypeOK, HistoryCore
<1>2. \A i \in DOMAIN old : Honest(old[i]) /\ old[i].problem = Current(e) /\ old[i] \in Run
  <2>1. \A i \in DOMAIN old : old[i] \in Run
    BY <1>1
  <2> QED BY <1>1, <2>1 DEF HistoryCore, Live
<1>3. /\ reference \in Int \cup {None} /\ source \in Sources
      /\ source \in {"exact_optimum", "stored_exact_optimum"} => reference = Optimum[Current(e)]
      /\ source = "stored_exact_optimum" =>
            \E m \in 1..Len(runs) : /\ IsExact(runs[m])
                                    /\ runs[m].problem = Current(e)
                                    /\ runs[m].objective = reference
  <2> HIDE DEF old
  <2> QED BY <1>1, <1>2, ReferenceIsOptimal
<1> HIDE DEF old, reference, source, n
<1>4. ASSUME NEW i \in DOMAIN old
      PROVE  /\ results[i] \in Run
             /\ Honest(results[i]) /\ Backed(results[i], runs, Len(runs))
             /\ results[i].problem = Current(e)
  <2>1. Honest(old[i]) /\ old[i].problem = Current(e) /\ old[i] \in Run
    BY <1>2, <1>4
  <2> DEFINE r == old[i]
             c == Compared(r, reference, source)
  <2>r. /\ r \in Run /\ Honest(r) /\ r.problem = Current(e)
        /\ source \in {"exact_optimum", "stored_exact_optimum"} => reference = Optimum[r.problem]
    BY <1>3, <2>1
  <2> HIDE DEF r
  <2>2. /\ c \in Run /\ Honest(c) /\ c.problem = Current(e)
        /\ c.source = source /\ c.reference = reference
    BY <1>3, <2>r, ComparedIsHonest
  <2>3. results[i] = c
    BY <1>4 DEF r
  <2> HIDE DEF c
  <2>4. Backed(c, runs, Len(runs))
    BY <1>3, <2>2 DEF Backed
  <2> HIDE DEF results
  <2> QED BY <2>2, <2>3, <2>4
<1>5. results \in Seq(Run) /\ results # << >> /\ DOMAIN results = DOMAIN old
  <2>1. DOMAIN old = 1..Len(old) /\ Len(old) \in Nat /\ Len(old) # 0
    BY <1>1
  <2>2. DOMAIN results = 1..Len(old)
    BY <2>1
  <2>3. \A i \in 1..Len(old) : results[i] \in Run
    BY <1>4, <2>1
  <2>4. results = [i \in 1..Len(old) |-> results[i]]
    BY <2>1
  <2> HIDE DEF results
  <2>5. results \in Seq(Run) /\ Len(results) = Len(old)
    BY <2>1, <2>2, <2>3, <2>4
  <2> QED BY <2>1, <2>2, <2>5
<1>6. \A i \in DOMAIN results : results[i].problem = Plan[e][n].problem
  BY <1>4, <1>5 DEF Current, n
<1>7. "lookup" \in Live \cup Ended
  BY DEF Live
<1> HIDE DEF results
<1> QED BY <1>1, <1>4, <1>5, <1>6, <1>7, ProcessMoves

\* Saving moves the first result to the end of the runs and goes on.
LEMMA InsertStep ==
    ASSUME TypeOK, HistoryCore, NEW e \in Processes, Insert(e)
    PROVE  TypeOK' /\ HistoryCore'
<1> DEFINE old     == pending[e]
           x       == Head(old)
           results == Tail(old)
           n       == next'[e]
           step    == pc'[e]
<1>1. /\ pc[e] = "insert" /\ old \in Seq(Run) /\ old # << >> /\ next[e] \in 1..Len(Plan[e])
      /\ stored' = stored \cup {Current(e)} /\ runs' = Append(runs, x)
      /\ UNCHANGED <<campaigns, artifact, found>> /\ Proceed(e, results)
  BY DEF Insert, TypeOK, HistoryCore
<1>2. /\ x \in Run /\ x = old[1] /\ 1 \in DOMAIN old
      /\ results \in Seq(Run)
      /\ \A i \in DOMAIN results : i + 1 \in DOMAIN old /\ results[i] = old[i + 1]
  <2> HIDE DEF old
  <2>1. /\ x \in Run /\ x = old[1] /\ Len(old) \in Nat /\ Len(old) > 0
        /\ DOMAIN old = 1..Len(old)
        /\ results \in Seq(Run) /\ Len(results) = Len(old) - 1
    BY <1>1
  <2>2. DOMAIN results = 1..(Len(old) - 1)
    BY <2>1
  <2>3. \A i \in 1..(Len(old) - 1) : results[i] = old[i + 1]
    BY <1>1, <2>1
  <2> QED BY <2>1, <2>2, <2>3
<1>3. \A i \in DOMAIN old : /\ Honest(old[i]) /\ Backed(old[i], runs, Len(runs))
                            /\ old[i].problem = Current(e)
  BY <1>1 DEF HistoryCore, Live
<1>4. Honest(x) /\ Backed(x, runs, Len(runs))
  BY <1>2, <1>3
<1>5. \A i \in DOMAIN results : /\ Honest(results[i]) /\ Backed(results[i], runs, Len(runs))
                                /\ results[i].problem = Current(e)
  BY <1>2, <1>3
<1> HIDE DEF old, x, results
<1>6. /\ n \in 1..Len(Plan[e]) /\ next' = [next EXCEPT ![e] = n]
      /\ step \in {"lookup", "done", "open", "execute"} /\ pc' = [pc EXCEPT ![e] = step]
      /\ step = "lookup" => results # << >> /\ n = next[e]
      /\ step \in {"open", "execute"} => results = << >>
      /\ step = "done" => results = << >>
      /\ pending' = [pending EXCEPT ![e] = results]
  <2>1. CASE results # << >>
    BY <1>1, <2>1 DEF Proceed, Goto, TypeOK
  <2>2. CASE results = << >> /\ next[e] = Len(Plan[e])
    BY <1>1, <2>2 DEF Proceed, Goto, TypeOK
  <2>3. CASE results = << >> /\ next[e] # Len(Plan[e])
    <3>1. /\ next' = [next EXCEPT ![e] = next[e] + 1]
          /\ pending' = [pending EXCEPT ![e] = results]
          /\ \/ pc' = [pc EXCEPT ![e] = "open"]
             \/ pc' = [pc EXCEPT ![e] = "execute"]
      BY <1>1, <2>3 DEF Proceed, Goto
    <3>2. next[e] + 1 \in 1..Len(Plan[e])
      BY <1>1, <2>3, CurrentType
    <3> QED BY <2>3, <3>1, <3>2 DEF TypeOK
  <2> QED BY <2>1, <2>2, <2>3
<1>7. \A i \in DOMAIN results : results[i].problem = Plan[e][n].problem
  <2>1. CASE results = << >>
    <3>1. DOMAIN results = {}
      BY <2>1
    <3> QED BY <3>1
  <2>2. CASE results # << >>
    BY <1>5, <1>6, <2>2 DEF Current
  <2> QED BY <2>1, <2>2
<1>8. /\ campaigns' \in [Campaigns -> Processes \cup {None}]
      /\ artifact' \in [Problems -> {"none", "partial", "whole"}]
      /\ stored' \subseteq Problems /\ found' \in [Processes -> BOOLEAN]
      /\ step \in Live \cup Ended
  BY <1>1, <1>6, CurrentType DEF TypeOK, Live, Ended
<1>9. \E y \in Run : runs' = Append(runs, y) /\ Honest(y) /\ Backed(y, runs, Len(runs))
  BY <1>1, <1>2, <1>4
<1> HIDE DEF n, step
<1> QED BY <1>2, <1>5, <1>6, <1>7, <1>8, <1>9, ProcessMoves

\* The runs are typed, honest and backed by the runs before them.
THEOREM HistoryCorrect == Spec => [](TypeOK /\ HistoryCore)
<1>1. Init => TypeOK /\ HistoryCore
  <2> SUFFICES ASSUME Init PROVE TypeOK /\ HistoryCore
    OBVIOUS
  <2>1. ASSUME NEW e \in Processes PROVE 1 \in 1..Len(Plan[e])
    <3> DEFINE Planned == [problem : Problems, solver : {"exact", "other"}]
    <3>1. Plan[e] \in Seq(Planned) /\ Plan[e] # << >>
      BY RunHistoryAssumption
    <3> HIDE DEF Planned
    <3> QED BY <3>1
  <2>2. TypeOK
    BY <2>1 DEF Init, TypeOK, Live
  <2> QED BY <2>2 DEF Init, HistoryCore
<1>2. TypeOK /\ HistoryCore /\ [Next]_vars => (TypeOK /\ HistoryCore)'
  <2> SUFFICES ASSUME TypeOK, HistoryCore, [Next]_vars PROVE TypeOK' /\ HistoryCore'
    OBVIOUS
  <2>1. CASE UNCHANGED vars
    BY <2>1 DEF vars, TypeOK, HistoryCore, Current
  <2>2. ASSUME NEW e \in Processes, Opening(e) PROVE TypeOK' /\ HistoryCore'
    BY <2>2, OpeningKeeps
  <2>3. ASSUME NEW e \in Processes, Execute(e) PROVE TypeOK' /\ HistoryCore'
    BY <2>3, ExecuteStep
  <2>4. ASSUME NEW e \in Processes, Compare(e) PROVE TypeOK' /\ HistoryCore'
    BY <2>4, CompareStep
  <2>5. ASSUME NEW e \in Processes, LookUp(e) PROVE TypeOK' /\ HistoryCore'
    <3>1. /\ pc[e] \in Live /\ pending[e] # << >> /\ Goto(e, "insert")
          /\ UNCHANGED <<runs, next, pending>> /\ "insert" \in Live \cup Ended
          /\ campaigns' \in [Campaigns -> Processes \cup {None}]
          /\ artifact' \in [Problems -> {"none", "partial", "whole"}]
          /\ stored' \subseteq Problems /\ found' \in [Processes -> BOOLEAN]
      BY <2>5 DEF LookUp, TypeOK, HistoryCore, Live
    <3> QED BY <3>1, ProcessSteps
  <2>6. ASSUME NEW e \in Processes, Insert(e) PROVE TypeOK' /\ HistoryCore'
    BY <2>6, InsertStep
  <2>7. ASSUME NEW e \in Processes, InsertConflict(e) \/ Stop(e) PROVE TypeOK' /\ HistoryCore'
    <3>1. PICK step \in Ended : Goto(e, step)
      BY <2>7 DEF InsertConflict, Stop, Ended
    <3>2. /\ pc[e] \in Live /\ UNCHANGED <<runs, next, pending>>
          /\ campaigns' \in [Campaigns -> Processes \cup {None}]
          /\ artifact' \in [Problems -> {"none", "partial", "whole"}]
          /\ stored' \subseteq Problems /\ found' \in [Processes -> BOOLEAN]
      BY <2>7 DEF InsertConflict, Stop, table, TypeOK, Live
    <3>3. step \notin Live /\ step \in Live \cup Ended
      BY <3>1 DEF Live, Ended
    <3> QED BY <3>1, <3>2, <3>3, ProcessSteps DEF Live
  <2> QED BY <2>1, <2>2, <2>3, <2>4, <2>5, <2>6, <2>7 DEF Next, Opening
<1> QED BY <1>1, <1>2, PTL DEF Spec

\* Every variable of the run history keeps its type (storage.py's rows included).
THEOREM HistoryTyped == Spec => []TypeOK
BY HistoryCorrect, PTL

\* The stored objective a run was compared with is that of an exact run of its problem
\* saved before it, however many processes save.
THEOREM EarlierReference == Spec => []ReferenceIsEarlier
<1>1. TypeOK /\ HistoryCore => ReferenceIsEarlier
  BY DEF HistoryCore, ReferenceIsEarlier, Backed
<1> QED BY <1>1, HistoryCorrect, PTL

\* A saved gap is zero exactly when the run's objective is the optimum.
THEOREM TrueGap == Spec => []GapIsTrue
<1>1. TypeOK /\ HistoryCore => GapIsTrue
  BY DEF HistoryCore, GapIsTrue, Honest
<1> QED BY <1>1, HistoryCorrect, PTL

-----------------------------------------------------------------------------
(* The log: what is saved and what is in hand are the plan's attempts, in order *)

\* The first unsaved attempt while the current one is executed, and afterwards.
LEMMA FirstIs ==
    ASSUME NEW n \in Int, NEW k \in Int, NEW step
    PROVE  (IF step \in {"compare", "lookup", "insert"} THEN n + 1 ELSE n) - k
              = IF step \in {"compare", "lookup", "insert"} THEN n + 1 - k ELSE n - k
OBVIOUS

\* A step of one process that saves nothing: the log stays one when the process holds
\* attempts from the same first one on.
LEMMA LogKept ==
    ASSUME TypeOK, LogCore, NEW e \in Processes, runs' = runs,
           \A f \in Processes \ {e} :
              pc'[f] = pc[f] /\ next'[f] = next[f] /\ pending'[f] = pending[f],
           \A id \in Campaigns : campaigns[id] # None => campaigns'[id] # None,
           Kind[e] = "campaign" /\ pc'[e] \in Live \ {"register", "enter"}
              => campaigns'[CampaignId[e]] # None,
           pc'[e] \in {"register", "enter"} => pc[e] \in {"register", "enter"},
           pc'[e] \in Live =>
              /\ pc[e] \in Live
              /\ First(e)' = First(e)
              /\ \A i \in DOMAIN pending'[e] : /\ IsPlanned(pending'[e][i], e)
                                               /\ pending'[e][i].attempt = First(e) + i - 1
    PROVE  LogCore'
<1>1. \A n \in DOMAIN runs' : IsPlanned(runs'[n], runs'[n].by)
  BY DEF LogCore
<1>2. ASSUME NEW f \in Processes, pc'[f] \in Live
      PROVE  /\ \A i \in DOMAIN pending'[f] :
                   IsPlanned(pending'[f][i], f) /\ pending'[f][i].attempt = First(f)' + i - 1
             /\ First(f)' >= 1
             /\ \A m \in DOMAIN Plan[f] :
                   (\E n \in DOMAIN runs' : runs'[n].by = f /\ runs'[n].attempt = m)
                      <=> m < First(f)'
  <2>1. First(f)' = First(f) /\ pc[f] \in Live
    <3>1. CASE f = e
      BY <1>2, <3>1
    <3>2. CASE f # e
      BY <1>2, <3>2 DEF First
    <3> QED BY <3>1, <3>2
  <2>2. \A i \in DOMAIN pending'[f] :
           IsPlanned(pending'[f][i], f) /\ pending'[f][i].attempt = First(f) + i - 1
    <3>1. CASE f = e
      BY <1>2, <3>1
    <3>2. CASE f # e
      BY <2>1, <3>2 DEF LogCore
    <3> QED BY <3>1, <3>2
  <2>3. /\ First(f) >= 1
        /\ \A m \in DOMAIN Plan[f] :
              (\E n \in DOMAIN runs : runs[n].by = f /\ runs[n].attempt = m) <=> m < First(f)
    BY <2>1 DEF LogCore
  <2> QED BY <2>1, <2>2, <2>3
<1>3. ASSUME NEW f \in Processes, Kind[f] = "campaign", pc'[f] \in Live \ {"register", "enter"}
      PROVE  campaigns'[CampaignId[f]] # None
  <2>1. CASE f = e
    BY <1>3, <2>1
  <2>2. CASE f # e
    <3>1. CampaignId[f] \in Campaigns
      BY <1>3 DEF Campaigns
    <3>2. campaigns[CampaignId[f]] # None
      BY <1>3, <2>2 DEF LogCore
    <3> QED BY <3>1, <3>2
  <2> QED BY <2>1, <2>2
<1>4. ASSUME NEW f \in Processes, pc'[f] \in {"register", "enter"} PROVE Kind[f] = "campaign"
  <2>1. pc[f] \in {"register", "enter"}
    BY <1>4
  <2> QED BY <2>1 DEF LogCore
<1> QED BY <1>1, <1>2, <1>3, <1>4 DEF LogCore

\* A step that leaves next, results and runs alone and stays before or after the execution.
LEMMA LogStays ==
    ASSUME TypeOK, LogCore, NEW e \in Processes, NEW step, pc' = [pc EXCEPT ![e] = step],
           UNCHANGED <<runs, next, pending>>,
           \A id \in Campaigns : campaigns[id] # None => campaigns'[id] # None,
           Kind[e] = "campaign" /\ step \in Live \ {"register", "enter"}
              => campaigns'[CampaignId[e]] # None,
           step \in {"register", "enter"} => pc[e] \in {"register", "enter"},
           step \in Live =>
              /\ pc[e] \in Live
              /\ step \in {"compare", "lookup", "insert"}
                    <=> pc[e] \in {"compare", "lookup", "insert"}
    PROVE  LogCore'
<1>1. pc'[e] = step /\ \A f \in Processes \ {e} : pc'[f] = pc[f]
  BY DEF TypeOK
<1>2. step \in Live => First(e)' = First(e)
  BY <1>1 DEF First
<1>3. step \in Live => \A i \in DOMAIN pending[e] : /\ IsPlanned(pending[e][i], e)
                                                    /\ pending[e][i].attempt = First(e) + i - 1
  BY DEF LogCore
<1> QED BY <1>1, <1>2, <1>3, LogKept

\* Executing an attempt: it is the one after those in hand.
LEMMA LogExecute ==
    ASSUME TypeOK, LogCore, NEW e \in Processes, Execute(e)
    PROVE  LogCore'
<1>1. PICK outcome \in Outcomes(Current(e), Plan[e][next[e]].solver) :
         pending' = [pending EXCEPT ![e] = Append(@, Result(e, outcome))]
  BY DEF Execute
<1> DEFINE x == Result(e, outcome)
<1>2. /\ x.attempt = next[e] /\ IsPlanned(x, e) /\ x \in Run
  <2>1. x.attempt = next[e] /\ x.by = e /\ x.problem = Plan[e][next[e]].problem
        /\ x.solver = Plan[e][next[e]].solver
    BY DEF Result, Current
  <2>2. next[e] \in DOMAIN Plan[e]
    BY RunHistoryAssumption DEF TypeOK
  <2>3. x \in Run
    BY <1>1, ResultType
  <2> QED BY <2>1, <2>2, <2>3 DEF IsPlanned
<1>3. /\ pc[e] = "execute" /\ pending[e] \in Seq(Run) /\ Len(pending[e]) \in Nat
      /\ next[e] \in Nat /\ runs' = runs
  BY DEF Execute, TypeOK
<1>4. First(e) = next[e] - Len(pending[e])
  BY <1>3 DEF First
<1>5. pending'[e] = Append(pending[e], x)
  BY <1>1 DEF TypeOK
<1> HIDE DEF x
<1>6. /\ Len(pending'[e]) = Len(pending[e]) + 1 /\ DOMAIN pending'[e] = 1..(Len(pending[e]) + 1)
      /\ DOMAIN pending[e] = 1..Len(pending[e])
      /\ \A i \in 1..Len(pending[e]) : pending'[e][i] = pending[e][i]
      /\ pending'[e][Len(pending[e]) + 1] = x
  BY <1>2, <1>3, <1>5
<1>7. First(e)' = First(e)
  <2>1. CASE Kind[e] = "benchmark" /\ next[e] < Len(Plan[e])
    <3>1. next'[e] = next[e] + 1 /\ pc'[e] = "execute"
      BY <1>3, <2>1 DEF Execute, TypeOK
    <3>2. First(e)' = next'[e] - Len(pending'[e])
      BY <3>1 DEF First
    <3>3. next'[e] - Len(pending'[e]) = next[e] - Len(pending[e])
      BY <1>3, <1>6, <3>1
    <3> QED BY <1>4, <3>2, <3>3
  <2>2. CASE ~(Kind[e] = "benchmark" /\ next[e] < Len(Plan[e]))
    <3>1. next'[e] = next[e] /\ pc'[e] = "compare"
      BY <1>3, <2>2 DEF Execute, Goto, TypeOK
    <3>2. First(e)' = next'[e] + 1 - Len(pending'[e])
      <4>1. next'[e] \in Int /\ Len(pending'[e]) \in Int
        BY <1>3, <1>6, <3>1
      <4> QED BY <3>1, <4>1, FirstIs DEF First
    <3>3. next'[e] + 1 - Len(pending'[e]) = next[e] - Len(pending[e])
      BY <1>3, <1>6, <3>1
    <3> QED BY <1>4, <3>2, <3>3
  <2> QED BY <2>1, <2>2
<1>8. \A f \in Processes \ {e} :
         pc'[f] = pc[f] /\ next'[f] = next[f] /\ pending'[f] = pending[f]
  BY <1>1 DEF Execute, Goto, TypeOK
<1>9. \A i \in DOMAIN pending[e] : /\ IsPlanned(pending[e][i], e)
                                   /\ pending[e][i].attempt = First(e) + i - 1
  BY <1>3 DEF LogCore, Live
<1>10. ASSUME NEW i \in DOMAIN pending'[e]
       PROVE  IsPlanned(pending'[e][i], e) /\ pending'[e][i].attempt = First(e) + i - 1
  <2>1. CASE i = Len(pending[e]) + 1
    BY <1>2, <1>3, <1>4, <1>6, <2>1
  <2>2. CASE i # Len(pending[e]) + 1
    <3>1. i \in DOMAIN pending[e] /\ pending'[e][i] = pending[e][i]
      BY <1>3, <1>6, <1>10, <2>2
    <3> QED BY <1>9, <3>1
  <2> QED BY <2>1, <2>2
<1>11. pc[e] \in Live
  BY <1>3 DEF Live
<1>12. campaigns' = campaigns /\ (Kind[e] = "campaign" => campaigns[CampaignId[e]] # None)
  BY <1>3, <1>11 DEF Execute, LogCore
<1>13. pc'[e] \notin {"register", "enter"}
  BY <1>3 DEF Execute, Goto, TypeOK
<1> QED BY <1>3, <1>7, <1>8, <1>10, <1>11, <1>12, <1>13, LogKept

\* Comparing changes what results say, not what they are of.
LEMMA LogCompare ==
    ASSUME TypeOK, LogCore, NEW e \in Processes, Compare(e)
    PROVE  LogCore'
<1> DEFINE reference == Reference(e, pending[e])[1]
           source    == Reference(e, pending[e])[2]
<1>1. /\ pc[e] = "compare" /\ pending[e] \in Seq(Run) /\ UNCHANGED <<runs, next>>
      /\ pc' = [pc EXCEPT ![e] = "lookup"]
      /\ pending' = [pending EXCEPT ![e] =
                       [i \in DOMAIN pending[e] |-> Compared(pending[e][i], reference, source)]]
  BY DEF Compare, Goto, TypeOK
<1> HIDE DEF reference, source
<1>2. /\ pc'[e] = "lookup" /\ \A f \in Processes \ {e} : pc'[f] = pc[f] /\ pending'[f] = pending[f]
      /\ pending'[e] = [i \in DOMAIN pending[e] |-> Compared(pending[e][i], reference, source)]
  BY <1>1 DEF TypeOK
<1>3. DOMAIN pending'[e] = DOMAIN pending[e] /\ Len(pending'[e]) = Len(pending[e])
  <2>1. Len(pending[e]) \in Nat /\ DOMAIN pending[e] = 1..Len(pending[e])
    BY <1>1
  <2> QED BY <1>2, <2>1
<1>4. First(e)' = First(e)
  BY <1>1, <1>2, <1>3 DEF First
<1>5. ASSUME NEW i \in DOMAIN pending'[e]
      PROVE  IsPlanned(pending'[e][i], e) /\ pending'[e][i].attempt = First(e) + i - 1
  <2>1. i \in DOMAIN pending[e] /\ pending[e][i] \in Run
        /\ pending'[e][i] = Compared(pending[e][i], reference, source)
    BY <1>1, <1>2, <1>3, <1>5
  <2>2. IsPlanned(pending[e][i], e) /\ pending[e][i].attempt = First(e) + i - 1
    BY <1>1, <2>1 DEF LogCore, Live
  <2>3. /\ pending'[e][i].by = pending[e][i].by
        /\ pending'[e][i].attempt = pending[e][i].attempt
        /\ pending'[e][i].problem = pending[e][i].problem
        /\ pending'[e][i].solver = pending[e][i].solver
    BY <2>1 DEF Compared, Run
  <2> QED BY <2>2, <2>3 DEF IsPlanned
<1>6. pc[e] \in Live
  BY <1>1 DEF Live
<1>7. campaigns' = campaigns /\ (Kind[e] = "campaign" => campaigns[CampaignId[e]] # None)
  BY <1>1, <1>6 DEF Compare, LogCore
<1> QED BY <1>1, <1>2, <1>4, <1>5, <1>6, <1>7, LogKept

\* A save appends the first attempt that was not saved; the last one ends the process.
LEMMA InsertAppends ==
    ASSUME TypeOK, HistoryCore, LogCore, NEW e \in Processes, Insert(e)
    PROVE  /\ runs' \in Seq(Run) /\ Len(runs) \in Nat /\ Len(runs') = Len(runs) + 1
           /\ DOMAIN runs = 1..Len(runs) /\ DOMAIN runs' = 1..(Len(runs) + 1)
           /\ \A n \in 1..Len(runs) : runs'[n] = runs[n]
           /\ First(e) \in DOMAIN Plan[e]
           /\ IsPlanned(runs'[Len(runs) + 1], e)
           /\ runs'[Len(runs) + 1].attempt = First(e)
           /\ pc[e] \in Live
           /\ pc'[e] = "done" <=> First(e) = Len(Plan[e])
           /\ pc'[e] \in Live =>
                 /\ First(e)' = First(e) + 1
                 /\ \A i \in DOMAIN pending'[e] : /\ IsPlanned(pending'[e][i], e)
                                                  /\ pending'[e][i].attempt = First(e)' + i - 1
           /\ \A f \in Processes \ {e} :
                 pc'[f] = pc[f] /\ next'[f] = next[f] /\ pending'[f] = pending[f]
           /\ pc'[e] \in Live \cup {"done"}
<1> DEFINE old  == pending[e]
           x    == Head(old)
           rest == Tail(old)
           k    == Len(old)
<1>1. /\ pc[e] = "insert" /\ old \in Seq(Run) /\ old # << >>
      /\ runs \in Seq(Run) /\ runs' = Append(runs, x) /\ Proceed(e, rest)
  BY DEF Insert, TypeOK, HistoryCore
<1>2. /\ next[e] \in Nat /\ next[e] \in 1..Len(Plan[e]) /\ Len(Plan[e]) \in Nat
      /\ DOMAIN Plan[e] = 1..Len(Plan[e])
  BY CurrentType, RunHistoryAssumption DEF TypeOK
<1>3. pc[e] \in Live
  BY <1>1 DEF Live
<1>4. \A i \in DOMAIN old : IsPlanned(old[i], e) /\ old[i].attempt = First(e) + i - 1
  BY <1>3 DEF LogCore
<1>5. First(e) = next[e] + 1 - k
  <2>1. pc[e] = "insert" /\ Len(pending[e]) \in Int
    BY <1>1
  <2> QED BY <1>2, <2>1, FirstIs DEF First
<1>6. /\ pending' = [pending EXCEPT ![e] = rest] /\ pending'[e] = rest
      /\ \A f \in Processes \ {e} : pending'[f] = pending[f]
  BY <1>1 DEF Proceed, TypeOK
<1>6a. \A f \in Processes \ {e} : pc'[f] = pc[f] /\ next'[f] = next[f]
  BY <1>1 DEF Proceed, Goto, TypeOK
<1>7. /\ k \in Nat /\ k >= 1 /\ DOMAIN old = 1..k
      /\ x = old[1] /\ x \in Run
      /\ rest \in Seq(Run) /\ Len(rest) = k - 1 /\ DOMAIN rest = 1..(k - 1)
      /\ \A i \in 1..(k - 1) : rest[i] = old[i + 1]
  <2> HIDE DEF old, Run
  <2>1. k \in Nat /\ k >= 1 /\ DOMAIN old = 1..k /\ x = old[1] /\ x \in Run
        /\ rest \in Seq(Run) /\ Len(rest) = k - 1
    BY <1>1
  <2>2. DOMAIN rest = 1..(k - 1)
    BY <2>1
  <2>3. \A i \in 1..(k - 1) : rest[i] = old[i + 1]
    BY <1>1, <2>1
  <2> QED BY <2>1, <2>2, <2>3
<1> HIDE DEF old, x, rest, k
<1>8. /\ runs' \in Seq(Run) /\ Len(runs) \in Nat /\ Len(runs') = Len(runs) + 1
      /\ DOMAIN runs = 1..Len(runs) /\ DOMAIN runs' = 1..(Len(runs) + 1)
      /\ \A n \in 1..Len(runs) : runs'[n] = runs[n]
      /\ runs'[Len(runs) + 1] = x
  <2> HIDE DEF Run
  <2>1. /\ runs' \in Seq(Run) /\ Len(runs) \in Nat /\ Len(runs') = Len(runs) + 1
        /\ DOMAIN runs = 1..Len(runs)
        /\ \A n \in 1..Len(runs) : runs'[n] = runs[n]
        /\ runs'[Len(runs) + 1] = x
    BY <1>1, <1>7
  <2>2. DOMAIN runs' = 1..Len(runs')
    BY <2>1
  <2>3. DOMAIN runs' = 1..(Len(runs) + 1)
    BY <2>1, <2>2
  <2> QED BY <2>1, <2>3
<1>9. IsPlanned(x, e) /\ x.attempt = First(e) + 1 - 1
  BY <1>4, <1>7
<1>10. First(e) \in DOMAIN Plan[e] /\ x.attempt = First(e) /\ First(e) \in Int
  BY <1>2, <1>5, <1>7, <1>9 DEF IsPlanned
<1>11. \A i \in 1..(k - 1) :
          IsPlanned(rest[i], e) /\ rest[i].attempt = (First(e) + 1) + i - 1
  <2> SUFFICES ASSUME NEW i \in 1..(k - 1)
               PROVE  IsPlanned(rest[i], e) /\ rest[i].attempt = (First(e) + 1) + i - 1
    OBVIOUS
  <2>1. i + 1 \in DOMAIN old /\ rest[i] = old[i + 1] /\ i \in Int
    BY <1>7
  <2>2. IsPlanned(rest[i], e) /\ rest[i].attempt = First(e) + (i + 1) - 1
    BY <1>4, <2>1
  <2> QED BY <1>10, <2>1, <2>2
<1>12. /\ pc'[e] \in Live \cup {"done"}
       /\ pc'[e] = "done" <=> First(e) = Len(Plan[e])
       /\ pc'[e] \in Live => First(e)' = First(e) + 1
  <2>1. CASE rest # << >>
    <3>1. pc'[e] = "lookup" /\ next'[e] = next[e]
      BY <1>1, <2>1 DEF Proceed, Goto, TypeOK
    <3>2. k - 1 >= 1
      BY <1>7, <2>1
    <3>3. First(e)' = next'[e] + 1 - Len(pending'[e])
      <4>1. next'[e] \in Int /\ Len(pending'[e]) \in Int
        BY <1>2, <1>6, <1>7, <3>1
      <4> QED BY <3>1, <4>1, FirstIs DEF First
    <3>4. First(e)' = next[e] + 1 - (k - 1)
      BY <1>6, <1>7, <3>1, <3>3
    <3> QED BY <1>2, <1>5, <1>7, <3>1, <3>2, <3>4 DEF Live
  <2>2. CASE rest = << >>
    <3>1. k = 1 /\ First(e) = next[e]
      BY <1>2, <1>5, <1>7, <2>2
    <3>2. CASE next[e] = Len(Plan[e])
      <4>1. pc'[e] = "done"
        BY <1>1, <2>2, <3>2 DEF Proceed, Goto, TypeOK
      <4> QED BY <3>1, <3>2, <4>1 DEF Live
    <3>3. CASE next[e] # Len(Plan[e])
      <4>1. next'[e] = next[e] + 1 /\ pc'[e] \in {"open", "execute"}
        BY <1>1, <2>2, <3>3 DEF Proceed, Goto, TypeOK
      <4>2. First(e)' = next'[e] - Len(pending'[e])
        BY <4>1 DEF First
      <4>3. First(e)' = (next[e] + 1) - 0
        BY <1>6, <1>7, <3>1, <4>1, <4>2
      <4> QED BY <1>2, <3>1, <3>3, <4>1, <4>3 DEF Live
    <3> QED BY <3>2, <3>3
  <2> QED BY <2>1, <2>2
<1> QED BY <1>3, <1>6, <1>6a, <1>7, <1>8, <1>9, <1>10, <1>11, <1>12

\* So the log stays one when an attempt is saved.
LEMMA LogInsert ==
    ASSUME TypeOK, HistoryCore, LogCore, NEW e \in Processes, Insert(e)
    PROVE  LogCore'
<1> DEFINE last == Len(runs) + 1
<1>1. /\ Len(runs) \in Nat
      /\ DOMAIN runs = 1..Len(runs) /\ DOMAIN runs' = 1..last
      /\ \A n \in 1..Len(runs) : runs'[n] = runs[n]
      /\ IsPlanned(runs'[last], e)
      /\ runs'[last].attempt = First(e)
      /\ runs'[last].by = e
      /\ pc[e] \in Live
      /\ First(e) \in DOMAIN Plan[e]
  BY InsertAppends DEF IsPlanned
<1>2. \A n \in DOMAIN runs' : n \in DOMAIN runs \/ n = last
  BY <1>1
<1>3. last \in DOMAIN runs' /\ \A n \in DOMAIN runs : n \in DOMAIN runs' /\ runs'[n] = runs[n]
  BY <1>1
<1> HIDE DEF last
<1>4. \A n \in DOMAIN runs' : IsPlanned(runs'[n], runs'[n].by)
  BY <1>1, <1>2, <1>3 DEF LogCore
<1>5. ASSUME NEW f \in Processes, pc'[f] \in Live
      PROVE  /\ \A i \in DOMAIN pending'[f] :
                   IsPlanned(pending'[f][i], f) /\ pending'[f][i].attempt = First(f)' + i - 1
             /\ First(f)' >= 1
             /\ \A m \in DOMAIN Plan[f] :
                   (\E n \in DOMAIN runs' : runs'[n].by = f /\ runs'[n].attempt = m)
                      <=> m < First(f)'
  <2>1. CASE f # e
    <3>1. First(f)' = First(f) /\ pending'[f] = pending[f] /\ pc[f] \in Live
      <4>1. pc'[f] = pc[f] /\ next'[f] = next[f] /\ pending'[f] = pending[f]
        BY <2>1, InsertAppends
      <4> QED BY <1>5, <4>1 DEF First
    <3>2. ASSUME NEW m
          PROVE  (\E n \in DOMAIN runs' : runs'[n].by = f /\ runs'[n].attempt = m)
                    <=> (\E n \in DOMAIN runs : runs[n].by = f /\ runs[n].attempt = m)
      BY <1>1, <1>2, <1>3, <2>1
    <3>3. /\ \A i \in DOMAIN pending[f] :
                IsPlanned(pending[f][i], f) /\ pending[f][i].attempt = First(f) + i - 1
          /\ First(f) >= 1
          /\ \A m \in DOMAIN Plan[f] :
                (\E n \in DOMAIN runs : runs[n].by = f /\ runs[n].attempt = m) <=> m < First(f)
      BY <3>1 DEF LogCore
    <3> QED BY <3>1, <3>2, <3>3
  <2>2. CASE f = e
    <3>1. /\ First(e)' = First(e) + 1
          /\ \A i \in DOMAIN pending'[e] :
                IsPlanned(pending'[e][i], e) /\ pending'[e][i].attempt = First(e)' + i - 1
      BY <1>5, <2>2, InsertAppends
    <3>2. DOMAIN Plan[e] = 1..Len(Plan[e]) /\ Len(Plan[e]) \in Nat
      BY CurrentType, RunHistoryAssumption
    <3>3. First(e) \in Nat /\ First(e) >= 1
      BY <1>1, <3>2
    <3>4. ASSUME NEW m \in DOMAIN Plan[e]
          PROVE  (\E n \in DOMAIN runs' : runs'[n].by = e /\ runs'[n].attempt = m)
                    <=> m < First(e) + 1
      <4>1. (\E n \in DOMAIN runs : runs[n].by = e /\ runs[n].attempt = m) <=> m < First(e)
        BY <1>1, <3>4 DEF LogCore
      <4>2. (\E n \in DOMAIN runs' : runs'[n].by = e /\ runs'[n].attempt = m)
               <=> \/ \E n \in DOMAIN runs : runs[n].by = e /\ runs[n].attempt = m
                   \/ m = First(e)
        BY <1>1, <1>2, <1>3
      <4>3. m < First(e) + 1 <=> m < First(e) \/ m = First(e)
        BY <3>2, <3>3, <3>4
      <4> QED BY <4>1, <4>2, <4>3
    <3> QED BY <2>2, <3>1, <3>3, <3>4
  <2> QED BY <2>1, <2>2
<1>6. ASSUME NEW f \in Processes, Kind[f] = "campaign", pc'[f] \in Live \ {"register", "enter"}
      PROVE  campaigns'[CampaignId[f]] # None
  <2>1. pc[f] \in Live \ {"register", "enter"}
    <3>1. pc[e] = "insert" /\ "insert" \in Live
      BY DEF Insert, Live
    <3>2. f # e => pc'[f] = pc[f]
      BY InsertAppends
    <3> QED BY <1>6, <3>1, <3>2
  <2> QED BY <1>6, <2>1 DEF LogCore, Insert
<1>7. ASSUME NEW f \in Processes, pc'[f] \in {"register", "enter"} PROVE Kind[f] = "campaign"
  <2>1. f # e
    <3>1. pc'[e] \notin {"register", "enter"}
      BY DEF Insert, Proceed, Goto, TypeOK
    <3> QED BY <1>7, <3>1
  <2>2. pc[f] = pc'[f]
    BY <2>1, InsertAppends
  <2> QED BY <1>7, <2>2 DEF LogCore
<1> QED BY <1>4, <1>5, <1>6, <1>7 DEF LogCore

-----------------------------------------------------------------------------
(* The evidence: where the references of a process come from *)

\* A reference that is not a stored one is the objective of one of the results compared.
LEMMA ReferenceIsHeld ==
    ASSUME TypeOK, NEW e \in Processes, NEW results \in Seq(Run),
           \A i \in DOMAIN results : Honest(results[i]) /\ results[i].problem = Current(e),
           Reference(e, results)[2] \in {"exact_optimum", "best_observed_not_proven_optimal"}
    PROVE  \E i \in DOMAIN results :
              /\ results[i].objective = Reference(e, results)[1]
              /\ Reference(e, results)[2] = "exact_optimum" => IsExact(results[i])
<1> DEFINE p        == Current(e)
           exact    == {results[i].objective : i \in {j \in DOMAIN results : IsExact(results[j])}}
           observed == {results[i].objective : i \in {j \in DOMAIN results : Feasible(results[j])}}
<1>1. p \in Problems
  BY CurrentType
<1>2. exact \subseteq Objectives[p] /\ observed \subseteq Objectives[p]
  BY DEF Honest, IsExact
<1>3. ASSUME NEW values \in SUBSET Objectives[p], values # {} PROVE Best(p, values) \in values
  <2>1. \E x \in values : \A y \in values : ~Better(p, y, x)
    BY <1>1, <1>3, RunHistoryAssumption
  <2> QED BY <2>1 DEF Best
<1>4. /\ \A x \in exact : \E i \in DOMAIN results : results[i].objective = x /\ IsExact(results[i])
      /\ \A x \in observed : \E i \in DOMAIN results : results[i].objective = x
  OBVIOUS
<1>5. Reference(e, results) =
        CASE exact # {} -> <<Best(p, exact), "exact_optimum">>
          [] exact = {} /\ ExactObjective(p) # None -> <<ExactObjective(p), "stored_exact_optimum">>
          [] exact = {} /\ ExactObjective(p) = None /\ Kind[e] = "benchmark" /\ observed # {} ->
                <<Best(p, observed), "best_observed_not_proven_optimal">>
          [] OTHER -> <<None, "none">>
  BY DEF Reference
<1> HIDE DEF p, exact, observed
<1>6. CASE exact # {}
  <2>1. Reference(e, results) = <<Best(p, exact), "exact_optimum">>
    BY <1>5, <1>6
  <2>2. Best(p, exact) \in exact
    BY <1>2, <1>3, <1>6
  <2> QED BY <1>4, <2>1, <2>2
<1>7. CASE exact = {} /\ ExactObjective(p) # None
  BY <1>5, <1>7
<1>8. CASE exact = {} /\ ExactObjective(p) = None /\ Kind[e] = "benchmark" /\ observed # {}
  <2>1. Reference(e, results) = <<Best(p, observed), "best_observed_not_proven_optimal">>
    BY <1>5, <1>8
  <2>2. Best(p, observed) \in observed
    BY <1>2, <1>3, <1>8
  <2> QED BY <1>4, <2>1, <2>2
<1>9. CASE exact = {} /\ ExactObjective(p) = None /\ ~(Kind[e] = "benchmark" /\ observed # {})
  BY <1>5, <1>9
<1> QED BY <1>6, <1>7, <1>8, <1>9

\* A step of one process, which saves runs of its own only, is a matter of that process.
LEMMA EvidenceMoves ==
    ASSUME EvidenceCore, NEW e \in Processes,
           \A f \in Processes \ {e} : pc'[f] = pc[f] /\ pending'[f] = pending[f],
           \A n \in DOMAIN runs : n \in DOMAIN runs' /\ runs'[n] = runs[n],
           \A n \in DOMAIN runs' : n \in DOMAIN runs \/ runs'[n].by = e,
           pc'[e] \in Live \cup {"done"} =>
              \A n \in DOMAIN runs' :
                 runs'[n].by = e => Supported(runs'[n], e, runs', pending'[e]),
           pc'[e] \in Live =>
              \A i \in DOMAIN pending'[e] : Supported(pending'[e][i], e, runs', pending'[e]),
           pc'[e] = "done" => pending'[e] = << >>
    PROVE  EvidenceCore'
<1>1. ASSUME NEW f \in Processes \ {e}, NEW r, Supported(r, f, runs, pending[f])
      PROVE  Supported(r, f, runs', pending'[f])
  BY <1>1 DEF Supported
<1>2. ASSUME NEW f \in Processes \ {e}
      PROVE  /\ pc'[f] \in Live \cup {"done"} =>
                   \A n \in DOMAIN runs' :
                      runs'[n].by = f => Supported(runs'[n], f, runs', pending'[f])
             /\ pc'[f] \in Live =>
                   \A i \in DOMAIN pending'[f] :
                      Supported(pending'[f][i], f, runs', pending'[f])
             /\ pc'[f] = "done" => pending'[f] = << >>
  <2>1. pc'[f] = pc[f] /\ pending'[f] = pending[f]
    OBVIOUS
  <2>2. \A n \in DOMAIN runs' : runs'[n].by = f => n \in DOMAIN runs /\ runs'[n] = runs[n]
    OBVIOUS
  <2> QED BY <1>1, <2>1, <2>2 DEF EvidenceCore
<1> QED BY <1>2 DEF EvidenceCore

\* A step that saves nothing and leaves the results in hand alone.
LEMMA EvidenceStays ==
    ASSUME TypeOK, EvidenceCore, NEW e \in Processes, NEW step, pc' = [pc EXCEPT ![e] = step],
           UNCHANGED <<runs, pending>>,
           step # "done", step \in Live => pc[e] \in Live
    PROVE  EvidenceCore'
  BY DEF EvidenceCore, Supported, TypeOK

\* A result that has not been compared claims nothing.
LEMMA EvidenceExecute ==
    ASSUME TypeOK, EvidenceCore, NEW e \in Processes, Execute(e)
    PROVE  EvidenceCore'
<1>1. PICK outcome \in Outcomes(Current(e), Plan[e][next[e]].solver) :
         pending' = [pending EXCEPT ![e] = Append(@, Result(e, outcome))]
  BY DEF Execute
<1> DEFINE x == Result(e, outcome)
<1>2. x \in Run /\ ~Claims(x)
  BY <1>1, ResultType DEF Claims
<1>3. /\ pc[e] = "execute" /\ pc[e] \in Live /\ pc'[e] # "done" /\ runs' = runs
      /\ \A f \in Processes \ {e} : pc'[f] = pc[f] /\ pending'[f] = pending[f]
      /\ pending'[e] = Append(pending[e], x) /\ pending[e] \in Seq(Run)
  BY <1>1 DEF Execute, Goto, TypeOK, Live
<1> HIDE DEF x
<1>4. /\ \A i \in DOMAIN pending[e] : i \in DOMAIN pending'[e] /\ pending'[e][i] = pending[e][i]
      /\ \A i \in DOMAIN pending'[e] : i \in DOMAIN pending[e] \/ pending'[e][i] = x
  <2> HIDE DEF Run
  <2>1. /\ DOMAIN pending[e] = 1..Len(pending[e]) /\ Len(pending[e]) \in Nat
        /\ DOMAIN pending'[e] = 1..(Len(pending[e]) + 1)
        /\ \A i \in 1..Len(pending[e]) : pending'[e][i] = pending[e][i]
        /\ pending'[e][Len(pending[e]) + 1] = x
    BY <1>2, <1>3
  <2> QED BY <2>1
<1>5. ASSUME NEW r, Supported(r, e, runs, pending[e])
      PROVE  Supported(r, e, runs', pending'[e])
  BY <1>3, <1>4, <1>5 DEF Supported
<1>6. ASSUME NEW n \in DOMAIN runs, runs[n].by = e
      PROVE  Supported(runs'[n], e, runs', pending'[e])
  BY <1>3, <1>5, <1>6 DEF EvidenceCore
<1>7. ASSUME NEW i \in DOMAIN pending'[e]
      PROVE  Supported(pending'[e][i], e, runs', pending'[e])
  <2>1. CASE pending'[e][i] = x
    BY <1>2, <2>1 DEF Supported, Claims
  <2>2. CASE i \in DOMAIN pending[e]
    <3>1. Supported(pending[e][i], e, runs, pending[e]) /\ pending'[e][i] = pending[e][i]
      BY <1>3, <1>4, <2>2 DEF EvidenceCore
    <3> QED BY <1>5, <3>1
  <2> QED BY <1>4, <2>1, <2>2
<1> QED BY <1>3, <1>6, <1>7, EvidenceMoves

\* Comparing takes the reference from the results in hand, all of which stay in hand.
LEMMA EvidenceCompare ==
    ASSUME TypeOK, HistoryCore, EvidenceCore, NEW e \in Processes, Compare(e)
    PROVE  EvidenceCore'
<1> DEFINE old       == pending[e]
           reference == Reference(e, old)[1]
           source    == Reference(e, old)[2]
<1>1. /\ pc[e] = "compare" /\ pc[e] \in Live /\ old \in Seq(Run) /\ runs' = runs
      /\ pc'[e] # "done"
      /\ \A f \in Processes \ {e} : pc'[f] = pc[f] /\ pending'[f] = pending[f]
      /\ pending'[e] = [i \in DOMAIN old |-> Compared(old[i], reference, source)]
  BY DEF Compare, Goto, TypeOK, Live
<1>2. \A i \in DOMAIN old : Honest(old[i]) /\ old[i].problem = Current(e) /\ old[i] \in Run
  <2>1. \A i \in DOMAIN old : old[i] \in Run
    BY <1>1
  <2> QED BY <1>1, <2>1 DEF HistoryCore
<1>3. source \in {"exact_optimum", "best_observed_not_proven_optimal"} =>
         \E i \in DOMAIN old : /\ old[i].objective = reference
                               /\ source = "exact_optimum" => IsExact(old[i])
  BY <1>1, <1>2, ReferenceIsHeld
<1> HIDE DEF old, reference, source
<1>4. ASSUME NEW i \in DOMAIN old
      PROVE  /\ i \in DOMAIN pending'[e]
             /\ pending'[e][i].objective = old[i].objective
             /\ IsExact(pending'[e][i]) <=> IsExact(old[i])
             /\ pending'[e][i].reference = reference /\ pending'[e][i].source = source
  <2>1. pending'[e][i] = Compared(old[i], reference, source) /\ old[i] \in Run
    BY <1>1, <1>2, <1>4
  <2>2. /\ pending'[e][i].objective = old[i].objective /\ pending'[e][i].status = old[i].status
        /\ pending'[e][i].solver = old[i].solver
        /\ pending'[e][i].reference = reference /\ pending'[e][i].source = source
    BY <2>1 DEF Compared, Run
  <2>3. i \in DOMAIN pending'[e]
    BY <1>1, <1>4
  <2> QED BY <2>2, <2>3 DEF IsExact, Feasible
<1>5. ASSUME NEW n \in DOMAIN runs, runs[n].by = e
      PROVE  Supported(runs'[n], e, runs', pending'[e])
  <2> DEFINE r == runs[n]
  <2>1. Supported(r, e, runs, pending[e])
    BY <1>1, <1>5 DEF EvidenceCore
  <2>2. \A i \in DOMAIN old : Supports(old[i], r) => Supports(pending'[e][i], r)
    BY <1>4 DEF Supports
  <2>3. Supported(r, e, runs', pending'[e])
    BY <1>1, <1>4, <2>1, <2>2 DEF Supported, Supports, old
  <2> QED BY <1>1, <2>3
<1>6. ASSUME NEW i \in DOMAIN pending'[e]
      PROVE  Supported(pending'[e][i], e, runs', pending'[e])
  <2>1. i \in DOMAIN old
    BY <1>1, <1>6
  <2>2. pending'[e][i].reference = reference /\ pending'[e][i].source = source
    BY <1>4, <2>1
  <2> SUFFICES ASSUME Claims(pending'[e][i])
               PROVE  \E j \in DOMAIN pending'[e] : Supports(pending'[e][j], pending'[e][i])
    BY DEF Supported
  <2>3. PICK j \in DOMAIN old : /\ old[j].objective = reference
                                /\ source = "exact_optimum" => IsExact(old[j])
    BY <1>3, <2>2 DEF Claims
  <2> QED BY <1>4, <2>2, <2>3 DEF Supports
<1> QED BY <1>1, <1>5, <1>6, EvidenceMoves

\* Saving moves the first result in hand to the runs, where it supports the same claims.
LEMMA EvidenceInsert ==
    ASSUME TypeOK, HistoryCore, LogCore, EvidenceCore, NEW e \in Processes, Insert(e)
    PROVE  EvidenceCore'
<1> DEFINE last == Len(runs) + 1
           old  == pending[e]
<1>1. /\ Len(runs) \in Nat
      /\ DOMAIN runs = 1..Len(runs) /\ DOMAIN runs' = 1..last
      /\ \A n \in 1..Len(runs) : runs'[n] = runs[n]
      /\ runs'[last].by = e
      /\ pc[e] \in Live
      /\ \A f \in Processes \ {e} : pc'[f] = pc[f] /\ pending'[f] = pending[f]
  BY InsertAppends DEF IsPlanned
<1>2. /\ pc[e] = "insert" /\ old \in Seq(Run) /\ old # << >>
      /\ runs \in Seq(Run) /\ runs' = Append(runs, Head(old))
      /\ pending'[e] = Tail(old)
      /\ pc'[e] = "done" => Tail(old) = << >>
  BY DEF Insert, Proceed, Goto, TypeOK, HistoryCore
<1> HIDE DEF old
<1>3. /\ Head(old) = old[1] /\ 1 \in DOMAIN old /\ runs'[last] = old[1]
      /\ \A i \in DOMAIN Tail(old) : i + 1 \in DOMAIN old /\ Tail(old)[i] = old[i + 1]
      /\ \A i \in DOMAIN old : i = 1 \/ (i - 1 \in DOMAIN Tail(old) /\ Tail(old)[i - 1] = old[i])
  <2> HIDE DEF Run
  <2>1. /\ Head(old) \in Run /\ Head(old) = old[1] /\ Len(old) \in Nat /\ Len(old) > 0
        /\ DOMAIN old = 1..Len(old)
        /\ Tail(old) \in Seq(Run) /\ Len(Tail(old)) = Len(old) - 1
    BY <1>2
  <2>2. DOMAIN Tail(old) = 1..(Len(old) - 1)
    BY <2>1
  <2>3. \A i \in 1..(Len(old) - 1) : Tail(old)[i] = old[i + 1]
    BY <1>2, <2>1
  <2>4. runs'[last] = old[1]
    BY <1>2, <2>1
  <2>5. ASSUME NEW i \in 1..Len(old), i # 1
        PROVE  i - 1 \in 1..(Len(old) - 1) /\ Tail(old)[i - 1] = old[i]
    <3>1. i - 1 \in 1..(Len(old) - 1) /\ (i - 1) + 1 = i
      BY <2>1, <2>5
    <3> QED BY <2>3, <3>1
  <2> QED BY <2>1, <2>2, <2>3, <2>4, <2>5
<1>4. /\ \A n \in DOMAIN runs' : n \in DOMAIN runs \/ n = last
      /\ last \in DOMAIN runs' /\ \A n \in DOMAIN runs : n \in DOMAIN runs' /\ runs'[n] = runs[n]
  BY <1>1
<1> HIDE DEF last
\* What was supported is supported.
<1>5. ASSUME NEW r, Claims(r),
             \/ \E m \in DOMAIN runs : runs[m].by = e /\ Supports(runs[m], r)
             \/ \E i \in DOMAIN old : Supports(old[i], r)
      PROVE  \/ \E m \in DOMAIN runs' : runs'[m].by = e /\ Supports(runs'[m], r)
             \/ \E i \in DOMAIN pending'[e] : Supports(pending'[e][i], r)
  <2>1. CASE \E m \in DOMAIN runs : runs[m].by = e /\ Supports(runs[m], r)
    <3>1. PICK m \in DOMAIN runs : runs[m].by = e /\ Supports(runs[m], r)
      BY <2>1
    <3>2. m \in DOMAIN runs' /\ runs'[m] = runs[m]
      BY <1>4
    <3> QED BY <3>1, <3>2
  <2>2. CASE \E i \in DOMAIN old : Supports(old[i], r)
    <3>1. PICK i \in DOMAIN old : Supports(old[i], r)
      BY <2>2
    <3>2. CASE i = 1
      <4>1. last \in DOMAIN runs' /\ runs'[last].by = e /\ runs'[last] = old[i]
        BY <1>1, <1>3, <1>4, <3>2
      <4> QED BY <3>1, <4>1
    <3>3. CASE i # 1
      <4>1. i - 1 \in DOMAIN pending'[e] /\ pending'[e][i - 1] = old[i]
        BY <1>2, <1>3, <3>3
      <4> QED BY <3>1, <4>1
    <3> QED BY <3>2, <3>3
  <2> QED BY <1>5, <2>1, <2>2
<1>6. ASSUME NEW n \in DOMAIN runs', runs'[n].by = e
      PROVE  Supported(runs'[n], e, runs', pending'[e])
  <2> DEFINE r == runs'[n]
  <2>1. \/ ~Claims(r)
        \/ \E m \in DOMAIN runs : runs[m].by = e /\ Supports(runs[m], r)
        \/ \E i \in DOMAIN old : Supports(old[i], r)
    <3>1. CASE n \in DOMAIN runs
      <4>1. Supported(runs[n], e, runs, pending[e]) /\ r = runs[n]
        BY <1>1, <1>4, <1>6, <3>1 DEF EvidenceCore
      <4> QED BY <4>1 DEF Supported, old
    <3>2. CASE n = last
      <4>1. Supported(old[1], e, runs, pending[e]) /\ r = old[1]
        BY <1>1, <1>3, <3>2 DEF EvidenceCore, old
      <4> QED BY <4>1 DEF Supported, old
    <3> QED BY <1>4, <3>1, <3>2
  <2> HIDE DEF r
  <2>2. \/ ~Claims(r)
        \/ \E m \in DOMAIN runs' : runs'[m].by = e /\ Supports(runs'[m], r)
        \/ \E i \in DOMAIN pending'[e] : Supports(pending'[e][i], r)
    BY <1>5, <2>1
  <2> QED BY <2>2 DEF Supported, r
<1>7. ASSUME NEW i \in DOMAIN pending'[e]
      PROVE  Supported(pending'[e][i], e, runs', pending'[e])
  <2> DEFINE r == pending'[e][i]
  <2>1. i + 1 \in DOMAIN old /\ r = old[i + 1]
    BY <1>2, <1>3, <1>7
  <2>2. Supported(old[i + 1], e, runs, pending[e])
    BY <1>1, <2>1 DEF EvidenceCore, old
  <2>3. \/ ~Claims(r)
        \/ \E m \in DOMAIN runs : runs[m].by = e /\ Supports(runs[m], r)
        \/ \E j \in DOMAIN old : Supports(old[j], r)
    BY <2>1, <2>2 DEF Supported, old
  <2> HIDE DEF r
  <2>4. \/ ~Claims(r)
        \/ \E m \in DOMAIN runs' : runs'[m].by = e /\ Supports(runs'[m], r)
        \/ \E j \in DOMAIN pending'[e] : Supports(pending'[e][j], r)
    BY <1>5, <2>3
  <2> QED BY <2>4 DEF Supported, r
<1>8. \A n \in DOMAIN runs' : n \in DOMAIN runs \/ runs'[n].by = e
  BY <1>1, <1>4
<1>9. pc'[e] = "done" => pending'[e] = << >>
  BY <1>2
<1> QED BY <1>1, <1>4, <1>6, <1>7, <1>8, <1>9, EvidenceMoves

\* The runs are a log of the plans at every moment.
THEOREM LogCorrect == Spec => []LogCore
<1>1. Init => LogCore
  <2> SUFFICES ASSUME Init PROVE LogCore
    OBVIOUS
  <2>1. ASSUME NEW e \in Processes PROVE First(e) = 1 /\ pending[e] = << >>
    <3>1. next[e] = 1 /\ pending[e] = << >> /\ pc[e] \in {"register", "execute"}
      BY DEF Init
    <3> QED BY <3>1 DEF First
  <2>2. \A e \in Processes : DOMAIN Plan[e] = 1..Len(Plan[e]) /\ \A m \in DOMAIN Plan[e] : ~(m < 1)
    BY RunHistoryAssumption
  <2>3. DOMAIN runs = {}
    BY DEF Init
  <2>4. \A e \in Processes : pc[e] = IF Kind[e] = "campaign" THEN "register" ELSE "execute"
    BY DEF Init
  <2> QED BY <2>1, <2>2, <2>3, <2>4 DEF LogCore
<1>2. TypeOK /\ HistoryCore /\ LogCore /\ [Next]_vars => LogCore'
  <2> SUFFICES ASSUME TypeOK, HistoryCore, LogCore, [Next]_vars PROVE LogCore'
    OBVIOUS
  <2>1. CASE UNCHANGED vars
    BY <2>1 DEF vars, LogCore, First
  <2>2. ASSUME NEW e \in Processes, Opening(e) PROVE LogCore'
    <3>1. PICK step \in {"enter", "open", "create", "truncate", "flush", "execute",
                         "refused", "rejected"} :
             /\ Goto(e, step)
             /\ step \in {"open", "create", "truncate", "flush", "execute"}
                   => \/ pc[e] \in {"open", "create", "truncate", "flush"}
                      \/ Kind[e] = "campaign" => campaigns'[CampaignId[e]] # None
             /\ step = "enter" => pc[e] = "register"
      BY <2>2, OpeningSteps
    <3>2. /\ pc[e] \in {"register", "enter", "open", "create", "truncate", "flush"}
          /\ UNCHANGED <<runs, next, pending>>
          /\ \A id \in Campaigns : campaigns[id] # None => campaigns'[id] = campaigns[id]
      BY <2>2, OpeningSteps
    <3>3. pc' = [pc EXCEPT ![e] = step] /\ pc[e] \in Live
      BY <3>1, <3>2 DEF Goto, Live
    <3>4. Kind[e] = "campaign" /\ step \in Live \ {"register", "enter"}
             => campaigns'[CampaignId[e]] # None
      <4> SUFFICES ASSUME Kind[e] = "campaign", step \in Live \ {"register", "enter"}
                   PROVE  campaigns'[CampaignId[e]] # None
        OBVIOUS
      <4>1. step \in {"open", "create", "truncate", "flush", "execute"}
        BY <3>1 DEF Live
      <4>2. CASE pc[e] \in {"open", "create", "truncate", "flush"}
        <5>1. campaigns[CampaignId[e]] # None /\ CampaignId[e] \in Campaigns
          BY <4>2 DEF LogCore, Live, Campaigns
        <5> QED BY <3>2, <5>1
      <4> QED BY <3>1, <4>1, <4>2
    <3> QED BY <3>1, <3>2, <3>3, <3>4, LogStays
  <2>3. ASSUME NEW e \in Processes, Execute(e) PROVE LogCore'
    BY <2>3, LogExecute
  <2>4. ASSUME NEW e \in Processes, Compare(e) PROVE LogCore'
    BY <2>4, LogCompare
  <2>5. ASSUME NEW e \in Processes, LookUp(e) PROVE LogCore'
    <3>1. pc[e] = "lookup" /\ pc' = [pc EXCEPT ![e] = "insert"] /\ UNCHANGED <<runs, next, pending>>
      BY <2>5 DEF LookUp, Goto
    <3>2. pc[e] \in Live
      BY <3>1 DEF Live
    <3>3. campaigns' = campaigns /\ (Kind[e] = "campaign" => campaigns[CampaignId[e]] # None)
      BY <2>5, <3>1, <3>2 DEF LookUp, LogCore
    <3> QED BY <3>1, <3>2, <3>3, LogStays
  <2>6. ASSUME NEW e \in Processes, Insert(e) PROVE LogCore'
    BY <2>6, LogInsert
  <2>7. ASSUME NEW e \in Processes, InsertConflict(e) \/ Stop(e) PROVE LogCore'
    <3>1. PICK step \in {"rejected", "stopped"} : pc' = [pc EXCEPT ![e] = step]
      BY <2>7 DEF InsertConflict, Stop, Goto
    <3>2. UNCHANGED <<campaigns, runs, next, pending>> /\ step \notin Live
      BY <2>7 DEF InsertConflict, Stop, table, Live
    <3> QED BY <3>1, <3>2, LogStays
  <2> QED BY <2>1, <2>2, <2>3, <2>4, <2>5, <2>6, <2>7 DEF Next, Opening
<1> QED BY <1>1, <1>2, HistoryCorrect, PTL DEF Spec

\* Until a process ends well, what its runs claim is saved or in hand.
THEOREM EvidenceCorrect == Spec => []EvidenceCore
<1>1. Init => EvidenceCore
  <2> SUFFICES ASSUME Init PROVE EvidenceCore
    OBVIOUS
  <2>1. \A e \in Processes : pending[e] = << >>
    BY DEF Init
  <2>2. DOMAIN runs = {}
    BY DEF Init
  <2>3. \A e \in Processes : DOMAIN pending[e] = {}
    BY <2>1
  <2> QED BY <2>1, <2>2, <2>3 DEF EvidenceCore
<1>2. TypeOK /\ HistoryCore /\ LogCore /\ EvidenceCore /\ [Next]_vars => EvidenceCore'
  <2> SUFFICES ASSUME TypeOK, HistoryCore, LogCore, EvidenceCore, [Next]_vars
               PROVE  EvidenceCore'
    OBVIOUS
  <2>1. CASE UNCHANGED vars
    BY <2>1 DEF vars, EvidenceCore, Supported
  <2>2. ASSUME NEW e \in Processes, Opening(e) PROVE EvidenceCore'
    <3>1. PICK step \in {"enter", "open", "create", "truncate", "flush", "execute",
                         "refused", "rejected"} : Goto(e, step)
      BY <2>2, OpeningSteps
    <3>2. /\ pc[e] \in {"register", "enter", "open", "create", "truncate", "flush"}
          /\ UNCHANGED <<runs, pending>>
      BY <2>2, OpeningSteps
    <3>3. pc' = [pc EXCEPT ![e] = step] /\ pc[e] \in Live
      BY <3>1, <3>2 DEF Goto, Live
    <3> QED BY <3>2, <3>3, EvidenceStays
  <2>3. ASSUME NEW e \in Processes, Execute(e) PROVE EvidenceCore'
    BY <2>3, EvidenceExecute
  <2>4. ASSUME NEW e \in Processes, Compare(e) PROVE EvidenceCore'
    BY <2>4, EvidenceCompare
  <2>5. ASSUME NEW e \in Processes, LookUp(e) PROVE EvidenceCore'
    <3>1. pc[e] = "lookup" /\ pc' = [pc EXCEPT ![e] = "insert"] /\ UNCHANGED <<runs, pending>>
      BY <2>5 DEF LookUp, Goto
    <3>2. pc[e] \in Live
      BY <3>1 DEF Live
    <3> QED BY <3>1, <3>2, EvidenceStays
  <2>6. ASSUME NEW e \in Processes, Insert(e) PROVE EvidenceCore'
    BY <2>6, EvidenceInsert
  <2>7. ASSUME NEW e \in Processes, InsertConflict(e) \/ Stop(e) PROVE EvidenceCore'
    <3>1. PICK step \in {"rejected", "stopped"} : pc' = [pc EXCEPT ![e] = step]
      BY <2>7 DEF InsertConflict, Stop, Goto
    <3>2. UNCHANGED <<runs, pending>> /\ step \notin Live
      BY <2>7 DEF InsertConflict, Stop, table, Live
    <3> QED BY <3>1, <3>2, EvidenceStays
  <2> QED BY <2>1, <2>2, <2>3, <2>4, <2>5, <2>6, <2>7 DEF Next, Opening
<1> QED BY <1>1, <1>2, HistoryCorrect, LogCorrect, PTL DEF Spec

\* The inductive invariant of the run history.
THEOREM HistoryInvariance == Spec => []HistoryInv
<1>1. TypeOK /\ HistoryCore /\ LogCore /\ EvidenceCore => HistoryInv
  BY DEF HistoryInv
<1> QED BY <1>1, HistoryCorrect, LogCorrect, EvidenceCorrect, PTL

\* The run that a process which ended well took a reference from is among its runs.
THEOREM EvidenceIsSaved == Spec => []EvidenceIsComplete
<1>1. HistoryInv => EvidenceIsComplete
  <2> SUFFICES ASSUME HistoryInv, NEW n \in DOMAIN runs, pc[runs[n].by] = "done",
                      runs[n].source \in {"exact_optimum", "best_observed_not_proven_optimal"}
               PROVE  \E m \in DOMAIN runs :
                         /\ runs[m].by = runs[n].by
                         /\ runs[m].objective = runs[n].reference
                         /\ runs[n].source = "exact_optimum" => IsExact(runs[m])
    BY DEF EvidenceIsComplete
  <2> DEFINE e == runs[n].by
  <2>1. e \in Processes
    <3>1. runs \in Seq(Run)
      BY DEF HistoryInv, TypeOK
    <3>2. runs[n] \in Run
      BY <3>1
    <3> QED BY <3>2 DEF Run
  <2>2. Supported(runs[n], e, runs, pending[e]) /\ pending[e] = << >>
    BY <2>1 DEF HistoryInv, EvidenceCore
  <2>3. DOMAIN pending[e] = {}
    BY <2>2
  <2> QED BY <2>2, <2>3 DEF Supported, Claims, Supports
<1> QED BY <1>1, HistoryInvariance, PTL

\* What the processes save is a log of their plans, wherever they interleave and stop.
THEOREM LogImplemented == Spec => ImplementsLog
<1> DEFINE complete == {e \in Processes : pc[e] = "done"}
<1>1. Init => Log!Init
  BY DEF Init, Log!Init
<1>2. HistoryInv /\ [Next]_vars => [Log!Next]_<<runs, campaigns, complete>>
  <2> SUFFICES ASSUME TypeOK, HistoryCore, LogCore, [Next]_vars
               PROVE  Log!Next \/ UNCHANGED <<runs, campaigns, complete>>
    BY DEF HistoryInv
  <2>1. ASSUME NEW e \in Processes, Insert(e) PROVE Log!Record(e)
    <3> DEFINE n == First(e)
    <3>1. /\ Len(runs') = Len(runs) + 1 /\ DOMAIN runs = 1..Len(runs)
          /\ \A i \in DOMAIN runs : runs'[i] = runs[i]
          /\ n \in DOMAIN Plan[e] /\ pc[e] \in Live
          /\ IsPlanned(runs'[Len(runs')], e) /\ runs'[Len(runs')].attempt = n
      BY <2>1, InsertAppends
    <3>2. e \notin complete
      BY <3>1 DEF Live
    <3>3. \A m \in DOMAIN Plan[e] : Log!Recorded(e, m) <=> m < n
      <4>1. \A i \in DOMAIN runs, m \in DOMAIN Plan[e] :
               Log!IsOf(runs[i], e, m) <=> runs[i].by = e /\ runs[i].attempt = m
        BY DEF LogCore, IsPlanned, Log!IsOf
      <4>2. \A m \in DOMAIN Plan[e] :
               (\E i \in DOMAIN runs : runs[i].by = e /\ runs[i].attempt = m) <=> m < n
        BY <3>1 DEF LogCore
      <4> QED BY <4>1, <4>2 DEF Log!Recorded
    <3>4. Log!IsOf(runs'[Len(runs')], e, n)
      BY <3>1 DEF IsPlanned, Log!IsOf
    <3>5. complete' = complete \cup (IF n = Len(Plan[e]) THEN {e} ELSE {})
      <4>1. /\ pc'[e] = "done" <=> n = Len(Plan[e])
            /\ \A f \in Processes \ {e} : pc'[f] = pc[f]
        BY <2>1, InsertAppends
      <4> HIDE DEF n
      <4> QED BY <3>2, <4>1
    <3>6. campaigns' = campaigns /\ (Kind[e] = "campaign" => campaigns[CampaignId[e]] # None)
      BY <2>1, <3>1 DEF Insert, LogCore
    <3> HIDE DEF n
    <3> QED BY <3>1, <3>2, <3>3, <3>4, <3>5, <3>6 DEF Log!Record
  <2>2. ASSUME NEW e \in Processes, Goto(e, "open"), pc[e] = "enter"
        PROVE  complete' = complete
    <3>1. \A f \in Processes : pc'[f] = "done" <=> pc[f] = "done"
      BY <2>2 DEF Goto, TypeOK
    <3> QED BY <3>1
  <2>3. ASSUME NEW e \in Processes, EnterCampaign(e) PROVE Log!Enter(e)
    <3>1. Kind[e] = "campaign"
      BY <2>3 DEF EnterCampaign, LogCore
    <3>2. complete' = complete
      BY <2>2, <2>3 DEF EnterCampaign
    <3> QED BY <2>3, <3>1, <3>2 DEF EnterCampaign, execution, Log!Enter
  <2>4. ASSUME NEW e \in Processes,
               \/ Opening(e) /\ ~EnterCampaign(e)
               \/ Execute(e) \/ Compare(e) \/ LookUp(e) \/ InsertConflict(e) \/ Stop(e)
        PROVE  UNCHANGED <<runs, campaigns, complete>>
    <3>1. runs' = runs /\ campaigns' = campaigns
      BY <2>4 DEF Opening, LookUpCampaign, CampaignConflict, execution,
                  OpenArtifact, CreateArtifact, TruncateArtifact, FlushArtifact,
                  Execute, Compare, LookUp, InsertConflict, Stop, table
    <3>2. \/ pc' = pc
          \/ \E step \in (Live \cup Ended) \ {"done"} : pc' = [pc EXCEPT ![e] = step]
      <4>1. CASE Opening(e)
        BY <4>1, OpeningSteps DEF Goto, Live, Ended
      <4>2. CASE ~Opening(e)
        BY <2>4, <4>2 DEF Execute, Compare, LookUp, InsertConflict, Stop, Goto, Live, Ended
      <4> QED BY <4>1, <4>2
    <3>3. pc[e] # "done"
      <4>1. CASE Opening(e)
        BY <4>1, OpeningSteps
      <4>2. CASE ~Opening(e)
        BY <2>4, <4>2 DEF Execute, Compare, LookUp, InsertConflict, Stop, Live
      <4> QED BY <4>1, <4>2
    <3>4. \A f \in Processes : pc'[f] = "done" <=> pc[f] = "done"
      BY <3>2, <3>3 DEF TypeOK
    <3> QED BY <3>1, <3>4
  <2>5. CASE UNCHANGED vars
    BY <2>5 DEF vars
  <2> QED BY <2>1, <2>3, <2>4, <2>5 DEF Next, Opening, Log!Next
<1> QED BY <1>1, <1>2, HistoryInvariance, PTL DEF Spec, ImplementsLog, Log!Spec

=============================================================================
