---------------------------- MODULE MCRunHistory ----------------------------
(* Instances of RunHistory for TLC: a campaign over two problems, one          *)
(* maximized and one minimized, its rerun, a benchmark of the first problem    *)
(* and a single exact run of it.  A campaign and its rerun are alike but for   *)
(* who enters the definition, and no definition tells the two apart, so they   *)
(* may be permuted.                                                            *)
EXTENDS RunHistory, TLC

CONSTANTS campaign, rerun, benchmark, single, cut, partition

Planned(p, s) == [problem |-> p, solver |-> s]

MCPlan ==
    [e \in Processes |->
        CASE e \in {campaign, rerun} -> <<Planned(cut, "exact"), Planned(partition, "exact")>>
          [] e = benchmark -> <<Planned(cut, "other"), Planned(cut, "exact")>>
          [] e = single    -> <<Planned(cut, "exact")>>]
MCKind ==
    [e \in Processes |-> CASE e \in {campaign, rerun} -> "campaign"
                           [] e = benchmark -> "benchmark"
                           [] e = single -> "single"]
MCCampaignId == [e \in Processes |-> "fair"]
CampaignSymmetry == Permutations({campaign, rerun})
MCSense == [p \in Problems |-> IF p = cut THEN "maximize" ELSE "minimize"]
MCObjectives == [p \in Problems |-> {1, 2}]
MCOptimum == [p \in Problems |-> IF p = cut THEN 2 ELSE 1]

=============================================================================
