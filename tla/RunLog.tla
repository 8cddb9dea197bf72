------------------------------- MODULE RunLog -------------------------------
(***************************************************************************)
(* What the history of runs promises its readers, however many processes   *)
(* save at once and wherever they stop:                                    *)
(*   - it is a log: what is recorded stays as it is, and where it is;      *)
(*   - the attempts of a process are recorded in the order of its plan,    *)
(*     each once, none left out;                                           *)
(*   - a campaign is entered once, before its first run, and stays as it    *)
(*     was entered;                                                        *)
(*   - a process that ends well has recorded its whole plan.               *)
(* Problem files, tables, lookups and results in hand are absent.          *)
(***************************************************************************)
EXTENDS Naturals, Sequences

CONSTANTS Processes, Plan, Kind, CampaignId, Campaigns, None

VARIABLES
    log,       \* the records, whatever they say besides what they are of
    entered,   \* who entered a campaign, or None
    complete   \* the processes that have ended well

IsOf(record, e, n) ==
    /\ record.by = e /\ record.attempt = n
    /\ record.problem = Plan[e][n].problem /\ record.solver = Plan[e][n].solver

Recorded(e, n) == \E i \in DOMAIN log : IsOf(log[i], e, n)

Init == log = << >> /\ entered = [id \in Campaigns |-> None] /\ complete = {}

Enter(e) ==
    /\ Kind[e] = "campaign" /\ entered[CampaignId[e]] = None
    /\ entered' = [entered EXCEPT ![CampaignId[e]] = e]
    /\ UNCHANGED <<log, complete>>

\* One record more, of the first attempt that is not recorded; with the last attempt
\* the process has ended.
Record(e) ==
    /\ Len(log') = Len(log) + 1
    /\ \A i \in DOMAIN log : log'[i] = log[i]
    /\ e \notin complete
    /\ Kind[e] = "campaign" => entered[CampaignId[e]] # None
    /\ \E n \in DOMAIN Plan[e] :
          /\ IsOf(log'[Len(log')], e, n)
          /\ \A m \in DOMAIN Plan[e] : Recorded(e, m) <=> m < n
          /\ complete' = complete \cup (IF n = Len(Plan[e]) THEN {e} ELSE {})
    /\ UNCHANGED entered

Next == \E e \in Processes : Enter(e) \/ Record(e)

Spec == Init /\ [][Next]_<<log, entered, complete>>

=============================================================================
