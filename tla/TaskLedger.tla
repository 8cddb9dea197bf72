----------------------------- MODULE TaskLedger -----------------------------
(***************************************************************************)
(* What the web promises about its tasks, whatever process serves it and   *)
(* however often one stops (docs/web-ui.md, "Limits and recovery"):        *)
(*   - one execution at a time per database: the slot;                     *)
(*   - a request is accepted once and, once its task has ended, no further *)
(*     attempt is ever saved for it: nothing resumes or retries it;        *)
(*   - saved attempts are kept.                                            *)
(* Processes, threads, locks, the journal's rows and recovery are absent.  *)
(***************************************************************************)
EXTENDS Naturals

CONSTANTS Requests, Nobody, Quota(_)

VARIABLES
    state,      \* of each request: absent, open or ended
    attempts,   \* how many attempts of each request are saved
    slot        \* the request being executed, or Nobody

ledger == <<state, attempts, slot>>

Init ==
    /\ state = [k \in Requests |-> "absent"]
    /\ attempts = [k \in Requests |-> 0]
    /\ slot = Nobody

Accept(k) ==
    /\ slot = Nobody
    /\ state[k] = "absent"
    /\ state' = [state EXCEPT ![k] = "open"]
    /\ slot' = k
    /\ UNCHANGED attempts

Attempt(k) ==
    /\ slot = k
    /\ state[k] = "open"
    /\ attempts[k] < Quota(k)
    /\ attempts' = [attempts EXCEPT ![k] = @ + 1]
    /\ UNCHANGED <<state, slot>>

\* The work ended, or the process that did it.
Release ==
    /\ slot # Nobody
    /\ slot' = Nobody
    /\ UNCHANGED <<state, attempts>>

\* The end of some tasks is recorded: of one by the thread that worked on it, of
\* all that a stopped process left open by recovery.
End(ended) ==
    /\ \A k \in ended : state[k] = "open" /\ slot # k
    /\ state' = [k \in Requests |-> IF k \in ended THEN "ended" ELSE state[k]]
    /\ UNCHANGED <<attempts, slot>>

Next ==
    \/ \E k \in Requests : Accept(k) \/ Attempt(k)
    \/ Release
    \/ \E ended \in SUBSET Requests : End(ended)

Spec == Init /\ [][Next]_ledger

=============================================================================
