------------------------------ MODULE MCSolvers ------------------------------
(***************************************************************************)
(* One call of a solver, as ExperimentRunner makes it: of a classical one, *)
(* with the run that is recorded of it, or of a QAOA one.  The variables   *)
(* of the kind that is not called stay at rest, as after a refused call.   *)
(***************************************************************************)
EXTENDS MCSearch, QaoaSolver, QaoaCatalogue

VARIABLE kind   \* of the solver that is called

ClassicalRests ==
    /\ instance = CHOOSE i \in Sources : TRUE
    /\ problem = instance.data
    /\ request = CHOOSE r \in Requests : TRUE
    /\ phase = "raised"
    /\ remaining = {} /\ restart = 0 /\ pass = 0
    /\ current = {} /\ tracked = Nothing /\ best = Nothing /\ ends = {}
    /\ result = Unfinished
    /\ record = Nothing

QaoaRests ==
    /\ input = CHOOSE p \in Inputs : TRUE
    /\ call = CHOOSE c \in Calls : TRUE
    /\ stage = "raised"
    /\ warmed = FALSE /\ expectations = <<>> /\ candidate = Unset
    /\ counts = <<>> /\ pending = {}
    /\ feasible = Unset /\ infeasible = Unset /\ judged = NoDraws
    /\ answer = NoAnswer

SolversInit ==
    \/ kind = "classical" /\ RunInit /\ QaoaRests
    \/ kind = "qaoa" /\ QaoaInit /\ ClassicalRests

SolversNext ==
    \/ kind = "classical" /\ RunNext /\ UNCHANGED <<kind, qaoaVars>>
    \/ kind = "qaoa" /\ QaoaNext /\ UNCHANGED <<kind, runVars>>

SolversSpec == SolversInit /\ [][SolversNext]_<<kind, runVars, qaoaVars>>
=============================================================================
