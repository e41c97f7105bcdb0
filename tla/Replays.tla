------------------------------ MODULE Replays -------------------------------
(***************************************************************************)
(* A replay and what is told of it: the answers it gets from a stored run, *)
(* the summary that is made of a run's events, and the comparison of two   *)
(* runs' writes.  Each works on stored runs that no longer change, so the  *)
(* three take no steps of each other and are looked at one at a time.      *)
(***************************************************************************)
EXTENDS ReplayIndex, RunSummary, RunCompare

VARIABLE part   \* what is looked at

ReplaysInit ==
    /\ part \in {"answers", "summary", "comparison"}
    /\ Init /\ (part # "answers" => rec = CHOOSE r \in Recordings : TRUE)
    /\ SummaryInit
    /\ CompareInit

ReplaysNext ==
    \/ part = "answers" /\ Next /\ UNCHANGED <<part, summaryVars, compareVars>>
    \/ part = "summary" /\ SummaryNext /\ UNCHANGED <<part, vars, compareVars>>
    \/ part = "comparison" /\ CompareNext /\ UNCHANGED <<part, vars, summaryVars>>

ReplaysSpec == ReplaysInit /\ [][ReplaysNext]_<<part, vars, summaryVars, compareVars>>

=============================================================================
