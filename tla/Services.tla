------------------------------ MODULE Services ------------------------------
(***************************************************************************)
(* The two services whose faked writes irimi lays over later reads.  A     *)
(* service's state is its own, so they take no steps of each other; one of *)
(* them is looked at at a time.                                            *)
(***************************************************************************)
EXTENDS SlackChannel, StripeRefunds

VARIABLE part   \* the part that is looked at

vars == <<part, slackVars, stripeVars>>

Init ==
    /\ part \in {"slack", "stripe"}
    /\ SlackInit /\ (part # "slack" => fixture)
    /\ StripeInit

Next ==
    \/ part = "slack" /\ SlackNext /\ UNCHANGED <<part, stripeVars>>
    \/ part = "stripe" /\ StripeNext /\ UNCHANGED <<part, slackVars>>

Spec == Init /\ [][Next]_vars

=============================================================================
