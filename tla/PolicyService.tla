--------------------------- MODULE PolicyService ---------------------------
(***************************************************************************)
(* What the policy database promises to the connections it is asked about, *)
(* without lists, trees, files or operators (CfgFactory::policy_match as   *)
(* the proxies use it while policies are being changed).                   *)
(*                                                                         *)
(*   decides   the rule every flow meets now, <<>> for none                *)
(*   intended  the rule it should meet, by the configuration as edited     *)
(*   settled   no change of the policy is in progress                      *)
(***************************************************************************)
CONSTANTS Flows, Rules

VARIABLES decides, intended, settled

Decisions == {<<>>} \cup {<<r>> : r \in Rules}

Init ==
    /\ intended \in [Flows -> Decisions]
    /\ decides = intended
    /\ settled = TRUE

\* The configuration changes, or a change of it takes effect: a flow meets the
\* rule it met, the one it now should meet, or none for the time being, and
\* never a rule that is neither; when changes are through all meet what they
\* should.
Change ==
    /\ intended' \in [Flows -> Decisions]
    /\ settled' \in BOOLEAN
    /\ decides' \in [Flows -> Decisions]
    /\ \A f \in Flows : decides'[f] \in {decides[f], intended'[f], <<>>}
    /\ settled' => decides' = intended'

\* A flow that should meet a rule is not left without for ever.
Served == \A f \in Flows : []<>(intended[f] # <<>> => decides[f] # <<>>)

\* The part of the promise that is about every single step.
Safety == Init /\ [][Change]_<<decides, intended, settled>>

Spec == Safety /\ Served
=============================================================================
