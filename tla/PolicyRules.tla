---------------------------- MODULE PolicyRules ----------------------------
(***************************************************************************)
(* The policy table as the rest of smithproxy sees it: a list of rules     *)
(* addressed by a 0-based index, matched first-to-last.  Source:           *)
(* service/cfgapi/cfgapi.cpp (policy_match, policy_action, policy_rule)    *)
(* and policy/policy.cpp.                                                  *)
(*                                                                         *)
(* A flow is what a rule looks at (protocol, both address:port pairs); a   *)
(* rule carries the set of flows its address, port and protocol groups     *)
(* accept (PolicyRule::match).                                             *)
(***************************************************************************)
EXTENDS Integers, Sequences

NoPolicy == -1          \* "implicit deny": what policy_match returns at the end

POLICY_ACTION_DENY == 0
POLICY_ACTION_PASS == 1

\* The positions of the rules that match flow f; a disabled rule never does.
Hits(list, f) == {i \in 1..Len(list) : ~list[i].disabled /\ f \in list[i].flows}

\* CfgFactory::policy_match: index of the first matching rule, or -1.
policy_match(list, f) ==
    IF Hits(list, f) = {}
    THEN NoPolicy
    ELSE (CHOOSE i \in Hits(list, f) : \A j \in Hits(list, f) : i <= j) - 1

\* CfgFactory::policy_action: -1 for "no policy", deny beyond the end.
policy_action(list, index) ==
    IF index < 0 THEN -1
    ELSE IF index < Len(list) /\ list[index + 1].pass THEN POLICY_ACTION_PASS
    ELSE POLICY_ACTION_DENY

\* What a flow meets in a list: the rule that decides about it, or none.
Deciding(list, f) ==
    IF policy_match(list, f) = NoPolicy
    THEN <<>>
    ELSE <<list[policy_match(list, f) + 1]>>
=============================================================================
