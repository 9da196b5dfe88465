----------------------------- MODULE MCPolicyDb -----------------------------
(***************************************************************************)
(* Small instance of PolicyDb: two operators, a pass rule for everything, a *)
(* deny rule for one flow, and the disabled rule `add` creates.            *)
(***************************************************************************)
EXTENDS PolicyDb

MCFlows == {"web", "mail"}

PassAll  == [name |-> "pass-all",  disabled |-> FALSE, flows |-> MCFlows,  pass |-> TRUE]
DenyMail == [name |-> "deny-mail", disabled |-> FALSE, flows |-> {"mail"}, pass |-> FALSE]
MCNewRule == [name |-> "new",      disabled |-> TRUE,  flows |-> MCFlows,  pass |-> TRUE]

MCRules == {PassAll, DenyMail, MCNewRule}
MCEmptyGroup == [name |-> "empty"]
MCInitPolicy == <<DenyMail, PassAll>>
=============================================================================
