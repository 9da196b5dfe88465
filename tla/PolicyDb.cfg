SPECIFICATION Spec
CONSTANTS
    Admins = {a1, a2}
    Flows <- MCFlows
    Rules <- MCRules
    NewRule <- MCNewRule
    EmptyGroup <- MCEmptyGroup
    InitPolicy <- MCInitPolicy
    MaxOps = 3
INVARIANTS TypeOK QuietVerdicts CopyOfConfig
PROPERTIES PolicyComesBack ServiceImplemented
