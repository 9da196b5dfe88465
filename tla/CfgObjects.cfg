SPECIFICATION Spec
CONSTANTS
    OctBits = 2
    Parsed <- mcParsed
    Numbers <- mcNumbers
    CidrText <- mcCidrText
    Existing = {}
    Placed = {"log^s"}
    Expanded <- mcExpanded
    HwThreads = 4
    InitDisks <- mcDisks
    Conns <- mcConns
    Adds <- mcAdds
    ObjectSets <- mcObjectSets
    PolicySets <- mcPolicySets
    Toggles <- mcToggles
    PortToggles <- mcPortToggles
    OptionSets <- mcOptionSets
    Removes <- mcRemoves
    Caches <- mcCaches
    MaxCmds = 3
INVARIANTS TypeOK VerdictAsFiled SavedComesBack
PROPERTIES UsedNotRemoved SetKeepsRules
CHECK_DEADLOCK FALSE
