SPECIFICATION Spec
CONSTANTS
    OctBits = 2
    Texts <- mcTexts
    SplitFrom = 29
INVARIANTS TypeOK ContainsIsInclusion TextRoundTrip SubnetsPartition HostsCounted
