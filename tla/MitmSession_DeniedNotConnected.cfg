SPECIFICATION Spec
CONSTANTS
    Conns = {c1}
    Kinds <- mcKinds
    Policies <- mcPolicies
    Groups = {"staff"}
    NoId = NoId
    Servers <- mcServers
    RrMod = 1
    HalfTimeout = 1
    WlTimeout = 1
INVARIANT DeniedNotConnected
