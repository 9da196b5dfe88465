SPECIFICATION Spec
CONSTANTS
    Tcp = {t1, t2}
    Udp = {u1}
    Versions = {5}
    Commands = {}
    Targets <- MCTargets
    Keys = {k1}
    KeysOf <- KeysOfAll
    KeyOf <- KeyOfAll
    Rules <- MCRules
    Lists <- UdpLists
    InitList <- MCInitList
    Ipv6 = {}
    prefer_ipv6 = FALSE
    mixed_ip_versions = TRUE
    None = None
    MaxReloads = 1
CHECK_DEADLOCK FALSE
SYMMETRY TcpSymmetry
INVARIANTS NoDanglingAssoc UdpOneTarget
