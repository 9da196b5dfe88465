SPECIFICATION Spec
CONSTANTS
    Tcp = {t1}
    Udp = {}
    Versions = {0, 4, 5}
    Commands = {"CONNECT", "BIND", "UDP_ASSOCIATE"}
    Targets <- MCTargets
    Keys = {k1}
    KeysOf <- KeysOfAll
    KeyOf <- KeyOfAll
    Rules <- MCRules
    Lists <- MCLists
    InitList <- MCInitList
    Ipv6 = {}
    prefer_ipv6 = FALSE
    mixed_ip_versions = TRUE
    None = None
    MaxReloads = 2
CHECK_DEADLOCK FALSE
INVARIANTS TypeOK NoRuleNoConnection ReplyBeforeHandoff AppliedAsMatched DnsAskedOnce
PROPERTY RequestSettled
