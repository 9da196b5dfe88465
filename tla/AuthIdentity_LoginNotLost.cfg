SPECIFICATION Spec
CONSTANTS
    ip1 = ip1
    ip2 = ip2
    Ips <- MCIps
    Users = {alice, bob}
    Workers = {w1}
    HostOf <- MCHostOf
    Idu = idu
    None = None
    SaveFillsEntries = FALSE
    MaxLogins = 2
    MaxClears = 0
PROPERTY LoginNotLost
