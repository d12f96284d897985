SPECIFICATION NetworkFairSpec
CONSTANTS
    Conns = {c1, c2}
    Hosts = {h1, lo, bad}
    Local = {lo}
    Denied = {bad}
    MaxPerHost = 1
    TotalBound = 4
    MaxClients = 2
INVARIANT TableAgrees
PROPERTY HungUpIsReaped
