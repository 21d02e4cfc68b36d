SPECIFICATION Spec
CONSTANTS
    MaxPkt = 2
    MaxXfers = 2
    DescrLen = 4
    FnLens <- MCFnLens
    Addrs <- MCAddrs
    Requests <- MCRequests
    MaxResets = 0
    Others <- MCOthers
    MaxLoss = 0
    RetryAfterAddress = TRUE
PROPERTIES AddrAfterStatus
