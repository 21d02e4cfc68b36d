SPECIFICATION DeluxeSpec
CONSTANTS
    MaxPkt = 4
    MaxXfers = 2
    DescrLen = 2
    FnLens <- MCFnLens
    Addrs <- MCAddrs
    Requests <- MCRequests
    Others <- MCOthers
    MaxResets = 1
    MaxLoss = 1
    RetryAfterAddress = FALSE
    ReportLen = 3
    AutoHold = 2
    AutoWrap = 2
    MaxTicks = 3
    MaxWdt = 1
INVARIANTS LedsWhole ReportHeld ReadBack StandbyDark
PROPERTIES AppContract
