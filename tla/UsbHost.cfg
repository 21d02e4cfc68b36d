SPECIFICATION FairSpec
CONSTANTS
    MaxPkt = 2
    MaxXfers = 3
    DescrLen = 4
    FnLens <- MCFnLens
    Addrs <- MCAddrs
    Requests <- MCRequests
    MaxResets = 1
    Others <- MCOthers
    MaxLoss = 0
    RetryAfterAddress = FALSE
INVARIANTS TxWhole ControlIn ControlOut AddrAgree SetupWelcome
PROPERTIES RxStable TransferEnds PipeSpec
