SPECIFICATION Spec
CONSTANTS
    LP_DATA_PINS <- MCData
    LP_ALWAYS_INPUT_PINS <- MCStatus
    LP_SWITCHABLE_PINS <- MCSwitchable
    Clients = {"driver", "python"}
    Versions = {"2.4", "2.6"}
    Procs = {p1, p2}
    MaxOpens = 2
    Masks <- MCMasks
    Numbers <- MCNumbers
    Kept <- MCKept
    MaxPulses = 2
INVARIANTS InputsFree InputsTrue LevelsKept PortReturned
