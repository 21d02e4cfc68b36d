SPECIFICATION Spec
CONSTANTS
    MaxOpens = 3
    WriterOpens = 1
    MaxReports = 3
    MaxIos = 2
    RingLen = 2
    Uses = {"reader", "writer"}
INVARIANTS ReportsFresh OneRequest
PROPERTIES ReadEnds
