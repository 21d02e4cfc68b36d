SPECIFICATION Spec
CONSTANTS
    MaxOpens = 1
    WriterOpens = 1
    MaxReports = 2
    MaxIos = 2
    RingLen = 1
    Uses = {"writer"}
INVARIANTS ReadSucceeds
