SPECIFICATION Spec
CONSTANTS
    DEV_NUM = 1
    MaxDevices = 3
INVARIANTS FoundRight NothingHeld
PROPERTIES CallEnds
