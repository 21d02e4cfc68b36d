SPECIFICATION Spec
CONSTANTS
    Channels = 2
    Options <- MCOptions
    Sizes = {1, 3}
    MaxPackets = 2
    Damaged = {1}
    MaxFaults = 1
INVARIANTS Captured
PROPERTIES Leaves
CHECK_DEADLOCK FALSE
