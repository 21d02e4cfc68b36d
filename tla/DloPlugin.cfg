SPECIFICATION Spec
CONSTANTS
    Rows = 2
    LampCount = 1
    DarkSteps = 2
    Plugins = {"DeluxeUSB", "UsbPrn", "Parallel"}
    Addrs = {a1, a2}
    Bounds <- MCBounds
INVARIANTS HeldOnce
PROPERTIES Settles
CHECK_DEADLOCK FALSE
