---------------------------- MODULE MCDeluxeUSB -----------------------------
EXTENDS DeluxeUSB

MCFnLens == {0, 3}
MCAddrs == {}
MCOthers == {}
Report(dir, value, n) ==
    [bRequest |-> "FUNCTION", dir |-> dir, value |-> value, wLength |-> n]
MCRequests == {Report("in", 0, 3), Report("out", 0, 3), Report("out", 1, 0)}
=============================================================================
