------------------------------ MODULE MCUsbHost -----------------------------
EXTENDS UsbHost

MCAddrs == {1}
MCOthers == {0, 2}
MCFnLens == {3, 6}
\* Standard and class requests of each direction; GET_DESCRIPTOR replies fill
\* whole packets, so that the zero-sized packet after them is built.
MCRequests ==
    {[bRequest |-> "SET_ADDRESS", dir |-> "out", value |-> 1, wLength |-> 0],
     [bRequest |-> "GET_DESCRIPTOR", dir |-> "in", value |-> 0, wLength |-> 5],
     [bRequest |-> "FUNCTION", dir |-> "in", value |-> 0, wLength |-> 4],
     [bRequest |-> "FUNCTION", dir |-> "out", value |-> 0, wLength |-> 3]}
=============================================================================
