SPECIFICATION FairSpec
CONSTANTS
    FIFOSIZE = 2
    Profiles = {"ports", "stream", "ecpout", "ecpin"}
    PortPackets <- MCPortPackets
    StreamBytes <- MCStreamBytes
    MaxPacket = 3
    MaxStream = 5
    MaxWords = 4
INVARIANTS DataDirection Handshake StreamParsed
PROPERTIES FifoQueue FifoDrains
CHECK_DEADLOCK FALSE
