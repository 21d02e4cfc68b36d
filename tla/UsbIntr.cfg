SPECIFICATION IntrSpec
CONSTANT MaxMsgs = 4
INVARIANTS MessageWhole InOrder AskedArrive
PROPERTY LastArrives
