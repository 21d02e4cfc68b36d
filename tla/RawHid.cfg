SPECIFICATION FairSpec
CONSTANTS
    Platforms = {"linux", "darwin", "windows"}
    Nodes = {0, 1, 2}
    MaxPlugs = 3
    MaxReports = 3
    MaxFaults = 1
    MaxManagers = 2
INVARIANTS NothingLeaks ReportsInOrder
PROPERTIES ListensAgain
