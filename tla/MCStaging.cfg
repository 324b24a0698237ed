SPECIFICATION FairSpec
CONSTANTS
    Calls <- MCCalls
    Name <- MCName
    IsPackage <- MCIsPackage
    Body <- MCBody
    Leftover <- MCLeftover
INVARIANTS
    ReportedIsStaged
    FailureLeavesNoMore
    NotReadyWasNotReady
PROPERTY DownloadEnds
CHECK_DEADLOCK FALSE
