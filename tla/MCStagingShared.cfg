SPECIFICATION FairSpec
CONSTANTS
    Calls <- MCTwoCalls
    Name <- MCTwoName
    IsPackage <- MCTwoIsPackage
    Body <- MCTwoBody
    Leftover = {}
PROPERTY ReportedHoldsDigest
CHECK_DEADLOCK FALSE
