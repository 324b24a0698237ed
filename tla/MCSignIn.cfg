\* The whole sign-in: every flow, with and without a display.
SPECIFICATION FairSpec
CONSTANTS
    BrowserTimeout = 2
    Interval = {0, 1}
    CodeLife = {0, 3}
    SlowDownStep = 1
    MaxQuiet = 4
INVARIANTS
    TypeOK
    OwnCodeOnly
    FallsBackOnce
    PollsKeepToCode
    ListenersClosed
    SessionComplete
PROPERTIES
    SignInEnds
CHECK_DEADLOCK FALSE
