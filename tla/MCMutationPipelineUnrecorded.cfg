\* Expected violation: offboarding that is not enabled leaves no record.
SPECIFICATION Spec
CONSTANTS
    a1 = a1
    a2 = a2
    Attempt <- MCAttempt
    Request <- MCRequest
    Flags <- MCFlagsWithLog
    PowerCanFail = FALSE
INVARIANTS
    EveryAttemptRecorded
