\* Expected violation: a torn line and the record after it are one line.
SPECIFICATION Spec
CONSTANTS
    a1 = a1
    a2 = a2
    Attempt <- MCAttempt
    Request <- MCRequest
    Flags <- MCFlags
    PowerCanFail = FALSE
INVARIANTS
    LinesAreRecords
