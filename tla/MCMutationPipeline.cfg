\* Two attempts over restarts: safety and the promise of AuditedMutation.
SPECIFICATION Spec
CONSTANTS
    a1 = a1
    a2 = a2
    Attempt <- MCAttempt
    Request <- MCRequest
    Flags <- MCFlags
    PowerCanFail = FALSE
SYMMETRY Symmetry
INVARIANTS
    TypeOK
    LogTellsTruth
    AnsweredIsLogged
PROPERTIES
    PromiseKept
    SentAsConfigured
