\* One mutation beside one reading call, over restarts.
SPECIFICATION FairSpec
CONSTANTS
    Attempt = {a1}
    Reader = {c1}
    Request <- MCRequest
    Flags <- MCFlags
    PowerCanFail = TRUE
    Audience = {Endpoint, Graph}
    Buffer = 0
    Lifetime = {0, 1}
    MaxLatency = 0
    ProviderReason = {SessionRevoked}
    Free = Free
    NoAudience = NoAudience
    MaxTime = 1
    MaxRefresh = 0
PROPERTIES
    CallReturns
    AttemptEnds
    ReauthStopsMutations
