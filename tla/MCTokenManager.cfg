CONSTANTS
    Caller = {c1, c2, c3}
    Audience = {Endpoint, Graph}
    Buffer = 1
    Lifetime = {0, 3}
    MaxLatency = 2
    ProviderReason = {"SessionRevoked"}
    Free = Free
    NoAudience = NoAudience
    MaxTime = 4
    MaxRefresh = 2
SYMMETRY Symmetry
SPECIFICATION Spec
INVARIANTS
    TypeOK
    SingleFlight
    GrantOnlyWhenStale
    EndedSessionLeftAlone
    RefreshTokenNewest
    DeadTokenBounded
    NoneStranded
PROPERTIES
    ReauthSetOnce
CHECK_DEADLOCK FALSE
