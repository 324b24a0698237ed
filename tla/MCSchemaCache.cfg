\* Two calls that race over two tables; an hour of two ticks.
SPECIFICATION FairSpec
CONSTANTS
    Call = {c1, c2}
    Table = {t1, t2}
    TTL = 2
    MaxLatency = 1
    MaxTime = 5
INVARIANTS
    SchemaAge
PROPERTIES
    FetchEnds
CHECK_DEADLOCK FALSE
