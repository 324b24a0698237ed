SPECIFICATION Spec
CONSTANT FlagSets <- MCFlagSets
INVARIANTS
    ExplainedScopesRequested
    ReadOnlyMeansRead
    SentOnlyIfEnabled
