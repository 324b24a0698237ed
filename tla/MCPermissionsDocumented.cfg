SPECIFICATION Spec
CONSTANT FlagSets <- MCFlagSets
INVARIANT DocumentedScopeHeld
