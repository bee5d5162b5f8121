SPECIFICATION Spec
CONSTANTS
    MaxRuns = 1
    MaxTurns = 1
    MaxCalls = 2
INVARIANT AmbiguousWasDispatched
