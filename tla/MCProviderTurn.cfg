SPECIFICATION FairSpec
CONSTANTS
    MaxRuns = 2
    MaxTurns = 2
    MaxCalls = 2
INVARIANTS
    TypeOK
    HistoryReplays
    OneUserTurn
    ResumableKnowsAll
    AbandonedTaskIsCancelled
PROPERTIES
    ConversationGrows
    TurnEnds
