SPECIFICATION FairSpec
CONSTANTS
    Providers <- AllProviders
    MaxRetries = 1
    MaxToolRounds = 1
    IterationCap = 2
    MaxCalls = 2
    MaxEvents = 2
    MaxSwitches = 1
INVARIANTS WithinBudgets OneVoicePerCall AnswerAccountsForText
    FallbacksAreClean TraceVerdict
PROPERTY TurnEnds
