SPECIFICATION FairSpec
CONSTANTS
    MaxTurns = 3
    MaxReports = 2
    Pool = 2
INVARIANTS NoStaleReports BlockAgreesWithTrace
PROPERTIES KeepsPromise PromptReturns
