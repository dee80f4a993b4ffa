SPECIFICATION RenderSpec
CONSTANTS
    MaxAttempts = 2
    MaxRounds = 1
    MaxTools = 2
    MaxDeltas = 2
\* A trace that is rendered stays so.
CHECK_DEADLOCK FALSE
INVARIANTS EveryEventOnOneLine PairsBelongTogether AnswerIsReadable
