SPECIFICATION FairSpec
CONSTANTS
    Turns = {t1, t2}
    Calls = 4
    MaxQueue = 1
    Closes = TRUE
    MaxFailures = 1
    BootFails = TRUE
    Exits = TRUE
\* The system stops: a put that falls behind the pill waits for ever.
CHECK_DEADLOCK FALSE
INVARIANTS EventsInOrder FlushDurable VerdictIsComplete CloseIsOrderly
PROPERTY RecordingReturns
