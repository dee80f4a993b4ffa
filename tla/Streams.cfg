SPECIFICATION FairSpec
CONSTANT Messages <- MCMessages
INVARIANTS TypeOK StreamMatchesGenerate AnswerIsWhatWasShown HalfCallsAreRefused
PROPERTY StreamEnds
