SPECIFICATION Spec
CONSTANTS
    MaxTurns = 2
    MaxReports = 1
    Pool = 2
INVARIANT SessionTokensAuthoritative
