SPECIFICATION MCSpec
CONSTANTS
    c1 = c1
    c2 = c2
    p1 = p1
    p2 = p2
    Calls = {c1, c2, c3}
    Providers = {p1, p2}
    NoCall = NoCall
    LockWorks = TRUE
INVARIANTS NoLostUpdate NoDoubleRefresh StoredTokenUsable
PROPERTIES IsSerialized CallsEnd
