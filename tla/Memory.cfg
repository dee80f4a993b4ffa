SPECIFICATION Spec
CONSTANTS
    turn = turn
    other = other
    one = one
    two = two
    three = three
    Callers = {turn, other}
    Ids = {one, two, three}
    DedupeLimit = 1
    NoId = NoId
SYMMETRY Symmetric
INVARIANTS NoDuplicates ForgottenStaysGone NothingLost IndexMirrors
