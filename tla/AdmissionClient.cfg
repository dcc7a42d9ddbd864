\* Two intents, two identities and two POSTs: a request and its retry, or one of another.
SPECIFICATION Spec
CONSTANTS
    Requests = {r1, r2}
    Intents = {i1, i2}
    Calls = {c1, c2}
    None = None
CHECK_DEADLOCK FALSE
INVARIANTS
    TypeOK
    ReceiptsAreTrue
PROPERTY DoubtIsNotRepeated
