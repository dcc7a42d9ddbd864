\* Two start calls and a scanner; both calls may carry the same id and the same intent.
SPECIFICATION FairSpec
CONSTANTS
    Requests = {r1}
    Intents = {i1, i2}
    Calls = {c1, c2}
    Scanners = {s}
    None = None
CHECK_DEADLOCK FALSE
INVARIANTS
    TypeOK
    BegunHasDirectory
PROPERTIES
    AdmitsOnce
    AdmittedBegins
