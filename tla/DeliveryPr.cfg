CONSTANTS
    Callers = {c1, c2}
    Preparers = {p1}
    Tools = {"push", "create", "view"}
    MaxStarts = 3
    MaxDeaths = 1
    None = None
SPECIFICATION FairSpec
INVARIANTS TypeOK EffectIsOnRecord AnnouncedIsRecorded
PROPERTY CallsReturn
CHECK_DEADLOCK FALSE
