\* One process that may stop or die and one that survives, one generation.
SPECIFICATION FairSpec
CONSTANTS
    Workers = {w1, w2}
    Mortal = {w1}
    NoWorker = null
    HumanGates = FALSE
    Origins = {"admission"}
    MaxJobs = 1
    MaxNodes = 1
CHECK_DEADLOCK FALSE
PROPERTIES
    CancelConverges
    UnattendedJobEnds
    CancelReachesOwner
    QueuedIsServed
