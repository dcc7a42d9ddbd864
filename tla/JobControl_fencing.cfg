\* Two processes, one of which may stop or die, and two generations.
SPECIFICATION Spec
CONSTANTS
    Workers = {w1, w2}
    Mortal = {w1}
    NoWorker = null
    HumanGates = FALSE
    Origins = {"admission"}
    MaxJobs = 2
    MaxNodes = 1
VIEW View
\* After the last generation nothing need happen any more.
CHECK_DEADLOCK FALSE
INVARIANTS
    TypeOK
    OneActiveGeneration
    OverlapWasConfirmed
    StoppedOwnsNothing
PROPERTIES
    TerminalIsFinal
    SettledJobIsFrozen
