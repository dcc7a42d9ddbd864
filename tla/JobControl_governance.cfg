\* One process that may stop or die, every origin of a run, human gates.
SPECIFICATION Spec
CONSTANTS
    Workers = {w1}
    Mortal = {w1}
    NoWorker = null
    HumanGates = TRUE
    Origins = {"admission", "paused", "blocked", "interrupted"}
    MaxJobs = 2
    MaxNodes = 1
VIEW View
\* The only process may be gone.
CHECK_DEADLOCK FALSE
INVARIANTS
    ExitEvidenceSound
    DoneSessionPassed
PROPERTIES
    OnlyOwnerDrivesRun
    RefinesLifecycle
