\* Two executions of the run's job and no repair.
SPECIFICATION Spec
CONSTANTS
    Executors = {e1, e2}
    Nobody = nobody
    MaxAttempts = 0
    MaxLeases = 1
    MaxChanges = 2
    MaxResults = 2
SYMMETRY Symmetry
\* When the last execution has ended nothing need happen.
CHECK_DEADLOCK FALSE
INVARIANT PassedChangesWereGated
