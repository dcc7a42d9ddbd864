\* Two executions of the run's job that may overlap, two attempts at a repair.
SPECIFICATION Spec
CONSTANTS
    Executors = {e1, e2}
    Nobody = nobody
    MaxAttempts = 2
    MaxLeases = 4
    MaxChanges = 2
    MaxResults = 4
SYMMETRY Symmetry
\* When the last execution has ended nothing need happen.
CHECK_DEADLOCK FALSE
INVARIANTS
    TypeOK
    PassedLeavesNothingBehind
    UndeclaredChangesStayOut
PROPERTY BranchKeepsCommits
