\* Three calls: two engines that both finish the run, and a canceller, or any other three.
SPECIFICATION FairSpec
CONSTANT Writers = {a, b, c}
\* Once the run is terminal and every call has returned nothing need happen.
CHECK_DEADLOCK FALSE
INVARIANTS
    TypeOK
    OneWriterWins
PROPERTIES
    PausedNeverPasses
    ActsAtomically
    CallReturns
