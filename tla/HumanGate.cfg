\* Two people, three failures or hasty calls; nine questions are never asked.
SPECIFICATION FairSpec
CONSTANTS
    Deciders = {a, b}
    MaxFaults = 3
    MaxAsked = 9
\* Once the run has ended nothing need happen.
CHECK_DEADLOCK FALSE
INVARIANT TypeOK
PROPERTIES
    PassesOnlyApproved
    ApprovedRunEnds
