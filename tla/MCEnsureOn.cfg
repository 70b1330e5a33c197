SPECIFICATION FairSpec
CONSTANTS
    HasMac = TRUE
    MaxBursts = 2
    MaxTries = 3
INVARIANTS TypeOK
PROPERTIES KeepsPromise EnsureAdvances EnsureEnds
