\* Both programs, with failing system calls; the sweep on every map of cores.
CONSTANTS
    Faulty = TRUE
    NCpus = 4
    AllOnline = TRUE
SPECIFICATION FairSpec
\* The programs end.
CHECK_DEADLOCK FALSE
INVARIANTS
    OkMeansRestored
    FailureHasACause
    RowsAreWhatTheySay
    EveryPlacementMeasured

    
