\* The sweep on machines with offline CPUs.
CONSTANTS
    Faulty = FALSE
    NCpus = 4
    AllOnline = FALSE
SPECIFICATION Spec
CHECK_DEADLOCK FALSE
INVARIANTS
    RowsAreWhatTheySay
