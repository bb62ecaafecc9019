\* Bursts that divide the requests and ones that do not, the largest one filling
\* the queue; the counters wrap twice.
CONSTANTS
    QueueSize = 8
    Modulus = 16
    Total = 38
    Batches = {1, 2, 3, 4}
SPECIFICATION FairSpec
\* The program ends.
CHECK_DEADLOCK FALSE
INVARIANTS
    CountsAreExact
PROPERTIES
    EveryBurstFits
