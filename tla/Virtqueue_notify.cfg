\* EVENT_IDX, with callers that arm the way bench_notification does.
CONSTANTS
    QueueSize = 2
    Modulus = 4
    ByteLimit = 8
    EventIdx = TRUE
    Buffers <- TwoBuffers
    Requests <- TwoRequests
    MaxResponse = 0
    ArmDrained = TRUE
    ShortPasses = TRUE
SPECIFICATION FairSpec
INVARIANTS
    NoLostKick
    NoLostInterrupt
PROPERTIES
    SuppressionIsExact
    ImplementsRequestQueue
    EveryChainIsCollected
