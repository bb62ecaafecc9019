\* Without EVENT_IDX: used.flags only, callers unrestricted.
CONSTANTS
    QueueSize = 2
    Modulus = 4
    ByteLimit = 8
    EventIdx = FALSE
    Buffers <- TwoBuffers
    Requests <- TwoRequests
    MaxResponse = 0
    ArmDrained = FALSE
    ShortPasses = FALSE
SPECIFICATION FairSpec
INVARIANTS
    TypeOK
    DescriptorOwnership
    DeviceReadsSubmission
PROPERTIES
    EveryChainIsCollected
