\* Buffers inside the region, across its end, and across the end of the
\* address space.
CONSTANTS
    QueueSize = 2
    Modulus = 4
    ByteLimit = 4
    RegionLen = 4
    AddrLimit = 16
    Addrs = {0, 1, 3, 15}
    Lens = {0, 1, 2}
    Links = {0, 2}
    MaxResponse = 3
SPECIFICATION FairSpec
INVARIANTS
    ReportedBytesWereWritten
    ShortfallIsAccounted
    WalkIsBounded
PROPERTIES
    CompletedInOrder
    EveryChainEnds
