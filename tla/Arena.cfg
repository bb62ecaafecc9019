\* Aligned and misaligned bases, every small power of two, sizes on both sides
\* of the allocator's alignment and an empty one.
CONSTANTS
    Bases = {0, 3, 33}
    QueueSizes = {1, 2, 4, 8}
    ArenaEnds = {72, 136, 280}
    AllocSizes = {0, 5, 16, 27}
    MaxAllocs = 5
SPECIFICATION Spec
\* The arena runs out.
CHECK_DEADLOCK FALSE
INVARIANTS
    FieldsApart
    BuffersApart
