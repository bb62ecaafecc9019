\* toy-kvm-raw --bench 5 with three exits to a round: a full round and a
\* short one, and two host interruptions anywhere.  The guest is the demo, or
\* one that touches what the device model does not implement.
CONSTANTS
    MaxPerRound = 3
    MmioBase = 8
    MmioLen = 2
    GuestPrograms <- DemoAndProbe
    Expected <- DemoOutput
    Samples = 5
    MaxInterrupts = 2
SPECIFICATION FairSpec
\* The program ends.
CHECK_DEADLOCK FALSE
INVARIANTS
    BenchPopulation
    ReleasedBeforeItsFd
PROPERTIES
    ImplementsMachine
    EveryRunEnds
