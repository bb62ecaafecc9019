\* One host interruption during a benchmark of two exits.
CONSTANTS
    MaxPerRound = 3
    MmioBase = 8
    MmioLen = 2
    GuestPrograms <- DemoOnly
    Expected <- DemoOutput
    Samples = 2
    MaxInterrupts = 1
SPECIFICATION Spec
\* The program ends.
CHECK_DEADLOCK FALSE
INVARIANT InterruptionsDiscarded
