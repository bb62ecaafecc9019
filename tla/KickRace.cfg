\* Two cores with store buffers.
CONSTANTS
    QueueSize = 4
    Modulus = 8
SPECIFICATION Spec
INVARIANTS
    StaleHintIsHarmless
