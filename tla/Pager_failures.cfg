\* Overlapping runs and failing reads, with the descriptor owned by the handlers.
CONSTANTS
    N = 3
    Touchers = {t1, t2}
    Main = t1
    Handlers = {h1, h2}
    Batch = 2
    Sequential = FALSE
    MayFail = TRUE
    MainKeepsFd = FALSE
    t1 = t1
    t2 = t2
    h1 = h1
    h2 = h2
SPECIFICATION FairSpec
\* The program ends when main has joined the handlers.
CHECK_DEADLOCK FALSE
INVARIANTS
    NoLostWake
    ZeroOnlyWhenClosed
PROPERTIES
    EveryTouchReturns
