\* run_config: one walker, one handler, a batch that does not divide the region.
CONSTANTS
    N = 26
    Touchers = {t1}
    Main = t1
    Handlers = {h1}
    Batch = 4
    Sequential = TRUE
    MayFail = FALSE
    MainKeepsFd = TRUE
    t1 = t1
    h1 = h1
SPECIFICATION FairSpec
\* The program ends when main has joined the handler.
CHECK_DEADLOCK FALSE
INVARIANTS
    RestoredContent
    ResetIsQuiet
    OneFaultPerBatch
    HandlerSurvives
PROPERTIES
    EveryTouchReturns
    HandlersStop
