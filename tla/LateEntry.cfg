CONSTANTS
    Thread = {t1, t2}
    Elem = {e1, e2, e3}
    NoElem = NoElem
    max_calls_monitor = 1
    IntMax = 7
    PromptTurnOn = TRUE
    CacheFaults = FALSE
SPECIFICATION Spec
INVARIANT
    ThreadsOutsideAtDestroy
