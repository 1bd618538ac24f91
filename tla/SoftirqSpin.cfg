CONSTANTS
    Task = {t1, t2}
    Cpu = {c1, c2}
    Callback = Callback
    Nobody = Nobody
    NoCpu = NoCpu
CHECK_DEADLOCK FALSE
SPECIFICATION FairSpec
PROPERTIES
    CallbackEnds
