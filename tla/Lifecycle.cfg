SPECIFICATION FairSpec
CONSTANTS
    Threads = {t1, t2, t3}
    Handles = {h1}
    Heartbeat = hb
    None = None
    Overlap = FALSE
INVARIANTS
    LifecycleInv
    CallsHoldHandle
    HeartbeatHoldsHandle
    FreeIsSafe
    ShutdownReachesKernel
PROPERTIES
    CloseReturns
    CallsReturn
