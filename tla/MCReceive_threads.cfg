SPECIFICATION Spec
CONSTANTS
    Receivers = {r1, r2}
    CPUs = {c1, c2}
    p1 = p1
    p2 = p2
    p3 = p3
    Packets = {p1, p2, p3}
    PktLen <- MCLen
    Match <- MCMatch
    Frag <- MCFrag
    Exact = FALSE
    FlagSets = {{}}
    RingCap = 2
    QLengths = {2}
    QTimes = {0}
    QSizes = {3}
    MaxAge = 1
    DropsMod = 1
    Calls = {"recv"}
    Timeouts = {"block"}
    HasBuf = TRUE
    BufLen = 2
    MaxAddrs = 3
    MayFail = FALSE
    None = None
INVARIANTS
    ReceiveInv
    HeldOnce
PROPERTIES
    LeavesAccounted
    ImplementsDivertQueue
