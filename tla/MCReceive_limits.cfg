SPECIFICATION Spec
CONSTANTS
    Receivers = {r1}
    CPUs = {c1}
    p1 = p1
    p2 = p2
    p3 = p3
    Packets = {p1, p2, p3}
    PktLen <- MCLong
    Match <- MCMatch
    Frag <- MCSomeFrag
    Exact = TRUE
    FlagSets = {{}, {"DROP"}, {"SNIFF"}}
    RingCap = 2
    QLengths = {1, 2}
    QTimes = {0}
    QSizes = {3, 4}
    MaxAge = 1
    DropsMod = 2
    Calls = {"recv", "recv_ex"}
    Timeouts = {"poll", "block"}
    HasBuf = TRUE
    BufLen = 2
    MaxAddrs = 3
    MayFail = TRUE
    None = None
INVARIANTS
    WakeFdTracksQueue
    QueueAccounting
    FilterRespected
PROPERTIES
    PushWithinLimits
    DropsCounted
    
    BatchGrowsWithinBuffer
