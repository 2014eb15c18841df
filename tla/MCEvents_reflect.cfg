SPECIFICATION Spec
CONSTANTS
    t1 = t1
    t2 = t2
    u1 = u1
    u2 = u2
    Worlds <- MCReflect
    Tcp = {t1, t2}
    Children = {t2}
    Endpoints = {1, 2}
    Talks = {}
    Refused <- MCRefused
    CPUs = {c1, c2}
    RingCap = 2
    UDP_FLOWS_MAX = 1
    UDP_TRACK_MAX = 2
    MaxEstablished = 4
    Receivers = {r1, r2}
    Ids = {i1, i2}
    Nobody = Nobody
INVARIANT
    AliveCoversSeen
