SPECIFICATION Spec
CONSTANTS
    p1 = p1
    p2 = p2
    p3 = p3
    a = a
    b = b
    c = c
    e = e
    u = u
    None = None
    Procs = {p1, p2, p3}
    Late = {p3}
    PidOf <- MCPid
    Calls = {a, b, c, u, e}
    Owner <- MCOwner
    Kind <- MCKind
    Priority <- MCPriority
    NHooks = 2
    Base = 2
    MaxPrio = 3
    RegistryMax = 2
    AttachMax = 2
    Named = {b}
    LockFails = {}
    DiesClosing = FALSE
INVARIANTS RegistryInv OrphansListed AutomaticDistinct LockHolderLive
PROPERTIES LiveUntouched DeadDetached
