SPECIFICATION Spec
CONSTANTS
    p1 = p1
    p2 = p2
    p3 = p3
    a = a
    b = b
    c = c
    e = e
    u = u
    None = None
    Procs = {p1, p2, p3}
    Late = {p3}
    PidOf <- MCPid
    Calls = {a, b, c, u, e}
    Owner <- MCOwner
    Kind <- MCKind
    Priority <- MCSamePriority
    NHooks = 2
    Base = 2
    MaxPrio = 9
    RegistryMax = 5
    AttachMax = 2
    Named = {b}
    LockFails = {}
    DiesClosing = TRUE
PROPERTIES LiveUntouched
