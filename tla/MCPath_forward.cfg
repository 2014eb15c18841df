SPECIFICATION Spec
CONSTANTS
    a = a
    b = b
    c = c
    d = d
    e = e
    f = f
    in = in
    out = out
    loop = loop
    built = built
    fwd = fwd
    Lo = Lo
    Eth = Eth
    Far = Far
    Handles = {a, b}
    Packets = {fwd}
    Built = {}
    MayFail = {}
    Mortal = {}
    Bursts = {{fwd}}
    Prio <- MCPrio
    Layer <- MCForward
    Mode <- MCMode
    Selected <- MCFar
    KindOf <- MCKind
    Wanted <- MCWanted
INVARIANTS
    LowerHandlesSee
