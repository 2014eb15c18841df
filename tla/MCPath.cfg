SPECIFICATION FairSpec
CONSTANTS
    a = a
    b = b
    c = c
    d = d
    e = e
    f = f
    in = in
    out = out
    loop = loop
    built = built
    fwd = fwd
    Lo = Lo
    Eth = Eth
    Far = Far
    Handles = {a, b, c, d, e, f}
    Packets = {in, out, loop, built, fwd}
    Built = {built}
    MayFail = {c}
    Mortal = {a}
    Bursts = {{in}, {built}, {out}, {loop}, {fwd}}
    Prio <- MCPrio
    Layer <- MCLayer
    Mode <- MCMode
    Selected <- MCSelected
    KindOf <- MCKind
    Wanted <- MCWanted
INVARIANTS
    PathInv
    OnlyLowerSee
    LowerHandlesSee
    
    StrayOnlyDetached
PROPERTIES
    PacketsLeave
