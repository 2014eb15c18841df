SPECIFICATION Spec
CONSTANTS
    FILTER_MAXLEN = 4
    MAX_DEPTH = 7
    PORT_MAX = 3
    PROTO_MAX = 5
    EVENT_MAX = 9
    PID_MAX = 3
    ADDR_BITS = 5
    V4_BITS = 3
    PF_MAX_EXCL = 1
    PF_MAX_STATES = 12
    PF_MAX_CUBES = 6
    MAX_RULES = 4
    EVENT_RULES_MAX = 2
    Filters <- MCFilters
    Modes <- MCModes
    Packets <- MCPackets
    NoPacket = NoPacket
INVARIANTS
    CompiledMeaning
    FormatKeepsMeaning
    
    BlockDecides
