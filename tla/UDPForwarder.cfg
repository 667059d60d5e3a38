CONSTANTS
    c1 = c1
    s1 = s1
    s2 = s2
    None = None
    Clients = {c1}
    Sids = {s1, s2}
SPECIFICATION FairSpec
CHECK_DEADLOCK FALSE
INVARIANTS
    UDPTypeOK
    NoSocketLeaked
    NoSessionHeldTwice
    GaugeExact
    RaceNeverLost
    NoSessionAfterReturn
PROPERTIES
    IdleSessionsClose
    ShutdownCompletes
