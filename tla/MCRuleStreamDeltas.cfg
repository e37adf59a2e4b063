SPECIFICATION Spec
CONSTANTS
    Clients = {c1}
    Keys = {k1, k2, k3}
    Refs = {p1, p2}
    RefOf <- ByPolicy
    Values = {v1, bad}
    NoRule = NoRule
    BadValues = {bad}
    ChanCap = 1
    WireCap = 1
    MaxLog = 4
INVARIANTS
    ReplayReachesServer
    DrainedIsCurrent
    VersionsInOrder
    
PROPERTIES
    ForwardOnly
