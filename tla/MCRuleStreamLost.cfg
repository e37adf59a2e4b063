SPECIFICATION FairSpec
CONSTANTS
    Clients = {c1}
    Keys = {k1}
    Refs = {k1}
    RefOf <- ByKey
    Values = {v1}
    NoRule = NoRule
    BadValues = {}
    ChanCap = 1
    WireCap = 1
    MaxLog = 5
PROPERTIES
    ConnectedClientsConverge
