SPECIFICATION FairSpecFullSets
CONSTANTS
    Clients = {c1, c2}
    Keys = {k1}
    Refs = {k1}
    RefOf <- ByKey
    Values = {v1, bad}
    NoRule = NoRule
    BadValues = {bad}
    ChanCap = 1
    WireCap = 1
    MaxLog = 4
PROPERTIES
    ImplementsRuleLog
    ImplementsRuleFeed
    StableStreamConverges
