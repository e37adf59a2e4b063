SPECIFICATION SystemSpec
CONSTANTS
    t1 = t1
    t2 = t2
    s1 = s1
    s2 = s2
    p1 = p1
    ns1 = ns1
    ns2 = ns2
    None = None
    Objects <- MCObjects
    KindOf <- MCKindOf
    Specs <- MCSpecs
    Scopes <- MCScopes
    InitialStore <- MCInitialStore
    MaxBudget = 4
    Followed <- MCFollowed
    ChannelCap = 1
    InFlight = 1
INVARIANTS
    ClampedUnlessBlind
    PublishedIsComplete
    QuietMeansSettled
    
PROPERTIES
    NeverOlder
    FollowsRuleFeed
CHECK_DEADLOCK FALSE
