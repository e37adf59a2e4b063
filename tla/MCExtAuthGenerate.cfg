SPECIFICATION Spec
CONSTANTS
    c1 = c1
    p1 = p1
    p2 = p2
    ip1 = ip1
    alice = alice
    sa1 = sa1
    sa2 = sa2
    get = get
    user = user
    Wildcard = Wildcard
    None = None
    Calls <- MCCalls
    Pods <- MCPods
    IPs <- MCIPs
    Account <- MCAccount
    RuleSets <- MCRuleSets
    Requests <- MCRequests
    MaxRules = 3
    MaxVersions = 4
INVARIANTS
    TypeOK
    AnswerFollowsRules
    
    UnknownOnlyIfShared
