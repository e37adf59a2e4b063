SPECIFICATION FairSpec
CONSTANTS
    c1 = c1
    c2 = c2
    alice = alice
    bob = bob
    user = user
    get = get
    None = None
    Checks <- MCChecks
    Words <- MCWords
    Subjects <- MCSubjects
    Fields <- MCFields
    Segments <- MCSegments
    Methods <- MCMethods
    Requests <- MCRequests
    RuleSets <- MCRuleSets
    HasTTSClient = TRUE
    MaxRules = 3
INVARIANTS
    TypeOK
    AllowedUnderOneSnapshot
    
    NarrowedAsDemanded
PROPERTIES
    EveryCheckAnswered
