CONSTANTS
    r1 = r1
    r2 = r2
    a = a
    b = b
    alice = alice
    bob = bob
    ctx = ctx
    svc = svc
    ns1 = ns1
    None = None
    Requests <- MCRequests
    Words <- MCWords
    Scopes <- MCScopes
    Subjects <- MCSubjects
    Contexts <- MCContexts
    Workloads <- MCWorkloads
    Namespaces <- MCNamespaces
    RuleSets <- MCRuleSets
    MaxTxn = 2
    MaxRules = 2
SYMMETRY MCSymmetry
SPECIFICATION Spec
INVARIANTS
    TypeOK
    WithinOrigin
    
PROPERTIES
    ImplementsTxnChain
