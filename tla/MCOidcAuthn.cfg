CONSTANTS
    c1 = c1
    c2 = c2
    idp = idp
    partner = partner
    foreign = foreign
    k1 = k1
    k2 = k2
    k3 = k3
    tts = tts
    other = other
    user = user
    robot = robot
    guest = guest
    late = late
    None = None
    Calls <- MCCalls
    Issuers = {idp, partner, foreign}
    Kids = {k1, k2, k3}
    Audiences = {tts, other}
    Classes <- MCClasses
    Expired = {late}
    NoSig = {k3}
    Config <- MCConfig
    Payloads <- MCPayloads
    Unserved <- MCUnserved
    Active = {idp}
    MaxMat = 2
    MaxMoves = 1
SYMMETRY MCSymmetry
SPECIFICATION Spec
INVARIANTS
    AcceptedIsValid
    KeyFoundWhileServed
    
    NoCallIsStuck
PROPERTY
    CallsLeadForward
