SPECIFICATION Spec
CONSTANTS
    p1 = p1
    p2 = p2
    c1 = c1
    d1 = d1
    d2 = d2
    d3 = d3
    Path <- OnePath
    Definition = {d1}
    PathOf <- MCPathOf
    Evaluator = {e1}
    Publisher = {b1}
    Worker = {w1}
    Reason = {r1}
    NoRevocation = NoRevocation
    Attempt = {}
    NoAttempt = NoAttempt
    Element <- PortOnly
    Capability <- NoCapability
    Uses <- MCUses
    ConstraintSet = {c1}
    SetOf <- MCSetOf
    BoundTo <- MCBoundTo
    Requires <- NoRequirements
    PolicyRequires <- NoPolicyRequirements
    Content <- DrainingPort
    MaxGeneration = 3
    MaxPaths = 1
    MaxAttempts = 1
INVARIANTS
    RevokedNeverAuthorizing
CHECK_DEADLOCK FALSE
