SPECIFICATION SerialSpec
CONSTANTS
    p1 = p1
    p2 = p2
    c1 = c1
    d1 = d1
    d2 = d2
    d3 = d3
    Path <- OnePath
    Definition = {d1, d2}
    PathOf <- MCPathOf
    Evaluator = {e1}
    Publisher = {}
    Worker = {w1}
    Reason = {r1}
    NoRevocation = NoRevocation
    Attempt = {a1, a2}
    NoAttempt = NoAttempt
    Element <- MCElement
    Capability <- NoCapability
    Uses <- MCUses
    ConstraintSet = {c1}
    SetOf <- MCSetOf
    BoundTo <- MCBoundTo
    Requires <- ReplacedOnce
    PolicyRequires <- NoPolicyRequirements
    Content <- DrainingPort
    MaxGeneration = 4
    MaxPaths = 2
    MaxAttempts = 1
INVARIANTS
    RevokedNeverAuthorizing
    SupersededIsWithdrawn
    AttemptIndexBounded
PROPERTIES
    AttemptKeepsInput
    DrainingRefusesNewAuthority
CHECK_DEADLOCK FALSE
