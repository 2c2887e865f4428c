SPECIFICATION Spec
CONSTANTS
    p1 = p1
    p2 = p2
    c1 = c1
    d1 = d1
    d2 = d2
    d3 = d3
    Path <- TwoPaths
    Definition = {d1, d2, d3}
    PathOf <- MCPathOf
    Evaluator = {e1}
    Publisher = {}
    Worker = {w1}
    Reason = {r1}
    NoRevocation = NoRevocation
    Attempt = {}
    NoAttempt = NoAttempt
    Element <- MCElement
    Capability <- MCCapability
    Uses <- MCUses
    ConstraintSet = {c1}
    SetOf <- MCSetOf
    BoundTo <- MCBoundTo
    Requires <- OneCapability
    PolicyRequires <- PolicyAsksMore
    Content <- MovingDependencies
    MaxGeneration = 3
    MaxPaths = 1
    MaxAttempts = 1
INVARIANTS
    IndexCovers
PROPERTIES
    UnrelatedUntouched
CHECK_DEADLOCK FALSE
