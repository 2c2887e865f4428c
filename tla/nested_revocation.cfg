\* A path over a path over a path: the one in the middle is revoked.
SPECIFICATION Spec
CONSTANTS
    base = base
    middle = middle
    top = top
    Path = {base, middle, top}
    NoPath = NoPath
    Definition <- ThreeLayers
    Thread = {t1}
    Content <- FailingBase
    MaxNesting = 2
    MaxGeneration = 2
PROPERTY NothingStandsOnRevoked
CHECK_DEADLOCK FALSE
