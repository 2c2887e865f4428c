\* Two evaluations of a path, of its underlay, or of both at once.
SPECIFICATION Spec
CONSTANTS
    base = base
    middle = middle
    top = top
    Path = {base, middle}
    NoPath = NoPath
    Definition <- Looping
    Thread = {t1, t2}
    Content <- FailingBase
    MaxNesting = 2
    MaxGeneration = 3
INVARIANTS TypeOK OverlayAboveWatermark OverlayJustified
SYMMETRY Threads
CHECK_DEADLOCK FALSE
