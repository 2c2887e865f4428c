SPECIFICATION Spec
CONSTANTS
    p1 = p1
    x = x
    y = y
    w1 = w1
    w2 = w2
    c1 = c1
    c2 = c2
    NoConnection = NoConnection
    Path = {p1}
    Publisher = {x, y}
    Worker = {w1, w2}
    Connection = {c1, c2}
    Speaks <- OneEach
    MaxWorkers = 2
    MaxFenced = 1
    MaxGeneration = 3
    MaxEpoch = 2
    Publishes = {"AUTHORIZED"}
    Override = {0}
INVARIANTS
    TypeOK
    LiveIsHeld
    LiveIsOfThisEpoch
    AnsweredSurvives
PROPERTIES
    AcceptedIsAuthority
    AnsweredEpochIsPast
CHECK_DEADLOCK FALSE
