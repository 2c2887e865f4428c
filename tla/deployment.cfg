SPECIFICATION FairSystemSpec
CONSTANTS
    p1 = p1
    x = x
    w1 = w1
    c1 = c1
    t1 = t1
    t2 = t2
    NoConnection = NoConnection
    NoCaller = NoCaller
    Path = {p1}
    Publisher = {x}
    Worker = {w1}
    Connection = {c1}
    Caller = {t1, t2}
    WorkerOf <- OneEvaluator
    PublisherOf <- OnePublisher
    Speaks <- Anyone
    MaxWorkers = 1
    MaxFenced = 1
    MaxGeneration = 3
    MaxEpoch = 2
    Publishes = {"AUTHORIZED"}
    Override = {0}
    MaxConnects = 2
INVARIANTS
    SystemTypeOK
    BeliefIsTrue
    FramesHaveAnOwner
PROPERTIES
    SystemIsCoordinator
    CallsReturn
    LostIsFreed
CHECK_DEADLOCK FALSE
