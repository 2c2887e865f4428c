\* One path evaluated and queried while memberships and domains change.
SPECIFICATION Spec
CONSTANTS
    port = port
    link = link
    room = room
    feed = feed
    Hops <- PortAndLink
    Domain = {room, feed}
    Membership <- MCMembership
    DomainClass <- MCDomainClass
    Rules <- MCRules
    Evaluator = {e1}
    Reader = {r1}
    MaxStructural <- Structural
    MaxGeneration = 2
INVARIANTS TypeOK NotifiedAboveWatermark AuthorityJustified CurrentWasTrue
CHECK_DEADLOCK FALSE
