\* Every family of evaluations.
SPECIFICATION MCSpec
CONSTANTS
    Element <- MCElement
    Kind <- MCKind
    CapabilityValue <- MCCapabilityValue
    Families = {"structural", "ports", "links", "capabilities", "requirements", "domains", "policies", "shapes"}
INVARIANTS TypeOK AuthorityIsProven EarliestStageDecides AuthorityBindsReads ConditionsResolved
CHECK_DEADLOCK FALSE
