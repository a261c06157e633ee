SPECIFICATION Spec
CONSTANTS
    r1 = r1
    r2 = r2
    p1 = p1
    NoPlan = NoPlan
    NoRun = NoRun
    Builds <- MCBuilds
    Promotions <- MCPromotions
    Bases = {b1}
    Channels = {"rc", "nightly"}
    PolicyFloors <- MCPolicyFloors
    MaxAttempts = 2
SYMMETRY Symmetry
INVARIANTS TypeOK TagsConsumed ConsumedOnce OneRelease
PROPERTIES LedgerIsAtomic NoDowngrade
CHECK_DEADLOCK FALSE
