CONSTANTS
    w1 = w1
    Power <- OnePower
    NoPower = NoPower
    NoTime = NoTime
    Unlimited = Unlimited
    Skew = 1
    StaleAfter = 2
    Stamps <- MCStamps
    Walls <- MCWalls
    Horizon = 6
SPECIFICATION FairSpec
INVARIANT TypeOK LifetimeBounded NewestShown
PROPERTY NoRevival ContractHolds
