CONSTANTS
    w = w
    day = day
    Power <- MCPower
    NoPower = NoPower
    NoTime = NoTime
    Fields <- OneField
    MaxAge = 2
    EnergyMaxAge <- MCEnergyMaxAge
    Skew = 1
    Stamps <- MCStamps
    Walls <- MCWalls
    Horizon = 6
SPECIFICATION FairSpec
INVARIANT LivesBounded NeverBackwards
PROPERTY RanOutWithdrawn
