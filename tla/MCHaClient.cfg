CONSTANTS
    w = w
    meter = meter
    load1 = load1
    load2 = load2
    r1 = r1
    r2 = r2
    Power <- MCPower
    NoPower = NoPower
    NoTime = NoTime
    Unlimited = Unlimited
    Skew = 1
    Selected <- NoMeter
    Ordinary <- OneChannel
    StaleAfter <- MCLimits
    RefreshEvery = 1
    RestPause = 1
    Requests <- MCRequests
    NoRequest = NoRequest
    NoSnapshot = NoSnapshot
    Changing <- All
    Horizon = 3
SPECIFICATION Spec
INVARIANT OneRequest SessionHandedOver OfflineShowsNothing NothingOlderThanSeen
PROPERTY FailureSparesNewer
CHECK_DEADLOCK FALSE
