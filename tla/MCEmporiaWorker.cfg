CONSTANTS
    d1 = d1
    Devices <- OneDevice
    NoTime = NoTime
    Poll = 1
    StatusEvery = 2
    StatusMaxAge = 3
    Interval <- MCInterval
    MinWait = 1
    MaxWait = 3
    Doublings = 2
    MaxRuns = 2
    MaxQueue = 1
    Horizon = 5
SPECIFICATION FairSpec
INVARIANT DueOvertakenOnce
PROPERTY EmittedOnline ReleasedUntouched StopEnds
CHECK_DEADLOCK FALSE
