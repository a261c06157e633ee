CONSTANTS
    r1 = r1
    r2 = r2
    fa = fa
    fb = fb
    Runs <- MCRuns
    VersionFiles <- MCFiles
    Versions <- MCVersions
    Requests <- MCRequests
    BaseFile = fa
    First <- MCFirst
    MaxDeeds = 3
    Unset = Unset
SYMMETRY MCSymmetry
SPECIFICATION PrepareSpec
PROPERTY PeopleKept NeverBack EditsKept
CHECK_DEADLOCK FALSE
