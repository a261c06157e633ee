SPECIFICATION Spec
CONSTANTS
    Files <- MCFiles
    Extra = "extra"
    PageSize = 2
    MaxReleases = 5
    MaxActs = 3
INVARIANT OwnDraftOnly
PROPERTY PublishedAsBuilt
PROPERTY CandidateFrozen
CHECK_DEADLOCK FALSE
