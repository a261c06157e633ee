CONSTANTS
    Digest <- MCDigest
    Content <- MCContent
    Inner = "inner"
    Platforms <- MCPlatforms
    Unknown = "unknown"
    None = "none"
    Depth = 1
    MaxVisits = 5
    Inputs <- MCInputs
    Version = "v"
SPECIFICATION AssemblySpec
INVARIANT MergedVerifies PairReplays AllOrNothing
CHECK_DEADLOCK FALSE
