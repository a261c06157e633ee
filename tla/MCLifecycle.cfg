CONSTANTS
    c1 = c1
    c2 = c2
    c3 = c3
    c4 = c4
    Channels <- FourChannels
    Malformed <- SecondMalformed
    HomeAssistant = TRUE
    Interrupts = TRUE
SPECIFICATION FairSpec
INVARIANT AllReleased
PROPERTY FailureIsolated ProgramEnds
CHECK_DEADLOCK FALSE
