CONSTANTS
    c1 = c1
    c2 = c2
    c3 = c3
    c4 = c4
    Channels <- TwoChannels
    Malformed <- NoneMalformed
    HomeAssistant = TRUE
    Interrupts = FALSE
SPECIFICATION FairSpec
PROPERTY LossAlwaysEnds
CHECK_DEADLOCK FALSE
