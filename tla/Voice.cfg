SPECIFICATION FairVoiceSpec
CONSTANTS
    MaxRecorders = 4
    Impatient = FALSE
    Unplugs = TRUE
INVARIANT MicShown
PROPERTY StopEnds
CHECK_DEADLOCK FALSE
