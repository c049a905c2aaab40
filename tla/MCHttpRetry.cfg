SPECIFICATION FairSpec
CONSTANTS
    None = None
    Operation <- Calls
    Retries = 2
    CanTimeout = TRUE
    HasSignal = TRUE
PROPERTIES CallImplements CallEnds
CHECK_DEADLOCK FALSE
