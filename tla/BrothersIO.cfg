SPECIFICATION FairSpec
CONSTANTS
    Processors = {p1}
    Devices <- Eleven
PROPERTY
    IOWakesProcessors
CHECK_DEADLOCK FALSE
