SPECIFICATION FairSpec
CONSTANTS
    Depth = 2
    Faults = {"SIGFPE"}
    MaxStep = 1
    Null = Null
PROPERTY
    ExitKills
