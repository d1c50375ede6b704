\* An activity cancelled as it expires.
SPECIFICATION FairSpec
CONSTANTS
    brief = brief  lasting = lasting  instant = instant  None = None
    c1 = c1
    Activities = {brief, lasting, instant}
    Clients = {c1}
    Duration <- FiniteDuration
    StepTime <- EveryMs
    MaxManagers = 1
    MaxTime = 3
    MaxCalls = 2
    Runs = {brief}
    RunAts <- NoPairs
    RunAfters <- NoPairs
    Cancels = {brief}
    MayStop = FALSE
    Throwing = {}
PROPERTIES
    CancelReturns
CHECK_DEADLOCK FALSE
