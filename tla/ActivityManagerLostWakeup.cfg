\* One run call, and the manager about to wait.
SPECIFICATION FairSpec
CONSTANTS
    brief = brief  lasting = lasting  instant = instant  None = None
    c1 = c1
    Activities = {brief, lasting, instant}
    Clients = {c1}
    Duration <- FiniteDuration
    StepTime <- EveryMs
    MaxManagers = 1
    MaxTime = 3
    MaxCalls = 1
    Runs = {brief}
    RunAts <- NoPairs
    RunAfters <- NoPairs
    Cancels = {}
    MayStop = FALSE
    Throwing = {}
PROPERTIES
    ScheduledRuns
