\* Two clients that run the same activity.
SPECIFICATION Spec
CONSTANTS
    brief = brief  lasting = lasting  instant = instant  None = None
    c1 = c1  c2 = c2
    Activities = {brief, lasting, instant}
    Clients = {c1, c2}
    Duration <- FiniteDuration
    StepTime <- EveryMs
    MaxManagers = 1
    MaxTime = 2
    MaxCalls = 2
    Runs = {brief}
    RunAts <- NoPairs
    RunAfters <- NoPairs
    Cancels = {}
    MayStop = FALSE
    Throwing = {}
INVARIANTS
    ScheduledOnce
