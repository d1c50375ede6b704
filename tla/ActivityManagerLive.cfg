\* One client and no cancel: what the loop has seen, it runs to the end.
SPECIFICATION FairSpec
CONSTANTS
    brief = brief  lasting = lasting  instant = instant  None = None
    c1 = c1
    Activities = {brief, lasting, instant}
    Clients = {c1}
    Duration <- FiniteDuration
    StepTime <- EveryMs
    MaxManagers = 1
    MaxTime = 3
    MaxCalls = 3
    Runs = {brief, lasting}
    RunAts <- NoPairs
    RunAfters <- InstantAfterBrief
    Cancels = {}
    MayStop = FALSE
    Throwing = {}
PROPERTIES
    SeenFinishes
    FollowerScheduled
