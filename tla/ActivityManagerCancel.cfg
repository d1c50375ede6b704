\* One client that runs, chains, cancels and stops: a finite activity, an
\* endless one that may throw and an instantaneous one, and a second manager.
\* The client may deadlock with a manager, see ActivityManagerLock.cfg.
SPECIFICATION Spec
CONSTANTS
    brief = brief  lasting = lasting  instant = instant  None = None
    c1 = c1
    Activities = {brief, lasting, instant}
    Clients = {c1}
    Duration <- EndlessDuration
    StepTime <- EveryMs
    MaxManagers = 2
    MaxTime = 2
    MaxCalls = 4
    Runs = {brief, lasting}
    RunAts <- Later
    RunAfters <- InstantAfterBrief
    Cancels = {brief, lasting}
    MayStop = TRUE
    Throwing = {lasting}
INVARIANTS
    ManagerInv
    WakeTimeCovers
    ScheduledIsListed
    EventsBalance
    NextTimeReset
CHECK_DEADLOCK FALSE
