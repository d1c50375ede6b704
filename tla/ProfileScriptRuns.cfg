\* Three runs of two workloads in any order, overlapping or not; each may be
\* killed at any command.  When all have ended nothing is left to do.
SPECIFICATION Spec
CONSTANTS
    r1 = r1  r2 = r2  r3 = r3
    Runs = {r1, r2, r3}
    Workload <- SomeRuns
    Removing = {"test"}
    WithSource = {"test"}
    MaxTogether = 2
    Nobody = Nobody
    NoDir = NoDir
INVARIANTS
    OutputOfLastRun
    OutputComplete
    TempRemoved
CHECK_DEADLOCK FALSE
