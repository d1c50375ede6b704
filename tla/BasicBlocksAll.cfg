\* Every routine of up to three instructions, then every other one.
SPECIFICATION Spec
CONSTANTS
    MaxLen = 3
    MaxRoutines = 2
INVARIANTS
    BlocksTypeOK
    BlocksCutRoutine
    FlowShown
