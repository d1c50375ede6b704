\* Two threads and an image loaded by either of them: programs with sibling calls
\* and allocations inside allocations, and programs whose code is measured.
SPECIFICATION Spec
CONSTANTS
    main = main  foo = foo  lib = lib  malloc = malloc  trim = trim
    r1 = r1  r2 = r2  r3 = r3  app = app  libc = libc
    b1 = b1  b2 = b2  b3 = b3  k1 = k1  k2 = k2
    Threads = {t1, t2}
    Names = {main, foo, lib, malloc}
    NoName = NoName
    LibCall = lib
    Malloc = malloc
    MallocNames = {malloc}
    TailJumps = TRUE
    Keys = {k1, k2}
    Routines = {r1}
    NoRtn = NoRtn
    RtnName <- MCRtnName
    RtnImage <- MCRtnImage
    RtnBody <- MCRtnBody
    Images = {app, libc}
    Sites = {b1, b2, b3}
    SiteName <- MCSiteName
    SiteKey <- MCSiteKey
    SiteLen <- MCSiteLen
    Sizes = {1}
    MAX_FUNCS = 4
    MAX_LOADS = 2
    MaxCalls = 2
    MaxBytes = 2
    MaxDepth = 2
    MaxSteps = 3
INVARIANTS
    Numbering
    GlobalsInRange
    CallCounts
    CallsConserved
    BytesConserved
    BranchesConserved
    ProfilesAgree
PROPERTIES
    GraphOnlyGrows
CONSTRAINT CallsOrMeasures
SYMMETRY AnyThread
