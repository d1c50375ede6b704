\* One thread, no sibling calls, no allocation inside an allocation; images are
\* loaded while the program runs, and the tables may fill up.
SPECIFICATION Spec
CONSTANTS
    main = main  foo = foo  lib = lib  malloc = malloc  trim = trim
    r1 = r1  r2 = r2  r3 = r3  app = app  libc = libc
    b1 = b1  b2 = b2  b3 = b3  k1 = k1  k2 = k2
    Threads = {t1}
    Names = {main, foo, lib, malloc}
    NoName = NoName
    LibCall = lib
    Malloc = malloc
    MallocNames = {malloc}
    TailJumps = FALSE
    Keys = {}
    Routines = {r1, r2, r3}
    NoRtn = NoRtn
    RtnName <- MCRtnName
    RtnImage <- MCRtnImage
    RtnBody <- MCRtnBody
    Images = {app, libc}
    Sites = {}
    SiteName <- NoFunction
    SiteKey <- NoFunction
    SiteLen <- NoFunction
    Sizes = {1, 2}
    MAX_FUNCS = 4
    MAX_LOADS = 2
    MaxCalls = 3
    MaxBytes = 2
    MaxDepth = 1
    MaxSteps = 1
INVARIANTS
    GraphFilesDefined
    Inv
PROPERTIES
    IsCallProfile
