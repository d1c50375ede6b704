\* 64 static graphs of three functions, with cycles and without, a dynamic graph
\* of two that may change between two loads, and every order of events.
SPECIFICATION Spec
CONSTANTS
    StaticGraphs <- ThreeFunctions
    DynamicGraphs <- TwoFunctions
    MaxStack = 4
INVARIANTS
    ViewerInv
    SelectionShown
    RememberedIsFirst
PROPERTIES
    TableFollowsSelection
    WalkIsExact
