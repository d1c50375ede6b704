\* Files of up to five elements over two ids, and the graphs they make with up to
\* three nodes and two edges, edited without end.  An edge is never given no end.
SPECIFICATION Spec
CONSTANTS
    a = a  b = b  v = v  w = w  k1 = k1  k2 = k2  k3 = k3  k4 = k4  k5 = k5  x = x  y = y
    NoText = NoText
    NodeIds = {a, b}
    Keys <- SomeKeys
    Texts = {v, w}
    Unreadable = {w}
    MaxElements = 5
    MaxNodes = 3
    MaxEdges = 2
    Detached = {}
INVARIANTS
    ReaderInv
    LinksMatchEdges
    TuplesLive
    SpanningFresh
    RefusedForReason
    GraphIsDocument
PROPERTIES
    IsMultigraph
