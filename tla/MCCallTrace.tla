---------------------------- MODULE MCCallTrace ----------------------------
(***************************************************************************)
(* Instances of CallTrace for TLC.                                         *)
(***************************************************************************)
EXTENDS CallTrace, TLC

CONSTANTS main, foo, lib, malloc, trim,     \* names (trim: malloc_trim)
          r1, r2, r3,                       \* routines
          app, libc,                        \* images
          b1, b2, b3, k1, k2                \* sites and their stored addresses

\* Programs without instrumented images.
NoRoutines == {}
NoFunction == [x \in {} |-> x]

Plain == [callee |-> NoName, branch |-> FALSE, xmm |-> FALSE, frame |-> 0]
CallOf(m) == [Plain EXCEPT !.callee = m, !.branch = TRUE]
Xmm == [Plain EXCEPT !.xmm = TRUE]
Frame(k) == [Plain EXCEPT !.frame = k]

\* An application routine with a frame, a library call and an xmm
\* instruction, and two library routines reduced to one name.
MCRtnName == [r \in Routines |-> IF r = r1 THEN main ELSE foo]
MCRtnImage == [r \in Routines |-> IF r = r1 THEN app ELSE libc]
MCRtnBody == [r \in Routines |-> CASE r = r1 -> <<Frame(16), CallOf(lib), Xmm>>
                                   [] r = r2 -> <<Xmm, Plain, Plain>>
                                   [] r = r3 -> <<CallOf(foo), Xmm>>]

\* Two blocks of main that overlap, and one of foo whose address is stored
\* as that of the first one.
MCSiteName == [s \in Sites |-> IF s = b3 THEN foo ELSE main]
MCSiteKey == [s \in Sites |-> IF s = b2 THEN k2 ELSE k1]
MCSiteLen == [s \in Sites |-> 2]

\* Programs that call and allocate, and programs that measure, with the images
\* loaded under both.  What both do at once is checked but not followed.
NoTransfers == calls = 0 /\ \A t \in Threads : pc[t] \notin {"plt", "malloc"}
NoMeasures ==
    /\ steps = 0 /\ setBranchesExe = {}
    /\ \A i \in Slots : dy.func[i].InstrExe = {} /\ dy.func[i].nStackSize = 0
CallsOrMeasures == NoTransfers \/ NoMeasures

\* The callbacks do not tell one thread from another.
AnyThread == Permutations(Threads)
=============================================================================
