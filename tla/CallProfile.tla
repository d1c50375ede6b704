---------------------------- MODULE CallProfile ----------------------------
(***************************************************************************)
(* What a profile of calls and allocations promises, without tables,       *)
(* indices or globals: an edge for every pair of functions of which one     *)
(* called the other, directly or through a library stub, and for every     *)
(* function the bytes it asked the allocator for.                          *)
(***************************************************************************)
EXTENDS Naturals, Sequences

CONSTANTS Threads, Names, NoName, Sizes

VARIABLES edges,      \* the pairs <<caller, callee>>
          alloc,      \* bytes by function
          waiting,    \* the caller of the stub a thread is in
          requests    \* the callers of the allocations in progress

vars == <<edges, alloc, waiting, requests>>

Init == /\ edges = {}
        /\ alloc = [m \in Names |-> 0]
        /\ waiting = [t \in Threads |-> NoName]
        /\ requests = [t \in Threads |-> << >>]

\* The callee may be the allocator: its caller has a request in progress.
MayRequest(t, a) == \/ UNCHANGED requests
                    \/ requests' = [requests EXCEPT ![t] = Append(@, a)]

Call(t, a, b) ==
    /\ waiting[t] = NoName
    /\ edges' = edges \cup {<<a, b>>}
    /\ MayRequest(t, a)
    /\ UNCHANGED <<alloc, waiting>>

EnterStub(t, a) ==
    /\ waiting[t] = NoName
    /\ waiting' = [waiting EXCEPT ![t] = a]
    /\ UNCHANGED <<edges, alloc, requests>>

LeaveStub(t, b) ==
    /\ waiting[t] # NoName
    /\ edges' = edges \cup {<<waiting[t], b>>}
    /\ waiting' = [waiting EXCEPT ![t] = NoName]
    /\ MayRequest(t, waiting[t])
    /\ UNCHANGED alloc

Allocate(t, size) ==
    /\ requests[t] # << >>
    /\ LET a == requests[t][Len(requests[t])]
       IN  alloc' = [alloc EXCEPT ![a] = @ + size]
    /\ requests' = [requests EXCEPT ![t] = SubSeq(@, 1, Len(@) - 1)]
    /\ UNCHANGED <<edges, waiting>>

Next == \E t \in Threads :
            \/ \E a, b \in Names : Call(t, a, b)
            \/ \E a \in Names : EnterStub(t, a)
            \/ \E b \in Names : LeaveStub(t, b)
            \/ \E size \in Sizes : Allocate(t, size)

Spec == Init /\ [][Next]_vars
=============================================================================
