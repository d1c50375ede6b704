----------------------------- MODULE FuncTable -----------------------------
(***************************************************************************)
(* The function tables of the profiler (src/pintool/calltrace.cpp): an     *)
(* array of _Func entries filled from index 0, a counter of the entries in *)
(* use, and a map from a function's name to its index.  The tool keeps two *)
(* of them: Func/Functions, filled by the static pass over each routine,   *)
(* and _DynamicFunc/FunctionsDy, filled by the analysis callbacks.         *)
(*                                                                         *)
(* A table is a record.  Slot -1 is the memory in front of the array,      *)
(* which do_call_plt and Jit_Malloc_IA32 reach when the global index they  *)
(* use is still -1: the entries are plain structures in static storage, so *)
(* the write lands in whatever precedes the array.                         *)
(***************************************************************************)
EXTENDS Integers, FiniteSets, Sequences

CONSTANTS Names,      \* what FormProperFunctionName can return
          NoName,     \* the name of an entry that was never initialised
          Keys,       \* code addresses as the tool stores them (set<int>)
          MAX_FUNCS   \* the length of both arrays

ASSUME MaxFuncsAssumption == MAX_FUNCS \in Nat \ {0}
ASSUME NoNameAssumption == NoName \notin Names

None == -1                        \* prevIndex = -1, "not found"
Slots == -1 .. MAX_FUNCS - 1

Entry == [name : Names \cup {NoName}, nBranches : Nat, nCodeSize : Nat,
          nNoOfCalls : Nat, memoryAlloc1 : Nat, avloops : Nat,
          nStackSize : Nat, InstrExe : SUBSET Keys,
          calledFuncs : SUBSET Slots, loads : Nat]

\* Static storage: every field of an unused entry is zero or empty.
BlankEntry == [name |-> NoName, nBranches |-> 0, nCodeSize |-> 0,
               nNoOfCalls |-> 0, memoryAlloc1 |-> 0, avloops |-> 0,
               nStackSize |-> 0, InstrExe |-> {},
               calledFuncs |-> {}, loads |-> 0]

Table == [index : [Names -> Slots], n : 0 .. MAX_FUNCS, func : [Slots -> Entry]]

EmptyTable == [index |-> [m \in Names |-> None], n |-> 0,
               func |-> [i \in Slots |-> BlankEntry]]

\* The counter has reached MAX_FUNCS: exit(0) has been called.
Full(tab) == tab.n = MAX_FUNCS

----------------------------------------------------------------------------
(* GetFunctionIndex(tab, m) is the table after the lookup of m.  A name    *)
(* that is not in the map gets the next index; when this takes the counter *)
(* to MAX_FUNCS the process exits before the entry is initialised, and no  *)
(* later statement of any handler runs (a full table no longer changes).   *)

InitEntry(e, m) ==
    [name |-> m, nBranches |-> 0, nCodeSize |-> 0, nNoOfCalls |-> 0,
     memoryAlloc1 |-> 0, avloops |-> 0, nStackSize |-> e.nStackSize,
     InstrExe |-> e.InstrExe, calledFuncs |-> e.calledFuncs, loads |-> e.loads]

Registered(tab, m) == tab.index[m] # None

\* Seeded bugs (used only to confirm that the properties can fail): the name
\* is not looked up first; the index is the counter after its increment.
GetFunctionIndex_NoLookup(tab, m) ==
    IF Full(tab) THEN tab
    ELSE [index |-> [tab.index EXCEPT ![m] = tab.n],
          n     |-> tab.n + 1,
          func  |-> [tab.func EXCEPT ![tab.n] = InitEntry(@, m)]]
GetFunctionIndex_PreIncrement(tab, m) ==
    IF Full(tab) \/ Registered(tab, m) THEN tab
    ELSE [index |-> [tab.index EXCEPT ![m] = tab.n + 1],
          n     |-> tab.n + 1,
          func  |-> [tab.func EXCEPT ![tab.n] = InitEntry(@, m)]]

GetFunctionIndex(tab, m) ==
    IF Full(tab) \/ Registered(tab, m) THEN tab
    ELSE [index |-> [tab.index EXCEPT ![m] = tab.n],
          n     |-> tab.n + 1,
          func  |-> IF tab.n + 1 = MAX_FUNCS THEN tab.func
                    ELSE [tab.func EXCEPT ![tab.n] = InitEntry(@, m)]]

----------------------------------------------------------------------------
(* What the handlers do to the entries.                                    *)

Put(tab, i, entry) ==
    [index |-> tab.index, n |-> tab.n, func |-> [tab.func EXCEPT ![i] = entry]]

AddEdge(tab, i, j) == Put(tab, i, [tab.func[i] EXCEPT !.calledFuncs = @ \cup {j}])
CountCall(tab, j) == Put(tab, j, [tab.func[j] EXCEPT !.nNoOfCalls = @ + 1])

\* Seeded bugs: the caller's count grows; only a new edge counts; the edge is
\* stored with the callee.
AddCall_CountsCaller(tab, i, j) == CountCall(AddEdge(tab, i, j), i)
AddCall_CountsEdges(tab, i, j) ==
    IF j \in tab.func[i].calledFuncs THEN tab ELSE CountCall(AddEdge(tab, i, j), j)
AddCall_Reversed(tab, i, j) == CountCall(AddEdge(tab, j, i), j)

\* calledFuncs.insert(j) on the caller, nNoOfCalls++ on the callee.
AddCall(tab, i, j) == CountCall(AddEdge(tab, i, j), j)

\* A seeded bug: an allocation replaces the earlier ones.
AddBytes_Last(tab, i, size) == Put(tab, i, [tab.func[i] EXCEPT !.memoryAlloc1 = size])

AddBytes(tab, i, size) == Put(tab, i, [tab.func[i] EXCEPT !.memoryAlloc1 = @ + size])

\* InstrExe.insert(key), and nCodeSize grows when the key is new.
AddBlock(tab, i, key, len) ==
    LET e == tab.func[i]
    IN  IF key \in e.InstrExe THEN tab
        ELSE Put(tab, i, [e EXCEPT !.InstrExe = @ \cup {key}, !.nCodeSize = @ + len])

AddBranch(tab, i) == Put(tab, i, [tab.func[i] EXCEPT !.nBranches = @ + 1])
AddLoads(tab, i, k) == Put(tab, i, [tab.func[i] EXCEPT !.loads = @ + k])
AddAvloop(tab, i) == Put(tab, i, [tab.func[i] EXCEPT !.avloops = @ + 1])
SetCodeSize(tab, i, k) == Put(tab, i, [tab.func[i] EXCEPT !.nCodeSize = k])
SetBranches(tab, i, k) == Put(tab, i, [tab.func[i] EXCEPT !.nBranches = k])

\* The first frame size seen for a function is the one that is kept.
SetStackSize(tab, i, size) ==
    IF tab.func[i].nStackSize # 0 THEN tab
    ELSE Put(tab, i, [tab.func[i] EXCEPT !.nStackSize = size])

----------------------------------------------------------------------------
(* What every table satisfies, whatever the order of the calls above.      *)

\* The map and the array describe the same numbering: each index in use has
\* a name of its own (the entry that made the table full has none yet).
NumberingOK(tab) ==
    /\ \A m \in Names : tab.index[m] \in -1 .. tab.n - 1
    /\ \A m1, m2 \in Names : 
          tab.index[m1] = tab.index[m2] /\ Registered(tab, m1) => m1 = m2
    /\ ~ Full(tab) => \A i \in 0 .. tab.n - 1 :
                         /\ tab.func[i].name \in Names
                         /\ tab.index[tab.func[i].name] = i

\* The calls of every entry lead to entries in use.
CallsClosed(tab) == \A i \in Slots : tab.func[i].calledFuncs \subseteq 0 .. tab.n - 1

\* An entry past the counter has never been written to.
SpareBlank(tab) == \A i \in tab.n .. MAX_FUNCS - 1 : tab.func[i] = BlankEntry

\* A function has a call count exactly when some entry has an edge to it.
CountsMatchEdges(tab) ==
    \A j \in Slots : tab.func[j].nNoOfCalls > 0
                        <=> \E i \in Slots : j \in tab.func[i].calledFuncs

TableOK(tab) == /\ tab \in Table
                /\ NumberingOK(tab)
                /\ CallsClosed(tab)
                /\ SpareBlank(tab)
                /\ CountsMatchEdges(tab)
=============================================================================
