----------------------------- MODULE CallTrace -----------------------------
(***************************************************************************)
(* The profiler: src/pintool/calltrace.cpp, a Pin tool.                    *)
(*                                                                         *)
(* Pin calls Routine once for each routine of an image it loads, and the   *)
(* analysis callbacks (do_procedurecall, do_call_plt, CountInstr, ...) from *)
(* the threads of the profiled program as they run.  The callbacks share   *)
(* the tables and the two globals prevIndex and prevIndexforMalloc, which  *)
(* carry the caller from the call into the procedure linkage table to the  *)
(* indirect jump that leaves it, and from the call to the allocation.      *)
(* Nothing locks them.  Each callback is one step here, and the threads    *)
(* interleave between callbacks; one instruction of Routine's loop is one  *)
(* step.  What the program does between callbacks is in pc, from, frames:  *)
(* the profiled program is not part of the repository's tool, and these    *)
(* variables say only which callback its control flow can reach next.      *)
(***************************************************************************)
EXTENDS FuncTable

CONSTANTS
    Threads,
    LibCall,        \* "Library_Call": the name given to every .plt address
    Malloc,         \* the routine Image replaces by Jit_Malloc_IA32
    MallocNames,    \* the names that contain "malloc"
    TailJumps,      \* may the program jump (not call) into the .plt?
    Routines, NoRtn,
    RtnName,        \* [Routines -> Names]
    RtnImage,       \* [Routines -> Images]
    RtnBody,        \* [Routines -> Seq(Instr)]
    Images,
    Sites,          \* instrumented basic blocks, branches, loads, SUB esp
    SiteName, SiteKey, SiteLen,
    Sizes,          \* sizes the program passes to malloc
    MAX_LOADS,
    MaxCalls, MaxBytes, MaxDepth, MaxSteps   \* bounds on the exploration

\* What Routine looks at in an instruction: the name of its direct call
\* target, whether it branches, whether its first operand is an xmm
\* register, and the immediate it subtracts from esp.
Instr == [callee : Names \cup {NoName}, branch : BOOLEAN,
          xmm : BOOLEAN, frame : Nat]

ASSUME NamesAssumption ==
    /\ LibCall \in Names
    /\ Malloc \in MallocNames
    /\ MallocNames \subseteq Names \ {LibCall}
ASSUME RoutinesAssumption ==
    /\ NoRtn \notin Routines
    /\ RtnName \in [Routines -> Names]
    /\ RtnImage \in [Routines -> Images]
    /\ RtnBody \in [Routines -> Seq(Instr)]
ASSUME SitesAssumption ==
    /\ SiteName \in [Sites -> Names]
    /\ SiteKey \in [Sites -> Keys]
    /\ SiteLen \in [Sites -> Nat]
ASSUME BoundsAssumption ==
    /\ Sizes \subseteq Nat
    /\ MAX_LOADS \in Nat \ {0}
    /\ TailJumps \in BOOLEAN
    /\ {MaxCalls, MaxBytes, MaxDepth, MaxSteps} \subseteq Nat

VARIABLES
    st, dy,               \* Func/Functions and _DynamicFunc/FunctionsDy
    prevIndex, prevIndexforMalloc,
    setBranchesExe,
    mapImg,               \* nStaticFuncCount, nDynamicFuncCount by image
    mapTempFunc,          \* is there any key in it?
    phase,                \* of the process
    staticXML, dynamicXML,
    pc, from, frames,     \* the program: control, caller, mallocs in progress
    rtn, ip,              \* Routine's local variables
    opened,               \* the routines Routine has processed
    calls, bytes, steps   \* history: transfers recorded, bytes requested

tables == <<st, dy>>
globals == <<prevIndex, prevIndexforMalloc>>
images == <<mapImg, mapTempFunc>>
files == <<staticXML, dynamicXML>>
program == <<pc, from, frames>>
local == <<rtn, ip, opened>>
history == <<calls, bytes, steps>>
vars == <<tables, globals, setBranchesExe, images, phase, files, program,
          local, history>>

NoFile == [nodes |-> 0, edges |-> {}, samples |-> << >>, complete |-> FALSE]
NodeIds(file) == 0 .. file.nodes - 1

Init ==
    /\ st = EmptyTable
    /\ dy = EmptyTable
    /\ prevIndex = None
    /\ prevIndexforMalloc = None
    /\ setBranchesExe = {}
    /\ mapImg = [i \in Images |-> [static |-> 0, dynamic |-> 0]]
    /\ mapTempFunc = FALSE
    /\ phase = "run"
    /\ staticXML = NoFile
    /\ dynamicXML = NoFile
    /\ pc = [t \in Threads |-> "run"]
    /\ from = [t \in Threads |-> NoName]
    /\ frames = [t \in Threads |-> << >>]
    /\ rtn = NoRtn
    /\ ip = 0
    /\ opened = {}
    /\ calls = 0
    /\ bytes = 0
    /\ steps = 0

Runs(t) == phase = "run" /\ pc[t] = "run"
Goto(t, label) == pc' = [pc EXCEPT ![t] = label]

\* The new dynamic table (static table) of a callback, and whether the
\* callback went past the limit: then exit(0) ends the process inside it.
Dynamic(tab) == dy' = tab /\ phase' = IF Full(tab) THEN "exited" ELSE phase
Static(tab) == st' = tab /\ phase' = IF Full(tab) THEN "exited" ELSE phase

Step == steps < MaxSteps /\ steps' = steps + 1

----------------------------------------------------------------------------
(* The dynamic call graph.                                                 *)

\* A call from src to tgt: do_procedurecall.  The call is recorded unless it
\* goes to the .plt, in which case src is kept for do_call_plt.
ProcedureCall(t, src, tgt) ==
    LET tab == GetFunctionIndex(GetFunctionIndex(dy, src), tgt)
        s == tab.index[src]
    IN  /\ Runs(t) /\ calls < MaxCalls
        /\ IF Full(tab)
           THEN Dynamic(tab) /\ UNCHANGED <<globals, program, calls>>
           ELSE /\ prevIndexforMalloc' =
                       IF tgt \in MallocNames /\ prevIndexforMalloc = None
                       THEN s ELSE prevIndexforMalloc
                /\ IF tgt = LibCall
                   THEN /\ prevIndex' = s
                        /\ Dynamic(tab)
                        /\ calls' = calls
                   ELSE /\ prevIndex' = None
                        /\ Dynamic(AddCall(tab, s, tab.index[tgt]))
                        /\ calls' = calls + 1
                /\ Goto(t, CASE tgt = LibCall -> "plt"
                             [] tgt = Malloc -> "malloc"
                             [] OTHER -> "run")
                /\ from' = [from EXCEPT ![t] = IF tgt \in {LibCall, Malloc}
                                               THEN src ELSE NoName]
                /\ UNCHANGED frames
        /\ UNCHANGED <<st, setBranchesExe, images, files, local, bytes, steps>>

\* The program leaves a function by a jump to another one through the .plt
\* (a sibling call): no callback looks at it.
TailJump(t, src) ==
    /\ TailJumps /\ Runs(t)
    /\ Goto(t, "plt")
    /\ from' = [from EXCEPT ![t] = src]
    /\ UNCHANGED <<tables, globals, setBranchesExe, images, phase, files,
                   frames, local, history>>

\* The indirect jump that leaves the .plt: do_call_plt.  It goes to the callee
\* and not to the dynamic linker, because the scripts export LD_BIND_NOW=1.
\* Nothing checks that prevIndex is a function; -1 selects the memory in front
\* of the array.
CallPlt(t, tgt) ==
    LET tab == GetFunctionIndex(dy, tgt)
    IN  /\ phase = "run" /\ pc[t] = "plt" /\ calls < MaxCalls
        /\ IF Full(tab)
           THEN Dynamic(tab) /\ UNCHANGED <<globals, program, calls>>
           ELSE /\ prevIndexforMalloc' =
                       IF tgt \in MallocNames /\ prevIndexforMalloc = None
                       THEN prevIndex ELSE prevIndexforMalloc
                /\ UNCHANGED <<prevIndex, frames>>
                /\ Dynamic(AddCall(tab, prevIndex, tab.index[tgt]))
                /\ calls' = calls + 1
                /\ Goto(t, IF tgt = Malloc THEN "malloc" ELSE "run")
                /\ from' = [from EXCEPT ![t] = IF tgt = Malloc THEN @ ELSE NoName]
        /\ UNCHANGED <<st, setBranchesExe, images, files, local, bytes, steps>>

\* Jit_Malloc_IA32 takes the place of malloc and has the program run the
\* original function; other callbacks happen until that returns.
EnterMalloc(t) ==
    /\ phase = "run" /\ pc[t] = "malloc" /\ Len(frames[t]) < MaxDepth
    /\ frames' = [frames EXCEPT ![t] = Append(@, from[t])]
    /\ from' = [from EXCEPT ![t] = NoName]
    /\ Goto(t, "run")
    /\ UNCHANGED <<tables, globals, setBranchesExe, images, phase, files,
                   local, history>>

\* The original malloc has returned: the bytes go to prevIndexforMalloc,
\* whatever it is by now, and it is reset.
ReturnMalloc(t, size) ==
    /\ Runs(t) /\ frames[t] # << >> /\ bytes + size <= MaxBytes
    /\ Dynamic(AddBytes(dy, prevIndexforMalloc, size))
    /\ prevIndexforMalloc' = None
    /\ frames' = [frames EXCEPT ![t] = SubSeq(@, 1, Len(@) - 1)]
    /\ bytes' = bytes + size
    /\ UNCHANGED <<st, prevIndex, setBranchesExe, images, files, pc, from,
                   local, calls, steps>>

----------------------------------------------------------------------------
(* Metrics of the code that runs.                                          *)

\* A callback that finds or makes the entry of site s and applies Do to it.
AtSite(t, s, Do(_, _)) ==
    LET tab == GetFunctionIndex(dy, SiteName[s])
    IN  /\ Runs(t)
        /\ Dynamic(IF Full(tab) THEN tab ELSE Do(tab, tab.index[SiteName[s]]))
        /\ UNCHANGED <<st, globals, images, files, program, local, calls, bytes>>

CountInstr(t, s) ==
    /\ AtSite(t, s, LAMBDA tab, i : AddBlock(tab, i, SiteKey[s], SiteLen[s]))
    /\ UNCHANGED <<setBranchesExe, steps>>

\* A seeded bug: every execution of a branch counts.
CountBranchInstr_Every(t, s) ==
    /\ Step
    /\ setBranchesExe' = setBranchesExe \cup {SiteKey[s]}
    /\ AtSite(t, s, AddBranch)

\* Only the first execution of a branch looks its function up.
CountBranchInstr(t, s) ==
    /\ SiteKey[s] \notin setBranchesExe
    /\ setBranchesExe' = setBranchesExe \cup {SiteKey[s]}
    /\ AtSite(t, s, AddBranch)
    /\ UNCHANGED steps

\* A read of len bytes at offset off of a 16 byte chunk adds each chunk it
\* touches to the list of the function's loads.
Chunks(off, len) == (off + len - 1) \div 16 + 1
load(t, s, off, len) ==
    /\ Step
    /\ AtSite(t, s, LAMBDA tab, i : AddLoads(tab, i, Chunks(off, len)))
    /\ UNCHANGED setBranchesExe

StackSizeCount(t, s, size) ==
    /\ AtSite(t, s, LAMBDA tab, i : SetStackSize(tab, i, size))
    /\ UNCHANGED <<setBranchesExe, steps>>

\* The first instruction of routine r executes: RtnStart.  The keys it put
\* into mapTempFunc point into strings that are gone, so once there is one
\* the search may or may not take the function for one seen before.
RtnStart(t, r) ==
    /\ Runs(t) /\ r \in opened /\ Step
    /\ \E found \in IF mapTempFunc THEN BOOLEAN ELSE {FALSE} :
          mapImg' = IF found THEN mapImg
                    ELSE [mapImg EXCEPT ![RtnImage[r]].dynamic = @ + 1]
    /\ mapTempFunc' = TRUE
    /\ UNCHANGED <<tables, globals, setBranchesExe, phase, files, program,
                   local, calls, bytes>>

----------------------------------------------------------------------------
(* The static pass: Routine, one step per instruction of the routine.      *)

\* Pin runs it in thread t, which loads the image, one routine at a time.
OpenRoutine(t, r) ==
    LET tab == GetFunctionIndex(st, RtnName[r])
    IN  /\ Runs(t) /\ rtn = NoRtn /\ r \notin opened
        /\ mapImg' = [mapImg EXCEPT ![RtnImage[r]].static = @ + 1]
        /\ Static(tab)
        /\ rtn' = r
        /\ ip' = 0
        /\ Goto(t, "instrument")
        /\ UNCHANGED <<dy, globals, setBranchesExe, mapTempFunc, files, from,
                       frames, opened, history>>

\* The tables after Routine has looked at instruction ins of the routine
\* called m.  The xmm count goes to both tables: that of the dynamic one is
\* made here, while instrumenting, and registers the function.
StaticInstr(m, ins) ==
    LET i == st.index[m]
        fr == IF ins.frame = 0 THEN st ELSE SetStackSize(st, i, ins.frame)
        tab == IF ins.callee = NoName THEN fr ELSE GetFunctionIndex(fr, ins.callee)
        called == IF ins.callee = NoName \/ Full(tab) THEN tab
                  ELSE AddCall(tab, i, tab.index[ins.callee])
    IN  IF ins.xmm /\ ~ Full(tab) THEN AddAvloop(called, i) ELSE called
DynamicInstr(m, ins) ==
    LET tab == GetFunctionIndex(dy, m)
    IN  IF ~ ins.xmm THEN dy
        ELSE IF Full(tab) THEN tab ELSE AddAvloop(tab, tab.index[m])

RoutineInstr(t) ==
    LET ins == RtnBody[rtn][ip + 1]
        tab == StaticInstr(RtnName[rtn], ins)
    IN  /\ phase = "run" /\ pc[t] = "instrument" /\ ip < Len(RtnBody[rtn])
        /\ st' = tab
        /\ dy' = IF Full(tab) THEN dy ELSE DynamicInstr(RtnName[rtn], ins)
        /\ phase' = IF Full(tab) \/ Full(dy') THEN "exited" ELSE phase
        /\ ip' = ip + 1
        /\ UNCHANGED <<globals, setBranchesExe, images, files, program, rtn,
                       opened, history>>

\* After the loop: the totals of the routine replace what the entry held.
CloseRoutine(t) ==
    LET body == RtnBody[rtn]
        i == st.index[RtnName[rtn]]
        nBranchCount == Cardinality({k \in 1 .. Len(body) : body[k].branch})
    IN  /\ phase = "run" /\ pc[t] = "instrument" /\ ip = Len(body)
        /\ Static(SetBranches(SetCodeSize(st, i, Len(body)), i, nBranchCount))
        /\ opened' = opened \cup {rtn}
        /\ rtn' = NoRtn
        /\ ip' = 0
        /\ Goto(t, "run")
        /\ UNCHANGED <<dy, globals, setBranchesExe, images, files, from,
                       frames, history>>

----------------------------------------------------------------------------
(* Fini: the files.  The program has ended.                                *)

\* The edges of a file: the loop runs to funccounter inclusive, and a source
\* is the id stored in the entry (zero in one that was never initialised).
Id(tab, i) == IF tab.func[i].name = NoName THEN 0 ELSE i
EdgesOf(tab, i) == {<<Id(tab, i), j>> : j \in tab.func[i].calledFuncs}
Edges(tab) == UNION {EdgesOf(tab, i) : i \in 0 .. tab.n}

\* WriteToXMLFile("StaticCG.xml").  _DynamicFunc is declared after Func: a
\* build that lays them out in this order has made the writes at index -1
\* of the dynamic table in the last entry of Func, which the inclusive loop
\* reads when the static counter is MAX_FUNCS - 1.
WriteStatic ==
    /\ phase = "run" /\ rtn = NoRtn
    /\ phase' = "dynamic"
    /\ \E spill \in IF st.n = MAX_FUNCS - 1
                    THEN {{}, {<<0, j>> : j \in dy.func[None].calledFuncs}}
                    ELSE {{}} :
          staticXML' = [NoFile EXCEPT !.nodes = st.n, !.complete = TRUE,
                                      !.edges = Edges(st) \cup spill]
    /\ UNCHANGED <<tables, globals, setBranchesExe, images, dynamicXML,
                   program, local, history>>

\* The number of loads of a function that are written to its ld. file: every
\* nModFactor-th one.
Samples_Fewer(total) ==        \* a seeded bug: the step is rounded up
    LET nModFactor == total \div MAX_LOADS + 1
    IN  (total + nModFactor - 1) \div nModFactor
Samples(total) ==
    LET nModFactor == IF total < MAX_LOADS THEN 1 ELSE total \div MAX_LOADS
    IN  (total + nModFactor - 1) \div nModFactor

\* One node of DynamicCG.xml, after its ld. file.  The lookup of its static code size may add
\* the function to the static table; a larger dynamic code size is replaced.
WriteDynamicNode ==
    LET i == dynamicXML.nodes
        m == dy.func[i].name
        tab == GetFunctionIndex(st, m)
        size == tab.func[tab.index[m]].nCodeSize
    IN  /\ phase = "dynamic" /\ i < dy.n
        /\ Static(tab)
        /\ dy' = IF ~ Full(tab) /\ size # 0 /\ size < dy.func[i].nCodeSize
                 THEN SetCodeSize(dy, i, size) ELSE dy
        /\ dynamicXML' = [dynamicXML EXCEPT
                             !.samples = Append(@, Samples(dy.func[i].loads)),
                             !.nodes = IF Full(tab) THEN @ ELSE @ + 1]
        /\ UNCHANGED <<globals, setBranchesExe, images, staticXML, program,
                       local, history>>

\* The edges of DynamicCG.xml, then WriteLibUtilFile.
WriteDynamicEdges ==
    /\ phase = "dynamic" /\ dynamicXML.nodes = dy.n
    /\ phase' = "done"
    /\ dynamicXML' = [dynamicXML EXCEPT !.edges = Edges(dy), !.complete = TRUE]
    /\ UNCHANGED <<tables, globals, setBranchesExe, images, staticXML,
                   program, local, history>>

\* The process has ended.
Terminated == phase \in {"done", "exited"} /\ UNCHANGED vars

Fini == WriteStatic \/ WriteDynamicNode \/ WriteDynamicEdges
----------------------------------------------------------------------------
Transfer(t) ==
    \/ \E src \in Names \ {LibCall}, tgt \in Names : ProcedureCall(t, src, tgt)
    \/ \E src \in Names \ {LibCall} : TailJump(t, src)
    \/ \E tgt \in Names \ {LibCall} : CallPlt(t, tgt)
    \/ EnterMalloc(t)
    \/ \E size \in Sizes : ReturnMalloc(t, size)

Measure(t) ==
    \/ \E s \in Sites : \/ CountInstr(t, s)
                        \/ CountBranchInstr(t, s)
                        \/ \E off \in {0, 12} : load(t, s, off, 8)
                        \/ StackSizeCount(t, s, SiteLen[s])
    \/ \E r \in Routines : RtnStart(t, r)

Instrument(t) ==
    \/ \E r \in Routines : OpenRoutine(t, r)
    \/ RoutineInstr(t)
    \/ CloseRoutine(t)

Next == \/ \E t \in Threads : Transfer(t) \/ Measure(t) \/ Instrument(t)
        \/ Fini
        \/ Terminated

Spec == Init /\ [][Next]_vars
----------------------------------------------------------------------------
(* Type invariant.                                                         *)

File == [nodes : Nat, edges : SUBSET (Slots \X Slots), samples : Seq(Nat),
         complete : BOOLEAN]

\* Every variable has its type.
TypeOK ==
    /\ st \in Table /\ dy \in Table
    /\ prevIndex \in Slots /\ prevIndexforMalloc \in Slots
    /\ setBranchesExe \subseteq Keys
    /\ mapImg \in [Images -> [static : Nat, dynamic : Nat]]
    /\ mapTempFunc \in BOOLEAN
    /\ phase \in {"run", "exited", "dynamic", "done"}
    /\ staticXML \in File /\ dynamicXML \in File
    /\ pc \in [Threads -> {"run", "plt", "malloc", "instrument"}]
    /\ from \in [Threads -> Names \cup {NoName}]
    /\ frames \in [Threads -> Seq(Names \cup {NoName})]
    /\ rtn \in Routines \cup {NoRtn} /\ ip \in Nat /\ opened \subseteq Routines
    /\ calls \in Nat /\ bytes \in Nat /\ steps \in Nat

----------------------------------------------------------------------------
(* Safety.                                                                 *)

\* Both tables number the functions one to one through every interleaving of
\* the callbacks that share them: two indices never carry the same name, so
\* no function is two nodes of a graph (_static_/_dynamic_GetFunctionIndex).
Numbering == NumberingOK(st) /\ NumberingOK(dy)

\* The globals that carry the caller from one callback to another name an
\* entry in use, or none: after any history of calls, jumps and allocations
\* the write do_call_plt and Jit_Malloc_IA32 make without a check lands in a
\* registered function or right in front of the array, and nowhere else.
GlobalsInRange == {prevIndex, prevIndexforMalloc} \subseteq -1 .. dy.n - 1

\* The counts of calls and the edges are two records of the same events: a
\* node shows a call count exactly when some caller has an edge to it.
CallCounts == CountsMatchEdges(st) /\ CountsMatchEdges(dy)

\* WriteToXMLFile's edge loop runs one entry past the counter.  That entry
\* exists (the process exits before the counter can pass the array) and is
\* still blank, so a file that is complete names no node it does not define,
\* which GraphMLReader would refuse.  The exception is the static file when
\* its counter is MAX_FUNCS - 1: the extra entry is then the memory that
\* do_call_plt wrote to with prevIndex = -1.
Defines(file) == \A e \in file.edges : {e[1], e[2]} \subseteq NodeIds(file)
GraphFilesDefined ==
    /\ phase \in {"run", "dynamic"} => st.n < MAX_FUNCS /\ dy.n < MAX_FUNCS
    /\ Defines(dynamicXML)
    /\ staticXML.nodes # MAX_FUNCS - 1 \/ dy.func[None].calledFuncs = {}
          => Defines(staticXML)

SlotSum(f, S) ==
    LET g[n \in 0 .. MAX_FUNCS] ==
        IF n = 0 THEN (IF None \in S THEN f[None] ELSE 0)
        ELSE g[n - 1] + (IF n - 1 \in S THEN f[n - 1] ELSE 0)
    IN  g[MAX_FUNCS]

\* No call is lost or counted twice: the counts add up to the number of
\* transfers do_procedurecall and do_call_plt recorded, even those whose
\* caller they did not know.
CallsConserved == SlotSum([i \in Slots |-> dy.func[i].nNoOfCalls], Slots) = calls

\* No byte is lost or charged twice by the tool: the charges of all entries
\* and of the slot in front of them add up to the bytes requested.
BytesConserved == SlotSum([i \in Slots |-> dy.func[i].memoryAlloc1], Slots) = bytes

\* Each executed branch is counted for one function only: registering another
\* function later never loses a count.
BranchesConserved ==
    dy.n < MAX_FUNCS =>
        SlotSum([i \in Slots |-> dy.func[i].nBranches], Slots)
            = Cardinality(setBranchesExe)

\* When the tool ends normally, every function of the dynamic graph is in the
\* static table, it is shown with no more code than the static pass measured
\* (although the blocks Pin reports overlap), and its load profile has at
\* least MAX_LOADS samples, or all the loads, and less than twice MAX_LOADS.
ProfilesAgree ==
    phase = "done" =>
        \A i \in NodeIds(dynamicXML) :
            LET e == dy.func[i]
                j == st.index[e.name]
                k == dynamicXML.samples[i + 1]
            IN  /\ j # None
                /\ st.func[j].nCodeSize # 0 => e.nCodeSize <= st.func[j].nCodeSize
                /\ IF e.loads < MAX_LOADS THEN k = e.loads
                   ELSE k >= MAX_LOADS /\ k < 2 * MAX_LOADS

----------------------------------------------------------------------------
(* Action properties.                                                      *)

\* The index of a function, and an edge of the graph, are for ever: no later
\* callback renumbers a function or forgets a call, whichever thread it is in.
GraphOnlyGrows ==
    [][/\ \A m \in Names : Registered(dy, m) => dy'.index[m] = dy.index[m]
       /\ \A i \in Slots : dy.func[i].calledFuncs \subseteq dy'.func[i].calledFuncs
       /\ \A i \in 0 .. dy.n - 1 : dy'.func[i].name = dy.func[i].name]_vars

----------------------------------------------------------------------------
(* The inductive invariant behind the safety properties.                   *)

\* The process runs only while both tables have an unused entry.
RoomLeft == phase \in {"run", "dynamic"} => ~ Full(st) /\ ~ Full(dy)

\* At most one thread is in Routine, and it has a routine.
OneInRoutine == \A t \in Threads : pc[t] = "instrument" =>
                    rtn \in Routines /\ \A u \in Threads : pc[u] = "instrument" => u = t

\* Nothing is written before Fini, and the edges of a graph come last.
FilesInOrder == /\ phase = "run" => staticXML.edges = {}
                /\ phase # "done" => dynamicXML.edges = {}

Inv == /\ TypeOK /\ TableOK(st) /\ TableOK(dy) /\ GlobalsInRange
       /\ RoomLeft /\ OneInRoutine /\ FilesInOrder /\ GraphFilesDefined

----------------------------------------------------------------------------
(* The dynamic graph.  The manual promises the functions that were called  *)
(* (Help/dynamicgraph.html); the tool does not keep this.                  *)

HasRun(e) ==
    \/ e.calledFuncs # {} \/ e.nNoOfCalls > 0 \/ e.InstrExe # {}
    \/ e.nBranches > 0 \/ e.loads > 0 \/ e.nStackSize > 0

\* A node that shows no activity has one of three causes: it is the name of
\* all .plt addresses, it is the caller of a library call not yet resolved, or
\* Routine has found an xmm instruction in it while it loaded the image.  The
\* last one is a function that need never be called, and yet is a node.
NodesAccounted ==
    phase # "exited" => \A i \in 0 .. dy.n - 1 :
        \/ HasRun(dy.func[i]) \/ dy.func[i].avloops > 0
        \/ dy.func[i].name = LibCall \/ i = prevIndex

----------------------------------------------------------------------------
(* The refinement.  The graph of the entries in use, by names.             *)

EdgesByName(tab) ==
    UNION {{<<tab.func[i].name, tab.func[j].name>> : j \in tab.func[i].calledFuncs}
              : i \in 0 .. tab.n - 1}
BytesByName(tab) == [m \in Names |-> IF Registered(tab, m)
                                     THEN tab.func[tab.index[m]].memoryAlloc1 ELSE 0]
InStub == [t \in Threads |-> IF pc[t] = "plt" THEN from[t] ELSE NoName]
Requests == [t \in Threads |-> IF pc[t] = "malloc" THEN Append(frames[t], from[t])
                               ELSE frames[t]]

Profile == INSTANCE CallProfile WITH
    edges <- EdgesByName(dy), alloc <- BytesByName(dy),
    waiting <- InStub, requests <- Requests

\* The tables are a profile of the program: each edge is a call that took
\* place between these two functions, none is missing, and every allocation
\* is charged to the function that asked for it.
IsCallProfile == Profile!Spec

----------------------------------------------------------------------------
(* One thread.  What NodesAccounted and IsCallProfile need on top of Inv.   *)

OneThread == \A s, t \in Threads : s = t

\* The program makes no sibling calls into the .plt, the allocator does not
\* allocate, and no other function is taken for it.
PlainCalls == ~ TailJumps /\ MaxDepth <= 1 /\ MallocNames = {Malloc}

\* No instruction takes a frame of no bytes: then each measure shows.
FramesShow == \A s \in Sites : SiteLen[s] > 0

\* Only while the thread is in the .plt does a node wait for its first edge.
NodesSeen ==
    phase # "exited" => \A i \in 0 .. dy.n - 1 :
        \/ HasRun(dy.func[i]) \/ dy.func[i].avloops > 0
        \/ dy.func[i].name = LibCall
        \/ i = prevIndex /\ \E t \in Threads : pc[t] = "plt"

\* Index i is that of the function called m.
IndexOf(tab, m, i) == m \in Names /\ Registered(tab, m) /\ i = tab.index[m]

\* While the thread is between two callbacks of a call or an allocation, the
\* global is the index of the function that made it.
CallersKnown ==
    phase = "run" => \A t \in Threads :
        /\ pc[t] = "plt" => IndexOf(dy, from[t], prevIndex)
        /\ pc[t] = "malloc" => from[t] \in Names
        /\ Len(frames[t]) <= 1
        /\ IF Requests[t] = << >> THEN prevIndexforMalloc = None
           ELSE IndexOf(dy, Requests[t][1], prevIndexforMalloc)
=============================================================================
