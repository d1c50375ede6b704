# Glimpses in TLA+

Glimpses profiles a binary and shows what it did. A Pin tool written in C++
(`src/pintool/calltrace.cpp`) instruments the program, counts, and writes two
call graphs and a set of metric files when the program ends. A shell script
runs it, and a Java viewer built on a bundled copy of the prefuse toolkit
(`src/prefuse-beta`) reads the files, draws the graphs and animates them.

This directory holds TLA+ modules for the parts with state worth arguing
about, TLC configurations that check them on small instances, and TLAPS proofs
of what holds for every instance.

## 1. The system

### Components

| Component | State | Operations | What makes it correct |
|---|---|---|---|
| Function tables (`calltrace.cpp` 68-89, 137-142, 230-289) | for the static and for the dynamic graph: an array of `MAX_FUNCS` entries, a counter, a map from name to index | look a name up or register it; update an entry; `exit(0)` when full | one index for each name and one name for each index; edges lead to entries in use; entries past the counter are blank; counts and edges are about the same calls |
| Profiler callbacks (290-441, 640-700, 947-965) | the dynamic table, the globals `prevIndex` and `prevIndexforMalloc`, the branches seen, calls by library | calls and jumps out of the `.plt`, allocations, blocks, branches, loads, stack frames, routine starts | an edge for each call that took place and no other; every call and byte counted once, for the function it belongs to |
| Static pass (`Routine`, 702-943) | the static table, the routine in hand | one routine at a time, one instruction at a time | the static node has the calls, branches and size of its routine |
| Output (`Fini`, 1080-1207) | the tables, the files | StaticCG.xml, DynamicCG.xml with its `ld.` files, LibUtil | a file defines every node it refers to; static and dynamic metrics agree |
| Control flow graphs (443-625) | four lists, three of them cleared after a routine | scan for leaders, build blocks, link them, write a dot file | the blocks cut the routine up at its branches, and the file shows its flow |
| Name reduction (155-228) | none; the name as it is worked on | identifier of a C++ symbol, `Library_Call` for `.plt`, an address for `.text` | reads only the symbol; a function is entered under its own name |
| Scheduler (`ActivityManager.java`, `Activity.java`) | one live manager thread; its list, its copy of the list, its wake-up time; for each activity a start time, two flags and a list of listeners | schedule now, at a time, or after another activity; cancel; stop; the loop | what is scheduled runs and ends, once; flags tell the truth; nobody waits for ever |
| Activity map (`ActivityMap.java`) | names of activities | lookup, then one scheduler call | none of its own |
| Graph tables (`Graph.java`, `Table.java`, `RowManager.java`, `TupleManager.java`) | rows of both tables, adjacency lists kept from the tables' events, tuples, a spanning tree | add, change and remove nodes and edges; clear; tuples; spanning tree | no row in use twice, no edge to a removed node; lists, tuples and tree are those of the tables, also while listeners are told of a change |
| GraphML reader (`GraphMLReader.java`) | the graph so far, the nodes by id | one handler for each element | the graph is the document's, and what has no meaning is refused |
| Viewer (`GraphView.java`, `FocusControl.java`) | two views, static fields shared by them, the selection of each, what was last clicked | click, menu, tabs, open, walk over the reachable functions, search, show metrics | the selection is of the graph that is shown, the function table adds up the selection, a walk selects what is reachable |
| Scripts (`WorkBench/profile-*`) | directories `temp` and `output` | remove, run Pin, copy | output belongs to the run that reported success |

### How they interact

* The static pass and the callbacks share the tables. Pin runs `Routine` when
  an image is loaded, in a thread of the program, while other threads run;
  nothing in the tool takes a lock.
* A call through the `.plt` is two callbacks. `do_procedurecall` sees a call to
  `Library_Call` and keeps the caller in `prevIndex`; `do_call_plt` sees the
  indirect jump that leaves the stub and takes `prevIndex` for the caller. An
  allocation is three: the call keeps `prevIndexforMalloc`, the replacement of
  `malloc` runs the original one, and charges the bytes when that returns.
* `Fini` writes the static graph, then walks the dynamic table and looks each
  function up in the static one, which registers it there if it is new.
* The viewer's threads (Swing's and any other) call the scheduler, whose thread
  runs the activities; their listeners call the scheduler back. `Activity` and
  `ActivityManager` objects are monitors, and methods of each call the other.

### What is hard here

Callbacks of several threads over shared globals; state kept from one callback
to a later one; arrays that fill up, with `exit(0)` in the middle of a
callback; loops that run one entry past a counter; lists that are not cleared;
two monitors taken in both orders; notifications that nobody waits for yet; a
check in one synchronized block and the use in another; an activity cancelled,
or run again, while the loop holds a copy of it; exceptions that end a thread.
`PROJECT.json` lists each hazard at its line with the properties that cover it.

## 2. The modules

| Module | Contents |
|---|---|
| `FuncTable` | a function table as a record, lookup with registration, the updates the handlers make, and the parts of a table's consistency |
| `CallTrace` | the profiler: callbacks, static pass, output, and the refinement mapping to `CallProfile`; extends `FuncTable` |
| `CallProfile` | what a profile of calls and allocations promises, with names and without tables or globals |
| `MCCallTrace` | instances of `CallTrace` |
| `CallTrace_proofs` | what an update of a table preserves; the invariant of the profiler, what is conserved, what only grows, what the files say; with one thread, the refinement of `CallProfile` |
| `DataLemmas` | functions defined by recursion, sequences with an entry added or taken out |
| `BasicBlocks`, `BasicBlocks_proofs` | the control flow graph builder on arbitrary routines, and its invariant |
| `NameReduction`, `MCNameReduction`, `NameReduction_proofs` | the name a routine is entered under, from its symbol; for symbols of any length |
| `ActivityManager`, `MCActivityManager`, `ActivityManager_proofs` | the scheduler, and its invariants: of all programs, of one thread scheduling each activity, of the balance of events |
| `RowManager` | the rows of a table and the tuples handed out for them, as records |
| `Graph` | node table, edge table and what the graph keeps beside them; extends `RowManager` |
| `Multigraph` | what a graph promises, without rows and lists |
| `GraphMLReader`, `MCGraphMLReader` | the reader's handlers, composed with the `Graph` they make; the refinement of `Multigraph` |
| `Graph_proofs` | the invariant of `Graph` and of the reader, the refinement, the spanning tree, and what a document means |
| `Viewer`, `MCViewer`, `Viewer_proofs` | selection, function table, context menu and reachability walk of the two views |
| `ProfileScript`, `MCProfileScript`, `ProfileScript_proofs` | runs of the `profile-*` scripts over one `temp` directory |

Definitions whose names end in `_Something` after the name of another
definition (`AddCall_Reversed`) are seeded bugs. No specification uses them;
putting one in the place of its original has to make a property fail.

### CallTrace and the code

`st` and `dy` are `Func`/`Functions` and `_DynamicFunc`/`FunctionsDy`. A slot
-1 stands for the memory in front of an array, where `do_call_plt` and
`Jit_Malloc_IA32` write when the index they find in a global is -1.
`_DynamicFunc` comes after `Func` in the source, so that this memory may be
the last entry of `Func`; `WriteStatic` has both outcomes.

Each analysis callback is an action (`ProcedureCall`, `CallPlt`, `CountInstr`,
`CountBranchInstr`, `load`, `StackSizeCount`, `RtnStart`) and so is each half of
`Jit_Malloc_IA32` (`EnterMalloc`, `ReturnMalloc`). Threads interleave between
callbacks. `Routine` is `OpenRoutine`, one `RoutineInstr` for each instruction,
and `CloseRoutine`; Pin runs one at a time. Jumps into the `.plt` that no
callback sees are `TailJump`. `Fini` is `WriteStatic`, one `WriteDynamicNode`
for each node and `WriteDynamicEdges`.

The profiled program is the environment. `pc`, `from` and `frames` only say
which callback its control flow can reach next: a thread in a stub leaves it,
a thread that called `malloc` enters it, and an allocation that was entered may
return. A stub leads to the callee itself, never into the dynamic linker: every
`profile-*` script exports `LD_BIND_NOW=1`. `calls` and `bytes` count what
happened, for the conservation properties.

`RtnStart` puts keys into a map that point into strings whose lifetime has
ended. A later search compares with whatever is there now, so that it may or
may not find the function: a nondeterministic choice. The maps of the function
tables are keyed by `c_str()` of a parameter, too, but there the entry of the
table keeps a copy of the name: with strings that share their characters, as
the compilers this tool was written for have them, the key is that copy's and
lives as long. With strings that do not, these lookups would compare with freed
memory as well; the model has names as keys.

### BasicBlocks and the code

A routine is any sequence of up to `MaxLen` instructions; an instruction has a
direct target (inside the routine, outside, or none) and a fall-through or not.
An address is a position, the same in each routine, so that later routines meet
what earlier ones left in `listBranchTargets`. Each loop of the code is a phase
and each iteration a step.

### ActivityManager and the code

Managers are numbered in the order `getInstance` creates them; a new one is
made when the thread of the last has ended. `mon[l]` is the thread inside the
monitor of `l`. A synchronized block that takes no second monitor is one step,
taken when its monitor is free; `_schedule`, `cancel` and `removeActivity`,
`_stop` and the copying loop take a second one inside, and are several steps
over which the first is held. Everything `_schedule` does outside of the
manager's monitor (`CheckScheduled`, `SetStartTime`) is a step of its own.

| Code | Actions |
|---|---|
| `run`, `runAt`, `runAfter`, `alwaysRunAfter` | `Run`, `RunAt`, `RunAfter`, then `CheckScheduled`, `SetStartTime`, `Add`, `Mark` |
| `Activity.cancel`, `_removeActivity` | `Cancel`, then `CancelUnscheduled`, or `CancelScheduled`, `RemoveActivity`, `FireCancelled` |
| `stopThread`, `_stop` | `StopThread`, `StopEnter`, `StopOne` with a cancel each, `StopDone` |
| `ActivityManager.run` | `Boot`, `KeepRunning`, `ActivityCount`, `CopyEnter`, `CopyOne`, `CopyDone`, the steps of `runActivity`, `AllRun`, `Wait`, `Timeout` |
| `Activity.runActivity` | `NotYetStarted`, `NotYetDue`, `StepActivity`, or `LastStep`, `Finish`, `FireFinished`, `Fired`; `Throw` |

`now` is the clock in milliseconds. It stops at `MaxTime`, which stands for
every later moment: there each finite time has been reached. `owed` counts
`activityScheduled` events not answered by `activityFinished` or
`activityCancelled`, for `EventsBalance`.

### NameReduction and the code

`FormProperFunctionName` on a symbol: `Form` is its cascade of tests, `Scan`
one turn of the loop that collects digits, `Cut` the rest. A symbol is a
sequence of characters; `.text` and `.plt`, which are only compared with, are
one character each. `Atoi` is C's `atoi` on a suffix, which is what the loop
tests, and `CharAt` gives the terminator behind the end.

### Graph, reader and the code

`nodes`, `edges` and `linkRows` are the `RowManager`s of the three tables: rows
`first..cur` without the holes `open`. `ends` holds the columns source and
target. `links`, `nodeTuples`, `edgeTuples` and `spanning` are `m_links`,
`m_nodeTuples`, `m_edgeTuples` and `m_spanning`, which `Graph` updates in its
table listener.

A change of a table sends an event, and the graph passes it on to its own
listeners in the middle of what it does. Each event ends a step, so that the
state between two steps is what a listener sees; `change` says which event that
is and of which row, where the call is not done with it.

| Code | Definitions |
|---|---|
| `addNode` | `AddNode` |
| `addEdge` | `AddEdge`, a row without ends and its event; `AddSource` and `AddTarget`, an end each and its event; `ColumnChanged` |
| a column source or target set | `SetSource` or `SetTarget`, the new end and its event; then `ColumnChanged`, the graph's column listener, which updates lists and tree |
| `updateDegrees`, `addLink`, `remLink`, `initLinkTable` | `Link`, `Unlink`, `RemLink`, `InitLinkTable` |
| `removeEdge`, `removeNode` | `RemoveEdge`; `RemoveNode`, then `RemoveIncident` for each link, `TurnToOut`, `RemoveNodeRow` |
| `Table.removeRow` | `DeleteEdge` or `DeleteNode`, what the graph does before it passes the event on; then `ReleaseEdge` or `ReleaseNode`, the row itself |
| `clear` | `Clear`, `ClearEdge` and `ClearNode` for each row, `Cleared` |
| `getNode`, `getEdge` | `GetNode`, `GetEdge` |
| `getSpanningTree`, `buildSpanningTree` | `GetSpanningTree`, then a breadth first search edge by edge: `SearchEdge`, `NextInQueue`, and `SearchEnds`, or `SearchFails` where `getTuple` throws |

During an event the tables and what the graph keeps beside them are not quite
in step. `knownRows` and `knownEnds` are the tables as the graph has them: a row
whose removal is told is gone for it, a new end is not there yet. The properties
of lists and tree are about these, those of tuples and `IsMultigraph` about the
tables as they are.

A search that fails leaves a tree that was built in place half done, with its
new root; `whole` in `spanning` tells such a tree from others.

The reader gets a file as elements one by one, from the XML parser, which sees
to their nesting: `Key`, `StartNode`, `StartEdge`, `Data`, `EndElement`,
`EndDocument`. Each exception is `Refuse`. `doc` is a history of the elements
for the properties. When the document has ended, `Edit` is any step of `Graph`
on what was read: the reader's tables are `Graph`'s initial state.

### Viewer and the code

All of it runs on Swing's event thread. `focus[v]` is the focus group of a view
in the order its items were added, `curFocus[v]` the field `curFocus` of its
`FocusControl`. The listener of the constructor, which puts an item back into
an empty selection and adds up the table, is part of every action that changes
a selection (`Refilled`, `Select`). `graph["static"]` is what the static field
`m_vis` shows, also if a graph is opened from the other tab. `Hover`, `Click`,
`RightPress`, `SelectTab` and `SetGraph` are one event each. `Choose` starts
`showReachableNodes` or `selectReachableNodes`; their recursion is `Visit`,
`Return` and, when the stack is full, `Overflow`.

### ProfileScript and the code

A run of a script is one command after the other, each an action named for it.
`cwd` is the working directory: a `cd` that fails leaves it, and the `cd ..`
after it then leaves the tool's directory. `inTemp` is whose `temp` a run is
in, as that directory may have been removed and made again since. A file is
known by the run that wrote it. `PinFails` and `Kill` may happen wherever they
can; no failing command stops a script. `started`, `alone` and `failed` are
histories for the properties.

## 3. The runs

| Run | Checks | Shows |
|---|---|---|
| `CallTraceOne` | `IsCallProfile`, `GraphFilesDefined`, `Inv` | One thread, no jumps into the `.plt` and no allocation inside another one; images are loaded as the program runs, up to full tables, and the files are written. The tables are a profile: they implement `CallProfile`. The edge loop's extra entry is blank, so that a complete file defines each node it names. `Inv` is the inductive invariant of the proofs. |
| `CallTraceThreads` | `Numbering`, `GlobalsInRange`, `CallCounts`, `CallsConserved`, `BytesConserved`, `BranchesConserved`, `ProfilesAgree`, `GraphOnlyGrows` | Without these restrictions, and with a static pass that registers a function in the dynamic table, the attribution is lost, but not the counting: no call or byte is lost or doubled, indices and edges are for ever, and each unchecked write lands in a registered entry or in the one slot in front of the array. Of blocks that overlap and addresses stored alike a branch is counted for one function; at the end each dynamic node is in the static table with no less code, and the load samples are between `MAX_LOADS` and twice as many. |
| `BasicBlocksAll` | `BlocksTypeOK`, `BlocksCutRoutine`, `FlowShown` | Every routine after every other one: branches enter blocks at their start and leave them at their end, and the file has an edge exactly where control goes from the end of a block to the start of one. |
| `NameReductionSymbols` | `ScanInRange`, `NameIsIdentifier` | Whatever the symbol, the loop reads no character behind its terminator, although it tests no length. A C++ function that is no member, no operator and not internal to its file gets its identifier for a name, unless the length of that ends in 0. |
| `ActivityManagerCancel` | `ManagerInv`, `WakeTimeCovers`, `ScheduledIsListed`, `EventsBalance`, `NextTimeReset` | One client runs, chains, cancels and stops activities as they run and expire, one throws and a second manager takes over. The copying loop stays in its list; list, flag and wake-up time agree but for what a dead manager leaves behind; each finish or cancel answers a schedule; outside the monitor an empty list goes with `m_nextTime = Long.MAX_VALUE`, without which no later schedule would wake the thread. |
| `ActivityManagerLive` | `SeenFinishes`, `FollowerScheduled` | Without cancels: what the loop comes back to is run to its end and its follower is scheduled. Deadlock is checked. |
| `GraphMLReaderEdit` | `ReaderInv`, `LinksMatchEdges`, `TuplesLive`, `SpanningFresh`, `RefusedForReason`, `GraphIsDocument`, `IsMultigraph` | A file is refused exactly if it has a fault: `RefusedForReason` says which. Read, it gives the graph it describes. That graph, edited in any order and looked at by a listener at each event, keeps its lists, its tuples and a spanning tree that was built to its end true to the tables as the graph knows them, and its tables implement `Multigraph`, in which an edge has ends unless it is just being added. |
| `ViewerEvents` | `ViewerInv`, `SelectionShown`, `RememberedIsFirst`, `TableFollowsSelection`, `WalkIsExact` | In any order of clicks, menus, tabs and loads: the static graph has a selection, of items it still has; the item that a click would ignore is selected; the table follows. A walk is exact, or overflows the stack if a function it can reach is recursive. `ManagerInv`, `ReaderInv` and `ViewerInv` are the inductive invariants of the proofs. |
| `ProfileScriptRuns` | `OutputOfLastRun`, `OutputComplete`, `TempRemoved` | A run that was alone leaves files of its own only, wherever it failed or was killed and whatever others left in `temp` before it; all of them if Pin did not fail; and no `temp` if its script removes it. |
| `ActivityManagerLostWakeup` | `ScheduledRuns` violated | A schedule between the manager's test of the list and its wait is never noticed. |
| `ActivityManagerLock` | `CancelReturns` violated | A cancel and the copying loop each hold the monitor the other one asks for. |
| `ActivityManagerTwice` | `ScheduledOnce` violated | Two clients run one activity: both find it unscheduled before either adds it, and the list has it twice. |

### Bounds

* `MAX_FUNCS` is 4 with up to four names: in `CallTraceOne` both tables
  can fill up, from callbacks, from the static pass and from `Fini`.
* `MaxCalls` (up to 3), `MaxBytes` and `MaxSteps` bound the recorded transfers,
  the bytes and the measuring callbacks that could go on for ever. Two
  transfers and two threads are enough for every interleaving of two stubs or
  two allocations; `MaxDepth` = 2 is one allocation inside another.
* `CallTraceThreads` follows a program as long as it either calls or is measured
  (`CallsOrMeasures`); the first step that mixes both is checked, but not what
  comes after it. The updates of the two kinds meet in the table only, by
  registering functions, and either kind does. The threads are symmetric: no
  callback asks which one it is in.
* `MAX_LOADS` = 2 with up to 6 chunks: below, at and above one and two
  multiples.
* `BasicBlocks`: three instructions are enough for a loop, a two-way branch and
  a block behind a return; two routines for what the first leaves behind.
* `NameReduction`: all symbols of up to five characters from `_ Z N f 0 1 2`,
  and identifiers of up to `MaxLength` = 30 with a digit inside, at the end or
  nowhere: lengths of one and two digits, and those that end in 0.
* `ActivityManager`: three activities (one step, two steps or endless, and
  instantaneous), one client (two in `ActivityManagerTwice`), two to four
  calls, two to three milliseconds, one or two managers. Each call can meet the
  loop at each of its steps, in a first and in a second round.
* `GraphMLReader`: files of up to `MaxElements` = 5 elements, so that two
  nodes, an edge, a key and a value fit, in any order; then graphs of up to
  `MaxNodes` = 3 nodes and `MaxEdges` = 2 edges, without a bound on the calls.
  Three rows are enough for a hole between two rows and for rows taken up again
  at either end; two edges for parallel ones, two loops, two ends that move, or
  a search that fails at the second. `Detached` is empty: an edge that has its
  ends is never given the end -1, see section 5.
* `Viewer`: 64 static graphs of three functions, with chains, cycles, loops and
  shared callees; the first function has up to two callees. `MaxStack` = 4: the
  stack holds a path through all functions and one call more. A real one holds
  thousands, more than a call graph without a cycle is deep
  (`ViewerAssumption`).
* `ProfileScript`: three runs, two of them of one workload, and at most
  `MaxTogether` = 2 of them at a time: a run can be mixed up with another one,
  and the third can come after both, or between.

`CallTrace`, `BasicBlocks`, `GraphMLReader` and `Viewer` are checked for
deadlock. In `ActivityManagerCancel`, `ActivityManagerLock`,
`ProfileScriptRuns` and `NameReductionSymbols` this is off because the system
does stop: the deadlock of `ActivityManagerLock` is real, scripts end and
a name is formed once.

### Fairness

`FairSpec` has weak fairness on the clock, on the steps of each client that is
inside a call and on those of each manager. Java's scheduler runs a thread that
stays runnable, and a monitor that is free and asked for by one thread is given
to it; a monitor over which two threads alternate would need strong fairness,
which is not assumed. No call need ever be made and nothing need ever throw.
Spurious wake-ups of `wait` are left out: they would cure the lost wake-up by
chance.

## 4. The proofs

All theorems hold for every value of the constants that the named assumptions
allow; TLC evaluates those assumptions in the runs. `PROJECT.json` lists the
theorems a reader should know of. Each invariance proof has one lemma for each
action (or for each kind of step that acts on the state alike), a lemma that
the initial states are in the invariant, and a last step in temporal logic.

### Function tables and profiler

`CallTrace_proofs` begins with what each update of a table preserves, lemmas
about one record: `GetFunctionIndex` keeps `TableOK` and registers the name
unless the table is full, indices never change, an edge and a count added
together keep `CountsMatchEdges`, and a metric does not touch any of it.

`Invariance` is that `Inv` is an invariant of `Spec`
for all sets of threads, names, routines and sites and every `MAX_FUNCS`. From
it follow `TypeCorrect`, `NumberingSound`, `CallCountsSound`, `GlobalsSound` and
`FilesSound`. None of these is inductive alone:

* an index in a global stays that of a registered function only because tables
  grow and each index in the map is below the counter (`TableOK`);
* no callback overruns the array only because the process ends inside the one
  that fills it (`RoomLeft`);
* the extra entry of the edge loop is blank only because nothing writes past
  the counter (`SpareBlank`), and it exists only because of `RoomLeft`;
* the static file refers to nodes below its own count, which is that of
  `WriteStatic`: the table may grow after it (`FilesInOrder`);
* the static pass finds its routine in the table because one thread is in it
  at a time (`OneInRoutine`).

The second half of the module is what is conserved. `Records(t, u, c, b, r)`
says that a table went from `t` to `u` with `c` more calls, `b` more bytes and
`r` more branches in all its entries together, and there is one lemma for each
update that says which. The sum over a table is a recursive function;
`DataLemmas` proves, by induction over the entries, that such functions are
defined by their recursion, so that changing one entry changes the sum by as
much. `CallsComplete`, `BytesComplete` and `BranchesComplete` follow.
`GraphGrows` is an action property of the same lemmas. `ProfilesWritten` needs
what is written to stay true while `Fini` goes on and registers functions, and
two bounds on a rounded quotient: a chunk of loads is sampled at least
`MAX_LOADS` times and less than twice as often.

Two theorems there are about one thread (`OneThread`).

* `ProfileIsExact`: the tables implement `CallProfile`. It assumes `PlainCalls`
  too (no sibling call into the `.plt`, no allocation inside an allocation, no
  other name that contains "malloc"); section 5 has what happens otherwise.
  Each callback is one step of the profile or changes nothing of it; what an
  operation does to the graph by names is one lemma each (`LookupProfile`,
  `CallProfiled`, `BytesProfiled`, `MetricsProfile`). The invariant is
  `CallersKnown`: between the call into the `.plt` and the jump out of it
  `prevIndex` is the index of the caller, and so is `prevIndexforMalloc` from
  the call to the allocator to its return, although functions are registered
  meanwhile.
* `NodesHaveReason`: `NodesAccounted`, without `PlainCalls`, but for
  instructions that take no bytes of stack (`FramesShow`). It lists what can
  make a function a node of the dynamic graph. One of the reasons is an xmm
  instruction that was only loaded, so that this is weaker than what the manual
  says of that graph (section 5), and no run checks it as a property of the
  profiler. It is not inductive: the next call overwrites `prevIndex`, and the
  node it was an excuse for has to have an edge by then. It has (`NodesSeen`),
  since the thread is out of the stub and the jump out of it has added one.

TLC checks `CallersKnown` and `NodesSeen` too, with `CallTraceOne.cfg` and the
two added to its invariants (0.8 million states).

### Scheduler

`ActivityManager_proofs` proves `ManagerSafe`, that `ManagerInv` is an
invariant for any number of clients, managers and activities, and from it
`Scheduled` and `NextTime`. `ScheduledIsListed` is true of each step only
because of what a thread between two steps knows, and what the others leave
alone:

* a thread about to set the flag (`mark`) is inside the monitor of the manager
  in whose list the activity is, and nobody takes an entry off that list
  without this monitor (`ScheduleOK`);
* a client in `_stop` keeps the manager's monitor through every cancel, one in
  `cancel` keeps the activity's until the entry is off the list (`ClientOK`);
* the copying loop stays inside a list it takes entries off, because its index
  steps back with each (`ManagerOK`);
* a manager that has a successor is dead, so that an activity in its list is
  the stranded one `ScheduledIsListed` allows, and an empty list goes with
  `m_nextTime` reset except inside the loop that will reset it (`ListOK`).

`WakesInTime` (`WakeTimeCovers`) needs that each activity has one thread that
schedules it (`SoleScheduler`): there is one client, and what follows another
activity is run by the manager only. The code demands nothing of the kind, and
with two such threads the property fails, as `ScheduledOnce` does in
`ActivityManagerTwice`. It comes from a second invariant, `SoleInv`, proved on
top of `ManagerInv` in `SoleSafe`:

* the only threads at work are the client and the thread of the current
  manager, and the manager does not change while someone schedules;
* a thread between the test of `isScheduled` and the add knows that its activity
  is in no list, because nobody else may add that one (`SoleThread`);
* what is in a list is there once, in no other list, says that it is
  scheduled and is due no earlier than its manager wakes up, except while the
  thread that added it is still to set the flag or the times (`SoleList`,
  `Marking`).

`Answered` is `EventsBalance`: each finish and each cancel answers a schedule of
its own. Besides `SoleScheduler` it assumes that an activity that a program
schedules for later is endless (`LaterEndless`); one that has an end does break
it, see section 5. The property says nothing of why it holds: that a cancelled
activity may still be in the loop's copy of the list, and be run from it. The
third invariant, `BalanceInv`, on top of the other two, keeps account of that:

* an activity is owed one answer for being scheduled, and one more if it is
  still to be run from a copy, for the last time (`Expired`, `Balanced`);
* a copy has an activity once, so that this is one answer (`CopyOK`);
* a start time that is set while the loop holds the activity is no reason for
  its last run to come, or to be taken back: it is not later than the clock,
  and the loop's own time is before the end it gives (`TimeOK`);
* a client that is about to take an activity off finds it scheduled, and the
  manager has not answered for it meanwhile (`RemoveOK`);
* none of this can be said once a manager has died with activities in its list
  (`StrandedBehind`), which `EventsBalance` excepts.

TLC checks `SoleInv` and `BalanceInv` too, with `ActivityManagerCancel.cfg` and
these added to its invariants (1.4 million states).

### Graph and reader

What `Graph_proofs` proves of the graph is about edges that always have ends,
`Detached = {}`, as in the run: an edge that is given the end -1 breaks
`TuplesLive` (section 5). What it proves of documents holds for any `Detached`.

`GraphSafe` is the invariant `GraphInv` of `GraphSpec`. It speaks of the tables
as the graph knows them (`knownRows`, `knownEdges`, `knownEnds`): as they are,
but for the row whose event is being delivered. `ChangeTold` says what each
event finds. `EndsLive` says that edges end in rows that are in use, unless they
are just being added; `Linked` that each list of links has each known edge once
for each end; `RemovalAtLast` that a removal, which walks a list that its own
calls shift, takes at each index the edge it means to. Under it are lemmas about
`RowManager`: a row that is added was free, one that is released is the only one
that goes, whatever the first row, the last row and the holes are.

`GraphIsMultigraph` shows that `GraphSpec` implements `Multigraph`, the abstract
specification, whose steps are what a listener of the tables is told: a node or
an edge without ends is there, the edge has a source, then a target, it has
other ends, an edge or a node with no edges is gone. Between the first and the
third of these an edge is half made, and nothing else happens. `ReaderSafe`,
`LinksMatch`, `TuplesAreLive` and `ReadIsMultigraph` say the same of the graph
that is read: `ReaderInv` keeps a row for each element and for each id a row, so
that `ReadIsInitial` can show that `endDocument`, which only then turns ids into
edges, gives a state that `GraphInit` allows.

`TreeFresh` and `ReadTreeFresh` are `SpanningFresh`: a tree whose search came to
its end spans what is connected to its root now. The search is modelled edge by
edge, with the exception that may end it, and what it leaves then is marked
(`whole`) and outside of the property (section 5). The invariant `TreeSpans` has
no search in it: no edge leads out of what the tree has reached, nor out of any
smaller set with its root. It stays true because a step that changes what is
known of an edge drops the tree. That the search ends with such a set is
`SearchSound`, an invariant of its steps: it has reached nothing that is not
connected to the root, it is done with the edges of each node that has left the
queue, and with the first `task.i` edges of the one at its head. That the
property's fixed point is the same set is `FreshIfSpans`: each round adds a node
or no later one does, so that as many rounds as there are nodes are enough.

`RefusalHasReason` and `GraphReadIsDocument` compare the reader's state with
the history of the document, through `DocInv` (`DocSafe`). It says what each
variable holds after the elements read so far: the schemas a column for each
key and table, `m_idMap` the last key of an id (`SchemaOK`), the tables a row
for each element (`RowsOK`), the columns of the edges and `m_nodeMap` the ids
(`IdsOK`), and each cell the last value given or the default (`CellsOK`). None
of it may have a fault (`DocOK`): a step that is refused is one whose element,
added to those, makes the fault the property names.

TLC checks `DocInv`, `TreeSpans` and `SearchSound` too, with
`GraphMLReaderEdit.cfg` and a module that extends `MCGraphMLReader` by them
(0.9 million states; for TLC the names in `SchemaOK` are those of the keys).

### Viewer

`Viewer_proofs` proves `ViewerSafe`, that `ViewerInv` is an invariant for every
set of call graphs and every stack that holds a path without a cycle
(`ViewerAssumption`). The selection of the static graph is never empty because
the listener puts an item back, and of the graph that is shown because a load
clears it (`SelectionIsShown`); the remembered item is first because every
click that remembers one also empties the selection (`RememberedFirst`).
`TableFollows` is an action property.

`WalkExact` is the correctness of `selectReachableNodes`, which marks nothing.
The invariant (`WalkOK`) says that the stack is a path from the root, that each
call on it is in the callee that its index says, and that every callee it has
come back from is *done*: not recursive, and with all it reaches selected. When
the root's call returns all its callees are done, hence nothing it reaches is
recursive and all of it is selected. When the stack overflows it is a path
longer than any without a cycle, and a function on it is met twice.

### Scripts

`ProfileScript_proofs` proves `ScriptsSafe`, that `ScriptInv` is an invariant
for any number of runs and workloads, of which any number may be killed or fail
at any command, and from it `OutputOwn`, `OutputAll` and `TempIsRemoved`. The
properties are about the last run, after it has ended; what carries them is
`AloneOK`, where a run that is alone is and what it has made so far, for each
of its commands. That nobody else has a hand in `temp` meanwhile is
`AloneOrder`: all runs before one that is alone had ended, and while it goes on
none follows. TLC checks `ScriptInv` too, with `ProfileScriptRuns.cfg` and
`ScriptInv` added to its invariants (1.8 million states).

### Control flow graphs

`BasicBlocks_proofs` proves `BlocksSafe`, that `BlocksInv` is an invariant for
routines of any length, any number of them one after the other. For each of the
three loops it says what the instructions, or the blocks, before its iterator
have become, and that those behind it are as they were:

* the leaders are the instructions behind a branch, and every target is listed,
  whatever earlier routines have left in the list (`ScanOK`);
* the blocks follow each other without a gap up to the iterator, and each
  leader and each target has one (`CutOK`);
* a block that control falls out of is linked to the next one as soon as there
  is one (`RightOK`), one that ends in a branch to the block at its target once
  the last loop has seen it (`LeftOK`); that there is one is `CutOK` again.

`BlocksTyping`, `BlocksCut` and `FlowIsShown` are what is left of it when the
last loop has ended. That an edge of the file is a step of control, and each
step of control between blocks an edge, needs that a block has no branch inside
it: an instruction behind one is a leader, and begins a block.

### Names

`NameReduction_proofs` proves `NameSafe`, `ScanStaysInside` and `NameIsProper`
for symbols of any length over any characters that include the digits, `_` and
`Z` (`NameAssumption`, which also keeps identifiers from beginning with a
digit). The invariant is that `temp` is what is before the place of the loop,
and that the loop went on at each of these characters. The work is in what the
loop tests:

* `Atoi` is a recursive function of the digits it reads; it is 0 exactly if all
  of them are zeros, hence where it reads none: at the end of the symbol the
  loop does not go on, however many digits it was made of;
* `Decimal[n]` is the numeral of `n` (`Numeral`): `n` is what `Atoi` makes of it
  in front of a character that is no digit;
* so in `Decimal[n] \o id` the loop goes on up to the last digit that is not 0,
  and the zeros behind it, if any, begin the name.

TLC checks `NameInv` too, with `NameReductionSymbols.cfg` (2932 states).

### What stays with TLC

* Liveness, under fairness: `SeenFinishes`, `FollowerScheduled`. The prover has
  no `ENABLED`.
* The three violations, `ScheduledRuns`, `CancelReturns` and `ScheduledOnce`:
  TLC's traces are their proof.
* Programs outside the assumptions of a theorem. `WakeTimeCovers` and
  `EventsBalance` are proved under the assumptions of "Scheduler",
  `IsCallProfile` under those of "Function tables and profiler", what concerns
  the graph for `Detached = {}`. The runs meet these assumptions; section 5 has
  what happens to programs that do not.

## 5. Deviations

The runs that expect a violation show three places where the code does not do
what the repository says. The same models show more, with the constants given
here, or by the text of a definition; no run is kept for them.

Profiler:

* Two threads in stubs: `do_call_plt` (`calltrace.cpp:340`) takes the
  `prevIndex` that another thread has set and records a call that never took
  place, where line 429 means to "track stup jumps into share libraries".
  `IsCallProfile` fails with `Threads = {t1, t2}`.
* `dynamicgraph.html:6` has "all the functions that were called during the
  execution" in the dynamic graph, and the code puts others there: the static
  pass enters a function with an xmm instruction into the dynamic table when it
  is loaded (line 908), and it becomes a node although it may never run.
  `NodesAccounted` names this case among its reasons; without it it fails in
  `CallTraceOne`, whose `r2` and `r3` are such functions.
* A sibling jump into the `.plt` (`PlainCalls` excludes it): nothing sets
  `prevIndex` for it, and `do_call_plt` takes what the last call has left. That
  is the last caller that went through the `.plt`, to whom the edge is charged,
  or -1 if a direct call came after it: then the edge is lost in the memory in
  front of the array.
* Another name that contains "malloc" (`PlainCalls` excludes it too): a call to
  it sets `prevIndexforMalloc`, and only the return of the allocator resets it,
  so that the bytes of the next allocation, whoever asks for it, are charged to
  the function that called the other one.
* The scripts export `LD_BIND_NOW=1`. Without it the first call through a stub
  gives edges into the dynamic linker and none to the callee.
* `MaxDepth` = 2, one thread: the inner of two nested allocations resets
  `prevIndexforMalloc`, and the bytes of the outer one go to index -1, no
  function's.
* Routines with equal reduced names share a static node, although
  `staticgraph.html` promises one for each function.
* A routine entered twice: `mapImg` may count it twice, and a library show more
  called functions than it has.
* The instruction behind a return, an indirect jump or a jump out of the
  routine starts no block, so that a block may go on behind one. A two-way
  block's branch target hangs on the port labelled F and its fall-through on T.
* Names: an identifier whose length ends in 0 becomes a 0 and a part of it
  (`NameIsIdentifier` says so). A nested name (`_ZN...`), one that is internal
  to its file (`_ZL...`) and an operator become the empty string, hence one
  function, and overloads of a function become one.

Scheduler:

* `ActivityManagerTwice`: `ScheduledOnce` fails with two clients, and with one
  that runs an activity which also follows another one (`Runs = {brief,
  instant}`). Both threads find it unscheduled and add it; a later `_stop` then
  cancels it once and looks at a list that never gets empty.
* An activity that throws, or one that is scheduled after `stopThread` and
  before the thread is dead: the dead manager's activities say for ever that
  they are scheduled, and later calls to run them do nothing.
* An activity with an end that is scheduled for later, cancelled while the loop
  holds it in its copy of the list and run again is finished twice: with
  `FiniteDuration` and `MaxTime` = 4 `EventsBalance` fails for one client.
* `StepTime` 0: `wait(0)` is for ever, and `SeenFinishes` fails.
* A slow endless activity: `m_nextTime` stays at its start, and one scheduled
  to start now does not wake the thread up.
* `stopThread` while the thread is about to wait, or before it has set `m_run`:
  the stop is lost and the thread goes on.

Graph and reader:

* `addRow` takes a row in front of the others before one behind them, and a
  hole before both; its comment has the lowest available one.
* `getTuple` indexes by row an array as long as the number of rows: after
  removals at the front a valid row may be outside, and the exception comes
  after `addNode` has added its row.
* A search may fail in the same way and leave half a tree. With the first of two
  edges removed and the tree kept at one root, `getSpanningTree` of another one
  has cleared the tree's edges and set its root (`SpanningTree.java:65`) when
  `getTuple` throws for the second edge. `m_spanning` is kept, and the next call
  with this root returns it as it is. Without `spanning.whole` `SpanningFresh`
  fails in `GraphMLReaderEdit`.
* What a listener of the tables sees: an edge that is added has no ends, then a
  source, then both, and is in no list until its listeners were told of the
  second; the lists have the old end of an edge while a new one is told; a node
  or an edge that is removed is a valid row without links while its `DELETE` is
  told.
* With `Detached = {-1}` an edge may lose an end, and `TuplesLive` fails: the
  row of a removed edge that had no ends keeps its tuple for the next one.
* A `Graph` made of tables with holes gets link rows that are not those of its
  nodes, and `setEdgeTable` with an empty table keeps the old spanning tree.
  `GraphInit` starts from tables without holes.
* `getMinimumRow` and `getMaximumRow` may name a free row, and a reverse
  `RowIterator` goes on below the first row.
* A value whose key belongs to the other table is accepted if the table it is
  in has a column of that name (`DataFaults` compares names); one in the graph
  element itself is refused; a file without nodes and edges ends in a
  `NullPointerException`.

Viewer:

* Opening a graph loads the dynamic one into the static `m_vis`, whichever tab
  was asked; from tab 1 the function table stays as it was.
* A plain click on the item clicked last does nothing, also if more are
  selected. The context menu leaves the first selected function selected, so
  that it stays among the reachable functions of another one.
* A walk over a recursive function ends in a `StackOverflowError` with part of
  the selection made, and one over shared callees makes a call for each path.
* The viewer does not expect an empty graph: `getNode(0)` throws after the
  items of the old one were removed. The graphs of `Viewer` have a function.

Scripts:

* A run that fails says that it succeeded and exits with 0, so that the viewer
  (`GraphView.java:2169`) says the same, and the old output is gone.
* A lost `cd temp` makes `cp` copy the tool's directory to the output; with
  another run at the same time the output may be of both. `profile-mplayer`
  leaves `temp` behind.

## 6. Not modelled

* Inside a callback of the profiler the threads do not interleave. A data race
  on its tables is one on `std::map` and `std::string` objects: what it leaves
  is a corrupted tree as well as a lost increment, and the outcomes cannot be
  enumerated. Widths of `int` counters are left out, and addresses are values
  two of which may be stored alike.
* `Jit_Free_IA32` changes no state; the IPF variants and `CountAVLoops` are not
  part of the build or never inserted.
* Of the scheduler: pacing, `setEnabled`, changing duration or step time of a
  scheduled activity, listeners other than the ones that chain activities, and
  the unsynchronized creation and removal of the list of listeners.
  `ActivityMap` is a map from names to activities with no rule of its own.
* Of the graph: `setEdgeTable`, the key field of nodes, columns with their
  types and indices, derived tables, iterators, and listeners that call the
  graph they are told about: one that changes it, or fetches the tuple of the
  row that is being removed, which then outlives it.
* Of the reader: elements inside elements where GraphML has none, attributes of
  a `key` that are missing, and the text of a file that is no XML.
* Of the viewer: search, colours, highlights, layout and dragging, the memory
  map, the alias tables, the directory tree, and the programs its menus start.
  Rendering, layouts and forces are geometry over floats.
* Launcher and makefile have no state. The workloads are third-party programs
  (mplayer, mpeg2dec, blackscholes) kept to be profiled: nearly all lines of the
  repository, and none of what it is for.

## 7. Plan

Done, in this order: `FuncTable`, `CallTrace`, `CallProfile` and their proofs;
`ActivityManager`; `BasicBlocks`; `RowManager`, `Graph`, `Multigraph` and
`GraphMLReader` on top; `Viewer`; `ProfileScript`; `NameReduction`.

The proofs of section 4 came after, component by component. Every invariant and
every action property that the runs check is stated by a theorem, and so are
both refinements; what is left to TLC is under "What stays with TLC". To go on
from here means to widen the model: the interleaving inside a callback of the
profiler, `setEdgeTable` and key fields of the graph, and the items of section 6
that have state.
