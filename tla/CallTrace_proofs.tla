-------------------------- MODULE CallTrace_proofs --------------------------
(***************************************************************************)
(* Safety of the profiler for every program: any number of threads, any    *)
(* set of names, routines and sites, any MAX_FUNCS.  Inv is inductive: each *)
(* callback is a composition of the table operations of FuncTable, whose    *)
(* lemmas carry the argument, and leaves the globals in range.             *)
(*                                                                         *)
(* What it records is complete: the totals over a whole table are those of *)
(* the history, and the graph only grows.  With one thread it is also      *)
(* right: the tables implement CallProfile, and every node of the dynamic  *)
(* graph has a reason to be there.  SlotSum is defined by recursion on the *)
(* index of a slot; the lemmas on recursion of DataLemmas say what it      *)
(* computes.                                                               *)
(***************************************************************************)
EXTENDS CallTrace, DataLemmas, FiniteSetTheorems

----------------------------------------------------------------------------
(* The function tables: each operation of FuncTable keeps TableOK.         *)

\* The table the tool starts with.
LEMMA EmptyTableOK == TableOK(EmptyTable) /\ ~ Full(EmptyTable)
<1>1. EmptyTable \in Table
  BY MaxFuncsAssumption DEF EmptyTable, Table, Slots, None, BlankEntry, Entry
<1>2. NumberingOK(EmptyTable)
  BY DEF EmptyTable, NumberingOK, Registered, None
<1>3. CallsClosed(EmptyTable)
  BY DEF EmptyTable, CallsClosed, BlankEntry
<1>4. SpareBlank(EmptyTable)
  BY MaxFuncsAssumption DEF EmptyTable, SpareBlank, Slots
<1>5. CountsMatchEdges(EmptyTable)
  BY DEF EmptyTable, CountsMatchEdges, BlankEntry
<1>6. ~ Full(EmptyTable)
  BY MaxFuncsAssumption DEF EmptyTable, Full
<1> QED BY <1>1, <1>2, <1>3, <1>4, <1>5, <1>6 DEF TableOK

\* A lookup keeps the table sound.  Unless it ends the process, the name has
\* an index in use afterwards; no other name changes its index.
LEMMA GetFunctionIndexOK ==
  ASSUME NEW tab, TableOK(tab), NEW m \in Names
  PROVE  LET new == GetFunctionIndex(tab, m)
         IN  /\ TableOK(new)
             /\ new.n \in tab.n .. MAX_FUNCS
             /\ ~ Full(new) => new.index[m] \in 0 .. new.n - 1
             /\ \A i \in Slots :
                   new.func[i].calledFuncs = tab.func[i].calledFuncs
<1> DEFINE new == GetFunctionIndex(tab, m)
<1>0. /\ tab \in Table /\ NumberingOK(tab) /\ CallsClosed(tab)
      /\ SpareBlank(tab) /\ CountsMatchEdges(tab)
  BY DEF TableOK
<1>1. CASE Full(tab) \/ Registered(tab, m)
  <2>1. new = tab
    BY <1>1 DEF GetFunctionIndex
  <2>2. ~ Full(tab) => tab.index[m] \in 0 .. tab.n - 1
    BY <1>0, <1>1 DEF Table, Registered, NumberingOK, None, Slots
  <2> QED BY <2>1, <2>2, <1>0 DEF Table
<1>2. CASE ~ (Full(tab) \/ Registered(tab, m))
  <2> DEFINE n == tab.n
             entry == InitEntry(tab.func[n], m)
  <2>1. /\ n \in 0 .. MAX_FUNCS - 1 /\ n \in Slots
        /\ tab.index \in [Names -> Slots] /\ tab.func \in [Slots -> Entry]
        /\ tab.index[m] = None
    BY <1>0, <1>2, MaxFuncsAssumption DEF Table, Full, Registered, Slots
  <2>2. /\ new.index = [tab.index EXCEPT ![m] = n]
        /\ new.n = n + 1
        /\ new.func = IF n + 1 = MAX_FUNCS THEN tab.func
                      ELSE [tab.func EXCEPT ![n] = entry]
        /\ new = [index |-> new.index, n |-> new.n, func |-> new.func]
    BY <1>2 DEF GetFunctionIndex
  <2> HIDE DEF new
  <2>3. tab.func[n] = BlankEntry
    BY <1>0, <2>1, MaxFuncsAssumption DEF SpareBlank
  <2>4. /\ entry \in Entry /\ entry.name = m
        /\ entry.calledFuncs = {} /\ entry.nNoOfCalls = 0
    BY <2>3 DEF InitEntry, BlankEntry, Entry
  <2>5. /\ new.func \in [Slots -> Entry]
        /\ \A i \in Slots : i # n => new.func[i] = tab.func[i]
        /\ \A i \in Slots : /\ new.func[i].calledFuncs = tab.func[i].calledFuncs
                            /\ new.func[i].nNoOfCalls = tab.func[i].nNoOfCalls
        /\ n + 1 # MAX_FUNCS => new.func[n].name = m
    <3>1. CASE n + 1 = MAX_FUNCS
      BY <2>1, <2>2, <3>1
    <3>2. CASE n + 1 # MAX_FUNCS
      <4>1. new.func = [tab.func EXCEPT ![n] = entry]
        BY <2>2, <3>2
      <4>2. \A i \in Slots : new.func[i] = IF i = n THEN entry ELSE tab.func[i]
        BY <2>1, <4>1
      <4>3. tab.func[n].calledFuncs = {} /\ tab.func[n].nNoOfCalls = 0
        BY <2>3 DEF BlankEntry
      <4> HIDE DEF entry
      <4>4. new.func \in [Slots -> Entry]
        BY <2>1, <2>4, <4>1
      <4> QED BY <2>1, <2>4, <4>2, <4>3, <4>4
    <3> QED BY <3>1, <3>2
  <2>6. new \in Table
    <3>1. new.index \in [Names -> Slots]
      BY <2>1, <2>2
    <3>2. new.n \in 0 .. MAX_FUNCS
      BY <2>1, <2>2, MaxFuncsAssumption
    <3> QED BY <3>1, <3>2, <2>2, <2>5 DEF Table
  <2>7. NumberingOK(new)
    <3>1. \A k \in Names : new.index[k] = IF k = m THEN n ELSE tab.index[k]
      BY <2>1, <2>2
    <3>2. \A k \in Names : tab.index[k] \in -1 .. n - 1
      BY <1>0 DEF NumberingOK
    <3>3. \A k \in Names : new.index[k] \in -1 .. new.n - 1
      BY <3>1, <3>2, <2>1, <2>2
    <3>4. \A k1, k2 \in Names :
             new.index[k1] = new.index[k2] /\ new.index[k1] # None => k1 = k2
      BY <3>1, <3>2, <2>1, <1>0 DEF NumberingOK, Registered, None
    <3>5. ASSUME ~ Full(new), NEW i \in 0 .. new.n - 1
          PROVE  new.func[i].name \in Names /\ new.index[new.func[i].name] = i
      <4>1. n + 1 # MAX_FUNCS
        BY <3>5, <2>2 DEF Full
      <4>2. CASE i = n
        BY <4>1, <4>2, <2>5, <3>1
      <4>3. CASE i # n
        <5>1. i \in 0 .. n - 1 /\ i \in Slots
          BY <4>3, <2>1, <2>2, MaxFuncsAssumption DEF Slots
        <5>2. new.func[i] = tab.func[i]
          BY <5>1, <4>3, <2>5
        <5>3. tab.func[i].name \in Names /\ tab.index[tab.func[i].name] = i
          BY <5>1, <1>0, <1>2 DEF NumberingOK
        <5>4. tab.func[i].name # m
          BY <5>1, <5>3, <2>1 DEF None
        <5> QED BY <5>2, <5>3, <5>4, <3>1
      <4> QED BY <4>2, <4>3
    <3> QED BY <3>3, <3>4, <3>5 DEF NumberingOK, Registered
  <2>8. CallsClosed(new)
    BY <1>0, <2>1, <2>2, <2>5 DEF CallsClosed
  <2>9. SpareBlank(new)
    <3>1. ASSUME NEW i \in new.n .. MAX_FUNCS - 1 PROVE new.func[i] = BlankEntry
      <4>1. i \in Slots /\ i # n /\ i \in n .. MAX_FUNCS - 1
        BY <3>1, <2>1, <2>2, MaxFuncsAssumption DEF Slots
      <4> QED BY <4>1, <2>5, <1>0 DEF SpareBlank
    <3> QED BY <3>1 DEF SpareBlank
  <2>10. CountsMatchEdges(new)
    BY <1>0, <2>5 DEF CountsMatchEdges
  <2>11. new.n \in tab.n .. MAX_FUNCS
    BY <2>1, <2>2, MaxFuncsAssumption
  <2>12. new.index[m] \in 0 .. new.n - 1
    BY <2>1, <2>2
  <2> QED BY <2>5, <2>6, <2>7, <2>8, <2>9, <2>10, <2>11, <2>12 DEF TableOK, new
<1> QED BY <1>1, <1>2

\* A table with the names, the indices and the unused entries of a sound one
\* has a sound numbering and blank unused entries.
LEMMA SameShape ==
  ASSUME NEW tab, NEW new, tab \in Table, new \in Table,
         NumberingOK(tab), SpareBlank(tab),
         new.index = tab.index, new.n = tab.n,
         \A k \in Slots : /\ new.func[k].name = tab.func[k].name
                          /\ k >= tab.n => new.func[k] = tab.func[k]
  PROVE  NumberingOK(new) /\ SpareBlank(new)
<1>1. tab.n \in 0 .. MAX_FUNCS /\ \A k \in 0 .. MAX_FUNCS - 1 : k \in Slots
  BY MaxFuncsAssumption DEF Table, Slots
<1>2. NumberingOK(new)
  BY <1>1, MaxFuncsAssumption DEF NumberingOK, Registered, Full
<1>3. SpareBlank(new)
  BY <1>1, MaxFuncsAssumption DEF SpareBlank
<1> QED BY <1>2, <1>3

\* Recording a call between entries in use, or from the slot in front of the
\* array, keeps the table sound.
LEMMA AddCallOK ==
  ASSUME NEW tab, TableOK(tab), NEW i \in -1 .. tab.n - 1, NEW j \in 0 .. tab.n - 1
  PROVE  LET new == AddCall(tab, i, j)
         IN  TableOK(new) /\ new.n = tab.n /\ new.index = tab.index
<1> DEFINE new == AddCall(tab, i, j)
<1>1. /\ tab \in Table /\ NumberingOK(tab) /\ CallsClosed(tab)
      /\ SpareBlank(tab) /\ CountsMatchEdges(tab)
  BY DEF TableOK
<1>2. /\ i \in Slots /\ j \in Slots /\ tab.n \in 0 .. MAX_FUNCS
      /\ tab.func \in [Slots -> Entry]
  BY <1>1, MaxFuncsAssumption DEF Table, Slots
<1> DEFINE f1 == [tab.func EXCEPT ![i] = [tab.func[i] EXCEPT !.calledFuncs = @ \cup {j}]]
           f2 == [f1 EXCEPT ![j] = [f1[j] EXCEPT !.nNoOfCalls = @ + 1]]
<1>3. /\ new.index = tab.index /\ new.n = tab.n /\ new.func = f2
      /\ new = [index |-> new.index, n |-> new.n, func |-> new.func]
  BY <1>1 DEF AddCall, CountCall, AddEdge, Put, Table
<1> HIDE DEF new
<1>4. ASSUME NEW k \in Slots
      PROVE  /\ new.func[k] \in Entry
             /\ new.func[k].name = tab.func[k].name
             /\ new.func[k].calledFuncs = IF k = i THEN tab.func[k].calledFuncs \cup {j}
                                          ELSE tab.func[k].calledFuncs
             /\ new.func[k].nNoOfCalls = IF k = j THEN tab.func[k].nNoOfCalls + 1
                                         ELSE tab.func[k].nNoOfCalls
             /\ k # i /\ k # j => new.func[k] = tab.func[k]
  <2>1. /\ f1 \in [Slots -> Entry]
        /\ f1[k].name = tab.func[k].name
        /\ f1[k].calledFuncs = IF k = i THEN tab.func[k].calledFuncs \cup {j}
                               ELSE tab.func[k].calledFuncs
        /\ f1[k].nNoOfCalls = tab.func[k].nNoOfCalls
        /\ k # i => f1[k] = tab.func[k]
    <3> DEFINE d == [tab.func[i] EXCEPT !.calledFuncs = @ \cup {j}]
    <3>1. /\ d \in Entry /\ d.name = tab.func[i].name
          /\ d.calledFuncs = tab.func[i].calledFuncs \cup {j}
          /\ d.nNoOfCalls = tab.func[i].nNoOfCalls
      BY <1>2 DEF Entry
    <3>2. f1[k] = IF k = i THEN d ELSE tab.func[k]
      BY <1>2
    <3>3. f1 = [tab.func EXCEPT ![i] = d]
      OBVIOUS
    <3> HIDE DEF d, f1
    <3>4. f1 \in [Slots -> Entry]
      BY <1>2, <3>1, <3>3
    <3> QED BY <1>2, <3>1, <3>2, <3>4
  <2> HIDE DEF f1
  <2> DEFINE e == [f1[j] EXCEPT !.nNoOfCalls = @ + 1]
  <2>0. f1 \in [Slots -> Entry] /\ f1[j] \in Entry
    BY <1>2, <2>1
  <2>3. /\ e \in Entry /\ e.name = f1[j].name
        /\ e.calledFuncs = f1[j].calledFuncs /\ e.nNoOfCalls = f1[j].nNoOfCalls + 1
    BY <2>0 DEF Entry
  <2>4. f2[k] = IF k = j THEN e ELSE f1[k]
    BY <2>0, <1>2
  <2> HIDE DEF e, f2
  <2>2. /\ f2[k] \in Entry
        /\ f2[k].name = f1[k].name
        /\ f2[k].calledFuncs = f1[k].calledFuncs
        /\ f2[k].nNoOfCalls = IF k = j THEN f1[k].nNoOfCalls + 1 ELSE f1[k].nNoOfCalls
        /\ k # j => f2[k] = f1[k]
    BY <1>2, <2>1, <2>3, <2>4
  <2> QED BY <1>3, <2>1, <2>2
<1>5. new.func \in [Slots -> Entry]
  <2>1. f2 = [k \in Slots |-> f2[k]]
    BY <1>2
  <2> HIDE DEF f2
  <2> QED BY <2>1, <1>3, <1>4
<1> HIDE DEF f1, f2
<1>6. new \in Table
  BY <1>1, <1>3, <1>5 DEF Table
<1>7. \A k \in Slots : /\ new.func[k].name = tab.func[k].name
                       /\ k >= tab.n => new.func[k] = tab.func[k]
  <2>1. ASSUME NEW k \in Slots, k >= tab.n PROVE k # i /\ k # j
    BY <2>1, <1>2, MaxFuncsAssumption DEF Slots
  <2> QED BY <1>4, <2>1
<1>11. NumberingOK(new) /\ SpareBlank(new)
  BY <1>1, <1>3, <1>6, <1>7, SameShape
<1>8. CallsClosed(new)
  <2>1. ASSUME NEW k \in Slots PROVE new.func[k].calledFuncs \subseteq 0 .. new.n - 1
    BY ZenonT(30), <1>1, <1>3, <1>4 DEF CallsClosed
  <2> QED BY <2>1 DEF CallsClosed
<1>9. \A k, l \in Slots :
         k \in new.func[l].calledFuncs
            <=> k \in tab.func[l].calledFuncs \/ (l = i /\ k = j)
  BY <1>4
<1>10. CountsMatchEdges(new)
  <2>1. ASSUME NEW k \in Slots
        PROVE  new.func[k].nNoOfCalls > 0
                  <=> \E l \in Slots : k \in new.func[l].calledFuncs
    <3>1. tab.func[k].nNoOfCalls \in Nat
      BY <1>2 DEF Entry
    <3>2. CASE k = j
      <4>1. new.func[k].nNoOfCalls = tab.func[k].nNoOfCalls + 1
        BY <1>4, <3>2
      <4>2. k \in new.func[i].calledFuncs
        BY <1>2, <1>9, <3>2
      <4> QED BY <4>1, <4>2, <1>2, <3>1
    <3>3. CASE k # j
      <4>1. new.func[k].nNoOfCalls = tab.func[k].nNoOfCalls
        BY <1>4, <3>3
      <4>2. \A l \in Slots : k \in new.func[l].calledFuncs
                              <=> k \in tab.func[l].calledFuncs
        BY <1>9, <3>3
      <4> QED BY <4>1, <4>2, <1>1 DEF CountsMatchEdges
    <3> QED BY <3>2, <3>3
  <2> QED BY <2>1 DEF CountsMatchEdges
<1> QED BY <1>3, <1>6, <1>8, <1>10, <1>11 DEF TableOK, new

\* A change of the metrics of an entry in use, or of the slot in front of the
\* array, keeps the table sound.
LEMMA PutOK ==
  ASSUME NEW tab, TableOK(tab), NEW i \in -1 .. tab.n - 1, NEW e \in Entry,
         e.name = tab.func[i].name, e.calledFuncs = tab.func[i].calledFuncs,
         e.nNoOfCalls = tab.func[i].nNoOfCalls
  PROVE  LET new == Put(tab, i, e)
         IN  /\ TableOK(new) /\ new.n = tab.n /\ new.index = tab.index
             /\ \A k \in Slots : new.func[k].calledFuncs = tab.func[k].calledFuncs
<1> DEFINE new == Put(tab, i, e)
<1>1. /\ tab \in Table /\ NumberingOK(tab) /\ CallsClosed(tab)
      /\ SpareBlank(tab) /\ CountsMatchEdges(tab)
  BY DEF TableOK
<1>2. /\ new.index = tab.index /\ new.n = tab.n
      /\ new.func = [tab.func EXCEPT ![i] = e]
      /\ new = [index |-> new.index, n |-> new.n, func |-> new.func]
      /\ tab.n \in 0 .. MAX_FUNCS /\ i \in Slots /\ tab.func \in [Slots -> Entry]
  BY <1>1, MaxFuncsAssumption DEF Table, Put, Slots
<1> HIDE DEF new
<1>3. /\ new.func \in [Slots -> Entry]
      /\ \A k \in Slots : new.func[k] = IF k = i THEN e ELSE tab.func[k]
  BY <1>2
<1>4. \A k \in Slots : /\ new.func[k].name = tab.func[k].name
                       /\ new.func[k].calledFuncs = tab.func[k].calledFuncs
                       /\ new.func[k].nNoOfCalls = tab.func[k].nNoOfCalls
                       /\ k >= tab.n => new.func[k] = tab.func[k]
  <2>1. ASSUME NEW k \in Slots, k >= tab.n PROVE k # i
    BY <2>1, <1>2, MaxFuncsAssumption DEF Slots
  <2> QED BY <1>3, <2>1
<1>5. new \in Table
  BY <1>1, <1>2, <1>3 DEF Table
<1>6. NumberingOK(new) /\ SpareBlank(new)
  BY <1>1, <1>2, <1>4, <1>5, SameShape
<1>7. CallsClosed(new)
  BY <1>1, <1>2, <1>4 DEF CallsClosed
<1>8. CountsMatchEdges(new)
  BY <1>1, <1>4 DEF CountsMatchEdges
<1> QED BY <1>2, <1>4, <1>5, <1>6, <1>7, <1>8 DEF TableOK, new

\* "new is a sound table with the names, the numbering and the edges of tab".
Keeps(tab, new) ==
    /\ TableOK(new) /\ new.n = tab.n /\ new.index = tab.index
    /\ \A k \in Slots : new.func[k].calledFuncs = tab.func[k].calledFuncs

\* What CountInstr, CountBranchInstr, load, StackSizeCount, Jit_Malloc_IA32
\* and the end of Routine do to an entry.
LEMMA MetricsOK ==
  ASSUME NEW tab, TableOK(tab), NEW i \in -1 .. tab.n - 1
  PROVE  /\ \A size \in Nat : Keeps(tab, AddBytes(tab, i, size))
         /\ \A key \in Keys, len \in Nat : Keeps(tab, AddBlock(tab, i, key, len))
         /\ Keeps(tab, AddBranch(tab, i))
         /\ Keeps(tab, AddAvloop(tab, i))
         /\ \A k \in Nat : Keeps(tab, AddLoads(tab, i, k))
         /\ \A k \in Nat : Keeps(tab, SetCodeSize(tab, i, k))
         /\ \A k \in Nat : Keeps(tab, SetBranches(tab, i, k))
         /\ \A size \in Nat : Keeps(tab, SetStackSize(tab, i, size))
<1> DEFINE old == tab.func[i]
           Metric(e) == /\ e \in Entry /\ e.name = old.name
                        /\ e.calledFuncs = old.calledFuncs
                        /\ e.nNoOfCalls = old.nNoOfCalls
<1>1. old \in Entry
  BY MaxFuncsAssumption DEF TableOK, Table, Slots
<1>2. ASSUME NEW e, Metric(e) PROVE Keeps(tab, Put(tab, i, e))
  BY <1>2, PutOK DEF Keeps
<1>3. Keeps(tab, tab)
  BY DEF Keeps
<1> HIDE DEF old
<1>4. ASSUME NEW k \in Nat
      PROVE  /\ Metric([old EXCEPT !.memoryAlloc1 = @ + k])
             /\ Metric([old EXCEPT !.nBranches = @ + 1])
             /\ Metric([old EXCEPT !.avloops = @ + 1])
             /\ Metric([old EXCEPT !.loads = @ + k])
             /\ Metric([old EXCEPT !.nCodeSize = k])
             /\ Metric([old EXCEPT !.nBranches = k])
             /\ Metric([old EXCEPT !.nStackSize = k])
             /\ \A key \in Keys :
                  Metric([old EXCEPT !.InstrExe = @ \cup {key}, !.nCodeSize = @ + k])
  <2>1. Metric([old EXCEPT !.memoryAlloc1 = @ + k])
    BY <1>1 DEF Entry
  <2>2. Metric([old EXCEPT !.nBranches = @ + 1])
    BY <1>1 DEF Entry
  <2>3. Metric([old EXCEPT !.avloops = @ + 1])
    BY <1>1 DEF Entry
  <2>4. Metric([old EXCEPT !.loads = @ + k])
    BY <1>1 DEF Entry
  <2>5. Metric([old EXCEPT !.nCodeSize = k])
    BY <1>1 DEF Entry
  <2>6. Metric([old EXCEPT !.nBranches = k])
    BY <1>1 DEF Entry
  <2>7. Metric([old EXCEPT !.nStackSize = k])
    BY <1>1 DEF Entry
  <2>8. ASSUME NEW key \in Keys
        PROVE  Metric([old EXCEPT !.InstrExe = @ \cup {key}, !.nCodeSize = @ + k])
    <3> DEFINE e1 == [old EXCEPT !.InstrExe = @ \cup {key}]
    <3>1. Metric(e1) /\ e1.nCodeSize = old.nCodeSize
      BY <1>1 DEF Entry
    <3>2. [old EXCEPT !.InstrExe = @ \cup {key}, !.nCodeSize = @ + k]
             = [e1 EXCEPT !.nCodeSize = @ + k]
      BY <1>1, <3>1 DEF Entry
    <3> HIDE DEF e1
    <3>3. Metric([e1 EXCEPT !.nCodeSize = @ + k])
      BY <3>1 DEF Entry
    <3> QED BY <3>2, <3>3
  <2> QED BY <2>1, <2>2, <2>3, <2>4, <2>5, <2>6, <2>7, <2>8
<1> HIDE DEF Metric
<1>5. ASSUME NEW k \in Nat
      PROVE  /\ Keeps(tab, AddBytes(tab, i, k))
             /\ Keeps(tab, AddLoads(tab, i, k))
             /\ Keeps(tab, SetCodeSize(tab, i, k))
             /\ Keeps(tab, SetBranches(tab, i, k))
             /\ Keeps(tab, SetStackSize(tab, i, k))
             /\ \A key \in Keys : Keeps(tab, AddBlock(tab, i, key, k))
  BY <1>2, <1>3, <1>4 DEF AddBytes, AddLoads, SetCodeSize, SetBranches,
                          SetStackSize, AddBlock, old
<1>6. Keeps(tab, AddBranch(tab, i)) /\ Keeps(tab, AddAvloop(tab, i))
  BY <1>2, <1>4 DEF AddBranch, AddAvloop, old
<1> QED BY <1>5, <1>6

----------------------------------------------------------------------------
(* The first state and the callbacks.                                      *)

LEMMA InitInv == Init => Inv
<1> SUFFICES ASSUME Init PROVE Inv
  OBVIOUS
<1>1. TableOK(st) /\ TableOK(dy) /\ ~ Full(st) /\ ~ Full(dy)
  BY EmptyTableOK DEF Init
<1>2. TypeOK
  <2>1. st \in Table /\ dy \in Table
    BY <1>1 DEF TableOK
  <2>2. None \in Slots
    BY MaxFuncsAssumption DEF None, Slots
  <2>3. NoFile \in File
    BY DEF NoFile, File
  <2>4. mapImg \in [Images -> [static : Nat, dynamic : Nat]]
    BY DEF Init
  <2>5. /\ pc \in [Threads -> {"run", "plt", "malloc", "instrument"}]
        /\ from \in [Threads -> Names \cup {NoName}]
        /\ frames \in [Threads -> Seq(Names \cup {NoName})]
    BY DEF Init
  <2> QED BY <2>1, <2>2, <2>3, <2>4, <2>5 DEF Init, TypeOK
<1>3. GlobalsInRange
  BY DEF Init, GlobalsInRange, EmptyTable, None
<1>4. RoomLeft /\ OneInRoutine /\ FilesInOrder /\ GraphFilesDefined
  BY <1>1, MaxFuncsAssumption
  DEF Init, RoomLeft, OneInRoutine, FilesInOrder, GraphFilesDefined, NoFile,
      Defines, Full, EmptyTable
<1> QED BY <1>1, <1>2, <1>3, <1>4 DEF Inv

\* A step before Fini that makes sound tables of sound ones, does not take an
\* entry of the dynamic table away and ends the process when a table is full
\* keeps Inv, when the variables it changes keep their types and the globals
\* their range.
LEMMA TablesStep ==
  ASSUME Inv, phase = "run",
         TableOK(st'), TableOK(dy'),
         phase' = (IF Full(st') \/ Full(dy') THEN "exited" ELSE phase),
         UNCHANGED files,
         TypeOK', GlobalsInRange', OneInRoutine'
  PROVE  Inv'
<1>1. st'.n \in 0 .. MAX_FUNCS /\ dy'.n \in 0 .. MAX_FUNCS
  BY DEF TableOK, Table
<1>2. RoomLeft'
  BY DEF RoomLeft, Full
<1>3. FilesInOrder'
  BY DEF Inv, FilesInOrder, files
<1>4. GraphFilesDefined'
  <2>1. staticXML'.edges = {} /\ dynamicXML'.edges = {}
    BY DEF Inv, FilesInOrder, files
  <2>2. phase' \in {"run", "dynamic"} => st'.n < MAX_FUNCS /\ dy'.n < MAX_FUNCS
    BY <1>1, MaxFuncsAssumption DEF Full
  <2> QED BY <2>1, <2>2 DEF GraphFilesDefined, Defines
<1> QED BY <1>2, <1>3, <1>4 DEF Inv

\* The same for a callback that leaves the static table alone.
LEMMA ProgramStep ==
  ASSUME Inv, phase = "run",
         TableOK(dy'), dy'.n \in dy.n .. MAX_FUNCS,
         phase' = (IF Full(dy') THEN "exited" ELSE phase),
         UNCHANGED <<st, files>>,
         TypeOK', GlobalsInRange', OneInRoutine'
  PROVE  Inv'
<1>1. TableOK(st') /\ ~ Full(st')
  BY DEF Inv, RoomLeft
<1> QED BY <1>1, TablesStep

\* What a callback knows when it starts.
LEMMA Running ==
  ASSUME Inv, phase = "run"
  PROVE  /\ TypeOK /\ TableOK(dy) /\ ~ Full(dy) /\ dy.n \in Nat /\ dy.n < MAX_FUNCS
         /\ prevIndex \in -1 .. dy.n - 1
         /\ prevIndexforMalloc \in -1 .. dy.n - 1
<1>1. dy.n \in 0 .. MAX_FUNCS
  BY DEF Inv, TableOK, Table
<1> QED BY <1>1, MaxFuncsAssumption DEF Inv, RoomLeft, Full, GlobalsInRange

\* A table that is not smaller keeps the globals in range.
LEMMA RangeGrows ==
  ASSUME NEW i \in -1 .. dy.n - 1, NEW n \in dy.n .. MAX_FUNCS, dy.n \in Nat
  PROVE  i \in -1 .. n - 1 /\ i \in Slots
BY MaxFuncsAssumption DEF Slots

LEMMA ProcedureCallInv ==
  ASSUME Inv, NEW t \in Threads, NEW src \in Names \ {LibCall}, NEW tgt \in Names,
         ProcedureCall(t, src, tgt)
  PROVE  Inv'
<1> DEFINE tab1 == GetFunctionIndex(dy, src)
           tab == GetFunctionIndex(tab1, tgt)
           s == tab.index[src]
<1>1. /\ phase = "run" /\ pc[t] = "run"
      /\ UNCHANGED <<st, setBranchesExe, images, files, local, bytes, steps>>
  BY DEF ProcedureCall, Runs
<1>2. /\ TypeOK /\ TableOK(dy) /\ ~ Full(dy) /\ dy.n \in Nat
      /\ prevIndex \in -1 .. dy.n - 1 /\ prevIndexforMalloc \in -1 .. dy.n - 1
  BY <1>1, Running
<1>3. /\ TableOK(tab1) /\ tab1.n \in dy.n .. MAX_FUNCS
      /\ ~ Full(tab1) => tab1.index[src] \in 0 .. tab1.n - 1
  BY <1>2, GetFunctionIndexOK
<1> HIDE DEF tab1
<1>4. /\ TableOK(tab) /\ tab.n \in tab1.n .. MAX_FUNCS
      /\ ~ Full(tab) => tab.index[tgt] \in 0 .. tab.n - 1
  BY <1>3, GetFunctionIndexOK
<1>5. tab.n \in dy.n .. MAX_FUNCS /\ tab.n \in Nat
  BY <1>2, <1>3, <1>4, MaxFuncsAssumption
<1>6. s \in -1 .. tab.n - 1 /\ s \in Slots
  BY <1>4, <1>5, MaxFuncsAssumption DEF TableOK, NumberingOK, Slots
<1>7. ~ Full(tab) => tab.index[tgt] \in 0 .. tab.n - 1
  BY <1>4
<1>8. CASE Full(tab)
  <2>1. dy' = tab /\ phase' = "exited" /\ UNCHANGED <<globals, program, calls>>
    BY <1>8 DEF ProcedureCall, Dynamic, tab1
  <2>2. TypeOK'
    BY <1>1, <1>2, <1>4, <2>1
    DEF TypeOK, TableOK, images, files, local, globals, program
  <2>3. GlobalsInRange'
    BY <1>2, <1>5, <2>1, RangeGrows DEF GlobalsInRange, globals
  <2>4. OneInRoutine'
    BY <1>1, <2>1 DEF Inv, OneInRoutine, program, local
  <2> QED BY <1>1, <1>4, <1>5, <1>8, <2>1, <2>2, <2>3, <2>4, ProgramStep
<1>9. CASE ~ Full(tab)
  <2>1. TableOK(dy') /\ dy'.n = tab.n
    <3>1. dy' = tab \/ dy' = AddCall(tab, s, tab.index[tgt])
      BY <1>9 DEF ProcedureCall, Dynamic, tab1
    <3> QED BY <3>1, <1>4, <1>6, <1>7, <1>9, AddCallOK
  <2>2. /\ phase' = IF Full(dy') THEN "exited" ELSE phase
        /\ prevIndex' \in {s, None}
        /\ prevIndexforMalloc' \in {s, prevIndexforMalloc}
        /\ calls' \in {calls, calls + 1}
        /\ \E label \in {"plt", "malloc", "run"} : pc' = [pc EXCEPT ![t] = label]
        /\ \E caller \in {src, NoName} : from' = [from EXCEPT ![t] = caller]
        /\ frames' = frames
    BY <1>9 DEF ProcedureCall, Dynamic, tab1, Goto
  <2>3. /\ prevIndex' \in -1 .. tab.n - 1 /\ prevIndex' \in Slots
        /\ prevIndexforMalloc' \in -1 .. tab.n - 1 /\ prevIndexforMalloc' \in Slots
    BY <1>2, <1>5, <1>6, <2>2, RangeGrows, MaxFuncsAssumption DEF None, Slots
  <2>4. TypeOK'
    <3>1. dy' \in Table /\ phase' \in {"run", "exited", "dynamic", "done"}
      BY <1>1, <2>1, <2>2 DEF TableOK
    <3>2. /\ pc' \in [Threads -> {"run", "plt", "malloc", "instrument"}]
          /\ from' \in [Threads -> Names \cup {NoName}]
          /\ calls' \in Nat
      BY <1>2, <2>2 DEF TypeOK
    <3> QED BY <1>1, <1>2, <2>2, <2>3, <3>1, <3>2 DEF TypeOK, images, files, local
  <2>5. GlobalsInRange'
    BY <2>1, <2>3 DEF GlobalsInRange
  <2>6. OneInRoutine'
    BY <1>1, <1>2, <2>2 DEF Inv, OneInRoutine, local, TypeOK
  <2> QED BY <1>1, <1>5, <2>1, <2>2, <2>4, <2>5, <2>6, ProgramStep
<1> QED BY <1>8, <1>9

LEMMA TailJumpInv ==
  ASSUME Inv, NEW t \in Threads, NEW src \in Names \ {LibCall}, TailJump(t, src)
  PROVE  Inv'
<1>1. /\ phase = "run"
      /\ pc' = [pc EXCEPT ![t] = "plt"] /\ from' = [from EXCEPT ![t] = src]
      /\ UNCHANGED <<tables, globals, setBranchesExe, images, phase, files,
                     frames, local, history>>
  BY DEF TailJump, Runs, Goto
<1>2. /\ TypeOK /\ TableOK(dy) /\ ~ Full(dy) /\ dy.n \in Nat
  BY <1>1, Running
<1>3. TypeOK'
  <2>1. pc' \in [Threads -> {"run", "plt", "malloc", "instrument"}]
        /\ from' \in [Threads -> Names \cup {NoName}]
    BY <1>1, <1>2 DEF TypeOK
  <2> QED BY <1>1, <1>2, <2>1
          DEF TypeOK, tables, globals, images, files, local, history
<1>4. GlobalsInRange' /\ TableOK(dy') /\ dy'.n \in dy.n .. MAX_FUNCS /\ ~ Full(dy')
  BY <1>1, <1>2 DEF Inv, GlobalsInRange, tables, globals, TypeOK, Table
<1>5. OneInRoutine'
  BY <1>1, <1>2 DEF Inv, OneInRoutine, local, TypeOK
<1> QED BY <1>1, <1>3, <1>4, <1>5, ProgramStep DEF tables

LEMMA CallPltInv ==
  ASSUME Inv, NEW t \in Threads, NEW tgt \in Names \ {LibCall}, CallPlt(t, tgt)
  PROVE  Inv'
<1> DEFINE tab == GetFunctionIndex(dy, tgt)
<1>1. /\ phase = "run"
      /\ UNCHANGED <<st, setBranchesExe, images, files, local, bytes, steps>>
  BY DEF CallPlt
<1>2. /\ TypeOK /\ TableOK(dy) /\ ~ Full(dy) /\ dy.n \in Nat
      /\ prevIndex \in -1 .. dy.n - 1 /\ prevIndexforMalloc \in -1 .. dy.n - 1
  BY <1>1, Running
<1>3. /\ TableOK(tab) /\ tab.n \in dy.n .. MAX_FUNCS
      /\ ~ Full(tab) => tab.index[tgt] \in 0 .. tab.n - 1
  BY <1>2, GetFunctionIndexOK
<1>4. /\ prevIndex \in -1 .. tab.n - 1 /\ prevIndexforMalloc \in -1 .. tab.n - 1
      /\ prevIndex \in Slots /\ prevIndexforMalloc \in Slots
  BY <1>2, <1>3, RangeGrows
<1>8. CASE Full(tab)
  <2>1. dy' = tab /\ phase' = "exited" /\ UNCHANGED <<globals, program, calls>>
    BY <1>8 DEF CallPlt, Dynamic
  <2>2. TypeOK'
    BY <1>1, <1>2, <1>3, <2>1
    DEF TypeOK, TableOK, images, files, local, globals, program
  <2>3. GlobalsInRange'
    BY <1>4, <2>1 DEF GlobalsInRange, globals
  <2>4. OneInRoutine'
    BY <1>1, <2>1 DEF Inv, OneInRoutine, program, local
  <2> QED BY <1>1, <1>3, <1>8, <2>1, <2>2, <2>3, <2>4, ProgramStep
<1>9. CASE ~ Full(tab)
  <2>1. TableOK(dy') /\ dy'.n = tab.n
    <3>1. dy' = AddCall(tab, prevIndex, tab.index[tgt])
      BY <1>9 DEF CallPlt, Dynamic
    <3> QED BY <3>1, <1>3, <1>4, <1>9, AddCallOK
  <2>2. /\ phase' = IF Full(dy') THEN "exited" ELSE phase
        /\ prevIndex' = prevIndex
        /\ prevIndexforMalloc' \in {prevIndex, prevIndexforMalloc}
        /\ calls' = calls + 1
        /\ \E label \in {"malloc", "run"} : pc' = [pc EXCEPT ![t] = label]
        /\ \E caller \in {from[t], NoName} : from' = [from EXCEPT ![t] = caller]
        /\ frames' = frames
    BY <1>9 DEF CallPlt, Dynamic, Goto
  <2>3. /\ prevIndex' \in -1 .. tab.n - 1 /\ prevIndex' \in Slots
        /\ prevIndexforMalloc' \in -1 .. tab.n - 1 /\ prevIndexforMalloc' \in Slots
    BY <1>4, <2>2
  <2>4. TypeOK'
    <3>1. dy' \in Table /\ phase' \in {"run", "exited", "dynamic", "done"}
      BY <1>1, <2>1, <2>2 DEF TableOK
    <3>2. /\ pc' \in [Threads -> {"run", "plt", "malloc", "instrument"}]
          /\ from' \in [Threads -> Names \cup {NoName}]
          /\ calls' \in Nat
      BY <1>2, <2>2 DEF TypeOK
    <3> QED BY <1>1, <1>2, <2>2, <2>3, <3>1, <3>2 DEF TypeOK, images, files, local
  <2>5. GlobalsInRange'
    BY <2>1, <2>3 DEF GlobalsInRange
  <2>6. OneInRoutine'
    BY <1>1, <1>2, <2>2 DEF Inv, OneInRoutine, local, TypeOK
  <2> QED BY <1>1, <1>3, <2>1, <2>2, <2>4, <2>5, <2>6, ProgramStep
<1> QED BY <1>8, <1>9

LEMMA EnterMallocInv ==
  ASSUME Inv, NEW t \in Threads, EnterMalloc(t)
  PROVE  Inv'
<1>1. /\ phase = "run"
      /\ pc' = [pc EXCEPT ![t] = "run"] /\ from' = [from EXCEPT ![t] = NoName]
      /\ frames' = [frames EXCEPT ![t] = Append(@, from[t])]
      /\ UNCHANGED <<tables, globals, setBranchesExe, images, phase, files,
                     local, history>>
  BY DEF EnterMalloc, Goto
<1>2. /\ TypeOK /\ TableOK(dy) /\ ~ Full(dy) /\ dy.n \in Nat
  BY <1>1, Running
<1>3. TypeOK'
  <2>1. /\ pc' \in [Threads -> {"run", "plt", "malloc", "instrument"}]
        /\ from' \in [Threads -> Names \cup {NoName}]
        /\ frames' \in [Threads -> Seq(Names \cup {NoName})]
    BY <1>1, <1>2 DEF TypeOK
  <2> QED BY <1>1, <1>2, <2>1
          DEF TypeOK, tables, globals, images, files, local, history
<1>4. GlobalsInRange' /\ TableOK(dy') /\ dy'.n \in dy.n .. MAX_FUNCS /\ ~ Full(dy')
  BY <1>1, <1>2 DEF Inv, GlobalsInRange, tables, globals, TypeOK, Table
<1>5. OneInRoutine'
  BY <1>1, <1>2 DEF Inv, OneInRoutine, local, TypeOK
<1> QED BY <1>1, <1>3, <1>4, <1>5, ProgramStep DEF tables

LEMMA ReturnMallocInv ==
  ASSUME Inv, NEW t \in Threads, NEW size \in Sizes, ReturnMalloc(t, size)
  PROVE  Inv'
<1>1. /\ phase = "run" /\ frames[t] # << >>
      /\ dy' = AddBytes(dy, prevIndexforMalloc, size)
      /\ phase' = IF Full(dy') THEN "exited" ELSE phase
      /\ prevIndexforMalloc' = None
      /\ frames' = [frames EXCEPT ![t] = SubSeq(@, 1, Len(@) - 1)]
      /\ bytes' = bytes + size
      /\ UNCHANGED <<st, prevIndex, setBranchesExe, images, files, pc, from,
                     local, calls, steps>>
  BY DEF ReturnMalloc, Runs, Dynamic
<1>2. /\ TypeOK /\ TableOK(dy) /\ dy.n \in Nat /\ dy.n < MAX_FUNCS
      /\ prevIndex \in -1 .. dy.n - 1 /\ prevIndexforMalloc \in -1 .. dy.n - 1
  BY <1>1, Running
<1>3. size \in Nat
  BY BoundsAssumption
<1>4. TableOK(dy') /\ dy'.n = dy.n
  BY <1>1, <1>2, <1>3, MetricsOK DEF Keeps
<1>5. TypeOK'
  <2>1. dy' \in Table /\ phase' \in {"run", "exited", "dynamic", "done"}
    BY <1>1, <1>4 DEF TableOK
  <2>2. frames' \in [Threads -> Seq(Names \cup {NoName})]
    <3>1. /\ frames[t] \in Seq(Names \cup {NoName}) /\ Len(frames[t]) \in Nat
          /\ Len(frames[t]) > 0
      BY <1>1, <1>2 DEF TypeOK
    <3>2. SubSeq(frames[t], 1, Len(frames[t]) - 1) \in Seq(Names \cup {NoName})
      BY <3>1
    <3> QED BY <3>2, <1>1, <1>2 DEF TypeOK
  <2>3. bytes' \in Nat /\ None \in Slots
    BY <1>1, <1>2, <1>3, MaxFuncsAssumption DEF TypeOK, None, Slots
  <2> QED BY <1>1, <1>2, <2>1, <2>2, <2>3 DEF TypeOK, images, files, local
<1>6. GlobalsInRange'
  BY <1>1, <1>2, <1>4 DEF GlobalsInRange, None
<1>7. OneInRoutine'
  BY <1>1 DEF Inv, OneInRoutine, local
<1> QED BY <1>1, <1>2, <1>4, <1>5, <1>6, <1>7, MaxFuncsAssumption, ProgramStep

----------------------------------------------------------------------------
(* Measures.                                                               *)

\* A callback at a site that changes no variable of the program keeps Inv.
LEMMA SiteStep ==
  ASSUME Inv, NEW t \in Threads, NEW s \in Sites, phase = "run",
         NEW tab, tab = GetFunctionIndex(dy, SiteName[s]),
         NEW new, ~ Full(tab) => Keeps(tab, new),
         dy' = (IF Full(tab) THEN tab ELSE new),
         phase' = (IF Full(dy') THEN "exited" ELSE phase),
         setBranchesExe' \subseteq Keys, steps' \in Nat,
         UNCHANGED <<st, globals, images, files, program, local, calls, bytes>>
  PROVE  Inv'
<1>1. /\ TypeOK /\ TableOK(dy) /\ ~ Full(dy) /\ dy.n \in Nat
      /\ prevIndex \in -1 .. dy.n - 1 /\ prevIndexforMalloc \in -1 .. dy.n - 1
  BY Running
<1>2. TableOK(tab) /\ tab.n \in dy.n .. MAX_FUNCS
  BY <1>1, GetFunctionIndexOK, SitesAssumption
<1>3. TableOK(dy') /\ dy'.n = tab.n
  BY <1>2 DEF Keeps
<1>4. TypeOK'
  <2>1. dy' \in Table /\ phase' \in {"run", "exited", "dynamic", "done"}
    BY <1>3 DEF TableOK
  <2> QED BY <1>1, <2>1 DEF TypeOK, globals, images, files, program, local
<1>5. GlobalsInRange'
  BY <1>1, <1>2, <1>3, RangeGrows DEF GlobalsInRange, globals
<1>6. OneInRoutine'
  BY DEF Inv, OneInRoutine, program, local
<1> QED BY <1>2, <1>3, <1>4, <1>5, <1>6, ProgramStep

\* At a site whose function is registered, each measure is one of MetricsOK.
LEMMA SiteMetric ==
  ASSUME TableOK(dy), NEW s \in Sites, NEW tab, tab = GetFunctionIndex(dy, SiteName[s]),
         ~ Full(tab)
  PROVE  /\ TableOK(tab) /\ tab.index[SiteName[s]] \in -1 .. tab.n - 1
         /\ SiteKey[s] \in Keys /\ SiteLen[s] \in Nat
<1>1. TableOK(tab) /\ tab.n \in Nat /\ tab.index[SiteName[s]] \in 0 .. tab.n - 1
  BY GetFunctionIndexOK, SitesAssumption DEF TableOK, Table
<1> QED BY <1>1, SitesAssumption

LEMMA SitesInv ==
  ASSUME Inv, NEW t \in Threads, NEW s \in Sites,
         \/ CountInstr(t, s)
         \/ CountBranchInstr(t, s)
         \/ \E off \in {0, 12} : load(t, s, off, 8)
         \/ StackSizeCount(t, s, SiteLen[s])
  PROVE  Inv'
<1> DEFINE tab == GetFunctionIndex(dy, SiteName[s])
           i == tab.index[SiteName[s]]
<1>1. TypeOK /\ TableOK(dy)
  BY DEF Inv
<1> HIDE DEF tab
<1>2. ~ Full(tab) => /\ TableOK(tab) /\ i \in -1 .. tab.n - 1
                     /\ SiteKey[s] \in Keys /\ SiteLen[s] \in Nat
  BY <1>1, SiteMetric DEF tab
<1>3. CASE CountInstr(t, s)
  <2> DEFINE new == AddBlock(tab, i, SiteKey[s], SiteLen[s])
  <2>1. /\ phase = "run"
        /\ dy' = (IF Full(tab) THEN tab ELSE new)
        /\ phase' = (IF Full(dy') THEN "exited" ELSE phase)
        /\ UNCHANGED <<setBranchesExe, steps>>
        /\ UNCHANGED <<st, globals, images, files, program, local, calls, bytes>>
    BY <1>3 DEF CountInstr, AtSite, Dynamic, Runs, tab
  <2>2. ~ Full(tab) => Keeps(tab, new)
    BY <1>2, MetricsOK
  <2>3. setBranchesExe' \subseteq Keys /\ steps' \in Nat
    BY <1>1, <2>1 DEF TypeOK
  <2> QED BY <2>1, <2>2, <2>3, SiteStep DEF tab
<1>4. CASE CountBranchInstr(t, s)
  <2> DEFINE new == AddBranch(tab, i)
  <2>1. /\ phase = "run"
        /\ dy' = (IF Full(tab) THEN tab ELSE new)
        /\ phase' = (IF Full(dy') THEN "exited" ELSE phase)
        /\ setBranchesExe' = setBranchesExe \cup {SiteKey[s]} /\ UNCHANGED steps
        /\ UNCHANGED <<st, globals, images, files, program, local, calls, bytes>>
    BY <1>4 DEF CountBranchInstr, AtSite, Dynamic, Runs, tab
  <2>2. ~ Full(tab) => Keeps(tab, new)
    BY <1>2, MetricsOK
  <2>3. setBranchesExe' \subseteq Keys /\ steps' \in Nat
    BY <1>1, <2>1, SitesAssumption DEF TypeOK
  <2> QED BY <2>1, <2>2, <2>3, SiteStep DEF tab
<1>5. ASSUME NEW off \in {0, 12}, load(t, s, off, 8) PROVE Inv'
  <2> DEFINE new == AddLoads(tab, i, Chunks(off, 8))
  <2>1. /\ phase = "run"
        /\ dy' = (IF Full(tab) THEN tab ELSE new)
        /\ phase' = (IF Full(dy') THEN "exited" ELSE phase)
        /\ steps' = steps + 1 /\ UNCHANGED setBranchesExe
        /\ UNCHANGED <<st, globals, images, files, program, local, calls, bytes>>
    BY <1>5 DEF load, AtSite, Dynamic, Runs, Step, tab
  <2>2. ~ Full(tab) => Keeps(tab, new)
    <3>1. Chunks(off, 8) \in Nat
      BY <1>5 DEF Chunks
    <3> QED BY <1>2, <3>1, MetricsOK
  <2>3. setBranchesExe' \subseteq Keys /\ steps' \in Nat
    BY <1>1, <2>1 DEF TypeOK
  <2> QED BY <2>1, <2>2, <2>3, SiteStep DEF tab
<1>6. CASE StackSizeCount(t, s, SiteLen[s])
  <2> DEFINE new == SetStackSize(tab, i, SiteLen[s])
  <2>1. /\ phase = "run"
        /\ dy' = (IF Full(tab) THEN tab ELSE new)
        /\ phase' = (IF Full(dy') THEN "exited" ELSE phase)
        /\ UNCHANGED <<setBranchesExe, steps>>
        /\ UNCHANGED <<st, globals, images, files, program, local, calls, bytes>>
    BY <1>6 DEF StackSizeCount, AtSite, Dynamic, Runs, tab
  <2>2. ~ Full(tab) => Keeps(tab, new)
    BY <1>2, MetricsOK
  <2>3. setBranchesExe' \subseteq Keys /\ steps' \in Nat
    BY <1>1, <2>1 DEF TypeOK
  <2> QED BY <2>1, <2>2, <2>3, SiteStep DEF tab
<1> QED BY <1>3, <1>4, <1>5, <1>6

LEMMA RtnStartInv ==
  ASSUME Inv, NEW t \in Threads, NEW r \in Routines, RtnStart(t, r)
  PROVE  Inv'
<1>1. /\ phase = "run" /\ steps' = steps + 1 /\ mapTempFunc' = TRUE
      /\ \/ mapImg' = mapImg
         \/ mapImg' = [mapImg EXCEPT ![RtnImage[r]].dynamic = @ + 1]
      /\ UNCHANGED <<tables, globals, setBranchesExe, phase, files, program,
                     local, calls, bytes>>
  BY DEF RtnStart, Runs, Step
<1>2. /\ TypeOK /\ TableOK(dy) /\ ~ Full(dy) /\ dy.n \in Nat
  BY <1>1, Running
<1>3. mapImg' \in [Images -> [static : Nat, dynamic : Nat]]
  <2> DEFINE img == RtnImage[r]
             e == [mapImg[img] EXCEPT !.dynamic = @ + 1]
  <2>1. img \in Images /\ mapImg \in [Images -> [static : Nat, dynamic : Nat]]
    BY <1>2, RoutinesAssumption DEF TypeOK
  <2>2. mapImg' = mapImg \/ mapImg' = [mapImg EXCEPT ![img] = e]
    BY <1>1
  <2>3. e \in [static : Nat, dynamic : Nat]
    BY <2>1
  <2> HIDE DEF img, e
  <2> QED BY <2>1, <2>2, <2>3
<1>4. TypeOK'
  BY SMTT(20), <1>1, <1>2, <1>3 DEF TypeOK, tables, globals, files, program, local
<1>5. GlobalsInRange' /\ TableOK(dy') /\ dy'.n \in dy.n .. MAX_FUNCS /\ ~ Full(dy')
  BY <1>1, <1>2 DEF Inv, GlobalsInRange, tables, globals, TypeOK, Table
<1>6. OneInRoutine'
  BY <1>1 DEF Inv, OneInRoutine, program, local
<1> QED BY <1>1, <1>4, <1>5, <1>6, ProgramStep DEF tables

----------------------------------------------------------------------------
(* The static pass.                                                        *)

LEMMA OpenRoutineInv ==
  ASSUME Inv, NEW t \in Threads, NEW r \in Routines, OpenRoutine(t, r)
  PROVE  Inv'
<1>1. /\ phase = "run" /\ pc[t] = "run" /\ rtn = NoRtn
      /\ mapImg' = [mapImg EXCEPT ![RtnImage[r]].static = @ + 1]
      /\ st' = GetFunctionIndex(st, RtnName[r])
      /\ phase' = IF Full(st') THEN "exited" ELSE phase
      /\ rtn' = r /\ ip' = 0 /\ pc' = [pc EXCEPT ![t] = "instrument"]
      /\ UNCHANGED <<dy, globals, setBranchesExe, mapTempFunc, files, from,
                     frames, opened, history>>
  BY DEF OpenRoutine, Runs, Static, Goto
<1>2. TypeOK /\ TableOK(st) /\ TableOK(dy) /\ ~ Full(dy)
  BY <1>1 DEF Inv, RoomLeft
<1>3. TableOK(st')
  BY <1>1, <1>2, GetFunctionIndexOK, RoutinesAssumption
<1>4. mapImg' \in [Images -> [static : Nat, dynamic : Nat]]
  <2> DEFINE img == RtnImage[r]
             e == [mapImg[img] EXCEPT !.static = @ + 1]
  <2>1. img \in Images /\ mapImg \in [Images -> [static : Nat, dynamic : Nat]]
    BY <1>2, RoutinesAssumption DEF TypeOK
  <2>2. mapImg' = [mapImg EXCEPT ![img] = e]
    BY <1>1
  <2>3. e \in [static : Nat, dynamic : Nat]
    BY <2>1
  <2> HIDE DEF img, e
  <2> QED BY <2>1, <2>2, <2>3
<1>5. TypeOK'
  <2>1. st' \in Table /\ phase' \in {"run", "exited", "dynamic", "done"}
    BY <1>1, <1>3 DEF TableOK
  <2>2. pc' \in [Threads -> {"run", "plt", "malloc", "instrument"}]
    BY <1>1, <1>2 DEF TypeOK
  <2> QED BY <1>1, <1>2, <1>4, <2>1, <2>2 DEF TypeOK, globals, files, history
<1>6. GlobalsInRange'
  BY <1>1 DEF Inv, GlobalsInRange, globals
<1>7. OneInRoutine'
  <2>1. \A u \in Threads : pc[u] # "instrument"
    BY <1>1, RoutinesAssumption DEF Inv, OneInRoutine
  <2>2. \A u \in Threads : pc'[u] = "instrument" => u = t
    BY <1>1, <1>2, <2>1 DEF TypeOK
  <2> QED BY <1>1, <2>2 DEF OneInRoutine
<1> QED BY <1>1, <1>2, <1>3, <1>5, <1>6, <1>7, TablesStep

\* The tables after one instruction of a routine.
LEMMA StaticInstrOK ==
  ASSUME TableOK(st), NEW m \in Names, NEW ins \in Instr
  PROVE  TableOK(StaticInstr(m, ins))
<1> DEFINE i == st.index[m]
           fr == IF ins.frame = 0 THEN st ELSE SetStackSize(st, i, ins.frame)
           tab == IF ins.callee = NoName THEN fr ELSE GetFunctionIndex(fr, ins.callee)
           called == IF ins.callee = NoName \/ Full(tab) THEN tab
                     ELSE AddCall(tab, i, tab.index[ins.callee])
<1>1. ins.frame \in Nat /\ ins.callee \in Names \cup {NoName}
  BY DEF Instr
<1>2. i \in -1 .. st.n - 1 /\ st.n \in 0 .. MAX_FUNCS
  BY DEF TableOK, NumberingOK, Table
<1>3. TableOK(fr) /\ fr.n = st.n
  BY <1>1, <1>2, MetricsOK DEF Keeps
<1> HIDE DEF i, fr
<1>4. /\ TableOK(tab) /\ tab.n \in fr.n .. MAX_FUNCS
      /\ (ins.callee # NoName /\ ~ Full(tab)) => tab.index[ins.callee] \in 0 .. tab.n - 1
  <2>1. CASE ins.callee = NoName
    BY <1>2, <1>3, <2>1, MaxFuncsAssumption
  <2>2. CASE ins.callee # NoName
    <3>1. ins.callee \in Names
      BY <1>1, <2>2
    <3> QED BY <1>3, <2>2, <3>1, GetFunctionIndexOK
  <2> QED BY <2>1, <2>2
<1> HIDE DEF tab
<1>5. i \in -1 .. tab.n - 1
  BY <1>2, <1>3, <1>4, MaxFuncsAssumption
<1>6. TableOK(called) /\ called.n = tab.n
  BY <1>4, <1>5, AddCallOK
<1> HIDE DEF called
<1>7. TableOK(AddAvloop(called, i))
  BY <1>5, <1>6, MetricsOK DEF Keeps
<1>8. \/ StaticInstr(m, ins) = AddAvloop(called, i)
      \/ StaticInstr(m, ins) = called
  BY DEF StaticInstr, called, tab, fr, i
<1> QED BY <1>6, <1>7, <1>8

LEMMA DynamicInstrOK ==
  ASSUME TableOK(dy), NEW m \in Names, NEW ins \in Instr
  PROVE  /\ TableOK(DynamicInstr(m, ins))
         /\ DynamicInstr(m, ins).n \in dy.n .. MAX_FUNCS
<1> DEFINE tab == GetFunctionIndex(dy, m)
<1>1. /\ TableOK(tab) /\ tab.n \in dy.n .. MAX_FUNCS
      /\ ~ Full(tab) => tab.index[m] \in -1 .. tab.n - 1
  <2>1. TableOK(tab) /\ tab.n \in Nat
    BY GetFunctionIndexOK DEF TableOK, Table
  <2> QED BY <2>1, GetFunctionIndexOK
<1>2. dy.n \in dy.n .. MAX_FUNCS
  BY MaxFuncsAssumption DEF TableOK, Table
<1>3. ~ Full(tab) => TableOK(AddAvloop(tab, tab.index[m]))
                     /\ AddAvloop(tab, tab.index[m]).n = tab.n
  BY <1>1, MetricsOK DEF Keeps
<1> QED BY <1>1, <1>2, <1>3 DEF DynamicInstr

LEMMA RoutineInstrInv ==
  ASSUME Inv, NEW t \in Threads, RoutineInstr(t)
  PROVE  Inv'
<1> DEFINE ins == RtnBody[rtn][ip + 1]
           m == RtnName[rtn]
           tab == StaticInstr(m, ins)
<1>1. /\ phase = "run" /\ pc[t] = "instrument" /\ ip < Len(RtnBody[rtn])
      /\ st' = tab
      /\ dy' = IF Full(tab) THEN dy ELSE DynamicInstr(m, ins)
      /\ phase' = IF Full(st') \/ Full(dy') THEN "exited" ELSE phase
      /\ ip' = ip + 1
      /\ UNCHANGED <<globals, setBranchesExe, images, files, program, rtn,
                     opened, history>>
  BY DEF RoutineInstr
<1>2. /\ TypeOK /\ TableOK(st) /\ TableOK(dy)
      /\ prevIndex \in -1 .. dy.n - 1 /\ prevIndexforMalloc \in -1 .. dy.n - 1
      /\ dy.n \in Nat /\ dy.n \in dy.n .. MAX_FUNCS
  <2>1. dy.n \in Nat /\ dy.n < MAX_FUNCS
    BY <1>1, Running
  <2> QED BY <1>1, <2>1, Running, MaxFuncsAssumption DEF Inv
<1>3. m \in Names /\ ins \in Instr
  <2>1. rtn \in Routines
    BY <1>1 DEF Inv, OneInRoutine
  <2>2. RtnBody[rtn] \in Seq(Instr) /\ ip \in Nat
    BY <1>2, <2>1, RoutinesAssumption DEF TypeOK
  <2>3. ip + 1 \in 1 .. Len(RtnBody[rtn])
    BY <1>1, <2>2
  <2> QED BY <2>1, <2>2, <2>3, RoutinesAssumption
<1>4. TableOK(st')
  BY <1>1, <1>2, <1>3, StaticInstrOK
<1>5. TableOK(dy') /\ dy'.n \in dy.n .. MAX_FUNCS
  BY <1>1, <1>2, <1>3, DynamicInstrOK
<1>6. TypeOK'
  <2>1. /\ st' \in Table /\ dy' \in Table
        /\ phase' \in {"run", "exited", "dynamic", "done"} /\ ip' \in Nat
    BY <1>1, <1>2, <1>4, <1>5 DEF TableOK, TypeOK
  <2> QED BY <1>1, <1>2, <2>1 DEF TypeOK, globals, images, files, program, history
<1>7. GlobalsInRange'
  BY <1>1, <1>2, <1>5, RangeGrows DEF GlobalsInRange, globals
<1>8. OneInRoutine'
  BY <1>1 DEF Inv, OneInRoutine, program
<1> QED BY <1>1, <1>4, <1>5, <1>6, <1>7, <1>8, TablesStep

LEMMA CloseRoutineInv ==
  ASSUME Inv, NEW t \in Threads, CloseRoutine(t)
  PROVE  Inv'
<1> DEFINE body == RtnBody[rtn]
           i == st.index[RtnName[rtn]]
           nBranchCount == Cardinality({k \in 1 .. Len(body) : body[k].branch})
           tab == SetCodeSize(st, i, Len(body))
<1>1. /\ phase = "run" /\ pc[t] = "instrument" /\ ip = Len(body)
      /\ st' = SetBranches(tab, i, nBranchCount)
      /\ phase' = IF Full(st') THEN "exited" ELSE phase
      /\ opened' = opened \cup {rtn} /\ rtn' = NoRtn /\ ip' = 0
      /\ pc' = [pc EXCEPT ![t] = "run"]
      /\ UNCHANGED <<dy, globals, setBranchesExe, images, files, from, frames,
                     history>>
  BY DEF CloseRoutine, Static, Goto
<1>2. TypeOK /\ TableOK(st) /\ TableOK(dy) /\ ~ Full(dy)
  BY <1>1 DEF Inv, RoomLeft
<1>3. rtn \in Routines
  BY <1>1 DEF Inv, OneInRoutine
<1>4. Len(body) \in Nat /\ nBranchCount \in Nat
  <2>1. Len(body) \in Nat
    BY <1>3, RoutinesAssumption
  <2> DEFINE B == {k \in 1 .. Len(body) : body[k].branch}
  <2>2. IsFiniteSet(B)
    <3>1. IsFiniteSet(1 .. Len(body))
      BY <2>1, FS_Interval
    <3>2. B \subseteq 1 .. Len(body)
      OBVIOUS
    <3> HIDE DEF B, body
    <3> QED BY <3>1, <3>2, FS_Subset
  <2> QED BY <2>1, <2>2, FS_CardinalityType
<1>5. TableOK(st')
  <2>1. i \in -1 .. st.n - 1
    BY <1>2, <1>3, RoutinesAssumption DEF TableOK, NumberingOK
  <2>2. TableOK(tab) /\ tab.n = st.n
    BY <1>2, <1>4, <2>1, MetricsOK DEF Keeps
  <2> HIDE DEF tab, i, nBranchCount
  <2>3. TableOK(SetBranches(tab, i, nBranchCount))
    BY <1>4, <2>1, <2>2, MetricsOK DEF Keeps
  <2> QED BY <1>1, <2>3
<1>6. TypeOK'
  <2>1. /\ st' \in Table /\ phase' \in {"run", "exited", "dynamic", "done"}
        /\ pc' \in [Threads -> {"run", "plt", "malloc", "instrument"}]
    BY <1>1, <1>2, <1>5 DEF TableOK, TypeOK
  <2> QED BY <1>1, <1>2, <1>3, <2>1 DEF TypeOK, globals, images, files, history
<1>7. GlobalsInRange'
  BY <1>1 DEF Inv, GlobalsInRange, globals
<1>8. OneInRoutine'
  <2>1. \A u \in Threads : pc'[u] # "instrument"
    BY <1>1, <1>2 DEF Inv, OneInRoutine, TypeOK
  <2> QED BY <2>1 DEF OneInRoutine
<1> QED BY <1>1, <1>2, <1>5, <1>6, <1>7, <1>8, TablesStep

----------------------------------------------------------------------------
(* Fini.                                                                   *)

\* The edge loop runs one entry past the counter, and finds nothing there.
LEMMA EdgesDefined ==
  ASSUME NEW tab, TableOK(tab), ~ Full(tab), NEW e \in Edges(tab)
  PROVE  e \in (0 .. tab.n - 1) \X (0 .. tab.n - 1)
<1>1. tab.n \in Nat /\ tab.n < MAX_FUNCS
  BY MaxFuncsAssumption DEF TableOK, Table, Full
<1>2. PICK i \in 0 .. tab.n : e \in EdgesOf(tab, i)
  BY DEF Edges
<1>3. PICK j \in tab.func[i].calledFuncs : e = <<Id(tab, i), j>>
  BY <1>2 DEF EdgesOf
<1>4. i \in Slots
  BY <1>1, MaxFuncsAssumption DEF Slots
<1>5. j \in 0 .. tab.n - 1
  BY <1>3, <1>4 DEF TableOK, CallsClosed
<1>6. i # tab.n
  <2>1. SUFFICES ASSUME i = tab.n PROVE FALSE
    OBVIOUS
  <2>2. tab.func[i] = BlankEntry
    BY <1>1, <2>1, MaxFuncsAssumption DEF TableOK, SpareBlank
  <2> QED BY <1>3, <2>2 DEF BlankEntry
<1>7. Id(tab, i) \in 0 .. tab.n - 1
  BY <1>1, <1>2, <1>6 DEF Id
<1> QED BY <1>3, <1>5, <1>7

LEMMA WriteStaticInv ==
  ASSUME Inv, WriteStatic
  PROVE  Inv'
<1>1. /\ TypeOK /\ TableOK(st) /\ TableOK(dy) /\ ~ Full(st) /\ ~ Full(dy)
      /\ phase = "run"
  BY DEF Inv, RoomLeft, WriteStatic
<1>2. st.n \in Nat /\ st.n < MAX_FUNCS /\ dy.n \in Nat /\ dy.n < MAX_FUNCS
  BY <1>1, MaxFuncsAssumption DEF TableOK, Table, Full
<1>3. PICK spill : /\ staticXML' = [NoFile EXCEPT !.nodes = st.n, !.complete = TRUE,
                                                 !.edges = Edges(st) \cup spill]
                   /\ spill \in IF st.n = MAX_FUNCS - 1
                               THEN {{}, {<<0, j>> : j \in dy.func[None].calledFuncs}}
                               ELSE {{}}
  BY DEF WriteStatic
<1>4. /\ phase' = "dynamic"
      /\ UNCHANGED <<tables, globals, setBranchesExe, images, dynamicXML,
                     program, local, history>>
  BY DEF WriteStatic
<1>5. staticXML' = [nodes |-> st.n, edges |-> Edges(st) \cup spill,
                    samples |-> << >>, complete |-> TRUE]
  BY <1>3 DEF NoFile
<1>6. Edges(st) \subseteq (0 .. st.n - 1) \X (0 .. st.n - 1)
  BY <1>1, EdgesDefined
<1>7. None \in Slots /\ 0 \in Slots /\ 0 .. st.n - 1 \subseteq Slots
      /\ 0 .. dy.n - 1 \subseteq Slots
  BY <1>2, MaxFuncsAssumption DEF None, Slots
<1>8. dy.func[None].calledFuncs \subseteq 0 .. dy.n - 1
  BY <1>1, <1>7 DEF TableOK, CallsClosed
<1>9. spill \subseteq Slots \X Slots
  BY <1>3, <1>7, <1>8
<1>10. TypeOK'
  <2>1. staticXML' \in File
    BY <1>2, <1>5, <1>6, <1>7, <1>9 DEF File
  <2> QED BY <1>1, <1>4, <2>1
          DEF TypeOK, tables, globals, images, program, local, history
<1>11. Defines(staticXML') \/ ~ (st.n # MAX_FUNCS - 1 \/ dy.func[None].calledFuncs = {})
  <2>1. SUFFICES ASSUME st.n # MAX_FUNCS - 1 \/ dy.func[None].calledFuncs = {}
                 PROVE  Defines(staticXML')
    OBVIOUS
  <2>2. spill = {}
    BY <1>3, <2>1
  <2> QED BY <1>5, <1>6, <2>2 DEF Defines, NodeIds
<1>12. GraphFilesDefined'
  BY <1>1, <1>2, <1>4, <1>5, <1>11
  DEF GraphFilesDefined, Inv, tables, Defines, NodeIds
<1>13. RoomLeft' /\ OneInRoutine' /\ GlobalsInRange' /\ FilesInOrder'
  BY <1>1, <1>4
  DEF Inv, RoomLeft, OneInRoutine, GlobalsInRange, FilesInOrder, tables, globals,
      program, local
<1> QED BY <1>1, <1>4, <1>10, <1>12, <1>13 DEF Inv, tables

\* A quotient of natural numbers is one.
LEMMA QuotientNat ==
  ASSUME NEW a \in Nat, NEW b \in Nat \ {0}
  PROVE  a \div b \in Nat /\ (a >= b => a \div b > 0)
OBVIOUS

LEMMA SamplesNat ==
  ASSUME NEW total \in Nat
  PROVE  Samples(total) \in Nat
<1> DEFINE k == IF total < MAX_LOADS THEN 1 ELSE total \div MAX_LOADS
<1>1. k \in Nat \ {0}
  BY QuotientNat, BoundsAssumption
<1> HIDE DEF k
<1>2. total + k - 1 \in Nat
  BY <1>1
<1>3. (total + k - 1) \div k \in Nat
  BY <1>1, <1>2, QuotientNat
<1> QED BY <1>3 DEF Samples, k

LEMMA WriteDynamicNodeInv ==
  ASSUME Inv, WriteDynamicNode
  PROVE  Inv'
<1> DEFINE i == dynamicXML.nodes
           m == dy.func[i].name
           tab == GetFunctionIndex(st, m)
           size == tab.func[tab.index[m]].nCodeSize
<1>1. /\ phase = "dynamic" /\ i < dy.n
      /\ st' = tab
      /\ phase' = IF Full(tab) THEN "exited" ELSE phase
      /\ dy' \in {dy, SetCodeSize(dy, i, size)}
      /\ Full(tab) => dy' = dy
      /\ dynamicXML' = [dynamicXML EXCEPT
                           !.samples = Append(@, Samples(dy.func[i].loads)),
                           !.nodes = IF Full(tab) THEN @ ELSE @ + 1]
      /\ UNCHANGED <<globals, setBranchesExe, images, staticXML, program,
                     local, history>>
  BY DEF WriteDynamicNode, Static
<1>2. /\ TypeOK /\ TableOK(st) /\ TableOK(dy) /\ ~ Full(st) /\ ~ Full(dy)
  BY <1>1 DEF Inv, RoomLeft
<1>3. /\ i \in Nat /\ dy.n \in Nat /\ dy.n < MAX_FUNCS /\ i \in 0 .. dy.n - 1
      /\ i \in Slots /\ dy.func[i] \in Entry
  <2>1. i \in Nat /\ dy.n \in Nat /\ dy.n < MAX_FUNCS
    BY <1>2, MaxFuncsAssumption DEF TypeOK, File, TableOK, Table, Full
  <2>2. i \in 0 .. dy.n - 1 /\ i \in Slots
    <3>1. i < dy.n
      BY <1>1
    <3> HIDE DEF i
    <3> QED BY <2>1, <3>1, MaxFuncsAssumption DEF Slots
  <2> QED BY <1>2, <2>1, <2>2 DEF TableOK, Table
<1> HIDE DEF i
<1>4. m \in Names
  BY <1>2, <1>3 DEF TableOK, NumberingOK
<1> HIDE DEF m
<1>5. /\ TableOK(tab) /\ tab.n \in st.n .. MAX_FUNCS
      /\ ~ Full(tab) => tab.index[m] \in 0 .. tab.n - 1
  BY <1>2, <1>4, GetFunctionIndexOK
<1> HIDE DEF tab
<1>6. size \in Nat
  <2>1. tab.index[m] \in Slots /\ tab.func \in [Slots -> Entry]
    BY <1>4, <1>5 DEF TableOK, Table
  <2> QED BY <2>1 DEF Entry
<1> HIDE DEF size
<1>7. /\ TableOK(dy') /\ dy'.n = dy.n
      /\ \A k \in Slots : dy'.func[k].calledFuncs = dy.func[k].calledFuncs
  <2>1. Keeps(dy, SetCodeSize(dy, i, size))
    BY <1>2, <1>3, <1>6, MetricsOK
  <2> QED BY <1>1, <1>2, <2>1 DEF Keeps
<1>8. /\ dynamicXML' \in File /\ dynamicXML'.edges = dynamicXML.edges
  <2>1. Samples(dy.func[i].loads) \in Nat
    BY <1>3, SamplesNat DEF Entry
  <2>2. dynamicXML \in File /\ i = dynamicXML.nodes
    BY <1>2 DEF TypeOK, i
  <2> DEFINE s == Append(dynamicXML.samples, Samples(dy.func[i].loads))
             n == IF Full(tab) THEN i ELSE i + 1
  <2>3. s \in Seq(Nat) /\ n \in Nat
    BY <1>3, <2>1, <2>2 DEF File
  <2>4. dynamicXML' = [nodes |-> n, edges |-> dynamicXML.edges, samples |-> s,
                       complete |-> dynamicXML.complete]
    BY <1>1, <2>2 DEF File
  <2> HIDE DEF s, n
  <2> QED BY <2>2, <2>3, <2>4 DEF File
<1>9. TypeOK'
  <2>1. /\ st' \in Table /\ dy' \in Table
        /\ phase' \in {"run", "exited", "dynamic", "done"}
    BY <1>1, <1>5, <1>7 DEF TableOK
  <2> QED BY <1>1, <1>2, <1>8, <2>1 DEF TypeOK, globals, images, program, local, history
<1>10. RoomLeft' /\ GlobalsInRange' /\ OneInRoutine'
  BY <1>1, <1>2, <1>7
  DEF Inv, RoomLeft, Full, GlobalsInRange, OneInRoutine, globals, program, local
<1>11. FilesInOrder' /\ dynamicXML'.edges = {}
  BY <1>1, <1>8 DEF Inv, FilesInOrder
<1>12. GraphFilesDefined'
  <2>1. dy'.func[None].calledFuncs = dy.func[None].calledFuncs
    BY <1>7, MaxFuncsAssumption DEF None, Slots
  <2>2. phase' \in {"run", "dynamic"} => st'.n < MAX_FUNCS /\ dy'.n < MAX_FUNCS
    <3>1. tab.n \in 0 .. MAX_FUNCS
      BY <1>5 DEF TableOK, Table
    <3>2. ~ Full(tab) => tab.n < MAX_FUNCS
      BY <3>1, MaxFuncsAssumption DEF Full
    <3>3. st'.n = tab.n /\ (phase' \in {"run", "dynamic"} => ~ Full(tab))
      BY <1>1
    <3> QED BY <1>3, <1>7, <3>2, <3>3
  <2>3. Defines(dynamicXML')
    BY <1>11 DEF Defines
  <2> QED BY <1>1, <2>1, <2>2, <2>3 DEF Inv, GraphFilesDefined, Defines, NodeIds
<1> QED BY <1>1, <1>5, <1>7, <1>9, <1>10, <1>11, <1>12 DEF Inv

LEMMA WriteDynamicEdgesInv ==
  ASSUME Inv, WriteDynamicEdges
  PROVE  Inv'
<1>1. /\ phase = "dynamic" /\ dynamicXML.nodes = dy.n /\ phase' = "done"
      /\ dynamicXML' = [dynamicXML EXCEPT !.edges = Edges(dy), !.complete = TRUE]
      /\ UNCHANGED <<tables, globals, setBranchesExe, images, staticXML,
                     program, local, history>>
  BY DEF WriteDynamicEdges
<1>2. /\ TypeOK /\ TableOK(dy) /\ ~ Full(dy) /\ dy.n \in Nat /\ dy.n < MAX_FUNCS
  BY <1>1, MaxFuncsAssumption DEF Inv, RoomLeft, TableOK, Table, Full
<1>3. Edges(dy) \subseteq (0 .. dy.n - 1) \X (0 .. dy.n - 1)
  BY <1>2, EdgesDefined
<1>4. dynamicXML' = [nodes |-> dy.n, edges |-> Edges(dy),
                     samples |-> dynamicXML.samples, complete |-> TRUE]
  BY <1>1, <1>2 DEF TypeOK, File
<1>5. dynamicXML' \in File
  <2>1. 0 .. dy.n - 1 \subseteq Slots
    BY <1>2, MaxFuncsAssumption DEF Slots
  <2>2. Edges(dy) \subseteq Slots \X Slots /\ dynamicXML.samples \in Seq(Nat)
    BY <1>2, <1>3, <2>1 DEF TypeOK, File
  <2> QED BY <1>2, <1>4, <2>2 DEF File
<1>6. TypeOK'
  BY <1>1, <1>2, <1>5 DEF TypeOK, tables, globals, images, program, local, history
<1>7. Defines(dynamicXML')
  BY <1>3, <1>4 DEF Defines, NodeIds
<1>8. GraphFilesDefined'
  BY <1>1, <1>7 DEF Inv, GraphFilesDefined, Defines, NodeIds, tables
<1>9. RoomLeft' /\ OneInRoutine' /\ GlobalsInRange' /\ FilesInOrder'
  BY <1>1 DEF Inv, RoomLeft, OneInRoutine, GlobalsInRange, FilesInOrder, tables,
              globals, program, local
<1> QED BY <1>1, <1>6, <1>8, <1>9 DEF Inv, tables

----------------------------------------------------------------------------
LEMMA NextInv ==
  ASSUME Inv, [Next]_vars
  PROVE  Inv'
<1>1. ASSUME NEW t \in Threads, Transfer(t) PROVE Inv'
  BY <1>1, ProcedureCallInv, TailJumpInv, CallPltInv, EnterMallocInv,
     ReturnMallocInv DEF Transfer
<1>2. ASSUME NEW t \in Threads, Measure(t) PROVE Inv'
  BY <1>2, SitesInv, RtnStartInv DEF Measure
<1>3. ASSUME NEW t \in Threads, Instrument(t) PROVE Inv'
  BY <1>3, OpenRoutineInv, RoutineInstrInv, CloseRoutineInv DEF Instrument
<1>4. CASE Fini
  BY <1>4, WriteStaticInv, WriteDynamicNodeInv, WriteDynamicEdgesInv DEF Fini
<1>5. CASE UNCHANGED vars
  <2>1. UNCHANGED <<st, dy, prevIndex, prevIndexforMalloc, setBranchesExe, mapImg,
                    mapTempFunc, phase, staticXML, dynamicXML, pc, from, frames,
                    rtn, ip, opened, calls, bytes, steps>>
    BY <1>5 DEF vars, tables, globals, images, files, program, local, history
  <2>2. TypeOK'
    BY <2>1 DEF Inv, TypeOK
  <2>3. GlobalsInRange' /\ RoomLeft' /\ OneInRoutine' /\ FilesInOrder'
    BY <2>1 DEF Inv, GlobalsInRange, RoomLeft, OneInRoutine, FilesInOrder
  <2>4. GraphFilesDefined'
    BY <2>1 DEF Inv, GraphFilesDefined, Defines, NodeIds
  <2> QED BY <2>1, <2>2, <2>3, <2>4 DEF Inv
<1> QED BY <1>1, <1>2, <1>3, <1>4, <1>5 DEF Next, Terminated

\* The inductive invariant holds in every reachable state.
THEOREM Invariance == Spec => []Inv
<1>1. Init => Inv
  BY InitInv
<1>2. Inv /\ [Next]_vars => Inv'
  BY NextInv
<1> QED BY <1>1, <1>2, PTL DEF Spec

\* Type correctness of the profiler.
THEOREM TypeCorrect == Spec => []TypeOK
<1>1. Inv => TypeOK
  BY DEF Inv
<1> QED BY <1>1, Invariance, PTL

\* The static and the dynamic numbering stay one to one for every program.
THEOREM NumberingSound == Spec => []Numbering
<1>1. Inv => Numbering
  BY DEF Inv, Numbering, TableOK
<1> QED BY <1>1, Invariance, PTL

\* Counts and edges stay two records of the same calls.
THEOREM CallCountsSound == Spec => []CallCounts
<1>1. Inv => CallCounts
  BY DEF Inv, CallCounts, TableOK
<1> QED BY <1>1, Invariance, PTL

\* The unchecked writes of do_call_plt and Jit_Malloc_IA32 go to a registered
\* function or to the slot in front of the array.
THEOREM GlobalsSound == Spec => []GlobalsInRange
<1>1. Inv => GlobalsInRange
  BY DEF Inv
<1> QED BY <1>1, Invariance, PTL

\* The files define every node their edges name, and the edge loop stays
\* inside the array.
THEOREM FilesSound == Spec => []GraphFilesDefined
<1>1. Inv => GraphFilesDefined
  BY DEF Inv
<1> QED BY <1>1, Invariance, PTL

----------------------------------------------------------------------------
(* Totals.                                                                 *)

\* g[n] is the sum of f over the slots below n, for every n up to k.
PartialSums(g, f, k) ==
    /\ g \in [0 .. k -> Nat]
    /\ g[0] = f[None]
    /\ \A n \in 1 .. k : g[n] = g[n - 1] + f[n - 1]

LEMMA PartialSumsExist ==
  ASSUME NEW f \in [Slots -> Nat]
  PROVE  \E g : PartialSums(g, f, MAX_FUNCS)
<1> DEFINE step == [n \in 1 .. MAX_FUNCS |-> [x \in Nat |-> x + f[n - 1]]]
<1>1. None \in Slots /\ MAX_FUNCS \in Nat /\ \A n \in 1 .. MAX_FUNCS : n - 1 \in Slots
  BY MaxFuncsAssumption DEF Slots, None
<1>2. f[None] \in Nat /\ step \in [1 .. MAX_FUNCS -> [Nat -> Nat]]
  BY <1>1
<1> HIDE DEF step
<1>3. \E g \in [0 .. MAX_FUNCS -> Nat] :
         g[0] = f[None] /\ \A n \in 1 .. MAX_FUNCS : g[n] = step[n][g[n - 1]]
  <2> DEFINE N == MAX_FUNCS  S == Nat  base == f[None]
  <2>1. N \in Nat /\ base \in S /\ step \in [1 .. N -> [S -> S]]
    BY <1>1, <1>2
  <2> HIDE DEF N, S, base
  <2>2. \E g : PrimRec(g, N, S, base, step)
    BY <2>1, RecursionExists
  <2> QED BY <2>2 DEF PrimRec, N, S, base
<1> HIDE DEF step
<1>4. PICK g \in [0 .. MAX_FUNCS -> Nat] :
         g[0] = f[None] /\ \A n \in 1 .. MAX_FUNCS : g[n] = step[n][g[n - 1]]
  BY <1>3
<1>5. ASSUME NEW n \in 1 .. MAX_FUNCS PROVE g[n] = g[n - 1] + f[n - 1]
  <2>1. g[n - 1] \in Nat
    BY <1>1, <1>4
  <2> QED BY <1>4, <2>1 DEF step
<1> QED BY <1>4, <1>5 DEF PartialSums

\* SlotSum is the last of the partial sums, whichever function gives them.
LEMMA SumIsLast ==
  ASSUME NEW f \in [Slots -> Nat], NEW g, PartialSums(g, f, MAX_FUNCS)
  PROVE  SlotSum(f, Slots) = g[MAX_FUNCS]
<1> DEFINE Eq(s) == s = [n \in 0 .. MAX_FUNCS |->
                           IF n = 0 THEN (IF None \in Slots THEN f[None] ELSE 0)
                           ELSE s[n - 1] + (IF n - 1 \in Slots THEN f[n - 1] ELSE 0)]
           s == CHOOSE h : Eq(h)
<1>1. SlotSum(f, Slots) = s[MAX_FUNCS]
  BY DEF SlotSum
<1>2. Eq(g)
  BY MaxFuncsAssumption DEF PartialSums, Slots, None
<1>3. Eq(s)
  BY <1>2
<1> HIDE DEF s
<1>4. ASSUME NEW n \in 0 .. MAX_FUNCS
      PROVE  s[n] = IF n = 0 THEN f[None] ELSE s[n - 1] + f[n - 1]
  BY <1>3, MaxFuncsAssumption DEF Slots, None
<1>5. s[0] = g[0]
  BY <1>4, MaxFuncsAssumption DEF PartialSums
<1>6. ASSUME NEW n \in 1 .. MAX_FUNCS, s[n - 1] = g[n - 1] PROVE s[n] = g[n]
  BY <1>4, <1>6, MaxFuncsAssumption DEF PartialSums
<1>7. MAX_FUNCS \in Nat /\ MAX_FUNCS \in 0 .. MAX_FUNCS
  BY MaxFuncsAssumption
<1>8. s[MAX_FUNCS] = g[MAX_FUNCS]
  BY <1>5, <1>6, <1>7, RecursionUnique
<1> QED BY <1>1, <1>8

LEMMA SumZero ==
  ASSUME NEW f \in [Slots -> Nat], \A i \in Slots : f[i] = 0
  PROVE  SlotSum(f, Slots) = 0
<1> DEFINE g == [n \in 0 .. MAX_FUNCS |-> 0]
<1>1. PartialSums(g, f, MAX_FUNCS)
  BY MaxFuncsAssumption DEF PartialSums, Slots, None
<1>2. g[MAX_FUNCS] = 0
  BY MaxFuncsAssumption
<1> QED BY <1>1, <1>2, SumIsLast

\* A slot that grows by d makes the sum grow by d.
LEMMA SumAdd ==
  ASSUME NEW f \in [Slots -> Nat], NEW h \in [Slots -> Nat],
         NEW k \in Slots, NEW d \in Nat,
         \A i \in Slots : h[i] = IF i = k THEN f[i] + d ELSE f[i]
  PROVE  SlotSum(h, Slots) = SlotSum(f, Slots) + d
<1>1. PICK g : PartialSums(g, f, MAX_FUNCS)
  BY PartialSumsExist
<1> DEFINE p == [n \in 0 .. MAX_FUNCS |-> IF n > k THEN g[n] + d ELSE g[n]]
<1>2. PartialSums(p, h, MAX_FUNCS)
  <2>1. g \in [0 .. MAX_FUNCS -> Nat] /\ k \in -1 .. MAX_FUNCS - 1
    BY <1>1 DEF PartialSums, Slots
  <2>2. \A n \in 0 .. MAX_FUNCS : p[n] = IF n > k THEN g[n] + d ELSE g[n]
    OBVIOUS
  <2>3. p \in [0 .. MAX_FUNCS -> Nat]
    BY <2>1
  <2> HIDE DEF p
  <2>4. p[0] = h[None]
    <3>1. 0 \in 0 .. MAX_FUNCS /\ None \in Slots /\ (0 > k <=> None = k)
      BY <2>1, MaxFuncsAssumption DEF Slots, None
    <3>2. p[0] = (IF None = k THEN g[0] + d ELSE g[0]) /\ g[0] = f[None]
      BY <1>1, <2>2, <3>1 DEF PartialSums
    <3> QED BY <3>1, <3>2
  <2>5. ASSUME NEW n \in 1 .. MAX_FUNCS PROVE p[n] = p[n - 1] + h[n - 1]
    <3>1. /\ n \in 0 .. MAX_FUNCS /\ n - 1 \in 0 .. MAX_FUNCS /\ n - 1 \in Slots
          /\ n \in Nat
      BY MaxFuncsAssumption DEF Slots
    <3>2. g[n] = g[n - 1] + f[n - 1] /\ f[n - 1] \in Nat /\ g[n - 1] \in Nat
      BY <1>1, <2>1, <3>1 DEF PartialSums
    <3>3. h[n - 1] = IF n - 1 = k THEN f[n - 1] + d ELSE f[n - 1]
      BY <3>1
    <3>4. /\ p[n] = IF n > k THEN g[n] + d ELSE g[n]
          /\ p[n - 1] = IF n - 1 > k THEN g[n - 1] + d ELSE g[n - 1]
      BY <2>2, <3>1
    <3> QED BY SMTT(30), <2>1, <3>1, <3>2, <3>3, <3>4
  <2> QED BY <2>3, <2>4, <2>5 DEF PartialSums
<1>3. p[MAX_FUNCS] = g[MAX_FUNCS] + d
  BY MaxFuncsAssumption DEF Slots
<1> QED BY <1>1, <1>2, <1>3, SumIsLast

----------------------------------------------------------------------------
(* What an operation on a table records.                                   *)

CallTotal(tab) == SlotSum([i \in Slots |-> tab.func[i].nNoOfCalls], Slots)
ByteTotal(tab) == SlotSum([i \in Slots |-> tab.func[i].memoryAlloc1], Slots)
BranchTotal(tab) == SlotSum([i \in Slots |-> tab.func[i].nBranches], Slots)

\* Nothing the table says of the graph is taken back.
Grows(tab, new) ==
    /\ new.n >= tab.n
    /\ \A m \in Names : Registered(tab, m) => new.index[m] = tab.index[m]
    /\ \A i \in Slots : tab.func[i].calledFuncs \subseteq new.func[i].calledFuncs
    /\ \A i \in 0 .. tab.n - 1 : new.func[i].name = tab.func[i].name

\* new is tab after c calls, b bytes and r branches have been recorded.
Records(tab, new, c, b, r) ==
    /\ new \in Table
    /\ CallTotal(new) = CallTotal(tab) + c
    /\ ByteTotal(new) = ByteTotal(tab) + b
    /\ BranchTotal(new) = BranchTotal(tab) + r
    /\ Grows(tab, new)

\* The fields of the entries of a table are functions on the slots.
LEMMA FieldsAreFunctions ==
  ASSUME NEW tab \in Table
  PROVE  /\ tab.n \in 0 .. MAX_FUNCS /\ tab.index \in [Names -> Slots]
         /\ tab.func \in [Slots -> Entry]
         /\ [i \in Slots |-> tab.func[i].nNoOfCalls] \in [Slots -> Nat]
         /\ [i \in Slots |-> tab.func[i].memoryAlloc1] \in [Slots -> Nat]
         /\ [i \in Slots |-> tab.func[i].nBranches] \in [Slots -> Nat]
BY DEF Table, Entry

\* Totals are numbers.
LEMMA SumNat ==
  ASSUME NEW f \in [Slots -> Nat]
  PROVE  SlotSum(f, Slots) \in Nat
<1>1. PICK g : PartialSums(g, f, MAX_FUNCS)
  BY PartialSumsExist
<1>2. MAX_FUNCS \in 0 .. MAX_FUNCS
  BY MaxFuncsAssumption
<1>3. g[MAX_FUNCS] \in Nat
  BY <1>1, <1>2 DEF PartialSums
<1> QED BY <1>1, <1>3, SumIsLast

LEMMA TotalsNat ==
  ASSUME NEW tab \in Table
  PROVE  CallTotal(tab) \in Nat /\ ByteTotal(tab) \in Nat /\ BranchTotal(tab) \in Nat
BY FieldsAreFunctions, SumNat DEF CallTotal, ByteTotal, BranchTotal

LEMMA RecordsNothing ==
  ASSUME NEW tab \in Table
  PROVE  Records(tab, tab, 0, 0, 0)
<1>1. tab.n \in 0 .. MAX_FUNCS
  BY FieldsAreFunctions
<1> QED BY <1>1, TotalsNat, MaxFuncsAssumption DEF Records, Grows

\* What two operations in a row record.
LEMMA RecordsBoth ==
  ASSUME NEW tab \in Table, NEW mid, NEW new,
         NEW c \in Nat, NEW b \in Nat, NEW r \in Nat,
         NEW c2 \in Nat, NEW b2 \in Nat, NEW r2 \in Nat,
         Records(tab, mid, c, b, r), Records(mid, new, c2, b2, r2)
  PROVE  Records(tab, new, c + c2, b + b2, r + r2)
<1>1. mid \in Table /\ new \in Table
  BY DEF Records
<1>2. tab.n \in Nat /\ mid.n \in Nat /\ new.n \in Nat
  BY <1>1, FieldsAreFunctions, MaxFuncsAssumption
<1>3. Grows(tab, new)
  <2>1. Grows(tab, mid) /\ Grows(mid, new)
    BY DEF Records
  <2>2. new.n >= tab.n /\ 0 .. tab.n - 1 \subseteq 0 .. mid.n - 1
    BY <1>2, <2>1 DEF Grows
  <2>3. \A m \in Names : Registered(tab, m) => new.index[m] = tab.index[m]
    BY <2>1 DEF Grows, Registered
  <2>4. \A i \in 0 .. tab.n - 1 : new.func[i].name = tab.func[i].name
    BY <2>1, <2>2 DEF Grows
  <2>5. \A i \in Slots : tab.func[i].calledFuncs \subseteq new.func[i].calledFuncs
    BY <2>1 DEF Grows
  <2> QED BY <2>2, <2>3, <2>4, <2>5 DEF Grows
<1>4. /\ CallTotal(new) = CallTotal(tab) + (c + c2)
      /\ ByteTotal(new) = ByteTotal(tab) + (b + b2)
      /\ BranchTotal(new) = BranchTotal(tab) + (r + r2)
  BY <1>1, TotalsNat DEF Records
<1> QED BY <1>1, <1>3, <1>4 DEF Records

\* A change of one entry records the difference.
LEMMA PutRecords ==
  ASSUME NEW tab \in Table, NEW i \in Slots, NEW e \in Entry,
         NEW c \in Nat, NEW b \in Nat, NEW r \in Nat,
         e.name = tab.func[i].name,
         tab.func[i].calledFuncs \subseteq e.calledFuncs,
         e.nNoOfCalls = tab.func[i].nNoOfCalls + c,
         e.memoryAlloc1 = tab.func[i].memoryAlloc1 + b,
         e.nBranches = tab.func[i].nBranches + r
  PROVE  Records(tab, Put(tab, i, e), c, b, r)
<1> DEFINE new == Put(tab, i, e)
<1>1. /\ tab.n \in 0 .. MAX_FUNCS /\ tab.index \in [Names -> Slots]
      /\ tab.func \in [Slots -> Entry]
  BY FieldsAreFunctions
<1>2. /\ new.index = tab.index /\ new.n = tab.n
      /\ new.func = [tab.func EXCEPT ![i] = e]
      /\ new = [index |-> new.index, n |-> new.n, func |-> new.func]
  BY DEF Put
<1> HIDE DEF new
<1>3. /\ new.func \in [Slots -> Entry]
      /\ \A k \in Slots : new.func[k] = IF k = i THEN e ELSE tab.func[k]
  BY <1>1, <1>2
<1>4. new \in Table
  BY <1>1, <1>2, <1>3 DEF Table
<1>5. CallTotal(new) = CallTotal(tab) + c
  <2> DEFINE f == [k \in Slots |-> tab.func[k].nNoOfCalls]
             h == [k \in Slots |-> new.func[k].nNoOfCalls]
  <2>1. f \in [Slots -> Nat] /\ h \in [Slots -> Nat]
    BY <1>4, FieldsAreFunctions
  <2>2. \A k \in Slots : h[k] = IF k = i THEN f[k] + c ELSE f[k]
    BY <1>3
  <2> HIDE DEF f, h
  <2>3. SlotSum(h, Slots) = SlotSum(f, Slots) + c
    BY <2>1, <2>2, SumAdd
  <2> QED BY <2>3 DEF CallTotal, f, h
<1>6. ByteTotal(new) = ByteTotal(tab) + b
  <2> DEFINE f == [k \in Slots |-> tab.func[k].memoryAlloc1]
             h == [k \in Slots |-> new.func[k].memoryAlloc1]
  <2>1. f \in [Slots -> Nat] /\ h \in [Slots -> Nat]
    BY <1>4, FieldsAreFunctions
  <2>2. \A k \in Slots : h[k] = IF k = i THEN f[k] + b ELSE f[k]
    BY <1>3
  <2> HIDE DEF f, h
  <2>3. SlotSum(h, Slots) = SlotSum(f, Slots) + b
    BY <2>1, <2>2, SumAdd
  <2> QED BY <2>3 DEF ByteTotal, f, h
<1>7. BranchTotal(new) = BranchTotal(tab) + r
  <2> DEFINE f == [k \in Slots |-> tab.func[k].nBranches]
             h == [k \in Slots |-> new.func[k].nBranches]
  <2>1. f \in [Slots -> Nat] /\ h \in [Slots -> Nat]
    BY <1>4, FieldsAreFunctions
  <2>2. \A k \in Slots : h[k] = IF k = i THEN f[k] + r ELSE f[k]
    BY <1>3
  <2> HIDE DEF f, h
  <2>3. SlotSum(h, Slots) = SlotSum(f, Slots) + r
    BY <2>1, <2>2, SumAdd
  <2> QED BY <2>3 DEF BranchTotal, f, h
<1>8. Grows(tab, new)
  <2>1. \A k \in 0 .. tab.n - 1 : k \in Slots
    BY <1>1, MaxFuncsAssumption DEF Slots
  <2>2. new.n >= tab.n
    BY <1>1, <1>2, MaxFuncsAssumption
  <2> QED BY <1>2, <1>3, <2>1, <2>2 DEF Grows
<1> QED BY <1>4, <1>5, <1>6, <1>7, <1>8 DEF Records, new

\* A lookup records nothing: the entry it initialises was blank.  An entry in
\* use stays as it is, and so does the index of a name that has one.
LEMMA LookupRecords ==
  ASSUME NEW tab, TableOK(tab), NEW m \in Names
  PROVE  LET new == GetFunctionIndex(tab, m)
         IN  /\ Records(tab, new, 0, 0, 0)
             /\ \A i \in -1 .. tab.n - 1 : new.func[i] = tab.func[i]
<1> DEFINE new == GetFunctionIndex(tab, m)
<1>1. TableOK(new) /\ new \in Table /\ tab \in Table /\ SpareBlank(tab)
  BY GetFunctionIndexOK DEF TableOK
<1>2. /\ tab.n \in 0 .. MAX_FUNCS /\ tab.index \in [Names -> Slots]
      /\ tab.func \in [Slots -> Entry]
  BY <1>1, FieldsAreFunctions
<1>3. CASE Full(tab) \/ Registered(tab, m)
  <2>1. new = tab
    BY <1>3 DEF GetFunctionIndex
  <2> QED BY <1>1, <2>1, RecordsNothing
<1>4. CASE ~ (Full(tab) \/ Registered(tab, m))
  <2> DEFINE n == tab.n
             entry == InitEntry(tab.func[n], m)
  <2>1. /\ n \in 0 .. MAX_FUNCS - 1 /\ n \in Slots
    BY <1>2, <1>4, MaxFuncsAssumption DEF Full, Slots
  <2>2. /\ new.index = [tab.index EXCEPT ![m] = n]
        /\ new.n = n + 1
        /\ new.func = IF n + 1 = MAX_FUNCS THEN tab.func
                      ELSE [tab.func EXCEPT ![n] = entry]
    BY <1>4 DEF GetFunctionIndex
  <2> HIDE DEF new
  <2>3. tab.func[n] = BlankEntry
    BY <1>1, <2>1, MaxFuncsAssumption DEF SpareBlank
  <2>4. /\ entry.nNoOfCalls = tab.func[n].nNoOfCalls
        /\ entry.memoryAlloc1 = tab.func[n].memoryAlloc1
        /\ entry.nBranches = tab.func[n].nBranches
        /\ entry.calledFuncs = tab.func[n].calledFuncs
    BY <2>3 DEF InitEntry, BlankEntry
  <2> HIDE DEF entry
  <2>5. \A i \in Slots : /\ i # n => new.func[i] = tab.func[i]
                         /\ new.func[i].nNoOfCalls = tab.func[i].nNoOfCalls
                         /\ new.func[i].memoryAlloc1 = tab.func[i].memoryAlloc1
                         /\ new.func[i].nBranches = tab.func[i].nBranches
                         /\ new.func[i].calledFuncs = tab.func[i].calledFuncs
    <3>1. CASE n + 1 = MAX_FUNCS
      BY <2>2, <3>1
    <3>2. CASE n + 1 # MAX_FUNCS
      <4>1. \A i \in Slots : new.func[i] = IF i = n THEN entry ELSE tab.func[i]
        BY <1>2, <2>1, <2>2, <3>2
      <4> QED BY <2>4, <4>1
    <3> QED BY <3>1, <3>2
  <2>6. \A i \in -1 .. n - 1 : i \in Slots /\ i # n
    BY <2>1, MaxFuncsAssumption DEF Slots
  <2>7. \A i \in -1 .. n - 1 : new.func[i] = tab.func[i]
    BY <2>5, <2>6
  <2>8. Grows(tab, new)
    <3>1. \A k \in Names : Registered(tab, k) => new.index[k] = tab.index[k]
      BY <1>2, <1>4, <2>2
    <3>2. new.n >= n
      BY <2>1, <2>2
    <3>3. \A i \in 0 .. n - 1 : i \in -1 .. n - 1
      OBVIOUS
    <3> QED BY <2>5, <2>7, <3>1, <3>2, <3>3 DEF Grows
  <2>9. /\ CallTotal(new) = CallTotal(tab) /\ ByteTotal(new) = ByteTotal(tab)
        /\ BranchTotal(new) = BranchTotal(tab)
    <3>1. [i \in Slots |-> new.func[i].nNoOfCalls] = [i \in Slots |-> tab.func[i].nNoOfCalls]
      BY <2>5
    <3>2. [i \in Slots |-> new.func[i].memoryAlloc1] = [i \in Slots |-> tab.func[i].memoryAlloc1]
      BY <2>5
    <3>3. [i \in Slots |-> new.func[i].nBranches] = [i \in Slots |-> tab.func[i].nBranches]
      BY <2>5
    <3> QED BY <3>1, <3>2, <3>3 DEF CallTotal, ByteTotal, BranchTotal
  <2>10. Records(tab, new, 0, 0, 0)
    BY <1>1, <2>8, <2>9, TotalsNat DEF Records, new
  <2> QED BY <2>7, <2>10 DEF new
<1> QED BY <1>3, <1>4

\* A call adds one to the count of the callee, and an edge.
LEMMA CallRecords ==
  ASSUME NEW tab \in Table, NEW i \in Slots, NEW j \in Slots
  PROVE  Records(tab, AddCall(tab, i, j), 1, 0, 0)
<1> DEFINE mid == AddEdge(tab, i, j)
           e == [tab.func[i] EXCEPT !.calledFuncs = @ \cup {j}]
           e2 == [mid.func[j] EXCEPT !.nNoOfCalls = @ + 1]
<1>1. tab.func[i] \in Entry
  BY FieldsAreFunctions
<1>2. /\ e \in Entry /\ e.name = tab.func[i].name
      /\ tab.func[i].calledFuncs \subseteq e.calledFuncs
      /\ e.nNoOfCalls = tab.func[i].nNoOfCalls + 0
      /\ e.memoryAlloc1 = tab.func[i].memoryAlloc1 + 0
      /\ e.nBranches = tab.func[i].nBranches + 0
  BY <1>1 DEF Entry
<1>3. mid = Put(tab, i, e)
  BY DEF AddEdge
<1> HIDE DEF e
<1>4. Records(tab, mid, 0, 0, 0)
  BY <1>2, <1>3, PutRecords
<1> HIDE DEF mid
<1>5. mid \in Table /\ mid.func[j] \in Entry
  BY <1>4, FieldsAreFunctions DEF Records
<1>6. /\ e2 \in Entry /\ e2.name = mid.func[j].name
      /\ mid.func[j].calledFuncs \subseteq e2.calledFuncs
      /\ e2.nNoOfCalls = mid.func[j].nNoOfCalls + 1
      /\ e2.memoryAlloc1 = mid.func[j].memoryAlloc1 + 0
      /\ e2.nBranches = mid.func[j].nBranches + 0
  BY <1>5 DEF Entry
<1>7. AddCall(tab, i, j) = Put(mid, j, e2)
  BY DEF AddCall, CountCall, mid
<1> HIDE DEF e2
<1>8. Records(mid, Put(mid, j, e2), 1, 0, 0)
  BY <1>5, <1>6, PutRecords
<1>9. Records(tab, Put(mid, j, e2), 0 + 1, 0 + 0, 0 + 0)
  BY <1>4, <1>8, RecordsBoth
<1> QED BY <1>7, <1>9

\* Bytes and branches are added to the totals; the other metrics are not part
\* of them.
LEMMA MetricsRecord ==
  ASSUME NEW tab \in Table, NEW i \in Slots
  PROVE  /\ \A size \in Nat : Records(tab, AddBytes(tab, i, size), 0, size, 0)
         /\ Records(tab, AddBranch(tab, i), 0, 0, 1)
         /\ Records(tab, AddAvloop(tab, i), 0, 0, 0)
         /\ \A key \in Keys, len \in Nat : Records(tab, AddBlock(tab, i, key, len), 0, 0, 0)
         /\ \A k \in Nat : Records(tab, AddLoads(tab, i, k), 0, 0, 0)
         /\ \A k \in Nat : Records(tab, SetCodeSize(tab, i, k), 0, 0, 0)
         /\ \A size \in Nat : Records(tab, SetStackSize(tab, i, size), 0, 0, 0)
<1> DEFINE old == tab.func[i]
           Changes(e, b, r) ==
               /\ e \in Entry /\ e.name = old.name
               /\ old.calledFuncs \subseteq e.calledFuncs
               /\ e.nNoOfCalls = old.nNoOfCalls + 0
               /\ e.memoryAlloc1 = old.memoryAlloc1 + b
               /\ e.nBranches = old.nBranches + r
<1>1. old \in Entry
  BY FieldsAreFunctions
<1>2. ASSUME NEW e, NEW b \in Nat, NEW r \in Nat, Changes(e, b, r)
      PROVE  Records(tab, Put(tab, i, e), 0, b, r)
  BY <1>2, PutRecords
<1>3. Records(tab, tab, 0, 0, 0)
  BY RecordsNothing
<1> HIDE DEF old
<1>4. ASSUME NEW k \in Nat
      PROVE  /\ Changes([old EXCEPT !.memoryAlloc1 = @ + k], k, 0)
             /\ Changes([old EXCEPT !.nBranches = @ + 1], 0, 1)
             /\ Changes([old EXCEPT !.avloops = @ + 1], 0, 0)
             /\ Changes([old EXCEPT !.loads = @ + k], 0, 0)
             /\ Changes([old EXCEPT !.nCodeSize = k], 0, 0)
             /\ Changes([old EXCEPT !.nStackSize = k], 0, 0)
  <2>1. Changes([old EXCEPT !.memoryAlloc1 = @ + k], k, 0)
    BY <1>1 DEF Entry
  <2>2. Changes([old EXCEPT !.nBranches = @ + 1], 0, 1)
    BY <1>1 DEF Entry
  <2>3. Changes([old EXCEPT !.avloops = @ + 1], 0, 0)
    BY <1>1 DEF Entry
  <2>4. Changes([old EXCEPT !.loads = @ + k], 0, 0)
    BY <1>1 DEF Entry
  <2>5. Changes([old EXCEPT !.nCodeSize = k], 0, 0)
    BY <1>1 DEF Entry
  <2>6. Changes([old EXCEPT !.nStackSize = k], 0, 0)
    BY <1>1 DEF Entry
  <2> QED BY <2>1, <2>2, <2>3, <2>4, <2>5, <2>6
<1>5. ASSUME NEW key \in Keys, NEW k \in Nat
      PROVE  Changes([old EXCEPT !.InstrExe = @ \cup {key}, !.nCodeSize = @ + k], 0, 0)
  <2> DEFINE e1 == [old EXCEPT !.InstrExe = @ \cup {key}]
  <2>1. Changes(e1, 0, 0) /\ e1.nCodeSize = old.nCodeSize
    BY <1>1 DEF Entry
  <2>2. [old EXCEPT !.InstrExe = @ \cup {key}, !.nCodeSize = @ + k]
           = [e1 EXCEPT !.nCodeSize = @ + k]
    BY <1>1, <2>1 DEF Entry
  <2> HIDE DEF e1
  <2>3. Changes([e1 EXCEPT !.nCodeSize = @ + k], 0, 0)
    BY <2>1 DEF Entry
  <2> QED BY <2>2, <2>3
<1> HIDE DEF Changes
<1>6. ASSUME NEW k \in Nat
      PROVE  /\ Records(tab, AddBytes(tab, i, k), 0, k, 0)
             /\ Records(tab, AddLoads(tab, i, k), 0, 0, 0)
             /\ Records(tab, SetCodeSize(tab, i, k), 0, 0, 0)
             /\ Records(tab, SetStackSize(tab, i, k), 0, 0, 0)
             /\ \A key \in Keys : Records(tab, AddBlock(tab, i, key, k), 0, 0, 0)
  BY <1>2, <1>3, <1>4, <1>5
  DEF AddBytes, AddLoads, SetCodeSize, SetStackSize, AddBlock, old
<1>7. Records(tab, AddBranch(tab, i), 0, 0, 1) /\ Records(tab, AddAvloop(tab, i), 0, 0, 0)
  BY <1>2, <1>4 DEF AddBranch, AddAvloop, old
<1> QED BY <1>6, <1>7

----------------------------------------------------------------------------
(* What a step records.                                                    *)

\* The history tells what has been recorded: calls and bytes always, and the
\* set of executed branches while the process has not run out of entries.
Recorded ==
    \E c, b, r \in Nat :
        /\ Records(dy, dy', c, b, r)
        /\ calls' = calls + c
        /\ bytes' = bytes + b
        /\ ~ Full(dy') => \/ r = 0 /\ UNCHANGED setBranchesExe
                          \/ /\ r = 1
                             /\ \E key \in Keys \ setBranchesExe :
                                    setBranchesExe' = setBranchesExe \cup {key}

\* A step that leaves the dynamic table and the history alone.
LEMMA NothingRecorded ==
  ASSUME Inv, UNCHANGED <<dy, calls, bytes, setBranchesExe>>
  PROVE  Recorded
<1>1. Records(dy, dy', 0, 0, 0) /\ calls' = calls + 0 /\ bytes' = bytes + 0
  BY RecordsNothing DEF Inv, TypeOK
<1> QED BY <1>1 DEF Recorded

\* An index that the numbering gives is that of a slot.
LEMMA IndexIsSlot ==
  ASSUME NEW tab, TableOK(tab), NEW m \in Names
  PROVE  tab \in Table /\ tab.index[m] \in Slots
BY FieldsAreFunctions DEF TableOK

LEMMA TransferRecords ==
  ASSUME Inv, NEW t \in Threads, Transfer(t)
  PROVE  Recorded
<1>1. TypeOK /\ TableOK(dy) /\ dy \in Table /\ calls \in Nat /\ bytes \in Nat
  BY DEF Inv, TypeOK
<1>2. ASSUME NEW src \in Names \ {LibCall}, NEW tgt \in Names,
             ProcedureCall(t, src, tgt)
      PROVE  Recorded
  <2> DEFINE tab1 == GetFunctionIndex(dy, src)
             tab == GetFunctionIndex(tab1, tgt)
             s == tab.index[src]
  <2>1. TableOK(tab1) /\ Records(dy, tab1, 0, 0, 0)
    BY <1>1, GetFunctionIndexOK, LookupRecords
  <2> HIDE DEF tab1
  <2>2. TableOK(tab) /\ Records(tab1, tab, 0, 0, 0)
    BY <2>1, GetFunctionIndexOK, LookupRecords
  <2> HIDE DEF tab
  <2>3. Records(dy, tab, 0 + 0, 0 + 0, 0 + 0)
    BY <1>1, <2>1, <2>2, RecordsBoth
  <2>4. Records(tab, AddCall(tab, s, tab.index[tgt]), 1, 0, 0)
    BY <2>2, IndexIsSlot, CallRecords
  <2>5. Records(dy, AddCall(tab, s, tab.index[tgt]), 0 + 1, 0 + 0, 0 + 0)
    BY <1>1, <2>3, <2>4, RecordsBoth
  <2>6. /\ \/ dy' = tab /\ calls' = calls
           \/ dy' = AddCall(tab, s, tab.index[tgt]) /\ calls' = calls + 1
        /\ UNCHANGED <<setBranchesExe, bytes>>
    BY <1>2 DEF ProcedureCall, Dynamic, tab, tab1
  <2>7. CASE dy' = tab /\ calls' = calls
    <3>1. Records(dy, dy', 0, 0, 0) /\ calls' = calls + 0 /\ bytes' = bytes + 0
      BY <1>1, <2>3, <2>6, <2>7
    <3> QED BY <2>6, <3>1 DEF Recorded
  <2>8. CASE dy' = AddCall(tab, s, tab.index[tgt]) /\ calls' = calls + 1
    <3>1. Records(dy, dy', 1, 0, 0) /\ bytes' = bytes + 0
      BY <1>1, <2>5, <2>6, <2>8
    <3> QED BY <2>6, <2>8, <3>1 DEF Recorded
  <2> QED BY <2>6, <2>7, <2>8
<1>3. ASSUME NEW src \in Names \ {LibCall}, TailJump(t, src) PROVE Recorded
  BY <1>3, NothingRecorded DEF TailJump, tables, history
<1>4. ASSUME NEW tgt \in Names \ {LibCall}, CallPlt(t, tgt) PROVE Recorded
  <2> DEFINE tab == GetFunctionIndex(dy, tgt)
  <2>1. TableOK(tab) /\ Records(dy, tab, 0, 0, 0)
    BY <1>1, GetFunctionIndexOK, LookupRecords
  <2> HIDE DEF tab
  <2>2. Records(tab, AddCall(tab, prevIndex, tab.index[tgt]), 1, 0, 0)
    BY <1>1, <2>1, IndexIsSlot, CallRecords DEF TypeOK
  <2>3. Records(dy, AddCall(tab, prevIndex, tab.index[tgt]), 0 + 1, 0 + 0, 0 + 0)
    BY <1>1, <2>1, <2>2, RecordsBoth
  <2>4. /\ \/ dy' = tab /\ calls' = calls
           \/ dy' = AddCall(tab, prevIndex, tab.index[tgt]) /\ calls' = calls + 1
        /\ UNCHANGED <<setBranchesExe, bytes>>
    BY <1>4 DEF CallPlt, Dynamic, tab
  <2>5. CASE dy' = tab /\ calls' = calls
    <3>1. Records(dy, dy', 0, 0, 0) /\ calls' = calls + 0 /\ bytes' = bytes + 0
      BY <1>1, <2>1, <2>4, <2>5
    <3> QED BY <2>4, <3>1 DEF Recorded
  <2>6. CASE dy' = AddCall(tab, prevIndex, tab.index[tgt]) /\ calls' = calls + 1
    <3>1. Records(dy, dy', 1, 0, 0) /\ bytes' = bytes + 0
      BY <1>1, <2>3, <2>4, <2>6
    <3> QED BY <2>4, <2>6, <3>1 DEF Recorded
  <2> QED BY <2>4, <2>5, <2>6
<1>5. ASSUME EnterMalloc(t) PROVE Recorded
  BY <1>5, NothingRecorded DEF EnterMalloc, tables, history
<1>6. ASSUME NEW size \in Sizes, ReturnMalloc(t, size) PROVE Recorded
  <2>1. size \in Nat /\ prevIndexforMalloc \in Slots
    BY <1>1, BoundsAssumption DEF TypeOK
  <2>2. Records(dy, AddBytes(dy, prevIndexforMalloc, size), 0, size, 0)
    BY <1>1, <2>1, MetricsRecord
  <2>3. /\ dy' = AddBytes(dy, prevIndexforMalloc, size) /\ bytes' = bytes + size
        /\ UNCHANGED <<calls, setBranchesExe>>
    BY <1>6 DEF ReturnMalloc, Dynamic
  <2>4. calls' = calls + 0
    BY <1>1, <2>3
  <2> QED BY <2>1, <2>2, <2>3, <2>4 DEF Recorded
<1> QED BY <1>2, <1>3, <1>4, <1>5, <1>6 DEF Transfer

\* At a site: the table after the lookup, or after the measure.
LEMMA SiteRecords ==
  ASSUME Inv, NEW s \in Sites, NEW new, NEW r \in Nat,
         LET tab == GetFunctionIndex(dy, SiteName[s])
         IN  /\ ~ Full(tab) => Records(tab, new, 0, 0, r)
             /\ dy' = IF Full(tab) THEN tab ELSE new,
         UNCHANGED <<calls, bytes>>,
         \/ r = 0 /\ UNCHANGED setBranchesExe
         \/ /\ r = 1
            /\ \E key \in Keys \ setBranchesExe :
                  setBranchesExe' = setBranchesExe \cup {key}
  PROVE  Recorded
<1> DEFINE tab == GetFunctionIndex(dy, SiteName[s])
<1>1. TableOK(dy) /\ dy \in Table /\ calls' = calls + 0 /\ bytes' = bytes + 0
  BY DEF Inv, TypeOK
<1>2. Records(dy, tab, 0, 0, 0)
  BY <1>1, LookupRecords, SitesAssumption
<1>3. CASE Full(tab)
  BY <1>1, <1>2, <1>3 DEF Recorded
<1>4. CASE ~ Full(tab)
  <2> HIDE DEF tab
  <2>1. Records(tab, new, 0, 0, r) /\ dy' = new
    BY <1>4 DEF tab
  <2>2. Records(dy, new, 0 + 0, 0 + 0, 0 + r)
    BY <1>1, <1>2, <2>1, RecordsBoth
  <2>3. Records(dy, dy', 0, 0, r)
    BY <2>1, <2>2
  <2> QED BY <1>1, <2>3 DEF Recorded
<1> QED BY <1>3, <1>4

LEMMA MeasureRecords ==
  ASSUME Inv, NEW t \in Threads, Measure(t)
  PROVE  Recorded
<1>1. TypeOK /\ TableOK(dy)
  BY DEF Inv
<1>2. ASSUME NEW r \in Routines, RtnStart(t, r) PROVE Recorded
  BY <1>2, NothingRecorded DEF RtnStart, tables
<1>3. ASSUME NEW s \in Sites,
             \/ CountInstr(t, s)
             \/ CountBranchInstr(t, s)
             \/ \E off \in {0, 12} : load(t, s, off, 8)
             \/ StackSizeCount(t, s, SiteLen[s])
      PROVE  Recorded
  <2> DEFINE tab == GetFunctionIndex(dy, SiteName[s])
             i == tab.index[SiteName[s]]
  <2>1. /\ tab \in Table /\ i \in Slots
        /\ SiteKey[s] \in Keys /\ SiteLen[s] \in Nat
    <3>1. TableOK(tab)
      BY <1>1, GetFunctionIndexOK, SitesAssumption
    <3> HIDE DEF tab
    <3> QED BY <3>1, IndexIsSlot, SitesAssumption
  <2> HIDE DEF tab
  <2>2. CASE CountInstr(t, s)
    <3> DEFINE new == AddBlock(tab, i, SiteKey[s], SiteLen[s])
    <3>1. Records(tab, new, 0, 0, 0)
      BY <2>1, MetricsRecord
    <3>2. /\ dy' = (IF Full(tab) THEN tab ELSE new)
          /\ UNCHANGED <<setBranchesExe, calls, bytes>>
      BY <2>2 DEF CountInstr, AtSite, Dynamic, tab
    <3> QED BY <3>1, <3>2, SiteRecords DEF tab
  <2>3. CASE CountBranchInstr(t, s)
    <3> DEFINE new == AddBranch(tab, i)
    <3>1. Records(tab, new, 0, 0, 1)
      BY <2>1, MetricsRecord
    <3>2. /\ dy' = (IF Full(tab) THEN tab ELSE new)
          /\ SiteKey[s] \in Keys \ setBranchesExe
          /\ setBranchesExe' = setBranchesExe \cup {SiteKey[s]}
          /\ UNCHANGED <<calls, bytes>>
      BY <2>1, <2>3 DEF CountBranchInstr, AtSite, Dynamic, tab
    <3> QED BY <3>1, <3>2, SiteRecords DEF tab
  <2>4. ASSUME NEW off \in {0, 12}, load(t, s, off, 8) PROVE Recorded
    <3> DEFINE new == AddLoads(tab, i, Chunks(off, 8))
    <3>1. Chunks(off, 8) \in Nat
      BY <2>4 DEF Chunks
    <3>2. Records(tab, new, 0, 0, 0)
      BY <2>1, <3>1, MetricsRecord
    <3>3. /\ dy' = (IF Full(tab) THEN tab ELSE new)
          /\ UNCHANGED <<setBranchesExe, calls, bytes>>
      BY <2>4 DEF load, AtSite, Dynamic, tab
    <3> QED BY <3>2, <3>3, SiteRecords DEF tab
  <2>5. CASE StackSizeCount(t, s, SiteLen[s])
    <3> DEFINE new == SetStackSize(tab, i, SiteLen[s])
    <3>1. Records(tab, new, 0, 0, 0)
      BY <2>1, MetricsRecord
    <3>2. /\ dy' = (IF Full(tab) THEN tab ELSE new)
          /\ UNCHANGED <<setBranchesExe, calls, bytes>>
      BY <2>5 DEF StackSizeCount, AtSite, Dynamic, tab
    <3> QED BY <3>1, <3>2, SiteRecords DEF tab
  <2> QED BY <1>3, <2>2, <2>3, <2>4, <2>5
<1> QED BY <1>2, <1>3 DEF Measure

LEMMA InstrumentRecords ==
  ASSUME Inv, NEW t \in Threads, Instrument(t)
  PROVE  Recorded
<1>1. ASSUME NEW r \in Routines, OpenRoutine(t, r) PROVE Recorded
  BY <1>1, NothingRecorded DEF OpenRoutine, history
<1>2. ASSUME CloseRoutine(t) PROVE Recorded
  BY <1>2, NothingRecorded DEF CloseRoutine, history
<1>3. ASSUME RoutineInstr(t) PROVE Recorded
  <2> DEFINE m == RtnName[rtn]
             tab == GetFunctionIndex(dy, m)
             new == AddAvloop(tab, tab.index[m])
  <2>1. TypeOK /\ TableOK(dy) /\ m \in Names
    BY <1>3, RoutinesAssumption DEF Inv, OneInRoutine, RoutineInstr
  <2>2. TableOK(tab) /\ Records(dy, tab, 0, 0, 0)
    BY <2>1, GetFunctionIndexOK, LookupRecords
  <2>3. /\ dy' \in {dy, tab, new}
        /\ UNCHANGED <<setBranchesExe, calls, bytes>>
    BY <1>3 DEF RoutineInstr, DynamicInstr, history
  <2> HIDE DEF tab, m
  <2>4. Records(tab, new, 0, 0, 0)
    BY <2>1, <2>2, IndexIsSlot, MetricsRecord
  <2>5. Records(dy, new, 0 + 0, 0 + 0, 0 + 0)
    BY <2>1, <2>2, <2>4, RecordsBoth DEF TypeOK
  <2>6. Records(dy, dy, 0, 0, 0)
    BY <2>1, RecordsNothing DEF TypeOK
  <2>7. Records(dy, dy', 0, 0, 0)
    BY <2>2, <2>3, <2>5, <2>6
  <2>8. calls' = calls + 0 /\ bytes' = bytes + 0
    BY <2>1, <2>3 DEF TypeOK
  <2> QED BY <2>3, <2>7, <2>8 DEF Recorded
<1> QED BY <1>1, <1>2, <1>3 DEF Instrument

LEMMA FiniRecords ==
  ASSUME Inv, Fini
  PROVE  Recorded
<1>1. ASSUME WriteStatic PROVE Recorded
  BY <1>1, NothingRecorded DEF WriteStatic, tables, history
<1>2. ASSUME WriteDynamicEdges PROVE Recorded
  BY <1>2, NothingRecorded DEF WriteDynamicEdges, tables, history
<1>3. ASSUME WriteDynamicNode PROVE Recorded
  <2> DEFINE i == dynamicXML.nodes
             m == dy.func[i].name
             tab == GetFunctionIndex(st, m)
             size == tab.func[tab.index[m]].nCodeSize
  <2>1. /\ TypeOK /\ TableOK(st) /\ TableOK(dy) /\ ~ Full(dy) /\ i \in Nat /\ i < dy.n
    BY <1>3 DEF Inv, RoomLeft, WriteDynamicNode, TypeOK, File
  <2>2. dy \in Table /\ dy.n \in 0 .. MAX_FUNCS
    BY <2>1 DEF TableOK, Table
  <2> HIDE DEF i
  <2>3. i \in 0 .. dy.n - 1 /\ i \in Slots
    BY <2>1, <2>2, MaxFuncsAssumption DEF Slots
  <2>4. m \in Names
    BY <2>1, <2>3 DEF TableOK, NumberingOK
  <2> HIDE DEF m
  <2>5. TableOK(tab)
    BY <2>1, <2>4, GetFunctionIndexOK
  <2> HIDE DEF tab
  <2>6. size \in Nat
    <3>1. tab.index[m] \in Slots /\ tab.func \in [Slots -> Entry]
      BY <2>4, <2>5 DEF TableOK, Table
    <3> QED BY <3>1 DEF Entry
  <2> HIDE DEF size
  <2>7. /\ Records(dy, SetCodeSize(dy, i, size), 0, 0, 0)
        /\ Records(dy, dy, 0, 0, 0)
    BY <2>2, <2>3, <2>6, MetricsRecord, RecordsNothing
  <2>8. /\ dy' \in {dy, SetCodeSize(dy, i, size)}
        /\ UNCHANGED <<setBranchesExe, calls, bytes>>
    BY <1>3 DEF WriteDynamicNode, history, size, tab, m, i
  <2>9. calls' = calls + 0 /\ bytes' = bytes + 0
    BY <2>1, <2>8 DEF TypeOK
  <2>10. Records(dy, dy', 0, 0, 0)
    BY <2>7, <2>8
  <2> QED BY <2>8, <2>9, <2>10 DEF Recorded
<1> QED BY <1>1, <1>2, <1>3 DEF Fini

LEMMA NextRecords ==
  ASSUME Inv, [Next]_vars
  PROVE  Recorded
<1>1. CASE UNCHANGED vars
  BY <1>1, NothingRecorded DEF vars, tables, history
<1>2. CASE Fini
  BY <1>2, FiniRecords
<1>3. ASSUME NEW t \in Threads, Transfer(t) \/ Measure(t) \/ Instrument(t)
      PROVE  Recorded
  BY <1>3, TransferRecords, MeasureRecords, InstrumentRecords
<1> QED BY <1>1, <1>2, <1>3 DEF Next, Terminated

----------------------------------------------------------------------------
(* The history is recorded completely.                                     *)

\* The totals of the dynamic table against the history of the process.
TotalsOK ==
    /\ CallTotal(dy) = calls
    /\ ByteTotal(dy) = bytes
    /\ ~ Full(dy) => /\ IsFiniteSet(setBranchesExe)
                     /\ BranchTotal(dy) = Cardinality(setBranchesExe)

LEMMA InitTotals == Init => TotalsOK
<1> SUFFICES ASSUME Init PROVE TotalsOK
  OBVIOUS
<1>1. dy \in Table /\ dy.func = [i \in Slots |-> BlankEntry]
  BY EmptyTableOK DEF Init, TableOK, EmptyTable
<1>2. CallTotal(dy) = 0 /\ ByteTotal(dy) = 0 /\ BranchTotal(dy) = 0
  <2> DEFINE z == [i \in Slots |-> 0]
  <2>1. /\ [i \in Slots |-> dy.func[i].nNoOfCalls] = z
        /\ [i \in Slots |-> dy.func[i].memoryAlloc1] = z
        /\ [i \in Slots |-> dy.func[i].nBranches] = z
    BY <1>1 DEF BlankEntry
  <2>2. z \in [Slots -> Nat] /\ \A i \in Slots : z[i] = 0
    OBVIOUS
  <2> HIDE DEF z
  <2>3. SlotSum(z, Slots) = 0
    BY <2>2, SumZero
  <2> QED BY <2>1, <2>3 DEF CallTotal, ByteTotal, BranchTotal
<1>3. IsFiniteSet({}) /\ Cardinality({}) = 0
  BY FS_EmptySet
<1> QED BY <1>2, <1>3 DEF TotalsOK, Init

LEMMA NextTotals ==
  ASSUME Inv, TotalsOK, [Next]_vars
  PROVE  TotalsOK'
<1>1. PICK c, b, r \in Nat :
        /\ Records(dy, dy', c, b, r)
        /\ calls' = calls + c
        /\ bytes' = bytes + b
        /\ ~ Full(dy') => \/ r = 0 /\ UNCHANGED setBranchesExe
                          \/ /\ r = 1
                             /\ \E key \in Keys \ setBranchesExe :
                                    setBranchesExe' = setBranchesExe \cup {key}
  BY NextRecords DEF Recorded
<1>2. /\ CallTotal(dy') = CallTotal(dy) + c
      /\ ByteTotal(dy') = ByteTotal(dy) + b
      /\ BranchTotal(dy') = BranchTotal(dy) + r
      /\ dy' \in Table /\ dy'.n >= dy.n
  BY <1>1 DEF Records, Grows
<1>3. CallTotal(dy') = calls' /\ ByteTotal(dy') = bytes'
  BY <1>1, <1>2 DEF TotalsOK
<1>4. ASSUME ~ Full(dy')
      PROVE  /\ IsFiniteSet(setBranchesExe')
             /\ BranchTotal(dy') = Cardinality(setBranchesExe')
  <2>1. ~ Full(dy)
    <3>1. dy.n \in 0 .. MAX_FUNCS /\ dy'.n \in 0 .. MAX_FUNCS
      BY <1>2, FieldsAreFunctions DEF Inv, TypeOK
    <3> QED BY <1>2, <1>4, <3>1, MaxFuncsAssumption DEF Full
  <2>2. /\ IsFiniteSet(setBranchesExe) /\ BranchTotal(dy) = Cardinality(setBranchesExe)
        /\ Cardinality(setBranchesExe) \in Nat
    BY <2>1, FS_CardinalityType DEF TotalsOK
  <2>3. CASE r = 0 /\ UNCHANGED setBranchesExe
    BY <1>2, <2>2, <2>3
  <2>4. ASSUME r = 1, NEW key \in Keys \ setBranchesExe,
               setBranchesExe' = setBranchesExe \cup {key}
        PROVE  /\ IsFiniteSet(setBranchesExe')
               /\ BranchTotal(dy') = Cardinality(setBranchesExe')
    <3>1. /\ IsFiniteSet(setBranchesExe \cup {key})
          /\ Cardinality(setBranchesExe \cup {key}) = Cardinality(setBranchesExe) + 1
      BY <2>2, <2>4, FS_AddElement
    <3> QED BY <1>2, <2>2, <2>4, <3>1
  <2> QED BY <1>1, <1>4, <2>3, <2>4
<1> QED BY <1>3, <1>4 DEF TotalsOK

LEMMA TotalsInvariant == Spec => []TotalsOK
<1>1. Init => TotalsOK
  BY InitTotals
<1>2. Inv /\ TotalsOK /\ [Next]_vars => TotalsOK'
  BY NextTotals
<1> QED BY <1>1, <1>2, Invariance, PTL DEF Spec

\* Every transfer do_procedurecall and do_call_plt record is counted once, in
\* any interleaving and for any number of functions.
THEOREM CallsComplete == Spec => []CallsConserved
<1>1. TotalsOK => CallsConserved
  BY DEF TotalsOK, CallsConserved, CallTotal
<1> QED BY <1>1, TotalsInvariant, PTL

\* Every byte Jit_Malloc_IA32 sees is charged once, rightly or not.
THEOREM BytesComplete == Spec => []BytesConserved
<1>1. TotalsOK => BytesConserved
  BY DEF TotalsOK, BytesConserved, ByteTotal
<1> QED BY <1>1, TotalsInvariant, PTL

\* Every executed branch is counted for one function.
THEOREM BranchesComplete == Spec => []BranchesConserved
<1>1. TotalsOK => BranchesConserved
  BY MaxFuncsAssumption DEF TotalsOK, BranchesConserved, BranchTotal, Full
<1> QED BY <1>1, TotalsInvariant, PTL

\* No callback renumbers a function or forgets a call.
THEOREM GraphGrows == Spec => GraphOnlyGrows
<1> DEFINE A == /\ \A m \in Names : Registered(dy, m) => dy'.index[m] = dy.index[m]
                /\ \A i \in Slots : dy.func[i].calledFuncs \subseteq dy'.func[i].calledFuncs
                /\ \A i \in 0 .. dy.n - 1 : dy'.func[i].name = dy.func[i].name
<1>1. Inv /\ [Next]_vars => [A]_vars
  <2> SUFFICES ASSUME Inv, [Next]_vars PROVE A
    OBVIOUS
  <2>1. Grows(dy, dy')
    BY NextRecords DEF Recorded, Records
  <2> QED BY <2>1 DEF Grows
<1> QED BY <1>1, Invariance, PTL DEF Spec, GraphOnlyGrows
----------------------------------------------------------------------------
(* The measures that are written.                                          *)

\* The quotient of natural numbers, bounded by its products.
LEMMA QuotientBounds ==
  ASSUME NEW a \in Nat, NEW q \in Nat \ {0}
  PROVE  /\ a \div q \in Nat
         /\ q * (a \div q) <= a /\ a < q * (a \div q) + q
OBVIOUS

\* The loads of a function that are written: all of them, or at least
\* MAX_LOADS and less than twice as many.
LEMMA SamplesBounds ==
  ASSUME NEW total \in Nat
  PROVE  IF total < MAX_LOADS THEN Samples(total) = total
         ELSE Samples(total) >= MAX_LOADS /\ Samples(total) < 2 * MAX_LOADS
<1> DEFINE L == MAX_LOADS
<1>0. L \in Nat \ {0}
  BY BoundsAssumption
<1>1. CASE total < L
  <2>1. Samples(total) = (total + 1 - 1) \div 1
    BY <1>1 DEF Samples
  <2> QED BY <1>1, <2>1
<1>2. CASE ~ (total < L)
  <2> DEFINE q == total \div L
             k == (total + q - 1) \div q
  <2>1. Samples(total) = k
    BY <1>2 DEF Samples
  <2>2. /\ q \in Nat \ {0} /\ L * q <= total /\ total < L * q + L
    BY <1>0, <1>2, QuotientBounds, QuotientNat
  <2> HIDE DEF L, q
  <2>3. total + q - 1 \in Nat
    BY <2>2
  <2>4. k \in Nat /\ q * k <= total + q - 1 /\ total + q - 1 < q * k + q
    BY <2>2, <2>3, QuotientBounds
  <2> HIDE DEF k
  <2>5. k >= L
    <3>1. SUFFICES ASSUME k + 1 <= L PROVE FALSE
      BY <1>0, <2>4
    <3>2. q * (k + 1) <= q * L
      BY <1>0, <2>2, <2>4, <3>1
    <3>3. q * (k + 1) = q * k + q /\ q * L = L * q
      BY <1>0, <2>2, <2>4
    <3> QED BY <1>0, <2>2, <2>3, <2>4, <3>2, <3>3
  <2>6. k < 2 * L
    <3>1. SUFFICES ASSUME 2 * L <= k PROVE FALSE
      BY <1>0, <2>4
    <3>2. q * (2 * L) <= q * k
      BY <1>0, <2>2, <2>4, <3>1
    <3>3. q * (2 * L) = L * q + L * q
      BY <1>0, <2>2
    <3>4. L * q + 1 <= L + q - 1
      BY <1>0, <2>2, <2>3, <2>4, <3>2, <3>3
    <3>5. (L - 1) * (q - 1) >= 0
      BY <1>0, <2>2
    <3>6. (L - 1) * (q - 1) = L * q - L - q + 1
      BY <1>0, <2>2
    <3> QED BY <1>0, <2>2, <3>4, <3>5, <3>6
  <2> QED BY <1>2, <2>1, <2>5, <2>6 DEF L
<1> QED BY <1>1, <1>2

\* What has been written of entry i of the dynamic table d: s is the static
\* table, k the load samples.
Written(s, d, k, i) ==
    LET e == d.func[i]
        j == s.index[e.name]
    IN  /\ j # None
        /\ s.func[j].nCodeSize # 0 => e.nCodeSize <= s.func[j].nCodeSize
        /\ k[i + 1] = Samples(e.loads)

\* The nodes of DynamicCG.xml are written from index 0, one at a time.
WrittenSoFar ==
    /\ phase = "run" => dynamicXML.nodes = 0 /\ dynamicXML.samples = << >>
    /\ phase \in {"dynamic", "done"} =>
          /\ dynamicXML.nodes <= dy.n
          /\ Len(dynamicXML.samples) = dynamicXML.nodes
          /\ \A i \in NodeIds(dynamicXML) : Written(st, dy, dynamicXML.samples, i)

\* The program's callbacks write no file.
LEMMA RunningStep ==
  ASSUME NEW t \in Threads, Transfer(t) \/ Measure(t) \/ Instrument(t)
  PROVE  phase' \in {"run", "exited"} /\ (phase = "run" /\ UNCHANGED files)
<1>1. CASE Transfer(t)
  BY <1>1 DEF Transfer, ProcedureCall, TailJump, CallPlt, EnterMalloc,
              ReturnMalloc, Runs, Dynamic
<1>2. CASE Measure(t)
  BY <1>2 DEF Measure, CountInstr, CountBranchInstr, load, StackSizeCount, AtSite,
              RtnStart, Runs, Dynamic
<1>3. CASE Instrument(t)
  BY <1>3 DEF Instrument, OpenRoutine, RoutineInstr, CloseRoutine, Runs, Static
<1> QED BY <1>1, <1>2, <1>3

LEMMA WriteNodeWritten ==
  ASSUME Inv, WrittenSoFar, WriteDynamicNode
  PROVE  WrittenSoFar'
<1> DEFINE i == dynamicXML.nodes
           m == dy.func[i].name
           tab == GetFunctionIndex(st, m)
           size == tab.func[tab.index[m]].nCodeSize
<1>1. /\ phase = "dynamic" /\ i < dy.n /\ st' = tab
      /\ phase' = (IF Full(tab) THEN "exited" ELSE phase)
      /\ dy' = (IF ~ Full(tab) /\ size # 0 /\ size < dy.func[i].nCodeSize
                THEN SetCodeSize(dy, i, size) ELSE dy)
      /\ dynamicXML' = [dynamicXML EXCEPT
                           !.samples = Append(@, Samples(dy.func[i].loads)),
                           !.nodes = IF Full(tab) THEN @ ELSE @ + 1]
  BY DEF WriteDynamicNode, Static
<1>2. CASE Full(tab)
  BY <1>1, <1>2 DEF WrittenSoFar
<1>3. CASE ~ Full(tab)
  <2>1. /\ TypeOK /\ TableOK(st) /\ TableOK(dy) /\ ~ Full(dy)
        /\ i \in Nat /\ dynamicXML.samples \in Seq(Nat) /\ Len(dynamicXML.samples) = i
        /\ \A k \in 0 .. i - 1 : Written(st, dy, dynamicXML.samples, k)
    BY <1>1 DEF Inv, RoomLeft, TypeOK, File, WrittenSoFar, NodeIds
  <2>2. /\ dy.n \in 0 .. MAX_FUNCS /\ st.n \in 0 .. MAX_FUNCS
        /\ dy.func \in [Slots -> Entry] /\ st.index \in [Names -> Slots]
    BY <2>1 DEF TableOK, Table
  <2>3. i < dy.n /\ i \in 0 .. dy.n - 1 /\ i \in Slots
        /\ \A k \in 0 .. i - 1 : k \in 0 .. dy.n - 1 /\ k \in Slots /\ k # i
    <3>1. i < dy.n
      BY <1>1
    <3> HIDE DEF i
    <3> QED BY <2>1, <2>2, <3>1, MaxFuncsAssumption DEF Slots
  <2>4. \A k \in 0 .. dy.n - 1 : dy.func[k].name \in Names
    BY <2>1 DEF TableOK, NumberingOK
  <2>5. m \in Names
    BY <2>3, <2>4
  <2>6. /\ TableOK(tab) /\ Grows(st, tab)
        /\ tab.index[m] # None
        /\ \A k \in -1 .. st.n - 1 : tab.func[k] = st.func[k]
    <3>1. /\ TableOK(tab) /\ tab.index[m] \in 0 .. tab.n - 1
      BY <1>3, <2>1, <2>5, GetFunctionIndexOK
    <3>2. Grows(st, tab) /\ \A k \in -1 .. st.n - 1 : tab.func[k] = st.func[k]
      BY <2>1, <2>5, LookupRecords DEF Records
    <3> HIDE DEF tab
    <3>3. tab.index[m] # None
      BY <3>1, MaxFuncsAssumption DEF None, TableOK, Table
    <3> QED BY <3>1, <3>2, <3>3
  <2> HIDE DEF tab
  <2>7. size \in Nat
    <3>1. tab.index[m] \in Slots /\ tab.func \in [Slots -> Entry]
      BY <2>5, <2>6 DEF TableOK, Table
    <3> QED BY <3>1 DEF Entry
  <2>8. /\ \A k \in 0 .. i - 1 : dy'.func[k] = dy.func[k]
        /\ dy'.func[i].name = m /\ dy'.func[i].loads = dy.func[i].loads
        /\ size # 0 => dy'.func[i].nCodeSize <= size
        /\ dy'.n = dy.n
    <3> DEFINE old == dy.func[i]
               e == [old EXCEPT !.nCodeSize = size]
    <3>1. old \in Entry
      BY <2>2, <2>3
    <3> HIDE DEF size, i
    <3>2. CASE size # 0 /\ size < old.nCodeSize
      <4>1. dy' = Put(dy, i, e)
        BY <1>1, <1>3, <3>2 DEF SetCodeSize
      <4>2. e.name = old.name /\ e.loads = old.loads /\ e.nCodeSize = size
        BY <3>1 DEF Entry
      <4> HIDE DEF e
      <4>3. dy'.func[i] = e /\ \A k \in 0 .. i - 1 : dy'.func[k] = dy.func[k]
        BY <2>2, <2>3, <4>1 DEF Put
      <4>4. dy'.n = dy.n
        BY <4>1 DEF Put
      <4> QED BY <2>7, <4>2, <4>3, <4>4
    <3>3. CASE ~ (size # 0 /\ size < old.nCodeSize)
      <4>1. dy' = dy
        BY <1>1, <1>3, <3>3
      <4>2. old.nCodeSize \in Nat
        BY <3>1 DEF Entry
      <4> QED BY <2>7, <3>3, <4>1, <4>2
    <3> QED BY <3>2, <3>3
  <2>9. /\ dynamicXML'.nodes = i + 1
        /\ dynamicXML'.samples = Append(dynamicXML.samples, Samples(dy.func[i].loads))
    <3>1. dynamicXML \in File
      BY <2>1 DEF TypeOK
    <3> QED BY <1>1, <1>3, <3>1 DEF File
  <2>10. /\ Len(dynamicXML'.samples) = i + 1
         /\ dynamicXML'.samples[i + 1] = Samples(dy.func[i].loads)
         /\ \A k \in 0 .. i - 1 : dynamicXML'.samples[k + 1] = dynamicXML.samples[k + 1]
    <3>1. Samples(dy.func[i].loads) \in Nat
      BY <2>2, <2>3, SamplesNat DEF Entry
    <3> DEFINE new == Samples(dy.func[i].loads)
    <3> HIDE DEF i, new
    <3>2. \A k \in 0 .. i - 1 : k + 1 \in 1 .. Len(dynamicXML.samples)
      BY <2>1
    <3> QED BY <2>1, <2>9, <3>1, <3>2 DEF new
  <2> HIDE DEF i
  <2>11. Written(st', dy', dynamicXML'.samples, i)
    <3>1. st'.index[m] # None /\ st'.func[st'.index[m]].nCodeSize = size
      BY <1>1, <2>6
    <3> QED BY <2>8, <2>10, <3>1 DEF Written, i
  <2>12. ASSUME NEW k \in 0 .. i - 1 PROVE Written(st', dy', dynamicXML'.samples, k)
    <3> DEFINE name == dy.func[k].name
               j == st.index[name]
    <3>1. /\ name \in Names /\ j # None
          /\ st.func[j].nCodeSize # 0 => dy.func[k].nCodeSize <= st.func[j].nCodeSize
          /\ dynamicXML.samples[k + 1] = Samples(dy.func[k].loads)
      BY <2>1, <2>3, <2>4 DEF Written
    <3>2. j \in -1 .. st.n - 1
      BY <2>1, <3>1 DEF TableOK, NumberingOK
    <3>3. st'.index[name] = j /\ st'.func[j] = st.func[j]
      BY <1>1, <2>6, <3>1, <3>2 DEF Grows, Registered
    <3>4. dy'.func[k] = dy.func[k] /\ dynamicXML'.samples[k + 1] = dynamicXML.samples[k + 1]
      BY <2>8, <2>10
    <3> QED BY <3>1, <3>3, <3>4 DEF Written
  <2>13. \A k \in 0 .. i : Written(st', dy', dynamicXML'.samples, k)
    <3>1. \A k \in 0 .. i : k = i \/ k \in 0 .. i - 1
      BY <2>1
    <3> QED BY <2>11, <2>12, <3>1
  <2>14. (i + 1) - 1 = i /\ i + 1 <= dy.n
    BY <2>1, <2>2, <2>3
  <2> QED BY <1>1, <1>3, <2>8, <2>9, <2>10, <2>13, <2>14 DEF WrittenSoFar, NodeIds
<1> QED BY <1>2, <1>3

LEMMA NextWritten ==
  ASSUME Inv, WrittenSoFar, [Next]_vars
  PROVE  WrittenSoFar'
<1>1. ASSUME NEW t \in Threads, Transfer(t) \/ Measure(t) \/ Instrument(t)
      PROVE  WrittenSoFar'
  BY <1>1, RunningStep DEF WrittenSoFar, files
<1>2. CASE WriteStatic
  <2>1. phase = "run" /\ phase' = "dynamic" /\ UNCHANGED <<dynamicXML, st, dy>>
    BY <1>2 DEF WriteStatic, tables
  <2>2. dy.n >= 0
    BY MaxFuncsAssumption DEF Inv, TypeOK, Table
  <2> QED BY <2>1, <2>2 DEF WrittenSoFar, NodeIds
<1>3. CASE WriteDynamicNode
  BY <1>3, WriteNodeWritten
<1>4. CASE WriteDynamicEdges
  <2>1. /\ phase = "dynamic" /\ phase' = "done" /\ UNCHANGED <<st, dy>>
        /\ dynamicXML' = [dynamicXML EXCEPT !.edges = Edges(dy), !.complete = TRUE]
    BY <1>4 DEF WriteDynamicEdges, tables
  <2>2. UNCHANGED <<dynamicXML.nodes, dynamicXML.samples>>
    BY <2>1 DEF Inv, TypeOK, File
  <2> QED BY <2>1, <2>2 DEF WrittenSoFar, NodeIds, Written
<1>5. CASE UNCHANGED vars
  BY <1>5 DEF WrittenSoFar, NodeIds, Written, vars, tables, files
<1> QED BY <1>1, <1>2, <1>3, <1>4, <1>5 DEF Next, Fini, Terminated

\* Every function in a finished DynamicCG.xml is in the static table, shows no
\* more code than was measured statically and has a load profile of bounded
\* length, for any MAX_LOADS (WriteToXMLFileDynamic).
THEOREM ProfilesWritten == Spec => []ProfilesAgree
<1>1. Init => WrittenSoFar
  BY DEF Init, WrittenSoFar, NoFile
<1>2. Inv /\ WrittenSoFar /\ [Next]_vars => WrittenSoFar'
  BY NextWritten
<1>3. Inv /\ WrittenSoFar => ProfilesAgree
  <2> SUFFICES ASSUME Inv, WrittenSoFar, phase = "done", NEW i \in NodeIds(dynamicXML)
               PROVE  LET e == dy.func[i]
                          j == st.index[e.name]
                          k == dynamicXML.samples[i + 1]
                      IN  /\ j # None
                          /\ st.func[j].nCodeSize # 0 => e.nCodeSize <= st.func[j].nCodeSize
                          /\ IF e.loads < MAX_LOADS THEN k = e.loads
                             ELSE k >= MAX_LOADS /\ k < 2 * MAX_LOADS
    BY DEF ProfilesAgree
  <2>1. Written(st, dy, dynamicXML.samples, i) /\ dynamicXML.nodes <= dy.n
    BY DEF WrittenSoFar
  <2>2. dynamicXML.nodes \in Nat /\ dy.n \in 0 .. MAX_FUNCS /\ dy.func \in [Slots -> Entry]
    BY DEF Inv, TypeOK, File, Table
  <2>3. i \in Slots
    BY <2>1, <2>2, MaxFuncsAssumption DEF NodeIds, Slots
  <2>4. dy.func[i].loads \in Nat
    BY <2>2, <2>3 DEF Entry
  <2> QED BY <2>1, <2>4, SamplesBounds DEF Written
<1> QED BY <1>1, <1>2, <1>3, Invariance, PTL DEF Spec
----------------------------------------------------------------------------
(* The profile by names: what the operations on a table do to it.          *)

\* What the graph by names reads of a table, for two tables.
SameProfile(tab, new) ==
    /\ EdgesByName(new) = EdgesByName(tab)
    /\ BytesByName(new) = BytesByName(tab)
    /\ \A m \in Names : Registered(tab, m) => new.index[m] = tab.index[m]

\* A pair is an edge if some entry in use has one between functions so named.
LEMMA EdgeOfNames ==
  ASSUME NEW tab, NEW e
  PROVE  e \in EdgesByName(tab) <=>
           \E i \in 0 .. tab.n - 1 : \E j \in tab.func[i].calledFuncs :
              e = <<tab.func[i].name, tab.func[j].name>>
BY DEF EdgesByName

\* Two tables that agree on names, calls and bytes have the same profile.
LEMMA SameEntries ==
  ASSUME NEW tab \in Table, NEW new \in Table,
         new.index = tab.index, new.n = tab.n,
         \A i \in Slots : /\ new.func[i].name = tab.func[i].name
                          /\ new.func[i].calledFuncs = tab.func[i].calledFuncs
                          /\ new.func[i].memoryAlloc1 = tab.func[i].memoryAlloc1
  PROVE  SameProfile(tab, new)
<1>1. /\ tab.n \in 0 .. MAX_FUNCS /\ tab.index \in [Names -> Slots]
      /\ \A i \in Slots : tab.func[i].calledFuncs \subseteq Slots
  BY FieldsAreFunctions DEF Entry
<1>2. 0 .. tab.n - 1 \subseteq Slots
  BY <1>1, MaxFuncsAssumption DEF Slots
<1>3. ASSUME NEW e PROVE e \in EdgesByName(new) <=> e \in EdgesByName(tab)
  <2>1. \A i \in 0 .. tab.n - 1 : \A j \in tab.func[i].calledFuncs :
           /\ j \in new.func[i].calledFuncs
           /\ new.func[i].name = tab.func[i].name
           /\ new.func[j].name = tab.func[j].name
    BY <1>1, <1>2
  <2>2. \A i \in 0 .. tab.n - 1 : new.func[i].calledFuncs = tab.func[i].calledFuncs
    BY <1>2
  <2> QED BY <2>1, <2>2, EdgeOfNames
<1>4. BytesByName(new) = BytesByName(tab)
  BY <1>1 DEF BytesByName, Registered
<1> QED BY <1>3, <1>4 DEF SameProfile

LEMMA SameTwice ==
  ASSUME NEW tab, NEW mid, NEW new, SameProfile(tab, mid), SameProfile(mid, new)
  PROVE  SameProfile(tab, new)
BY DEF SameProfile, Registered

\* A function that is entered has no calls and no bytes, and the entries in
\* use stay as they are.
LEMMA LookupProfile ==
  ASSUME NEW tab, TableOK(tab), NEW m \in Names
  PROVE  SameProfile(tab, GetFunctionIndex(tab, m))
<1> DEFINE new == GetFunctionIndex(tab, m)
<1>1. /\ tab \in Table /\ NumberingOK(tab) /\ CallsClosed(tab) /\ SpareBlank(tab)
      /\ TableOK(new) /\ new \in Table
  BY GetFunctionIndexOK DEF TableOK
<1>2. /\ tab.n \in 0 .. MAX_FUNCS /\ tab.index \in [Names -> Slots]
      /\ tab.func \in [Slots -> Entry]
  BY <1>1, FieldsAreFunctions
<1>3. CASE Full(tab) \/ Registered(tab, m)
  BY <1>3 DEF GetFunctionIndex, SameProfile
<1>4. CASE ~ (Full(tab) \/ Registered(tab, m))
  <2> DEFINE n == tab.n
             entry == InitEntry(tab.func[n], m)
  <2>1. n \in 0 .. MAX_FUNCS - 1 /\ n \in Slots
    BY <1>2, <1>4, MaxFuncsAssumption DEF Full, Slots
  <2>2. /\ new.index = [tab.index EXCEPT ![m] = n]
        /\ new.n = n + 1
        /\ new.func = IF n + 1 = MAX_FUNCS THEN tab.func
                      ELSE [tab.func EXCEPT ![n] = entry]
    BY <1>4 DEF GetFunctionIndex
  <2>3. \A i \in -1 .. n - 1 : new.func[i] = tab.func[i] /\ i \in Slots
    BY <2>1, LookupRecords, MaxFuncsAssumption DEF Slots
  <2>4. tab.func[n] = BlankEntry
    BY <1>1, <2>1, MaxFuncsAssumption DEF SpareBlank
  <2>5. entry.calledFuncs = {} /\ entry.memoryAlloc1 = 0
    BY <2>4 DEF InitEntry, BlankEntry
  <2> HIDE DEF new, entry
  <2>6. new.func[n] \in {tab.func[n], entry}
    BY <1>2, <2>1, <2>2
  <2>7. new.func[n].calledFuncs = {} /\ new.func[n].memoryAlloc1 = 0
    BY <2>4, <2>5, <2>6 DEF BlankEntry
  <2>8. ASSUME NEW e PROVE e \in EdgesByName(new) <=> e \in EdgesByName(tab)
    <3>1. \A i \in 0 .. n : i = n \/ i \in 0 .. n - 1
      BY <2>1
    <3>2. \A i \in 0 .. n - 1 : i \in 0 .. n /\ i \in -1 .. n - 1 /\ i \in Slots
      BY <2>1, <2>3
    <3>3. \A i \in 0 .. n - 1 : \A j \in tab.func[i].calledFuncs : j \in -1 .. n - 1
      BY <1>1, <2>1, <3>2 DEF CallsClosed
    <3>4. 0 .. new.n - 1 = 0 .. n
      BY <2>1, <2>2
    <3>5. e \in EdgesByName(new) <=>
             \E i \in 0 .. n : \E j \in new.func[i].calledFuncs :
                e = <<new.func[i].name, new.func[j].name>>
      <4>1. e \in EdgesByName(new) <=>
               \E i \in 0 .. new.n - 1 : \E j \in new.func[i].calledFuncs :
                  e = <<new.func[i].name, new.func[j].name>>
        BY EdgeOfNames
      <4> QED BY <3>4, <4>1
    <3>6. e \in EdgesByName(tab) <=>
             \E i \in 0 .. n - 1 : \E j \in tab.func[i].calledFuncs :
                e = <<tab.func[i].name, tab.func[j].name>>
      BY EdgeOfNames
    <3> HIDE DEF n
    <3> QED BY <2>3, <2>7, <3>1, <3>2, <3>3, <3>5, <3>6
  <2>9. ASSUME NEW k \in Names PROVE BytesByName(new)[k] = BytesByName(tab)[k]
    <3>1. CASE k = m
      <4>1. new.index[k] = n /\ ~ Registered(tab, k) /\ n # None
        BY <1>2, <1>4, <2>1, <2>2, <3>1 DEF None
      <4> QED BY <2>7, <4>1 DEF BytesByName, Registered
    <3>2. CASE k # m
      <4>1. new.index[k] = tab.index[k]
        BY <1>2, <2>2, <3>2
      <4>2. tab.index[k] \in -1 .. n - 1
        BY <1>1 DEF NumberingOK
      <4> QED BY <2>3, <4>1, <4>2 DEF BytesByName, Registered
    <3> QED BY <3>1, <3>2
  <2>10. BytesByName(new) = BytesByName(tab)
    BY <2>9 DEF BytesByName
  <2>11. \A k \in Names : Registered(tab, k) => new.index[k] = tab.index[k]
    BY <1>2, <1>4, <2>2
  <2> QED BY <2>8, <2>10, <2>11 DEF SameProfile, new
<1> QED BY <1>3, <1>4

\* Names and indices are one to one.
LEMMA NameOfIndex ==
  ASSUME NEW tab, TableOK(tab), ~ Full(tab), NEW m \in Names, Registered(tab, m)
  PROVE  /\ tab.index[m] \in 0 .. tab.n - 1 /\ tab.index[m] \in Slots
         /\ tab.func[tab.index[m]].name = m
<1> DEFINE i == tab.index[m]
<1>1. i \in -1 .. tab.n - 1 /\ i # -1 /\ tab.n \in 0 .. MAX_FUNCS
  BY FieldsAreFunctions DEF TableOK, NumberingOK, Registered, None
<1>2. i \in 0 .. tab.n - 1 /\ i \in Slots
  BY <1>1, MaxFuncsAssumption DEF Slots
<1>3. tab.func[i].name \in Names /\ tab.index[tab.func[i].name] = i
  BY <1>2 DEF TableOK, NumberingOK
<1>4. tab.func[i].name = m
  BY <1>3 DEF TableOK, NumberingOK, Registered
<1> QED BY <1>2, <1>4

\* A recorded call is one edge more, between the two functions.
LEMMA CallProfiled ==
  ASSUME NEW tab, TableOK(tab), ~ Full(tab),
         NEW a \in Names, NEW b \in Names, Registered(tab, a), Registered(tab, b)
  PROVE  LET new == AddCall(tab, tab.index[a], tab.index[b])
         IN  /\ EdgesByName(new) = EdgesByName(tab) \cup {<<a, b>>}
             /\ BytesByName(new) = BytesByName(tab)
             /\ new.index = tab.index /\ new.n = tab.n
<1> DEFINE i == tab.index[a]
           j == tab.index[b]
           mid == AddEdge(tab, i, j)
           new == AddCall(tab, i, j)
           e1 == [tab.func[i] EXCEPT !.calledFuncs = @ \cup {j}]
           e2 == [mid.func[j] EXCEPT !.nNoOfCalls = @ + 1]
<1>1. /\ tab \in Table /\ tab.n \in 0 .. MAX_FUNCS /\ tab.func \in [Slots -> Entry]
      /\ tab.index \in [Names -> Slots]
  BY FieldsAreFunctions DEF TableOK
<1>2. /\ i \in 0 .. tab.n - 1 /\ i \in Slots /\ tab.func[i].name = a
      /\ j \in 0 .. tab.n - 1 /\ j \in Slots /\ tab.func[j].name = b
  BY NameOfIndex
<1>3. /\ mid.func = [tab.func EXCEPT ![i] = e1] /\ mid.index = tab.index /\ mid.n = tab.n
  BY DEF AddEdge, Put
<1> HIDE DEF mid
<1>4. /\ new.func = [mid.func EXCEPT ![j] = e2] /\ new.index = tab.index /\ new.n = tab.n
  BY <1>3 DEF AddCall, CountCall, Put, mid
<1> HIDE DEF i, j
<1>5. /\ e1 \in Entry /\ e1.name = tab.func[i].name
      /\ e1.calledFuncs = tab.func[i].calledFuncs \cup {j}
      /\ e1.memoryAlloc1 = tab.func[i].memoryAlloc1
  BY <1>1, <1>2 DEF Entry
<1> HIDE DEF e1, new
<1>6. /\ mid.func \in [Slots -> Entry]
      /\ \A k \in Slots : mid.func[k] = IF k = i THEN e1 ELSE tab.func[k]
  BY <1>1, <1>2, <1>3, <1>5
<1>7. /\ e2.name = mid.func[j].name /\ e2.calledFuncs = mid.func[j].calledFuncs
      /\ e2.memoryAlloc1 = mid.func[j].memoryAlloc1
  BY <1>2, <1>6 DEF Entry
<1> HIDE DEF e2
<1>8. \A k \in Slots : new.func[k] = IF k = j THEN e2 ELSE mid.func[k]
  BY <1>2, <1>4, <1>6
<1>9. \A k \in Slots : /\ new.func[k].name = tab.func[k].name
                       /\ new.func[k].memoryAlloc1 = tab.func[k].memoryAlloc1
                       /\ new.func[k].calledFuncs =
                            IF k = i THEN tab.func[k].calledFuncs \cup {j}
                            ELSE tab.func[k].calledFuncs
  BY <1>5, <1>6, <1>7, <1>8
<1>10. ASSUME NEW e
       PROVE  e \in EdgesByName(new) <=> e \in EdgesByName(tab) \cup {<<a, b>>}
  <2>1. 0 .. tab.n - 1 \subseteq Slots
    BY <1>1, MaxFuncsAssumption DEF Slots
  <2>2. \A k \in 0 .. tab.n - 1 : tab.func[k].calledFuncs \subseteq Slots
    BY <1>1, <2>1 DEF Entry
  <2>3. e \in EdgesByName(new) <=>
           \E k \in 0 .. tab.n - 1 : \E l \in new.func[k].calledFuncs :
              e = <<new.func[k].name, new.func[l].name>>
    <3>1. e \in EdgesByName(new) <=>
             \E k \in 0 .. new.n - 1 : \E l \in new.func[k].calledFuncs :
                e = <<new.func[k].name, new.func[l].name>>
      BY EdgeOfNames
    <3> QED BY <1>4, <3>1
  <2>4. e \in EdgesByName(tab) <=>
           \E k \in 0 .. tab.n - 1 : \E l \in tab.func[k].calledFuncs :
              e = <<tab.func[k].name, tab.func[l].name>>
    BY EdgeOfNames
  <2>5. ASSUME e \in EdgesByName(new) PROVE e \in EdgesByName(tab) \cup {<<a, b>>}
    <3>1. PICK k \in 0 .. tab.n - 1 : \E l \in new.func[k].calledFuncs :
              e = <<new.func[k].name, new.func[l].name>>
      BY <2>3, <2>5
    <3>2. PICK l \in new.func[k].calledFuncs : e = <<new.func[k].name, new.func[l].name>>
      BY <3>1
    <3>3. l \in tab.func[k].calledFuncs \/ (k = i /\ l = j)
      BY <1>9, <2>1
    <3>4. l \in Slots /\ k \in Slots
      BY <1>2, <2>1, <2>2, <3>3
    <3>5. e = <<tab.func[k].name, tab.func[l].name>>
      BY <1>9, <3>2, <3>4
    <3> QED BY <1>2, <2>4, <3>3, <3>5
  <2>6. ASSUME e \in EdgesByName(tab) \cup {<<a, b>>} PROVE e \in EdgesByName(new)
    <3>1. \E k \in 0 .. tab.n - 1 : \E l \in Slots :
             /\ l \in tab.func[k].calledFuncs \/ (k = i /\ l = j)
             /\ e = <<tab.func[k].name, tab.func[l].name>>
      BY <1>2, <2>2, <2>4, <2>6
    <3>2. PICK k \in 0 .. tab.n - 1, l \in Slots :
             /\ l \in tab.func[k].calledFuncs \/ (k = i /\ l = j)
             /\ e = <<tab.func[k].name, tab.func[l].name>>
      BY <3>1
    <3>3. l \in new.func[k].calledFuncs /\ e = <<new.func[k].name, new.func[l].name>>
      BY <1>9, <2>1, <3>2
    <3> QED BY <2>3, <3>3
  <2> QED BY <2>5, <2>6
<1>11. BytesByName(new) = BytesByName(tab)
  BY <1>1, <1>4, <1>9 DEF BytesByName, Registered
<1>12. EdgesByName(new) = EdgesByName(tab) \cup {<<a, b>>}
  BY <1>10
<1> QED BY <1>4, <1>11, <1>12 DEF new, i, j

\* Charged bytes are those of the function, and change nothing else.
LEMMA BytesProfiled ==
  ASSUME NEW tab, TableOK(tab), NEW a \in Names, Registered(tab, a), NEW size \in Nat
  PROVE  LET new == AddBytes(tab, tab.index[a], size)
         IN  /\ EdgesByName(new) = EdgesByName(tab)
             /\ BytesByName(new) = [BytesByName(tab) EXCEPT ![a] = @ + size]
             /\ new.index = tab.index /\ new.n = tab.n
<1> DEFINE i == tab.index[a]
           e == [tab.func[i] EXCEPT !.memoryAlloc1 = @ + size]
           new == AddBytes(tab, i, size)
<1>1. /\ tab \in Table /\ tab.n \in 0 .. MAX_FUNCS /\ tab.func \in [Slots -> Entry]
      /\ tab.index \in [Names -> Slots] /\ i \in Slots
  BY FieldsAreFunctions DEF TableOK
<1>2. new.func = [tab.func EXCEPT ![i] = e] /\ new.index = tab.index /\ new.n = tab.n
  BY DEF AddBytes, Put
<1>3. /\ e.name = tab.func[i].name /\ e.calledFuncs = tab.func[i].calledFuncs
      /\ e.memoryAlloc1 = tab.func[i].memoryAlloc1 + size
  BY <1>1 DEF Entry
<1> HIDE DEF new, e
<1>4. \A k \in Slots : /\ new.func[k].name = tab.func[k].name
                       /\ new.func[k].calledFuncs = tab.func[k].calledFuncs
                       /\ new.func[k].memoryAlloc1 =
                            IF k = i THEN tab.func[k].memoryAlloc1 + size
                            ELSE tab.func[k].memoryAlloc1
  BY <1>1, <1>2, <1>3
<1>5. ASSUME NEW x PROVE x \in EdgesByName(new) <=> x \in EdgesByName(tab)
  <2>1. 0 .. tab.n - 1 \subseteq Slots
    BY <1>1, MaxFuncsAssumption DEF Slots
  <2>2. \A k \in 0 .. tab.n - 1 : tab.func[k].calledFuncs \subseteq Slots
    BY <1>1, <2>1 DEF Entry
  <2>3. \A k \in 0 .. tab.n - 1 : \A l \in tab.func[k].calledFuncs :
           <<new.func[k].name, new.func[l].name>> = <<tab.func[k].name, tab.func[l].name>>
    BY <1>4, <2>1, <2>2
  <2>4. \A k \in 0 .. tab.n - 1 : new.func[k].calledFuncs = tab.func[k].calledFuncs
    BY <1>4, <2>1
  <2>5. x \in EdgesByName(tab) <=>
           \E k \in 0 .. tab.n - 1 : \E l \in tab.func[k].calledFuncs :
              x = <<tab.func[k].name, tab.func[l].name>>
    BY EdgeOfNames
  <2>6. x \in EdgesByName(new) <=>
           \E k \in 0 .. new.n - 1 : \E l \in new.func[k].calledFuncs :
              x = <<new.func[k].name, new.func[l].name>>
    BY EdgeOfNames
  <2> QED BY <1>2, <2>3, <2>4, <2>5, <2>6
<1>6. ASSUME NEW m \in Names
      PROVE  BytesByName(new)[m] = IF m = a THEN BytesByName(tab)[m] + size
                                   ELSE BytesByName(tab)[m]
  <2>1. new.index[m] = tab.index[m] /\ tab.index[m] \in Slots
    BY <1>1, <1>2
  <2>2. Registered(tab, m) => (m = a <=> tab.index[m] = i)
    BY DEF TableOK, NumberingOK, Registered
  <2> QED BY <1>4, <2>1, <2>2 DEF BytesByName, Registered
<1>7. BytesByName(new) = [BytesByName(tab) EXCEPT ![a] = @ + size]
  BY <1>6 DEF BytesByName
<1> QED BY <1>2, <1>5, <1>7 DEF new, i

\* No other metric is part of the profile.
LEMMA MetricsProfile ==
  ASSUME NEW tab \in Table, NEW i \in Slots
  PROVE  /\ SameProfile(tab, AddBranch(tab, i))
         /\ SameProfile(tab, AddAvloop(tab, i))
         /\ \A key \in Keys, len \in Nat : SameProfile(tab, AddBlock(tab, i, key, len))
         /\ \A k \in Nat : /\ SameProfile(tab, AddLoads(tab, i, k))
                           /\ SameProfile(tab, SetCodeSize(tab, i, k))
                           /\ SameProfile(tab, SetStackSize(tab, i, k))
<1> DEFINE old == tab.func[i]
<1>1. old \in Entry /\ tab.func \in [Slots -> Entry]
  BY FieldsAreFunctions
<1>2. ASSUME NEW e, Put(tab, i, e) \in Table, e.name = old.name,
             e.calledFuncs = old.calledFuncs, e.memoryAlloc1 = old.memoryAlloc1
      PROVE  SameProfile(tab, Put(tab, i, e))
  <2> DEFINE new == Put(tab, i, e)
  <2>1. new.index = tab.index /\ new.n = tab.n /\ new.func = [tab.func EXCEPT ![i] = e]
    BY DEF Put
  <2>2. \A k \in Slots : new.func[k] = IF k = i THEN e ELSE tab.func[k]
    BY <1>1, <2>1
  <2> HIDE DEF new
  <2>3. \A k \in Slots : /\ new.func[k].name = tab.func[k].name
                         /\ new.func[k].calledFuncs = tab.func[k].calledFuncs
                         /\ new.func[k].memoryAlloc1 = tab.func[k].memoryAlloc1
    BY <1>2, <2>2
  <2>4. new \in Table
    BY <1>2 DEF new
  <2>5. SameProfile(tab, new)
    BY <2>1, <2>3, <2>4, SameEntries
  <2> QED BY <2>5 DEF new
<1>3. SameProfile(tab, tab)
  BY DEF SameProfile
<1>4. /\ AddBranch(tab, i) \in Table /\ AddAvloop(tab, i) \in Table
      /\ \A key \in Keys, len \in Nat : AddBlock(tab, i, key, len) \in Table
      /\ \A k \in Nat : /\ AddLoads(tab, i, k) \in Table
                        /\ SetCodeSize(tab, i, k) \in Table
                        /\ SetStackSize(tab, i, k) \in Table
  BY MetricsRecord DEF Records
<1>5. SameProfile(tab, AddBranch(tab, i)) /\ SameProfile(tab, AddAvloop(tab, i))
  BY <1>1, <1>2, <1>4 DEF AddBranch, AddAvloop, Entry
<1>6. ASSUME NEW k \in Nat
      PROVE  /\ SameProfile(tab, AddLoads(tab, i, k))
             /\ SameProfile(tab, SetCodeSize(tab, i, k))
             /\ SameProfile(tab, SetStackSize(tab, i, k))
  BY <1>1, <1>2, <1>3, <1>4 DEF AddLoads, SetCodeSize, SetStackSize, Entry
<1>7. ASSUME NEW key \in Keys, NEW len \in Nat
      PROVE  SameProfile(tab, AddBlock(tab, i, key, len))
  BY <1>1, <1>2, <1>3, <1>4 DEF AddBlock, Entry
<1> QED BY <1>5, <1>6, <1>7

----------------------------------------------------------------------------
(* One thread with plain calls: the tables implement CallProfile.          *)

\* A step of the profiler is a step of the abstract profile or none of it, and
\* the globals go on naming the callers.
Refines == /\ [Profile!Next]_(Profile!vars)
           /\ CallersKnown'

LEMMA IndexStays ==
  ASSUME NEW tab, NEW new, SameProfile(tab, new), NEW m, NEW i, IndexOf(tab, m, i)
  PROVE  IndexOf(new, m, i)
BY DEF SameProfile, IndexOf, Registered

\* What a thread has of the abstract variables.
LEMMA OfThread ==
  ASSUME NEW t \in Threads
  PROVE  /\ InStub[t] = IF pc[t] = "plt" THEN from[t] ELSE NoName
         /\ Requests[t] = IF pc[t] = "malloc" THEN Append(frames[t], from[t])
                          ELSE frames[t]
BY DEF InStub, Requests

\* With one thread, a step changes the abstract variables where it is.
LEMMA OnlyThread ==
  ASSUME OneThread, NEW t \in Threads
  PROVE  /\ InStub' = [InStub EXCEPT ![t] = InStub'[t]]
         /\ Requests' = [Requests EXCEPT ![t] = Requests'[t]]
         /\ InStub = [InStub EXCEPT ![t] = InStub[t]]
         /\ Requests = [Requests EXCEPT ![t] = Requests[t]]
<1>1. Threads = {t}
  BY DEF OneThread
<1> QED BY <1>1 DEF InStub, Requests

\* Steps outside of calls and allocations: the tables keep their profile, and
\* a thread may begin or end to instrument.
LEMMA OtherStep ==
  ASSUME Inv, CallersKnown, SameProfile(dy, dy'),
         UNCHANGED <<globals, from, frames>>,
         phase' = "run" => phase = "run",
         \/ pc' = pc
         \/ \E t \in Threads, label \in {"run", "instrument"} :
               pc[t] \in {"run", "instrument"} /\ pc' = [pc EXCEPT ![t] = label]
  PROVE  Refines
<1>1. pc \in [Threads -> {"run", "plt", "malloc", "instrument"}]
  BY DEF Inv, TypeOK
<1>2. ASSUME NEW t \in Threads
      PROVE  (pc'[t] = "plt" <=> pc[t] = "plt") /\ (pc'[t] = "malloc" <=> pc[t] = "malloc")
  BY <1>1
<1>3. UNCHANGED <<InStub, Requests>>
  BY <1>2 DEF InStub, Requests
<1>4. UNCHANGED <<EdgesByName(dy), BytesByName(dy)>>
  BY DEF SameProfile
<1>5. UNCHANGED Profile!vars
  BY <1>3, <1>4 DEF Profile!vars
<1>6. ASSUME phase' = "run", NEW t \in Threads
      PROVE  /\ pc'[t] = "plt" => IndexOf(dy', from'[t], prevIndex')
             /\ pc'[t] = "malloc" => from'[t] \in Names
             /\ Len(frames'[t]) <= 1
             /\ IF Requests'[t] = << >> THEN prevIndexforMalloc' = None
                ELSE IndexOf(dy', Requests'[t][1], prevIndexforMalloc')
  <2>1. /\ pc[t] = "plt" => IndexOf(dy, from[t], prevIndex)
        /\ pc[t] = "malloc" => from[t] \in Names
        /\ Len(frames[t]) <= 1
        /\ IF Requests[t] = << >> THEN prevIndexforMalloc = None
           ELSE IndexOf(dy, Requests[t][1], prevIndexforMalloc)
    BY <1>6 DEF CallersKnown
  <2> QED BY <1>2, <1>3, <2>1, IndexStays DEF globals
<1>7. CallersKnown'
  BY <1>6 DEF CallersKnown
<1> QED BY <1>5, <1>7 DEF Refines

\* Two lookups: both functions are known afterwards, and nothing else changes.
LEMMA BothFound ==
  ASSUME NEW tab, TableOK(tab), NEW a \in Names, NEW b \in Names,
         LET new == GetFunctionIndex(GetFunctionIndex(tab, a), b) IN ~ Full(new)
  PROVE  LET new == GetFunctionIndex(GetFunctionIndex(tab, a), b)
         IN  TableOK(new) /\ Registered(new, a) /\ Registered(new, b)
<1> DEFINE mid == GetFunctionIndex(tab, a)
           new == GetFunctionIndex(mid, b)
<1>1. TableOK(mid) /\ (~ Full(mid) => mid.index[a] \in 0 .. mid.n - 1)
  BY GetFunctionIndexOK
<1> HIDE DEF mid
<1>2. /\ TableOK(new) /\ ~ Full(new) /\ new.index[b] \in 0 .. new.n - 1
      /\ SameProfile(mid, new)
  BY <1>1, GetFunctionIndexOK, LookupProfile DEF mid
<1>3. ~ Full(mid)
  BY <1>2 DEF GetFunctionIndex
<1>4. mid.index[a] # None /\ new.index[b] # None
  BY <1>1, <1>2, <1>3, FieldsAreFunctions DEF None, TableOK
<1>5. Registered(new, a) /\ Registered(new, b)
  BY <1>2, <1>4 DEF SameProfile, Registered
<1> QED BY <1>2, <1>5 DEF mid

LEMMA TwoLookupsProfile ==
  ASSUME NEW tab, TableOK(tab), NEW a \in Names, NEW b \in Names
  PROVE  SameProfile(tab, GetFunctionIndex(GetFunctionIndex(tab, a), b))
<1> DEFINE mid == GetFunctionIndex(tab, a)
<1>1. TableOK(mid) /\ SameProfile(tab, mid)
  BY GetFunctionIndexOK, LookupProfile
<1> HIDE DEF mid
<1>2. SameProfile(mid, GetFunctionIndex(mid, b))
  BY <1>1, LookupProfile
<1>3. SameProfile(tab, GetFunctionIndex(mid, b))
  BY <1>1, <1>2, SameTwice
<1> QED BY <1>3 DEF mid

LEMMA ProcedureCallRefines ==
  ASSUME Inv, CallersKnown, OneThread, PlainCalls, NEW t \in Threads,
         NEW src \in Names \ {LibCall}, NEW tgt \in Names, ProcedureCall(t, src, tgt)
  PROVE  Refines
<1> DEFINE tab == GetFunctionIndex(GetFunctionIndex(dy, src), tgt)
           s == tab.index[src]
<1>1. /\ phase = "run" /\ pc[t] = "run" /\ TypeOK /\ TableOK(dy)
  BY DEF ProcedureCall, Runs, Inv
<1>2. SameProfile(dy, tab)
  BY <1>1, TwoLookupsProfile
<1>3. CASE Full(tab)
  <2>1. dy' = tab /\ phase' = "exited" /\ UNCHANGED <<globals, program>>
    BY <1>3 DEF ProcedureCall, Dynamic
  <2> QED BY <1>2, <2>1, OtherStep DEF program
<1>4. CASE ~ Full(tab)
  <2>1. TableOK(tab) /\ Registered(tab, src) /\ Registered(tab, tgt)
    BY <1>1, <1>4, BothFound
  <2>2. /\ prevIndexforMalloc' = IF tgt = Malloc /\ prevIndexforMalloc = None
                                 THEN s ELSE prevIndexforMalloc
        /\ IF tgt = LibCall
           THEN prevIndex' = s /\ dy' = tab
           ELSE prevIndex' = None /\ dy' = AddCall(tab, s, tab.index[tgt])
        /\ pc' = [pc EXCEPT ![t] = CASE tgt = LibCall -> "plt"
                                     [] tgt = Malloc -> "malloc"
                                     [] OTHER -> "run"]
        /\ from' = [from EXCEPT ![t] = IF tgt \in {LibCall, Malloc}
                                       THEN src ELSE NoName]
        /\ UNCHANGED frames
    BY <1>4 DEF ProcedureCall, Dynamic, Goto, PlainCalls
  <2> HIDE DEF tab
  <2>3. /\ dy'.index = tab.index
        /\ BytesByName(dy') = BytesByName(dy)
        /\ EdgesByName(dy') = IF tgt = LibCall THEN EdgesByName(dy)
                              ELSE EdgesByName(dy) \cup {<<src, tgt>>}
    BY <1>2, <1>4, <2>1, <2>2, CallProfiled DEF SameProfile
  <2>4. /\ Threads = {t} /\ LibCall # Malloc
        /\ pc \in [Threads -> {"run", "plt", "malloc", "instrument"}]
        /\ from \in [Threads -> Names \cup {NoName}]
        /\ frames \in [Threads -> Seq(Names \cup {NoName})]
    BY <1>1, NamesAssumption DEF OneThread, TypeOK
  <2>5. /\ pc'[t] = CASE tgt = LibCall -> "plt" [] tgt = Malloc -> "malloc"
                      [] OTHER -> "run"
        /\ from'[t] = IF tgt \in {LibCall, Malloc} THEN src ELSE NoName
        /\ frames'[t] = frames[t]
    BY <2>2, <2>4
  <2>6. InStub[t] = NoName /\ Requests[t] = frames[t]
    BY <1>1 DEF InStub, Requests
  <2>7. /\ InStub'[t] = IF tgt = LibCall THEN src ELSE NoName
        /\ Requests'[t] = IF tgt = Malloc THEN Append(frames[t], src) ELSE frames[t]
    BY <2>4, <2>5 DEF InStub, Requests
  <2>8. /\ InStub' = [InStub EXCEPT ![t] = InStub'[t]]
        /\ Requests' = [Requests EXCEPT ![t] = Requests'[t]]
        /\ InStub = [InStub EXCEPT ![t] = InStub[t]]
        /\ Requests = [Requests EXCEPT ![t] = Requests[t]]
    BY OnlyThread
  <2>9. [Profile!Next]_(Profile!vars)
    <3>1. CASE tgt = LibCall
      <4>1. InStub' = [InStub EXCEPT ![t] = src] /\ Requests' = Requests
        <5>1. InStub'[t] = src /\ Requests'[t] = Requests[t]
          BY <2>4, <2>6, <2>7, <3>1
        <5> QED BY <2>8, <5>1
      <4>2. Profile!EnterStub(t, src)
        BY <2>3, <2>6, <3>1, <4>1 DEF Profile!EnterStub
      <4> QED BY <4>2 DEF Profile!Next
    <3>2. CASE tgt # LibCall
      <4>1. InStub' = InStub
        <5>1. InStub'[t] = InStub[t]
          BY <2>6, <2>7, <3>2
        <5> QED BY <2>8, <5>1
      <4>2. \/ Requests' = Requests
            \/ Requests' = [Requests EXCEPT ![t] = Append(@, src)]
        <5>1. Requests'[t] = Requests[t] \/ Requests'[t] = Append(Requests[t], src)
          BY <2>6, <2>7
        <5> QED BY <2>8, <5>1
      <4>3. Profile!Call(t, src, tgt)
        BY <2>3, <2>6, <3>2, <4>1, <4>2 DEF Profile!Call, Profile!MayRequest
      <4> QED BY <4>3 DEF Profile!Next
    <3> QED BY <3>1, <3>2
  <2>10. /\ Len(frames[t]) <= 1
         /\ IF frames[t] = << >> THEN prevIndexforMalloc = None
            ELSE IndexOf(dy, frames[t][1], prevIndexforMalloc)
    BY <1>1, <2>6 DEF CallersKnown
  <2>11. /\ pc'[t] = "plt" => IndexOf(dy', from'[t], prevIndex')
         /\ pc'[t] = "malloc" => from'[t] \in Names
         /\ Len(frames'[t]) <= 1
    BY <2>1, <2>2, <2>3, <2>4, <2>5, <2>10 DEF IndexOf, Registered
  <2>12. IF Requests'[t] = << >> THEN prevIndexforMalloc' = None
         ELSE IndexOf(dy', Requests'[t][1], prevIndexforMalloc')
    <3>1. frames[t] \in Seq(Names \cup {NoName})
      BY <2>4
    <3>2. frames[t] # << >> => IndexOf(dy', frames[t][1], prevIndexforMalloc)
      BY <1>2, <2>3, <2>10, IndexStays DEF IndexOf, Registered
    <3>3. CASE tgt # Malloc
      <4>1. Requests'[t] = frames[t] /\ prevIndexforMalloc' = prevIndexforMalloc
        BY <2>2, <2>7, <3>3
      <4> QED BY <2>10, <3>2, <4>1
    <3>4. CASE tgt = Malloc /\ frames[t] = << >>
      <4>1. Requests'[t] = <<src>> /\ prevIndexforMalloc' = s
        BY <2>2, <2>7, <2>10, <3>4
      <4>2. Requests'[t] # << >> /\ Requests'[t][1] = src
        BY <4>1
      <4> QED BY <2>1, <2>3, <4>1, <4>2 DEF IndexOf, Registered
    <3>5. CASE tgt = Malloc /\ frames[t] # << >>
      <4>1. Requests'[t] = Append(frames[t], src)
        BY <2>7, <3>5
      <4>2. Requests'[t] # << >> /\ Requests'[t][1] = frames[t][1]
        BY <2>4, <3>1, <3>5, <4>1
      <4>3. prevIndexforMalloc # None
        BY <2>10, <3>5 DEF IndexOf, Registered
      <4> QED BY <2>2, <3>2, <3>5, <4>2, <4>3
    <3> QED BY <3>3, <3>4, <3>5
  <2>13. CallersKnown'
    BY <2>4, <2>11, <2>12 DEF CallersKnown
  <2> QED BY <2>9, <2>13 DEF Refines
<1> QED BY <1>3, <1>4

LEMMA CallPltRefines ==
  ASSUME Inv, CallersKnown, OneThread, PlainCalls, NEW t \in Threads,
         NEW tgt \in Names \ {LibCall}, CallPlt(t, tgt)
  PROVE  Refines
<1> DEFINE tab == GetFunctionIndex(dy, tgt)
           a == from[t]
<1>1. /\ phase = "run" /\ pc[t] = "plt" /\ TypeOK /\ TableOK(dy)
  BY DEF CallPlt, Inv
<1>2. SameProfile(dy, tab)
  BY <1>1, LookupProfile
<1>3. CASE Full(tab)
  <2>1. dy' = tab /\ phase' = "exited" /\ UNCHANGED <<globals, program>>
    BY <1>3 DEF CallPlt, Dynamic
  <2> QED BY <1>2, <2>1, OtherStep DEF program
<1>4. CASE ~ Full(tab)
  <2>1. /\ IndexOf(dy, a, prevIndex) /\ Len(frames[t]) <= 1
        /\ IF Requests[t] = << >> THEN prevIndexforMalloc = None
           ELSE IndexOf(dy, Requests[t][1], prevIndexforMalloc)
    BY <1>1 DEF CallersKnown
  <2>2. /\ TableOK(tab) /\ tab.index[tgt] # None
    <3>1. TableOK(tab) /\ tab.index[tgt] \in 0 .. tab.n - 1
      BY <1>1, <1>4, GetFunctionIndexOK
    <3> QED BY <3>1, FieldsAreFunctions DEF None, TableOK
  <2>3. IndexOf(tab, a, prevIndex)
    BY <1>2, <2>1, IndexStays
  <2>4. /\ prevIndexforMalloc' = IF tgt = Malloc /\ prevIndexforMalloc = None
                                 THEN prevIndex ELSE prevIndexforMalloc
        /\ dy' = AddCall(tab, prevIndex, tab.index[tgt])
        /\ pc' = [pc EXCEPT ![t] = IF tgt = Malloc THEN "malloc" ELSE "run"]
        /\ from' = [from EXCEPT ![t] = IF tgt = Malloc THEN @ ELSE NoName]
        /\ UNCHANGED frames
    BY <1>4 DEF CallPlt, Dynamic, Goto, PlainCalls
  <2> HIDE DEF tab
  <2>5. /\ dy'.index = tab.index
        /\ BytesByName(dy') = BytesByName(dy)
        /\ EdgesByName(dy') = EdgesByName(dy) \cup {<<a, tgt>>}
    <3>1. /\ prevIndex = tab.index[a] /\ a \in Names
          /\ Registered(tab, a) /\ Registered(tab, tgt)
      BY <2>2, <2>3 DEF IndexOf, Registered
    <3> HIDE DEF a
    <3>2. LET new == AddCall(tab, tab.index[a], tab.index[tgt])
          IN  /\ EdgesByName(new) = EdgesByName(tab) \cup {<<a, tgt>>}
              /\ BytesByName(new) = BytesByName(tab)
              /\ new.index = tab.index /\ new.n = tab.n
      BY <1>4, <2>2, <3>1, CallProfiled DEF tab
    <3> QED BY <1>2, <2>4, <3>1, <3>2 DEF SameProfile
  <2>6. /\ Threads = {t} /\ a \in Names /\ a # NoName
        /\ pc \in [Threads -> {"run", "plt", "malloc", "instrument"}]
        /\ from \in [Threads -> Names \cup {NoName}]
        /\ frames \in [Threads -> Seq(Names \cup {NoName})]
    BY <1>1, <2>1, NoNameAssumption DEF OneThread, TypeOK, IndexOf
  <2>7. /\ pc'[t] = IF tgt = Malloc THEN "malloc" ELSE "run"
        /\ from'[t] = IF tgt = Malloc THEN a ELSE NoName
        /\ frames'[t] = frames[t]
    BY <2>4, <2>6
  <2>8. InStub[t] = a /\ Requests[t] = frames[t]
    BY <1>1 DEF InStub, Requests
  <2>9. /\ InStub'[t] = NoName
        /\ Requests'[t] = IF tgt = Malloc THEN Append(frames[t], a) ELSE frames[t]
    BY <2>6, <2>7 DEF InStub, Requests
  <2>10. [Profile!Next]_(Profile!vars)
    <3>1. InStub' = [InStub EXCEPT ![t] = NoName]
      BY <2>9, OnlyThread
    <3>2. \/ Requests' = Requests
          \/ Requests' = [Requests EXCEPT ![t] = Append(@, a)]
      <4>1. Requests'[t] = Requests[t] \/ Requests'[t] = Append(Requests[t], a)
        BY <2>8, <2>9
      <4> QED BY <4>1, OnlyThread
    <3>3. Profile!LeaveStub(t, tgt)
      BY <2>5, <2>6, <2>8, <3>1, <3>2 DEF Profile!LeaveStub, Profile!MayRequest
    <3> QED BY <3>3 DEF Profile!Next
  <2>11. IF Requests'[t] = << >> THEN prevIndexforMalloc' = None
         ELSE IndexOf(dy', Requests'[t][1], prevIndexforMalloc')
    <3>1. frames[t] \in Seq(Names \cup {NoName})
      BY <2>6
    <3>2. frames[t] # << >> => IndexOf(dy', frames[t][1], prevIndexforMalloc)
      BY <1>2, <2>1, <2>5, <2>8, IndexStays DEF IndexOf, Registered
    <3>3. CASE tgt # Malloc
      <4>1. Requests'[t] = frames[t] /\ prevIndexforMalloc' = prevIndexforMalloc
        BY <2>4, <2>9, <3>3
      <4> QED BY <2>1, <2>8, <3>2, <4>1
    <3>4. CASE tgt = Malloc /\ frames[t] = << >>
      <4>1. Requests'[t] = <<a>> /\ prevIndexforMalloc' = prevIndex
        BY <2>1, <2>4, <2>8, <2>9, <3>4
      <4>2. Requests'[t] # << >> /\ Requests'[t][1] = a
        BY <4>1
      <4> QED BY <2>3, <2>5, <4>1, <4>2 DEF IndexOf, Registered
    <3>5. CASE tgt = Malloc /\ frames[t] # << >>
      <4>1. Requests'[t] = Append(frames[t], a)
        BY <2>9, <3>5
      <4>2. Requests'[t] # << >> /\ Requests'[t][1] = frames[t][1]
        BY <2>6, <3>1, <3>5, <4>1
      <4>3. prevIndexforMalloc # None
        BY <2>1, <2>8, <3>5 DEF IndexOf, Registered
      <4> QED BY <2>4, <3>2, <3>5, <4>2, <4>3
    <3> QED BY <3>3, <3>4, <3>5
  <2>12. CallersKnown'
    BY <2>1, <2>6, <2>7, <2>11 DEF CallersKnown
  <2> QED BY <2>10, <2>12 DEF Refines
<1> QED BY <1>3, <1>4

LEMMA EnterMallocRefines ==
  ASSUME Inv, CallersKnown, OneThread, PlainCalls, NEW t \in Threads, EnterMalloc(t)
  PROVE  Refines
<1>1. /\ phase = "run" /\ pc[t] = "malloc" /\ Len(frames[t]) < MaxDepth
      /\ frames' = [frames EXCEPT ![t] = Append(@, from[t])]
      /\ from' = [from EXCEPT ![t] = NoName]
      /\ pc' = [pc EXCEPT ![t] = "run"]
      /\ UNCHANGED <<dy, globals, phase>>
  BY DEF EnterMalloc, Goto, tables
<1>2. /\ Threads = {t} /\ MaxDepth \in Nat /\ MaxDepth <= 1
      /\ pc \in [Threads -> {"run", "plt", "malloc", "instrument"}]
      /\ from \in [Threads -> Names \cup {NoName}]
      /\ frames \in [Threads -> Seq(Names \cup {NoName})]
  BY BoundsAssumption DEF Inv, OneThread, PlainCalls, TypeOK
<1>3. frames'[t] = Append(frames[t], from[t]) /\ pc'[t] = "run"
  BY <1>1, <1>2
<1>4. /\ InStub'[t] = InStub[t] /\ Requests'[t] = Requests[t]
  BY <1>1, <1>3 DEF InStub, Requests
<1>5. UNCHANGED <<InStub, Requests>>
  BY <1>4, OnlyThread
<1>6. UNCHANGED Profile!vars
  BY <1>1, <1>5 DEF Profile!vars
<1>7. Len(frames'[t]) <= 1
  <2>1. frames[t] \in Seq(Names \cup {NoName}) /\ from[t] \in Names \cup {NoName}
    BY <1>2
  <2>2. Len(frames'[t]) = Len(frames[t]) + 1 /\ Len(frames[t]) \in Nat
    BY <1>3, <2>1
  <2> QED BY <1>1, <1>2, <2>2
<1>8. IF Requests[t] = << >> THEN prevIndexforMalloc = None
      ELSE IndexOf(dy, Requests[t][1], prevIndexforMalloc)
  BY <1>1 DEF CallersKnown
<1>9. CallersKnown'
  BY <1>1, <1>2, <1>3, <1>5, <1>7, <1>8 DEF CallersKnown, globals
<1> QED BY <1>6, <1>9 DEF Refines

LEMMA ReturnMallocRefines ==
  ASSUME Inv, CallersKnown, OneThread, NEW t \in Threads, NEW size \in Sizes,
         ReturnMalloc(t, size)
  PROVE  Refines
<1> DEFINE a == frames[t][1]
<1>1. /\ phase = "run" /\ pc[t] = "run" /\ frames[t] # << >>
      /\ dy' = AddBytes(dy, prevIndexforMalloc, size)
      /\ prevIndexforMalloc' = None /\ UNCHANGED <<prevIndex, pc, from>>
      /\ frames' = [frames EXCEPT ![t] = SubSeq(@, 1, Len(@) - 1)]
  BY DEF ReturnMalloc, Runs, Dynamic
<1>2. /\ Threads = {t} /\ size \in Nat /\ TableOK(dy)
      /\ frames \in [Threads -> Seq(Names \cup {NoName})]
  BY BoundsAssumption DEF Inv, OneThread, TypeOK
<1>3. Requests[t] = frames[t] /\ InStub[t] = NoName
  BY <1>1 DEF InStub, Requests
<1>4. IndexOf(dy, a, prevIndexforMalloc) /\ Len(frames[t]) <= 1
  BY <1>1, <1>3 DEF CallersKnown
<1>5. /\ Len(frames[t]) = 1 /\ frames'[t] = << >>
  <2>1. frames[t] \in Seq(Names \cup {NoName})
    BY <1>2
  <2>2. Len(frames[t]) = 1
    <3>1. Len(frames[t]) \in Nat /\ Len(frames[t]) # 0
      BY <1>1, <2>1
    <3>2. \A n \in Nat : n <= 1 /\ n # 0 => n = 1
      OBVIOUS
    <3> QED BY <1>4, <3>1, <3>2
  <2>3. frames'[t] = SubSeq(frames[t], 1, Len(frames[t]) - 1)
    BY <1>1, <1>2
  <2> QED BY <2>1, <2>2, <2>3
<1>6. /\ EdgesByName(dy') = EdgesByName(dy)
      /\ BytesByName(dy') = [BytesByName(dy) EXCEPT ![a] = @ + size]
  <2>1. a \in Names /\ Registered(dy, a) /\ prevIndexforMalloc = dy.index[a]
    BY <1>4 DEF IndexOf
  <2> HIDE DEF a
  <2> QED BY <1>1, <1>2, <2>1, BytesProfiled
<1>7. InStub'[t] = NoName /\ Requests'[t] = << >>
  BY <1>1, <1>5 DEF InStub, Requests
<1>8. InStub' = InStub /\ Requests' = [Requests EXCEPT ![t] = SubSeq(@, 1, Len(@) - 1)]
  <2>1. InStub'[t] = InStub[t]
    BY <1>3, <1>7
  <2>2. Requests'[t] = SubSeq(Requests[t], 1, Len(Requests[t]) - 1)
    BY <1>1, <1>2, <1>3, <1>5, <1>7
  <2>3. InStub' = InStub
    BY <2>1, OnlyThread
  <2>4. Requests' = [Requests EXCEPT ![t] = Requests'[t]]
    BY OnlyThread
  <2> QED BY <2>2, <2>3, <2>4
<1>9. Profile!Allocate(t, size)
  <2>1. Requests[t] # << >> /\ Requests[t][Len(Requests[t])] = a
    BY <1>1, <1>3, <1>5
  <2> HIDE DEF a
  <2> QED BY <1>6, <1>8, <2>1 DEF Profile!Allocate
<1>10. CallersKnown'
  <2>1. pc'[t] = "run" /\ frames'[t] = << >> /\ Requests'[t] = << >> /\ Len(<< >>) = 0
    BY <1>1, <1>5, <1>7
  <2> QED BY <1>1, <1>2, <2>1 DEF CallersKnown
<1> QED BY <1>9, <1>10 DEF Refines, Profile!Next

\* Callbacks at sites find a function and add to metrics of its entry.
LEMMA MeasureRefines ==
  ASSUME Inv, CallersKnown, NEW t \in Threads, Measure(t)
  PROVE  Refines
<1>1. TypeOK /\ TableOK(dy)
  BY DEF Inv
<1>2. ASSUME NEW r \in Routines, RtnStart(t, r) PROVE Refines
  <2>1. SameProfile(dy, dy') /\ UNCHANGED <<globals, phase, program>>
    BY <1>2 DEF RtnStart, tables, SameProfile
  <2> QED BY <2>1, OtherStep DEF program
<1>3. ASSUME NEW s \in Sites,
             \/ CountInstr(t, s)
             \/ CountBranchInstr(t, s)
             \/ \E off \in {0, 12} : load(t, s, off, 8)
             \/ StackSizeCount(t, s, SiteLen[s])
      PROVE  Refines
  <2> DEFINE tab == GetFunctionIndex(dy, SiteName[s])
             i == tab.index[SiteName[s]]
  <2>1. /\ SameProfile(dy, tab) /\ tab \in Table /\ i \in Slots
        /\ SiteKey[s] \in Keys /\ SiteLen[s] \in Nat
    <3>1. TableOK(tab) /\ SameProfile(dy, tab)
      BY <1>1, GetFunctionIndexOK, LookupProfile, SitesAssumption
    <3> HIDE DEF tab
    <3> QED BY <3>1, IndexIsSlot, SitesAssumption
  <2> HIDE DEF tab
  <2>2. ASSUME NEW new, SameProfile(tab, new),
               dy' = (IF Full(tab) THEN tab ELSE new),
               phase = "run", UNCHANGED <<globals, program>>
        PROVE  Refines
    <3>1. SameProfile(tab, dy')
      BY <2>2 DEF SameProfile
    <3>2. SameProfile(dy, dy')
      BY <2>1, <3>1, SameTwice
    <3> QED BY <2>2, <3>2, OtherStep DEF program
  <2>3. /\ SameProfile(tab, AddBranch(tab, i))
        /\ SameProfile(tab, AddBlock(tab, i, SiteKey[s], SiteLen[s]))
        /\ SameProfile(tab, SetStackSize(tab, i, SiteLen[s]))
        /\ \A k \in Nat : SameProfile(tab, AddLoads(tab, i, k))
    BY <2>1, MetricsProfile
  <2>4. CASE CountInstr(t, s)
    BY <2>2, <2>3, <2>4 DEF CountInstr, AtSite, Dynamic, Runs, tab
  <2>5. CASE CountBranchInstr(t, s)
    BY <2>2, <2>3, <2>5 DEF CountBranchInstr, AtSite, Dynamic, Runs, tab
  <2>6. CASE StackSizeCount(t, s, SiteLen[s])
    BY <2>2, <2>3, <2>6 DEF StackSizeCount, AtSite, Dynamic, Runs, tab
  <2>7. ASSUME NEW off \in {0, 12}, load(t, s, off, 8) PROVE Refines
    <3>1. Chunks(off, 8) \in Nat
      BY <2>7 DEF Chunks
    <3> QED BY <2>2, <2>3, <2>7, <3>1 DEF load, AtSite, Dynamic, Runs, tab
  <2> QED BY <1>3, <2>4, <2>5, <2>6, <2>7
<1> QED BY <1>2, <1>3 DEF Measure

LEMMA InstrumentRefines ==
  ASSUME Inv, CallersKnown, NEW t \in Threads, Instrument(t)
  PROVE  Refines
<1>1. ASSUME NEW r \in Routines, OpenRoutine(t, r) PROVE Refines
  <2>1. /\ phase = "run" /\ pc[t] = "run" /\ pc' = [pc EXCEPT ![t] = "instrument"]
        /\ SameProfile(dy, dy') /\ UNCHANGED <<globals, from, frames>>
    BY <1>1 DEF OpenRoutine, Runs, Goto, SameProfile
  <2> QED BY <2>1, OtherStep
<1>2. ASSUME CloseRoutine(t) PROVE Refines
  <2>1. /\ phase = "run" /\ pc[t] = "instrument" /\ pc' = [pc EXCEPT ![t] = "run"]
        /\ SameProfile(dy, dy') /\ UNCHANGED <<globals, from, frames>>
    BY <1>2 DEF CloseRoutine, Goto, SameProfile
  <2> QED BY <2>1, OtherStep
<1>3. ASSUME RoutineInstr(t) PROVE Refines
  <2> DEFINE m == RtnName[rtn]
             tab == GetFunctionIndex(dy, m)
             new == AddAvloop(tab, tab.index[m])
  <2>1. TableOK(dy) /\ m \in Names
    BY <1>3, RoutinesAssumption DEF Inv, OneInRoutine, RoutineInstr
  <2>2. TableOK(tab) /\ SameProfile(dy, tab)
    BY <2>1, GetFunctionIndexOK, LookupProfile
  <2>3. dy' \in {dy, tab, new} /\ phase = "run" /\ UNCHANGED <<globals, program>>
    BY <1>3 DEF RoutineInstr, DynamicInstr
  <2> HIDE DEF tab, m
  <2>4. SameProfile(tab, new)
    BY <2>1, <2>2, IndexIsSlot, MetricsProfile
  <2>5. SameProfile(dy, new)
    BY <2>2, <2>4, SameTwice
  <2>6. SameProfile(dy, dy')
    BY <2>2, <2>3, <2>5 DEF SameProfile
  <2> QED BY <2>3, <2>6, OtherStep DEF program
<1> QED BY <1>1, <1>2, <1>3 DEF Instrument

LEMMA FiniRefines ==
  ASSUME Inv, CallersKnown, Fini
  PROVE  Refines
<1>1. ASSUME WriteStatic \/ WriteDynamicEdges PROVE Refines
  <2>1. SameProfile(dy, dy') /\ phase' # "run" /\ UNCHANGED <<globals, program>>
    BY <1>1 DEF WriteStatic, WriteDynamicEdges, tables, SameProfile
  <2> QED BY <2>1, OtherStep DEF program
<1>2. ASSUME WriteDynamicNode PROVE Refines
  <2> DEFINE i == dynamicXML.nodes
             m == dy.func[i].name
             tab == GetFunctionIndex(st, m)
             size == tab.func[tab.index[m]].nCodeSize
  <2>1. /\ TypeOK /\ TableOK(st) /\ TableOK(dy) /\ ~ Full(dy) /\ i \in Nat /\ i < dy.n
    BY <1>2 DEF Inv, RoomLeft, WriteDynamicNode, TypeOK, File
  <2>2. dy \in Table /\ dy.n \in 0 .. MAX_FUNCS
    BY <2>1 DEF TableOK, Table
  <2> HIDE DEF i
  <2>3. i \in 0 .. dy.n - 1 /\ i \in Slots
    BY <2>1, <2>2, MaxFuncsAssumption DEF Slots
  <2>4. m \in Names
    BY <2>1, <2>3 DEF TableOK, NumberingOK
  <2> HIDE DEF m
  <2>5. TableOK(tab)
    BY <2>1, <2>4, GetFunctionIndexOK
  <2> HIDE DEF tab
  <2>6. size \in Nat
    <3>1. tab.index[m] \in Slots /\ tab.func \in [Slots -> Entry]
      BY <2>4, <2>5 DEF TableOK, Table
    <3> QED BY <3>1 DEF Entry
  <2> HIDE DEF size
  <2>7. SameProfile(dy, SetCodeSize(dy, i, size)) /\ SameProfile(dy, dy)
    BY <2>2, <2>3, <2>6, MetricsProfile DEF SameProfile
  <2>8. /\ dy' \in {dy, SetCodeSize(dy, i, size)}
        /\ phase = "dynamic" /\ phase' # "run" /\ UNCHANGED <<globals, program>>
    BY <1>2 DEF WriteDynamicNode, Static, size, tab, m, i
  <2>9. SameProfile(dy, dy')
    BY <2>7, <2>8
  <2> QED BY <2>8, <2>9, OtherStep DEF program
<1> QED BY <1>1, <1>2 DEF Fini

LEMMA NextRefines ==
  ASSUME Inv, CallersKnown, OneThread, PlainCalls, [Next]_vars
  PROVE  Refines
<1>1. CASE UNCHANGED vars
  <2>1. SameProfile(dy, dy') /\ UNCHANGED <<globals, program, phase>>
    BY <1>1 DEF vars, tables, SameProfile
  <2> QED BY <2>1, OtherStep DEF program
<1>2. CASE Fini
  BY <1>2, FiniRefines
<1>3. ASSUME NEW t \in Threads, Transfer(t) PROVE Refines
  <2>1. ASSUME NEW src \in Names \ {LibCall}, TailJump(t, src) PROVE FALSE
    BY <2>1 DEF TailJump, PlainCalls
  <2> QED BY <1>3, <2>1, ProcedureCallRefines, CallPltRefines, EnterMallocRefines,
             ReturnMallocRefines DEF Transfer
<1>4. ASSUME NEW t \in Threads, Measure(t) \/ Instrument(t) PROVE Refines
  BY <1>4, MeasureRefines, InstrumentRefines
<1> QED BY <1>1, <1>2, <1>3, <1>4 DEF Next, Terminated

LEMMA InitRefines ==
  ASSUME Init
  PROVE  Profile!Init /\ CallersKnown
<1>1. /\ dy = EmptyTable /\ dy.n = 0 /\ \A m \in Names : dy.index[m] = None
      /\ prevIndexforMalloc = None
      /\ pc = [t \in Threads |-> "run"] /\ frames = [t \in Threads |-> << >>]
  BY DEF Init, EmptyTable
<1>2. EdgesByName(dy) = {}
  BY <1>1 DEF EdgesByName
<1>3. BytesByName(dy) = [m \in Names |-> 0]
  BY <1>1 DEF BytesByName, Registered
<1>4. InStub = [t \in Threads |-> NoName] /\ Requests = [t \in Threads |-> << >>]
  BY <1>1 DEF InStub, Requests
<1>5. CallersKnown
  <2>1. \A t \in Threads : pc[t] = "run" /\ frames[t] = << >> /\ Requests[t] = << >>
    BY <1>1, <1>4
  <2>2. Len(<< >>) <= 1
    OBVIOUS
  <2> QED BY <1>1, <2>1, <2>2 DEF CallersKnown
<1> QED BY <1>2, <1>3, <1>4, <1>5 DEF Profile!Init

\* With one thread and plain calls the tables are a profile of the program,
\* for any names, routines, sites and sizes: do_call_plt finds in prevIndex the
\* function that entered the .plt, and Jit_Malloc_IA32 in prevIndexforMalloc
\* the one that asked for the bytes, whatever is registered meanwhile.
THEOREM ProfileIsExact ==
  ASSUME OneThread, PlainCalls
  PROVE  Spec => IsCallProfile
<1>1. Init => Profile!Init /\ CallersKnown
  BY InitRefines
<1>2. Inv /\ CallersKnown /\ [Next]_vars => CallersKnown' /\ [Profile!Next]_(Profile!vars)
  BY NextRefines DEF Refines
<1>3. Spec => Profile!Spec
  BY <1>1, <1>2, Invariance, PTL DEF Spec, Profile!Spec
<1> QED BY <1>3 DEF IsCallProfile

----------------------------------------------------------------------------
(* One thread: every node of the dynamic graph has a reason.               *)

\* Entry i has a reason to be a node.
Seen(tab, i) == \/ HasRun(tab.func[i]) \/ tab.func[i].avloops > 0
                \/ tab.func[i].name = LibCall

\* An operation on the entry i: no entry loses its reason, and if given, i has one.
Stays(tab, new) == /\ new.n = tab.n
                   /\ \A k \in Slots : Seen(tab, k) => Seen(new, k)

LEMMA PutSeen ==
  ASSUME NEW tab \in Table, NEW i \in Slots, NEW e, e.name = tab.func[i].name,
         HasRun(tab.func[i]) => HasRun(e),
         tab.func[i].avloops > 0 => e.avloops > 0
  PROVE  /\ Stays(tab, Put(tab, i, e))
         /\ HasRun(e) \/ e.avloops > 0 => Seen(Put(tab, i, e), i)
<1> DEFINE new == Put(tab, i, e)
<1>1. tab.func \in [Slots -> Entry]
  BY FieldsAreFunctions
<1>2. new.n = tab.n /\ new.func = [tab.func EXCEPT ![i] = e]
  BY DEF Put
<1> HIDE DEF new
<1>3. \A k \in Slots : new.func[k] = IF k = i THEN e ELSE tab.func[k]
  BY <1>1, <1>2
<1>4. \A k \in Slots : Seen(tab, k) => Seen(new, k)
  BY <1>3 DEF Seen
<1>5. HasRun(e) \/ e.avloops > 0 => Seen(new, i)
  BY <1>3 DEF Seen
<1> QED BY <1>2, <1>4, <1>5 DEF Stays, new

\* A lookup leaves the entries in use as they are, and the one it may add is
\* the one it finds.
LEMMA LookupSeen ==
  ASSUME NEW tab, TableOK(tab), NEW m \in Names
  PROVE  LET new == GetFunctionIndex(tab, m)
         IN  \A k \in 0 .. new.n - 1 :
                \/ k \in 0 .. tab.n - 1 /\ (Seen(tab, k) => Seen(new, k))
                \/ k = new.index[m]
<1> DEFINE new == GetFunctionIndex(tab, m)
<1>1. tab \in Table /\ tab.n \in 0 .. MAX_FUNCS /\ tab.index \in [Names -> Slots]
  BY FieldsAreFunctions DEF TableOK
<1>2. CASE Full(tab) \/ Registered(tab, m)
  BY <1>2 DEF GetFunctionIndex
<1>3. CASE ~ (Full(tab) \/ Registered(tab, m))
  <2>1. new.n = tab.n + 1 /\ new.index[m] = tab.n
    BY <1>1, <1>3 DEF GetFunctionIndex
  <2>2. \A k \in -1 .. tab.n - 1 : new.func[k] = tab.func[k]
    BY LookupRecords
  <2> HIDE DEF new
  <2>3. \A k \in 0 .. new.n - 1 : k = tab.n \/ (k \in 0 .. tab.n - 1 /\ k \in -1 .. tab.n - 1)
    BY <1>1, <2>1
  <2>4. \A k \in -1 .. tab.n - 1 : Seen(tab, k) => Seen(new, k)
    BY <2>2 DEF Seen
  <2>5. \A k \in 0 .. new.n - 1 :
                \/ k \in 0 .. tab.n - 1 /\ (Seen(tab, k) => Seen(new, k))
                \/ k = new.index[m]
    BY <2>1, <2>3, <2>4
  <2> QED BY <2>5 DEF new
<1> QED BY <1>2, <1>3

\* A call is activity of both functions.
LEMMA CallSeen ==
  ASSUME NEW tab \in Table, NEW i \in Slots, NEW j \in Slots
  PROVE  LET new == AddCall(tab, i, j)
         IN  Stays(tab, new) /\ Seen(new, i) /\ Seen(new, j)
<1> DEFINE e1 == [tab.func[i] EXCEPT !.calledFuncs = @ \cup {j}]
           mid == AddEdge(tab, i, j)
           e2 == [mid.func[j] EXCEPT !.nNoOfCalls = @ + 1]
<1>1. tab.func[i] \in Entry
  BY FieldsAreFunctions
<1>2. /\ e1.name = tab.func[i].name /\ HasRun(e1)
      /\ tab.func[i].avloops > 0 => e1.avloops > 0
  BY <1>1 DEF Entry, HasRun
<1>3. mid = Put(tab, i, e1)
  BY DEF AddEdge
<1> HIDE DEF e1
<1>4. Stays(tab, mid) /\ Seen(mid, i)
  BY <1>2, <1>3, PutSeen
<1>5. mid \in Table /\ mid.func[j] \in Entry
  <2>1. tab.func[i].calledFuncs \subseteq Slots
    BY <1>1 DEF Entry
  <2>2. e1 \in Entry
    BY <1>1, <2>1 DEF Entry, e1
  <2>3. mid.func = [tab.func EXCEPT ![i] = e1] /\ mid.n = tab.n /\ mid.index = tab.index
        /\ mid = [index |-> mid.index, n |-> mid.n, func |-> mid.func]
    BY <1>3 DEF Put
  <2> HIDE DEF mid
  <2>4. mid.func \in [Slots -> Entry]
    BY <2>2, <2>3, FieldsAreFunctions
  <2> QED BY <2>3, <2>4, FieldsAreFunctions DEF Table
<1>6. AddCall(tab, i, j) = Put(mid, j, e2)
  BY DEF AddCall, CountCall
<1> HIDE DEF mid
<1>7. /\ e2.name = mid.func[j].name /\ HasRun(e2)
      /\ mid.func[j].avloops > 0 => e2.avloops > 0
  BY <1>5 DEF Entry, HasRun
<1> HIDE DEF e2
<1>8. Stays(mid, Put(mid, j, e2)) /\ Seen(Put(mid, j, e2), j)
  BY <1>5, <1>7, PutSeen
<1> QED BY <1>4, <1>6, <1>8 DEF Stays

\* What the metrics show.
LEMMA MetricsSeen ==
  ASSUME NEW tab \in Table, NEW i \in Slots
  PROVE  /\ Stays(tab, AddBranch(tab, i)) /\ Seen(AddBranch(tab, i), i)
         /\ Stays(tab, AddAvloop(tab, i)) /\ Seen(AddAvloop(tab, i), i)
         /\ \A key \in Keys, len \in Nat : /\ Stays(tab, AddBlock(tab, i, key, len))
                                           /\ Seen(AddBlock(tab, i, key, len), i)
         /\ \A k \in Nat \ {0} : /\ Stays(tab, AddLoads(tab, i, k))
                                 /\ Seen(AddLoads(tab, i, k), i)
                                 /\ Stays(tab, SetStackSize(tab, i, k))
                                 /\ Seen(SetStackSize(tab, i, k), i)
         /\ \A k \in Nat : /\ Stays(tab, AddBytes(tab, i, k))
                           /\ Stays(tab, SetCodeSize(tab, i, k))
<1> DEFINE old == tab.func[i]
           More(e) == /\ e.name = old.name
                      /\ HasRun(old) => HasRun(e)
                      /\ old.avloops > 0 => e.avloops > 0
<1>1. old \in Entry
  BY FieldsAreFunctions
<1>2. ASSUME NEW e, More(e)
      PROVE  /\ Stays(tab, Put(tab, i, e))
             /\ HasRun(e) \/ e.avloops > 0 => Seen(Put(tab, i, e), i)
  BY <1>2, PutSeen
<1>3. Stays(tab, tab) /\ (HasRun(old) => Seen(tab, i))
  BY DEF Stays, Seen
<1> HIDE DEF old
<1>4. LET e == [old EXCEPT !.nBranches = @ + 1] IN More(e) /\ HasRun(e)
  BY <1>1 DEF Entry, HasRun
<1>5. LET e == [old EXCEPT !.avloops = @ + 1] IN More(e) /\ e.avloops > 0
  BY <1>1 DEF Entry, HasRun
<1>6. ASSUME NEW k \in Nat \ {0}
      PROVE  /\ LET e == [old EXCEPT !.loads = @ + k] IN More(e) /\ HasRun(e)
             /\ LET e == [old EXCEPT !.nStackSize = k] IN More(e) /\ HasRun(e)
  BY <1>1 DEF Entry, HasRun
<1>7. ASSUME NEW k \in Nat
      PROVE  /\ More([old EXCEPT !.memoryAlloc1 = @ + k])
             /\ More([old EXCEPT !.nCodeSize = k])
             /\ \A key \in Keys :
                   LET e == [old EXCEPT !.InstrExe = @ \cup {key}, !.nCodeSize = @ + k]
                   IN  More(e) /\ HasRun(e)
  BY <1>1 DEF Entry, HasRun
<1>8. \A key : key \in old.InstrExe => HasRun(old)
  BY DEF HasRun
<1>9. old.nStackSize # 0 => HasRun(old)
  BY <1>1 DEF HasRun, Entry
<1> HIDE DEF More
<1>10. /\ Stays(tab, AddBranch(tab, i)) /\ Seen(AddBranch(tab, i), i)
       /\ Stays(tab, AddAvloop(tab, i)) /\ Seen(AddAvloop(tab, i), i)
  BY <1>2, <1>4, <1>5 DEF AddBranch, AddAvloop, old
<1>11. ASSUME NEW k \in Nat \ {0}
       PROVE  /\ Stays(tab, AddLoads(tab, i, k)) /\ Seen(AddLoads(tab, i, k), i)
              /\ Stays(tab, SetStackSize(tab, i, k)) /\ Seen(SetStackSize(tab, i, k), i)
  BY <1>2, <1>3, <1>6, <1>9 DEF AddLoads, SetStackSize, old
<1>12. ASSUME NEW k \in Nat
       PROVE  Stays(tab, AddBytes(tab, i, k)) /\ Stays(tab, SetCodeSize(tab, i, k))
  BY <1>2, <1>7 DEF AddBytes, SetCodeSize, old
<1>13. ASSUME NEW key \in Keys, NEW len \in Nat
       PROVE  Stays(tab, AddBlock(tab, i, key, len)) /\ Seen(AddBlock(tab, i, key, len), i)
  BY <1>2, <1>3, <1>7, <1>8 DEF AddBlock, old
<1> QED BY <1>10, <1>11, <1>12, <1>13

\* All entries in use have a reason.
AllSeen == \A i \in 0 .. dy.n - 1 : Seen(dy, i)

LEMMA SeenWhenAll ==
  ASSUME AllSeen
  PROVE  NodesSeen
BY DEF AllSeen, NodesSeen, Seen

\* While the thread is not in the .plt no node waits for an edge.
LEMMA NoneWaits ==
  ASSUME NodesSeen, OneThread, NEW t \in Threads, phase = "run", pc[t] # "plt"
  PROVE  AllSeen
<1>1. \A u \in Threads : pc[u] # "plt"
  BY DEF OneThread
<1> QED BY <1>1 DEF NodesSeen, AllSeen, Seen

\* A function is looked up and its entry then shows something.
LEMMA FoundSeen ==
  ASSUME TableOK(dy), AllSeen, NEW m \in Names, NEW new,
         LET tab == GetFunctionIndex(dy, m)
         IN  /\ Stays(tab, new) /\ Seen(new, tab.index[m])
             /\ dy' = IF Full(tab) THEN tab ELSE new
             /\ Full(tab) => phase' = "exited"
  PROVE  NodesSeen'
<1> DEFINE tab == GetFunctionIndex(dy, m)
<1>1. TableOK(tab) /\ tab.n \in 0 .. MAX_FUNCS
  BY GetFunctionIndexOK, FieldsAreFunctions DEF TableOK
<1>2. CASE Full(tab)
  BY <1>2 DEF NodesSeen
<1>3. CASE ~ Full(tab)
  <2>1. \A k \in 0 .. tab.n - 1 : Seen(tab, k) \/ k = tab.index[m]
    BY LookupSeen DEF AllSeen
  <2>2. dy' = new /\ new.n = tab.n
    BY <1>3 DEF Stays
  <2>3. Stays(tab, new) /\ Seen(new, tab.index[m])
    OBVIOUS
  <2> HIDE DEF tab
  <2>4. 0 .. tab.n - 1 \subseteq Slots
    BY <1>1, MaxFuncsAssumption DEF Slots
  <2>5. \A k \in 0 .. new.n - 1 : Seen(new, k)
    BY <2>1, <2>2, <2>3, <2>4 DEF Stays
  <2> QED BY <2>2, <2>5 DEF NodesSeen, Seen
<1> QED BY <1>2, <1>3

\* The table changes as to the counts only, or not at all.
LEMMA KeptSeen ==
  ASSUME TableOK(dy), NodesSeen, Stays(dy, dy'), UNCHANGED prevIndex,
         phase' # "exited" => phase # "exited",
         \A t \in Threads : pc[t] = "plt" => pc'[t] = "plt"
  PROVE  NodesSeen'
<1>1. dy.n \in 0 .. MAX_FUNCS /\ dy'.n = dy.n
  BY FieldsAreFunctions DEF TableOK, Stays
<1>2. 0 .. dy.n - 1 \subseteq Slots
  BY <1>1, MaxFuncsAssumption DEF Slots
<1>3. ASSUME phase' # "exited", NEW i \in 0 .. dy.n - 1
      PROVE  Seen(dy', i) \/ (i = prevIndex' /\ \E t \in Threads : pc'[t] = "plt")
  <2>1. Seen(dy, i) \/ (i = prevIndex /\ \E t \in Threads : pc[t] = "plt")
    BY <1>3 DEF NodesSeen, Seen
  <2> QED BY <1>2, <2>1 DEF Stays
<1> QED BY <1>1, <1>3 DEF NodesSeen, Seen

LEMMA StaysSame == ASSUME NEW tab PROVE Stays(tab, tab)
BY DEF Stays

LEMMA ProcedureCallSeen ==
  ASSUME Inv, NodesSeen, OneThread, NEW t \in Threads,
         NEW src \in Names \ {LibCall}, NEW tgt \in Names, ProcedureCall(t, src, tgt)
  PROVE  NodesSeen'
<1> DEFINE tab1 == GetFunctionIndex(dy, src)
           tab == GetFunctionIndex(tab1, tgt)
           s == tab.index[src]
           j == tab.index[tgt]
<1>1. phase = "run" /\ pc[t] = "run" /\ TableOK(dy) /\ TypeOK
  BY DEF ProcedureCall, Runs, Inv
<1>2. AllSeen
  BY <1>1, NoneWaits
<1>3. CASE Full(tab)
  <2>1. phase' = "exited"
    BY <1>3 DEF ProcedureCall, Dynamic
  <2> QED BY <2>1 DEF NodesSeen
<1>4. CASE ~ Full(tab)
  <2>1. TableOK(tab) /\ Registered(tab, src) /\ TableOK(tab1)
    BY <1>1, <1>4, BothFound, GetFunctionIndexOK
  <2>2. /\ IF tgt = LibCall THEN prevIndex' = s /\ dy' = tab
           ELSE dy' = AddCall(tab, s, j)
        /\ tgt = LibCall => pc' = [pc EXCEPT ![t] = "plt"]
    <3>1. IF tgt = LibCall THEN prevIndex' = s /\ dy' = tab ELSE dy' = AddCall(tab, s, j)
      BY <1>4 DEF ProcedureCall, Dynamic
    <3>2. ASSUME tgt = LibCall PROVE pc' = [pc EXCEPT ![t] = "plt"]
      <4>1. pc' = [pc EXCEPT ![t] = CASE tgt = LibCall -> "plt"
                                      [] tgt = Malloc -> "malloc"
                                      [] OTHER -> "run"]
        BY <1>4 DEF ProcedureCall, Goto
      <4>2. (CASE tgt = LibCall -> "plt" [] tgt = Malloc -> "malloc"
               [] OTHER -> "run") = "plt"
        BY <3>2, NamesAssumption
      <4> QED BY <4>1, <4>2
    <3> QED BY <3>1, <3>2
  <2>3. \A k \in 0 .. tab.n - 1 :
           Seen(tab, k) \/ k = s \/ k = j
    <3>1. ASSUME NEW k \in 0 .. tab.n - 1, k # j PROVE Seen(tab, k) \/ k = s
      <4>1. k \in 0 .. tab1.n - 1 /\ (Seen(tab1, k) => Seen(tab, k))
        BY <2>1, <3>1, LookupSeen
      <4>2. \/ k \in 0 .. dy.n - 1 /\ (Seen(dy, k) => Seen(tab1, k))
            \/ k = tab1.index[src]
        BY <1>1, <4>1, LookupSeen
      <4>3. CASE k = tab1.index[src]
        <5>1. k # None
          BY <3>1, <2>1, FieldsAreFunctions DEF None, TableOK
        <5>2. SameProfile(tab1, tab)
          BY <2>1, LookupProfile
        <5> QED BY <4>3, <5>1, <5>2 DEF SameProfile, Registered
      <4>4. CASE k \in 0 .. dy.n - 1 /\ (Seen(dy, k) => Seen(tab1, k))
        BY <1>2, <4>1, <4>4 DEF AllSeen
      <4> QED BY <4>2, <4>3, <4>4
    <3> QED BY <3>1
  <2>4. /\ tab \in Table /\ s \in Slots /\ j \in Slots /\ tab.n \in 0 .. MAX_FUNCS
    BY <2>1, IndexIsSlot, FieldsAreFunctions DEF TableOK
  <2>5. ~ Full(tab) /\ tab.index[tgt] \in 0 .. tab.n - 1
    BY <1>4, <2>1, GetFunctionIndexOK
  <2> HIDE DEF tab
  <2>6. CASE tgt = LibCall
    <3>1. tab.func[j].name = LibCall
      <4>1. Registered(tab, tgt)
        BY <2>4, <2>5 DEF Registered, None
      <4> QED BY <2>1, <2>5, <2>6, <4>1, NameOfIndex
    <3>2. pc'[t] = "plt"
      BY <1>1, <2>2, <2>6 DEF TypeOK
    <3>3. \A k \in 0 .. tab.n - 1 : Seen(tab, k) \/ k = s
      BY <2>3, <3>1 DEF Seen
    <3> QED BY <2>2, <2>6, <3>2, <3>3 DEF NodesSeen, Seen
  <2>7. CASE tgt # LibCall
    <3>1. Stays(tab, dy') /\ Seen(dy', s) /\ Seen(dy', j)
      BY <2>2, <2>4, <2>7, CallSeen
    <3>2. 0 .. tab.n - 1 \subseteq Slots
      BY <2>4, MaxFuncsAssumption DEF Slots
    <3>3. \A k \in 0 .. dy'.n - 1 : Seen(dy', k)
      BY <2>3, <3>1, <3>2 DEF Stays
    <3> QED BY <3>3 DEF NodesSeen, Seen
  <2> QED BY <2>6, <2>7
<1> QED BY <1>3, <1>4

LEMMA CallPltSeen ==
  ASSUME Inv, NodesSeen, NEW t \in Threads,
         NEW tgt \in Names \ {LibCall}, CallPlt(t, tgt)
  PROVE  NodesSeen'
<1> DEFINE tab == GetFunctionIndex(dy, tgt)
           j == tab.index[tgt]
<1>1. phase = "run" /\ TableOK(dy) /\ prevIndex \in Slots
  BY DEF CallPlt, Inv, TypeOK
<1>2. CASE Full(tab)
  <2>1. phase' = "exited"
    BY <1>2 DEF CallPlt, Dynamic
  <2> QED BY <2>1 DEF NodesSeen
<1>3. CASE ~ Full(tab)
  <2>1. dy' = AddCall(tab, prevIndex, j)
    BY <1>3 DEF CallPlt, Dynamic
  <2>2. tab \in Table /\ j \in Slots /\ tab.n \in 0 .. MAX_FUNCS
    <3>1. TableOK(tab)
      BY <1>1, GetFunctionIndexOK
    <3> HIDE DEF tab
    <3> QED BY <3>1, IndexIsSlot, FieldsAreFunctions
  <2>3. \A k \in 0 .. tab.n - 1 : Seen(tab, k) \/ k = prevIndex \/ k = j
    <3>1. \A k \in 0 .. dy.n - 1 : Seen(dy, k) \/ k = prevIndex
      BY <1>1 DEF NodesSeen, Seen
    <3> QED BY <1>1, <3>1, LookupSeen
  <2> HIDE DEF tab
  <2>4. Stays(tab, dy') /\ Seen(dy', prevIndex) /\ Seen(dy', j)
    BY <1>1, <2>1, <2>2, CallSeen
  <2>5. 0 .. tab.n - 1 \subseteq Slots
    BY <2>2, MaxFuncsAssumption DEF Slots
  <2>6. \A k \in 0 .. dy'.n - 1 : Seen(dy', k)
    BY <2>3, <2>4, <2>5 DEF Stays
  <2> QED BY <2>6 DEF NodesSeen, Seen
<1> QED BY <1>2, <1>3

LEMMA TransferSeen ==
  ASSUME Inv, NodesSeen, OneThread, NEW t \in Threads, Transfer(t)
  PROVE  NodesSeen'
<1>1. TableOK(dy) /\ dy \in Table /\ TypeOK
  BY DEF Inv, TypeOK
<1>2. ASSUME NEW src \in Names \ {LibCall}, TailJump(t, src) PROVE NodesSeen'
  <2>1. /\ UNCHANGED <<dy, prevIndex, phase>> /\ pc' = [pc EXCEPT ![t] = "plt"]
    BY <1>2 DEF TailJump, Goto, tables, globals
  <2>2. Stays(dy, dy') /\ \A u \in Threads : pc[u] = "plt" => pc'[u] = "plt"
    BY <1>1, <2>1, StaysSame DEF TypeOK
  <2> QED BY <1>1, <2>1, <2>2, KeptSeen
<1>3. ASSUME EnterMalloc(t) PROVE NodesSeen'
  <2>1. /\ UNCHANGED <<dy, prevIndex, phase>>
        /\ pc[t] = "malloc" /\ pc' = [pc EXCEPT ![t] = "run"]
    BY <1>3 DEF EnterMalloc, Goto, tables, globals
  <2>2. Stays(dy, dy') /\ \A u \in Threads : pc[u] = "plt" => pc'[u] = "plt"
    BY <1>1, <2>1, StaysSame DEF TypeOK
  <2> QED BY <1>1, <2>1, <2>2, KeptSeen
<1>4. ASSUME NEW size \in Sizes, ReturnMalloc(t, size) PROVE NodesSeen'
  <2>1. size \in Nat /\ prevIndexforMalloc \in Slots
    BY <1>1, BoundsAssumption DEF TypeOK
  <2>2. /\ dy' = AddBytes(dy, prevIndexforMalloc, size)
        /\ UNCHANGED <<prevIndex, pc>> /\ phase = "run"
    BY <1>4 DEF ReturnMalloc, Dynamic, Runs
  <2>3. Stays(dy, dy')
    BY <1>1, <2>1, <2>2, MetricsSeen
  <2> QED BY <1>1, <2>2, <2>3, KeptSeen
<1> QED BY <1>2, <1>3, <1>4, ProcedureCallSeen, CallPltSeen DEF Transfer

LEMMA MeasureSeen ==
  ASSUME Inv, NodesSeen, OneThread, FramesShow, NEW t \in Threads, Measure(t)
  PROVE  NodesSeen'
<1>1. TableOK(dy)
  BY DEF Inv
<1>2. ASSUME NEW r \in Routines, RtnStart(t, r) PROVE NodesSeen'
  <2>1. UNCHANGED <<dy, prevIndex, phase, pc>>
    BY <1>2 DEF RtnStart, tables, globals, program
  <2> QED BY <1>1, <2>1, StaysSame, KeptSeen
<1>3. ASSUME NEW s \in Sites,
             \/ CountInstr(t, s)
             \/ CountBranchInstr(t, s)
             \/ \E off \in {0, 12} : load(t, s, off, 8)
             \/ StackSizeCount(t, s, SiteLen[s])
      PROVE  NodesSeen'
  <2> DEFINE tab == GetFunctionIndex(dy, SiteName[s])
             i == tab.index[SiteName[s]]
  <2>1. /\ tab \in Table /\ i \in Slots /\ SiteName[s] \in Names
        /\ SiteKey[s] \in Keys /\ SiteLen[s] \in Nat \ {0}
    <3>1. TableOK(tab) /\ SiteName[s] \in Names
      BY <1>1, GetFunctionIndexOK, SitesAssumption
    <3> HIDE DEF tab
    <3>2. SiteLen[s] \in Nat /\ SiteLen[s] > 0
      BY SitesAssumption DEF FramesShow
    <3> QED BY <3>1, <3>2, IndexIsSlot, SitesAssumption
  <2>2. AllSeen
    <3>1. phase = "run" /\ pc[t] = "run"
      BY <1>3 DEF CountInstr, CountBranchInstr, load, StackSizeCount, AtSite, Runs
    <3> QED BY <3>1, NoneWaits
  <2>3. ASSUME NEW new, Stays(tab, new), Seen(new, i),
               dy' = (IF Full(tab) THEN tab ELSE new),
               phase' = IF Full(dy') THEN "exited" ELSE phase
        PROVE  NodesSeen'
    <3>1. Full(tab) => phase' = "exited"
      BY <2>3
    <3> QED BY <1>1, <2>1, <2>2, <2>3, <3>1, FoundSeen
  <2> HIDE DEF tab
  <2>4. /\ Stays(tab, AddBranch(tab, i)) /\ Seen(AddBranch(tab, i), i)
        /\ Stays(tab, AddBlock(tab, i, SiteKey[s], SiteLen[s]))
        /\ Seen(AddBlock(tab, i, SiteKey[s], SiteLen[s]), i)
        /\ Stays(tab, SetStackSize(tab, i, SiteLen[s]))
        /\ Seen(SetStackSize(tab, i, SiteLen[s]), i)
        /\ \A k \in Nat \ {0} : /\ Stays(tab, AddLoads(tab, i, k))
                                /\ Seen(AddLoads(tab, i, k), i)
    BY <2>1, MetricsSeen
  <2>5. CASE CountInstr(t, s)
    BY <2>3, <2>4, <2>5 DEF CountInstr, AtSite, Dynamic, tab
  <2>6. CASE CountBranchInstr(t, s)
    BY <2>3, <2>4, <2>6 DEF CountBranchInstr, AtSite, Dynamic, tab
  <2>7. CASE StackSizeCount(t, s, SiteLen[s])
    BY <2>3, <2>4, <2>7 DEF StackSizeCount, AtSite, Dynamic, tab
  <2>8. ASSUME NEW off \in {0, 12}, load(t, s, off, 8) PROVE NodesSeen'
    <3>1. Chunks(off, 8) \in Nat \ {0}
      BY <2>8 DEF Chunks
    <3> QED BY <2>3, <2>4, <2>8, <3>1 DEF load, AtSite, Dynamic, tab
  <2> QED BY <1>3, <2>5, <2>6, <2>7, <2>8
<1> QED BY <1>2, <1>3 DEF Measure

LEMMA InstrumentSeen ==
  ASSUME Inv, NodesSeen, OneThread, NEW t \in Threads, Instrument(t)
  PROVE  NodesSeen'
<1>1. TableOK(dy) /\ TypeOK
  BY DEF Inv
<1>2. ASSUME (\E r \in Routines : OpenRoutine(t, r)) \/ CloseRoutine(t)
      PROVE  NodesSeen'
  <2>1. /\ UNCHANGED <<dy, prevIndex>> /\ phase = "run" /\ pc[t] # "plt"
        /\ \E label \in {"run", "instrument"} : pc' = [pc EXCEPT ![t] = label]
    BY <1>2 DEF OpenRoutine, CloseRoutine, Runs, Goto, globals
  <2>2. Stays(dy, dy') /\ \A u \in Threads : pc[u] = "plt" => pc'[u] = "plt"
    BY <1>1, <2>1, StaysSame DEF TypeOK
  <2> QED BY <1>1, <2>1, <2>2, KeptSeen
<1>3. ASSUME RoutineInstr(t) PROVE NodesSeen'
  <2> DEFINE m == RtnName[rtn]
             tab == GetFunctionIndex(dy, m)
             new == AddAvloop(tab, tab.index[m])
  <2>1. m \in Names /\ phase = "run" /\ pc[t] = "instrument"
    BY <1>3, RoutinesAssumption DEF Inv, OneInRoutine, RoutineInstr
  <2>2. \/ UNCHANGED dy
        \/ /\ dy' = IF Full(tab) THEN tab ELSE new
           /\ Full(dy') => phase' = "exited"
    BY <1>3 DEF RoutineInstr, DynamicInstr
  <2>3. UNCHANGED <<prevIndex, pc>>
    BY <1>3 DEF RoutineInstr, globals, program
  <2>4. CASE UNCHANGED dy
    BY <1>1, <2>1, <2>3, <2>4, StaysSame, KeptSeen
  <2>5. CASE /\ dy' = IF Full(tab) THEN tab ELSE new
             /\ Full(dy') => phase' = "exited"
    <3>1. AllSeen
      BY <2>1, NoneWaits
    <3>2. TableOK(tab)
      BY <1>1, <2>1, GetFunctionIndexOK
    <3>3. Stays(tab, new) /\ Seen(new, tab.index[m])
      <4> HIDE DEF tab, m
      <4> QED BY <2>1, <3>2, IndexIsSlot, MetricsSeen
    <3>4. Full(tab) => phase' = "exited"
      BY <2>5
    <3> HIDE DEF m, new
    <3> QED BY <1>1, <2>1, <2>5, <3>1, <3>3, <3>4, FoundSeen
  <2> QED BY <2>2, <2>4, <2>5
<1> QED BY <1>2, <1>3 DEF Instrument

LEMMA FiniSeen ==
  ASSUME Inv, NodesSeen, Fini
  PROVE  NodesSeen'
<1>1. TableOK(dy)
  BY DEF Inv
<1>2. ASSUME WriteStatic \/ WriteDynamicEdges PROVE NodesSeen'
  <2>1. UNCHANGED <<dy, prevIndex, pc>> /\ phase # "exited"
    BY <1>2 DEF WriteStatic, WriteDynamicEdges, tables, globals, program
  <2> QED BY <1>1, <2>1, StaysSame, KeptSeen
<1>3. ASSUME WriteDynamicNode PROVE NodesSeen'
  <2> DEFINE i == dynamicXML.nodes
             m == dy.func[i].name
             tab == GetFunctionIndex(st, m)
             size == tab.func[tab.index[m]].nCodeSize
  <2>1. /\ TypeOK /\ TableOK(st) /\ ~ Full(dy) /\ i \in Nat /\ i < dy.n
    BY <1>3 DEF Inv, RoomLeft, WriteDynamicNode, TypeOK, File
  <2>2. dy \in Table /\ dy.n \in 0 .. MAX_FUNCS
    BY <1>1 DEF TableOK, Table
  <2> HIDE DEF i
  <2>3. i \in 0 .. dy.n - 1 /\ i \in Slots
    BY <2>1, <2>2, MaxFuncsAssumption DEF Slots
  <2>4. m \in Names
    BY <1>1, <2>1, <2>3 DEF TableOK, NumberingOK
  <2> HIDE DEF m
  <2>5. TableOK(tab)
    BY <2>1, <2>4, GetFunctionIndexOK
  <2> HIDE DEF tab
  <2>6. size \in Nat
    <3>1. tab.index[m] \in Slots /\ tab.func \in [Slots -> Entry]
      BY <2>4, <2>5 DEF TableOK, Table
    <3> QED BY <3>1 DEF Entry
  <2> HIDE DEF size
  <2>7. Stays(dy, SetCodeSize(dy, i, size)) /\ Stays(dy, dy)
    BY <2>2, <2>3, <2>6, MetricsSeen, StaysSame
  <2>8. /\ dy' \in {dy, SetCodeSize(dy, i, size)}
        /\ phase = "dynamic" /\ UNCHANGED <<prevIndex, pc>>
    BY <1>3 DEF WriteDynamicNode, size, tab, m, i, globals, program
  <2> QED BY <1>1, <2>7, <2>8, KeptSeen
<1> QED BY <1>2, <1>3 DEF Fini

\* With one thread, a node of the dynamic graph that shows nothing has one of
\* the causes NodesAccounted names, for every program: the callbacks enter no
\* other function that they do not also measure.  What the manual says, that
\* each node was called, does not follow.
THEOREM NodesHaveReason ==
  ASSUME OneThread, FramesShow
  PROVE  Spec => []NodesAccounted
<1>1. Init => NodesSeen
  BY DEF Init, EmptyTable, NodesSeen
<1>2. ASSUME Inv, NodesSeen, [Next]_vars PROVE NodesSeen'
  <2>1. CASE UNCHANGED vars
    <3>1. UNCHANGED <<dy, prevIndex, pc, phase>> /\ TableOK(dy)
      BY <1>2, <2>1 DEF vars, tables, globals, program, Inv
    <3> QED BY <1>2, <3>1, StaysSame, KeptSeen
  <2>2. ASSUME NEW t \in Threads, Transfer(t) \/ Measure(t) \/ Instrument(t)
        PROVE  NodesSeen'
    BY <1>2, <2>2, TransferSeen, MeasureSeen, InstrumentSeen
  <2> QED BY <1>2, <2>1, <2>2, FiniSeen DEF Next, Terminated
<1>3. NodesSeen => NodesAccounted
  BY DEF NodesSeen, NodesAccounted
<1> QED BY <1>1, <1>2, <1>3, Invariance, PTL DEF Spec

=============================================================================
