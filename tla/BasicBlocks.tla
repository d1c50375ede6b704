---------------------------- MODULE BasicBlocks ----------------------------
(***************************************************************************)
(* The control flow graphs: what Routine, BuildBasicBlocks and             *)
(* WrtiteBasicBlockInfo of src/pintool/calltrace.cpp do with the           *)
(* instructions of each routine.                                           *)
(*                                                                         *)
(* The address of an instruction is its position, in every routine: the    *)
(* images a program unloads leave their addresses to later ones, and this  *)
(* is where the one list that is never cleared, listBranchTargets, could   *)
(* do harm.  The routines are arbitrary.                                   *)
(***************************************************************************)
EXTENDS Integers, Sequences, FiniteSets

CONSTANTS MaxLen,       \* the longest routine
          MaxRoutines   \* the number of routines instrumented

ASSUME LengthsAssumption == MaxLen \in Nat \ {0} /\ MaxRoutines \in Nat

NoTarget == 0       \* not a direct branch or call
Outside == -1       \* the target is in another routine
Null == 0           \* no block

\* The direct target of an instruction, and INS_HasFallThrough.
Instr(n) == [target : 1..n \cup {NoTarget, Outside}, fall : BOOLEAN]
Code == UNION {[1..n -> Instr(n)] : n \in 1..MaxLen}

VARIABLES
    code,                   \* the routine in hand
    phase, pos,             \* the loop control is in, its iterator
    bLeader,                \* Routine's local variable
    leaders,                \* the instructions whose bLeader is set
    listBranchTargets,
    listBasicBlocks,        \* the blocks, in order
    listBasicBlockswithBranchTargets,   \* indices of blocks
    dot,                    \* the edges of the file written last
    routines                \* how many routines have been opened

lists == <<listBranchTargets, listBasicBlocks, listBasicBlockswithBranchTargets>>
vars == <<code, phase, pos, bLeader, leaders, lists, dot, routines>>

Init ==
    /\ code = <<>> /\ phase = "idle" /\ pos = 0
    /\ bLeader = TRUE /\ leaders = {}
    /\ listBranchTargets = {}
    /\ listBasicBlocks = <<>>
    /\ listBasicBlockswithBranchTargets = {}
    /\ dot = {}
    /\ routines = 0

Open ==
    /\ phase = "idle" /\ routines < MaxRoutines
    /\ routines' = routines + 1
    /\ code' \in Code
    /\ bLeader' = TRUE
    /\ phase' = "scan" /\ pos' = 1
    /\ UNCHANGED <<leaders, lists, dot>>

-----------------------------------------------------------------------------
\* Routine's loop over the instructions

Internal(i) == code[i].target \in 1..Len(code)

\* Is the next instruction a leader, after instruction i?
LeaderAfter_Never(i) == FALSE
LeaderAfter(i) == Internal(i)

Scan ==
    /\ phase = "scan" /\ pos <= Len(code)
    /\ leaders' = IF bLeader THEN leaders \cup {pos} ELSE leaders
    /\ bLeader' = LeaderAfter(pos)
    /\ listBranchTargets' = IF Internal(pos)
                            THEN listBranchTargets \cup {code[pos].target}
                            ELSE listBranchTargets
    /\ pos' = pos + 1
    /\ UNCHANGED <<code, phase, listBasicBlocks,
                   listBasicBlockswithBranchTargets, dot, routines>>

Scanned ==
    /\ phase = "scan" /\ pos > Len(code)
    /\ phase' = "build" /\ pos' = 1
    /\ UNCHANGED <<code, bLeader, leaders, lists, dot, routines>>

-----------------------------------------------------------------------------
\* BuildBasicBlocks

IsBranchTarget(i) == i \in listBranchTargets

\* Does the block before fall through into the one that starts at i?
FallsInto_Always(i) == i > 1
FallsInto(i) == i > 1 /\ code[i - 1].fall

NewBlock(i) == [start |-> i, last |-> i, left |-> Null, right |-> Null]
Build ==
    LET n == Len(listBasicBlocks)
        linked == IF FallsInto(pos)
                  THEN [listBasicBlocks EXCEPT ![n].right = n + 1]
                  ELSE listBasicBlocks
    IN
    /\ phase = "build" /\ pos <= Len(code)
    /\ IF pos \in leaders \/ IsBranchTarget(pos)
       THEN /\ listBasicBlocks' = Append(linked, NewBlock(pos))
            /\ listBasicBlockswithBranchTargets' =
                  IF IsBranchTarget(pos)
                  THEN listBasicBlockswithBranchTargets \cup {n + 1}
                  ELSE listBasicBlockswithBranchTargets
       ELSE /\ listBasicBlocks' = [listBasicBlocks EXCEPT ![n].last = pos]
            /\ UNCHANGED listBasicBlockswithBranchTargets
    /\ pos' = pos + 1
    /\ UNCHANGED <<code, phase, bLeader, leaders, listBranchTargets, dot, routines>>

Built ==
    /\ phase = "build" /\ pos > Len(code)
    /\ phase' = "link" /\ pos' = 1
    /\ UNCHANGED <<code, bLeader, leaders, lists, dot, routines>>

\* The block that starts at the target, Null if there is none.
StartingAt(t) ==
    {b \in listBasicBlockswithBranchTargets : listBasicBlocks[b].start = t}
GetBBStartingWithAddr_Addr(t) == IF StartingAt(t) = {} THEN Null ELSE t
GetBBStartingWithAddr(t) ==
    IF StartingAt(t) = {} THEN Null ELSE CHOOSE b \in StartingAt(t) : TRUE

Link ==
    LET tail == code[listBasicBlocks[pos].last] IN
    /\ phase = "link" /\ pos <= Len(listBasicBlocks)
    /\ listBasicBlocks' = IF tail.target = NoTarget THEN listBasicBlocks
                          ELSE [listBasicBlocks EXCEPT
                                  ![pos].left = GetBBStartingWithAddr(tail.target)]
    /\ pos' = pos + 1
    /\ UNCHANGED <<code, phase, bLeader, leaders, listBranchTargets,
                   listBasicBlockswithBranchTargets, dot, routines>>

-----------------------------------------------------------------------------
\* WrtiteBasicBlockInfo.  A block with two successors shows a port T (g0) and
\* a port F (g1); one with a single successor has a port without a label.

Ports(k) ==
    LET b == listBasicBlocks[k]
        labelled == b.left # Null /\ b.right # Null
        edge(to, label) == {[from |-> k, to |-> to,
                             label |-> IF labelled THEN label ELSE "-"]}
    IN  (IF b.left = Null THEN {} ELSE edge(b.left, "F"))
            \cup (IF b.right = Null THEN {} ELSE edge(b.right, "T"))

Write ==
    /\ phase = "link" /\ pos > Len(listBasicBlocks)
    /\ dot' = UNION {Ports(k) : k \in 1..Len(listBasicBlocks)}
    /\ phase' = "written"
    /\ UNCHANGED <<code, pos, bLeader, leaders, lists, routines>>

\* ClearBBDataSturcts: every list but listBranchTargets.
Clear ==
    /\ phase = "written"
    /\ listBasicBlocks' = <<>> /\ listBasicBlockswithBranchTargets' = {}
    /\ leaders' = {} /\ code' = <<>> /\ dot' = {}
    /\ phase' = "idle" /\ pos' = 0
    /\ UNCHANGED <<bLeader, listBranchTargets, routines>>

Terminated == phase = "idle" /\ routines = MaxRoutines /\ UNCHANGED vars

Next == Open \/ Scan \/ Scanned \/ Build \/ Built \/ Link \/ Write \/ Clear
            \/ Terminated
Spec == Init /\ [][Next]_vars

-----------------------------------------------------------------------------
\* Properties

Blocks == 1..Len(listBasicBlocks)
BasicBlock == [start : 1..MaxLen, last : 1..MaxLen,
               left : {Null} \cup Blocks, right : {Null} \cup Blocks]

\* Every variable has its type; the links of a block lead to blocks.
BlocksTypeOK ==
    /\ code \in Code \cup {<<>>}
    /\ phase \in {"idle", "scan", "build", "link", "written"}
    /\ pos \in 0..MaxLen + 1
    /\ bLeader \in BOOLEAN
    /\ leaders \subseteq 1..MaxLen
    /\ listBranchTargets \subseteq 1..MaxLen
    /\ listBasicBlocks \in Seq(BasicBlock)
    /\ listBasicBlockswithBranchTargets \subseteq Blocks
    /\ dot \subseteq [from : Blocks, to : Blocks, label : {"T", "F", "-"}]
    /\ routines \in 0..MaxRoutines

\* Where control can go after instruction i, inside the routine.
Successors(i) ==
    (IF code[i].fall /\ i < Len(code) THEN {i + 1} ELSE {})
        \cup (IF Internal(i) THEN {code[i].target} ELSE {})

\* The blocks cut the routine up: each instruction is in one block, and no
\* branch of the routine enters a block but at its first instruction or
\* leaves it but at its last, whatever earlier routines left in
\* listBranchTargets.
BlocksCutRoutine ==
    phase = "written" =>
        /\ listBasicBlocks[1].start = 1
        /\ listBasicBlocks[Len(listBasicBlocks)].last = Len(code)
        /\ \A k \in Blocks \ {1} :
              listBasicBlocks[k].start = listBasicBlocks[k - 1].last + 1
        /\ \A i \in 1..Len(code) : Internal(i) =>
              /\ \E k \in Blocks : listBasicBlocks[k].start = code[i].target
              /\ \E k \in Blocks : listBasicBlocks[k].last = i

\* The file shows the routine's control flow: an edge leads from one block
\* to another exactly when control can go from the end of the first to the
\* start of the second.
FlowShown ==
    phase = "written" =>
        {<<e.from, e.to>> : e \in dot} =
            {p \in Blocks \X Blocks :
                listBasicBlocks[p[2]].start
                    \in Successors(listBasicBlocks[p[1]].last)}
=============================================================================
