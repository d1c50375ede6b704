------------------------- MODULE BasicBlocks_proofs -------------------------
(***************************************************************************)
(* The control flow graphs of any number of routines, of any length.       *)
(*                                                                         *)
(* BlocksInv is inductive.  It says for each of the three loops what it    *)
(* has done with the instructions, or the blocks, before its iterator; the *)
(* properties of BasicBlocks are what it says when the loops have ended.   *)
(***************************************************************************)
EXTENDS BasicBlocks, TLAPS

-----------------------------------------------------------------------------
(* The inductive invariant.                                                *)

\* Between two routines there is nothing but listBranchTargets.
IdleOK ==
    IF phase = "idle"
    THEN code = <<>> /\ pos = 0 /\ leaders = {} /\ listBasicBlocks = <<>>
    ELSE /\ code \in Code /\ pos \in Nat \ {0}
         /\ phase \in {"scan", "build"} => pos <= Len(code) + 1
         /\ phase = "link" => pos <= Len(listBasicBlocks) + 1

\* How far Routine's loop, and that of BuildBasicBlocks, have come
ScannedTo == IF phase = "scan" THEN pos - 1 ELSE Len(code)
CutTo == IF phase = "scan" THEN 0 ELSE IF phase = "build" THEN pos - 1 ELSE Len(code)

IsLeader(i) == i = 1 \/ Internal(i - 1)

\* The instructions whose bLeader is set are those behind a branch, and the
\* targets are in the list, whatever else is in it.
ScanOK ==
    phase # "idle" =>
        /\ leaders = {i \in 1..ScannedTo : IsLeader(i)}
        /\ \A i \in 1..ScannedTo : Internal(i) => code[i].target \in listBranchTargets
        /\ phase = "scan" => bLeader = IsLeader(pos)

\* The blocks follow each other without a gap from the first instruction on;
\* every leader and every target has one.
CutOK ==
    /\ Len(listBasicBlocks) = 0 <=> CutTo = 0
    /\ CutTo # 0 => /\ listBasicBlocks[1].start = 1
                    /\ listBasicBlocks[Len(listBasicBlocks)].last = CutTo
    /\ \A k \in Blocks : /\ k <= listBasicBlocks[k].start
                         /\ listBasicBlocks[k].start <= listBasicBlocks[k].last
                         /\ listBasicBlocks[k].last <= CutTo
    /\ \A k \in Blocks \ {1} :
          listBasicBlocks[k].start = listBasicBlocks[k - 1].last + 1
    /\ \A k, l \in Blocks : k < l => listBasicBlocks[k].last < listBasicBlocks[l].start
    /\ \A i \in 1..CutTo : IsLeader(i) \/ IsBranchTarget(i) =>
          \E k \in Blocks : listBasicBlocks[k].start = i
    /\ listBasicBlockswithBranchTargets =
          {k \in Blocks : IsBranchTarget(listBasicBlocks[k].start)}

\* A block that control falls out of has the next one on its right.
RightOK ==
    \A k \in Blocks :
        listBasicBlocks[k].right =
            IF k < Len(listBasicBlocks) /\ code[listBasicBlocks[k].last].fall
            THEN k + 1 ELSE Null

\* A block has the one that its branch enters on its left, as soon as the last
\* loop has seen it.
Linked(k) == phase = "written" \/ (phase = "link" /\ k < pos)
LeftOK ==
    \A k \in Blocks :
        LET tail == listBasicBlocks[k].last
            left == listBasicBlocks[k].left
        IN  IF Linked(k) /\ Internal(tail)
            THEN left \in Blocks /\ listBasicBlocks[left].start = code[tail].target
            ELSE left = Null

DotOK == dot = IF phase = "written"
               THEN UNION {Ports(k) : k \in Blocks} ELSE {}

BlocksInv ==
    /\ BlocksTypeOK
    /\ IdleOK /\ ScanOK
    /\ CutOK /\ RightOK /\ LeftOK
    /\ DotOK

-----------------------------------------------------------------------------
(* A routine, and the blocks.                                              *)

LEMMA CodeProperties ==
  ASSUME NEW c \in Code
  PROVE  /\ c # <<>> /\ Len(c) \in 1..MaxLen
         /\ \A i \in 1..Len(c) : c[i] \in Instr(Len(c))
<1>1. PICK n \in 1..MaxLen : c \in [1..n -> Instr(n)]
  BY DEF Code
<1>2. n \in Nat /\ c \in Seq(Instr(n)) /\ Len(c) = n
  BY <1>1, LengthsAssumption
<1>3. c # <<>>
  BY <1>2
<1> QED BY <1>1, <1>2, <1>3

LEMMA Routine ==
  ASSUME BlocksInv, phase # "idle"
  PROVE  /\ code # <<>> /\ Len(code) \in 1..MaxLen /\ Len(code) \in Nat
         /\ \A i \in 1..Len(code) :
               /\ code[i].target \in 1..Len(code) \cup {NoTarget, Outside}
               /\ code[i].fall \in BOOLEAN
         /\ pos \in Nat /\ pos # 0 /\ MaxLen \in Nat
<1>1. code \in Code /\ pos \in Nat \ {0}
  BY DEF BlocksInv, IdleOK
<1> QED BY <1>1, CodeProperties, LengthsAssumption DEF Instr

LEMMA BlocksTyped ==
  ASSUME BlocksInv
  PROVE  /\ listBasicBlocks \in Seq(BasicBlock) /\ Len(listBasicBlocks) \in Nat
         /\ \A k \in Blocks :
               LET b == listBasicBlocks[k] IN
               /\ b \in BasicBlock
               /\ b.start \in 1..MaxLen /\ b.start \in Nat
               /\ b.last \in 1..MaxLen /\ b.last \in Nat
               /\ b.left \in {Null} \cup Blocks /\ b.right \in {Null} \cup Blocks
<1>1. listBasicBlocks \in Seq(BasicBlock)
  BY DEF BlocksInv, BlocksTypeOK
<1>2. Len(listBasicBlocks) \in Nat /\ \A k \in Blocks : listBasicBlocks[k] \in BasicBlock
  BY <1>1 DEF Blocks
<1> QED BY <1>1, <1>2, LengthsAssumption DEF BasicBlock

-----------------------------------------------------------------------------
(* The actions.                                                            *)

LEMMA InitInv == Init => BlocksInv
<1> SUFFICES ASSUME Init PROVE BlocksInv
  OBVIOUS
<1>1. Len(listBasicBlocks) = 0 /\ Blocks = {} /\ listBasicBlocks \in Seq(BasicBlock)
  BY DEF Init, Blocks
<1>2. BlocksTypeOK
  BY <1>1, LengthsAssumption DEF Init, BlocksTypeOK
<1>3. IdleOK /\ ScanOK /\ RightOK /\ LeftOK /\ DotOK
  BY <1>1 DEF Init, IdleOK, ScanOK, RightOK, LeftOK, DotOK
<1>4. CutOK
  BY <1>1 DEF Init, CutOK, CutTo
<1> QED BY <1>2, <1>3, <1>4 DEF BlocksInv

LEMMA OpenInv == BlocksInv /\ Open => BlocksInv'
<1> SUFFICES ASSUME BlocksInv, Open PROVE BlocksInv'
  OBVIOUS
<1>1. /\ listBasicBlocks = <<>> /\ leaders = {} /\ dot = {}
      /\ listBasicBlockswithBranchTargets = {}
  BY DEF BlocksInv, IdleOK, CutOK, DotOK, Open, Blocks
<1>2. /\ code' \in Code /\ phase' = "scan" /\ pos' = 1 /\ bLeader' = TRUE
      /\ leaders' = {} /\ dot' = {} /\ listBasicBlocks' = <<>>
      /\ listBasicBlockswithBranchTargets' = {}
      /\ listBranchTargets' = listBranchTargets /\ routines' \in 0..MaxRoutines
  BY <1>1, LengthsAssumption DEF Open, lists, BlocksInv, BlocksTypeOK
<1>3. Len(listBasicBlocks') = 0 /\ Blocks' = {} /\ listBasicBlocks' \in Seq(BasicBlock')
  BY <1>2 DEF Blocks
<1>4. Len(code') \in 1..MaxLen
  BY <1>2, CodeProperties
<1>5. BlocksTypeOK'
  <2>1. listBranchTargets \subseteq 1..MaxLen
    BY DEF BlocksInv, BlocksTypeOK
  <2>2. pos' \in 0..MaxLen + 1
    BY <1>2, LengthsAssumption
  <2> QED BY <1>2, <1>3, <2>1, <2>2 DEF BlocksTypeOK
<1>6. IdleOK' /\ ScanOK' /\ RightOK' /\ LeftOK' /\ DotOK'
  <2>1. IdleOK'
    BY <1>2, <1>4 DEF IdleOK
  <2>2. ScanOK'
    <3>1. IsLeader(1)' = TRUE
      BY DEF IsLeader
    <3>2. ScannedTo' = 0 /\ 1..0 = {}
      BY <1>2 DEF ScannedTo
    <3> QED BY <1>2, <3>1, <3>2 DEF ScanOK
  <2> QED BY <2>1, <2>2, <1>2, <1>3 DEF RightOK, LeftOK, DotOK
<1>7. CutOK'
  BY <1>2, <1>3 DEF CutOK, CutTo
<1> QED BY <1>5, <1>6, <1>7 DEF BlocksInv

\* While the routine is scanned there are no blocks.
LEMMA NoBlocks ==
  ASSUME BlocksInv, phase \in {"idle", "scan"}
  PROVE  /\ listBasicBlocks = <<>> /\ Blocks = {}
         /\ listBasicBlockswithBranchTargets = {}
<1>1. Len(listBasicBlocks) = 0
  BY DEF BlocksInv, CutOK, CutTo, IdleOK
<1>2. listBasicBlocks = <<>> /\ Blocks = {}
  BY <1>1, BlocksTyped DEF Blocks
<1> QED BY <1>2 DEF BlocksInv, CutOK

LEMMA ScanInv == BlocksInv /\ Scan => BlocksInv'
<1> SUFFICES ASSUME BlocksInv, Scan PROVE BlocksInv'
  OBVIOUS
<1>1. /\ phase = "scan" /\ pos \in 1..Len(code) /\ Len(code) \in 1..MaxLen
      /\ Len(code) \in Nat /\ MaxLen \in Nat /\ pos \in Nat
  BY Routine DEF Scan
<1>2. /\ listBasicBlocks = <<>> /\ Blocks = {}
      /\ listBasicBlockswithBranchTargets = {}
  BY <1>1, NoBlocks
<1>3. /\ code' = code /\ phase' = "scan" /\ pos' = pos + 1
      /\ listBasicBlocks' = <<>> /\ listBasicBlockswithBranchTargets' = {}
      /\ dot' = dot /\ routines' = routines
  BY <1>1, <1>2 DEF Scan
<1>4. Len(listBasicBlocks') = 0 /\ Blocks' = {} /\ listBasicBlocks' \in Seq(BasicBlock')
  BY <1>3 DEF Blocks
<1>5. \A i : IsLeader(i)' <=> IsLeader(i)
  BY <1>3 DEF IsLeader, Internal
<1>6. /\ leaders \subseteq 1..pos - 1 /\ leaders' = leaders \cup {i \in {pos} : IsLeader(i)}
      /\ leaders = {i \in 1..pos - 1 : IsLeader(i)}
  BY <1>1 DEF BlocksInv, ScanOK, ScannedTo, Scan
<1>7. BlocksTypeOK'
  <2>1. listBranchTargets' \subseteq 1..MaxLen
    <3>1. Internal(pos) => code[pos].target \in 1..MaxLen
      BY <1>1 DEF Internal
    <3>2. listBranchTargets \subseteq 1..MaxLen
      BY DEF BlocksInv, BlocksTypeOK
    <3> QED BY <3>1, <3>2 DEF Scan
  <2>2. bLeader' \in BOOLEAN
    BY DEF Scan, LeaderAfter, Internal
  <2>3. pos' \in 0..MaxLen + 1 /\ leaders' \subseteq 1..MaxLen
    BY <1>1, <1>3, <1>6
  <2>4. code \in Code /\ routines \in 0..MaxRoutines /\ dot = {}
    BY <1>1 DEF BlocksInv, IdleOK, BlocksTypeOK, DotOK
  <2> QED BY <1>3, <1>4, <2>1, <2>2, <2>3, <2>4 DEF BlocksTypeOK
<1>8. ScanOK'
  <2>1. leaders' = {i \in 1..pos : IsLeader(i)}
    BY <1>1, <1>6
  <2>2. bLeader' = IsLeader(pos + 1)
    <3>1. pos + 1 # 1 /\ pos + 1 - 1 = pos
      BY <1>1
    <3>2. IsLeader(pos + 1) <=> Internal(pos)
      BY <1>1, <3>1 DEF IsLeader, Internal
    <3>3. IsLeader(pos + 1) \in BOOLEAN /\ Internal(pos) \in BOOLEAN
      BY DEF IsLeader, Internal
    <3>4. IsLeader(pos + 1) = Internal(pos)
      BY <3>2, <3>3
    <3> QED BY <3>4 DEF Scan, LeaderAfter
  <2>3. \A i \in 1..pos : Internal(i) => code[i].target \in listBranchTargets'
    <3>1. \A i \in 1..pos - 1 : Internal(i) => code[i].target \in listBranchTargets
      BY <1>1 DEF BlocksInv, ScanOK, ScannedTo
    <3>2. \A i \in 1..pos : i = pos \/ i \in 1..pos - 1
      BY <1>1
    <3> QED BY <3>1, <3>2 DEF Scan
  <2>4. ScannedTo' = pos
    BY <1>1, <1>3 DEF ScannedTo
  <2>5. \A i : Internal(i)' <=> Internal(i)
    BY <1>3 DEF Internal
  <2> QED BY <1>3, <1>5, <2>1, <2>2, <2>3, <2>4, <2>5 DEF ScanOK
<1>9. IdleOK' /\ RightOK' /\ LeftOK' /\ DotOK'
  BY <1>1, <1>3, <1>4 DEF BlocksInv, IdleOK, RightOK, LeftOK, DotOK
<1>10. CutOK'
  BY <1>3, <1>4 DEF CutOK, CutTo
<1> QED BY <1>7, <1>8, <1>9, <1>10 DEF BlocksInv

LEMMA ScannedInv == BlocksInv /\ Scanned => BlocksInv'
<1> SUFFICES ASSUME BlocksInv, Scanned PROVE BlocksInv'
  OBVIOUS
<1>1. /\ phase = "scan" /\ pos = Len(code) + 1 /\ Len(code) \in 1..MaxLen
      /\ Len(code) \in Nat /\ MaxLen \in Nat /\ code \in Code
  <2>1. phase = "scan" /\ pos > Len(code)
    BY DEF Scanned
  <2> QED BY <2>1, Routine DEF BlocksInv, IdleOK
<1>2. /\ listBasicBlocks = <<>> /\ Blocks = {}
      /\ listBasicBlockswithBranchTargets = {}
  BY <1>1, NoBlocks
<1>3. /\ code' = code /\ phase' = "build" /\ pos' = 1 /\ bLeader' = bLeader
      /\ leaders' = leaders /\ listBranchTargets' = listBranchTargets
      /\ listBasicBlocks' = <<>> /\ listBasicBlockswithBranchTargets' = {}
      /\ dot' = dot /\ routines' = routines
  BY <1>2 DEF Scanned, lists
<1>4. Len(listBasicBlocks') = 0 /\ Blocks' = {} /\ listBasicBlocks' \in Seq(BasicBlock')
  BY <1>3 DEF Blocks
<1>5. BlocksTypeOK'
  <2>1. dot = {} /\ pos' \in 0..MaxLen + 1
    BY <1>1, <1>3 DEF BlocksInv, DotOK
  <2> QED BY <1>3, <1>4, <2>1 DEF BlocksInv, BlocksTypeOK
<1>6. ScanOK'
  <2>1. ScannedTo = Len(code) /\ ScannedTo' = Len(code)
    BY <1>1, <1>3 DEF ScannedTo
  <2>2. \A i : (IsLeader(i)' <=> IsLeader(i)) /\ (Internal(i)' <=> Internal(i))
    BY <1>3 DEF IsLeader, Internal
  <2> QED BY <1>1, <1>3, <2>1, <2>2 DEF BlocksInv, ScanOK
<1>7. IdleOK' /\ RightOK' /\ LeftOK' /\ DotOK'
  BY <1>1, <1>3, <1>4 DEF BlocksInv, IdleOK, RightOK, LeftOK, DotOK
<1>8. CutOK'
  BY <1>3, <1>4 DEF CutOK, CutTo
<1> QED BY <1>5, <1>6, <1>7, <1>8 DEF BlocksInv

\* What is known of the blocks inside BuildBasicBlocks
LEMMA Cutting ==
  ASSUME BlocksInv, phase = "build", pos <= Len(code)
  PROVE  LET n == Len(listBasicBlocks) IN
         /\ n \in Nat /\ (n = 0 <=> pos = 1) /\ CutTo = pos - 1
         /\ n # 0 => n \in Blocks /\ listBasicBlocks[n].last = pos - 1
         /\ pos \in leaders <=> IsLeader(pos)
<1> DEFINE n == Len(listBasicBlocks)
<1>1. n \in Nat /\ pos \in Nat /\ pos # 0 /\ Len(code) \in Nat
  BY BlocksTyped, Routine
<1>2. CutTo = pos - 1 /\ ScannedTo = Len(code)
  BY DEF CutTo, ScannedTo
<1>3. n = 0 <=> pos = 1
  BY <1>1, <1>2 DEF BlocksInv, CutOK
<1>4. n # 0 => n \in Blocks /\ listBasicBlocks[n].last = pos - 1
  BY <1>1, <1>2 DEF BlocksInv, CutOK, Blocks
<1>5. pos \in leaders <=> IsLeader(pos)
  <2>1. pos \in 1..Len(code)
    BY <1>1
  <2> QED BY <1>2, <2>1 DEF BlocksInv, ScanOK
<1> QED BY <1>1, <1>2, <1>3, <1>4, <1>5

\* What a step of BuildBasicBlocks leaves as it was
LEMMA BuildKeeps ==
  ASSUME BlocksInv, Build,
         listBasicBlocks' \in Seq(BasicBlock'), CutOK', RightOK',
         \A k \in Blocks' : listBasicBlocks'[k].left = Null
  PROVE  BlocksInv'
<1>1. /\ phase = "build" /\ pos \in 1..Len(code) /\ Len(code) \in 1..MaxLen
      /\ Len(code) \in Nat /\ MaxLen \in Nat /\ pos \in Nat /\ code \in Code
  BY Routine DEF Build, BlocksInv, IdleOK
<1>2. /\ code' = code /\ phase' = "build" /\ pos' = pos + 1 /\ bLeader' = bLeader
      /\ leaders' = leaders /\ listBranchTargets' = listBranchTargets
      /\ dot' = dot /\ routines' = routines /\ dot = {}
  BY <1>1 DEF Build, BlocksInv, DotOK
<1>3. BlocksTypeOK'
  <2>1. listBasicBlockswithBranchTargets' \subseteq Blocks'
    BY DEF CutOK
  <2>2. pos' \in 0..MaxLen + 1
    BY <1>1, <1>2
  <2> QED BY <1>2, <2>1, <2>2 DEF BlocksInv, BlocksTypeOK
<1>4. ScanOK'
  <2>1. ScannedTo = Len(code) /\ ScannedTo' = Len(code)
    BY <1>1, <1>2 DEF ScannedTo
  <2>2. \A i : (IsLeader(i)' <=> IsLeader(i)) /\ (Internal(i)' <=> Internal(i))
    BY <1>2 DEF IsLeader, Internal
  <2> QED BY <1>1, <1>2, <2>1, <2>2 DEF BlocksInv, ScanOK
<1>5. IdleOK' /\ DotOK'
  BY <1>1, <1>2 DEF IdleOK, DotOK
<1>6. LeftOK'
  BY <1>2 DEF LeftOK, Linked
<1> QED BY <1>3, <1>4, <1>5, <1>6 DEF BlocksInv

LEMMA BuildNewInv ==
  ASSUME BlocksInv, Build, pos \in leaders \/ IsBranchTarget(pos)
  PROVE  BlocksInv'
<1> DEFINE n == Len(listBasicBlocks)
           old == listBasicBlocks
           new == listBasicBlocks'
<1>1. /\ phase = "build" /\ pos \in 1..Len(code) /\ Len(code) \in 1..MaxLen
      /\ Len(code) \in Nat /\ MaxLen \in Nat /\ pos \in Nat
  BY Routine DEF Build
<1>2. /\ n \in Nat /\ (n = 0 <=> pos = 1) /\ CutTo = pos - 1
      /\ n # 0 => n \in Blocks /\ old[n].last = pos - 1
  BY <1>1, Cutting
<1>3. /\ code' = code /\ phase' = "build" /\ pos' = pos + 1
      /\ listBranchTargets' = listBranchTargets /\ CutTo' = pos
  BY <1>1 DEF Build, CutTo
<1>4. /\ new \in Seq(BasicBlock') /\ Len(new) = n + 1 /\ Blocks' = 1..n + 1
      /\ new[n + 1] = NewBlock(pos)
      /\ \A k \in Blocks : /\ new[k].start = old[k].start
                           /\ new[k].last = old[k].last
                           /\ new[k].left = old[k].left
                           /\ new[k].right = IF k = n /\ code[pos - 1].fall
                                             THEN n + 1 ELSE old[k].right
  <2> DEFINE linked == IF FallsInto(pos) THEN [old EXCEPT ![n].right = n + 1] ELSE old
             B == [start : 1..MaxLen, last : 1..MaxLen,
                   left : {Null} \cup 1..n + 1, right : {Null} \cup 1..n + 1]
  <2>1. old \in Seq(B) /\ old \in [1..n -> B] /\ \A k \in 1..n : old[k] \in B
    <3>1. \A k \in 1..n : old[k] \in BasicBlock
      BY BlocksTyped DEF Blocks
    <3>2. BasicBlock \subseteq B
      BY <1>2 DEF BasicBlock, Blocks
    <3>3. old \in [1..n -> BasicBlock]
      BY BlocksTyped
    <3> HIDE DEF B
    <3>4. old \in [1..n -> B]
      BY <3>2, <3>3
    <3> QED BY <1>2, <3>4
  <2>2. linked \in Seq(B) /\ Len(linked) = n
        /\ \A k \in 1..n : linked[k] = IF k = n /\ FallsInto(pos)
                                        THEN [old[k] EXCEPT !.right = n + 1] ELSE old[k]
    <3>1. CASE ~ FallsInto(pos)
      BY <2>1, <3>1
    <3>2. CASE FallsInto(pos)
      <4>1. n \in 1..n
        BY <1>1, <1>2, <3>2 DEF FallsInto
      <4>2. [old[n] EXCEPT !.right = n + 1] \in B
        <5>1. n + 1 \in {Null} \cup 1..n + 1 /\ old[n] \in B
          BY <1>2, <2>1, <4>1
        <5> HIDE DEF n
        <5> QED BY <5>1
      <4> HIDE DEF B
      <4>3. linked = [old EXCEPT ![n] = [old[n] EXCEPT !.right = n + 1]]
        BY <2>1, <3>2, <4>1
      <4>4. linked \in [1..n -> B]
        BY <2>1, <4>2, <4>3
      <4> QED BY <1>2, <2>1, <3>2, <4>1, <4>3, <4>4
    <3> QED BY <3>1, <3>2
  <2>3. NewBlock(pos) \in B
    BY <1>1 DEF NewBlock, Null
  <2>4. new = Append(linked, NewBlock(pos))
    BY DEF Build
  <2> HIDE DEF linked, B
  <2>5. new \in Seq(B) /\ Len(new) = n + 1 /\ new[n + 1] = NewBlock(pos)
        /\ \A k \in 1..n : new[k] = linked[k]
    BY <1>2, <2>2, <2>3, <2>4
  <2>6. Blocks' = 1..n + 1 /\ Blocks = 1..n
    BY <2>5 DEF Blocks
  <2>7. B = BasicBlock'
    BY <2>6 DEF B, BasicBlock
  <2>8. \A k \in 1..n : k = n => (FallsInto(pos) <=> code[pos - 1].fall)
    BY <1>1, <1>2 DEF FallsInto
  <2>9. \A k \in 1..n : old[k] \in [start : 1..MaxLen, last : 1..MaxLen,
                   left : {Null} \cup 1..n + 1, right : {Null} \cup 1..n + 1]
    BY <2>1 DEF B
  <2>10. ASSUME NEW k \in 1..n
         PROVE  /\ new[k].start = old[k].start
                /\ new[k].last = old[k].last
                /\ new[k].left = old[k].left
                /\ new[k].right = IF k = n /\ code[pos - 1].fall
                                  THEN n + 1 ELSE old[k].right
    <3>1. new[k] = linked[k]
      BY <2>5
    <3>2. CASE k = n /\ FallsInto(pos)
      <4>1. new[k] = [old[k] EXCEPT !.right = n + 1]
        BY <2>2, <3>1, <3>2
      <4>2. old[k] = [start |-> old[k].start, last |-> old[k].last,
                      left |-> old[k].left, right |-> old[k].right]
        BY <2>9
      <4> QED BY <2>8, <3>2, <4>1, <4>2
    <3>3. CASE ~ (k = n /\ FallsInto(pos))
      BY <2>2, <2>8, <3>1, <3>3
    <3> QED BY <3>2, <3>3
  <2> QED BY <2>5, <2>6, <2>7, <2>10
<1>5. \A k \in Blocks' : k \in Blocks \/ k = n + 1
  BY <1>2, <1>4 DEF Blocks
<1>6. /\ new[n + 1].start = pos /\ new[n + 1].last = pos
      /\ new[n + 1].left = Null /\ new[n + 1].right = Null
  BY <1>4 DEF NewBlock
<1>7. CutOK'
  <2>1. \A k \in Blocks : /\ k <= old[k].start /\ old[k].start <= old[k].last
                          /\ old[k].last <= pos - 1
                          /\ old[k].start \in Nat /\ old[k].last \in Nat /\ k \in Nat
    <3>1. \A k \in Blocks : /\ k <= old[k].start /\ old[k].start <= old[k].last
                            /\ old[k].last <= CutTo
      BY DEF BlocksInv, CutOK
    <3>2. \A k \in Blocks : old[k].start \in Nat /\ old[k].last \in Nat
      BY BlocksTyped
    <3>3. \A k \in Blocks : k \in Nat
      BY DEF Blocks
    <3> QED BY <1>2, <3>1, <3>2, <3>3
  <2>2. n + 1 <= pos
    BY <1>1, <1>2, <2>1
  <2>3. CutTo' # 0 /\ Len(new) # 0 /\ new[1].start = 1 /\ new[Len(new)].last = CutTo'
    <3>1. CASE n = 0
      BY <1>1, <1>2, <1>3, <1>4, <1>6, <3>1
    <3>2. CASE n # 0
      <4>1. old[1].start = 1 /\ 1 \in Blocks
        BY <1>1, <1>2, <3>2 DEF BlocksInv, CutOK, Blocks
      <4> QED BY <1>1, <1>2, <1>3, <1>4, <1>6, <4>1
    <3> QED BY <3>1, <3>2
  <2>4. \A k \in Blocks' : /\ k <= new[k].start /\ new[k].start <= new[k].last
                           /\ new[k].last <= CutTo'
    BY <1>1, <1>3, <1>4, <1>5, <1>6, <2>1, <2>2
  <2>5. \A k \in Blocks' \ {1} : new[k].start = new[k - 1].last + 1
    <3>1. ASSUME NEW k \in Blocks \ {1} PROVE new[k].start = new[k - 1].last + 1
      <4>1. old[k].start = old[k - 1].last + 1 /\ k - 1 \in Blocks
        BY <1>2 DEF BlocksInv, CutOK, Blocks
      <4> QED BY <1>4, <4>1
    <3>2. n + 1 # 1 => new[n + 1].start = new[n].last + 1
      BY <1>1, <1>2, <1>4, <1>6
    <3> QED BY <1>2, <1>5, <3>1, <3>2
  <2>6. \A k, l \in Blocks' : k < l => new[k].last < new[l].start
    <3>1. ASSUME NEW k \in Blocks', NEW l \in Blocks', k < l PROVE k \in Blocks
      BY <1>2, <1>4, <3>1 DEF Blocks
    <3>2. \A k, l \in Blocks : k < l => old[k].last < old[l].start
      BY DEF BlocksInv, CutOK
    <3>3. \A k \in Blocks : new[k].last < new[n + 1].start
      BY <1>1, <1>4, <1>6, <2>1
    <3> QED BY <1>4, <1>5, <3>1, <3>2, <3>3
  <2>7. ASSUME NEW i \in 1..CutTo', (IsLeader(i) \/ IsBranchTarget(i))'
        PROVE  \E k \in Blocks' : new[k].start = i
    <3>1. CASE i = pos
      BY <1>2, <1>4, <1>6, <3>1
    <3>2. CASE i # pos
      <4>1. i \in 1..CutTo
        BY <1>1, <1>2, <1>3, <3>2
      <4>2. IsLeader(i) \/ IsBranchTarget(i)
        BY <1>3, <2>7 DEF IsLeader, Internal, IsBranchTarget
      <4>3. PICK k \in Blocks : old[k].start = i
        BY <4>1, <4>2 DEF BlocksInv, CutOK
      <4> QED BY <1>2, <1>4, <4>3 DEF Blocks
    <3> QED BY <3>1, <3>2
  <2>8. listBasicBlockswithBranchTargets' =
           {k \in Blocks' : new[k].start \in listBranchTargets'}
    <3>1. listBasicBlockswithBranchTargets' =
             listBasicBlockswithBranchTargets \cup {k \in {n + 1} : IsBranchTarget(pos)}
      BY DEF Build
    <3>2. listBasicBlockswithBranchTargets = {k \in Blocks : IsBranchTarget(old[k].start)}
      BY DEF BlocksInv, CutOK
    <3>3. /\ (new[n + 1].start \in listBranchTargets' <=> IsBranchTarget(pos))
          /\ \A k \in Blocks :
                new[k].start \in listBranchTargets' <=> IsBranchTarget(old[k].start)
      BY <1>3, <1>4, <1>6 DEF IsBranchTarget
    <3>4. n + 1 \notin Blocks /\ Blocks' = Blocks \cup {n + 1}
      BY <1>2, <1>4 DEF Blocks
    <3> QED BY <3>1, <3>2, <3>3, <3>4
  <2> QED BY <2>3, <2>4, <2>5, <2>6, <2>7, <2>8 DEF CutOK, IsBranchTarget
<1>8. RightOK'
  <2>1. new[n + 1].right = Null /\ ~ (n + 1 < Len(new))
    BY <1>2, <1>4, <1>6
  <2>2. ASSUME NEW k \in Blocks
        PROVE  new[k].right = IF k < Len(new) /\ code[new[k].last].fall
                              THEN k + 1 ELSE Null
    <3>1. /\ k \in Nat /\ k <= n /\ k < Len(new) /\ new[k].last = old[k].last
          /\ old[k].right = IF k < n /\ code[old[k].last].fall THEN k + 1 ELSE Null
      BY <1>2, <1>4 DEF BlocksInv, RightOK, Blocks
    <3>2. CASE k = n
      <4>1. old[n].last = pos - 1
        BY <1>2, <3>1, <3>2 DEF Blocks
      <4> QED BY <1>4, <3>1, <3>2, <4>1
    <3>3. CASE k # n
      BY <1>2, <1>4, <3>1, <3>3
    <3> QED BY <3>2, <3>3
  <2> QED BY <1>3, <1>5, <2>1, <2>2 DEF RightOK
<1>9. \A k \in Blocks' : new[k].left = Null
  <2>1. \A k \in Blocks : old[k].left = Null
    BY <1>1 DEF BlocksInv, LeftOK, Linked
  <2> QED BY <1>4, <1>5, <1>6, <2>1
<1> QED BY <1>4, <1>7, <1>8, <1>9, BuildKeeps

LEMMA BuildOnInv ==
  ASSUME BlocksInv, Build, ~ (pos \in leaders \/ IsBranchTarget(pos))
  PROVE  BlocksInv'
<1> DEFINE n == Len(listBasicBlocks)
           old == listBasicBlocks
           new == listBasicBlocks'
<1>1. /\ phase = "build" /\ pos \in 1..Len(code) /\ Len(code) \in 1..MaxLen
      /\ Len(code) \in Nat /\ MaxLen \in Nat /\ pos \in Nat
  BY Routine DEF Build
<1>2. /\ n \in Nat /\ n # 0 /\ CutTo = pos - 1 /\ pos # 1
      /\ n \in Blocks /\ old[n].last = pos - 1 /\ ~ IsLeader(pos)
  BY <1>1, Cutting DEF IsLeader
<1>3. /\ code' = code /\ phase' = "build" /\ pos' = pos + 1
      /\ listBranchTargets' = listBranchTargets /\ CutTo' = pos
      /\ listBasicBlockswithBranchTargets' = listBasicBlockswithBranchTargets
  BY <1>1 DEF Build, CutTo
<1>4. /\ new \in Seq(BasicBlock') /\ Len(new) = n /\ Blocks' = Blocks
      /\ \A k \in Blocks : /\ new[k].start = old[k].start
                           /\ new[k].last = IF k = n THEN pos ELSE old[k].last
                           /\ new[k].left = old[k].left
                           /\ new[k].right = old[k].right
  <2>1. new = [old EXCEPT ![n] = [old[n] EXCEPT !.last = pos]]
    BY DEF Build
  <2>2. old \in [1..n -> BasicBlock] /\ Blocks = 1..n /\ n \in 1..n
    BY <1>2, BlocksTyped DEF Blocks
  <2>3. [old[n] EXCEPT !.last = pos] \in BasicBlock
    <3>1. pos \in 1..MaxLen /\ old[n] \in BasicBlock
      BY <1>1, <2>2
    <3> QED BY <3>1 DEF BasicBlock
  <2>4. new \in [1..n -> BasicBlock]
    BY <2>1, <2>2, <2>3
  <2>5. Len(new) = n /\ Blocks' = Blocks
    BY <1>2, <2>2, <2>4 DEF Blocks
  <2>6. BasicBlock' = BasicBlock
    BY <2>5 DEF BasicBlock
  <2>7. new \in Seq(BasicBlock')
    BY <1>2, <2>4, <2>6
  <2>8. ASSUME NEW k \in Blocks
        PROVE  /\ new[k].start = old[k].start
               /\ new[k].last = IF k = n THEN pos ELSE old[k].last
               /\ new[k].left = old[k].left
               /\ new[k].right = old[k].right
    <3>1. old[k] = [start |-> old[k].start, last |-> old[k].last,
                    left |-> old[k].left, right |-> old[k].right]
      BY <2>2 DEF BasicBlock
    <3> QED BY <2>1, <2>2, <3>1
  <2> QED BY <2>5, <2>7, <2>8
<1>5. \A k \in Blocks : /\ k <= old[k].start /\ old[k].start <= old[k].last
                        /\ old[k].last <= pos - 1
                        /\ old[k].start \in Nat /\ old[k].last \in Nat
                        /\ k \in Nat /\ k <= n
  <2>1. \A k \in Blocks : /\ k <= old[k].start /\ old[k].start <= old[k].last
                          /\ old[k].last <= CutTo
    BY DEF BlocksInv, CutOK
  <2>2. \A k \in Blocks : old[k].start \in Nat /\ old[k].last \in Nat
    BY BlocksTyped
  <2>3. \A k \in Blocks : k \in Nat /\ k <= n
    BY <1>2 DEF Blocks
  <2> QED BY <1>2, <2>1, <2>2, <2>3
<1>6. CutOK'
  <2>1. CutTo' # 0 /\ Len(new) # 0 /\ new[1].start = 1 /\ new[Len(new)].last = CutTo'
    <3>1. old[1].start = 1 /\ 1 \in Blocks
      BY <1>1, <1>2 DEF BlocksInv, CutOK, Blocks
    <3> QED BY <1>1, <1>2, <1>3, <1>4, <3>1
  <2>2. \A k \in Blocks' : /\ k <= new[k].start /\ new[k].start <= new[k].last
                           /\ new[k].last <= CutTo'
    BY <1>1, <1>3, <1>4, <1>5
  <2>3. \A k \in Blocks' \ {1} : new[k].start = new[k - 1].last + 1
    <3>1. ASSUME NEW k \in Blocks \ {1} PROVE new[k].start = new[k - 1].last + 1
      <4>1. old[k].start = old[k - 1].last + 1 /\ k - 1 \in Blocks /\ k - 1 # n
        BY <1>2 DEF BlocksInv, CutOK, Blocks
      <4> QED BY <1>4, <4>1
    <3> QED BY <1>4, <3>1
  <2>4. \A k, l \in Blocks' : k < l => new[k].last < new[l].start
    <3>1. \A k, l \in Blocks : k < l => old[k].last < old[l].start /\ k # n
      BY <1>2, <1>5 DEF BlocksInv, CutOK
    <3> QED BY <1>4, <3>1
  <2>5. ASSUME NEW i \in 1..CutTo', (IsLeader(i) \/ IsBranchTarget(i))'
        PROVE  \E k \in Blocks' : new[k].start = i
    <3>1. IsLeader(i) \/ IsBranchTarget(i)
      BY <1>3, <2>5 DEF IsLeader, Internal, IsBranchTarget
    <3>2. i # pos
      BY <1>2, <3>1
    <3>3. i \in 1..CutTo
      BY <1>1, <1>2, <1>3, <3>2
    <3>4. PICK k \in Blocks : old[k].start = i
      BY <3>1, <3>3 DEF BlocksInv, CutOK
    <3> QED BY <1>4, <3>4
  <2>6. listBasicBlockswithBranchTargets' =
           {k \in Blocks' : new[k].start \in listBranchTargets'}
    <3>1. listBasicBlockswithBranchTargets = {k \in Blocks : IsBranchTarget(old[k].start)}
      BY DEF BlocksInv, CutOK
    <3> QED BY <1>3, <1>4, <3>1 DEF IsBranchTarget
  <2> QED BY <2>1, <2>2, <2>3, <2>4, <2>5, <2>6 DEF CutOK, IsBranchTarget
<1>7. RightOK'
  <2>1. ASSUME NEW k \in Blocks
        PROVE  new[k].right = IF k < Len(new) /\ code[new[k].last].fall
                              THEN k + 1 ELSE Null
    <3>1. old[k].right = IF k < n /\ code[old[k].last].fall THEN k + 1 ELSE Null
      BY DEF BlocksInv, RightOK
    <3> QED BY <1>2, <1>4, <1>5, <3>1
  <2> QED BY <1>3, <1>4, <2>1 DEF RightOK
<1>8. \A k \in Blocks' : new[k].left = Null
  <2>1. \A k \in Blocks : old[k].left = Null
    BY <1>1 DEF BlocksInv, LeftOK, Linked
  <2> QED BY <1>4, <2>1
<1> QED BY <1>4, <1>6, <1>7, <1>8, BuildKeeps

LEMMA BuildInv == BlocksInv /\ Build => BlocksInv'
BY BuildNewInv, BuildOnInv

LEMMA BuiltInv == BlocksInv /\ Built => BlocksInv'
<1> SUFFICES ASSUME BlocksInv, Built PROVE BlocksInv'
  OBVIOUS
<1>1. /\ phase = "build" /\ pos = Len(code) + 1 /\ Len(code) \in 1..MaxLen
      /\ Len(code) \in Nat /\ MaxLen \in Nat /\ code \in Code
  <2>1. phase = "build" /\ pos > Len(code)
    BY DEF Built
  <2> QED BY <2>1, Routine DEF BlocksInv, IdleOK
<1>2. /\ code' = code /\ phase' = "link" /\ pos' = 1 /\ bLeader' = bLeader
      /\ leaders' = leaders /\ listBranchTargets' = listBranchTargets
      /\ listBasicBlocks' = listBasicBlocks
      /\ listBasicBlockswithBranchTargets' = listBasicBlockswithBranchTargets
      /\ dot' = dot /\ routines' = routines
  BY DEF Built, lists
<1>3. Blocks' = Blocks /\ BasicBlock' = BasicBlock /\ Len(listBasicBlocks) \in Nat
  BY <1>2, BlocksTyped DEF Blocks, BasicBlock
<1>4. BlocksTypeOK'
  <2>1. pos' \in 0..MaxLen + 1
    BY <1>1, <1>2
  <2> QED BY <1>2, <1>3, <2>1 DEF BlocksInv, BlocksTypeOK
<1>5. \A i : (IsLeader(i)' <=> IsLeader(i)) /\ (Internal(i)' <=> Internal(i))
  BY <1>2 DEF IsLeader, Internal
<1>6. ScanOK'
  <2>1. ScannedTo = Len(code) /\ ScannedTo' = Len(code)
    BY <1>1, <1>2 DEF ScannedTo
  <2> QED BY <1>1, <1>2, <1>5, <2>1 DEF BlocksInv, ScanOK
<1>7. CutOK'
  <2>1. CutTo = Len(code) /\ CutTo' = Len(code)
    BY <1>1, <1>2 DEF CutTo
  <2> QED BY <1>2, <1>3, <1>5, <2>1 DEF BlocksInv, CutOK, IsBranchTarget
<1>8. LeftOK'
  <2>1. \A k \in Blocks : listBasicBlocks[k].left = Null /\ ~ (k < 1)
    BY <1>1, <1>3 DEF BlocksInv, LeftOK, Linked, Blocks
  <2> QED BY <1>2, <1>3, <2>1 DEF LeftOK, Linked
<1>9. IdleOK' /\ RightOK' /\ DotOK'
  BY <1>1, <1>2, <1>3 DEF BlocksInv, IdleOK, RightOK, DotOK
<1> QED BY <1>4, <1>6, <1>7, <1>8, <1>9 DEF BlocksInv

\* The search for the block that starts at the target of the branch in i
LEMMA TargetBlock ==
  ASSUME BlocksInv, phase \in {"link", "written"}, NEW i \in 1..Len(code)
  PROVE  LET t == code[i].target
             b == GetBBStartingWithAddr(t)
         IN  IF Internal(i) THEN b \in Blocks /\ listBasicBlocks[b].start = t
             ELSE t # NoTarget => b = Null
<1> DEFINE t == code[i].target
           b == GetBBStartingWithAddr(t)
<1>1. CutTo = Len(code) /\ ScannedTo = Len(code) /\ phase # "idle"
  BY DEF CutTo, ScannedTo
<1>2. StartingAt(t) = {k \in Blocks : /\ IsBranchTarget(listBasicBlocks[k].start)
                                      /\ listBasicBlocks[k].start = t}
  BY DEF BlocksInv, CutOK, StartingAt
<1>3. CASE Internal(i)
  <2>1. t \in 1..Len(code) /\ IsBranchTarget(t)
    BY <1>1, <1>3 DEF BlocksInv, ScanOK, Internal, IsBranchTarget
  <2>2. PICK k \in Blocks : listBasicBlocks[k].start = t
    BY <1>1, <2>1 DEF BlocksInv, CutOK
  <2>3. k \in StartingAt(t)
    BY <1>2, <2>1, <2>2
  <2>4. b \in StartingAt(t)
    BY <2>3 DEF GetBBStartingWithAddr
  <2> QED BY <1>2, <1>3, <2>4
<1>4. CASE ~ Internal(i)
  <2>1. t = NoTarget \/ t = Outside
    BY <1>1, <1>4, Routine DEF Internal
  <2>2. \A k \in Blocks : listBasicBlocks[k].start # Outside
    BY BlocksTyped DEF Outside
  <2>3. t # NoTarget => StartingAt(t) = {}
    BY <1>2, <2>1, <2>2
  <2> QED BY <1>4, <2>3 DEF GetBBStartingWithAddr
<1> QED BY <1>3, <1>4

\* The blocks are those of before, but for what they have on their left.
LEMMA SameCut ==
  ASSUME BlocksInv, phase \in {"link", "written"}, phase' \in {"link", "written"},
         code' = code, leaders' = leaders, listBranchTargets' = listBranchTargets,
         listBasicBlockswithBranchTargets' = listBasicBlockswithBranchTargets,
         Len(listBasicBlocks') = Len(listBasicBlocks),
         \A k \in Blocks :
             /\ listBasicBlocks'[k].start = listBasicBlocks[k].start
             /\ listBasicBlocks'[k].last = listBasicBlocks[k].last
             /\ listBasicBlocks'[k].right = listBasicBlocks[k].right
  PROVE  ScanOK' /\ CutOK' /\ RightOK'
<1>1. /\ CutTo = Len(code) /\ CutTo' = Len(code)
      /\ ScannedTo = Len(code) /\ ScannedTo' = Len(code) /\ phase # "idle"
      /\ Len(code) # 0 /\ Len(listBasicBlocks) \in Nat
  BY Routine, BlocksTyped DEF CutTo, ScannedTo
<1>2. \A i : /\ IsLeader(i)' <=> IsLeader(i)
             /\ Internal(i)' <=> Internal(i)
             /\ IsBranchTarget(i)' <=> IsBranchTarget(i)
  BY DEF IsLeader, Internal, IsBranchTarget
<1>3. ScanOK'
  BY <1>1, <1>2 DEF BlocksInv, ScanOK
<1>4. Blocks' = Blocks
  BY DEF Blocks
<1>5. CutOK'
  <2>1. Len(listBasicBlocks) # 0 /\ 1 \in Blocks /\ Len(listBasicBlocks) \in Blocks
    BY <1>1 DEF BlocksInv, CutOK, Blocks
  <2>2. \A k \in Blocks \ {1} : k - 1 \in Blocks
    BY <1>1 DEF Blocks
  <2> DEFINE old == listBasicBlocks
             new == listBasicBlocks'
  <2>3. \A k \in Blocks \ {1} : new[k].start = new[k - 1].last + 1
    BY <2>2 DEF BlocksInv, CutOK
  <2>4. /\ new[1].start = 1 /\ new[Len(new)].last = CutTo'
        /\ \A k \in Blocks : /\ k <= new[k].start /\ new[k].start <= new[k].last
                             /\ new[k].last <= CutTo'
        /\ \A k, l \in Blocks : k < l => new[k].last < new[l].start
    BY <1>1, <2>1 DEF BlocksInv, CutOK
  <2>5. \A i \in 1..CutTo' : (IsLeader(i) \/ IsBranchTarget(i))' =>
           \E k \in Blocks : new[k].start = i
    BY <1>1, <1>2 DEF BlocksInv, CutOK
  <2>6. listBasicBlockswithBranchTargets' =
           {k \in Blocks : new[k].start \in listBranchTargets'}
    BY DEF BlocksInv, CutOK, IsBranchTarget
  <2> QED BY <1>1, <1>4, <2>1, <2>3, <2>4, <2>5, <2>6 DEF CutOK, IsBranchTarget
<1>6. RightOK'
  BY <1>4 DEF BlocksInv, RightOK
<1> QED BY <1>3, <1>5, <1>6

LEMMA LinkInv == BlocksInv /\ Link => BlocksInv'
<1> SUFFICES ASSUME BlocksInv, Link PROVE BlocksInv'
  OBVIOUS
<1> DEFINE old == listBasicBlocks
           new == listBasicBlocks'
           tail == old[pos].last
           to == GetBBStartingWithAddr(code[tail].target)
<1>1. /\ phase = "link" /\ pos \in Blocks /\ Blocks = 1..Len(old) /\ Len(old) \in Nat
      /\ Len(code) \in Nat /\ MaxLen \in Nat /\ Len(code) <= MaxLen /\ code \in Code
      /\ pos \in Nat
  <2>1. phase = "link" /\ pos <= Len(old)
    BY DEF Link
  <2>2. pos \in Nat /\ pos # 0 /\ Len(old) \in Nat
    BY <2>1, Routine, BlocksTyped
  <2> QED BY <2>1, <2>2, Routine DEF BlocksInv, IdleOK, Blocks
<1>2. /\ code' = code /\ phase' = "link" /\ pos' = pos + 1 /\ bLeader' = bLeader
      /\ leaders' = leaders /\ listBranchTargets' = listBranchTargets
      /\ listBasicBlockswithBranchTargets' = listBasicBlockswithBranchTargets
      /\ dot' = dot /\ routines' = routines
  BY <1>1 DEF Link
<1>3. Len(old) <= MaxLen /\ tail \in 1..Len(code)
  <2>1. CutTo = Len(code)
    BY <1>1 DEF CutTo
  <2>2. \A k \in Blocks : /\ k <= old[k].start /\ old[k].start <= old[k].last
                          /\ old[k].last <= Len(code)
                          /\ old[k].start \in Nat /\ old[k].last \in Nat
    BY <2>1, BlocksTyped DEF BlocksInv, CutOK
  <2>3. Len(old) \in Blocks
    BY <1>1
  <2>4. old[Len(old)].start <= MaxLen /\ Len(old) <= old[Len(old)].start
    BY <1>1, <2>2, <2>3
  <2>5. Len(old) <= MaxLen
    BY <1>1, <2>2, <2>3, <2>4
  <2>6. 1 <= tail
    BY <1>1, <2>2
  <2> QED BY <1>1, <2>2, <2>5, <2>6
<1>4. /\ code[tail].target \in 1..Len(code) \cup {NoTarget, Outside}
      /\ IF Internal(tail) THEN to \in Blocks /\ old[to].start = code[tail].target
         ELSE code[tail].target # NoTarget => to = Null
  BY <1>1, <1>3, TargetBlock, Routine
<1>5. old \in [1..Len(old) -> BasicBlock]
  BY BlocksTyped
<1>6. /\ new \in [1..Len(old) -> BasicBlock]
      /\ \A k \in Blocks :
            /\ new[k].start = old[k].start
            /\ new[k].last = old[k].last
            /\ new[k].right = old[k].right
            /\ new[k].left = IF k = pos /\ code[tail].target # NoTarget
                             THEN to ELSE old[k].left
  <2>1. CASE code[tail].target = NoTarget
    BY <1>5, <2>1 DEF Link
  <2>2. CASE code[tail].target # NoTarget
    <3>1. to \in {Null} \cup Blocks
      BY <1>4, <2>2
    <3>2. new = [old EXCEPT ![pos] = [old[pos] EXCEPT !.left = to]]
      BY <2>2 DEF Link
    <3> HIDE DEF to
    <3>3. [old[pos] EXCEPT !.left = to] \in BasicBlock
      BY <1>1, <1>5, <3>1 DEF BasicBlock
    <3>4. new \in [1..Len(old) -> BasicBlock]
      BY <1>1, <1>5, <3>2, <3>3
    <3>5. ASSUME NEW k \in Blocks
          PROVE  /\ new[k].start = old[k].start
                 /\ new[k].last = old[k].last
                 /\ new[k].right = old[k].right
                 /\ new[k].left = IF k = pos THEN to ELSE old[k].left
      <4>1. old[k] = [start |-> old[k].start, last |-> old[k].last,
                      left |-> old[k].left, right |-> old[k].right]
        BY <1>1, <1>5 DEF BasicBlock
      <4> QED BY <1>1, <1>5, <3>2, <4>1
    <3> QED BY <2>2, <3>4, <3>5
  <2> QED BY <2>1, <2>2
<1>7. /\ Len(new) = Len(old) /\ Blocks' = Blocks /\ BasicBlock' = BasicBlock
      /\ new \in Seq(BasicBlock')
  <2>1. Len(new) = Len(old)
    BY <1>1, <1>6
  <2>2. Blocks' = Blocks /\ BasicBlock' = BasicBlock
    BY <2>1 DEF Blocks, BasicBlock
  <2> QED BY <1>1, <1>6, <2>1, <2>2
<1>8. ScanOK' /\ CutOK' /\ RightOK'
  BY <1>1, <1>2, <1>6, <1>7, SameCut
<1>9. BlocksTypeOK'
  <2>1. pos' \in 0..MaxLen + 1
    BY <1>1, <1>2, <1>3
  <2> QED BY <1>2, <1>7, <2>1 DEF BlocksInv, BlocksTypeOK
<1>10. IdleOK' /\ DotOK'
  BY <1>1, <1>2, <1>7 DEF BlocksInv, IdleOK, DotOK
<1>11. LeftOK'
  <2>1. ASSUME NEW k \in Blocks
        PROVE  IF k < pos + 1 /\ Internal(old[k].last)
               THEN /\ new[k].left \in Blocks
                    /\ new[new[k].left].start = code[old[k].last].target
               ELSE new[k].left = Null
    <3>1. IF k < pos /\ Internal(old[k].last)
          THEN old[k].left \in Blocks /\ old[old[k].left].start = code[old[k].last].target
          ELSE old[k].left = Null
      BY <1>1 DEF BlocksInv, LeftOK, Linked
    <3>2. CASE k = pos
      <4>1. Internal(tail) => code[tail].target # NoTarget
        BY <1>1 DEF Internal, NoTarget
      <4> QED BY <1>1, <1>4, <1>6, <3>1, <3>2, <4>1
    <3>3. CASE k # pos
      <4>1. k < pos + 1 <=> k < pos
        BY <1>1, <3>3
      <4> QED BY <1>6, <3>1, <3>3, <4>1
    <3> QED BY <3>2, <3>3
  <2>2. \A i : Internal(i)' <=> Internal(i)
    BY <1>2 DEF Internal
  <2> QED BY <1>2, <1>6, <1>7, <2>1, <2>2 DEF LeftOK, Linked
<1> QED BY <1>8, <1>9, <1>10, <1>11 DEF BlocksInv

LEMMA WriteInv == BlocksInv /\ Write => BlocksInv'
<1> SUFFICES ASSUME BlocksInv, Write PROVE BlocksInv'
  OBVIOUS
<1>1. /\ phase = "link" /\ pos > Len(listBasicBlocks) /\ pos \in Nat
      /\ Len(listBasicBlocks) \in Nat
  BY Routine, BlocksTyped DEF Write
<1>2. /\ code' = code /\ phase' = "written" /\ pos' = pos /\ bLeader' = bLeader
      /\ leaders' = leaders /\ listBranchTargets' = listBranchTargets
      /\ listBasicBlocks' = listBasicBlocks
      /\ listBasicBlockswithBranchTargets' = listBasicBlockswithBranchTargets
      /\ routines' = routines
  BY DEF Write, lists
<1>3. Blocks' = Blocks /\ BasicBlock' = BasicBlock
  BY <1>2 DEF Blocks, BasicBlock
<1>4. \A k : Ports(k)' = Ports(k)
  BY <1>2 DEF Ports
<1>5. dot' = UNION {Ports(k) : k \in Blocks}
  BY DEF Write, Blocks
<1>6. DotOK'
  BY <1>2, <1>3, <1>4, <1>5 DEF DotOK
<1>7. ASSUME NEW k \in Blocks
      PROVE  Ports(k) \subseteq [from : Blocks, to : Blocks, label : {"T", "F", "-"}]
  BY BlocksTyped DEF Ports
<1>8. BlocksTypeOK'
  <2>1. dot' \subseteq [from : Blocks, to : Blocks, label : {"T", "F", "-"}]
    BY <1>5, <1>7
  <2> QED BY <1>2, <1>3, <2>1 DEF BlocksInv, BlocksTypeOK
<1>9. ScanOK' /\ CutOK' /\ RightOK'
  BY <1>1, <1>2, SameCut
<1>10. IdleOK'
  BY <1>1, <1>2 DEF BlocksInv, IdleOK
<1>11. LeftOK'
  <2>1. \A k \in Blocks : Linked(k) /\ Linked(k)'
    BY <1>1, <1>2 DEF Linked, Blocks
  <2>2. \A i : Internal(i)' <=> Internal(i)
    BY <1>2 DEF Internal
  <2> QED BY <1>2, <1>3, <2>1, <2>2 DEF BlocksInv, LeftOK
<1> QED BY <1>6, <1>8, <1>9, <1>10, <1>11 DEF BlocksInv

LEMMA ClearInv == BlocksInv /\ Clear => BlocksInv'
<1> SUFFICES ASSUME BlocksInv, Clear PROVE BlocksInv'
  OBVIOUS
<1>1. /\ phase' = "idle" /\ pos' = 0 /\ code' = <<>> /\ leaders' = {} /\ dot' = {}
      /\ listBasicBlocks' = <<>> /\ listBasicBlockswithBranchTargets' = {}
      /\ listBranchTargets' = listBranchTargets /\ bLeader' = bLeader
      /\ routines' = routines
  BY DEF Clear
<1>2. Len(listBasicBlocks') = 0 /\ Blocks' = {} /\ listBasicBlocks' \in Seq(BasicBlock')
  BY <1>1 DEF Blocks
<1>3. BlocksTypeOK'
  <2>1. pos' \in 0..MaxLen + 1
    BY <1>1, LengthsAssumption
  <2> QED BY <1>1, <1>2, <2>1 DEF BlocksInv, BlocksTypeOK
<1>4. IdleOK' /\ ScanOK' /\ RightOK' /\ LeftOK' /\ DotOK'
  BY <1>1, <1>2 DEF IdleOK, ScanOK, RightOK, LeftOK, DotOK
<1>5. CutOK'
  BY <1>1, <1>2 DEF CutOK, CutTo
<1> QED BY <1>3, <1>4, <1>5 DEF BlocksInv

LEMMA StutterInv == BlocksInv /\ UNCHANGED vars => BlocksInv'
<1> SUFFICES ASSUME BlocksInv, UNCHANGED vars PROVE BlocksInv'
  OBVIOUS
<1>1. Blocks' = Blocks /\ BasicBlock' = BasicBlock
  BY DEF vars, lists, Blocks, BasicBlock
<1>2. BlocksTypeOK'
  <2>1. BlocksTypeOK
    BY DEF BlocksInv
  <2> QED BY <1>1, <2>1 DEF BlocksTypeOK, vars, lists
<1>3. IdleOK' /\ ScanOK'
  <2>1. IdleOK'
    BY DEF BlocksInv, IdleOK, vars, lists
  <2>2. /\ ScannedTo' = ScannedTo
        /\ \A i : Internal(i)' <=> Internal(i)
        /\ \A i : IsLeader(i)' <=> IsLeader(i)
    BY DEF ScannedTo, IsLeader, Internal, vars
  <2>3. ScanOK'
    <3>1. UNCHANGED <<phase, leaders, code, listBranchTargets, bLeader, pos>> /\ ScanOK
      BY DEF BlocksInv, vars, lists
    <3>2. ASSUME phase # "idle"
          PROVE  leaders = {n \in 1..ScannedTo' : IsLeader(n)'}
      <4>1. leaders = {n \in 1..ScannedTo : IsLeader(n)}
        BY <3>1, <3>2 DEF ScanOK
      <4> QED BY <2>2, <4>1
    <3>3. phase = "scan" => bLeader = IsLeader(pos)'
      <4>1. IsLeader(pos)' = IsLeader(pos)
        BY DEF IsLeader, Internal, vars
      <4> QED BY <3>1, <4>1 DEF ScanOK
    <3>4. phase # "idle" => \A n \in 1..ScannedTo' :
             Internal(n)' => code[n].target \in listBranchTargets
      BY <2>2, <3>1 DEF ScanOK
    <3> QED BY <3>1, <3>2, <3>3, <3>4 DEF ScanOK
  <2> QED BY <2>1, <2>3
<1>4. CutOK'
  BY <1>1 DEF BlocksInv, CutOK, CutTo, IsLeader, IsBranchTarget, Internal, vars, lists
<1>5. RightOK' /\ LeftOK'
  BY <1>1 DEF BlocksInv, RightOK, LeftOK, Linked, Internal, vars, lists
<1>6. DotOK'
  BY <1>1 DEF BlocksInv, DotOK, Ports, vars, lists
<1> QED BY <1>2, <1>3, <1>4, <1>5, <1>6 DEF BlocksInv

-----------------------------------------------------------------------------
(* The properties.                                                         *)

\* BlocksInv is an invariant of every number of routines of every length.
THEOREM BlocksSafe == Spec => []BlocksInv
<1>1. BlocksInv /\ [Next]_vars => BlocksInv'
  <2> SUFFICES ASSUME BlocksInv, [Next]_vars PROVE BlocksInv'
    OBVIOUS
  <2>1. CASE Open
    BY <2>1, OpenInv
  <2>2. CASE Scan
    BY <2>2, ScanInv
  <2>3. CASE Scanned
    BY <2>3, ScannedInv
  <2>4. CASE Build
    BY <2>4, BuildInv
  <2>5. CASE Built
    BY <2>5, BuiltInv
  <2>6. CASE Link
    BY <2>6, LinkInv
  <2>7. CASE Write
    BY <2>7, WriteInv
  <2>8. CASE Clear
    BY <2>8, ClearInv
  <2>9. CASE UNCHANGED vars
    BY <2>9, StutterInv
  <2> QED BY <2>1, <2>2, <2>3, <2>4, <2>5, <2>6, <2>7, <2>8, <2>9 DEF Next, Terminated
<1> QED BY InitInv, <1>1, PTL DEF Spec

\* Every variable has its type; what a block has on its left or right is a block.
THEOREM BlocksTyping == Spec => []BlocksTypeOK
<1>1. BlocksInv => BlocksTypeOK
  BY DEF BlocksInv
<1> QED BY BlocksSafe, <1>1, PTL

LEMMA CutFollows == BlocksInv => BlocksCutRoutine
<1> SUFFICES ASSUME BlocksInv, phase = "written"
             PROVE  /\ listBasicBlocks[1].start = 1
                    /\ listBasicBlocks[Len(listBasicBlocks)].last = Len(code)
                    /\ \A k \in Blocks \ {1} :
                          listBasicBlocks[k].start = listBasicBlocks[k - 1].last + 1
                    /\ \A i \in 1..Len(code) : Internal(i) =>
                          /\ \E k \in Blocks : listBasicBlocks[k].start = code[i].target
                          /\ \E k \in Blocks : listBasicBlocks[k].last = i
  BY DEF BlocksCutRoutine
<1>1. /\ CutTo = Len(code) /\ ScannedTo = Len(code) /\ Len(code) \in Nat
      /\ Len(code) # 0 /\ Len(listBasicBlocks) \in Nat
  BY Routine, BlocksTyped DEF CutTo, ScannedTo
<1>2. /\ listBasicBlocks[1].start = 1
      /\ listBasicBlocks[Len(listBasicBlocks)].last = Len(code)
      /\ \A k \in Blocks \ {1} :
            listBasicBlocks[k].start = listBasicBlocks[k - 1].last + 1
      /\ Len(listBasicBlocks) \in Blocks
  BY <1>1 DEF BlocksInv, CutOK, Blocks
<1>3. ASSUME NEW i \in 1..Len(code), Internal(i)
      PROVE  \E k \in Blocks : listBasicBlocks[k].start = code[i].target
  BY <1>3, TargetBlock
<1>4. ASSUME NEW i \in 1..Len(code), Internal(i)
      PROVE  \E k \in Blocks : listBasicBlocks[k].last = i
  <2>1. CASE i = Len(code)
    BY <1>2, <2>1
  <2>2. CASE i # Len(code)
    <3>1. i + 1 \in 1..CutTo /\ i + 1 # 1 /\ i + 1 - 1 = i
      BY <1>1, <2>2
    <3>2. IsLeader(i + 1)
      BY <1>4, <3>1 DEF IsLeader
    <3>3. PICK k \in Blocks : listBasicBlocks[k].start = i + 1
      BY <3>1, <3>2 DEF BlocksInv, CutOK
    <3>4. k \in Blocks \ {1} /\ k - 1 \in Blocks
      BY <1>1, <1>2, <3>1, <3>3 DEF Blocks
    <3>5. listBasicBlocks[k - 1].last = i
      <4>1. listBasicBlocks[k].start = listBasicBlocks[k - 1].last + 1
        BY <1>2, <3>4
      <4>2. listBasicBlocks[k - 1].last \in Nat
        BY <3>4, BlocksTyped
      <4> QED BY <1>1, <3>3, <4>1, <4>2
    <3> QED BY <3>4, <3>5
  <2> QED BY <2>1, <2>2
<1> QED BY <1>2, <1>3, <1>4

\* Whatever earlier routines have left in listBranchTargets, the blocks that
\* WrtiteBasicBlockInfo writes follow each other, and a branch of the routine
\* leaves a block at its end and enters one at its start.
THEOREM BlocksCut == Spec => []BlocksCutRoutine
BY BlocksSafe, CutFollows, PTL

\* No two blocks start at the same instruction.
LEMMA StartsDiffer ==
  ASSUME BlocksInv, NEW k \in Blocks, NEW l \in Blocks,
         listBasicBlocks[k].start = listBasicBlocks[l].start
  PROVE  k = l
<1>1. \A a, b \in Blocks : a < b => listBasicBlocks[a].start < listBasicBlocks[b].start
  <2> SUFFICES ASSUME NEW a \in Blocks, NEW b \in Blocks, a < b
               PROVE  listBasicBlocks[a].start < listBasicBlocks[b].start
    OBVIOUS
  <2>1. /\ listBasicBlocks[a].start <= listBasicBlocks[a].last
        /\ listBasicBlocks[a].last < listBasicBlocks[b].start
    BY DEF BlocksInv, CutOK
  <2>2. /\ listBasicBlocks[a].start \in Nat /\ listBasicBlocks[a].last \in Nat
        /\ listBasicBlocks[b].start \in Nat
    BY BlocksTyped
  <2> QED BY <2>1, <2>2
<1>2. k \in Nat /\ l \in Nat /\ listBasicBlocks[k].start \in Nat
  BY BlocksTyped DEF Blocks
<1> QED BY <1>1, <1>2

LEMMA FlowFollows == BlocksInv => FlowShown
<1> SUFFICES ASSUME BlocksInv, phase = "written"
             PROVE  {<<e.from, e.to>> : e \in dot} =
                      {p \in Blocks \X Blocks :
                          listBasicBlocks[p[2]].start
                              \in Successors(listBasicBlocks[p[1]].last)}
  BY DEF FlowShown
<1> DEFINE b == listBasicBlocks
<1>1. dot = UNION {Ports(k) : k \in Blocks}
  BY DEF BlocksInv, DotOK
<1>2. \A k \in Blocks : \A l : (\E e \in Ports(k) : e.from = k /\ e.to = l) <=>
                                (l # Null /\ (l = b[k].left \/ l = b[k].right))
  <2> SUFFICES ASSUME NEW k \in Blocks, NEW l
               PROVE  (\E e \in Ports(k) : e.from = k /\ e.to = l) <=>
                         (l # Null /\ (l = b[k].left \/ l = b[k].right))
    OBVIOUS
  <2>1. PICK F, T : Ports(k) =
           (IF b[k].left = Null THEN {} ELSE {[from |-> k, to |-> b[k].left, label |-> F]})
           \cup (IF b[k].right = Null THEN {}
                 ELSE {[from |-> k, to |-> b[k].right, label |-> T]})
    BY DEF Ports
  <2>2. \A e \in Ports(k) : /\ e.from = k
                            /\ \/ b[k].left # Null /\ e.to = b[k].left
                               \/ b[k].right # Null /\ e.to = b[k].right
    BY <2>1
  <2>3. b[k].left # Null => \E e \in Ports(k) : e.from = k /\ e.to = b[k].left
    <3> DEFINE d == [from |-> k, to |-> b[k].left, label |-> F]
    <3>1. b[k].left # Null => d \in Ports(k)
      BY <2>1
    <3>2. d.from = k /\ d.to = b[k].left
      OBVIOUS
    <3> QED BY <3>1, <3>2
  <2>4. b[k].right # Null => \E e \in Ports(k) : e.from = k /\ e.to = b[k].right
    <3> DEFINE d == [from |-> k, to |-> b[k].right, label |-> T]
    <3>1. b[k].right # Null => d \in Ports(k)
      BY <2>1
    <3>2. d.from = k /\ d.to = b[k].right
      OBVIOUS
    <3> QED BY <3>1, <3>2
  <2> QED BY <2>2, <2>3, <2>4
<1>3. \A k \in Blocks : \A e \in Ports(k) : e.from = k
  BY DEF Ports
<1>4. ASSUME NEW k \in Blocks, NEW l \in Blocks
      PROVE  (l = b[k].left \/ l = b[k].right) <=> b[l].start \in Successors(b[k].last)
  <2>1. /\ CutTo = Len(code) /\ Len(code) \in Nat /\ Len(b) \in Nat
        /\ l \in Nat /\ l # Null /\ k \in Nat
        /\ b[k].last \in Nat /\ b[l].start \in Nat
    BY Routine, BlocksTyped DEF CutTo, Blocks, Null
  <2>2. l = b[k].left <=> Internal(b[k].last) /\ b[l].start = code[b[k].last].target
    <3>1. IF Internal(b[k].last)
          THEN b[k].left \in Blocks /\ b[b[k].left].start = code[b[k].last].target
          ELSE b[k].left = Null
      BY DEF BlocksInv, LeftOK, Linked
    <3> QED BY <2>1, <3>1, StartsDiffer
  <2>3. l = b[k].right <=> /\ code[b[k].last].fall /\ b[k].last < Len(code)
                           /\ b[l].start = b[k].last + 1
    <3>1. b[k].right = IF k < Len(b) /\ code[b[k].last].fall THEN k + 1 ELSE Null
      BY DEF BlocksInv, RightOK
    <3>2. CASE k < Len(b)
      <4>1. k + 1 \in Blocks /\ k + 1 \in Blocks \ {1} /\ k + 1 - 1 = k
        BY <2>1, <3>2 DEF Blocks
      <4>2. b[k + 1].start = b[k].last + 1
        <5>1. \A j \in Blocks \ {1} : b[j].start = b[j - 1].last + 1
          BY DEF BlocksInv, CutOK
        <5>2. ASSUME NEW j \in Blocks \ {1}, j - 1 = k PROVE b[j].start = b[k].last + 1
          BY <5>1, <5>2
        <5> QED BY <2>1, <4>1, <5>2
      <4>3. b[k + 1].start <= Len(code)
        <5>1. b[k + 1].start <= b[k + 1].last /\ b[k + 1].last <= Len(code)
          BY <2>1, <4>1 DEF BlocksInv, CutOK
        <5>2. b[k + 1].start \in Nat /\ b[k + 1].last \in Nat
          BY <4>1, BlocksTyped
        <5> QED BY <2>1, <5>1, <5>2
      <4>4. b[k].last < Len(code)
        BY <2>1, <4>2, <4>3
      <4>5. l = k + 1 <=> b[l].start = b[k].last + 1
        BY <4>1, <4>2, StartsDiffer
      <4> QED BY <2>1, <3>1, <3>2, <4>4, <4>5
    <3>3. CASE ~ (k < Len(b))
      <4>1. k = Len(b)
        BY <2>1, <3>3 DEF Blocks
      <4>2. b[k].last = Len(code)
        <5>1. CutTo # 0
          BY <2>1, Routine
        <5> QED BY <2>1, <4>1, <5>1 DEF BlocksInv, CutOK
      <4> QED BY <2>1, <3>1, <3>3, <4>2
    <3> QED BY <3>2, <3>3
  <2>4. b[l].start \in Successors(b[k].last) <=>
           \/ /\ code[b[k].last].fall /\ b[k].last < Len(code)
              /\ b[l].start = b[k].last + 1
           \/ Internal(b[k].last) /\ b[l].start = code[b[k].last].target
    BY DEF Successors
  <2> QED BY <2>2, <2>3, <2>4
<1>5. ASSUME NEW e \in dot
      PROVE  /\ e.from \in Blocks /\ e.to \in Blocks
             /\ b[e.to].start \in Successors(b[e.from].last)
  <2>1. PICK k \in Blocks : e \in Ports(k)
    BY <1>1
  <2>2. e.from = k /\ e.to # Null /\ (e.to = b[k].left \/ e.to = b[k].right)
    BY <1>2, <1>3, <2>1
  <2>3. e.to \in Blocks
    BY <2>2, BlocksTyped
  <2> QED BY <1>4, <2>2, <2>3
<1>6. ASSUME NEW k \in Blocks, NEW l \in Blocks, b[l].start \in Successors(b[k].last)
      PROVE  \E e \in dot : e.from = k /\ e.to = l
  <2>1. l # Null
    BY BlocksTyped DEF Blocks, Null
  <2>2. PICK e \in Ports(k) : e.from = k /\ e.to = l
    BY <1>2, <1>4, <1>6, <2>1
  <2> QED BY <1>1, <2>2
<1> HIDE DEF b
<1> DEFINE Shown == {<<e.from, e.to>> : e \in dot}
           Flow == {p \in Blocks \X Blocks : b[p[2]].start \in Successors(b[p[1]].last)}
<1>7. Shown \subseteq Flow
  BY <1>5
<1>8. Flow \subseteq Shown
  <2> SUFFICES ASSUME NEW p \in Flow PROVE p \in Shown
    OBVIOUS
  <2>1. /\ p = <<p[1], p[2]>> /\ p[1] \in Blocks /\ p[2] \in Blocks
        /\ b[p[2]].start \in Successors(b[p[1]].last)
    OBVIOUS
  <2>2. PICK e \in dot : e.from = p[1] /\ e.to = p[2]
    BY <1>6, <2>1
  <2> QED BY <2>1, <2>2
<1> QED BY <1>7, <1>8 DEF b

\* The file has an edge between two blocks exactly if control can go from the
\* end of the first one to the start of the second.
THEOREM FlowIsShown == Spec => []FlowShown
BY BlocksSafe, FlowFollows, PTL
=============================================================================
