--------------------------- MODULE Viewer_proofs ---------------------------
(***************************************************************************)
(* Proofs about GraphView: the selection, the table that follows it, and   *)
(* the walk over the functions that can be reached, for all call graphs    *)
(* and every depth of the stack.                                           *)
(***************************************************************************)
EXTENDS Viewer, DataLemmas, FiniteSetTheorems

----------------------------------------------------------------------------
(* Sequences as sets.                                                      *)

LEMMA ToSetOfSeq ==
  ASSUME NEW s \in Seq(Nat)
  PROVE  /\ Len(s) \in Nat /\ DOMAIN s = 1 .. Len(s)
         /\ ToSet(s) = {s[i] : i \in 1 .. Len(s)}
         /\ \A i : Contains(s, i) <=> i \in ToSet(s)
         /\ s # <<>> => s[1] \in ToSet(s) /\ Head(s) = s[1] /\ 1 \in 1 .. Len(s)
<1>1. Len(s) \in Nat /\ DOMAIN s = 1 .. Len(s)
  OBVIOUS
<1>2. ToSet(s) = {s[i] : i \in 1 .. Len(s)}
  BY <1>1 DEF ToSet
<1>3. s # <<>> => 1 \in 1 .. Len(s) /\ Head(s) = s[1]
  OBVIOUS
<1> QED BY <1>1, <1>2, <1>3 DEF Contains

LEMMA AddTupleProperties ==
  ASSUME NEW s \in Seq(Nat), NEW i \in Nat
  PROVE  /\ AddTuple(s, i) \in Seq(Nat) /\ AddTuple(s, i) # <<>>
         /\ ToSet(AddTuple(s, i)) = ToSet(s) \cup {i}
         /\ s # <<>> => Head(AddTuple(s, i)) = Head(s)
         /\ Contains(s, i) => AddTuple(s, i) = s
<1>1. CASE Contains(s, i)
  <2>1. AddTuple(s, i) = s /\ i \in ToSet(s)
    BY <1>1, ToSetOfSeq DEF AddTuple
  <2>2. s # <<>>
    BY <2>1 DEF ToSet
  <2> QED BY <2>1, <2>2
<1>2. CASE ~ Contains(s, i)
  <2> DEFINE a == Append(s, i)
  <2>1. AddTuple(s, i) = a
    BY <1>2 DEF AddTuple
  <2>2. /\ Len(s) \in Nat /\ a \in Seq(Nat) /\ Len(a) = Len(s) + 1
        /\ a[Len(s) + 1] = i /\ \A k \in 1 .. Len(s) : a[k] = s[k]
    OBVIOUS
  <2> HIDE DEF a
  <2>3. /\ \A k \in 1 .. Len(a) : k = Len(s) + 1 \/ k \in 1 .. Len(s)
        /\ \A k \in 1 .. Len(s) : k \in 1 .. Len(a)
        /\ Len(s) + 1 \in 1 .. Len(a)
    BY <2>2
  <2>4. ToSet(a) = ToSet(s) \cup {i}
    <3>1. ToSet(a) = {a[k] : k \in 1 .. Len(a)} /\ ToSet(s) = {s[k] : k \in 1 .. Len(s)}
      BY <2>2, ToSetOfSeq
    <3>2. ASSUME NEW x \in ToSet(a) PROVE x \in ToSet(s) \cup {i}
      BY <2>2, <2>3, <3>1
    <3>3. ASSUME NEW x \in ToSet(s) PROVE x \in ToSet(a)
      BY <2>2, <2>3, <3>1
    <3>4. i \in ToSet(a)
      BY <2>2, <2>3, <3>1
    <3> QED BY <3>2, <3>3, <3>4
  <2>5. a # <<>>
    BY <2>2
  <2>6. s # <<>> => Head(a) = Head(s)
    <3>1. s # <<>> => Head(s) = s[1] /\ 1 \in 1 .. Len(s)
      BY ToSetOfSeq
    <3>2. Head(a) = a[1]
      BY <2>2, <2>5, ToSetOfSeq
    <3> QED BY <2>2, <3>1, <3>2
  <2> QED BY <1>2, <2>1, <2>2, <2>4, <2>5, <2>6
<1> QED BY <1>1, <1>2

LEMMA RemoveTupleProperties ==
  ASSUME NEW s \in Seq(Nat), NEW i \in Nat
  PROVE  /\ RemoveTuple(s, i) \in Seq(Nat)
         /\ ToSet(RemoveTuple(s, i)) \subseteq ToSet(s)
         /\ s # <<>> /\ selectedTab = 0 => RemoveTuple(s, i) # <<>>
         /\ s # <<>> /\ i # Head(s) =>
               RemoveTuple(s, i) # <<>> /\ Head(RemoveTuple(s, i)) = Head(s)
         /\ ~ Contains(s, i) => RemoveTuple(s, i) = s
<1>1. CASE ~ Contains(s, i)
  BY <1>1 DEF RemoveTuple
<1>2. CASE Contains(s, i)
  <2> DEFINE r == RemoveFirst(s, i)
  <2>1. PICK k \in 1 .. Len(s) : s[k] = i /\ r = RemoveAt(s, k)
    BY <1>2, RemoveFirstProperties
  <2>2. /\ r \in Seq(Nat) /\ Len(r) = Len(s) - 1
        /\ \A j \in 1 .. Len(s) - 1 : r[j] = IF j < k THEN s[j] ELSE s[j + 1]
    BY <2>1, RemoveAtProperties
  <2>3. RemoveTuple(s, i) = IF r = <<>> /\ selectedTab = 0 THEN <<i>> ELSE r
    <3>1. Head(<<i>>) = i
      OBVIOUS
    <3> QED BY <1>2, <3>1 DEF RemoveTuple, Refilled
  <2> HIDE DEF r
  <2>4. i \in ToSet(s)
    BY <1>2, ToSetOfSeq
  <2>5. ToSet(r) \subseteq ToSet(s)
    <3>1. ToSet(r) = {r[j] : j \in 1 .. Len(s) - 1} /\ ToSet(s) = {s[j] : j \in 1 .. Len(s)}
      BY <2>2, ToSetOfSeq
    <3>2. \A j \in 1 .. Len(s) - 1 : j \in 1 .. Len(s) /\ j + 1 \in 1 .. Len(s)
      BY ToSetOfSeq
    <3> QED BY <2>2, <3>1, <3>2
  <2>6. ASSUME s # <<>>, i # Head(s) PROVE r # <<>> /\ Head(r) = Head(s)
    <3>1. Head(s) = s[1] /\ Len(s) \in Nat
      BY <2>6, ToSetOfSeq
    <3>2. k # 1
      BY <2>1, <2>6, <3>1
    <3>3. 1 < k /\ 1 \in 1 .. Len(s) - 1
      BY <3>1, <3>2
    <3>4. r # <<>> /\ r[1] = s[1]
      BY <2>2, <3>3
    <3>5. Head(r) = r[1]
      BY <2>2, <3>4, ToSetOfSeq
    <3> QED BY <3>1, <3>4, <3>5
  <2>7. ToSet(<<i>>) = {i} /\ <<i>> \in Seq(Nat) /\ <<i>> # <<>>
    BY DEF ToSet
  <2> QED BY <1>2, <2>2, <2>3, <2>4, <2>5, <2>6, <2>7
<1> QED BY <1>1, <1>2

LEMMA ClearTuplesProperties ==
  ASSUME NEW s \in Seq(Nat), s # <<>>, selectedTab = 0
  PROVE  /\ ClearTuples(s) \in Seq(Nat) /\ ClearTuples(s) # <<>>
         /\ ToSet(ClearTuples(s)) \subseteq ToSet(s)
         /\ Head(ClearTuples(s)) = Head(s)
<1>1. ClearTuples(s) = <<Head(s)>>
  BY DEF ClearTuples, Refilled
<1>2. Head(s) = s[1] /\ s[1] \in ToSet(s) /\ s[1] \in Nat
  BY ToSetOfSeq
<1>3. ToSet(<<s[1]>>) = {s[1]} /\ <<s[1]>> \in Seq(Nat) /\ Head(<<s[1]>>) = s[1] /\ <<s[1]>> # <<>>
  BY <1>2 DEF ToSet
<1> QED BY <1>1, <1>2, <1>3

LEMMA SetTupleProperties ==
  ASSUME NEW s, NEW i \in Nat
  PROVE  /\ SetTuple(s, i) \in Seq(Nat) /\ SetTuple(s, i) # <<>>
         /\ ToSet(SetTuple(s, i)) = {i} /\ Head(SetTuple(s, i)) = i
BY DEF SetTuple, ToSet

----------------------------------------------------------------------------
(* The items of a view.                                                    *)

LEMMA ItemsOfView ==
  ASSUME ViewerTypeOK, NEW v \in Views
  PROVE  \E n \in 1 .. MaxStack :
            Items(v) = 1 .. n /\ \A i \in 1 .. n : graph[v][i] \in Seq(1 .. n)
<1>1. graph[v] \in StaticGraphs \cup DynamicGraphs
  BY DEF ViewerTypeOK
<1> QED BY <1>1, ViewerAssumption DEF Items

LEMMA ItemsAreNumbers ==
  ASSUME ViewerTypeOK, NEW v \in Views
  PROVE  Items(v) \subseteq Nat /\ 1 \in Items(v) /\ NoItem \notin Items(v)
<1>1. PICK n \in 1 .. MaxStack : Items(v) = 1 .. n
  BY ItemsOfView
<1>2. n \in Nat \ {0}
  BY ViewerAssumption
<1> QED BY <1>1, <1>2 DEF NoItem

LEMMA CalleesOfItem ==
  ASSUME ViewerTypeOK, NEW i \in Items("static")
  PROVE  /\ graph["static"][i] \in Seq(Items("static"))
         /\ Len(graph["static"][i]) \in Nat
         /\ \A m \in 1 .. Len(graph["static"][i]) : graph["static"][i][m] \in Items("static")
         /\ ToSet(graph["static"][i]) \subseteq Items("static")
         /\ \A j \in ToSet(graph["static"][i]) :
               \E m \in 1 .. Len(graph["static"][i]) : graph["static"][i][m] = j
         /\ \A m \in 1 .. Len(graph["static"][i]) :
               graph["static"][i][m] \in ToSet(graph["static"][i])
<1> DEFINE s == graph["static"][i]
<1>1. "static" \in Views
  BY DEF Views
<1>2. s \in Seq(Items("static"))
  BY <1>1, ItemsOfView
<1> HIDE DEF s
<1>3. /\ Len(s) \in Nat /\ DOMAIN s = 1 .. Len(s)
      /\ \A m \in 1 .. Len(s) : s[m] \in Items("static")
  BY <1>2
<1> QED BY <1>2, <1>3 DEF ToSet, s

----------------------------------------------------------------------------
(* What can be reached.                                                    *)

LEMMA ReachLemma ==
  ASSUME ViewerTypeOK, NEW i \in Items("static")
  PROVE  /\ Reach(i) \subseteq Items("static") /\ i \in Reach(i)
         /\ Closed(Reach(i))
         /\ \A S \in SUBSET Items("static") : i \in S /\ Closed(S) => Reach(i) \subseteq S
<1>1. Reach(i) \subseteq Items("static") /\ i \in Reach(i)
  BY DEF Reach
<1>2. Closed(Reach(i))
  <2> SUFFICES ASSUME NEW j \in Reach(i), NEW k \in ToSet(graph["static"][j])
               PROVE  k \in Reach(i)
    BY DEF Closed
  <2>1. j \in Items("static")
    BY <1>1
  <2>2. k \in Items("static")
    BY <2>1, CalleesOfItem
  <2>3. ASSUME NEW S \in SUBSET Items("static"), i \in S, Closed(S) PROVE k \in S
    <3>1. j \in S
      BY <2>3 DEF Reach
    <3> QED BY <2>3, <3>1 DEF Closed
  <2> QED BY <2>2, <2>3 DEF Reach
<1>3. ASSUME NEW S \in SUBSET Items("static"), i \in S, Closed(S) PROVE Reach(i) \subseteq S
  BY <1>3 DEF Reach
<1> QED BY <1>1, <1>2, <1>3

\* A callee of what is reached is reached, and so is all it reaches.
LEMMA ReachCallee ==
  ASSUME ViewerTypeOK, NEW i \in Items("static"), NEW j \in Reach(i),
         NEW k \in ToSet(graph["static"][j])
  PROVE  k \in Reach(i) /\ k \in Items("static") /\ Reach(k) \subseteq Reach(i)
<1>1. k \in Reach(i) /\ k \in Items("static")
  BY ReachLemma DEF Closed
<1> QED BY <1>1, ReachLemma

\* A function reaches itself and what its callees reach.
LEMMA ReachSplit ==
  ASSUME ViewerTypeOK, NEW i \in Items("static"), NEW j \in Reach(i), j # i
  PROVE  \E k \in ToSet(graph["static"][i]) : j \in Reach(k)
<1> DEFINE g == graph["static"]
           S == {i} \cup {l \in Items("static") : \E k \in ToSet(g[i]) : l \in Reach(k)}
<1>1. S \in SUBSET Items("static") /\ i \in S
  OBVIOUS
<1>2. Closed(S)
  <2> SUFFICES ASSUME NEW l \in S, NEW m \in ToSet(g[l]) PROVE m \in S
    BY DEF Closed
  <2>1. m \in Items("static")
    BY <1>1, CalleesOfItem
  <2>2. CASE l = i
    <3>1. m \in Reach(m)
      BY <2>1, ReachLemma
    <3> QED BY <2>1, <2>2, <3>1
  <2>3. CASE l # i
    <3>1. PICK k \in ToSet(g[i]) : l \in Reach(k)
      BY <2>3
    <3>2. k \in Items("static")
      BY CalleesOfItem
    <3>3. m \in Reach(k)
      BY <3>1, <3>2, ReachCallee
    <3> QED BY <2>1, <3>1, <3>3
  <2> QED BY <2>2, <2>3
<1> HIDE DEF S
<1>3. j \in S
  BY <1>1, <1>2, ReachLemma
<1> QED BY <1>3 DEF S

\* A function is recursive only if one of its callees is: without a mark on what
\* was visited, the walk goes round a cycle for good.
LEMMA RecursiveCallee ==
  ASSUME ViewerTypeOK, NEW i \in Items("static"), Recursive(i)
  PROVE  \E c \in ToSet(graph["static"][i]) : Recursive(c)
<1>0. PICK j \in Reach(i) : \E k \in ToSet(graph["static"][j]) : j \in Reach(k)
  BY DEF Recursive
<1>1. PICK k \in ToSet(graph["static"][j]) : j \in Reach(k)
  BY <1>0
<1>2. j \in Items("static")
  BY ReachLemma
<1>3. k \in Items("static")
  BY <1>2, CalleesOfItem
<1>4. CASE j = i
  <2>1. Recursive(k)
    BY <1>1, <1>4 DEF Recursive
  <2> QED BY <1>4, <2>1
<1>5. CASE j # i
  <2>1. PICK c \in ToSet(graph["static"][i]) : j \in Reach(c)
    BY <1>5, ReachSplit
  <2>2. Recursive(c)
    BY <1>1, <2>1 DEF Recursive
  <2> QED BY <2>2
<1> QED BY <1>4, <1>5

\* A call that came back from each of its callees has done with its function.
LEMMA DoneWithCallees ==
  ASSUME ViewerTypeOK, NEW i \in Items("static"),
         walk.kind = "select" => i \in ToSet(focus["static"]),
         \A m \in 1 .. Len(graph["static"][i]) : graph["static"][i][m] \in Done
  PROVE  i \in Done
<1>1. \A c \in ToSet(graph["static"][i]) : c \in Done
  BY CalleesOfItem
<1>2. ~ Recursive(i)
  BY <1>1, RecursiveCallee DEF Done
<1>3. ASSUME walk.kind = "select", NEW j \in Reach(i) PROVE j \in ToSet(focus["static"])
  <2>1. CASE j = i
    BY <1>3, <2>1
  <2>2. CASE j # i
    <3>1. PICK c \in ToSet(graph["static"][i]) : j \in Reach(c)
      BY <2>2, ReachSplit
    <3> QED BY <1>1, <1>3, <3>1 DEF Done
  <2> QED BY <2>1, <2>2
<1> QED BY <1>2, <1>3 DEF Done

\* While the graph and the walk stay and the selection grows, what is done with
\* stays done with.
LEMMA DoneStays ==
  ASSUME graph' = graph, walk'.kind = walk.kind,
         ToSet(focus["static"]) \subseteq ToSet(focus'["static"])
  PROVE  Done \subseteq Done'
<1>1. \A j : Reach(j)' = Reach(j)
  BY DEF Reach, Closed, Items
<1>2. \A i : Recursive(i)' <=> Recursive(i)
  BY <1>1 DEF Recursive
<1> QED BY <1>1, <1>2 DEF Done, Items

----------------------------------------------------------------------------
(* Events between two walks.                                               *)

LEMMA InvParts == ViewerInv => ViewerTypeOK /\ SelectionShown /\ RememberedIsFirst /\ WalkOK
BY DEF ViewerInv

LEMMA ViewerInitial == Init => ViewerInv
<1> SUFFICES ASSUME Init PROVE ViewerInv
  OBVIOUS
<1>1. PICK s \in StaticGraphs, d \in DynamicGraphs : graph = [static |-> s, dynamic |-> d]
  BY DEF Init
<1>2. graph \in [Views -> StaticGraphs \cup DynamicGraphs]
  BY <1>1 DEF Views
<1>3. /\ selectedTab = 0 /\ focus = [v \in Views |-> <<1>>]
      /\ curFocus = [v \in Views |-> NoItem] /\ menu = NoItem /\ walk = NoWalk
  BY DEF Init
<1>4. ViewerTypeOK
  <2>1. <<1>> \in Seq(Nat) /\ NoItem \in Nat
    BY DEF NoItem
  <2>2. walk \in [kind : {"none", "show", "select"}, root : Nat,
                  stack : Seq([node : Nat, next : Nat]), kept : Seq(Nat)]
    BY <1>3, <2>1 DEF NoWalk
  <2> QED BY <1>2, <1>3, <2>1, <2>2 DEF ViewerTypeOK
<1>5. SelectionShown
  <2>1. "static" \in Views /\ ToSet(<<1>>) = {1}
    BY DEF Views, ToSet
  <2>2. \A v \in Views : 1 \in Items(v)
    BY <1>4, ItemsAreNumbers
  <2>3. \A v \in Views : focus[v] = <<1>>
    BY <1>3
  <2>4. \A v \in Views : ToSet(focus[v]) \subseteq Items(v)
    BY <2>1, <2>2, <2>3
  <2>5. focus["static"] # <<>>
    BY <2>1, <2>3
  <2> QED BY <2>4, <2>5 DEF SelectionShown
<1>6. RememberedIsFirst
  BY <1>3 DEF RememberedIsFirst
<1>7. WalkOK
  BY <1>3 DEF WalkOK, Walking, NoWalk
<1> QED BY <1>4, <1>5, <1>6, <1>7 DEF ViewerInv

\* Another selection s of view v, with c remembered, keeps the invariant if it
\* is one of that view, and begins with c.
LEMMA NewSelection ==
  ASSUME ViewerInv, ~ Walking, NEW v \in Views, NEW s \in Seq(Nat), NEW c \in Nat,
         ToSet(s) \subseteq Items(v), v = "static" => s # <<>>,
         c # NoItem => s # <<>> /\ c = Head(s),
         focus' = [focus EXCEPT ![v] = s], curFocus' = [curFocus EXCEPT ![v] = c],
         UNCHANGED <<selectedTab, graph, walk>>, menu' \in Items("static") \cup {NoItem}
  PROVE  ViewerInv'
<1>1. ViewerTypeOK /\ SelectionShown /\ RememberedIsFirst
  BY InvParts
<1>2. \A u \in Views : Items(u)' = Items(u)
  BY DEF Items
<1>3. ViewerTypeOK'
  <2>1. menu' \in Items("static")' \cup {NoItem}
    BY <1>2 DEF Views
  <2> QED BY <1>1, <2>1 DEF ViewerTypeOK
<1>4. SelectionShown'
  <2>1. \A u \in Views : ToSet(focus'[u]) \subseteq Items(u)
    BY <1>1 DEF ViewerTypeOK, SelectionShown
  <2>2. focus'["static"] # <<>>
    BY <1>1 DEF ViewerTypeOK, SelectionShown, Views
  <2> QED BY <1>2, <2>1, <2>2 DEF SelectionShown
<1>5. RememberedIsFirst'
  BY <1>1 DEF ViewerTypeOK, RememberedIsFirst
<1>6. WalkOK'
  BY DEF WalkOK, Walking
<1> QED BY <1>3, <1>4, <1>5, <1>6 DEF ViewerInv

LEMMA SameSelection ==
  ASSUME ViewerInv, ~ Walking, UNCHANGED <<focus, curFocus, graph, walk>>,
         selectedTab' \in {0, 1}, menu' \in Items("static") \cup {NoItem}
  PROVE  ViewerInv'
<1>1. ViewerTypeOK /\ SelectionShown /\ RememberedIsFirst
  BY InvParts
<1>2. \A u \in Views : Items(u)' = Items(u)
  BY DEF Items
<1>3. menu' \in Items("static")' \cup {NoItem}
  BY <1>2 DEF Views
<1>4. ViewerTypeOK' /\ RememberedIsFirst'
  BY <1>1, <1>3 DEF ViewerTypeOK, RememberedIsFirst
<1>5. SelectionShown'
  BY <1>1, <1>2 DEF SelectionShown
<1>6. WalkOK'
  BY DEF WalkOK, Walking
<1> QED BY <1>4, <1>5, <1>6 DEF ViewerInv

LEMMA ClickInv ==
  ASSUME ViewerInv, ~ Walking, NEW i \in Items(Shown), NEW ctrl \in BOOLEAN, Click(i, ctrl)
  PROVE  ViewerInv'
<1> DEFINE v == Shown  s == focus[v]
<1>1. ViewerTypeOK /\ SelectionShown /\ RememberedIsFirst
  BY InvParts
<1>2. v \in Views /\ (v = "static" <=> selectedTab = 0)
  BY <1>1 DEF Shown, Views, ViewerTypeOK
<1>3. /\ s \in Seq(Nat) /\ i \in Nat /\ NoItem \in Nat /\ i # NoItem
      /\ ToSet(s) \subseteq Items(v) /\ i \in Items(v)
      /\ v = "static" => s # <<>>
      /\ curFocus[v] \in Nat /\ [curFocus EXCEPT ![v] = curFocus[v]] = curFocus
      /\ curFocus[v] # NoItem => s # <<>> /\ curFocus[v] = Head(s)
  <2>1. i \in Nat /\ i # NoItem
    BY <1>1, <1>2, ItemsAreNumbers
  <2>2. v = "static" => s # <<>>
    BY <1>1 DEF SelectionShown
  <2> QED BY <1>1, <1>2, <2>1, <2>2 DEF ViewerTypeOK, SelectionShown, RememberedIsFirst, NoItem
<1>4. UNCHANGED <<selectedTab, graph, walk>> /\ menu' = NoItem
  BY DEF Click
<1> HIDE DEF v, s
<1>5. CASE curFocus[v] # i /\ ~ ctrl
  <2>1. focus' = [focus EXCEPT ![v] = SetTuple(s, i)] /\ curFocus' = [curFocus EXCEPT ![v] = i]
    BY <1>5 DEF Click, Select, v, s
  <2>2. /\ SetTuple(s, i) \in Seq(Nat) /\ SetTuple(s, i) # <<>>
        /\ ToSet(SetTuple(s, i)) \subseteq Items(v) /\ Head(SetTuple(s, i)) = i
    BY <1>3, SetTupleProperties
  <2> HIDE DEF SetTuple
  <2> QED BY <1>2, <1>3, <1>4, <2>1, <2>2, NewSelection
<1>6. CASE ctrl /\ (curFocus[v] = i \/ Contains(s, i))
  <2> DEFINE r == RemoveTuple(s, i)
  <2>1. /\ focus' = [focus EXCEPT ![v] = r]
        /\ curFocus' = IF curFocus[v] = i THEN [curFocus EXCEPT ![v] = NoItem] ELSE curFocus
    BY <1>6 DEF Click, Select, v, s
  <2>2. /\ r \in Seq(Nat) /\ ToSet(r) \subseteq Items(v)
        /\ v = "static" => r # <<>>
        /\ s # <<>> /\ i # Head(s) => r # <<>> /\ Head(r) = Head(s)
    BY <1>2, <1>3, RemoveTupleProperties
  <2> HIDE DEF r
  <2>3. CASE curFocus[v] = i
    <3>1. curFocus' = [curFocus EXCEPT ![v] = NoItem]
      BY <2>1, <2>3
    <3>2. NoItem # NoItem => r # <<>> /\ NoItem = Head(r)
      OBVIOUS
    <3> QED BY <1>2, <1>3, <1>4, <2>1, <2>2, <3>1, <3>2, NewSelection
  <2>4. CASE curFocus[v] # i
    <3>1. curFocus[v] # NoItem => r # <<>> /\ curFocus[v] = Head(r)
      BY <1>3, <2>2, <2>4
    <3>2. curFocus' = [curFocus EXCEPT ![v] = curFocus[v]]
      BY <1>3, <2>1, <2>4
    <3> QED BY <1>2, <1>3, <1>4, <2>1, <2>2, <3>1, <3>2, NewSelection
  <2> QED BY <2>3, <2>4
<1>7. CASE ctrl /\ curFocus[v] # i /\ ~ Contains(s, i)
  <2> DEFINE a == AddTuple(s, i)
  <2>1. /\ focus' = [focus EXCEPT ![v] = a] /\ curFocus' = [curFocus EXCEPT ![v] = curFocus[v]]
    BY <1>3, <1>7 DEF Click, Select, v, s
  <2>2. /\ a \in Seq(Nat) /\ a # <<>> /\ ToSet(a) \subseteq Items(v)
        /\ s # <<>> => Head(a) = Head(s)
    <3>1. /\ a \in Seq(Nat) /\ a # <<>> /\ ToSet(a) = ToSet(s) \cup {i}
          /\ s # <<>> => Head(a) = Head(s)
      BY <1>3, AddTupleProperties
    <3> QED BY <1>3, <3>1
  <2>3. /\ v = "static" => a # <<>>
        /\ curFocus[v] # NoItem => a # <<>> /\ curFocus[v] = Head(a)
    BY <1>3, <2>2
  <2> HIDE DEF a
  <2> QED BY <2>3, <1>2, <1>3, <1>4, <2>1, <2>2, NewSelection
<1>8. CASE curFocus[v] = i /\ ~ ctrl
  <2>1. UNCHANGED <<focus, curFocus>>
    BY <1>8 DEF Click, v, s
  <2>2. selectedTab' \in {0, 1}
    BY <1>1, <1>4 DEF ViewerTypeOK
  <2> QED BY <1>4, <2>1, <2>2, SameSelection
<1> QED BY <1>5, <1>6, <1>7, <1>8

LEMMA RightPressInv ==
  ASSUME ViewerInv, ~ Walking, NEW i \in Items(Shown), RightPress(i)
  PROVE  ViewerInv'
<1> DEFINE s == focus["static"]  r == ClearTuples(s)  c == curFocus["static"]
<1>1. ViewerTypeOK /\ SelectionShown /\ RememberedIsFirst /\ "static" \in Views
  BY InvParts DEF Views
<1>2. /\ selectedTab = 0 /\ focus' = [focus EXCEPT !["static"] = r] /\ menu' = i
      /\ UNCHANGED <<selectedTab, graph, walk>> /\ curFocus' = curFocus
      /\ i \in Items("static")
  BY DEF RightPress, Select, Shown
<1>3. /\ s \in Seq(Nat) /\ s # <<>> /\ ToSet(s) \subseteq Items("static")
      /\ c \in Nat /\ curFocus = [curFocus EXCEPT !["static"] = c]
      /\ c # NoItem => c = Head(s)
  BY <1>1 DEF ViewerTypeOK, SelectionShown, RememberedIsFirst
<1>4. /\ r \in Seq(Nat) /\ r # <<>> /\ ToSet(r) \subseteq ToSet(s) /\ Head(r) = Head(s)
  BY <1>2, <1>3, ClearTuplesProperties
<1> HIDE DEF s, r, c
<1> QED BY <1>1, <1>2, <1>3, <1>4, NewSelection

LEMMA SetGraphInv ==
  ASSUME ViewerInv, ~ Walking, NEW g \in DynamicGraphs, SetGraph(g)
  PROVE  ViewerInv'
<1>1. ViewerTypeOK /\ SelectionShown /\ RememberedIsFirst /\ "static" \in Views
  BY InvParts DEF Views
<1>2. /\ graph' = [graph EXCEPT !["static"] = g]
      /\ focus' = [focus EXCEPT !["static"] = <<1>>]
      /\ curFocus' = [curFocus EXCEPT !["static"] = NoItem]
      /\ menu' = NoItem /\ UNCHANGED <<selectedTab, walk>>
  BY DEF SetGraph, Select, SetTuple
<1>3. <<1>> \in Seq(Nat) /\ NoItem \in Nat /\ <<1>> # <<>> /\ ToSet(<<1>>) = {1}
  BY DEF NoItem, ToSet
<1>4. ViewerTypeOK'
  BY <1>1, <1>2, <1>3 DEF ViewerTypeOK
<1>5. 1 \in DOMAIN g
  BY ViewerAssumption
<1>6. SelectionShown'
  <2>1. /\ focus'["static"] = <<1>> /\ graph'["static"] = g
        /\ \A v \in Views : v # "static" => focus'[v] = focus[v] /\ graph'[v] = graph[v]
    BY <1>1, <1>2 DEF ViewerTypeOK
  <2>2. \A v \in Views : ToSet(focus'[v]) \subseteq DOMAIN graph'[v]
    BY <1>1, <1>3, <1>5, <2>1 DEF SelectionShown, Items
  <2> QED BY <1>3, <2>1, <2>2 DEF SelectionShown, Items
<1>7. RememberedIsFirst'
  <2>1. /\ curFocus'["static"] = NoItem
        /\ \A v \in Views : v # "static" => focus'[v] = focus[v] /\ curFocus'[v] = curFocus[v]
    BY <1>1, <1>2 DEF ViewerTypeOK
  <2> QED BY <1>1, <2>1 DEF RememberedIsFirst
<1>8. WalkOK'
  BY <1>2 DEF WalkOK, Walking
<1> QED BY <1>4, <1>6, <1>7, <1>8 DEF ViewerInv

----------------------------------------------------------------------------
(* The steps of a walk.                                                    *)

Call == [node : Nat, next : Nat]

\* A function joins the static selection, or none does.
LEMMA SelectionGrows ==
  ASSUME ViewerInv, NEW i \in Items("static"), NEW kind,
         focus' = IF kind = "select"
                  THEN [focus EXCEPT !["static"] = AddTuple(focus["static"], i)]
                  ELSE focus,
         UNCHANGED <<graph, curFocus>>
  PROVE  /\ focus' \in [Views -> Seq(Nat)]
         /\ SelectionShown' /\ RememberedIsFirst'
         /\ ToSet(focus'["static"]) =
               ToSet(focus["static"]) \cup (IF kind = "select" THEN {i} ELSE {})
<1> DEFINE s == focus["static"]  a == AddTuple(s, i)
<1>1. ViewerTypeOK /\ SelectionShown /\ RememberedIsFirst /\ "static" \in Views
  BY InvParts DEF Views
<1>2. i \in Nat /\ s \in Seq(Nat) /\ s # <<>> /\ ToSet(s) \subseteq Items("static")
  BY <1>1, ItemsAreNumbers DEF ViewerTypeOK, SelectionShown
<1>3. /\ a \in Seq(Nat) /\ a # <<>> /\ ToSet(a) = ToSet(s) \cup {i}
      /\ Head(a) = Head(s)
  BY <1>2, AddTupleProperties
<1>4. \A v \in Views : Items(v)' = Items(v)
  BY DEF Items
<1>5. CASE kind # "select"
  <2>1. focus' = focus
    BY <1>5
  <2> QED BY <1>1, <1>4, <1>5, <2>1 DEF ViewerTypeOK, SelectionShown, RememberedIsFirst
<1>6. CASE kind = "select"
  <2>1. /\ focus' = [focus EXCEPT !["static"] = a] /\ focus \in [Views -> Seq(Nat)]
        /\ s = focus["static"]
    BY <1>1, <1>6 DEF ViewerTypeOK
  <2> HIDE DEF a, s
  <2>2. /\ focus' \in [Views -> Seq(Nat)] /\ focus'["static"] = a
        /\ \A v \in Views : v # "static" => focus'[v] = focus[v]
    BY <1>1, <1>3, <2>1
  <2>3. \A v \in Views : ToSet(focus'[v]) \subseteq Items(v)
    BY <1>1, <1>2, <1>3, <2>2 DEF SelectionShown
  <2>4. SelectionShown'
    BY <1>3, <1>4, <2>2, <2>3 DEF SelectionShown
  <2>5. RememberedIsFirst'
    BY <1>1, <1>3, <2>1, <2>2 DEF RememberedIsFirst
  <2>6. ToSet(focus'["static"]) = ToSet(focus["static"]) \cup {i}
    BY <1>3, <2>1, <2>2
  <2> QED BY <1>6, <2>2, <2>4, <2>5, <2>6
<1> QED BY <1>5, <1>6

\* The menu entry starts a walk with one call, on the item of the menu.
LEMMA ChooseInv ==
  ASSUME ViewerInv, ~ Walking, NEW kind \in {"show", "select"}, Choose(kind)
  PROVE  ViewerInv'
<1> DEFINE s == focus["static"]
<1>1. ViewerTypeOK /\ SelectionShown /\ RememberedIsFirst /\ "static" \in Views
  BY InvParts DEF Views
<1>2. /\ menu \in Items("static") /\ menu \in Nat /\ s \in Seq(Nat)
      /\ selectedTab' = selectedTab /\ graph' = graph /\ curFocus' = curFocus
      /\ menu' = NoItem
  BY <1>1, ItemsAreNumbers DEF Choose, ViewerTypeOK
<1>3. walk' = [kind |-> kind, root |-> menu, stack |-> <<[node |-> menu, next |-> 1]>>,
               kept |-> s]
  BY DEF Choose, Frame
<1>4. focus' = IF kind = "select"
               THEN [focus EXCEPT !["static"] = AddTuple(focus["static"], menu)]
               ELSE focus
  BY DEF Choose, Select
<1>5. UNCHANGED <<graph, curFocus>>
  BY <1>2
<1>6. /\ focus' \in [Views -> Seq(Nat)] /\ SelectionShown' /\ RememberedIsFirst'
      /\ ToSet(focus'["static"]) = ToSet(s) \cup (IF kind = "select" THEN {menu} ELSE {})
  BY <1>2, <1>4, <1>5, SelectionGrows
<1>7. ViewerTypeOK'
  <2>1. <<[node |-> menu, next |-> 1]>> \in Seq([node : Nat, next : Nat])
    BY <1>2
  <2>2. walk' \in [kind : {"none", "show", "select"}, root : Nat,
                   stack : Seq([node : Nat, next : Nat]), kept : Seq(Nat)]
    BY <1>2, <1>3, <2>1
  <2> QED BY <1>1, <1>2, <1>6, <2>2 DEF ViewerTypeOK, Items
<1>8. Reach(walk.root)' = Reach(menu) /\ menu \in Reach(menu)
  <2>1. walk'.root = menu
    BY <1>3
  <2>2. Reach(walk.root)' = Reach(menu)
    BY <1>2, <2>1 DEF Reach, Closed, Items
  <2> QED BY <1>1, <1>2, <2>2, ReachLemma
<1>9. WalkOK'
  <2> DEFINE st == walk'.stack
  <2>1. /\ walk'.kind = kind /\ walk'.root = menu /\ walk'.kept = s
        /\ st = <<[node |-> menu, next |-> 1]>> /\ Len(st) = 1 /\ DOMAIN st = {1}
        /\ st[1].node = menu /\ st[1].next = 1
    BY <1>3
  <2>2. 1 <= MaxStack
    BY <1>1, ItemsOfView, ViewerAssumption
  <2>3. Items("static")' = Items("static")
    BY <1>2 DEF Items
  <2>4. CallOK(1)'
    <3>1. Len(graph["static"][menu]) \in Nat
      BY <1>1, <1>2, CalleesOfItem
    <3>2. /\ st[1].node \in Reach(walk.root)'
          /\ walk'.kind = "select" => st[1].node \in ToSet(focus'["static"])
      BY <1>6, <1>8, <2>1
    <3>3. \A m \in 1 .. (st[1].next - 1) : FALSE
      BY <2>1
    <3>4. st[1].next \in 1 .. Len(graph'["static"][st[1].node]) + 1
      BY <1>2, <2>1, <3>1
    <3> QED BY <2>1, <3>2, <3>3, <3>4 DEF CallOK
  <2>5. IF walk'.kind = "select"
        THEN /\ ToSet(walk'.kept) \subseteq ToSet(focus'["static"])
             /\ ToSet(focus'["static"]) \subseteq ToSet(walk'.kept) \cup Reach(walk.root)'
        ELSE focus'["static"] = walk'.kept
    BY <1>4, <1>6, <1>8, <2>1
  <2>6. \A k \in DOMAIN st : CallOK(k)'
    BY <2>1, <2>4
  <2> QED BY <1>2, <2>1, <2>2, <2>3, <2>5, <2>6 DEF WalkOK
<1> QED BY <1>6, <1>7, <1>9 DEF ViewerInv

\* The stack of a walk, and the call on top of it.
LEMMA WalkFacts ==
  ASSUME ViewerInv, Walking
  PROVE  LET st == walk.stack IN
         /\ ViewerTypeOK /\ walk.root \in Items("static")
         /\ st \in Seq(Call) /\ Len(st) \in Nat \ {0} /\ Len(st) <= MaxStack
         /\ \A k \in 1 .. Len(st) : CallOK(k) /\ st[k] \in Call /\ st[k].node \in Items("static")
         /\ st[1].node = walk.root
         /\ Top = st[Len(st)] /\ Len(Callees) \in Nat
         /\ Top.next \in 1 .. Len(Callees) + 1
         /\ \A m \in 1 .. Len(Callees) :
               Callees[m] \in Items("static") /\ Callees[m] \in Reach(walk.root)
         /\ Front(st) \in Seq(Call) /\ Len(Front(st)) = Len(st) - 1
         /\ \A k \in 1 .. Len(st) - 1 : Front(st)[k] = st[k]
<1> DEFINE st == walk.stack
<1>1. ViewerTypeOK /\ WalkOK
  BY InvParts
<1>2. st \in Seq(Call) /\ st # <<>>
  BY <1>1 DEF ViewerTypeOK, Call, Walking
<1>3. /\ Len(st) \in Nat \ {0} /\ DOMAIN st = 1 .. Len(st)
      /\ \A k \in 1 .. Len(st) : st[k] \in Call
  BY <1>2
<1>4. /\ Len(st) <= MaxStack /\ walk.root \in Items("static") /\ st[1].node = walk.root
      /\ \A k \in 1 .. Len(st) : CallOK(k)
  BY <1>1, <1>3 DEF WalkOK
<1>5. \A k \in 1 .. Len(st) : st[k].node \in Reach(walk.root)
  BY <1>4 DEF CallOK
<1>6. \A k \in 1 .. Len(st) : st[k].node \in Items("static")
  BY <1>1, <1>4, <1>5, ReachLemma
<1>7. Top = st[Len(st)] /\ Len(st) \in 1 .. Len(st)
  BY <1>3 DEF Top, Last
<1>8. Top.node \in Items("static") /\ Top.node \in Reach(walk.root)
  BY <1>5, <1>6, <1>7
<1>9. Len(Callees) \in Nat /\ Top.next \in 1 .. Len(Callees) + 1
  <2>1. Len(Callees) \in Nat
    BY <1>1, <1>8, CalleesOfItem DEF Callees
  <2> QED BY <1>4, <1>7, <2>1 DEF CallOK, Callees
<1>10. ASSUME NEW m \in 1 .. Len(Callees)
       PROVE  Callees[m] \in Items("static") /\ Callees[m] \in Reach(walk.root)
  <2>1. Callees[m] \in ToSet(graph["static"][Top.node])
    BY <1>1, <1>8, CalleesOfItem DEF Callees
  <2> QED BY <1>1, <1>4, <1>8, <2>1, ReachCallee
<1>11. /\ Front(st) \in Seq(Call) /\ Len(Front(st)) = Len(st) - 1
       /\ \A k \in 1 .. Len(st) - 1 : Front(st)[k] = st[k]
  BY <1>2, <1>3 DEF Front
<1> QED BY <1>1, <1>2, <1>3, <1>4, <1>6, <1>7, <1>9, <1>10, <1>11

\* A walk that goes on keeps the invariant if its stack does.
LEMMA WalkGoesOn ==
  ASSUME ViewerInv, Walking, NEW T \in Seq(Call), T # <<>>, Len(T) <= MaxStack,
         T[1].node = walk.root,
         walk' = [walk EXCEPT !.stack = T],
         UNCHANGED <<selectedTab, graph, curFocus, menu>>,
         focus' \in [Views -> Seq(Nat)], SelectionShown', RememberedIsFirst',
         ToSet(focus["static"]) \subseteq ToSet(focus'["static"]),
         walk.kind = "select" =>
            ToSet(focus'["static"]) \subseteq ToSet(focus["static"]) \cup Reach(walk.root),
         walk.kind # "select" => focus' = focus,
         \A k \in 1 .. Len(T) : CallOK(k)'
  PROVE  ViewerInv'
<1>1. ViewerTypeOK /\ WalkOK
  BY InvParts
<1>2. walk \in [kind : {"none", "show", "select"}, root : Nat, stack : Seq(Call), kept : Seq(Nat)]
  BY <1>1 DEF ViewerTypeOK, Call
<1>3. /\ walk' \in [kind : {"none", "show", "select"}, root : Nat, stack : Seq(Call),
                    kept : Seq(Nat)]
      /\ walk'.kind = walk.kind /\ walk'.root = walk.root /\ walk'.stack = T
      /\ walk'.kept = walk.kept
  BY <1>2
<1>4. /\ selectedTab' = selectedTab /\ graph' = graph /\ curFocus' = curFocus
      /\ menu' = menu /\ Items("static")' = Items("static")
  BY DEF Items
<1>5. ViewerTypeOK'
  BY <1>1, <1>3, <1>4 DEF ViewerTypeOK, Call
<1>6. Reach(walk.root)' = Reach(walk.root)
  BY <1>3, <1>4 DEF Reach, Closed, Items
<1>7. DOMAIN T = 1 .. Len(T)
  OBVIOUS
<1>8. IF walk'.kind = "select"
      THEN /\ ToSet(walk'.kept) \subseteq ToSet(focus'["static"])
           /\ ToSet(focus'["static"]) \subseteq ToSet(walk'.kept) \cup Reach(walk.root)'
      ELSE focus'["static"] = walk'.kept
  BY <1>1, <1>3, <1>6 DEF WalkOK
<1>9. walk'.root \in Items("static")'
  BY <1>1, <1>3, <1>4 DEF WalkOK
<1>10. WalkOK'
  BY <1>3, <1>7, <1>8, <1>9 DEF WalkOK
<1> QED BY <1>5, <1>10 DEF ViewerInv

\* The loop comes to the next callee, selects it, and calls itself on it.
LEMMA VisitInv ==
  ASSUME ViewerInv, Walking, Visit
  PROVE  ViewerInv'
<1> DEFINE st == walk.stack  L == Len(st)  c == Callees  i == c[Top.next]
           up == [node |-> Top.node, next |-> Top.next + 1]
           T == Front(st) \o <<up, [node |-> i, next |-> 1]>>
<1>1. /\ ViewerTypeOK /\ walk.root \in Items("static")
      /\ st \in Seq(Call) /\ L \in Nat \ {0} /\ L <= MaxStack
      /\ \A k \in 1 .. L : CallOK(k) /\ st[k] \in Call
      /\ st[1].node = walk.root /\ Top = st[L] /\ Len(c) \in Nat
      /\ Top.next \in 1 .. Len(c) + 1
      /\ Front(st) \in Seq(Call) /\ Len(Front(st)) = L - 1
      /\ \A k \in 1 .. L - 1 : Front(st)[k] = st[k]
  BY WalkFacts
<1>2. Top.next <= Len(c) /\ L < MaxStack
  BY DEF Visit
<1>3. Top.next \in 1 .. Len(c) /\ Top.next \in Nat /\ Top \in Call
  BY <1>1, <1>2
<1>4. i \in Items("static") /\ i \in Reach(walk.root) /\ i \in Nat
  <2>1. i \in Items("static") /\ i \in Reach(walk.root)
    BY <1>3, WalkFacts
  <2> QED BY <1>1, <2>1, ItemsAreNumbers DEF Views
<1>5. walk' = [walk EXCEPT !.stack = T]
  <2>1. [Top EXCEPT !.next = @ + 1] = up
    BY <1>3 DEF Call
  <2> QED BY <2>1 DEF Visit, Pushed, Frame
<1>6. /\ T \in Seq(Call) /\ Len(T) = L + 1 /\ T[L] = up
      /\ T[L + 1] = [node |-> i, next |-> 1]
      /\ \A k \in 1 .. L - 1 : T[k] = st[k]
  <2> DEFINE a == Front(st)  b == [node |-> i, next |-> 1]
  <2>1. up \in Call /\ b \in Call
    BY <1>3, <1>4 DEF Call
  <2>2. a \in Seq(Call) /\ Len(a) = L - 1 /\ \A k \in 1 .. L - 1 : a[k] = st[k]
    BY <1>1
  <2> HIDE DEF a, b, up, L
  <2>3. /\ <<up, b>> \in Seq(Call) /\ Len(<<up, b>>) = 2
        /\ <<up, b>>[1] = up /\ <<up, b>>[2] = b
    BY <2>1
  <2> DEFINE u == <<up, b>>
  <2> HIDE DEF u
  <2>4. /\ a \o u \in Seq(Call) /\ Len(a \o u) = Len(a) + Len(u)
        /\ \A k \in 1 .. Len(a) + Len(u) :
              (a \o u)[k] = IF k <= Len(a) THEN a[k] ELSE u[k - Len(a)]
    BY <2>2, <2>3 DEF u
  <2>5. L - 1 + 2 = L + 1 /\ L - (L - 1) = 1 /\ (L + 1) - (L - 1) = 2 /\ L \in 1 .. L + 1
        /\ L + 1 \in 1 .. L + 1 /\ ~ (L <= L - 1) /\ ~ (L + 1 <= L - 1)
        /\ \A k \in 1 .. L - 1 : k <= L - 1 /\ k \in 1 .. L + 1
    BY <1>1 DEF L
  <2>6. Len(u) = 2 /\ u[1] = up /\ u[2] = b
    BY <2>3 DEF u
  <2>7. Len(a) + Len(u) = L + 1
    BY <2>2, <2>5, <2>6
  <2>8. a \o u \in Seq(Call) /\ Len(a \o u) = L + 1
    BY <2>4, <2>7
  <2>10. (a \o u)[L] = up
    <3>1. (a \o u)[L] = u[L - (L - 1)]
      BY <2>2, <2>4, <2>5, <2>7
    <3> QED BY <2>5, <2>6, <3>1
  <2>11. (a \o u)[L + 1] = b
    <3>1. (a \o u)[L + 1] = u[(L + 1) - (L - 1)]
      BY <2>2, <2>4, <2>5, <2>7
    <3> QED BY <2>5, <2>6, <3>1
  <2>9. \A k \in 1 .. L - 1 : (a \o u)[k] = st[k]
    BY <2>2, <2>4, <2>5, <2>7
  <2> QED BY <2>8, <2>9, <2>10, <2>11 DEF u, a, b
<1>7. /\ UNCHANGED <<selectedTab, graph, curFocus, menu>>
      /\ UNCHANGED <<graph, curFocus>> /\ graph' = graph
  BY DEF Visit
<1>8. focus' = IF walk.kind = "select"
               THEN [focus EXCEPT !["static"] = AddTuple(focus["static"], i)]
               ELSE focus
  BY DEF Visit, Select
<1>9. /\ focus' \in [Views -> Seq(Nat)]
      /\ SelectionShown' /\ RememberedIsFirst'
      /\ ToSet(focus'["static"]) =
            ToSet(focus["static"]) \cup (IF walk.kind = "select" THEN {i} ELSE {})
  <2> HIDE DEF i
  <2> QED BY <1>4, <1>7, <1>8, SelectionGrows
<1>10. walk'.kind = walk.kind /\ walk'.root = walk.root /\ walk'.stack = T
  BY <1>1, <1>5 DEF ViewerTypeOK
<1>11. Done \subseteq Done'
  BY <1>7, <1>9, <1>10, DoneStays
<1>12. Reach(walk.root)' = Reach(walk.root)
  BY <1>7, <1>10 DEF Reach, Closed, Items
<1> HIDE DEF T, up, i
<1>13. ASSUME NEW k \in 1 .. L + 1 PROVE CallOK(k)'
  <2>1. CASE k \in 1 .. L - 1
    <3>1. CallOK(k) /\ k # L /\ k # L + 1 /\ T[k] = st[k] /\ k + 1 \in 1 .. L
      <4>1. L \in Nat
        BY <1>1
      <4>2. k \in 1 .. L /\ k # L /\ k # L + 1 /\ k + 1 \in 1 .. L
        BY ONLY <2>1, <4>1
      <4>3. CallOK(k)
        BY <1>1, <4>2
      <4> QED BY <1>6, <2>1, <4>2, <4>3
    <3>2. T[k + 1].node = st[k + 1].node
      <4>1. CASE k + 1 = L
        BY <1>1, <1>6, <4>1 DEF up
      <4>2. CASE k + 1 # L
        <5>1. k + 1 \in 1 .. L - 1
          BY <1>1, <2>1, <4>2
        <5> QED BY <1>6, <5>1
      <4> QED BY <4>1, <4>2
    <3>3. /\ st[k].node \in Reach(walk.root)
          /\ walk.kind = "select" => st[k].node \in ToSet(focus["static"])
          /\ st[k].next \in 1 .. Len(graph["static"][st[k].node]) + 1
          /\ st[k].next - 1 >= 1
          /\ st[k + 1].node = graph["static"][st[k].node][st[k].next - 1]
          /\ \A m \in 1 .. st[k].next - 1 - 1 : graph["static"][st[k].node][m] \in Done
      BY <3>1 DEF CallOK
    <3>4. /\ T[k].node \in Reach(walk.root)'
          /\ walk'.kind = "select" => T[k].node \in ToSet(focus'["static"])
      BY <1>9, <1>10, <1>12, <3>1, <3>3
    <3>5. /\ T[k].next \in 1 .. Len(graph'["static"][T[k].node]) + 1
          /\ T[k].next - 1 >= 1
          /\ T[k + 1].node = graph'["static"][T[k].node][T[k].next - 1]
      BY <1>7, <3>1, <3>2, <3>3
    <3>6. \A m \in 1 .. T[k].next - 1 - 1 : graph'["static"][T[k].node][m] \in Done'
      BY <1>7, <1>11, <3>1, <3>3
    <3> QED BY <1>6, <1>10, <3>1, <3>4, <3>5, <3>6 DEF CallOK
  <2>2. CASE k = L
    <3>1. /\ k # L + 1 /\ T[k].node = Top.node /\ T[k].next = Top.next + 1
          /\ T[k + 1].node = i /\ graph'["static"][Top.node] = c
          /\ T[k].next - 1 = Top.next /\ T[k].next - 1 - 1 = Top.next - 1
      <4>1. k # L + 1 /\ T[k] = up /\ T[k + 1].node = i
        BY <1>1, <1>6, <2>2
      <4>2. up.node = Top.node /\ up.next = Top.next + 1
        BY DEF up
      <4>3. up.next - 1 = Top.next /\ up.next - 1 - 1 = Top.next - 1
        BY <1>3, <4>2
      <4>4. graph'["static"][Top.node] = c
        BY <1>7 DEF Callees
      <4> QED BY <4>1, <4>2, <4>3, <4>4
    <3>2. /\ Top.node \in Reach(walk.root)
          /\ walk.kind = "select" => Top.node \in ToSet(focus["static"])
          /\ \A m \in 1 .. Top.next - 1 : c[m] \in Done
      <4>1. CallOK(L) /\ Top = st[L]
        BY <1>1
      <4> QED BY <4>1 DEF CallOK, Callees
    <3>3. /\ T[k].node \in Reach(walk.root)'
          /\ walk'.kind = "select" => T[k].node \in ToSet(focus'["static"])
      BY <1>9, <1>10, <1>12, <3>1, <3>2
    <3>4. /\ T[k].next \in 1 .. Len(graph'["static"][T[k].node]) + 1
          /\ T[k].next - 1 >= 1
          /\ T[k + 1].node = graph'["static"][T[k].node][T[k].next - 1]
      <4> DEFINE t == Top.next  n == Len(c)
      <4>1. t \in 1 .. n /\ n \in Nat
        BY <1>1, <1>3
      <4> HIDE DEF t, n
      <4>2. t + 1 \in 1 .. n + 1 /\ t >= 1
        BY <4>1
      <4> QED BY <3>1, <4>2 DEF i, t, n
    <3>5. \A m \in 1 .. T[k].next - 1 - 1 : graph'["static"][T[k].node][m] \in Done'
      BY <1>11, <3>1, <3>2
    <3> QED BY <1>6, <1>10, <3>1, <3>3, <3>4, <3>5 DEF CallOK
  <2>3. CASE k = L + 1
    <3>1. T[k].node = i /\ T[k].next = 1 /\ graph'["static"][i] = graph["static"][i]
      BY <1>6, <1>7, <2>3
    <3>2. Len(graph["static"][i]) \in Nat
      BY <1>1, <1>4, CalleesOfItem
    <3>3. /\ T[k].node \in Reach(walk.root)'
          /\ walk'.kind = "select" => T[k].node \in ToSet(focus'["static"])
      BY <1>4, <1>9, <1>10, <1>12, <3>1
    <3>4. /\ T[k].next \in 1 .. Len(graph'["static"][T[k].node]) + 1
          /\ \A m \in 1 .. T[k].next - 1 : FALSE
      BY <3>1, <3>2
    <3> QED BY <1>6, <1>10, <2>3, <3>3, <3>4 DEF CallOK
  <2> QED BY <1>1, <2>1, <2>2, <2>3
<1>14. T # <<>> /\ Len(T) <= MaxStack /\ T[1].node = walk.root
  <2>1. Len(T) <= MaxStack /\ T # <<>>
    BY <1>1, <1>2, <1>6, ViewerAssumption
  <2>2. CASE L = 1
    <3>1. T[1] = up /\ up.node = Top.node
      BY <1>6, <2>2 DEF up
    <3>2. Top = st[1] /\ st[1].node = walk.root
      BY <1>1, <2>2
    <3> QED BY <2>1, <3>1, <3>2
  <2>3. CASE L # 1
    <3>1. L \in Nat \ {0}
      BY <1>1
    <3> HIDE DEF L
    <3>2. 1 \in 1 .. L - 1
      BY <2>3, <3>1
    <3>3. \A k \in 1 .. L - 1 : T[k] = st[k]
      BY <1>6
    <3>4. T[1] = st[1]
      BY <3>2, <3>3
    <3> HIDE DEF st
    <3> QED BY <1>1, <2>1, <3>4
  <2> QED BY <2>1, <2>2, <2>3
<1>15. /\ ToSet(focus["static"]) \subseteq ToSet(focus'["static"])
       /\ walk.kind = "select" =>
             ToSet(focus'["static"]) \subseteq ToSet(focus["static"]) \cup Reach(walk.root)
       /\ walk.kind # "select" => focus' = focus
  BY <1>4, <1>8, <1>9
<1> QED BY <1>5, <1>6, <1>7, <1>9, <1>13, <1>14, <1>15, WalkGoesOn

\* A call that has come to the end of its loop returns to its caller, which has
\* then done with one callee more; the outermost one ends the walk.
LEMMA ReturnInv ==
  ASSUME ViewerInv, Walking, Return
  PROVE  ViewerInv'
<1> DEFINE st == walk.stack  L == Len(st)  T == Front(st)
<1>1. /\ ViewerTypeOK /\ SelectionShown /\ RememberedIsFirst
      /\ walk.root \in Items("static")
      /\ st \in Seq(Call) /\ L \in Nat \ {0} /\ L <= MaxStack
      /\ \A k \in 1 .. L : CallOK(k) /\ st[k] \in Call
      /\ st[1].node = walk.root /\ Top = st[L] /\ Len(Callees) \in Nat
      /\ Top.node \in Items("static") /\ Top.next \in 1 .. Len(Callees) + 1
      /\ T \in Seq(Call) /\ Len(T) = L - 1 /\ \A k \in 1 .. L - 1 : T[k] = st[k]
  <2>1. SelectionShown /\ RememberedIsFirst
    BY InvParts
  <2>2. L \in 1 .. L
    BY WalkFacts
  <2> QED BY <2>1, <2>2, WalkFacts
<1>2. /\ selectedTab' = selectedTab /\ graph' = graph /\ focus' = focus
      /\ curFocus' = curFocus /\ menu' = menu /\ Items("static")' = Items("static")
  BY DEF Return, Items
<1>3. SelectionShown' /\ RememberedIsFirst'
  BY <1>1, <1>2 DEF SelectionShown, RememberedIsFirst, Items
<1>4. CASE L = 1
  <2>1. walk' = NoWalk
    BY <1>4 DEF Return
  <2>2. walk' \in [kind : {"none", "show", "select"}, root : Nat,
                   stack : Seq([node : Nat, next : Nat]), kept : Seq(Nat)]
    BY <2>1 DEF NoWalk, NoItem
  <2>3. ViewerTypeOK'
    BY <1>1, <1>2, <2>2 DEF ViewerTypeOK
  <2>4. WalkOK'
    BY <2>1 DEF WalkOK, Walking, NoWalk
  <2> QED BY <1>3, <2>3, <2>4 DEF ViewerInv
<1>5. CASE L # 1
  <2>1. walk' = [walk EXCEPT !.stack = T]
    BY <1>5 DEF Return
  <2>2. walk'.kind = walk.kind /\ walk'.root = walk.root /\ walk'.stack = T
    BY <1>1, <2>1 DEF ViewerTypeOK
  <2>3. Done \subseteq Done'
    BY <1>2, <2>2, DoneStays
  <2>4. Reach(walk.root)' = Reach(walk.root)
    BY <1>2, <2>2 DEF Reach, Closed, Items
  <2>5. Top.node \in Done
    <3>1. CallOK(L)
      BY <1>1
    <3>2. /\ walk.kind = "select" => Top.node \in ToSet(focus["static"])
          /\ \A m \in 1 .. Top.next - 1 : Callees[m] \in Done
      BY <1>1, <3>1 DEF CallOK, Callees
    <3>3. Top.next - 1 = Len(Callees)
      BY <1>1 DEF Return
    <3>4. \A m \in 1 .. Len(graph["static"][Top.node]) : graph["static"][Top.node][m] \in Done
      BY <3>2, <3>3 DEF Callees
    <3> QED BY <1>1, <3>2, <3>4, DoneWithCallees
  <2> HIDE DEF T
  <2>6. ASSUME NEW k \in 1 .. L - 1 PROVE CallOK(k)'
    <3>1. CallOK(k) /\ k # L /\ T[k] = st[k] /\ k + 1 \in 1 .. L
      <4>1. L \in Nat
        BY <1>1
      <4>2. k \in 1 .. L /\ k # L /\ k + 1 \in 1 .. L
        BY ONLY <2>6, <4>1
      <4> QED BY <1>1, <2>6, <4>2
    <3>2. /\ st[k].node \in Reach(walk.root)
          /\ walk.kind = "select" => st[k].node \in ToSet(focus["static"])
          /\ st[k].next \in 1 .. Len(graph["static"][st[k].node]) + 1
          /\ st[k].next - 1 >= 1
          /\ st[k + 1].node = graph["static"][st[k].node][st[k].next - 1]
          /\ \A m \in 1 .. st[k].next - 1 - 1 : graph["static"][st[k].node][m] \in Done
      BY <3>1 DEF CallOK
    <3>3. /\ T[k].node \in Reach(walk.root)'
          /\ walk'.kind = "select" => T[k].node \in ToSet(focus'["static"])
          /\ T[k].next \in 1 .. Len(graph'["static"][T[k].node]) + 1
      BY <1>2, <2>2, <2>4, <3>1, <3>2
    <3>4. \A m \in 1 .. T[k].next - 1 - 1 : graph'["static"][T[k].node][m] \in Done'
      BY <1>2, <2>3, <3>1, <3>2
    <3>5. CASE k # L - 1
      <4>1. k + 1 \in 1 .. L - 1
        BY <1>1, <3>5
      <4>2. T[k + 1] = st[k + 1]
        BY <1>1, <4>1 DEF T
      <4>3. /\ T[k].next - 1 >= 1
            /\ T[k + 1].node = graph'["static"][T[k].node][T[k].next - 1]
        BY <1>2, <3>1, <3>2, <4>2
      <4>4. Len(T) = L - 1
        BY <1>1 DEF T
      <4> QED BY <2>2, <3>3, <3>4, <3>5, <4>3, <4>4 DEF CallOK
    <3>6. CASE k = L - 1
      <4>1. Top = st[k + 1]
        BY <1>1, <3>6
      <4>2. graph["static"][st[k].node][st[k].next - 1] \in Done
        BY <2>5, <3>2, <4>1
      <4>3. \A m \in 1 .. st[k].next - 1 : m = st[k].next - 1 \/ m \in 1 .. st[k].next - 1 - 1
        <5>1. st[k].next \in Nat
          <6>1. st[k] \in Call
            BY <1>1, <3>1
          <6> QED BY <6>1 DEF Call
        <5> QED BY <5>1
      <4>4. \A m \in 1 .. T[k].next - 1 : graph'["static"][T[k].node][m] \in Done'
        BY <1>2, <2>3, <3>1, <3>2, <4>2, <4>3
      <4>5. Len(T) = L - 1
        BY <1>1 DEF T
      <4> QED BY <2>2, <3>3, <3>6, <4>4, <4>5 DEF CallOK
    <3> QED BY <3>5, <3>6
  <2>7. T \in Seq(Call) /\ T # <<>> /\ Len(T) <= MaxStack /\ Len(T) = L - 1
    <3>1. T \in Seq(Call) /\ Len(T) = L - 1
      BY <1>1 DEF T
    <3>2. L - 1 # 0 /\ L - 1 <= MaxStack
      BY <1>1, <1>5, ViewerAssumption
    <3> QED BY <3>1, <3>2
  <2>8. T[1].node = walk.root
    <3>1. L \in Nat \ {0}
      BY <1>1
    <3> HIDE DEF L
    <3>2. 1 \in 1 .. L - 1
      BY <1>5, <3>1
    <3>3. \A k \in 1 .. L - 1 : T[k] = st[k]
      BY <1>1 DEF T
    <3>4. T[1] = st[1]
      BY <3>2, <3>3
    <3> QED BY <1>1, <3>4
  <2>9. /\ UNCHANGED <<selectedTab, graph, curFocus, menu>>
        /\ focus' \in [Views -> Seq(Nat)]
        /\ ToSet(focus["static"]) \subseteq ToSet(focus'["static"])
        /\ walk.kind = "select" =>
              ToSet(focus'["static"]) \subseteq ToSet(focus["static"]) \cup Reach(walk.root)
        /\ walk.kind # "select" => focus' = focus
    BY <1>1, <1>2 DEF ViewerTypeOK
  <2>10. \A k \in 1 .. Len(T) : CallOK(k)'
    BY <2>6, <2>7
  <2> QED BY <1>3, <2>1, <2>7, <2>8, <2>9, <2>10, WalkGoesOn
<1> QED BY <1>4, <1>5

\* The stack is full: the exception ends the walk.
LEMMA OverflowInv ==
  ASSUME ViewerInv, Walking, Overflow
  PROVE  ViewerInv'
<1>1. ViewerTypeOK /\ SelectionShown /\ RememberedIsFirst
  BY InvParts
<1>2. /\ walk' = NoWalk
      /\ UNCHANGED <<selectedTab, graph, focus, curFocus, table, menu>>
  BY DEF Overflow
<1>3. walk' \in [kind : {"none", "show", "select"}, root : Nat,
                 stack : Seq([node : Nat, next : Nat]), kept : Seq(Nat)]
  BY <1>2 DEF NoWalk, NoItem
<1>4. ViewerTypeOK'
  BY <1>1, <1>2, <1>3 DEF ViewerTypeOK, Items
<1>5. SelectionShown' /\ RememberedIsFirst'
  BY <1>1, <1>2 DEF SelectionShown, RememberedIsFirst, Items
<1>6. WalkOK'
  BY <1>2 DEF WalkOK, Walking, NoWalk
<1> QED BY <1>4, <1>5, <1>6 DEF ViewerInv

----------------------------------------------------------------------------
(* The specification.                                                      *)

LEMMA ViewerStep == ViewerInv /\ [Next]_vars => ViewerInv'
<1> SUFFICES ASSUME ViewerInv, [Next]_vars PROVE ViewerInv'
  OBVIOUS
<1>1. ViewerTypeOK /\ "static" \in Views
  BY InvParts DEF Views
<1>2. ASSUME ~ Walking, Event PROVE ViewerInv'
  <2>1. ASSUME NEW i \in Items(Shown), Hover(i) PROVE ViewerInv'
    <3>1. /\ UNCHANGED <<focus, curFocus, graph, walk>>
          /\ selectedTab' \in {0, 1} /\ menu' \in Items("static") \cup {NoItem}
      BY <1>1, <2>1 DEF Hover, ViewerTypeOK
    <3> QED BY <1>2, <3>1, SameSelection
  <2>2. ASSUME NEW i \in Items(Shown), RightPress(i) PROVE ViewerInv'
    BY <1>2, <2>2, RightPressInv
  <2>3. ASSUME NEW i \in Items(Shown), NEW ctrl \in BOOLEAN, Click(i, ctrl) PROVE ViewerInv'
    BY <1>2, <2>3, ClickInv
  <2>4. ASSUME NEW t \in {0, 1}, SelectTab(t) PROVE ViewerInv'
    <3>1. /\ UNCHANGED <<focus, curFocus, graph, walk>>
          /\ selectedTab' \in {0, 1} /\ menu' \in Items("static") \cup {NoItem}
      BY <2>4 DEF SelectTab
    <3> QED BY <1>2, <3>1, SameSelection
  <2>5. ASSUME NEW g \in DynamicGraphs, SetGraph(g) PROVE ViewerInv'
    BY <1>2, <2>5, SetGraphInv
  <2>6. ASSUME NEW kind \in {"show", "select"}, Choose(kind) PROVE ViewerInv'
    BY <1>2, <2>6, ChooseInv
  <2> QED BY <1>2, <2>1, <2>2, <2>3, <2>4, <2>5, <2>6 DEF Event
<1>3. ASSUME Walking, Visit \/ Overflow \/ Return PROVE ViewerInv'
  BY <1>3, VisitInv, OverflowInv, ReturnInv
<1>4. ASSUME UNCHANGED vars PROVE ViewerInv'
  <2>1. /\ selectedTab' = selectedTab /\ graph' = graph /\ focus' = focus
        /\ curFocus' = curFocus /\ menu' = menu /\ walk' = walk
    BY <1>4 DEF vars
  <2>2. ViewerTypeOK' /\ SelectionShown' /\ RememberedIsFirst'
    BY <2>1, InvParts DEF ViewerTypeOK, SelectionShown, RememberedIsFirst, Items
  <2>3. WalkOK'
    <3>1. WalkOK
      BY InvParts
    <3>2. \A j : Reach(j)' = Reach(j)
      BY <2>1 DEF Reach, Closed, Items
    <3>3. \A j : Recursive(j)' <=> Recursive(j)
      BY <2>1, <3>2 DEF Recursive
    <3>4. Done' = Done
      BY <2>1, <3>2, <3>3 DEF Done, Items
    <3>5. Reach(walk.root)' = Reach(walk.root)
      BY <2>1 DEF Reach, Closed, Items
    <3>6. \A k : CallOK(k)' <=> CallOK(k)
      BY <2>1, <3>4, <3>5 DEF CallOK
    <3> QED BY <2>1, <3>1, <3>5, <3>6 DEF WalkOK, Walking, Items
  <2> QED BY <2>2, <2>3 DEF ViewerInv
<1> QED BY <1>2, <1>3, <1>4 DEF Next

\* The inductive invariant of the viewer: types, the selection of both views, and
\* what a walk over the reachable functions has done at any moment of it.
THEOREM ViewerSafe == Spec => []ViewerInv
<1>1. Init => ViewerInv
  BY ViewerInitial
<1>2. ViewerInv /\ [Next]_vars => ViewerInv'
  BY ViewerStep
<1> QED BY <1>1, <1>2, PTL DEF Spec

\* The static view always has a selection, of items of the graph it shows: no
\* click, menu, load or walk empties it or leaves an item of the graph before.
THEOREM SelectionIsShown == Spec => []SelectionShown
<1>1. ViewerInv => SelectionShown
  BY InvParts
<1> QED BY <1>1, ViewerSafe, PTL

\* The item a FocusControl remembers, on which a plain click does nothing, is
\* the one its selection begins with.
THEOREM RememberedFirst == Spec => []RememberedIsFirst
<1>1. ViewerInv => RememberedIsFirst
  BY InvParts
<1> QED BY <1>1, ViewerSafe, PTL

----------------------------------------------------------------------------
(* What a step may never do.                                               *)

\* An operation that changes the static selection on tab 0 raises an event: the
\* table of the next state adds up the selection of the next state.
LEMMA SelectFollows ==
  ASSUME ViewerTypeOK, NEW v \in Views, NEW s, NEW event, Select(v, s, event),
         v = "static" => event \/ s = focus["static"],
         focus'["static"] # focus["static"], selectedTab = 0
  PROVE  table' = Aggregate("static", focus'["static"])
<1>1. /\ focus' = [focus EXCEPT ![v] = s]
      /\ table' = IF event /\ selectedTab = 0 THEN Aggregate(v, s) ELSE table
  BY DEF Select
<1>2. v = "static"
  BY <1>1 DEF ViewerTypeOK, Views
<1>3. focus'["static"] = s
  BY <1>1, <1>2 DEF ViewerTypeOK
<1> QED BY <1>1, <1>2, <1>3

LEMMA TableStep ==
  ASSUME ViewerInv, [Next]_vars,
         focus'["static"] # focus["static"], selectedTab = 0
  PROVE  table' = Aggregate("static", focus'["static"])
<1> DEFINE s == focus["static"]
<1>1. ViewerTypeOK /\ SelectionShown /\ "static" \in Views
  BY InvParts DEF Views
<1>2. s \in Seq(Nat) /\ Shown = "static" /\ Items("static") \subseteq Nat /\ s # <<>>
  BY <1>1, ItemsAreNumbers DEF ViewerTypeOK, Shown, SelectionShown
<1>3. ASSUME NEW i \in Items(Shown), NEW ctrl \in BOOLEAN, Click(i, ctrl)
      PROVE  table' = Aggregate("static", focus'["static"])
  <2>1. i \in Nat
    BY <1>2
  <2>2. CASE Select("static", SetTuple(s, i), TRUE)
    BY <1>1, <2>2, SelectFollows
  <2>3. CASE Select("static", RemoveTuple(s, i), Contains(s, i))
    <3>1. "static" = "static" => Contains(s, i) \/ RemoveTuple(s, i) = s
      BY <1>2, <2>1, RemoveTupleProperties
    <3> QED BY <1>1, <2>3, <3>1, SelectFollows
  <2>4. CASE Select("static", AddTuple(s, i), TRUE)
    BY <1>1, <2>4, SelectFollows
  <2>5. \/ Select("static", SetTuple(s, i), TRUE)
        \/ Select("static", RemoveTuple(s, i), Contains(s, i))
        \/ Select("static", AddTuple(s, i), TRUE)
    BY <1>2, <1>3 DEF Click
  <2> QED BY <2>2, <2>3, <2>4, <2>5
<1>4. ASSUME NEW i \in Items(Shown), RightPress(i)
      PROVE  table' = Aggregate("static", focus'["static"])
  <2>1. Select("static", ClearTuples(s), s # <<>>)
    BY <1>4 DEF RightPress
  <2>2. "static" = "static" => s # <<>> \/ ClearTuples(s) = s
    BY <1>2
  <2> QED BY <1>1, <2>1, <2>2, SelectFollows
<1>5. ASSUME NEW g \in DynamicGraphs, SetGraph(g)
      PROVE  table' = Aggregate("static", focus'["static"])
  <2>1. Select("static", SetTuple(Deselected("static"), 1), TRUE)
    BY <1>5 DEF SetGraph
  <2> QED BY <1>1, <2>1, SelectFollows
<1>6. ASSUME NEW i \in Nat, Select("static", AddTuple(s, i), ~ Contains(s, i))
      PROVE  table' = Aggregate("static", focus'["static"])
  <2>1. "static" = "static" => ~ Contains(s, i) \/ AddTuple(s, i) = s
    BY <1>2, AddTupleProperties
  <2> QED BY <1>1, <1>6, <2>1, SelectFollows
<1>7. ASSUME NEW kind \in {"show", "select"}, Choose(kind)
      PROVE  table' = Aggregate("static", focus'["static"])
  <2>1. Select("static", AddTuple(s, menu), ~ Contains(s, menu))
    BY <1>7 DEF Choose
  <2>2. menu \in Nat
    BY <1>1, <1>2, <1>7 DEF Choose, ViewerTypeOK
  <2> QED BY <1>6, <2>1, <2>2
<1>8. ASSUME Walking, Visit PROVE table' = Aggregate("static", focus'["static"])
  <2> DEFINE i == Callees[Top.next]
  <2>1. Select("static", AddTuple(s, i), ~ Contains(s, i))
    BY <1>8 DEF Visit
  <2>2. i \in Items("static")
    <3>1. Top.next \in 1 .. Len(Callees)
      BY <1>8, WalkFacts DEF Visit
    <3> QED BY <1>8, <3>1, WalkFacts
  <2>3. i \in Nat
    BY <1>2, <2>2
  <2> HIDE DEF i
  <2> QED BY <1>6, <2>1, <2>3
<1>9. Next
  BY DEF vars
<1>10. CASE ~ Walking /\ Event
  <2>1. ~ (\E i \in Items(Shown) : Hover(i)) /\ ~ (\E t \in {0, 1} : SelectTab(t))
    BY DEF Hover, SelectTab
  <2> QED BY <1>3, <1>4, <1>5, <1>7, <1>10, <2>1 DEF Event
<1>11. CASE Walking /\ (Visit \/ Overflow \/ Return)
  BY <1>8, <1>11 DEF Overflow, Return
<1> QED BY <1>9, <1>10, <1>11 DEF Next

\* When the selection of the static graph changes on tab 0, whoever changes it
\* and even in the middle of a walk, the function table shows the new selection.
THEOREM TableFollows == Spec => TableFollowsSelection
<1>1. ViewerInv /\ [Next]_vars =>
        [focus'["static"] # focus["static"] /\ selectedTab = 0
            => table' = Aggregate("static", focus'["static"])]_vars
  BY TableStep
<1> QED BY <1>1, ViewerSafe, PTL DEF Spec, TableFollowsSelection

\* Along the stack every function calls the next: a call reaches what is above.
LEMMA PathReaches ==
  ASSUME ViewerTypeOK, NEW n \in Nat, NEW f \in [1 .. n + 1 -> Items("static")],
         \A k \in 1 .. n : f[k + 1] \in ToSet(graph["static"][f[k]]),
         NEW x \in 1 .. n + 1
  PROVE  \A y \in x .. n + 1 : f[y] \in Reach(f[x])
<1> DEFINE N == n + 1 - x  P == {d \in 0 .. N : f[x + d] \in Reach(f[x])}
<1>1. N \in Nat /\ f[x] \in Items("static")
  OBVIOUS
<1>2. 0 \in P
  <2>1. x + 0 = x /\ 0 \in 0 .. N
    BY <1>1
  <2> QED BY <1>1, <2>1, ReachLemma
<1>3. ASSUME NEW d \in 1 .. N, d - 1 \in P PROVE d \in P
  <2> DEFINE k == x + (d - 1)
  <2>1. k \in 1 .. n /\ x + d = k + 1 /\ d \in 0 .. N
    OBVIOUS
  <2>2. f[k] \in Reach(f[x])
    BY <1>3
  <2> HIDE DEF k
  <2>3. f[k + 1] \in ToSet(graph["static"][f[k]])
    BY <2>1
  <2>4. f[k + 1] \in Reach(f[x])
    BY <1>1, <2>2, <2>3, ReachCallee
  <2> QED BY <2>1, <2>4
<1> HIDE DEF P
<1>4. \A d \in 0 .. N : d \in P
  BY <1>1, <1>2, <1>3, UpTo
<1> TAKE y \in x .. n + 1
<1>5. y - x \in 0 .. N /\ x + (y - x) = y
  OBVIOUS
<1>6. f[x + (y - x)] \in Reach(f[x])
  BY <1>4, <1>5 DEF P
<1> QED BY <1>5, <1>6

\* A full stack and the callee it has no room for are more calls than there are
\* functions: one of them occurs twice, and calls itself.
LEMMA OverflowRecursive ==
  ASSUME ViewerInv, Walking, Overflow
  PROVE  Recursive(walk.root) /\ Len(walk.stack) = MaxStack
<1> DEFINE st == walk.stack  L == Len(st)
           f == [k \in 1 .. L + 1 |-> IF k <= L THEN st[k].node ELSE Callees[Top.next]]
<1>1. /\ ViewerTypeOK /\ walk.root \in Items("static") /\ L \in Nat \ {0}
      /\ \A k \in 1 .. L : CallOK(k) /\ st[k].node \in Items("static")
      /\ Top = st[L] /\ Len(Callees) \in Nat /\ Top.next \in 1 .. Len(Callees) + 1
      /\ \A m \in 1 .. Len(Callees) :
            Callees[m] \in Items("static") /\ Callees[m] \in Reach(walk.root)
  BY WalkFacts
<1>2. L = MaxStack /\ Top.next \in 1 .. Len(Callees)
  BY <1>1 DEF Overflow
<1>3. f \in [1 .. L + 1 -> Items("static")]
  BY <1>1, <1>2
<1>4. ASSUME NEW k \in 1 .. L PROVE f[k + 1] \in ToSet(graph["static"][f[k]])
  <2>1. f[k] = st[k].node /\ k \in 1 .. L + 1 /\ k + 1 \in 1 .. L + 1 /\ CallOK(k)
    BY <1>1
  <2>2. CASE k = L
    <3>1. f[k + 1] = Callees[Top.next] /\ f[k] = Top.node
      BY <1>1, <2>1, <2>2
    <3>2. Callees[Top.next] \in ToSet(graph["static"][Top.node])
      <4>1. Top.node \in Items("static")
        BY <1>1
      <4> QED BY <1>1, <1>2, <4>1, CalleesOfItem DEF Callees
    <3> QED BY <3>1, <3>2
  <2>3. CASE k # L
    <3> DEFINE g == graph["static"][st[k].node]  m == st[k].next - 1
    <3>1. /\ st[k].next \in 1 .. Len(g) + 1 /\ m >= 1 /\ st[k + 1].node = g[m]
      BY <2>1, <2>3 DEF CallOK
    <3>2. st[k].node \in Items("static") /\ Len(g) \in Nat
      BY <1>1, CalleesOfItem
    <3>3. m \in 1 .. Len(g)
      BY <3>1, <3>2
    <3>4. g[m] \in ToSet(g)
      BY <1>1, <3>2, <3>3, CalleesOfItem
    <3>5. f[k + 1] = st[k + 1].node
      BY <1>1, <2>1, <2>3
    <3> QED BY <2>1, <3>1, <3>4, <3>5
  <2> QED BY <2>2, <2>3
<1>5. \A k \in 1 .. L : f[k] \in Reach(walk.root) /\ f[k] = st[k].node
  <2>1. \A k \in 1 .. L : k \in 1 .. L + 1 /\ f[k] = st[k].node
    BY <1>1
  <2> QED BY <1>1, <2>1 DEF CallOK
<1> HIDE DEF f
<1>6. PICK n \in 1 .. MaxStack : Items("static") = 1 .. n
  BY <1>1, ItemsOfView DEF Views
<1>7. PICK x, y \in 1 .. L + 1 : x # y /\ f[x] = f[y]
  <2>1. n \in Nat /\ L + 1 \in Nat /\ n < L + 1
    BY <1>1, <1>2, <1>6, ViewerAssumption
  <2>2. \A p \in Nat : IsFiniteSet(1 .. p) /\ Cardinality(1 .. p) = p
    <3> TAKE p \in Nat
    <3>1. 1 \in Int /\ p \in Int /\ (1 > p => p = 0) /\ p - 1 + 1 = p
      OBVIOUS
    <3> QED BY <3>1, FS_Interval
  <2> DEFINE A == 1 .. L + 1  B == 1 .. n
  <2>3. /\ IsFiniteSet(A) /\ IsFiniteSet(B) /\ Cardinality(B) < Cardinality(A)
        /\ f \in [A -> B]
    <3>1. IsFiniteSet(A) /\ Cardinality(A) = L + 1
      BY <2>1, <2>2
    <3>2. IsFiniteSet(B) /\ Cardinality(B) = n
      BY <2>1, <2>2
    <3> QED BY <1>3, <1>6, <2>1, <3>1, <3>2
  <2>4. \E x, y \in A : x # y /\ f[x] = f[y]
    <3> HIDE DEF A, B
    <3> QED BY <2>3, FS_PigeonHole
  <2> QED BY <2>4
<1>8. ASSUME NEW a \in 1 .. L + 1, NEW b \in 1 .. L + 1, a < b, f[a] = f[b]
      PROVE  Recursive(walk.root)
  <2>1. a \in 1 .. L /\ a + 1 \in 1 .. L + 1 /\ b \in a + 1 .. L + 1 /\ L \in Nat
    BY <1>1, <1>8
  <2>2. f[b] \in Reach(f[a + 1])
    BY <1>1, <1>3, <1>4, <2>1, PathReaches
  <2>3. f[a] \in Reach(walk.root) /\ f[a + 1] \in ToSet(graph["static"][f[a]])
    BY <1>4, <1>5, <2>1
  <2> QED BY <1>8, <2>2, <2>3 DEF Recursive
<1>9. x < y \/ y < x
  BY <1>1, <1>7
<1> QED BY <1>2, <1>7, <1>8, <1>9

\* The outermost call returns: it has done with the root.
LEMMA ReturnExact ==
  ASSUME ViewerInv, Walking, Return, Len(walk.stack) = 1
  PROVE  /\ ~ Recursive(walk.root)
         /\ ToSet(focus'["static"]) = ToSet(walk.kept) \cup
               (IF walk.kind = "select" THEN Reach(walk.root) ELSE {})
<1>1. /\ ViewerTypeOK /\ WalkOK /\ walk.root \in Items("static") /\ CallOK(1)
      /\ Top = walk.stack[1] /\ Top.node = walk.root
      /\ Len(Callees) \in Nat /\ Top.next \in 1 .. Len(Callees) + 1
  <2>1. WalkOK
    BY InvParts
  <2> QED BY <2>1, WalkFacts
<1>2. focus' = focus /\ Top.next - 1 = Len(Callees)
  BY <1>1 DEF Return
<1>3. /\ walk.kind = "select" => walk.root \in ToSet(focus["static"])
      /\ \A m \in 1 .. Top.next - 1 : Callees[m] \in Done
  BY <1>1 DEF CallOK, Callees
<1>4. \A m \in 1 .. Len(graph["static"][walk.root]) : graph["static"][walk.root][m] \in Done
  BY <1>1, <1>2, <1>3 DEF Callees
<1>5. walk.root \in Done
  BY <1>1, <1>3, <1>4, DoneWithCallees
<1>6. /\ ~ Recursive(walk.root)
      /\ walk.kind = "select" => Reach(walk.root) \subseteq ToSet(focus["static"])
  BY <1>5 DEF Done
<1>7. IF walk.kind = "select"
      THEN /\ ToSet(walk.kept) \subseteq ToSet(focus["static"])
           /\ ToSet(focus["static"]) \subseteq ToSet(walk.kept) \cup Reach(walk.root)
      ELSE focus["static"] = walk.kept
  BY <1>1 DEF WalkOK
<1>8. ToSet(focus["static"]) = ToSet(walk.kept) \cup
         (IF walk.kind = "select" THEN Reach(walk.root) ELSE {})
  BY <1>6, <1>7
<1> QED BY <1>2, <1>6, <1>8

WalkEnd ==
  IF Recursive(walk.root) THEN Len(walk.stack) = MaxStack
  ELSE /\ Len(walk.stack) = 1
       /\ ToSet(focus'["static"]) = ToSet(walk.kept) \cup
             (IF walk.kind = "select" THEN Reach(walk.root) ELSE {})

LEMMA WalkStep ==
  ASSUME ViewerInv, Next, Walking, walk' = NoWalk
  PROVE  WalkEnd
<1>0. NoWalk.stack = <<>>
  BY DEF NoWalk
<1>1. Visit \/ Overflow \/ Return
  BY DEF Next
<1>2. CASE Visit
  <2> DEFINE a == Front(walk.stack)
             b == <<[Top EXCEPT !.next = @ + 1], Frame(Callees[Top.next])>>
  <2>1. walk'.stack = a \o b
    BY <1>2, InvParts DEF Visit, Pushed, ViewerTypeOK
  <2>2. a \in Seq(Call) /\ Len(a) \in Nat
    BY WalkFacts
  <2>3. Len(a \o b) = Len(a) + 2
    <3> DEFINE c == [Top EXCEPT !.next = @ + 1]  d == Frame(Callees[Top.next])
    <3>1. a \in Seq(Call \cup {c, d}) /\ <<c, d>> \in Seq(Call \cup {c, d})
      BY <2>2
    <3> HIDE DEF a, c, d
    <3>2. Len(<<c, d>>) = 2
      OBVIOUS
    <3>3. Len(a \o <<c, d>>) = Len(a) + Len(<<c, d>>)
      BY <3>1
    <3> QED BY <3>2, <3>3 DEF c, d
  <2> HIDE DEF a, b
  <2>4. a \o b # <<>>
    BY <2>2, <2>3
  <2> QED BY <1>0, <2>1, <2>4
<1>3. CASE Overflow
  BY <1>3, OverflowRecursive DEF WalkEnd
<1>4. CASE Return
  <2>1. Len(walk.stack) = 1
    <3>1. Len(Front(walk.stack)) = Len(walk.stack) - 1 /\ Len(walk.stack) \in Nat
      BY WalkFacts
    <3>2. Len(walk.stack) # 1 => walk'.stack = Front(walk.stack)
      BY <1>4, InvParts DEF Return, ViewerTypeOK
    <3>3. Len(walk.stack) # 1 => Front(walk.stack) # <<>>
      <4>1. \A s : s = <<>> => Len(s) = 0
        OBVIOUS
      <4>2. Len(walk.stack) # 1 => Len(Front(walk.stack)) # 0
        BY <3>1
      <4> QED BY <4>1, <4>2
    <3> QED BY <1>0, <3>2, <3>3
  <2> QED BY <1>4, <2>1, ReturnExact DEF WalkEnd
<1> QED BY <1>1, <1>2, <1>3, <1>4

\* The walk overflows the stack exactly when a function it can reach is recursive,
\* for every stack with room for a path without a cycle; otherwise it ends with
\* exactly the functions that can be reached added to the selection.
THEOREM WalkExact == Spec => WalkIsExact
<1>1. ViewerInv /\ [Next]_vars =>
        [Walking /\ walk' = NoWalk => WalkEnd]_vars
  BY WalkStep
<1> QED BY <1>1, ViewerSafe, PTL DEF Spec, WalkIsExact, WalkEnd

=============================================================================
