------------------------------- MODULE Viewer -------------------------------
(***************************************************************************)
(* GraphView: the static call graph on tab 0, the dynamic one on tab 1,    *)
(* the functions selected in each (prefuse's focus items, in the order     *)
(* they were added), the function table beside them, and the context menu  *)
(* of the static graph.  Everything here runs on Swing's event thread, one *)
(* event after the other; a walk over the reachable functions is split     *)
(* into its calls so that its stack can overflow.                          *)
(*                                                                         *)
(* A graph gives each node, a row from 1 on, its callees in the order of   *)
(* outNeighbors().  Colours, the layout and the other tables are left out. *)
(***************************************************************************)
EXTENDS Integers, SequencesExt

CONSTANTS
    StaticGraphs,       \* the graphs StaticCG.xml may hold
    DynamicGraphs,      \* the graphs DynamicCG.xml may hold
    MaxStack            \* calls of the recursive walk that fit the stack

\* A thread's stack holds thousands of calls: no path without a cycle fills it.
ASSUME ViewerAssumption ==
    /\ MaxStack \in Nat
    /\ \A g \in StaticGraphs \cup DynamicGraphs : \E n \in 1 .. MaxStack :
          DOMAIN g = 1 .. n /\ \A i \in 1 .. n : g[i] \in Seq(1 .. n)

VARIABLES
    selectedTab,        \* 0: static graph, 1: dynamic graph
    graph,              \* the graph of each view; m_vis is the static view's
    focus,              \* the selected items of each view
    curFocus,           \* what each FocusControl was last clicked on
    table,              \* the view and the items the function table adds up
    menu,               \* the item of the open context menu
    walk                \* the walk going on: its kind, root, stack, and the
                        \* selection it began with

vars == <<selectedTab, graph, focus, curFocus, table, menu, walk>>

Views == {"static", "dynamic"}
Shown == IF selectedTab = 0 THEN "static" ELSE "dynamic"
NoItem == 0
NoWalk == [kind |-> "none", root |-> NoItem, stack |-> <<>>, kept |-> <<>>]

Items(v) == DOMAIN graph[v]
Aggregate(v, s) == [view |-> v, items |-> s]

Init ==
    /\ selectedTab = 0
    /\ \E s \in StaticGraphs, d \in DynamicGraphs :
          graph = [static |-> s, dynamic |-> d]
    /\ focus = [v \in Views |-> <<1>>]
    /\ curFocus = [v \in Views |-> NoItem]
    /\ table = Aggregate("static", <<>>)
    /\ menu = NoItem
    /\ walk = NoWalk

-----------------------------------------------------------------------------
\* The focus items, a DefaultTupleSet, under the listener of the constructor

\* On tab 0 the listener puts the first item removed back into an empty set.
Refilled_Last(s, removed) ==
    IF s = <<>> /\ selectedTab = 0 THEN <<Last(removed)>> ELSE s
Refilled(s, removed) ==
    IF s = <<>> /\ selectedTab = 0 THEN <<Head(removed)>> ELSE s

AddTuple(s, i) == IF Contains(s, i) THEN s ELSE Append(s, i)
RemoveTuple(s, i) ==
    IF Contains(s, i) THEN Refilled(RemoveFirst(s, i), <<i>>) ELSE s
ClearTuples(s) == IF s = <<>> THEN s ELSE Refilled(<<>>, s)
SetTuple_Added(s, i) == AddTuple(s, i)
SetTuple(s, i) == <<i>>

\* The set of v becomes s; an event makes the listener add up the selection,
\* though only on tab 0.
Select_Tab1(v, s, event) ==
    /\ focus' = [focus EXCEPT ![v] = s]
    /\ table' = IF event /\ selectedTab = 1 THEN Aggregate(v, s) ELSE table
Select(v, s, event) ==
    /\ focus' = [focus EXCEPT ![v] = s]
    /\ table' = IF event /\ selectedTab = 0 THEN Aggregate(v, s) ELSE table

-----------------------------------------------------------------------------
\* The mouse

\* itemEntered: the table shows the item under the pointer, menu or not.
Hover(i) ==
    /\ table' = Aggregate(Shown, <<i>>)
    /\ UNCHANGED <<selectedTab, graph, focus, curFocus, menu, walk>>

\* FocusControl.itemClicked, for one click of the left button.  A menu closes.
Click(i, ctrl) ==
    LET v == Shown
        s == focus[v]
        again == curFocus[v] = i IN
    /\ \/ /\ ~ again /\ ~ ctrl
          /\ curFocus' = [curFocus EXCEPT ![v] = i]
          /\ Select(v, SetTuple(s, i), TRUE)
       \/ /\ ctrl /\ (again \/ Contains(s, i))
          /\ curFocus' = IF again THEN [curFocus EXCEPT ![v] = NoItem] ELSE curFocus
          /\ Select(v, RemoveTuple(s, i), Contains(s, i))
       \/ /\ ctrl /\ ~ again /\ ~ Contains(s, i)
          /\ Select(v, AddTuple(s, i), TRUE)
          /\ UNCHANGED curFocus
       \/ /\ again /\ ~ ctrl
          /\ UNCHANGED <<focus, curFocus, table>>
    /\ menu' = NoItem
    /\ UNCHANGED <<selectedTab, graph, walk>>

\* itemPressed, right button, tab 0: MyPopupMenu clears the selection.
RightPress(i) ==
    /\ selectedTab = 0
    /\ Select("static", ClearTuples(focus["static"]), focus["static"] # <<>>)
    /\ menu' = i
    /\ UNCHANGED <<selectedTab, graph, curFocus, walk>>

SelectTab(t) ==
    /\ t # selectedTab
    /\ selectedTab' = t
    /\ menu' = NoItem
    /\ UNCHANGED <<graph, focus, curFocus, table, walk>>

-----------------------------------------------------------------------------
\* OpenGraphAction.  setGraph works on the static m_vis, the visualization of
\* the view that was built last, whatever view it is called on.  The items of
\* the new graph are new: the control's last item is none of them.

\* removeGroup: the items leave the selection one by one, in row order.
Deselected(v) ==
    FoldLeft(RemoveTuple, focus[v], [i \in Items(v) |-> i])

SetGraph(g) ==
    /\ graph' = [graph EXCEPT !["static"] = g]
    /\ Select("static", SetTuple(Deselected("static"), 1), TRUE)
    /\ curFocus' = [curFocus EXCEPT !["static"] = NoItem]
    /\ menu' = NoItem
    /\ UNCHANGED <<selectedTab, walk>>

-----------------------------------------------------------------------------
\* showReachableNodes and selectReachableNodes: a call for every path, with no
\* mark on the functions that were visited.

Frame(i) == [node |-> i, next |-> 1]
Top == Last(walk.stack)
Callees == graph["static"][Top.node]
Pushed(i) ==
    Front(walk.stack) \o <<[Top EXCEPT !.next = @ + 1], Frame(i)>>

\* The menu entries "Show" and "Select all reachable functions"
Choose(kind) ==
    /\ menu # NoItem
    /\ walk' = [kind |-> kind, root |-> menu, stack |-> <<Frame(menu)>>,
                kept |-> focus["static"]]
    /\ IF kind = "select"
          THEN Select("static", AddTuple(focus["static"], menu),
                      ~ Contains(focus["static"], menu))
          ELSE UNCHANGED <<focus, table>>
    /\ menu' = NoItem
    /\ UNCHANGED <<selectedTab, graph, curFocus>>

\* The loop of the innermost call comes to the next callee, and calls itself.
Visit_Unselected ==
    /\ Top.next <= Len(Callees) /\ Len(walk.stack) < MaxStack
    /\ LET i == Callees[Top.next]
           s == focus["static"] IN
       /\ walk' = [walk EXCEPT !.stack =
             IF walk.kind = "select" /\ Contains(s, i)
                THEN Append(Front(walk.stack), [Top EXCEPT !.next = @ + 1])
                ELSE Pushed(i)]
       /\ IF walk.kind = "select"
             THEN Select("static", AddTuple(s, i), ~ Contains(s, i))
             ELSE UNCHANGED <<focus, table>>
    /\ UNCHANGED <<selectedTab, graph, curFocus, menu>>
Visit ==
    /\ Top.next <= Len(Callees) /\ Len(walk.stack) < MaxStack
    /\ LET i == Callees[Top.next]
           s == focus["static"] IN
       /\ walk' = [walk EXCEPT !.stack = Pushed(i)]
       /\ IF walk.kind = "select"
             THEN Select("static", AddTuple(s, i), ~ Contains(s, i))
             ELSE UNCHANGED <<focus, table>>
    /\ UNCHANGED <<selectedTab, graph, curFocus, menu>>

\* StackOverflowError leaves actionPerformed.  The next callee is on the stack
\* by then, and so is selected.
Overflow ==
    /\ Top.next <= Len(Callees) /\ Len(walk.stack) = MaxStack
    /\ walk' = NoWalk
    /\ UNCHANGED <<selectedTab, graph, focus, curFocus, table, menu>>

Return ==
    /\ Top.next > Len(Callees)
    /\ walk' = IF Len(walk.stack) = 1 THEN NoWalk
               ELSE [walk EXCEPT !.stack = Front(@)]
    /\ UNCHANGED <<selectedTab, graph, focus, curFocus, table, menu>>

-----------------------------------------------------------------------------
Walking == walk.stack # <<>>

Event ==
    \/ \E i \in Items(Shown) : Hover(i) \/ RightPress(i)
    \/ \E i \in Items(Shown), ctrl \in BOOLEAN : Click(i, ctrl)
    \/ \E t \in {0, 1} : SelectTab(t)
    \/ \E g \in DynamicGraphs : SetGraph(g)
    \/ \E kind \in {"show", "select"} : Choose(kind)

Next ==
    \/ ~ Walking /\ Event
    \/ Walking /\ (Visit \/ Overflow \/ Return)

Spec == Init /\ [][Next]_vars

-----------------------------------------------------------------------------
\* Properties

\* Whatever is clicked, cleared or loaded, the static graph has a selection
\* (the listener, GraphView.java:1804), and it holds items of the graph that
\* is shown: none of a graph that removeGroup() took away.
SelectionShown ==
    /\ focus["static"] # <<>>
    /\ \A v \in Views : ToSet(focus[v]) \subseteq Items(v)

\* A plain click on the item FocusControl remembers changes nothing, so that
\* item has to be selected: it is the one the selection begins with, which is
\* what lets it survive the context menu (MyPopupMenu clears the selection and
\* the listener puts its first item back).
RememberedIsFirst ==
    \A v \in Views : curFocus[v] # NoItem =>
        focus[v] # <<>> /\ curFocus[v] = Head(focus[v])

\* "Keep Ctrl keep depressed and click on multiple nodes.  The function
\* characteristics panel will update to show the aggregate information"
\* (Help/staticgraph.html:61): when the selection of the static graph changes
\* on tab 0, in a click, a menu, a load or the middle of a walk, the table adds
\* up the new selection.
TableFollowsSelection ==
    [][focus'["static"] # focus["static"] /\ selectedTab = 0
          => table' = Aggregate("static", focus'["static"])]_vars

\* What can be called from i, in any number of calls
Closed(S) == \A j \in S : ToSet(graph["static"][j]) \subseteq S
Reach(i) ==
    {j \in Items("static") :
        \A S \in SUBSET Items("static") : i \in S /\ Closed(S) => j \in S}
Recursive(i) ==
    \E j \in Reach(i) : \E k \in ToSet(graph["static"][j]) : j \in Reach(k)

\* The walk over the reachable functions overflows the stack exactly if one of
\* them is recursive; if none is, "Select all reachable functions" adds exactly
\* those to what the context menu left selected.
WalkIsExact ==
    [][Walking /\ walk' = NoWalk =>
          IF Recursive(walk.root) THEN Len(walk.stack) = MaxStack
          ELSE /\ Len(walk.stack) = 1
               /\ ToSet(focus'["static"]) = ToSet(walk.kept) \cup
                     (IF walk.kind = "select" THEN Reach(walk.root) ELSE {})]_vars

\* The inductive invariant: types, the selections, and what the walk has done.
\* Its stack is a path from the root, and every callee a call on it has come
\* back from has been done with.
ViewerTypeOK ==
    /\ selectedTab \in {0, 1}
    /\ graph \in [Views -> StaticGraphs \cup DynamicGraphs]
    /\ focus \in [Views -> Seq(Nat)]
    /\ curFocus \in [Views -> Nat]
    /\ menu \in Items("static") \cup {NoItem}
    /\ walk \in [kind : {"none", "show", "select"}, root : Nat,
                 stack : Seq([node : Nat, next : Nat]), kept : Seq(Nat)]

Done ==
    {i \in Items("static") :
        /\ ~ Recursive(i)
        /\ walk.kind = "select" => Reach(i) \subseteq ToSet(focus["static"])}

\* The call at place k has come to callee next - 1, and is in it unless it is
\* the innermost one.
CallOK(k) ==
    LET call == walk.stack[k]
        callees == graph["static"][call.node]
        below == call.next - 1
    IN  /\ call.node \in Reach(walk.root)
        /\ walk.kind = "select" => call.node \in ToSet(focus["static"])
        /\ call.next \in 1 .. Len(callees) + 1
        /\ IF k = Len(walk.stack) THEN \A m \in 1 .. below : callees[m] \in Done
           ELSE /\ below >= 1 /\ walk.stack[k + 1].node = callees[below]
                /\ \A m \in 1 .. below - 1 : callees[m] \in Done

WalkOK ==
    Walking =>
        /\ Len(walk.stack) <= MaxStack
        /\ walk.root \in Items("static") /\ walk.stack[1].node = walk.root
        /\ \A k \in DOMAIN walk.stack : CallOK(k)
        /\ IF walk.kind = "select"
           THEN /\ ToSet(walk.kept) \subseteq ToSet(focus["static"])
                /\ ToSet(focus["static"]) \subseteq ToSet(walk.kept) \cup Reach(walk.root)
           ELSE focus["static"] = walk.kept

ViewerInv == ViewerTypeOK /\ SelectionShown /\ RememberedIsFirst /\ WalkOK
=============================================================================
