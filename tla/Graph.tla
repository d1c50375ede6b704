------------------------------- MODULE Graph -------------------------------
(***************************************************************************)
(* prefuse.data.Graph: a node table, an edge table whose columns source    *)
(* and target hold node rows, and what the graph keeps beside them from    *)
(* the events of both tables: a table of adjacency lists with a row for    *)
(* each node, the Node and Edge tuples handed out, and a spanning tree.    *)
(*                                                                         *)
(* Each change of a table sends an event, and what the graph's listeners   *)
(* see when they are told of it is a state here.  change is the change     *)
(* whose event is delivered, where the call has something left to do after *)
(* it: an added edge gets its ends one at a time, a row that is removed is *)
(* released after its event, and the graph hears of a new end of an edge   *)
(* when its listeners have.  task is a call that goes on for several       *)
(* events.  addNode() and addEdge(s, t) on tuples are the calls on rows    *)
(* followed by GetNode or GetEdge.                                         *)
(***************************************************************************)
EXTENDS RowManager, SequencesExt

CONSTANTS
    MaxNodes, MaxEdges,     \* bounds on the rows in use
    Detached                \* {-1} if an edge may be given no end, else {}

ASSUME GraphAssumption ==
    /\ MaxNodes \in Nat
    /\ MaxEdges \in Nat
    /\ Detached \in {{}, {-1}}

VARIABLES
    nodes, edges,           \* the rows of both tables
    ends,                   \* source and target of each edge row
    linkRows, links,        \* m_links: its rows; in- and out-links of each
    nodeTuples, edgeTuples, \* m_nodeTuples and m_edgeTuples
    spanning,               \* m_spanning, or NoTree: root, nodes reached, and
                            \* whether the search for them came to its end
    task,                   \* the call going on
    change,                 \* the change of a table whose event is delivered
    search                  \* the search going on: its queue, nodes reached

tables == <<nodes, edges, ends>>
adjacency == <<linkRows, links>>
tuples == <<nodeTuples, edgeTuples>>
graphVars == <<nodes, edges, ends, linkRows, links, nodeTuples, edgeTuples,
               spanning, task, change, search>>

NodeRows == 0 .. MaxNodes - 1
EdgeRows == 0 .. MaxEdges - 1
NoEnds == <<-1, -1>>
NoLinks == [in |-> <<>>, out |-> <<>>]
NoTree == [root |-> -1, reached |-> {}, whole |-> TRUE]
Idle == [op |-> "idle", node |-> -1, i |-> 0]
NoChange == [op |-> "none", row |-> -1, old |-> NoEnds]
NoSearch == [queue |-> <<>>, reached |-> {}]

\* No call is going on.
Ready == task = Idle /\ change = NoChange
\* The event of a change is delivered: row of what, and the ends it had.
Tells(op, row, old) == change' = [op |-> op, row |-> row, old |-> old]

-----------------------------------------------------------------------------
\* Adjacency lists

\* remLink: a list that does not hold the edge loses its last entry, because
\* the degree goes down all the same.
RemLink(list, e) == IF Contains(list, e) THEN RemoveFirst(list, e) ELSE Front(list)

\* updateDegrees(e, s, t, 1) and (e, s, t, -1)
Link(lk, e, s, t) ==
    [lk EXCEPT ![s].out = Append(@, e), ![t].in = Append(@, e)]
Unlink_Out(lk, e, s, t) == [lk EXCEPT ![s].out = RemLink(@, e)]
Unlink(lk, e, s, t) ==
    [lk EXCEPT ![s].out = RemLink(@, e), ![t].in = RemLink(@, e)]

IsAttached(st) == st[1] >= 0 /\ st[2] >= 0

\* updateDegrees(e, 1)
LinkRow(lk, rm, es, e) ==
    IF e \in Valid(rm) /\ IsAttached(es[e]) THEN Link(lk, e, es[e][1], es[e][2])
    ELSE lk

\* initLinkTable: the edges of a table are linked one after another.
InitLinkTable(rm, es) ==
    LET linked[k \in 0 .. MaxEdges] ==
            IF k = 0 THEN [n \in NodeRows |-> NoLinks]
            ELSE LinkRow(linked[k - 1], rm, es, k - 1)
    IN  linked[MaxEdges]

\* A new graph of two tables no row was removed from.
GraphInit ==
    /\ nodes \in {Rows(n) : n \in 0..MaxNodes}
    /\ edges \in {Rows(m) : m \in 0..MaxEdges}
    /\ ends \in [EdgeRows -> (NodeRows \X NodeRows) \cup {NoEnds}]
    /\ \A e \in EdgeRows :
          IF e \in Valid(edges) THEN \A i \in 1..2 : ends[e][i] \in Valid(nodes)
                                ELSE ends[e] = NoEnds
    /\ linkRows = nodes
    /\ links = InitLinkTable(edges, ends)
    /\ nodeTuples = NoTuples /\ edgeTuples = NoTuples
    /\ spanning = NoTree
    /\ task = Idle /\ change = NoChange /\ search = NoSearch

-----------------------------------------------------------------------------
\* Calls that add and change

AddNode ==
    /\ Ready
    /\ NewRow(nodes) \in NodeRows
    /\ nodes' = AddRow(nodes)
    /\ linkRows' = AddRow(linkRows)
    /\ spanning' = NoTree
    /\ UNCHANGED <<edges, ends, links, tuples, task, change, search>>

\* addEdge(s, t): a row without ends, of which an event tells; then its source
\* and its target, each with an event.  s and t are chosen where they are used.
AddEdge ==
    LET e == NewRow(edges) IN
    /\ Ready
    /\ Valid(nodes) # {}
    /\ e \in EdgeRows
    /\ edges' = AddRow(edges)
    /\ spanning' = NoTree
    /\ Tells("insert", e, NoEnds)
    /\ UNCHANGED <<nodes, ends, adjacency, tuples, task, search>>

\* As long as the edge has one end there is nothing for columnChanged to do.
AddSource(s) ==
    /\ change.op = "insert"
    /\ ends' = [ends EXCEPT ![change.row] = <<s, -1>>]
    /\ Tells("source", change.row, NoEnds)
    /\ UNCHANGED <<nodes, edges, adjacency, tuples, spanning, task, search>>

AddTarget(t) ==
    LET old == ends[change.row] IN
    /\ change.op = "source"
    /\ ends' = [ends EXCEPT ![change.row] = <<old[1], t>>]
    /\ Tells("update", change.row, old)
    /\ UNCHANGED <<nodes, edges, adjacency, tuples, spanning, task, search>>

\* Edge e gets other ends, through a column of the edge table.
SetEnds(e, st) ==
    /\ Ready
    /\ st # ends[e]
    /\ ends' = [ends EXCEPT ![e] = st]
    /\ Tells("update", e, ends[e])
    /\ UNCHANGED <<nodes, edges, adjacency, tuples, spanning, task, search>>

SetSource(e, n) == SetEnds(e, <<n, ends[e][2]>>)
SetTarget(e, n) == SetEnds(e, <<ends[e][1], n>>)

\* The spanning tree after a change of an edge's ends.
Invalidated_Kept(tree, changed) == tree
Invalidated(tree, changed) == IF changed THEN NoTree ELSE tree

\* columnChanged, after the listeners were told: the edge leaves the lists of
\* its old ends and enters those of the new ones.
ColumnChanged ==
    LET e == change.row  old == change.old  st == ends[e]
        unlinked == IF IsAttached(old) THEN Unlink(links, e, old[1], old[2])
                    ELSE links
    IN
    /\ change.op = "update"
    /\ links' = IF IsAttached(st) THEN Link(unlinked, e, st[1], st[2])
                ELSE unlinked
    /\ spanning' = Invalidated(spanning, IsAttached(old) \/ IsAttached(st))
    /\ change' = NoChange
    /\ UNCHANGED <<tables, linkRows, tuples, task, search>>

-----------------------------------------------------------------------------
\* Rows that go.  The lists and the tuple go before the listeners are told, the
\* row when they were.  An edge without ends keeps its tuple.

DeleteEdge(e) ==
    /\ IF IsAttached(ends[e])
       THEN /\ links' = Unlink(links, e, ends[e][1], ends[e][2])
            /\ edgeTuples' = Invalidate(edgeTuples, e)
       ELSE UNCHANGED <<links, edgeTuples>>
    /\ spanning' = NoTree
    /\ Tells("edge", e, NoEnds)
    /\ UNCHANGED <<tables, linkRows, nodeTuples, search>>

ReleaseEdge ==
    /\ change.op = "edge"
    /\ edges' = ReleaseRow(edges, change.row)
    /\ ends' = [ends EXCEPT ![change.row] = NoEnds]
    /\ change' = NoChange
    /\ UNCHANGED <<nodes, adjacency, tuples, spanning, task, search>>

DeleteNode(n) ==
    /\ IF n \in Valid(linkRows)
       THEN /\ linkRows' = ReleaseRow(linkRows, n)
            /\ links' = [links EXCEPT ![n] = NoLinks]
       ELSE UNCHANGED adjacency
    /\ nodeTuples' = Invalidate(nodeTuples, n)
    /\ spanning' = NoTree
    /\ Tells("node", n, NoEnds)
    /\ UNCHANGED <<tables, edgeTuples, search>>

ReleaseNode ==
    /\ change.op = "node"
    /\ nodes' = ReleaseRow(nodes, change.row)
    /\ change' = NoChange
    /\ UNCHANGED <<edges, ends, adjacency, tuples, spanning, task, search>>

RemoveEdge(e) ==
    /\ Ready
    /\ DeleteEdge(e)
    /\ UNCHANGED task

\* A step between two events of a call changes only task.
OnlyTask == UNCHANGED <<tables, adjacency, tuples, spanning, change, search>>

\* removeNode: the in-links from the last one on, then what is left of the
\* out-links, then the row.
RemoveNode(n) ==
    /\ Ready
    /\ task' = [op |-> "in", node |-> n, i |-> Len(links[n].in)]
    /\ OnlyTask

LinksOf(n, op) == IF op = "in" THEN links[n].in ELSE links[n].out

RemoveIncident ==
    /\ task.op \in {"in", "out"} /\ change = NoChange
    /\ task.i > 0
    /\ LET e == LinksOf(task.node, task.op)[task.i] IN
       IF e \in Valid(edges) THEN DeleteEdge(e) ELSE OnlyTask
    /\ task' = [task EXCEPT !.i = @ - 1]

\* The out-degree is read after the in-links are gone.
TurnToOut ==
    /\ task.op = "in" /\ task.i = 0 /\ change = NoChange
    /\ task' = [task EXCEPT !.op = "out", !.i = Len(links[task.node].out)]
    /\ OnlyTask

RemoveNodeRow ==
    /\ task.op = "out" /\ task.i = 0 /\ change = NoChange
    /\ DeleteNode(task.node)
    /\ task' = Idle

\* clear: the tuples, the edges from the last row on, then the nodes.
Clear ==
    /\ Ready
    /\ nodeTuples' = InvalidateAll(nodeTuples)
    /\ edgeTuples' = InvalidateAll(edgeTuples)
    /\ task' = [Idle EXCEPT !.op = "edges"]
    /\ UNCHANGED <<tables, adjacency, spanning, change, search>>

ClearEdge ==
    /\ task.op = "edges" /\ change = NoChange
    /\ Valid(edges) # {}
    /\ DeleteEdge(Max(Valid(edges)))
    /\ UNCHANGED task

ClearNode ==
    /\ task.op = "edges" /\ change = NoChange
    /\ Valid(edges) = {} /\ Valid(nodes) # {}
    /\ DeleteNode(Max(Valid(nodes)))
    /\ UNCHANGED task

\* The link table is cleared last, when its rows are gone with the nodes.
Cleared ==
    /\ task.op = "edges" /\ change = NoChange
    /\ Valid(edges) = {} /\ Valid(nodes) = {}
    /\ task' = Idle
    /\ OnlyTask

-----------------------------------------------------------------------------
\* Calls that read and remember

GetNode(n) ==
    /\ Ready
    /\ nodeTuples' = GetTuple(nodeTuples, nodes, n)
    /\ UNCHANGED <<tables, adjacency, edgeTuples, spanning, task, change, search>>

GetEdge(e) ==
    /\ Ready
    /\ edgeTuples' = GetTuple(edgeTuples, edges, e)
    /\ UNCHANGED <<tables, adjacency, nodeTuples, spanning, task, change, search>>

\* getSpanningTree(root), of a Node: a tree with this root is returned as it
\* is, and any other one is built again, or a new one if there is none.
GetSpanningTree(root) ==
    /\ Ready
    /\ root \in nodeTuples.rows
    /\ nodeTuples' = IF spanning = NoTree THEN nodeTuples
                     ELSE EnsureTupleArray(nodeTuples, nodes)
    /\ IF spanning.root = root THEN UNCHANGED <<task, search>>
       ELSE /\ task' = [op |-> "search", node |-> root, i |-> 0]
            /\ search' = [queue |-> <<root>>, reached |-> {root}]
    /\ UNCHANGED <<tables, adjacency, edgeTuples, spanning, change>>

\* The edges of a node in the order of their iterator, and their other ends
EdgesOf(n) == links[n].out \o links[n].in
AdjacentNode(e, n) == IF ends[e][1] = n THEN ends[e][2] ELSE ends[e][1]

\* The search of buildSpanningTree: the next edge of the node at the head of
\* the queue.  getTuple makes tuples of the edge and of the node behind it.
SearchEdge ==
    LET p == Head(search.queue)
        e == EdgesOf(p)[task.i + 1]
        n == AdjacentNode(e, p)
    IN
    /\ task.op = "search" /\ search.queue # <<>>
    /\ task.i < Len(EdgesOf(p))
    /\ edgeTuples' = GetTuple(edgeTuples, edges, e)
    /\ e \in edgeTuples'.rows
    /\ nodeTuples' = GetTuple(nodeTuples, nodes, n)
    /\ n \in nodeTuples'.rows
    /\ search' = IF n \in search.reached THEN search
                 ELSE [queue |-> Append(search.queue, n),
                       reached |-> search.reached \cup {n}]
    /\ task' = [task EXCEPT !.i = @ + 1]
    /\ UNCHANGED <<tables, adjacency, spanning, change>>

\* What m_spanning is in the end.  A tree there was before has been changed in
\* place, one that is new is kept only if its constructor returns.
EndSearch(whole) ==
    /\ spanning' = IF spanning = NoTree /\ ~whole THEN NoTree
                   ELSE [root |-> task.node, reached |-> search.reached,
                         whole |-> whole]
    /\ task' = Idle /\ search' = NoSearch
    /\ UNCHANGED <<tables, adjacency, change>>

\* getTuple throws: the row lies outside of the array of tuples.
SearchFails ==
    LET p == Head(search.queue)
        e == EdgesOf(p)[task.i + 1]
        n == AdjacentNode(e, p)
    IN
    /\ task.op = "search" /\ search.queue # <<>>
    /\ task.i < Len(EdgesOf(p))
    /\ edgeTuples' = GetTuple(edgeTuples, edges, e)
    /\ IF e \in edgeTuples'.rows
       THEN /\ nodeTuples' = GetTuple(nodeTuples, nodes, n)
            /\ n \notin nodeTuples'.rows
       ELSE UNCHANGED nodeTuples
    /\ EndSearch(FALSE)

NextInQueue ==
    /\ task.op = "search" /\ search.queue # <<>>
    /\ task.i = Len(EdgesOf(Head(search.queue)))
    /\ search' = [search EXCEPT !.queue = Tail(@)]
    /\ task' = [task EXCEPT !.i = 0]
    /\ UNCHANGED <<tables, adjacency, tuples, spanning, change>>

SearchEnds ==
    /\ task.op = "search" /\ search.queue = <<>>
    /\ EndSearch(TRUE)
    /\ UNCHANGED tuples

-----------------------------------------------------------------------------
Call ==
    \/ AddNode \/ AddEdge \/ Clear
    \/ \E e \in Valid(edges) : RemoveEdge(e) \/ GetEdge(e)
    \/ \E e \in Valid(edges), n \in Valid(nodes) \cup Detached :
          SetSource(e, n) \/ SetTarget(e, n)
    \/ \E n \in Valid(nodes) : RemoveNode(n) \/ GetNode(n) \/ GetSpanningTree(n)

\* What a call does after an event
Told ==
    \/ \E n \in Valid(nodes) : AddSource(n) \/ AddTarget(n)
    \/ ColumnChanged \/ ReleaseEdge \/ ReleaseNode

GoOn ==
    \/ Told
    \/ RemoveIncident \/ TurnToOut \/ RemoveNodeRow
    \/ ClearEdge \/ ClearNode \/ Cleared
    \/ SearchEdge \/ SearchFails \/ NextInQueue \/ SearchEnds

GraphNext == Call \/ GoOn

GraphSpec == GraphInit /\ [][GraphNext]_graphVars

-----------------------------------------------------------------------------
\* Properties

GraphTypeOK ==
    /\ RowManagerOK(nodes) /\ Valid(nodes) \subseteq NodeRows
    /\ RowManagerOK(edges) /\ Valid(edges) \subseteq EdgeRows
    /\ RowManagerOK(linkRows)
    /\ ends \in [EdgeRows -> (NodeRows \cup {-1}) \X (NodeRows \cup {-1})]
    /\ links \in [NodeRows -> [in : Seq(EdgeRows), out : Seq(EdgeRows)]]
    /\ nodeTuples \in [len : Nat, rows : SUBSET NodeRows]
    /\ edgeTuples \in [len : Nat, rows : SUBSET EdgeRows]
    /\ spanning \in [root : NodeRows \cup {-1}, reached : SUBSET NodeRows,
                     whole : BOOLEAN]
    /\ task \in [op : {"idle", "in", "out", "edges", "search"},
                 node : NodeRows \cup {-1}, i : 0..2 * MaxEdges]
    /\ search \in [queue : Seq(NodeRows), reached : SUBSET NodeRows]

\* The tables as the graph knows them, which is how they are but for the row
\* whose event is delivered: a node or an edge that is leaving is known no
\* more, an end that is set is not known yet.
Leaving(op) == IF change.op = op THEN {change.row} ELSE {}
knownRows == IF change.op = "node" THEN ReleaseRow(nodes, change.row) ELSE nodes
knownEnds ==
    IF change.op = "update" THEN [ends EXCEPT ![change.row] = change.old] ELSE ends
knownEdges == {e \in Valid(edges) \ Leaving("edge") : IsAttached(knownEnds[e])}

\* The adjacency lists are those of the edge table: each node has a row of
\* its own in the link table, and its lists hold each edge that starts or
\* ends there once and no other.  A listener finds an edge in the lists it is
\* about to leave while it is told of a new end, not yet there while it is
\* told that the edge is added, and no more while it is told that it goes.
Lists(list, S) == ToSet(list) = S /\ IsInjective(list)
LinksMatchEdges ==
    /\ Valid(linkRows) = Valid(knownRows)
    /\ \A n \in Valid(knownRows) :
          /\ Lists(links[n].in, {e \in knownEdges : knownEnds[e][2] = n})
          /\ Lists(links[n].out, {e \in knownEdges : knownEnds[e][1] = n})

\* No tuple is kept of a row that is free, or is about to be: the row's next
\* element would get the object, and whatever the application attached to it,
\* of the last.
TuplesLive ==
    /\ nodeTuples.rows \subseteq Valid(nodes) \ Leaving("node")
    /\ edgeTuples.rows \subseteq Valid(edges) \ Leaving("edge")

\* The inductive invariant: where every edge has ends (Detached = {}), the
\* lists of every row are those of the edges known, an edge ends in nodes
\* unless it is being added, a row whose event is delivered is still in use, and
\* the removal of a node stands at the last entry of the list it is walking
\* through, with the list of in-links empty when it is at the out-links.
HalfMade(e) == e = change.row /\ change.op \in {"insert", "source"}
EndsLive ==
    /\ \A e \in Valid(edges) :
          HalfMade(e) \/ ends[e] \in Valid(linkRows) \X Valid(linkRows)
    /\ \A e \in EdgeRows \ Valid(edges) : ends[e] = NoEnds

Linked(lk, E, es) == \A n \in NodeRows :
    /\ Lists(lk[n].in, {e \in E : es[e][2] = n})
    /\ Lists(lk[n].out, {e \in E : es[e][1] = n})

ChangeTold ==
    \/ change = NoChange
    \/ /\ change.op = "insert" /\ change.row \in Valid(edges) /\ task = Idle
       /\ ends[change.row] = NoEnds
       /\ spanning = NoTree
    \/ /\ change.op = "source" /\ change.row \in Valid(edges) /\ task = Idle
       /\ ends[change.row] \in Valid(nodes) \X {-1}
       /\ spanning = NoTree
    \/ /\ change.op = "update" /\ change.row \in Valid(edges) /\ task = Idle
       /\ change.old \in Valid(nodes) \X (Valid(nodes) \cup {-1})
    \/ /\ change.op = "edge" /\ change.row \in Valid(edges)
       /\ task.op # "search" /\ spanning = NoTree
    \/ /\ change.op = "node" /\ change.row \in Valid(nodes)
       /\ task.op \in {"idle", "edges"} /\ spanning = NoTree

RemovalAtLast ==
    task.op \in {"in", "out"} =>
        /\ task.node \in Valid(nodes)
        /\ task.i = Len(LinksOf(task.node, task.op))
        /\ task.op = "out" => links[task.node].in = <<>>

SearchInGraph ==
    IF task.op = "search"
    THEN /\ task.node \in search.reached /\ search.reached \subseteq Valid(nodes)
         /\ ToSet(search.queue) \subseteq search.reached
    ELSE search = NoSearch

GraphInv ==
    /\ GraphTypeOK
    /\ linkRows = knownRows
    /\ EndsLive
    /\ Linked(links, knownEdges, knownEnds)
    /\ TuplesLive
    /\ ChangeTold
    /\ RemovalAtLast
    /\ SearchInGraph

\* A spanning tree that was built to the end spans what is connected to its
\* root now.  One whose search was cut short by an exception need not, and is
\* returned all the same when it is asked for again.
SpanningFresh ==
    LET Next(S) == S \cup {n \in Valid(nodes) : \E e \in knownEdges :
                        \E i \in 1..2 : knownEnds[e][i] = n /\ knownEnds[e][3 - i] \in S}
        grown[k \in Nat] == IF k = 0 THEN {spanning.root} ELSE Next(grown[k - 1])
    IN  spanning # NoTree /\ spanning.whole => spanning.reached = grown[MaxNodes]

\* The graph as its tables have it when a listener is told of a change.
edgeEnds == [e \in Valid(edges) |-> ends[e]]
multigraph == <<Valid(nodes), edgeEnds>>
M == INSTANCE Multigraph WITH Ids <- 0 .. MaxNodes + MaxEdges, None <- -1,
                              V <- Valid(nodes), ends <- edgeEnds
=============================================================================
