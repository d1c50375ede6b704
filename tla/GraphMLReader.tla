--------------------------- MODULE GraphMLReader ---------------------------
(***************************************************************************)
(* prefuse.data.io.GraphMLReader, which reads the profiler's files, and    *)
(* the Graph it makes, which is edited afterwards.                         *)
(*                                                                         *)
(* A file is a sequence of elements; the XML parser sees to their nesting  *)
(* and calls the handler.  An element in which the handler has nothing to  *)
(* tell apart (key with its default, data with its value) is one step, and *)
(* every exception ends the reading.  Texts are values: those that do not  *)
(* parse as the key's type are in Unreadable.  doc is the history of what  *)
(* was read, until the graph is edited.                                    *)
(***************************************************************************)
EXTENDS Graph

CONSTANTS
    NodeIds,        \* values of id, source and target
    Keys,           \* records [id, for, name]: what key elements say
    Texts,          \* values of data and default elements
    Unreadable,     \* the ones that are no value of their key's type
    NoText,         \* stands for null
    MaxElements     \* bound on the elements of a file

ASSUME ReaderAssumption ==
    /\ \A k \in Keys : k.for \in {"node", "edge", "all", "other"}
    /\ Unreadable \subseteq Texts
    /\ NoText \notin Texts
    /\ MaxElements \in Nat

VARIABLES
    phase,              \* "schema", "body", "graph", or "refused"
    doc,
    nsch, esch,         \* the schemas: name of a column -> its default
    idMap,              \* m_idMap: id of a key -> name of its column
    nodeMap,            \* m_nodeMap: id of a node -> its row
    m_nodes, m_edges,   \* the rows of both tables
    srcId, trgId,       \* the edge columns with the ids of source and target
    cells,              \* <<table, row, name>> -> value
    m_table, m_row      \* the element data belongs to

schema == <<nsch, esch, idMap>>
rows == <<m_nodes, m_edges>>
columns == <<srcId, trgId, cells>>
place == <<m_table, m_row>>
readerVars == <<phase, doc, nsch, esch, idMap, nodeMap, m_nodes, m_edges,
                srcId, trgId, cells, m_table, m_row>>

Nothing == [x \in {} |-> NoText]

\* What stands in the place of a graph before there is one
EmptyGraph ==
    /\ nodes = NoRows /\ edges = NoRows
    /\ ends = [e \in EdgeRows |-> NoEnds]
    /\ linkRows = NoRows /\ links = [n \in NodeRows |-> NoLinks]
    /\ nodeTuples = NoTuples /\ edgeTuples = NoTuples
    /\ spanning = NoTree
    /\ task = Idle /\ change = NoChange /\ search = NoSearch

\* startDocument
Init ==
    /\ phase = "schema" /\ doc = <<>>
    /\ nsch = Nothing /\ esch = Nothing
    /\ idMap = Nothing /\ nodeMap = Nothing
    /\ m_nodes = NoRows /\ m_edges = NoRows
    /\ srcId = <<>> /\ trgId = <<>> /\ cells = Nothing
    /\ m_table = "none" /\ m_row = -1
    /\ EmptyGraph

-----------------------------------------------------------------------------
Reading == phase \in {"schema", "body"} /\ Len(doc) < MaxElements
Saw(element) == doc' = Append(doc, element)
Refuse ==
    /\ phase' = "refused"
    /\ UNCHANGED <<schema, nodeMap, rows, columns, place, graphVars>>

Put(f, x, v) == [y \in DOMAIN f \cup {x} |-> IF y = x THEN v ELSE f[y]]

\* The schemas a key adds its column to, and those it finds it in.
Tables(k) == CASE k.for = "node" -> {"node"} [] k.for = "edge" -> {"edge"}
               [] k.for = "all" -> {"node", "edge"} [] OTHER -> {}
Schema(table) == IF table = "node" THEN nsch ELSE esch

\* May no key be declared now, or not with this default?
KeyRefused_Late(k, d) ==
    \/ d \in Unreadable
    \/ Tables(k) = {}
    \/ \E t \in Tables(k) : k.name \in DOMAIN Schema(t)
KeyRefused(k, d) ==
    \/ phase # "schema"
    \/ d \in Unreadable
    \/ Tables(k) = {}
    \/ \E t \in Tables(k) : k.name \in DOMAIN Schema(t)

Key(k, d) ==
    /\ Reading
    /\ m_table = "none"
    /\ Saw([tag |-> "key", key |-> k, text |-> d])
    /\ IF KeyRefused(k, d) THEN Refuse
       ELSE /\ nsch' = IF "node" \in Tables(k) THEN Put(nsch, k.name, d) ELSE nsch
            /\ esch' = IF "edge" \in Tables(k) THEN Put(esch, k.name, d) ELSE esch
            /\ idMap' = Put(idMap, k.id, k.name)
            /\ UNCHANGED <<phase, nodeMap, rows, columns, place, graphVars>>

\* The cells with those of a new row, which has its schema's defaults.
Defaults(table, r) ==
    [c \in DOMAIN cells \cup {<<table, r, x>> : x \in DOMAIN Schema(table)} |->
        IF c \in DOMAIN cells THEN cells[c] ELSE Schema(table)[c[3]]]

StartNode(id) ==
    LET r == NewRow(m_nodes) IN
    /\ Reading
    /\ m_table = "none"
    /\ r \in NodeRows
    /\ phase' = "body"
    /\ m_nodes' = AddRow(m_nodes)
    /\ nodeMap' = Put(nodeMap, id, r)
    /\ m_table' = "node" /\ m_row' = r
    /\ cells' = Defaults("node", r)
    /\ Saw([tag |-> "node", id |-> id])
    /\ UNCHANGED <<schema, srcId, trgId, m_edges, graphVars>>

StartEdge(s, t) ==
    LET r == NewRow(m_edges) IN
    /\ Reading
    /\ m_table = "none"
    /\ r \in EdgeRows
    /\ phase' = "body"
    /\ m_edges' = AddRow(m_edges)
    /\ srcId' = Append(srcId, s) /\ trgId' = Append(trgId, t)
    /\ m_table' = "edge" /\ m_row' = r
    /\ cells' = Defaults("edge", r)
    /\ Saw([tag |-> "edge", source |-> s, target |-> t])
    /\ UNCHANGED <<schema, nodeMap, m_nodes, graphVars>>

\* A data element outside of a node or an edge, with an unknown key or one whose
\* column the table has not, or with a text of another type is an exception.
DataRefused(k, v) ==
    \/ m_table = "none"
    \/ k \notin DOMAIN idMap
    \/ m_table # "none" /\ k \in DOMAIN idMap /\ idMap[k] \notin DOMAIN Schema(m_table)
    \/ v \in Unreadable

Data(k, v) ==
    /\ Reading
    /\ Saw([tag |-> "data", key |-> k, text |-> v, inside |-> m_table # "none"])
    /\ IF DataRefused(k, v) THEN Refuse
       ELSE /\ cells' = [cells EXCEPT ![<<m_table, m_row, idMap[k]>>] = v]
            /\ UNCHANGED <<phase, schema, nodeMap, rows, srcId, trgId, place, graphVars>>

EndElement ==
    /\ phase = "body"
    /\ m_table # "none"
    /\ m_table' = "none" /\ m_row' = -1
    /\ UNCHANGED <<phase, doc, schema, nodeMap, rows, columns, graphVars>>

\* Source and target of edge row e, once every node is known.
EndsOf_Swapped(e) == <<nodeMap[trgId[e + 1]], nodeMap[srcId[e + 1]]>>
EndsOf(e) == <<nodeMap[srcId[e + 1]], nodeMap[trgId[e + 1]]>>

\* endDocument: a file without node and edge has no edge table to look at.
EndDocument ==
    LET es == [e \in EdgeRows |-> IF e \in Valid(m_edges) THEN EndsOf(e) ELSE NoEnds]
    IN
    /\ phase \in {"schema", "body"}
    /\ m_table = "none"
    /\ IF phase = "schema" \/ ~(ToSet(srcId) \cup ToSet(trgId) \subseteq DOMAIN nodeMap)
       THEN Refuse
       ELSE /\ phase' = "graph"
            /\ nodes' = m_nodes /\ edges' = m_edges /\ ends' = es
            /\ linkRows' = m_nodes /\ links' = InitLinkTable(m_edges, es)
            /\ UNCHANGED <<schema, nodeMap, rows, columns, place,
                           tuples, spanning, task, change, search>>
    /\ Saw([tag |-> "end"])

Read ==
    \/ \E k \in Keys, d \in Texts \cup {NoText} : Key(k, d)
    \/ \E id \in NodeIds : StartNode(id)
    \/ \E s, t \in NodeIds : StartEdge(s, t)
    \/ \E k \in {key.id : key \in Keys}, v \in Texts : Data(k, v)
    \/ EndElement \/ EndDocument

\* The graph is the application's; the handler and what it knew are gone.
Edit ==
    /\ phase = "graph"
    /\ GraphNext
    /\ doc' = <<>>
    /\ nsch' = Nothing /\ esch' = Nothing /\ idMap' = Nothing
    /\ nodeMap' = Nothing
    /\ m_nodes' = NoRows /\ m_edges' = NoRows
    /\ srcId' = <<>> /\ trgId' = <<>> /\ cells' = Nothing
    /\ UNCHANGED <<phase, place>>

Refused == phase = "refused" /\ UNCHANGED <<readerVars, graphVars>>

Next == Read \/ Edit \/ Refused
Spec == Init /\ [][Next]_<<readerVars, graphVars>>

-----------------------------------------------------------------------------
\* Properties

\* The inductive invariant: the graph is sound from the start, before and
\* while it is edited, and while the document is read there is a row for each
\* element, with the ids of each edge's ends, and each id is that of a row.
ReaderInv ==
    /\ GraphInv
    /\ phase # "graph" => EmptyGraph
    /\ Len(srcId) = Len(trgId)
    /\ srcId \in Seq(NodeIds) /\ trgId \in Seq(NodeIds)
    /\ phase \in {"schema", "body"} =>
          /\ \E n \in 0..MaxNodes : m_nodes = Rows(n)
          /\ Len(srcId) <= MaxEdges /\ m_edges = Rows(Len(srcId))
          /\ \A id \in DOMAIN nodeMap : nodeMap[id] \in Valid(m_nodes)

Tagged(tags) == {i \in DOMAIN doc : doc[i].tag \in tags}
Body == Tagged({"node", "edge"})
KeyElements == Tagged({"key"})
\* The element a data element belongs to, and the key element it names.  That
\* may be one for the other table: what counts is the name of its column.
Owner(i) == Max({j \in Body : j < i})
KeyOf(i) == {k \in KeyElements : /\ doc[k].key.id = doc[i].key
                                 /\ \A j \in KeyElements : doc[j].key.id = doc[i].key => j <= k}

SameName(k) == {j \in KeyElements : doc[j].key.name = doc[k].key.name}

\* What is wrong with the file as far as it was read.
KeyFaults == {i \in KeyElements :
    \/ \E j \in Body : j < i
    \/ Tables(doc[i].key) = {}
    \/ doc[i].text \in Unreadable
    \/ \E j \in KeyElements : /\ j < i
                            /\ doc[j].key.name = doc[i].key.name
                            /\ Tables(doc[j].key) \cap Tables(doc[i].key) # {}}
DataFaults == {i \in Tagged({"data"}) :
    \/ ~doc[i].inside
    \/ doc[i].text \in Unreadable
    \/ \A k \in KeyOf(i) : \A j \in SameName(k) :
          doc[Owner(i)].tag \notin Tables(doc[j].key)}
EdgeFaults == {i \in Tagged({"edge"}) :
    \E id \in {doc[i].source, doc[i].target} :
        \A j \in Tagged({"node"}) : doc[j].id # id}
Faulty ==
    \/ KeyFaults # {} \/ DataFaults # {}
    \/ Tagged({"end"}) # {} /\ (EdgeFaults # {} \/ Body = {})

\* A file is refused if and only if it has a fault: an edge to a node that no
\* element defines, before it or behind it, a late or repeated key, a value
\* without a key or of another type, or nothing to show.
RefusedForReason ==
    /\ phase = "refused" => Faulty
    /\ phase = "graph" => ~Faulty

\* The row of element i: the elements of its kind before it have the rows below.
Row(i) == Cardinality({j \in Tagged({doc[i].tag}) : j < i})
\* The id of the node element that got row r
IdOf(r) == CHOOSE id \in NodeIds : \E j \in Tagged({"node"}) : Row(j) = r /\ doc[j].id = id
\* The values that element i has for the column of key element k: the last one
\* counts, and without one the default of k.
Given(i, k) == {j \in Tagged({"data"}) : Owner(j) = i /\ KeyOf(j) \subseteq SameName(k)}
ValueOf(i, k) == IF Given(i, k) = {} THEN doc[k].text ELSE doc[Max(Given(i, k))].text

\* The graph that was read is the document's: an element for each node and
\* edge in their order, each edge between nodes with the ids it names, and in
\* each column the value the element gives or else the key's default.  It is
\* one that GraphSpec starts from.
GraphIsDocument ==
    phase = "graph" /\ doc # <<>> =>
        /\ GraphInit
        /\ Valid(nodes) = {Row(i) : i \in Tagged({"node"})}
        /\ Valid(edges) = {Row(i) : i \in Tagged({"edge"})}
        /\ \A i \in Tagged({"edge"}) :
              <<IdOf(ends[Row(i)][1]), IdOf(ends[Row(i)][2])>>
                = <<doc[i].source, doc[i].target>>
        /\ \A i \in Body : \A k \in KeyElements :
              doc[i].tag \in Tables(doc[k].key) =>
                cells[<<doc[i].tag, Row(i), doc[k].key.name>>] = ValueOf(i, k)

\* From the moment it is read the graph is a multigraph whenever a listener is
\* told of a change: between two events nothing but the promised step happens,
\* and an edge lacks ends only while the calls that add it send their events.
IsMultigraph ==
    [][IF phase = "graph" THEN M!Next ELSE phase' = "graph" => M!Init']_multigraph
=============================================================================
