----------------------------- MODULE Multigraph -----------------------------
(***************************************************************************)
(* What a graph promises to those it tells of its changes, without rows    *)
(* and adjacency lists: nodes and edges come and go one at a time, and at  *)
(* no moment, not even between two of the events a removal sends, does an  *)
(* edge end in a node that is gone or a new element take the place of one  *)
(* that is still there.  An edge is added without ends and then gets its   *)
(* source and its target; until it has both, nothing else changes.         *)
(***************************************************************************)
CONSTANTS Ids, None     \* None stands for an end that an edge has not yet
VARIABLES V, ends       \* the nodes; the ends <<source, target>> of the edges

Init == V \in SUBSET Ids /\ \E E \in SUBSET Ids : ends \in [E -> V \X V]

\* No edge is being added.
Settled == \A e \in DOMAIN ends : ends[e] \in V \X V
\* The edges of E keep their ends.
Keeps(E) == \A e \in E : ends'[e] = ends[e]

AddNode == \E n \in Ids \ V :
    /\ Settled
    /\ V' = V \cup {n}
    /\ UNCHANGED ends

RemoveNode == \E n \in V :
    /\ Settled
    /\ \A e \in DOMAIN ends : n \notin {ends[e][1], ends[e][2]}
    /\ V' = V \ {n}
    /\ UNCHANGED ends

AddEdge == \E e \in Ids \ DOMAIN ends :
    /\ Settled
    /\ DOMAIN ends' = DOMAIN ends \cup {e}
    /\ ends'[e] = <<None, None>>
    /\ Keeps(DOMAIN ends)
    /\ UNCHANGED V

\* The edge that is being added gets its source, and then its target.
Attach == \E e \in DOMAIN ends, n \in V :
    /\ DOMAIN ends' = DOMAIN ends
    /\ \/ ends[e] = <<None, None>> /\ ends'[e] = <<n, None>>
       \/ ends[e] \in V \X {None} /\ ends'[e] = <<ends[e][1], n>>
    /\ Keeps(DOMAIN ends \ {e})
    /\ UNCHANGED V

RemoveEdge == \E e \in DOMAIN ends :
    /\ Settled
    /\ DOMAIN ends' = DOMAIN ends \ {e}
    /\ Keeps(DOMAIN ends')
    /\ UNCHANGED V

\* One end of an edge moves.
Redirect == \E e \in DOMAIN ends, n \in V :
    /\ Settled
    /\ DOMAIN ends' = DOMAIN ends
    /\ ends'[e] \in {<<n, ends[e][2]>>, <<ends[e][1], n>>}
    /\ Keeps(DOMAIN ends \ {e})
    /\ UNCHANGED V

Next == AddNode \/ RemoveNode \/ AddEdge \/ Attach \/ RemoveEdge \/ Redirect
Spec == Init /\ [][Next]_<<V, ends>>
=============================================================================
