-------------------------- MODULE MCGraphMLReader --------------------------
(***************************************************************************)
(* Files for GraphMLReader.                                                *)
(***************************************************************************)
EXTENDS GraphMLReader

CONSTANTS a, b, v, w, k1, k2, k3, k4, k5, x, y

\* Two columns, one of which a key of each table may ask for or one of both,
\* and a key for neither table.
SomeKeys == {[id |-> k1, for |-> "node", name |-> x],
             [id |-> k2, for |-> "all", name |-> x],
             [id |-> k3, for |-> "edge", name |-> y],
             [id |-> k4, for |-> "other", name |-> y],
             [id |-> k5, for |-> "edge", name |-> x]}
=============================================================================
