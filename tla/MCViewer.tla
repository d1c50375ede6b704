------------------------------ MODULE MCViewer ------------------------------
(***************************************************************************)
(* Small call graphs for Viewer.                                           *)
(***************************************************************************)
EXTENDS Viewer

\* Every graph of three functions in which the first calls each of the others
\* at most once, in either order, and each of them any function once or none.
ThreeFunctions ==
    {<<f, g, h>> : f \in {<<>>, <<2>>, <<2, 3>>, <<3, 2>>},
                   g \in {<<>>, <<1>>, <<2>>, <<3>>},
                   h \in {<<>>, <<1>>, <<2>>, <<3>>}}
TwoFunctions == {<< <<2>>, <<>> >>, << <<2>>, <<1>> >>}
=============================================================================
