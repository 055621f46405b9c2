----------------------------- MODULE MCRequests -----------------------------
(***************************************************************************)
(* Values that a cfg cannot write down.                                    *)
(***************************************************************************)
EXTENDS Requests

\* Two tenants, and two buckets, of which one's name begins with the other's.
AlikeTenants == {<<"t_a">>, <<"t_a", "b">>}
SubPath == <<"teams">>
LakeBucket == {<<"lake">>}
LakeAndNeighbour == {<<"lake", "/", "x">>, <<"lake", "house", "/", "x">>}

\* Two that differ in a type, and one with another column.
ThreeShapes == {[x \in {"x"} |-> "int"], [x \in {"x"} |-> "text"], [x \in {"x", "y"} |-> "int"]}
=============================================================================
